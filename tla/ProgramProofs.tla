--------------------------- MODULE ProgramProofs ----------------------------
(* The binary pass, the passes together, and the program around them: what   *)
(* is left after preprocessing can be completed to a model of the file and   *)
(* has a model if the file has one, and what main prints is true.            *)
EXTENDS Program, ResolutionProofs

-----------------------------------------------------------------------------
(* Classes of variables, and the assignments that respect them. *)

(* Signs. *)
LEMMA Signs ==
  ASSUME NEW s \in {-1, 1}, NEW t \in {-1, 1}
  PROVE  /\ s * t \in {-1, 1} /\ s * t = t * s /\ s * s = 1
         /\ (s * t = 1 <=> s = t) /\ s # 0
<1>1. CASE s = 1 /\ t = 1
  BY <1>1
<1>2. CASE s = 1 /\ t = -1
  BY <1>2
<1>3. CASE s = -1 /\ t = 1
  BY <1>3
<1>4. CASE s = -1 /\ t = -1
  BY <1>4
<1> QED BY <1>1, <1>2, <1>3, <1>4

(* A number with a sign is a literal. *)
LEMMA SignedNumber ==
  ASSUME NEW n \in Nat, NEW w \in 1..n, NEW s \in {-1, 1}
  PROVE  s * w \in Literals(n) /\ VarOf(s * w) = w /\ pnsign(s * w) = s
BY VarLiteral

(* An assignment that keeps every class together: each variable has the      *)
(* value of its root, up to the sign, and a fixed root its value.            *)
Respects(u, x) ==
  \A v \in 1..vars :
    /\ x[v] = pnsign(u.rep[v]) * x[Root(u, v)]
    /\ u.varval[Root(u, v)] # 0 => x[Root(u, v)] = u.varval[Root(u, v)]

(* The classes of a turn, with what Merged records about them.               *)
ClassSet ==
  {u \in [rep : [1..vars -> Literals(vars)], varval : Partial(vars),
          consistent : BOOLEAN, changed : BOOLEAN] : WellFormed(u) /\ Untouched(u)}

(* The root of a variable is a variable, its own root, with a sign. *)
LEMMA RootFacts ==
  ASSUME vars \in Nat, NEW u, WellFormed(u), NEW v \in 1..vars
  PROVE  /\ Root(u, v) \in 1..vars /\ u.rep[v] \in Literals(vars) /\ pnsign(u.rep[v]) \in {-1, 1}
         /\ u.rep[v] = Root(u, v) * pnsign(u.rep[v])
         /\ u.rep[Root(u, v)] = Root(u, v) /\ Root(u, Root(u, v)) = Root(u, v)
         /\ u.varval[Root(u, v)] \in {-1, 0, 1}
<1>1. u.rep \in [1 .. vars -> Literals(vars)] /\ u.varval \in Partial(vars)
      /\ u.rep[Root(u, v)] = Root(u, v)
  BY DEF WellFormed
<1>2. u.rep[v] \in Literals(vars)
  BY <1>1
<1>3. VarOf(u.rep[v]) \in 1..vars /\ pnsign(u.rep[v]) \in {-1, 1}
      /\ u.rep[v] = VarOf(u.rep[v]) * pnsign(u.rep[v])
  BY <1>2, LiteralFacts
<1>4. Root(u, v) = VarOf(u.rep[v])
  BY DEF Root
<1>5. VarOf(Root(u, v)) = Root(u, v)
  BY <1>3, <1>4, VarLiteral
<1>6. Root(u, Root(u, v)) = Root(u, v)
  <2>1. Root(u, Root(u, v)) = VarOf(u.rep[Root(u, v)])
    BY DEF Root
  <2> QED
    BY <1>1, <1>5, <2>1
<1>7. u.varval[Root(u, v)] \in {-1, 0, 1}
  BY <1>1, <1>3, <1>4 DEF Partial
<1> QED
  BY <1>1, <1>2, <1>3, <1>4, <1>6, <1>7

(* A literal and the literal of its root. *)
LEMMA RootLiteral ==
  ASSUME vars \in Nat, NEW u, WellFormed(u), NEW l \in Literals(vars)
  PROVE  /\ RootLit(u, l) \in Literals(vars) /\ VarOf(RootLit(u, l)) = Root(u, VarOf(l))
         /\ pnsign(RootLit(u, l)) = pnsign(l) * pnsign(u.rep[VarOf(l)])
         /\ VarOf(RootLit(u, l)) \in 1..vars /\ pnsign(RootLit(u, l)) \in {-1, 1}
         /\ RootValue(u, l) = pnsign(RootLit(u, l)) * u.varval[Root(u, VarOf(l))]
         /\ RootValue(u, l) \in {-1, 0, 1}
         /\ RootValue(u, l) = 0 <=> u.varval[Root(u, VarOf(l))] = 0
         /\ u.varval[Root(u, VarOf(l))] \in {-1, 0, 1}
<1> DEFINE v == VarOf(l)
           s == pnsign(u.rep[v])
           t == pnsign(l)
           w == Root(u, v)
<1>1. v \in 1..vars /\ t \in {-1, 1}
  BY LiteralFacts
<1>2. w \in 1..vars /\ s \in {-1, 1} /\ u.rep[v] = w * s /\ u.varval[w] \in {-1, 0, 1}
  BY <1>1, RootFacts
<1>3. RootLit(u, l) = t * u.rep[v]
  BY DEF RootLit
<1> HIDE DEF v, s, t, w
<1>4. RootLit(u, l) = (t * s) * w
  <2>1. w \in Int /\ u.rep[v] = w * s
    BY <1>2
  <2>2. CASE t = 1
    BY <1>2, <1>3, <2>1, <2>2
  <2>3. CASE t = -1
    BY <1>2, <1>3, <2>1, <2>3
  <2> QED BY <1>1, <2>2, <2>3
<1>5. t * s \in {-1, 1}
  BY <1>1, <1>2, Signs
<1> DEFINE ts == t * s
<1>6. ts \in {-1, 1} /\ RootLit(u, l) = ts * w
  BY <1>4, <1>5
<1> HIDE DEF ts
<1>7. ts * w \in Literals(vars) /\ VarOf(ts * w) = w /\ pnsign(ts * w) = ts
  BY <1>2, <1>6, SignedNumber
<1>8. RootValue(u, l) = ts * u.varval[w]
  BY <1>6, <1>7 DEF RootValue
<1>9. ts * u.varval[w] \in {-1, 0, 1} /\ (ts * u.varval[w] = 0 <=> u.varval[w] = 0)
  <2>1. CASE ts = 1
    BY <1>2, <2>1
  <2>2. CASE ts = -1
    BY <1>2, <2>2
  <2> QED BY <1>6, <2>1, <2>2
<1> QED
  BY <1>2, <1>6, <1>7, <1>8, <1>9 DEF v, s, t, w, ts

(* Under an assignment that respects the classes, a literal is true exactly  *)
(* if the literal of its root is.                                            *)
LEMMA RootLiteralTrue ==
  ASSUME vars \in Nat, NEW u, WellFormed(u), NEW l \in Literals(vars), NEW x \in Total(vars), Respects(u, x)
  PROVE  /\ x[VarOf(l)] = pnsign(l) <=> x[VarOf(RootLit(u, l))] = pnsign(RootLit(u, l))
         /\ RootValue(u, l) = 1 => x[VarOf(l)] = pnsign(l)
         /\ RootValue(u, l) = -1 => x[VarOf(l)] # pnsign(l)
<1> DEFINE v == VarOf(l)
           s == pnsign(u.rep[v])
           t == pnsign(l)
           w == Root(u, v)
           val == u.varval[w]
<1>1. v \in 1..vars /\ t \in {-1, 1}
  BY LiteralFacts
<1>2. w \in 1..vars /\ s \in {-1, 1} /\ val \in {-1, 0, 1}
  BY <1>1, RootFacts
<1>3. VarOf(RootLit(u, l)) = w /\ pnsign(RootLit(u, l)) = t * s /\ RootValue(u, l) = (t * s) * val
  BY RootLiteral
<1>4. x[v] = s * x[w] /\ (val # 0 => x[w] = val)
  BY <1>1 DEF Respects
<1>5. x[v] \in {-1, 1} /\ x[w] \in {-1, 1}
  BY <1>1, <1>2 DEF Total
<1> DEFINE xv == x[v]
           xw == x[w]
<1> HIDE DEF v, s, t, w, val, xv, xw
<1>6. /\ xv = t <=> xw = t * s
      /\ (t * s) * val = 1 => xv = t
      /\ (t * s) * val = -1 => xv # t
  <2>1. xv = s * xw /\ (val # 0 => xw = val) /\ xv \in {-1, 1} /\ xw \in {-1, 1}
    BY <1>4, <1>5 DEF xv, xw
  <2>2. CASE s = 1
    BY <1>1, <1>2, <2>1, <2>2
  <2>3. CASE s = -1
    BY <1>1, <1>2, <2>1, <2>3
  <2> QED BY <1>2, <2>2, <2>3
<1> QED
  BY <1>3, <1>6 DEF v, s, t, w, val, xv, xw

(* What an assignment becomes when every variable follows its root. *)
Closure(u, b) ==
  [v \in 1..vars |-> IF RootValue(u, v) # 0 THEN RootValue(u, v) ELSE pnsign(u.rep[v]) * b[Root(u, v)]]

(* An assignment closed under the classes respects them, and is the same     *)
(* where a variable is a free root.                                          *)
LEMMA ClosureFacts ==
  ASSUME vars \in Nat, NEW u, WellFormed(u), NEW b \in Total(vars)
  PROVE  /\ Closure(u, b) \in Total(vars) /\ Respects(u, Closure(u, b))
         /\ \A v \in 1..vars : u.rep[v] = v /\ u.varval[v] = 0 => Closure(u, b)[v] = b[v]
         /\ Respects(u, b) => Closure(u, b) = b
<1> DEFINE s(v) == pnsign(u.rep[v])
           w(v) == Root(u, v)
           val(v) == u.varval[w(v)]
           x == Closure(u, b)
<1>1. ASSUME NEW v \in 1..vars
      PROVE  /\ w(v) \in 1..vars /\ s(v) \in {-1, 1} /\ val(v) \in {-1, 0, 1}
             /\ u.rep[w(v)] = w(v) /\ w(w(v)) = w(v) /\ s(w(v)) = 1
             /\ RootValue(u, v) = s(v) * val(v)
             /\ b[v] \in {-1, 1} /\ b[w(v)] \in {-1, 1}
  <2>1. v \in Literals(vars) /\ VarOf(v) = v /\ pnsign(v) = 1
    BY VarLiteral
  <2>2. w(v) \in 1..vars /\ s(v) \in {-1, 1} /\ val(v) \in {-1, 0, 1}
        /\ u.rep[w(v)] = w(v) /\ w(w(v)) = w(v)
    BY RootFacts
  <2>3. s(w(v)) = 1
    BY <2>2, VarLiteral
  <2>4. RootValue(u, v) = (1 * s(v)) * val(v)
    BY <2>1, RootLiteral
  <2>5. 1 * s(v) = s(v)
    BY <2>2
  <2> QED
    BY <2>2, <2>3, <2>4, <2>5 DEF Total
<1> HIDE DEF s, w, val
<1>2. ASSUME NEW v \in 1..vars
      PROVE  x[v] = IF s(v) * val(v) # 0 THEN s(v) * val(v) ELSE s(v) * b[w(v)]
  BY <1>1 DEF Closure, s, w
<1> HIDE DEF x
<1>3. ASSUME NEW v \in 1..vars
      PROVE  /\ x[v] \in {-1, 1} /\ x[v] = s(v) * x[w(v)]
             /\ val(v) # 0 => x[w(v)] = val(v)
             /\ val(v) = 0 => x[w(v)] = b[w(v)]
             /\ val(v) = 0 => x[v] = s(v) * b[w(v)]
             /\ val(v) # 0 => x[v] = s(v) * val(v)
  <2>1. val(w(v)) = val(v)
    BY <1>1 DEF val
  <2>2. x[w(v)] = IF 1 * val(v) # 0 THEN 1 * val(v) ELSE 1 * b[w(v)]
    BY <1>1, <1>2, <2>1
  <2>3. x[w(v)] = IF val(v) # 0 THEN val(v) ELSE b[w(v)]
    BY <1>1, <2>2
  <2>4. CASE s(v) = 1
    BY <1>1, <1>2, <2>3, <2>4
  <2>5. CASE s(v) = -1
    BY <1>1, <1>2, <2>3, <2>5
  <2> QED BY <1>1, <2>4, <2>5
<1>4. x \in Total(vars)
  <2>1. x = [v \in 1..vars |-> x[v]]
    BY DEF x, Closure
  <2> QED
    BY <1>3, <2>1 DEF Total
<1>5. Respects(u, x)
  BY <1>3 DEF Respects, s, w, val
<1>6. ASSUME NEW v \in 1..vars, u.rep[v] = v, u.varval[v] = 0 PROVE x[v] = b[v]
  <2>1. w(v) = v
    BY <1>6, VarLiteral DEF w, Root
  <2>2. val(v) = 0 /\ x[w(v)] = b[w(v)]
    BY <1>3, <1>6, <2>1 DEF val
  <2> QED
    BY <2>1, <2>2
<1>7. ASSUME Respects(u, b) PROVE x = b
  <2>1. \A v \in 1..vars : b[v] = s(v) * b[w(v)] /\ (val(v) # 0 => b[w(v)] = val(v))
    BY <1>7 DEF Respects, s, w, val
  <2>2. \A v \in 1..vars : x[v] = b[v]
    BY <1>3, <2>1
  <2> QED
    BY <1>4, <2>2 DEF Total
<1> QED
  BY <1>4, <1>5, <1>6, <1>7 DEF x

(* An action of preprocess_binary, and an assignment that obeys it.          *)
ActionSet ==
  [first : (1..vars) \ in_cardinality, second : {0} \cup ((1..vars) \ in_cardinality), value : {-1, 1}]

Obeys(x, y) ==
  IF y.second = 0 THEN x[y.first] = y.value ELSE x[y.first] = y.value * x[y.second]

(* What an action makes of the classes, apart from what it may contradict.   *)
Applied(u, y) ==
  LET w == Apply(u, y)
  IN  /\ w \in ClassSet
      /\ \A x \in Total(vars) :
           w.consistent /\ Respects(w, x) <=> u.consistent /\ Respects(u, x) /\ Obeys(x, y)
      /\ ~w.changed => ~u.changed /\ w.rep = u.rep /\ w.varval = u.varval

(* A fixed value, given to the root of a variable (binary.cpp:65-86): the    *)
(* classes stay well-formed, and are respected by exactly the assignments    *)
(* that respected them and obey the value, unless there is a conflict and    *)
(* none do.                                                                  *)
LEMMA AssignValueApplied ==
  ASSUME vars \in Nat, NEW u \in ClassSet, NEW y \in ActionSet, y.second = 0
  PROVE  Applied(u, y)
<1> DEFINE v == y.first
           r == Root(u, v)
           s == pnsign(u.rep[v])
           value == y.value * s
           w == Apply(u, y)
<1>1. /\ u \in [rep : [1..vars -> Literals(vars)], varval : Partial(vars), consistent : BOOLEAN, changed : BOOLEAN]
      /\ WellFormed(u) /\ Untouched(u)
      /\ v \in 1..vars /\ v \notin in_cardinality /\ y.value \in {-1, 1}
  BY DEF ClassSet, ActionSet
<1>2. r \in 1..vars /\ s \in {-1, 1} /\ u.varval[r] \in {-1, 0, 1} /\ r \notin in_cardinality
  BY <1>1, RootFacts DEF Untouched
<1>3. w = IF u.varval[r] = 0
          THEN [u EXCEPT !.varval[r] = value, !.changed = TRUE]
          ELSE [u EXCEPT !.consistent = u.consistent /\ u.varval[r] = value]
  BY DEF Apply, AssignValue
<1>4. value \in {-1, 1}
  BY <1>1, <1>2, Signs
<1>5. ASSUME NEW x \in Total(vars), Respects(u, x)
      PROVE  x[r] \in {-1, 1} /\ (Obeys(x, y) <=> x[r] = value) /\ (u.varval[r] # 0 => x[r] = u.varval[r])
  <2>1. x[v] = s * x[r] /\ (u.varval[r] # 0 => x[r] = u.varval[r])
    BY <1>1, <1>5 DEF Respects
  <2>2. x[r] \in {-1, 1}
    BY <1>2 DEF Total
  <2>3. Obeys(x, y) <=> x[v] = y.value
    BY DEF Obeys
  <2> DEFINE a == x[v]
             b == x[r]
             c == y.value
  <2>4. a = s * b /\ b \in {-1, 1} /\ c \in {-1, 1} /\ s \in {-1, 1}
    BY <1>1, <1>2, <2>1, <2>2
  <2> HIDE DEF a, b, c, s
  <2>5. a = c <=> b = c * s
    <3>1. CASE s = 1
      BY <2>4, <3>1
    <3>2. CASE s = -1
      BY <2>4, <3>2
    <3> QED BY <2>4, <3>1, <3>2
  <2> QED
    BY <2>1, <2>2, <2>3, <2>5 DEF a, b, c
<1> HIDE DEF v, r, s, value, w
<1>6. CASE u.varval[r] = 0
  <2>1. w = [rep |-> u.rep, varval |-> [u.varval EXCEPT ![r] = value],
             consistent |-> u.consistent, changed |-> TRUE]
    BY <1>1, <1>3, <1>6
  <2>2. w.rep = u.rep /\ w.varval = [u.varval EXCEPT ![r] = value] /\ w.consistent = u.consistent
        /\ w.changed = TRUE
    BY <2>1
  <2>3. \A z : Root(w, z) = Root(u, z)
    BY <2>2 DEF Root
  <2>4. w.varval \in Partial(vars) /\ \A z \in 1..vars : w.varval[z] = IF z = r THEN value ELSE u.varval[z]
    BY <1>1, <1>2, <1>4, <2>2 DEF Partial
  <2>5. WellFormed(w) /\ Untouched(w)
    <3>1. WellFormed(w)
      BY <1>1, <2>2, <2>3, <2>4 DEF WellFormed
    <3>2. \A z \in in_cardinality : w.rep[z] = z /\ w.varval[z] = 0
      <4>1. \A z \in in_cardinality : z # r
        BY <1>2
      <4>2. \A z \in in_cardinality : u.rep[z] = z /\ u.varval[z] = 0
        BY <1>1 DEF Untouched
      <4>3. \A z \in in_cardinality : w.varval[z] = u.varval[z]
        BY <1>1, <2>2, <4>1 DEF Partial
      <4> QED
        BY <2>2, <4>2, <4>3
    <3>3. \A z \in 1..vars : Root(w, z) \in in_cardinality => Root(w, z) = z
      BY <1>1, <2>3 DEF Untouched
    <3> QED
      BY <3>1, <3>2, <3>3 DEF Untouched
  <2>6. w \in ClassSet
    BY <1>1, <2>1, <2>4, <2>5 DEF ClassSet
  <2>7. ASSUME NEW x \in Total(vars)
        PROVE  w.consistent /\ Respects(w, x) <=> u.consistent /\ Respects(u, x) /\ Obeys(x, y)
    <3>1. ASSUME Respects(u, x), Obeys(x, y) PROVE Respects(w, x)
      <4>1. x[r] = value
        BY <1>5, <3>1
      <4> SUFFICES ASSUME NEW z \in 1..vars
                   PROVE  x[z] = pnsign(w.rep[z]) * x[Root(w, z)]
                          /\ (w.varval[Root(w, z)] # 0 => x[Root(w, z)] = w.varval[Root(w, z)])
        BY DEF Respects
      <4>2. Root(u, z) \in 1..vars
        BY <1>1, RootFacts
      <4> QED
        BY <2>2, <2>3, <2>4, <3>1, <4>1, <4>2 DEF Respects
    <3>2. ASSUME Respects(w, x) PROVE Respects(u, x) /\ Obeys(x, y)
      <4>1. Respects(u, x)
        <5> SUFFICES ASSUME NEW z \in 1..vars
                     PROVE  x[z] = pnsign(u.rep[z]) * x[Root(u, z)]
                            /\ (u.varval[Root(u, z)] # 0 => x[Root(u, z)] = u.varval[Root(u, z)])
          BY DEF Respects
        <5>1. Root(u, z) \in 1..vars
          BY <1>1, RootFacts
        <5> QED
          BY <1>6, <2>2, <2>3, <2>4, <3>2, <5>1 DEF Respects
      <4>2. x[r] = value
        <5>1. w.varval[r] = value /\ value # 0
          BY <1>2, <1>4, <2>4
        <5>2. w.varval[Root(w, v)] # 0 => x[Root(w, v)] = w.varval[Root(w, v)]
          BY <1>1, <3>2 DEF Respects
        <5>3. Root(w, v) = r
          BY <2>3 DEF r
        <5> QED
          BY <5>1, <5>2, <5>3
      <4> QED
        BY <1>5, <4>1, <4>2
    <3> QED
      BY <2>2, <3>1, <3>2
  <2> QED
    BY <2>2, <2>6, <2>7 DEF Applied, w
<1>7. CASE u.varval[r] # 0
  <2>1. w = [rep |-> u.rep, varval |-> u.varval,
             consistent |-> (u.consistent /\ u.varval[r] = value), changed |-> u.changed]
    BY <1>1, <1>3, <1>7
  <2>2. /\ w.rep = u.rep /\ w.varval = u.varval /\ w.changed = u.changed
        /\ w.consistent = (u.consistent /\ u.varval[r] = value)
    BY <2>1
  <2>3. \A z : Root(w, z) = Root(u, z)
    BY <2>2 DEF Root
  <2>4. WellFormed(w) /\ Untouched(w)
    BY <1>1, <2>2, <2>3 DEF WellFormed, Untouched
  <2>5. w \in ClassSet
    BY <1>1, <2>1, <2>4 DEF ClassSet
  <2>6. \A x : Respects(w, x) <=> Respects(u, x)
    BY <2>2, <2>3 DEF Respects
  <2>7. ASSUME NEW x \in Total(vars)
        PROVE  w.consistent /\ Respects(w, x) <=> u.consistent /\ Respects(u, x) /\ Obeys(x, y)
    BY <1>5, <1>7, <2>2, <2>6
  <2> QED
    BY <2>2, <2>5, <2>7 DEF Applied, w
<1> QED BY <1>6, <1>7

(* The values of two roots before one is put under the other, and of the     *)
(* root that stays, as far as an assignment is concerned.                    *)
LEMMA ValuesMerged ==
  ASSUME NEW edge \in {-1, 1}, NEW xc \in {-1, 1}, NEW xp \in {-1, 1},
         NEW vc \in {-1, 0, 1}, NEW vp \in {-1, 0, 1}, xc = edge * xp
  PROVE  LET value == IF vp # 0 THEN vp ELSE edge * vc
         IN  (vc = 0 \/ vp = 0 \/ vc = edge * vp) /\ (value # 0 => xp = value)
               <=> (vc # 0 => xc = vc) /\ (vp # 0 => xp = vp)
<1>1. CASE edge = 1
  <2>1. CASE vp = 0
    BY <1>1, <2>1
  <2>2. CASE vp # 0
    BY <1>1, <2>2
  <2> QED BY <2>1, <2>2
<1>2. CASE edge = -1
  <2>1. CASE vp = 0 /\ vc = 0
    BY <1>2, <2>1
  <2>2. CASE vp = 0 /\ vc = 1
    BY <1>2, <2>2
  <2>3. CASE vp = 0 /\ vc = -1
    BY <1>2, <2>3
  <2>4. CASE vp = 1
    BY <1>2, <2>4
  <2>5. CASE vp = -1
    BY <1>2, <2>5
  <2> QED BY <2>1, <2>2, <2>3, <2>4, <2>5
<1> QED BY <1>1, <1>2

(* Two classes become one (binary.cpp:17-62): the same, for the relation     *)
(* between their variables.                                                  *)
LEMMA UniteApplied ==
  ASSUME vars \in Nat, in_cardinality \subseteq 1..vars,
         NEW u \in ClassSet, NEW y \in ActionSet, y.second # 0
  PROVE  Applied(u, y)
<1> DEFINE v1 == y.first
           v2 == y.second
           a == Root(u, v1)
           b == Root(u, v2)
           s1 == pnsign(u.rep[v1])
           s2 == pnsign(u.rep[v2])
           edge == y.value * s1 * s2
           w == Apply(u, y)
<1>1. /\ u \in [rep : [1..vars -> Literals(vars)], varval : Partial(vars), consistent : BOOLEAN, changed : BOOLEAN]
      /\ WellFormed(u) /\ Untouched(u)
      /\ v1 \in 1..vars /\ v1 \notin in_cardinality /\ y.value \in {-1, 1}
      /\ v2 \in 1..vars /\ v2 \notin in_cardinality
  BY DEF ClassSet, ActionSet
<1>2. /\ a \in 1..vars /\ s1 \in {-1, 1} /\ u.varval[a] \in {-1, 0, 1} /\ a \notin in_cardinality
      /\ b \in 1..vars /\ s2 \in {-1, 1} /\ u.varval[b] \in {-1, 0, 1} /\ b \notin in_cardinality
      /\ Root(u, a) = a /\ Root(u, b) = b /\ u.rep[a] = a /\ u.rep[b] = b
  <2>1. /\ a \in 1..vars /\ s1 \in {-1, 1} /\ u.varval[a] \in {-1, 0, 1}
        /\ Root(u, a) = a /\ u.rep[a] = a
    BY <1>1, RootFacts
  <2>2. /\ b \in 1..vars /\ s2 \in {-1, 1} /\ u.varval[b] \in {-1, 0, 1}
        /\ Root(u, b) = b /\ u.rep[b] = b
    BY <1>1, RootFacts
  <2>3. /\ a \in in_cardinality => a = v1
        /\ b \in in_cardinality => b = v2
    BY <1>1 DEF Untouched
  <2> QED
    BY <1>1, <2>1, <2>2, <2>3
<1>3. edge \in {-1, 1}
  <2>1. y.value * s1 \in {-1, 1}
    BY <1>1, <1>2, Signs
  <2> DEFINE q == y.value * s1
  <2> HIDE DEF q
  <2>2. q \in {-1, 1} /\ edge = q * s2
    BY <2>1 DEF q
  <2> QED
    BY <1>2, <2>2, Signs
<1>4. ASSUME NEW x \in Total(vars), Respects(u, x)
      PROVE  /\ x[a] \in {-1, 1} /\ x[b] \in {-1, 1} /\ (Obeys(x, y) <=> x[a] = edge * x[b])
             /\ x[a] = edge * x[b] <=> x[b] = edge * x[a]
             /\ u.varval[a] # 0 => x[a] = u.varval[a]
             /\ u.varval[b] # 0 => x[b] = u.varval[b]
  <2>1. x[v1] = s1 * x[a] /\ x[v2] = s2 * x[b]
        /\ (u.varval[a] # 0 => x[a] = u.varval[a])
        /\ (u.varval[b] # 0 => x[b] = u.varval[b])
    BY <1>1, <1>4 DEF Respects
  <2>2. x[a] \in {-1, 1} /\ x[b] \in {-1, 1}
    BY <1>2 DEF Total
  <2>3. Obeys(x, y) <=> x[v1] = y.value * x[v2]
    BY DEF Obeys
  <2> DEFINE x1 == x[v1]
             x2 == x[v2]
             xa == x[a]
             xb == x[b]
             k == y.value
  <2>4. x1 = s1 * xa /\ x2 = s2 * xb /\ xa \in {-1, 1} /\ xb \in {-1, 1} /\ k \in {-1, 1}
        /\ s1 \in {-1, 1} /\ s2 \in {-1, 1} /\ edge = k * s1 * s2
    BY <1>1, <1>2, <2>1, <2>2
  <2> HIDE DEF x1, x2, xa, xb, k, s1, s2, edge
  <2>5. (x1 = k * x2 <=> xa = edge * xb) /\ (xa = edge * xb <=> xb = edge * xa)
    <3>1. CASE s1 = 1 /\ s2 = 1
      BY <2>4, <3>1
    <3>2. CASE s1 = 1 /\ s2 = -1
      BY <2>4, <3>2
    <3>3. CASE s1 = -1 /\ s2 = 1
      BY <2>4, <3>3
    <3>4. CASE s1 = -1 /\ s2 = -1
      BY <2>4, <3>4
    <3> QED BY <2>4, <3>1, <3>2, <3>3, <3>4
  <2> QED
    BY <2>1, <2>2, <2>3, <2>5 DEF x1, x2, xa, xb, k
<1>5. w = Unite(u, v1, v2, y.value)
  BY DEF Apply
<1>6. CASE a = b
  <2>1. w = [u EXCEPT !.consistent = u.consistent /\ edge = 1]
    BY <1>5, <1>6 DEF Unite
  <2> HIDE DEF edge, w
  <2>2. w = [rep |-> u.rep, varval |-> u.varval,
             consistent |-> (u.consistent /\ edge = 1), changed |-> u.changed]
    BY <1>1, <2>1
  <2>3. /\ w.rep = u.rep /\ w.varval = u.varval /\ w.changed = u.changed
        /\ w.consistent = (u.consistent /\ edge = 1)
    BY <2>2
  <2>4. \A z : Root(w, z) = Root(u, z)
    BY <2>3 DEF Root
  <2>5. WellFormed(w) /\ Untouched(w)
    BY <1>1, <2>3, <2>4 DEF WellFormed, Untouched
  <2>6. w \in ClassSet
    BY <1>1, <2>2, <2>5 DEF ClassSet
  <2>7. \A x : Respects(w, x) <=> Respects(u, x)
    BY <2>3, <2>4 DEF Respects
  <2>8. ASSUME NEW x \in Total(vars), Respects(u, x)
        PROVE  Obeys(x, y) <=> edge = 1
    <3> DEFINE xa == x[a]
    <3>1. xa \in {-1, 1} /\ (Obeys(x, y) <=> xa = edge * xa)
      BY <1>4, <1>6, <2>8
    <3> HIDE DEF xa
    <3>2. xa = edge * xa <=> edge = 1
      <4>1. CASE edge = 1
        BY <3>1, <4>1
      <4>2. CASE edge = -1
        BY <3>1, <4>2
      <4> QED BY <1>3, <4>1, <4>2
    <3> QED
      BY <3>1, <3>2
  <2>9. ASSUME NEW x \in Total(vars)
        PROVE  w.consistent /\ Respects(w, x) <=> u.consistent /\ Respects(u, x) /\ Obeys(x, y)
    BY <2>3, <2>7, <2>8
  <2> QED
    BY <2>3, <2>6, <2>9 DEF Applied, w
<1>7. CASE a # b
  <2> DEFINE va == u.varval[a]
             vb == u.varval[b]
  <2>1. PICK c \in {a, b}, p \in {a, b} :
          /\ c # p
          /\ LET value == IF u.varval[p] # 0 THEN u.varval[p] ELSE edge * u.varval[c]
             IN w = [rep |-> [v \in DOMAIN u.rep |->
                                IF Root(u, v) = c THEN pnsign(u.rep[v]) * edge * p ELSE u.rep[v]],
                     varval |-> [u.varval EXCEPT ![p] = value, ![c] = 0],
                     consistent |-> (u.consistent /\ (va * vb = 0 \/ va = edge * vb)),
                     changed |-> TRUE]
    <3> DEFINE smaller == Cardinality(Class(u, a)) <= Cardinality(Class(u, b))
    <3>1. CASE smaller
      <4> SUFFICES
            LET value == IF u.varval[b] # 0 THEN u.varval[b] ELSE edge * u.varval[a]
             IN w = [rep |-> [v \in DOMAIN u.rep |->
                                IF Root(u, v) = a THEN pnsign(u.rep[v]) * edge * b ELSE u.rep[v]],
                     varval |-> [u.varval EXCEPT ![b] = value, ![a] = 0],
                     consistent |-> (u.consistent /\ (va * vb = 0 \/ va = edge * vb)),
                     changed |-> TRUE]
        BY <1>7, Zenon
      <4> QED
        BY <1>5, <1>7, <3>1, Zenon DEF Unite
    <3>2. CASE ~smaller
      <4> SUFFICES
            LET value == IF u.varval[a] # 0 THEN u.varval[a] ELSE edge * u.varval[b]
             IN w = [rep |-> [v \in DOMAIN u.rep |->
                                IF Root(u, v) = b THEN pnsign(u.rep[v]) * edge * a ELSE u.rep[v]],
                     varval |-> [u.varval EXCEPT ![a] = value, ![b] = 0],
                     consistent |-> (u.consistent /\ (va * vb = 0 \/ va = edge * vb)),
                     changed |-> TRUE]
        BY <1>7, Zenon
      <4> QED
        BY <1>5, <1>7, <3>2, Zenon DEF Unite
    <3> QED BY <3>1, <3>2
  <2> DEFINE value == IF u.varval[p] # 0 THEN u.varval[p] ELSE edge * u.varval[c]
             tied == va * vb = 0 \/ va = edge * vb
  <2> HIDE DEF edge, w, a, b, va, vb
  <2>2. /\ c \in 1..vars /\ p \in 1..vars /\ c \notin in_cardinality /\ p \notin in_cardinality
        /\ Root(u, c) = c /\ Root(u, p) = p /\ u.rep[c] = c /\ u.rep[p] = p
        /\ u.varval[c] \in {-1, 0, 1} /\ u.varval[p] \in {-1, 0, 1}
    BY <1>2, <2>1
  <2>3. value \in {-1, 0, 1}
    <3> DEFINE vc == u.varval[c]
    <3> HIDE DEF vc
    <3>1. edge * vc \in {-1, 0, 1}
      <4>1. vc \in {-1, 0, 1}
        BY <2>2 DEF vc
      <4>2. CASE edge = 1
        BY <4>1, <4>2
      <4>3. CASE edge = -1
        BY <4>1, <4>3
      <4> QED BY <1>3, <4>2, <4>3
    <3> QED
      BY <2>2, <3>1 DEF vc
  <2> HIDE DEF value, tied
  <2>4. /\ w.rep = [v \in 1..vars |-> IF Root(u, v) = c THEN pnsign(u.rep[v]) * edge * p ELSE u.rep[v]]
        /\ w.varval = [u.varval EXCEPT ![p] = value, ![c] = 0]
        /\ w.consistent = (u.consistent /\ tied) /\ w.changed = TRUE
        /\ w = [rep |-> w.rep, varval |-> w.varval, consistent |-> w.consistent, changed |-> w.changed]
    <3>1. DOMAIN u.rep = 1..vars
      BY <1>1
    <3>2. w = [rep |-> [v \in 1..vars |->
                                IF Root(u, v) = c THEN pnsign(u.rep[v]) * edge * p ELSE u.rep[v]],
                     varval |-> [u.varval EXCEPT ![p] = value, ![c] = 0],
                     consistent |-> (u.consistent /\ tied),
                     changed |-> TRUE]
      BY <2>1, <3>1 DEF value, tied
    <3> QED
      BY <3>2
  <2>5. /\ w.varval \in Partial(vars)
        /\ w.varval[p] = value /\ w.varval[c] = 0
        /\ \A z \in 1..vars : z # p /\ z # c => w.varval[z] = u.varval[z]
    <3>1. u.varval \in [1..vars -> {-1, 0, 1}] /\ p # c
      BY <1>1, <2>1, <1>7 DEF Partial
    <3>2. w.varval = [u.varval EXCEPT ![p] = value, ![c] = 0]
      BY <2>4
    <3>3. w.varval \in [1..vars -> {-1, 0, 1}]
      BY <2>2, <2>3, <3>1, <3>2
    <3>4. w.varval[p] = value /\ w.varval[c] = 0
      BY <2>2, <3>1, <3>2
    <3>5. \A z \in 1..vars : z # p /\ z # c => w.varval[z] = u.varval[z]
      BY <3>1, <3>2
    <3> QED
      BY <3>3, <3>4, <3>5 DEF Partial
  <2>6. ASSUME NEW z \in 1..vars, Root(u, z) # c
        PROVE  w.rep[z] = u.rep[z] /\ Root(w, z) = Root(u, z)
    BY <2>4, <2>6 DEF Root
  <2>7. ASSUME NEW z \in 1..vars, Root(u, z) = c
        PROVE  /\ w.rep[z] \in Literals(vars) /\ Root(w, z) = p
               /\ pnsign(w.rep[z]) = pnsign(u.rep[z]) * edge
    <3> DEFINE sz == pnsign(u.rep[z])
               q == sz * edge
    <3>1. sz \in {-1, 1}
      BY <1>1, RootFacts
    <3>2. q \in {-1, 1}
      BY <1>3, <3>1, Signs
    <3>3. w.rep[z] = sz * edge * p
      BY <2>4, <2>7
    <3>4. w.rep[z] = q * p
      BY <3>3
    <3> HIDE DEF q
    <3>5. q * p \in Literals(vars) /\ VarOf(q * p) = p /\ pnsign(q * p) = q
      BY <2>2, <3>2, SignedNumber
    <3> QED
      BY <3>4, <3>5 DEF q, Root
  <2>8. WellFormed(w)
    <3>1. w.rep \in [1..vars -> Literals(vars)]
      <4>1. \A z \in 1..vars : w.rep[z] \in Literals(vars)
        BY <1>1, <2>6, <2>7
      <4> QED
        BY <2>4, <4>1
    <3>2. ASSUME NEW z \in 1..vars PROVE w.rep[Root(w, z)] = Root(w, z)
      <4>1. CASE Root(u, z) = c
        <5>1. Root(w, z) = p /\ w.rep[p] = p
          BY <2>1, <2>2, <2>6, <2>7, <4>1
        <5> QED BY <5>1
      <4>2. CASE Root(u, z) # c
        <5>1. Root(w, z) = Root(u, z)
          BY <2>6, <4>2
        <5>2. Root(u, z) \in 1..vars /\ Root(u, Root(u, z)) = Root(u, z) /\ u.rep[Root(u, z)] = Root(u, z)
          BY <1>1, RootFacts
        <5>3. w.rep[Root(u, z)] = u.rep[Root(u, z)]
          BY <2>6, <4>2, <5>2
        <5> QED BY <5>1, <5>2, <5>3
      <4> QED BY <4>1, <4>2
    <3> QED
      BY <2>5, <3>1, <3>2 DEF WellFormed
  <2>9. Untouched(w)
    <3>1. ASSUME NEW z \in in_cardinality, z \in 1..vars PROVE w.rep[z] = z /\ w.varval[z] = 0
      <4>1. u.rep[z] = z /\ u.varval[z] = 0 /\ z # c /\ z # p
        BY <1>1, <2>2 DEF Untouched
      <4>2. Root(u, z) = z
        BY <3>1, <4>1, VarLiteral DEF Root
      <4> QED
        BY <2>5, <2>6, <3>1, <4>1, <4>2
    <3>2. ASSUME NEW z \in 1..vars, Root(w, z) \in in_cardinality PROVE Root(w, z) = z
      <4>1. Root(u, z) # c
        BY <2>2, <2>7, <3>2
      <4>2. Root(w, z) = Root(u, z)
        BY <2>6, <4>1
      <4> QED
        BY <1>1, <3>2, <4>2 DEF Untouched
    <3> QED
      BY <3>1, <3>2 DEF Untouched
  <2>10. w \in ClassSet
    BY <1>1, <2>4, <2>5, <2>8, <2>9 DEF ClassSet, WellFormed
  <2>11. ASSUME NEW x \in Total(vars)
         PROVE  /\ x[c] \in {-1, 1} /\ x[p] \in {-1, 1}
                /\ Respects(u, x) => (Obeys(x, y) <=> x[c] = edge * x[p])
    <3>1. x[c] \in {-1, 1} /\ x[p] \in {-1, 1}
      BY <2>2 DEF Total
    <3> QED
      BY <1>4, <2>1, <3>1
  (* tied, in terms of c and p *)
  <2>13. tied <=> (u.varval[c] = 0 \/ u.varval[p] = 0 \/ u.varval[c] = edge * u.varval[p])
    <3>1. va \in {-1, 0, 1} /\ vb \in {-1, 0, 1}
      BY <1>2 DEF va, vb
    <3>2. (u.varval[c] = va /\ u.varval[p] = vb) \/ (u.varval[c] = vb /\ u.varval[p] = va)
      BY <2>1 DEF va, vb
    <3> DEFINE vc == u.varval[c]
               vp == u.varval[p]
    <3>3. (vc = va /\ vp = vb) \/ (vc = vb /\ vp = va)
      BY <3>2
    <3> HIDE DEF vc, vp
    <3>4. tied <=> (vc = 0 \/ vp = 0 \/ vc = edge * vp)
      <4>1. CASE edge = 1
        <5>1. CASE va = 0
          BY <3>1, <3>3, <4>1, <5>1 DEF tied
        <5>2. CASE va = 1
          BY <3>1, <3>3, <4>1, <5>2 DEF tied
        <5>3. CASE va = -1
          BY <3>1, <3>3, <4>1, <5>3 DEF tied
        <5> QED BY <3>1, <5>1, <5>2, <5>3
      <4>2. CASE edge = -1
        <5>1. CASE va = 0
          BY <3>1, <3>3, <4>2, <5>1 DEF tied
        <5>2. CASE va = 1
          BY <3>1, <3>3, <4>2, <5>2 DEF tied
        <5>3. CASE va = -1
          BY <3>1, <3>3, <4>2, <5>3 DEF tied
        <5> QED BY <3>1, <5>1, <5>2, <5>3
      <4> QED BY <1>3, <4>1, <4>2
    <3> QED
      BY <3>4 DEF vc, vp
  <2>14. ASSUME NEW x \in Total(vars), x[c] = edge * x[p]
         PROVE  tied /\ (value # 0 => x[p] = value)
                  <=> (u.varval[c] # 0 => x[c] = u.varval[c]) /\ (u.varval[p] # 0 => x[p] = u.varval[p])
    <3> DEFINE xc == x[c]
               xp == x[p]
               vc == u.varval[c]
               vp == u.varval[p]
    <3>1. /\ xc \in {-1, 1} /\ xp \in {-1, 1} /\ vc \in {-1, 0, 1} /\ vp \in {-1, 0, 1}
          /\ xc = edge * xp
          /\ tied <=> (vc = 0 \/ vp = 0 \/ vc = edge * vp)
          /\ value = IF vp # 0 THEN vp ELSE edge * vc
      BY <2>2, <2>11, <2>13, <2>14 DEF value
    <3> HIDE DEF xc, xp, vc, vp
    <3>2. (vc = 0 \/ vp = 0 \/ vc = edge * vp) /\ (value # 0 => xp = value)
               <=> (vc # 0 => xc = vc) /\ (vp # 0 => xp = vp)
      BY <1>3, <3>1, ValuesMerged
    <3> QED
      BY <3>1, <3>2 DEF xc, xp, vc, vp
  <2>15. ASSUME NEW x \in Total(vars), x[c] = edge * x[p], NEW z \in 1..vars
         PROVE  x[z] = pnsign(w.rep[z]) * x[Root(w, z)] <=> x[z] = pnsign(u.rep[z]) * x[Root(u, z)]
    <3>1. CASE Root(u, z) # c
      BY <2>6, <3>1
    <3>2. CASE Root(u, z) = c
      <4> DEFINE s == pnsign(u.rep[z])
                 xp == x[p]
      <4>1. s \in {-1, 1} /\ xp \in {-1, 1}
        BY <1>1, <2>11, RootFacts
      <4>2. pnsign(w.rep[z]) * x[Root(w, z)] = (s * edge) * xp
        BY <2>7, <3>2
      <4>3. pnsign(u.rep[z]) * x[Root(u, z)] = s * (edge * xp)
        BY <2>15, <3>2
      <4> HIDE DEF s, xp
      <4>4. (s * edge) * xp = s * (edge * xp)
        <5>1. CASE s = 1
          BY <1>3, <4>1, <5>1
        <5>2. CASE s = -1
          BY <1>3, <4>1, <5>2
        <5> QED BY <4>1, <5>1, <5>2
      <4> QED
        BY <4>2, <4>3, <4>4
    <3> QED BY <3>1, <3>2
  <2>16. ASSUME NEW x \in Total(vars), w.consistent, Respects(w, x)
         PROVE  u.consistent /\ Respects(u, x) /\ Obeys(x, y)
    <3>1. x[c] = edge * x[p]
      <4>1. x[c] = pnsign(w.rep[c]) * x[Root(w, c)]
        BY <2>2, <2>16 DEF Respects
      <4>2. Root(w, c) = p /\ pnsign(w.rep[c]) = pnsign(u.rep[c]) * edge
        BY <2>2, <2>7
      <4>3. pnsign(u.rep[c]) = 1
        BY <2>2, VarLiteral
      <4> QED
        BY <1>3, <4>1, <4>2, <4>3
    <3>2. value # 0 => x[p] = value
      <4>1. Root(w, p) = p
        BY <2>1, <2>2, <2>6
      <4> QED
        BY <2>2, <2>5, <2>16, <4>1 DEF Respects
    <3>3. (u.varval[c] # 0 => x[c] = u.varval[c]) /\ (u.varval[p] # 0 => x[p] = u.varval[p])
      BY <2>4, <2>14, <2>16, <3>1, <3>2
    <3>4. ASSUME NEW z \in 1..vars, u.varval[Root(u, z)] # 0 PROVE x[Root(u, z)] = u.varval[Root(u, z)]
      <4>1. Root(u, z) \in 1..vars
        BY <1>1, RootFacts
      <4>2. CASE Root(u, z) \in {c, p}
        BY <3>3, <3>4, <4>2
      <4>3. CASE Root(u, z) \notin {c, p}
        <5>1. Root(w, z) = Root(u, z)
          BY <2>6, <4>3
        <5>2. w.varval[Root(u, z)] = u.varval[Root(u, z)]
          BY <2>5, <4>1, <4>3
        <5> QED
          BY <2>16, <3>4, <5>1, <5>2 DEF Respects
      <4> QED BY <4>2, <4>3
    <3>5. Respects(u, x)
      BY <2>15, <2>16, <3>1, <3>4 DEF Respects
    <3> QED
      BY <2>4, <2>11, <2>16, <3>1, <3>5
  <2>17. ASSUME NEW x \in Total(vars), u.consistent, Respects(u, x), Obeys(x, y)
         PROVE  w.consistent /\ Respects(w, x)
    <3>1. x[c] = edge * x[p]
      BY <2>11, <2>17
    <3>2. (u.varval[c] # 0 => x[c] = u.varval[c]) /\ (u.varval[p] # 0 => x[p] = u.varval[p])
      BY <2>2, <2>17 DEF Respects
    <3>3. tied /\ (value # 0 => x[p] = value)
      BY <2>14, <3>1, <3>2
    <3>4. ASSUME NEW z \in 1..vars, w.varval[Root(w, z)] # 0 PROVE x[Root(w, z)] = w.varval[Root(w, z)]
      <4>1. CASE Root(w, z) = p
        BY <2>5, <3>3, <3>4, <4>1
      <4>2. CASE Root(w, z) # p
        <5>1. Root(u, z) # c
          BY <2>7, <4>2
        <5>2. Root(w, z) = Root(u, z) /\ Root(u, z) \in 1..vars
          BY <1>1, <2>6, <5>1, RootFacts
        <5>3. w.varval[Root(u, z)] = u.varval[Root(u, z)]
          BY <2>5, <4>2, <5>1, <5>2
        <5> QED
          BY <2>17, <3>4, <5>2, <5>3 DEF Respects
      <4> QED BY <4>1, <4>2
    <3>5. Respects(w, x)
      BY <2>15, <2>17, <3>1, <3>4 DEF Respects
    <3> QED
      BY <2>4, <2>17, <3>3, <3>5
  <2> QED
    BY <2>4, <2>10, <2>16, <2>17 DEF Applied, w
<1> QED BY <1>6, <1>7

Acts == {Action(p) : p \in Recorded}

Rank(y) == Cardinality({z \in Acts : ActionLess(z, y)})

(* The order of the actions is total: each has a place of its own.           *)
LEMMA ActionRanks ==
  ASSUME Acts \subseteq ActionSet, IsFiniteSet(Acts), vars \in Nat
  PROVE  /\ Cardinality(Acts) \in Nat
         /\ \A y \in Acts : Rank(y) \in 0 .. Cardinality(Acts) - 1
         /\ \A y, z \in Acts : Rank(y) = Rank(z) => y = z
<1> DEFINE below == [y \in Acts |-> {z \in Acts : ActionLess(z, y)}]
<1>1. below \in [Acts -> SUBSET Acts]
  OBVIOUS
<1>2. \A y \in Acts : /\ y.first \in Int /\ y.second \in Int /\ y.value \in Int
                      /\ y = [first |-> y.first, second |-> y.second, value |-> y.value]
  BY DEF ActionSet
<1>3. \A y \in Acts : y \notin below[y]
  BY <1>2 DEF ActionLess
<1>4. \A y, z \in Acts : y # z => y \in below[z] \/ z \in below[y]
  <2> SUFFICES ASSUME NEW y \in Acts, NEW z \in Acts, ~ActionLess(y, z), ~ActionLess(z, y) PROVE y = z
    OBVIOUS
  <2>1. y.second = 0 <=> z.second = 0
    BY DEF ActionLess
  <2>2. y.first = z.first
    BY <1>2, <2>1 DEF ActionLess
  <2>3. y.second = z.second
    BY <1>2, <2>1, <2>2 DEF ActionLess
  <2>4. y.value = z.value
    BY <1>2, <2>1, <2>2, <2>3 DEF ActionLess
  <2> QED
    BY <1>2, <2>2, <2>3, <2>4
<1>5. \A y, z \in Acts : z \in below[y] => below[z] \subseteq below[y]
  <2> SUFFICES ASSUME NEW y \in Acts, NEW z \in Acts, NEW t \in Acts, ActionLess(z, y), ActionLess(t, z)
               PROVE  ActionLess(t, y)
    OBVIOUS
  <2> QED
    BY <1>2 DEF ActionLess
<1>6. \A y \in Acts : Rank(y) = Cardinality(below[y])
  BY DEF Rank
<1> HIDE DEF below
<1>7. /\ Cardinality(Acts) \in Nat
      /\ \A y \in Acts : Cardinality(below[y]) \in 0 .. Cardinality(Acts) - 1
      /\ \A y, z \in Acts : Cardinality(below[y]) = Cardinality(below[z]) => y = z
  <2>1. Counted(Acts, below)
    BY <1>1, <1>3, <1>4, <1>5, RanksOf DEF Ordered
  <2> QED
    BY <2>1 DEF Counted
<1> QED
  BY <1>6, <1>7

(* The classes after the first k actions.                                    *)
AppliedUpTo(u, k) ==
  /\ \A x \in Total(vars) :
       u.consistent /\ Respects(u, x)
         <=> Respects(Classes, x) /\ \A y \in Acts : Rank(y) < k => Obeys(x, y)
  /\ ~u.changed => u.rep = rep /\ u.varval = varval

(* One action more, in the order of the sort (binary.cpp:314-324). *)
LEMMA AppliedNext ==
  ASSUME vars \in Nat, in_cardinality \subseteq 1..vars, Acts \subseteq ActionSet, IsFiniteSet(Acts),
         NEW k \in Nat, NEW u \in ClassSet, AppliedUpTo(u, k), NEW y \in Acts, Rank(y) = k
  PROVE  Apply(u, y) \in ClassSet /\ AppliedUpTo(Apply(u, y), k + 1)
<1>1. y \in ActionSet
  OBVIOUS
<1>2. Applied(u, y)
  BY <1>1, AssignValueApplied, UniteApplied
<1> DEFINE w == Apply(u, y)
<1>3. /\ w \in ClassSet
      /\ \A x \in Total(vars) :
           w.consistent /\ Respects(w, x) <=> u.consistent /\ Respects(u, x) /\ Obeys(x, y)
      /\ ~w.changed => ~u.changed /\ w.rep = u.rep /\ w.varval = u.varval
  BY <1>2 DEF Applied
<1> HIDE DEF w
<1>4. \A z \in Acts : Rank(z) < k + 1 <=> Rank(z) < k \/ z = y
  <2> SUFFICES ASSUME NEW z \in Acts PROVE Rank(z) < k + 1 <=> Rank(z) < k \/ z = y
    OBVIOUS
  <2>1. Rank(z) \in Nat /\ (Rank(z) = k => z = y)
    BY ActionRanks
  <2> QED
    BY <2>1
<1>5. AppliedUpTo(w, k + 1)
  BY <1>3, <1>4 DEF AppliedUpTo
<1> QED
  BY <1>3, <1>5 DEF w

MergedRight(u) ==
  /\ u \in ClassSet
  /\ \A x \in Total(vars) :
       u.consistent /\ Respects(u, x)
         <=> Respects(Classes, x) /\ \A y \in Acts : Obeys(x, y)
  /\ ~u.changed => u.rep = rep /\ u.varval = varval

(* What all the actions of a turn make of the classes.                       *)
LEMMA MergedClasses ==
  ASSUME vars \in Nat, in_cardinality \subseteq 1..vars, Acts \subseteq ActionSet, IsFiniteSet(Acts),
         WellFormed(Classes), Untouched(Classes)
  PROVE  \A u \in Merged : MergedRight(u)
<1> DEFINE n == Cardinality(Acts)
           u0 == [rep |-> rep, varval |-> varval, consistent |-> TRUE, changed |-> FALSE]
           X == SUBSET ClassSet
           step(U, k) == {Apply(u, y) : u \in U, y \in {z \in Acts : Rank(z) = k - 1}}
           F == [k \in Nat |-> [U \in X |-> IF k \in 1..n THEN step(U, k) ELSE U]]
           Body(h, k) == IF k = 0 THEN {u0} ELSE step(h[k - 1], k)
<1>1. n \in Nat /\ \A y \in Acts : Rank(y) \in 0 .. n - 1
  BY ActionRanks
<1>2. u0 \in ClassSet /\ AppliedUpTo(u0, 0)
  <2>1. /\ Classes.rep = rep /\ Classes.varval = varval
        /\ u0.rep = rep /\ u0.varval = varval /\ u0.consistent = TRUE /\ u0.changed = FALSE
    BY DEF Classes
  <2>2. /\ \A v : Root(u0, v) = Root(Classes, v)
    BY <2>1 DEF Root
  <2>3. WellFormed(u0) /\ Untouched(u0)
    BY <2>1, <2>2 DEF WellFormed, Untouched
  <2>4. rep \in [1..vars -> Literals(vars)] /\ varval \in Partial(vars)
    BY <2>1 DEF WellFormed
  <2>5. u0 \in ClassSet
    BY <2>3, <2>4 DEF ClassSet
  <2>6. \A x : Respects(u0, x) <=> Respects(Classes, x)
    BY <2>1, <2>2 DEF Respects
  <2>7. \A y \in Acts : ~(Rank(y) < 0)
    BY <1>1
  <2> HIDE DEF u0
  <2> QED
    BY <2>1, <2>5, <2>6, <2>7 DEF AppliedUpTo
<1> HIDE DEF u0, n
<1>3. ASSUME NEW U \in X, NEW k \in 1..n, \A u \in U : AppliedUpTo(u, k - 1)
      PROVE  \A w \in step(U, k) : AppliedUpTo(w, k)
  <2> SUFFICES ASSUME NEW u \in U, NEW y \in Acts, Rank(y) = k - 1
               PROVE  AppliedUpTo(Apply(u, y), k)
    OBVIOUS
  <2> DEFINE j == k - 1
  <2>1. j \in Nat /\ j + 1 = k
    BY <1>1
  <2> HIDE DEF j
  <2>2. u \in ClassSet /\ AppliedUpTo(u, j) /\ Rank(y) = j
    BY <1>3 DEF j
  <2>3. AppliedUpTo(Apply(u, y), j + 1)
    BY <2>1, <2>2, AppliedNext
  <2> QED
    BY <2>1, <2>3
<1>4. ASSUME NEW U \in X, NEW k \in 1..n PROVE step(U, k) \in X
  <2> SUFFICES ASSUME NEW u \in U, NEW y \in Acts PROVE Apply(u, y) \in ClassSet
    OBVIOUS
  <2>1. y \in ActionSet /\ u \in ClassSet
    OBVIOUS
  <2>2. Applied(u, y)
    BY <2>1, AssignValueApplied, UniteApplied
  <2> QED
    BY <2>2 DEF Applied
<1> HIDE DEF step, X
<1>5. F \in [Nat -> [X -> X]] /\ \A k \in 1..n : \A U \in X : F[k][U] = step(U, k)
  BY <1>1, <1>4
<1>6. {u0} \in X
  BY <1>2 DEF X
<1> HIDE DEF F
<1>7. PICK g : Iterates(g, X, {u0}, F)
  BY <1>5, <1>6, NatRecursionExists
<1>8. g \in [Nat -> X] /\ g[0] = {u0} /\ \A k \in Nat : g[k + 1] = F[k + 1][g[k]]
  BY <1>7 DEF Iterates
<1> DEFINE h == [k \in 0..n |-> g[k]]
<1>9. \A k \in 1..n : h[k] = step(h[k - 1], k)
  <2> SUFFICES ASSUME NEW k \in 1..n PROVE g[k] = step(g[k - 1], k)
    BY <1>1
  <2>1. k - 1 \in Nat /\ (k - 1) + 1 = k
    BY <1>1
  <2>2. g[k] = F[k][g[k - 1]] /\ g[k - 1] \in X
    BY <1>8, <2>1
  <2> QED
    BY <1>5, <2>2
<1>10. h = [k \in 0..n |-> Body(h, k)]
  <2> SUFFICES ASSUME NEW k \in 0..n PROVE h[k] = Body(h, k)
    OBVIOUS
  <2>1. CASE k = 0
    BY <1>8, <2>1
  <2>2. CASE k # 0
    <3>1. k \in 1..n
      BY <1>1, <2>2
    <3> QED
      BY <1>9, <2>2, <3>1
  <2> QED BY <2>1, <2>2
<1> DEFINE p == CHOOSE p : p = [k \in 0..n |-> Body(p, k)]
<1>11. Merged = p[n]
  BY DEF Merged, step, u0, n, Acts, Rank
<1>12. p = [k \in 0..n |-> Body(p, k)]
  BY <1>10
<1> HIDE DEF p, h
<1>13. p[0] = {u0} /\ \A k \in 1..n : p[k] = step(p[k - 1], k)
  <2> HIDE DEF Body
  <2>1. \A k \in 0..n : p[k] = Body(p, k)
    BY <1>12
  <2>2. 0 \in 0..n /\ \A k \in 1..n : k \in 0..n /\ k # 0
    BY <1>1
  <2>3. p[0] = Body(p, 0) /\ \A k \in 1..n : p[k] = Body(p, k)
    BY <2>1, <2>2
  <2> QED
    BY <2>2, <2>3, Zenon DEF Body
<1> DEFINE T == {k \in Nat : k <= n => p[k] \in X /\ \A u \in p[k] : AppliedUpTo(u, k)}
<1>14. 0 \in T
  BY <1>2, <1>6, <1>13
<1>15. ASSUME NEW k \in Nat, k \in T PROVE k + 1 \in T
  <2> SUFFICES ASSUME k + 1 <= n PROVE p[k + 1] \in X /\ \A u \in p[k + 1] : AppliedUpTo(u, k + 1)
    OBVIOUS
  <2>1. k + 1 \in 1..n /\ (k + 1) - 1 = k /\ k <= n
    BY <1>1
  <2>2. p[k + 1] = step(p[k], k + 1) /\ p[k] \in X /\ \A u \in p[k] : AppliedUpTo(u, k)
    BY <1>13, <1>15, <2>1
  <2> QED
    BY <1>3, <1>4, <2>1, <2>2
<1> HIDE DEF T
<1>16. Nat \subseteq T
  BY <1>14, <1>15, NatInductionSet
<1>17. p[n] \in X /\ \A u \in p[n] : AppliedUpTo(u, n)
  BY <1>1, <1>16 DEF T
<1>18. \A y \in Acts : Rank(y) < n
  BY <1>1
<1> QED
  BY <1>11, <1>17, <1>18 DEF AppliedUpTo, MergedRight, X

-----------------------------------------------------------------------------
(* What pairs of clauses say. *)

(* A clause with two literals. *)
LEMMA PairRow ==
  ASSUME NEW n \in Nat, NEW r \in RowsOver(n), Plain(r), Size(r) = 2
  PROVE  \E l, m \in Literals(n) : VarOf(l) # VarOf(m) /\ r.lits = {l, m}
<1>1. r.lits \in SUBSET Literals(n) /\ IsFiniteSet(r.lits) /\ Cardinality(r.lits) = 2
  BY TrueLitsFinite DEF Size
<1>2. r.lits # {}
  BY <1>1, FS_EmptySet
<1>3. PICK l \in r.lits : TRUE
  BY <1>2
<1> DEFINE S == r.lits \ {l}
<1>4. IsFiniteSet(S) /\ Cardinality(S) = 2 - 1
  BY <1>1, <1>3, FS_RemoveElement
<1> HIDE DEF S
<1>5. Cardinality(S) = 1
  BY <1>4
<1>6. S # {}
  BY <1>5, FS_EmptySet
<1>7. PICK m \in S : TRUE
  BY <1>6
<1>8. Cardinality(S \ {m}) = 1 - 1 /\ IsFiniteSet(S \ {m})
  BY <1>4, <1>5, <1>7, FS_RemoveElement
<1>9. S \ {m} = {}
  BY <1>8, FS_EmptySet
<1>10. r.lits = {l, m} /\ l # m /\ l \in Literals(n) /\ m \in Literals(n)
  BY <1>1, <1>3, <1>7, <1>9 DEF S
<1>11. VarOf(l) # VarOf(m)
  <2> SUFFICES ASSUME VarOf(l) = VarOf(m) PROVE FALSE
    OBVIOUS
  <2>1. l = -m
    BY <1>10, SameVar
  <2> QED
    BY <1>10, <2>1 DEF Plain
<1> QED BY <1>10, <1>11

(* A row of degree 1 is a clause. *)
LEMMA ClauseHolds ==
  ASSUME NEW n \in Nat, NEW r \in RowsOver(n), r.degree = 1, NEW a
  PROVE  Holds(r, a) <=> \E l \in r.lits : a[VarOf(l)] = pnsign(l)
<1>1. IsFiniteSet(TrueLits(r, a)) /\ Cardinality(TrueLits(r, a)) \in Nat
  BY TrueLitsFinite
<1>2. Cardinality(TrueLits(r, a)) = 0 <=> TrueLits(r, a) = {}
  BY <1>1, FS_EmptySet
<1>3. Holds(r, a) <=> TrueLits(r, a) # {}
  BY <1>1, <1>2 DEF Holds
<1> QED
  BY <1>3 DEF TrueLits

(* Two two-literal clauses over the same variables, written out: one of the  *)
(* literals of the second is the complement of one of the first.             *)
ActionSays(p) ==
  /\ Action(p) \in [first : 1..vars, second : {0} \cup 1..vars, value : {-1, 1}]
  /\ \A x \in Total(vars) :
       Obeys(x, Action(p)) <=> Holds(clause[p[1]], x) /\ Holds(clause[p[2]], x)

(* What is recorded for two binary clauses over the same variables is what   *)
(* they say together (binary.cpp:244-312).                                   *)
LEMMA ActionMeans ==
  ASSUME RowsInv, NEW p \in Witnesses
  PROVE  ActionSays(p)
<1> DEFINE r1 == clause[p[1]]
           r2 == clause[p[2]]
           y == Action(p)
<1>1. /\ p[1] \in Active /\ p[2] \in Active /\ r1.degree = 1 /\ r2.degree = 1
      /\ Size(r1) = 2 /\ Size(r2) = 2 /\ RowVars(r1) = RowVars(r2) /\ r1.lits # r2.lits
  BY DEF Witnesses, Binaries
<1>2. /\ r1 \in RowsOver(vars) /\ r2 \in RowsOver(vars) /\ Plain(r1) /\ Plain(r2) /\ vars \in Nat
  BY <1>1, ActiveRow
<1> HIDE DEF r1, r2
<1>3. PICK l \in Literals(vars), m \in Literals(vars) : VarOf(l) # VarOf(m) /\ r1.lits = {l, m}
  BY <1>1, <1>2, PairRow
<1>4. PICK l0 \in Literals(vars), m0 \in Literals(vars) : VarOf(l0) # VarOf(m0) /\ r2.lits = {l0, m0}
  BY <1>1, <1>2, PairRow
<1>5. /\ RowVars(r1) = {VarOf(l), VarOf(m)} /\ RowVars(r2) = {VarOf(l0), VarOf(m0)}
  BY <1>3, <1>4 DEF RowVars
<1>6. PICK l1 \in Literals(vars), m1 \in Literals(vars) :
        VarOf(l1) = VarOf(l) /\ VarOf(m1) = VarOf(m) /\ r2.lits = {l1, m1}
  <2>1. (VarOf(l0) = VarOf(l) /\ VarOf(m0) = VarOf(m)) \/ (VarOf(l0) = VarOf(m) /\ VarOf(m0) = VarOf(l))
    BY <1>1, <1>3, <1>4, <1>5
  <2>2. CASE VarOf(l0) = VarOf(l) /\ VarOf(m0) = VarOf(m)
    BY <1>4, <2>2
  <2>3. CASE VarOf(l0) = VarOf(m) /\ VarOf(m0) = VarOf(l)
    <3>1. r2.lits = {m0, l0}
      BY <1>4
    <3> QED
      BY <2>3, <3>1
  <2> QED BY <2>1, <2>2, <2>3
<1> DEFINE L == VarOf(l)
           M == VarOf(m)
           sl == pnsign(l)
           sm == pnsign(m)
<1>7. /\ L \in 1..vars /\ M \in 1..vars /\ L # M /\ sl \in {-1, 1} /\ sm \in {-1, 1}
      /\ VarOf(-l) = L /\ VarOf(-m) = M /\ pnsign(-l) = -sl /\ pnsign(-m) = -sm
      /\ l = L * sl /\ m = M * sm
  BY <1>2, <1>3, LiteralFacts
<1>8. l1 \in {l, -l} /\ m1 \in {m, -m} /\ ~(l1 = l /\ m1 = m)
  <2>1. l1 \in {l, -l}
    BY <1>2, <1>6, SameVar
  <2>2. m1 \in {m, -m}
    BY <1>2, <1>6, SameVar
  <2> QED
    BY <1>1, <1>3, <1>6, <2>1, <2>2
<1> DEFINE T(x, k) == x[VarOf(k)] = pnsign(k)
<1>9. ASSUME NEW x \in Total(vars)
      PROVE  /\ Holds(r1, x) <=> T(x, l) \/ T(x, m)
             /\ Holds(r2, x) <=> T(x, l1) \/ T(x, m1)
             /\ T(x, l) <=> ~T(x, -l)
             /\ T(x, m) <=> ~T(x, -m)
  <2>1. Holds(r1, x) <=> T(x, l) \/ T(x, m)
    BY <1>1, <1>2, <1>3, ClauseHolds
  <2>2. Holds(r2, x) <=> T(x, l1) \/ T(x, m1)
    BY <1>1, <1>2, <1>6, ClauseHolds
  <2>3. (T(x, l) <=> ~T(x, -l)) /\ (T(x, m) <=> ~T(x, -m))
    BY <1>2, OneTrue
  <2> QED BY <2>1, <2>2, <2>3
<1>10. Common(p) = {l, m} \cap {l1, m1}
  BY <1>3, <1>6 DEF Common, r1, r2
<1>11. l # -l /\ m # -m /\ l # m /\ l # -m /\ -l # m /\ -l # -m
  BY <1>7, <1>3
(* a common literal *)
<1>12. ASSUME NEW k \in {l, m}, Common(p) = {k}
       PROVE  /\ y = [first |-> VarOf(k), second |-> 0, value |-> pnsign(k)]
              /\ y \in [first : 1..vars, second : {0} \cup 1..vars, value : {-1, 1}]
              /\ \A x : Obeys(x, y) <=> T(x, k)
  <2>1. (CHOOSE z \in Common(p) : TRUE) = k
    BY <1>12
  <2>2. y = [first |-> VarOf(k), second |-> 0, value |-> pnsign(k)]
    BY <1>12, <2>1 DEF Action
  <2>3. y.first = VarOf(k) /\ y.second = 0 /\ y.value = pnsign(k)
    BY <2>2
  <2>4. VarOf(k) \in 1..vars /\ pnsign(k) \in {-1, 1}
    BY <1>7, <1>12
  <2> QED
    BY <2>2, <2>3, <2>4 DEF Obeys
<1>13. CASE l1 = l
  <2>1. m1 = -m
    BY <1>8, <1>13
  <2>2. Common(p) = {l}
    BY <1>10, <1>11, <1>13, <2>1
  <2> HIDE DEF T, y
  <2>3. \A x \in Total(vars) : T(x, l) <=> Holds(r1, x) /\ Holds(r2, x)
    BY <1>9, <1>13, <2>1
  <2> QED
    BY <1>12, <2>2, <2>3 DEF ActionSays, y, r1, r2
<1>14. CASE m1 = m
  <2>1. l1 = -l
    BY <1>8, <1>14
  <2>2. Common(p) = {m}
    BY <1>10, <1>11, <1>14, <2>1
  <2> HIDE DEF T, y
  <2>3. \A x \in Total(vars) : T(x, m) <=> Holds(r1, x) /\ Holds(r2, x)
    BY <1>9, <1>14, <2>1
  <2> QED
    BY <1>12, <2>2, <2>3 DEF ActionSays, y, r1, r2
<1>15. CASE l1 # l /\ m1 # m
  <2>1. l1 = -l /\ m1 = -m
    BY <1>8, <1>15
  <2>2. Common(p) = {}
    BY <1>10, <1>11, <2>1
  <2> DEFINE vs == RowVars(r1)
             a == CHOOSE v \in vs : \A w \in vs : v <= w
             b == CHOOSE v \in vs : \A w \in vs : w <= v
  <2>3. vs = {L, M}
    BY <1>5
  <2> HIDE DEF vs, L, M
  <2>4. a \in vs /\ \A w \in vs : a <= w
    <3>1. \E v \in vs : \A w \in vs : v <= w
      BY <1>7, <2>3
    <3> QED BY <3>1
  <2>5. b \in vs /\ \A w \in vs : w <= b
    <3>1. \E v \in vs : \A w \in vs : w <= v
      BY <1>7, <2>3
    <3> QED BY <3>1
  <2>6. y = [first |-> a, second |-> b, value |-> Relation(p)]
    BY <2>2 DEF Action, vs, r1
  <2> HIDE DEF a, b, y
  <2>7. (a = L /\ b = M) \/ (a = M /\ b = L)
    BY <1>7, <2>3, <2>4, <2>5
  <2>8. Relation(p) = IF sl # sm THEN 1 ELSE -1
    <3> DEFINE P == {k \in {l, m} : k > 0}
    <3>1. Relation(p) = IF \E v \in vs : {v} = P THEN 1 ELSE -1
      BY <1>3 DEF Relation, vs, r1
    <3>2. L \in Nat /\ L > 0 /\ M \in Nat /\ M > 0
      BY <1>7
    <3>3. CASE sl = 1 /\ sm = 1
      <4>1. l = L /\ m = M
        BY <1>7, <3>2, <3>3
      <4>2. P = {L, M}
        BY <3>2, <4>1
      <4>3. ~ \E v \in vs : {v} = P
        <5> HIDE DEF P
        <5> SUFFICES ASSUME NEW v, {v} = P PROVE FALSE
          OBVIOUS
        <5>1. L \in {v} /\ M \in {v}
          BY <4>2
        <5> QED
          BY <1>7, <5>1
      <4> QED BY <3>1, <3>3, <4>3
    <3>4. CASE sl = 1 /\ sm = -1
      <4>1. l = L /\ m = -M
        BY <1>7, <3>2, <3>4
      <4>2. P = {L}
        BY <3>2, <4>1
      <4>3. \E v \in vs : {v} = P
        BY <2>3, <4>2
      <4> QED BY <3>1, <3>4, <4>3
    <3>5. CASE sl = -1 /\ sm = 1
      <4>1. l = -L /\ m = M
        BY <1>7, <3>2, <3>5
      <4>2. P = {M}
        BY <3>2, <4>1
      <4>3. \E v \in vs : {v} = P
        BY <2>3, <4>2
      <4> QED BY <3>1, <3>5, <4>3
    <3>6. CASE sl = -1 /\ sm = -1
      <4>1. l = -L /\ m = -M
        BY <1>7, <3>2, <3>6
      <4>2. P = {}
        BY <3>2, <4>1
      <4>3. ~ \E v \in vs : {v} = P
        BY <4>2
      <4> QED BY <3>1, <3>6, <4>3
    <3> QED BY <1>7, <3>3, <3>4, <3>5, <3>6
  <2>9. y \in [first : 1..vars, second : {0} \cup 1..vars, value : {-1, 1}]
    BY <1>7, <2>6, <2>7, <2>8
  <2>10. ASSUME NEW x \in Total(vars)
         PROVE  Obeys(x, y) <=> Holds(r1, x) /\ Holds(r2, x)
    <3> DEFINE xl == x[L]
               xm == x[M]
               k == IF sl # sm THEN 1 ELSE -1
    <3>1. xl \in {-1, 1} /\ xm \in {-1, 1}
      BY <1>7 DEF Total
    <3>2. Obeys(x, y) <=> x[a] = Relation(p) * x[b]
      <4>1. y.first = a /\ y.second = b /\ y.value = Relation(p) /\ b # 0
        BY <1>7, <2>6, <2>7
      <4> QED BY <4>1 DEF Obeys
    <3>3. (x[a] = xl /\ x[b] = xm) \/ (x[a] = xm /\ x[b] = xl)
      BY <2>7
    <3>4. T(x, l) <=> xl = sl
      BY DEF L
    <3>5. T(x, m) <=> xm = sm
      BY DEF M
    <3>6. Holds(r1, x) /\ Holds(r2, x) <=> (T(x, l) \/ T(x, m)) /\ (~T(x, l) \/ ~T(x, m))
      BY <1>9, <2>1
    <3> DEFINE xa == x[a]
               xb == x[b]
    <3>7. /\ Obeys(x, y) <=> xa = k * xb
          /\ (xa = xl /\ xb = xm) \/ (xa = xm /\ xb = xl)
          /\ Holds(r1, x) /\ Holds(r2, x) <=> (xl = sl \/ xm = sm) /\ (xl # sl \/ xm # sm)
      BY <2>8, <3>2, <3>3, <3>4, <3>5, <3>6
    <3> HIDE DEF xl, xm, xa, xb, sl, sm
    <3>8. xa = k * xb <=> (xl = sl \/ xm = sm) /\ (xl # sl \/ xm # sm)
      <4>1. CASE sl = sm
        <5>1. xa = k * xb <=> xl # xm
          BY <3>1, <3>7, <4>1
        <5> QED
          BY <1>7, <3>1, <4>1, <5>1
      <4>2. CASE sl # sm
        <5>1. xa = k * xb <=> xl = xm
          BY <3>1, <3>7, <4>2
        <5> QED
          BY <1>7, <3>1, <4>2, <5>1
      <4> QED BY <4>1, <4>2
    <3> QED
      BY <3>7, <3>8
  <2> QED
    BY <2>9, <2>10 DEF ActionSays, y, r1, r2
<1> QED BY <1>13, <1>14, <1>15

(* The actions of a turn: there are finitely many, over variables that no    *)
(* native row has.                                                           *)
LEMMA ActsFine ==
  ASSUME RowsInv
  PROVE  Acts \subseteq ActionSet /\ IsFiniteSet(Acts) /\ in_cardinality \subseteq 1..vars
<1>1. ASSUME NEW p \in Recorded PROVE Action(p) \in ActionSet
  <2>1. p \in Witnesses /\ {Action(p).first, Action(p).second} \cap in_cardinality = {}
    BY DEF Recorded, IsSafe
  <2>2. Action(p) \in [first : 1..vars, second : {0} \cup 1..vars, value : {-1, 1}]
    BY <2>1, ActionMeans DEF ActionSays
  <2> DEFINE y == Action(p)
  <2> HIDE DEF y
  <2>3. y \in ActionSet
    BY <2>1, <2>2 DEF ActionSet, y
  <2> QED BY <2>3 DEF y
<1>2. IsFiniteSet(Recorded)
  <2>1. PICK n \in Nat : clause \in [1..n -> RowsOver(vars)]
    BY SeqDef DEF RowsInv
  <2>2. IsFiniteSet((1..n) \X (1..n))
    BY FS_Interval, FS_Product, 1 \in Int, n \in Int
  <2>3. Recorded \subseteq (1..n) \X (1..n)
    BY <2>1 DEF Recorded, Witnesses, Binaries, Active
  <2> QED
    BY <2>2, <2>3, FS_Subset
<1>3. IsFiniteSet(Acts)
  <2> DEFINE f == [p \in Recorded |-> Action(p)]
  <2>1. f \in Surjection(Recorded, Acts)
    BY DEF Surjection, Acts
  <2> QED
    BY <1>2, <2>1, FS_Surjection
<1>4. in_cardinality \subseteq 1..vars
  <2>1. in_cardinality \subseteq Used(ActiveRows)
    BY DEF in_cardinality, Used
  <2> QED
    BY <2>1, UsedLits
<1> QED
  BY <1>1, <1>3, <1>4 DEF Acts

-----------------------------------------------------------------------------
(* A turn. *)

(* A clause rewritten over the roots. *)
LEMMA RewrittenShape ==
  ASSUME vars \in Nat, NEW u, WellFormed(u), NEW r \in RowsOver(vars)
  PROVE  /\ Rewritten(u, r) \in RowsOver(vars) /\ Rewritten(u, r).degree = r.degree
         /\ ~Gone(u, r) => Plain(Rewritten(u, r))
         /\ \A v \in RowVars(Rewritten(u, r)) : u.rep[v] = v /\ u.varval[v] = 0
<1> DEFINE free == {k \in r.lits : RootValue(u, k) = 0}
           new == {RootLit(u, l) : l \in free}
<1>1. r.lits \in SUBSET Literals(vars) /\ r.degree \in Int
  BY DEF RowsOver
<1>2. Rewritten(u, r) = [lits |-> new, degree |-> r.degree]
  BY RowExcept DEF Rewritten
<1>3. \A l \in free : RootLit(u, l) \in Literals(vars)
  BY <1>1, RootLiteral
<1>4. new \subseteq Literals(vars)
  BY <1>3
<1>5. ~Gone(u, r) => Plain(Rewritten(u, r))
  BY DEF Gone, Plain
<1>6. ASSUME NEW v \in RowVars(Rewritten(u, r)) PROVE u.rep[v] = v /\ u.varval[v] = 0
  <2>1. PICK k \in new : v = VarOf(k)
    BY <1>2, <1>6 DEF RowVars
  <2>2. PICK l \in free : k = RootLit(u, l)
    BY <2>1
  <2>3. l \in Literals(vars) /\ VarOf(l) \in 1..vars
    BY <1>1, LiteralFacts
  <2>4. v = Root(u, VarOf(l)) /\ u.varval[Root(u, VarOf(l))] = 0
    BY <2>1, <2>2, <2>3, RootLiteral
  <2>5. u.rep[Root(u, VarOf(l))] = Root(u, VarOf(l))
    BY <2>3, RootFacts
  <2> QED BY <2>4, <2>5
<1>7. Rewritten(u, r) \in RowsOver(vars)
  BY <1>1, <1>2, <1>4 DEF RowsOver
<1>8. Rewritten(u, r).degree = r.degree
  BY <1>2
<1> QED BY <1>5, <1>6, <1>7, <1>8

(* Under an assignment that respects the classes, a clause that goes holds   *)
(* and a clause that is rewritten holds as before (binary.cpp:326-395).      *)
LEMMA RewrittenRow ==
  ASSUME vars \in Nat, NEW u, WellFormed(u), NEW r \in RowsOver(vars), r.degree = 1,
         NEW x \in Total(vars), Respects(u, x)
  PROVE  /\ Gone(u, r) => Holds(r, x)
         /\ ~Gone(u, r) => (Holds(Rewritten(u, r), x) <=> Holds(r, x))
<1> DEFINE T(k) == x[VarOf(k)] = pnsign(k)
           free == {k \in r.lits : RootValue(u, k) = 0}
           new == Rewritten(u, r)
<1>1. r.lits \in SUBSET Literals(vars)
  BY DEF RowsOver
<1>2. /\ new \in RowsOver(vars) /\ new.degree = 1
      /\ new.lits = {RootLit(u, l) : l \in free}
  BY RewrittenShape, RowExcept DEF Rewritten
<1> HIDE DEF new
<1>3. \A l \in r.lits : /\ T(l) <=> T(RootLit(u, l))
                        /\ RootValue(u, l) = 1 => T(l)
                        /\ RootValue(u, l) = -1 => ~T(l)
                        /\ RootValue(u, l) \in {-1, 0, 1}
  BY <1>1, RootLiteralTrue, RootLiteral
<1>4. Holds(r, x) <=> \E l \in r.lits : T(l)
  BY ClauseHolds
<1>5. Holds(new, x) <=> \E k \in new.lits : T(k)
  BY <1>2, ClauseHolds
<1>6. \A k \in new.lits : \E l \in r.lits : RootValue(u, l) = 0 /\ k = RootLit(u, l)
  BY <1>2
<1>7. \A l \in r.lits : RootValue(u, l) = 0 => RootLit(u, l) \in new.lits
  BY <1>2
<1>8. \A k \in new.lits : T(k) <=> ~T(-k)
  <2>1. \A k \in new.lits : k \in Literals(vars)
    BY <1>2 DEF RowsOver
  <2> QED
    BY <2>1, OneTrue
<1> HIDE DEF T, free
<1>9. ASSUME Gone(u, r) PROVE Holds(r, x)
  <2>1. CASE \E l \in r.lits : RootValue(u, l) = 1
    BY <1>3, <1>4, <2>1
  <2>2. CASE \E l \in new.lits : -l \in new.lits
    BY <1>3, <1>4, <1>6, <1>8, <2>2
  <2> QED
    BY <1>9, <2>1, <2>2 DEF Gone, new
<1>10. ASSUME ~Gone(u, r) PROVE Holds(new, x) <=> Holds(r, x)
  <2>1. \A l \in r.lits : RootValue(u, l) # 1
    BY <1>10 DEF Gone
  <2>2. ASSUME NEW l \in r.lits, T(l) PROVE \E k \in new.lits : T(k)
    <3>1. RootValue(u, l) = 0
      BY <1>3, <2>1, <2>2
    <3> QED
      BY <1>3, <1>7, <2>2, <3>1
  <2>3. ASSUME NEW k \in new.lits, T(k) PROVE \E l \in r.lits : T(l)
    BY <1>3, <1>6, <2>3
  <2> QED
    BY <1>4, <1>5, <2>2, <2>3
<1> QED
  BY <1>9, <1>10 DEF new

(* A turn: the classes it ends with, and the rows it leaves.                 *)
TurnOf(u) ==
  LET witnessed == {p[1] : p \in Recorded}
      rows == {i \in Active \ witnessed : clause[i].degree <= 1}
      gone == {i \in rows : Gone(u, clause[i])}
  IN  /\ MergedRight(u)
      /\ rep' = u.rep /\ varval' = u.varval
      /\ clause' \in Seq(RowsOver(vars)) /\ clause_delete' \subseteq DOMAIN clause'
      /\ Active' = Active \ (witnessed \cup gone)
      /\ \A i \in Active' : clause'[i] = IF i \in rows THEN Rewritten(u, clause[i]) ELSE clause[i]
      /\ pc' \in {"binary", "unsat"}
      /\ pc' = "binary" => u.consistent
      /\ pc' = "unsat" => ~u.consistent \/ \E i \in Active' : clause'[i].lits = {}
      /\ ~any_changed' => ~any_changed /\ ~u.changed
      /\ turn' = turn + 1
      /\ UNCHANGED <<input, vars, mapto, mapval, mapfrom, resVars>>

(* The rows after a turn are the native rows as they were and the clauses    *)
(* rewritten, without those that go.                                         *)
LEMMA TurnRows ==
  ASSUME BinInv, BinaryTurn, UNCHANGED resVars
  PROVE  \E u \in Merged : TurnOf(u)
<1>1. pc = "binary" /\ RowsInv /\ WellFormed(Classes) /\ Untouched(Classes) /\ vars \in Nat
  BY DEF BinaryTurn, BinInv, RowsInv
<1> DEFINE witnessed == {p[1] : p \in Recorded}
           rows == {i \in Active \ witnessed : clause[i].degree <= 1}
           gone(u) == {i \in rows : Gone(u, clause[i])}
           new(u) == [i \in DOMAIN clause |->
                        IF i \in rows \ gone(u) THEN Rewritten(u, clause[i]) ELSE clause[i]]
           consistent(u) == u.consistent /\ \A i \in rows \ gone(u) : new(u)[i].lits # {}
<1>2. PICK u \in Merged :
         /\ pc' = IF consistent(u) THEN pc ELSE "unsat"
         /\ rep' = u.rep
         /\ varval' = u.varval
         /\ clause' = new(u)
         /\ clause_delete' = clause_delete \cup witnessed \cup gone(u)
         /\ turn_changed' = (u.changed \/ witnessed \cup gone(u) # {} \/ new(u) # clause)
         /\ any_changed' = (any_changed \/ turn_changed')
  BY Zenon DEF BinaryTurn
<1>3. turn' = turn + 1 /\ UNCHANGED <<input, vars, mapto, mapval, mapfrom, next>>
  BY DEF BinaryTurn
<1>4. MergedRight(u)
  BY <1>1, ActsFine, MergedClasses
<1>5. PICK n \in Nat : clause \in [1..n -> RowsOver(vars)]
  BY <1>1, SeqDef DEF RowsInv
<1>6. WellFormed(u)
  BY <1>4 DEF MergedRight, ClassSet
<1>7. \A i \in DOMAIN clause : clause[i] \in RowsOver(vars) /\ Rewritten(u, clause[i]) \in RowsOver(vars)
  <2>1. \A i \in DOMAIN clause : clause[i] \in RowsOver(vars)
    BY <1>5
  <2> QED
    BY <1>1, <1>6, <2>1, RewrittenShape
<1> HIDE DEF rows, gone, witnessed
<1>8. new(u) \in [1..n -> RowsOver(vars)]
  BY <1>5, <1>7
<1>9. clause' \in Seq(RowsOver(vars)) /\ DOMAIN clause' = DOMAIN clause
  <2>1. clause' \in [1..n -> RowsOver(vars)]
    BY <1>2, <1>8
  <2> QED
    BY <1>5, <2>1, SeqDef
<1>10. rows \subseteq Active /\ gone(u) \subseteq rows /\ witnessed \subseteq Active
  BY DEF rows, gone, witnessed, Recorded, Witnesses, Binaries
<1>11. clause_delete' \subseteq DOMAIN clause' /\ Active' = Active \ (witnessed \cup gone(u))
  <2>1. clause_delete \subseteq DOMAIN clause
    BY <1>1 DEF RowsInv
  <2> QED
    BY <1>2, <1>9, <1>10, <2>1 DEF Active
<1>12. \A i \in Active' : i \in DOMAIN clause
  BY <1>11 DEF Active
<1>13. \A i \in Active' : clause'[i] = IF i \in rows THEN Rewritten(u, clause[i]) ELSE clause[i]
  BY <1>2, <1>11, <1>12
<1>14. pc' \in {"binary", "unsat"} /\ (pc' = "binary" => u.consistent)
  BY <1>1, <1>2
<1>15. pc' = "unsat" => ~u.consistent \/ \E i \in Active' : clause'[i].lits = {}
  <2> SUFFICES ASSUME pc' = "unsat", u.consistent PROVE \E i \in Active' : clause'[i].lits = {}
    OBVIOUS
  <2>1. PICK i \in rows \ gone(u) : new(u)[i].lits = {}
    BY <1>1, <1>2
  <2>2. i \in Active'
    <3>1. i \notin witnessed
      BY <2>1 DEF rows
    <3> QED
      BY <1>10, <1>11, <2>1, <3>1
  <2> QED
    BY <1>2, <2>1, <2>2
<1>16. ~any_changed' => ~any_changed /\ ~u.changed
  BY <1>2
<1> QED
  BY <1>2, <1>3, <1>4, <1>9, <1>11, <1>13, <1>14, <1>15, <1>16 DEF TurnOf, rows, gone, witnessed

(* A turn keeps what the pass relies on.                                     *)
LEMMA BinTurn ==
  ASSUME BinInv, BinaryTurn, UNCHANGED resVars
  PROVE  BinInv'
<1> SUFFICES ASSUME pc' = "binary" PROVE BinInv'
  BY DEF BinInv
<1>1. /\ pc = "binary" /\ RowsInv /\ StoredInv /\ WellFormed(Classes) /\ Untouched(Classes)
      /\ vars \in Nat /\ turn \in Nat
      /\ (~any_changed => rep = Roots(vars) /\ varval = Unassigned(vars))
  BY DEF BinaryTurn, BinInv, RowsInv
<1>2. PICK u \in Merged : TurnOf(u)
  BY TurnRows
<1> DEFINE witnessed == {p[1] : p \in Recorded}
           rows == {i \in Active \ witnessed : clause[i].degree <= 1}
           gone == {i \in rows : Gone(u, clause[i])}
           old == [rep |-> u.rep, varval |-> u.varval]
<1>3. /\ MergedRight(u)
      /\ rep' = u.rep /\ varval' = u.varval
      /\ clause' \in Seq(RowsOver(vars)) /\ clause_delete' \subseteq DOMAIN clause'
      /\ Active' = Active \ (witnessed \cup gone)
      /\ \A i \in Active' : clause'[i] = IF i \in rows THEN Rewritten(u, clause[i]) ELSE clause[i]
      /\ ~any_changed' => ~any_changed /\ ~u.changed
      /\ turn' = turn + 1
      /\ UNCHANGED <<input, vars, mapto, mapval, mapfrom, resVars>>
  BY <1>2 DEF TurnOf
<1>4. /\ u \in ClassSet /\ WellFormed(u) /\ Untouched(u)
      /\ u.rep \in [1..vars -> Literals(vars)] /\ u.varval \in Partial(vars)
      /\ (~u.changed => u.rep = rep /\ u.varval = varval)
  BY <1>3 DEF MergedRight, ClassSet
<1>5. \A i \in witnessed : clause[i].degree = 1
  BY DEF Recorded, Witnesses, Binaries
<1> HIDE DEF witnessed
<1>6. ASSUME NEW i \in Active'
      PROVE  /\ i \in Active /\ i \notin witnessed /\ i \notin gone
             /\ i \in rows => /\ clause'[i] = Rewritten(u, clause[i]) /\ ~Gone(u, clause[i])
                              /\ clause[i].degree = 1
             /\ i \notin rows => clause'[i] = clause[i] /\ clause[i].degree > 1
  <2>1. i \in Active /\ i \notin witnessed /\ i \notin gone
    BY <1>3
  <2>2. clause[i].degree \in Nat \ {0}
    BY <1>1, <2>1, ActiveRow
  <2> QED
    BY <1>3, <2>1, <2>2
<1> HIDE DEF rows, gone
<1>7. RowsInv'
  <2>1. ASSUME NEW i \in Active' PROVE Plain(clause'[i]) /\ clause'[i].degree >= 1
    <3>1. clause[i] \in RowsOver(vars) /\ Plain(clause[i]) /\ clause[i].degree \in Nat \ {0}
      BY <1>1, <1>6, ActiveRow
    <3>2. CASE i \in rows
      <4>1. Rewritten(u, clause[i]).degree = clause[i].degree /\ Plain(Rewritten(u, clause[i]))
        BY <1>1, <1>4, <1>6, <3>1, <3>2, RewrittenShape
      <4> QED
        BY <1>6, <3>1, <3>2, <4>1
    <3>3. CASE i \notin rows
      BY <1>6, <3>1, <3>3
    <3> QED BY <3>2, <3>3
  <2> QED
    BY <1>1, <1>3, <2>1 DEF RowsInv
<1>8. in_cardinality' = in_cardinality
  <2>1. ASSUME NEW i \in Active', clause'[i].degree > 1 PROVE i \in Active /\ clause'[i] = clause[i]
    <3>1. i \notin rows
      <4> SUFFICES ASSUME i \in rows PROVE FALSE
        OBVIOUS
      <4>1. clause[i] \in RowsOver(vars)
        BY <1>1, <1>6, ActiveRow
      <4>2. clause'[i].degree = 1
        BY <1>1, <1>4, <1>6, <4>1, RewrittenShape
      <4> QED BY <2>1, <4>2
    <3> QED
      BY <1>6, <3>1
  <2>2. ASSUME NEW i \in Active, clause[i].degree > 1 PROVE i \in Active' /\ clause'[i] = clause[i]
    <3>1. i \notin witnessed /\ i \notin rows
      <4>1. clause[i].degree \in Nat
        BY <1>1, ActiveRow
      <4> QED
        BY <1>5, <2>2, <4>1 DEF rows
    <3>2. i \in Active'
      BY <1>3, <3>1 DEF gone
    <3> QED
      BY <1>6, <3>1, <3>2
  <2>3. {s \in ActiveRows' : s.degree > 1} = {s \in ActiveRows : s.degree > 1}
    BY <2>1, <2>2 DEF ActiveRows
  <2> QED
    BY <2>3 DEF in_cardinality
<1>9. RowsNameFreeRoots'
  <2> SUFFICES ASSUME NEW v \in Used(ActiveRows)' PROVE u.rep[v] = v /\ u.varval[v] = 0
    BY <1>3 DEF RowsNameFreeRoots
  <2>1. PICK i \in Active' : v \in RowVars(clause'[i])
    BY DEF Used, ActiveRows
  <2>2. clause[i] \in RowsOver(vars)
    BY <1>1, <1>6, ActiveRow
  <2>3. CASE i \in rows
    BY <1>1, <1>4, <1>6, <2>1, <2>2, <2>3, RewrittenShape
  <2>4. CASE i \notin rows
    <3>1. v \in in_cardinality
      BY <1>6, <2>1, <2>4 DEF in_cardinality, ActiveRows
    <3> QED
      BY <1>4, <3>1 DEF Untouched
  <2> QED BY <2>3, <2>4
<1>10. /\ WellFormed(Classes)' /\ Untouched(Classes)'
  <2>1. Classes' = old /\ vars' = vars
    BY <1>3 DEF Classes
  <2>2. old.rep = u.rep /\ old.varval = u.varval
    OBVIOUS
  <2> HIDE DEF old
  <2>3. \A v : Root(old, v) = Root(u, v)
    BY <2>2 DEF Root
  <2>4. WellFormed(old) /\ Untouched(old)
    BY <1>4, <2>2, <2>3 DEF WellFormed, Untouched
  <2>5. \A v : Root(Classes, v)' = Root(old, v)
    BY <2>1 DEF Root
  <2>6. /\ Classes'.rep \in [1 .. vars -> Literals(vars)] /\ Classes'.varval \in Partial(vars)
        /\ \A v \in 1 .. vars : Classes'.rep[Root(Classes, v)'] = Root(Classes, v)'
    BY <2>1, <2>4, <2>5 DEF WellFormed
  <2>7. WellFormed(Classes)'
    BY <2>1, <2>6 DEF WellFormed, Root
  <2>8. Untouched(Classes)'
    BY <1>8, <2>1, <2>4, <2>5 DEF Untouched, Root
  <2> QED
    BY <2>7, <2>8
<1>11. StoredInv'
  <2>1. Eliminated' = Eliminated
    BY <1>1, <1>3 DEF Eliminated, resVars
  <2> QED
    BY <1>1, <1>3, <2>1 DEF StoredInv, resVars
<1>12. /\ turn' \in Nat /\ turn' # 0
       /\ ~any_changed' => rep' = Roots(vars') /\ varval' = Unassigned(vars')
  BY <1>1, <1>3, <1>4
<1>13. NoPureLeft'
  BY <1>12 DEF NoPureLeft
<1>14. /\ resolution' \in Seq(1 .. orivars)
       /\ mapto' \in [1 .. orivars -> 0 .. vars']
       /\ \A o \in 1 .. orivars :
            mapto'[o] = 0 => mapval'[o] \in {-1, 1} \/ \E k \in DOMAIN resolution' : resolution'[k] = o
  BY <1>1, <1>3 DEF BinInv, resVars
<1> QED
  BY <1>7, <1>9, <1>10, <1>11, <1>12, <1>13, <1>14 DEF BinInv

-----------------------------------------------------------------------------
(* The binary pass carries the satisfying assignments. *)

(* Copied and Completion, while classes are merged. *)
LEMMA BinaryCopied ==
  ASSUME BinInv, pc = "binary", NEW b \in Total(vars)
  PROVE  /\ Copied(b) = [o \in 1..orivars |->
              IF \E k \in DOMAIN resolution : resolution[k] = o THEN -10
              ELSE IF mapto[o] # 0 THEN Closure(Classes, b)[mapto[o]] ELSE mapval[o]]
         /\ Closure(Classes, b) \in Total(vars) /\ Respects(Classes, Closure(Classes, b))
         /\ Completion(b) = GetCompleteModel(res_clause, resolution, Copied(b))
         /\ \A o \in 1..orivars : mapto[o] # 0 => mapto[o] \in 1..vars
<1>1. /\ WellFormed(Classes) /\ vars \in Nat /\ mapto \in [1..orivars -> 0..vars]
  BY DEF BinInv, RowsInv
<1>2. \A o \in 1..orivars : mapto[o] # 0 => mapto[o] \in 1..vars
  BY <1>1
<1>3. ASSUME NEW v \in 1..vars PROVE Value(v, b) = Closure(Classes, b)[v]
  <2> DEFINE root == RootLit(Classes, v)
  <2>1. Value(v, b) = IF RootValue(Classes, v) # 0 THEN RootValue(Classes, v)
                      ELSE pnsign(root) * b[VarOf(root)]
    BY DEF Value, Classes
  <2>2. v \in Literals(vars) /\ VarOf(v) = v /\ pnsign(v) = 1
    BY <1>1, VarLiteral
  <2>3. VarOf(root) = Root(Classes, v) /\ pnsign(root) = 1 * pnsign(Classes.rep[v])
    BY <1>1, <2>2, RootLiteral
  <2>4. 1 * pnsign(Classes.rep[v]) = pnsign(Classes.rep[v])
    BY <1>1, RootFacts
  <2> HIDE DEF root
  <2> QED
    BY <2>1, <2>3, <2>4 DEF Closure
<1>4. Eliminated = resolution
  BY DEF Eliminated
<1> QED
  BY <1>1, <1>2, <1>3, <1>4, ClosureFacts DEF Copied, Completion

(* Closing an assignment under the classes keeps the rows it satisfies.      *)
LEMMA ClosureHolds ==
  ASSUME BinInv, pc = "binary", NEW b \in Total(vars), NEW i \in Active
  PROVE  Holds(clause[i], b) <=> Holds(clause[i], Closure(Classes, b))
<1>1. RowsInv /\ WellFormed(Classes) /\ vars \in Nat /\ RowsNameFreeRoots
  BY DEF BinInv, RowsInv
<1>2. ASSUME NEW v \in RowVars(clause[i]) PROVE b[v] = Closure(Classes, b)[v]
  <2>1. v \in 1..vars
    BY <1>1, ActiveRow
  <2>2. v \in Used(ActiveRows)
    BY DEF Used, ActiveRows
  <2>3. Classes.rep[v] = v /\ Classes.varval[v] = 0
    BY <1>1, <2>2 DEF RowsNameFreeRoots, Classes
  <2> QED
    BY <1>1, <2>1, <2>3, ClosureFacts
<1> DEFINE c == Closure(Classes, b)
<1>3. \A v \in RowVars(clause[i]) : b[v] = c[v]
  BY <1>2
<1> HIDE DEF c
<1>4. Holds(clause[i], b) <=> Holds(clause[i], c)
  BY <1>3, SameHolds
<1> QED BY <1>4 DEF c

(* A turn keeps exactly the assignments that respect the classes and satisfy *)
(* the rows.                                                                 *)
LEMMA TurnModels ==
  ASSUME BinInv, pc = "binary", NEW u, TurnOf(u), NEW x \in Total(vars)
  PROVE  u.consistent /\ Respects(u, x) /\ (\A i \in Active' : Holds(clause'[i], x))
           <=> Respects(Classes, x) /\ \A i \in Active : Holds(clause[i], x)
<1>1. /\ RowsInv /\ vars \in Nat
  BY DEF BinInv, RowsInv
<1> DEFINE witnessed == {p[1] : p \in Recorded}
           rows == {i \in Active \ witnessed : clause[i].degree <= 1}
           gone == {i \in rows : Gone(u, clause[i])}
<1>2. /\ MergedRight(u)
      /\ Active' = Active \ (witnessed \cup gone)
      /\ \A i \in Active' : clause'[i] = IF i \in rows THEN Rewritten(u, clause[i]) ELSE clause[i]
  BY DEF TurnOf
<1>3. WellFormed(u) /\ (u.consistent /\ Respects(u, x) <=> Respects(Classes, x) /\ \A y \in Acts : Obeys(x, y))
  BY <1>2 DEF MergedRight, ClassSet
<1>4. ASSUME NEW p \in Recorded
      PROVE  /\ Obeys(x, Action(p)) <=> Holds(clause[p[1]], x) /\ Holds(clause[p[2]], x)
             /\ Action(p) \in Acts /\ p[1] \in Active /\ p[2] \in Active
  <2>1. p \in Witnesses
    BY DEF Recorded
  <2> QED
    BY <1>1, <2>1, ActionMeans DEF ActionSays, Acts, Witnesses, Binaries
<1>5. (\A y \in Acts : Obeys(x, y)) <=> \A p \in Recorded : Obeys(x, Action(p))
  BY DEF Acts
<1>6. ASSUME NEW i \in rows, Respects(u, x)
      PROVE  /\ i \in gone => Holds(clause[i], x)
             /\ i \notin gone => (Holds(Rewritten(u, clause[i]), x) <=> Holds(clause[i], x))
  <2>1. i \in Active /\ clause[i].degree <= 1
    OBVIOUS
  <2>2. clause[i] \in RowsOver(vars) /\ clause[i].degree \in Nat \ {0}
    BY <1>1, <2>1, ActiveRow
  <2>3. clause[i].degree = 1
    BY <2>1, <2>2
  <2> QED
    BY <1>1, <1>3, <1>6, <2>2, <2>3, RewrittenRow
<1>7. ASSUME u.consistent, Respects(u, x), \A i \in Active' : Holds(clause'[i], x)
      PROVE  Respects(Classes, x) /\ \A i \in Active : Holds(clause[i], x)
  <2>1. Respects(Classes, x) /\ \A p \in Recorded : Obeys(x, Action(p))
    BY <1>3, <1>5, <1>7
  <2>2. ASSUME NEW i \in Active PROVE Holds(clause[i], x)
    <3>1. CASE i \in witnessed
      BY <1>4, <2>1, <3>1
    <3>2. CASE i \in gone
      BY <1>6, <1>7, <3>2
    <3>3. CASE i \notin witnessed \cup gone
      <4>1. i \in Active' /\ Holds(clause'[i], x)
        BY <1>2, <1>7, <3>3
      <4>2. CASE i \in rows
        <5>1. clause'[i] = Rewritten(u, clause[i])
          BY <1>2, <4>1, <4>2
        <5> QED
          BY <1>6, <1>7, <3>3, <4>1, <4>2, <5>1
      <4>3. CASE i \notin rows
        BY <1>2, <4>1, <4>3
      <4> QED BY <4>2, <4>3
    <3> QED BY <3>1, <3>2, <3>3
  <2> QED BY <2>1, <2>2
<1>8. ASSUME Respects(Classes, x), \A i \in Active : Holds(clause[i], x)
      PROVE  u.consistent /\ Respects(u, x) /\ \A i \in Active' : Holds(clause'[i], x)
  <2>1. u.consistent /\ Respects(u, x)
    BY <1>3, <1>4, <1>5, <1>8
  <2>2. ASSUME NEW i \in Active' PROVE Holds(clause'[i], x)
    <3>1. i \in Active /\ i \notin gone /\ Holds(clause[i], x)
      BY <1>2, <1>8
    <3>2. CASE i \in rows
      <4>1. clause'[i] = Rewritten(u, clause[i])
        BY <1>2, <3>2
      <4> QED
        BY <1>6, <2>1, <3>1, <3>2, <4>1
    <3>3. CASE i \notin rows
      BY <1>2, <3>1, <3>3
    <3> QED BY <3>2, <3>3
  <2> QED BY <2>1, <2>2
<1> QED BY <1>7, <1>8

(* The assignment that the classes make of b, and what is completed from it. *)
CompletedFrom(x) ==
  GetCompleteModel(res_clause, resolution,
    [o \in 1..orivars |->
       IF \E k \in DOMAIN resolution : resolution[k] = o THEN -10
       ELSE IF mapto[o] # 0 THEN x[mapto[o]] ELSE mapval[o]])

ReadThroughClasses ==
  /\ \A b \in Total(vars) : \E x \in Total(vars) :
       /\ Respects(Classes, x)
       /\ \A i \in Active : Holds(clause[i], b) <=> Holds(clause[i], x)
       /\ Completion(b) = CompletedFrom(x)
  /\ \A x \in Total(vars) : Respects(Classes, x) => Completion(x) = CompletedFrom(x)

Merging == BinInv /\ pc = "binary"

(* What get_complete_model gives while classes are merged: it reads each     *)
(* variable off its root.                                                    *)
LEMMA BinaryRead == Merging => ReadThroughClasses
<1> SUFFICES ASSUME BinInv, pc = "binary" PROVE ReadThroughClasses
  BY DEF Merging
<1>1. WellFormed(Classes) /\ vars \in Nat
  BY DEF BinInv, RowsInv
<1>2. ASSUME NEW b \in Total(vars), NEW x, x = Closure(Classes, b)
      PROVE  /\ x \in Total(vars) /\ Respects(Classes, x)
             /\ \A i \in Active : Holds(clause[i], b) <=> Holds(clause[i], x)
             /\ Completion(b) = CompletedFrom(x)
  <2>1. /\ Copied(b) = [o \in 1..orivars |->
              IF \E k \in DOMAIN resolution : resolution[k] = o THEN -10
              ELSE IF mapto[o] # 0 THEN x[mapto[o]] ELSE mapval[o]]
        /\ x \in Total(vars) /\ Respects(Classes, x)
        /\ Completion(b) = GetCompleteModel(res_clause, resolution, Copied(b))
    BY <1>2, BinaryCopied
  <2>2. \A i \in Active : Holds(clause[i], b) <=> Holds(clause[i], x)
    BY <1>2, ClosureHolds
  <2>3. Completion(b) = CompletedFrom(x)
    BY <2>1, Zenon DEF CompletedFrom
  <2> QED BY <2>1, <2>2, <2>3
<1>3. ASSUME NEW b \in Total(vars) PROVE \E x \in Total(vars) :
       /\ Respects(Classes, x)
       /\ \A i \in Active : Holds(clause[i], b) <=> Holds(clause[i], x)
       /\ Completion(b) = CompletedFrom(x)
  <2> DEFINE x == Closure(Classes, b)
  <2>1. x = Closure(Classes, b)
    OBVIOUS
  <2> HIDE DEF x
  <2> QED
    BY <1>2, <2>1
<1>4. ASSUME NEW x \in Total(vars), Respects(Classes, x) PROVE Completion(x) = CompletedFrom(x)
  <2>1. x = Closure(Classes, x)
    BY <1>1, <1>4, ClosureFacts
  <2> QED BY <1>2, <2>1
<1> QED
  BY <1>3, <1>4 DEF ReadThroughClasses

(* No row that is left needs nothing. *)
LEMMA TurnDegrees ==
  ASSUME BinInv, pc = "binary", NEW u, TurnOf(u), NEW i \in Active'
  PROVE  clause'[i].degree \in Nat \ {0} /\ clause'[i].lits \in SUBSET Literals(vars)
<1>1. RowsInv /\ vars \in Nat /\ WellFormed(u) /\ i \in Active
  BY DEF BinInv, RowsInv, TurnOf, MergedRight, ClassSet
<1>2. clause[i] \in RowsOver(vars) /\ clause[i].degree \in Nat \ {0}
  BY <1>1, ActiveRow
<1>3. clause'[i] = Rewritten(u, clause[i]) \/ clause'[i] = clause[i]
  BY DEF TurnOf
<1>4. Rewritten(u, clause[i]) \in RowsOver(vars) /\ Rewritten(u, clause[i]).degree = clause[i].degree
  BY <1>1, <1>2, RewrittenShape
<1> QED
  BY <1>2, <1>3, <1>4 DEF RowsOver

(* A turn of the binary pass carries the satisfying assignments, and ends    *)
(* with unsat only if there are none.                                        *)
LEMMA TurnCarried ==
  ASSUME BinInv, BinaryTurn, UNCHANGED resVars
  PROVE  (pc' # "unsat" => CarriedBack) /\ CarriedOn
<1>1. pc = "binary" /\ vars \in Nat /\ WellFormed(Classes)
  BY DEF BinaryTurn, BinInv, RowsInv
<1>2. PICK u \in Merged : TurnOf(u)
  BY TurnRows
<1>3. /\ MergedRight(u) /\ rep' = u.rep /\ varval' = u.varval
      /\ pc' \in {"binary", "unsat"}
      /\ pc' = "binary" => u.consistent
      /\ pc' = "unsat" => ~u.consistent \/ \E i \in Active' : clause'[i].lits = {}
      /\ clause' \in Seq(RowsOver(vars))
      /\ UNCHANGED <<input, vars, mapto, mapval, mapfrom, resVars>>
  BY <1>2 DEF TurnOf
<1>4. Models(vars, ActiveRows) = {a \in Total(vars) : \A i \in Active : Holds(clause[i], a)}
  BY DEF Models, ActiveRows, Total
<1>5. Models(vars, ActiveRows)' = {a \in Total(vars) : \A k \in Active' : Holds(clause'[k], a)}
  BY <1>3 DEF Models, ActiveRows, Total
<1>6. CarriedOn
  <2> SUFFICES ASSUME NEW a \in Models(vars, ActiveRows)
               PROVE  pc' # "unsat" /\ Models(vars, ActiveRows)' # {}
    BY DEF CarriedOn
  <2> DEFINE x == Closure(Classes, a)
  <2>1. a \in Total(vars) /\ \A i \in Active : Holds(clause[i], a)
    BY <1>4
  <2>2. x \in Total(vars) /\ Respects(Classes, x)
    BY <1>1, <2>1, ClosureFacts
  <2>3. \A i \in Active : Holds(clause[i], x)
    BY <1>1, <2>1, ClosureHolds
  <2> HIDE DEF x
  <2>4. u.consistent /\ \A i \in Active' : Holds(clause'[i], x)
    BY <1>1, <1>2, <2>2, <2>3, TurnModels
  <2>5. x \in Models(vars, ActiveRows)'
    BY <1>5, <2>2, <2>4
  <2>6. pc' # "unsat"
    <3> SUFFICES ASSUME NEW i \in Active', clause'[i].lits = {} PROVE FALSE
      BY <1>3, <2>4
    <3>1. clause'[i].degree \in Nat \ {0}
      BY <1>1, <1>2, TurnDegrees
    <3>2. Holds(clause'[i], x) /\ TrueLits(clause'[i], x) = {}
      BY <2>4 DEF TrueLits
    <3>3. clause'[i].degree <= 0
      BY <3>2, FS_EmptySet DEF Holds
    <3> QED
      BY <3>1, <3>3
  <2> QED BY <2>5, <2>6
<1>7. ASSUME pc' # "unsat" PROVE CarriedBack
  <2> SUFFICES ASSUME NEW b \in Models(vars, ActiveRows)'
               PROVE  \E a \in Models(vars, ActiveRows) : Completion(b)' = Completion(a)
    BY DEF CarriedBack
  <2>1. b \in Total(vars) /\ \A i \in Active' : Holds(clause'[i], b)
    BY <1>5
  <2>2. pc' = "binary" /\ u.consistent
    BY <1>3, <1>7
  <2>3. BinInv' /\ Classes'.rep = u.rep /\ Classes'.varval = u.varval
    BY <1>3, BinTurn DEF Classes
  <2>4. ReadThroughClasses'
    <3>1. Merging'
      BY <2>2, <2>3 DEF Merging
    <3> QED
      BY <3>1, BinaryRead, PTL
  <2>5. vars' = vars /\ \A x : CompletedFrom(x)' = CompletedFrom(x)
    BY <1>3 DEF CompletedFrom, resVars
  <2>6. PICK x \in Total(vars) :
          /\ Respects(Classes, x)'
          /\ \A i \in Active' : Holds(clause'[i], b) <=> Holds(clause'[i], x)
          /\ Completion(b)' = CompletedFrom(x)'
    BY <2>1, <2>4, <2>5 DEF ReadThroughClasses, Holds, TrueLits
  <2>7. Respects(u, x)
    BY <2>3, <2>5, <2>6 DEF Respects, Root
  <2>8. Respects(Classes, x) /\ \A i \in Active : Holds(clause[i], x)
    BY <1>1, <1>2, <2>1, <2>2, <2>6, <2>7, TurnModels
  <2>9. x \in Models(vars, ActiveRows)
    BY <1>4, <2>8
  <2>10. Completion(x) = CompletedFrom(x)
    BY <1>1, <2>8, BinaryRead DEF ReadThroughClasses, Merging
  <2>11. Completion(b)' = Completion(x)
    BY <2>5, <2>6, <2>10
  <2> QED BY <2>9, <2>11
<1> QED BY <1>6, <1>7

(* Leaving the binary pass without a change. *)
LEMMA LeaveModels ==
  ASSUME BinInv, LeaveBinary, UNCHANGED resVars
  PROVE  pc' = "ready" /\ CarriedBack /\ CarriedOn
<1>1. /\ pc = "binary" /\ pc' = "ready" /\ ~any_changed
      /\ UNCHANGED <<shared, varval, binVars, resVars>>
  BY DEF LeaveBinary, BinaryDone
<1>2. RowsInv /\ vars \in Nat /\ rep = Roots(vars) /\ varval = Unassigned(vars)
      /\ mapto \in [1 .. orivars -> 0 .. vars]
  BY <1>1 DEF BinInv, RowsInv
<1>3. /\ ActiveRows' = ActiveRows /\ vars' = vars /\ mapto' = mapto /\ mapval' = mapval
      /\ res_clause' = res_clause /\ resolution' = resolution
  BY <1>1, RowsAlone DEF shared, resVars
<1>4. Models(vars, ActiveRows)' = Models(vars, ActiveRows)
  BY <1>3 DEF Models
<1>5. Eliminated' = resolution /\ Eliminated = resolution
  BY <1>1, <1>3 DEF Eliminated
<1>6. NoClasses /\ NoClasses' /\ \A o \in 1..orivars : mapto[o] # 0 => mapto[o] \in Literals(vars)
  BY <1>1, <1>2, <1>3, VarLiteral DEF NoClasses
<1>7. OwnValues /\ OwnValues'
  BY <1>6, OwnValue, PTL
<1>8. ASSUME NEW b PROVE Completion(b)' = Completion(b)
  <2>1. \A o \in 1..orivars : mapto[o] # 0 =>
           Value(mapto[o], b) = pnsign(mapto[o]) * b[VarOf(mapto[o])]
    BY <1>6, <1>7 DEF OwnValues
  <2>2. Copied(b)' = [o \in 1 .. orivars |->
          IF \E k \in DOMAIN resolution : resolution[k] = o THEN -10
          ELSE IF mapto[o] # 0 THEN pnsign(mapto[o]) * b[VarOf(mapto[o])] ELSE mapval[o]]
    <3>1. pc' # "binary"
      BY <1>1
    <3> QED
      BY <1>3, <1>5, <3>1 DEF Copied, Value
  <2>3. Copied(b) = [o \in 1 .. orivars |->
          IF \E k \in DOMAIN resolution : resolution[k] = o THEN -10
          ELSE IF mapto[o] # 0 THEN pnsign(mapto[o]) * b[VarOf(mapto[o])] ELSE mapval[o]]
    BY <1>5, <2>1 DEF Copied
  <2>4. Copied(b)' = Copied(b)
    BY <2>2, <2>3
  <2> QED
    BY <1>3, <1>5, <2>4 DEF Completion
<1> QED
  BY <1>1, <1>4, <1>8 DEF CarriedBack, CarriedOn

(* The new number of a signed root, and what it reads. *)
LEMMA LabelledRoot ==
  ASSUME NEW s \in {-1, 1}, NEW k \in Nat, k # 0
  PROVE  s * k # 0 /\ pnsign(s * k) = s /\ VarOf(s * k) = k
<1>1. CASE s = 1
  BY <1>1 DEF pnsign, VarOf
<1>2. CASE s = -1
  BY <1>2 DEF pnsign, VarOf
<1> QED BY <1>1, <1>2

(* The end of the binary pass, with or without a renumbering                 *)
(* (binary.cpp:396-455), carries the satisfying assignments.                 *)
LEMMA FinishModels ==
  ASSUME BinInv, FinishBinary, UNCHANGED resVars
  PROVE  pc' = "ready" /\ CarriedBack /\ CarriedOn
<1> DEFINE c == color(ActiveRows, vars)
           label(o) == IF mapto[o] = 0 \/ RootValue(Classes, mapto[o]) # 0 THEN 0
                       ELSE pnsign(RootLit(Classes, mapto[o])) * c[VarOf(RootLit(Classes, mapto[o]))]
<1>1. /\ pc = "binary" /\ pc' = "ready" /\ UpdateVarClauseLabel
      /\ mapto' = [o \in 1 .. orivars |-> label(o)]
      /\ mapval' = [o \in 1 .. orivars |->
                      IF mapto[o] = 0 THEN mapval[o]
                      ELSE IF RootValue(Classes, mapto[o]) # 0 THEN RootValue(Classes, mapto[o])
                      ELSE IF label(o) # 0 THEN 0 ELSE pnsign(RootLit(Classes, mapto[o]))]
      /\ res_clause' = res_clause /\ resolution' = resolution
  BY DEF FinishBinary, BinaryDone, Classes, resVars
<1>2. RowsInv /\ vars \in Nat /\ WellFormed(Classes) /\ mapto \in [1 .. orivars -> 0 .. vars]
  BY <1>1 DEF BinInv, RowsInv
<1>3. Eliminated' = resolution
  BY <1>1 DEF Eliminated
<1>4. /\ \A b \in Models(vars, ActiveRows)' :
           [w \in 1..vars |-> IF c[w] # 0 THEN b[c[w]] ELSE 1] \in Models(vars, ActiveRows)
      /\ Models(vars, ActiveRows) # {} => Models(vars, ActiveRows)' # {}
  BY <1>1, <1>2, RelabelledModels
<1>5. c \in [1..vars -> Nat]
  <2>1. \A i \in Active : clause[i] \in RowsOver(vars)
    BY <1>2, ActiveRow
  <2>2. DOMAIN clause = 1..Len(clause) /\ Len(clause) \in Nat
    BY <1>2, LenProperties DEF RowsInv
  <2>3. c \in [1..vars -> 0..vars'] /\ vars' \in Nat
    BY <1>1, <1>2, <2>1, <2>2, Relabelled
  <2> QED BY <2>3
<1> HIDE DEF c
<1>6. ASSUME NEW b \in Models(vars, ActiveRows)'
      PROVE  \E a \in Models(vars, ActiveRows) : Completion(b)' = Completion(a)
  <2> DEFINE a == [w \in 1..vars |-> IF c[w] # 0 THEN b[c[w]] ELSE 1]
             x == Closure(Classes, a)
  <2>1. a \in Models(vars, ActiveRows)
    BY <1>4, <1>6
  <2>2. a \in Total(vars) /\ \A w \in 1..vars : a[w] = IF c[w] # 0 THEN b[c[w]] ELSE 1
    BY <2>1 DEF Models, Total
  <2> HIDE DEF a
  <2>3. /\ Copied(a) = [o \in 1..orivars |->
              IF \E k \in DOMAIN resolution : resolution[k] = o THEN -10
              ELSE IF mapto[o] # 0 THEN x[mapto[o]] ELSE mapval[o]]
        /\ Completion(a) = GetCompleteModel(res_clause, resolution, Copied(a))
        /\ \A o \in 1..orivars : mapto[o] # 0 => mapto[o] \in 1..vars
    BY <1>1, <2>2, BinaryCopied
  <2>4. Copied(b)' = [o \in 1..orivars |->
              IF \E k \in DOMAIN resolution : resolution[k] = o THEN -10
              ELSE IF mapto'[o] # 0 THEN pnsign(mapto'[o]) * b[VarOf(mapto'[o])] ELSE mapval'[o]]
    <3>1. pc' # "binary"
      BY <1>1
    <3> QED
      BY <1>3, <3>1 DEF Copied, Value
  <2>5. ASSUME NEW o \in 1..orivars, mapto[o] # 0
        PROVE  (IF mapto'[o] # 0 THEN pnsign(mapto'[o]) * b[VarOf(mapto'[o])] ELSE mapval'[o])
                 = x[mapto[o]]
    <3> DEFINE v == mapto[o]
               root == RootLit(Classes, v)
               s == pnsign(Classes.rep[v])
               w == Root(Classes, v)
    <3>1. v \in 1..vars /\ v \in Literals(vars) /\ VarOf(v) = v /\ pnsign(v) = 1
      BY <1>2, <2>3, <2>5, VarLiteral
    <3>2. VarOf(root) = w /\ pnsign(root) = 1 * s
      BY <1>2, <3>1, RootLiteral
    <3>3. s \in {-1, 1} /\ w \in 1..vars
      BY <1>2, <3>1, RootFacts
    <3>4. x[v] = IF RootValue(Classes, v) # 0 THEN RootValue(Classes, v) ELSE s * a[w]
      BY <3>1 DEF Closure
    <3>5. mapto'[o] = IF RootValue(Classes, v) # 0 THEN 0 ELSE pnsign(root) * c[VarOf(root)]
      BY <1>1, <2>5
    <3>6. mapval'[o] = IF RootValue(Classes, v) # 0 THEN RootValue(Classes, v)
                       ELSE IF mapto'[o] # 0 THEN 0 ELSE pnsign(root)
      BY <1>1, <2>5
    <3>7. c[w] \in Nat /\ a[w] = IF c[w] # 0 THEN b[c[w]] ELSE 1
      BY <1>5, <2>2, <3>3
    <3>8. pnsign(root) = s
      BY <3>2, <3>3
    <3> DEFINE val == RootValue(Classes, v)
               to == mapto'[o]
               mv == mapval'[o]
               cw == c[w]
               aw == a[w]
    <3>9. to = IF val # 0 THEN 0 ELSE s * cw
      BY <3>2, <3>5, <3>8
    <3>10. mv = IF val # 0 THEN val ELSE IF to # 0 THEN 0 ELSE s
      BY <3>6, <3>8
    <3>11. cw # 0 => s * cw # 0 /\ pnsign(s * cw) = s /\ VarOf(s * cw) = cw
      BY <3>3, <3>7, LabelledRoot
    <3>12. cw = 0 => s * cw = 0
      BY <3>3
    <3>13. s * 1 = s
      BY <3>3
    <3> HIDE DEF val, to, mv, cw, aw, s, root, w
    <3>14. x[v] = IF val # 0 THEN val ELSE s * aw
      BY <3>4 DEF val, aw, w, s
    <3>15. aw = IF cw # 0 THEN b[cw] ELSE 1
      BY <3>7 DEF aw, cw
    <3>16. (IF to # 0 THEN pnsign(to) * b[VarOf(to)] ELSE mv) = x[v]
      <4>1. CASE val # 0
        BY <3>9, <3>10, <3>14, <4>1
      <4>2. CASE val = 0 /\ cw # 0
        <5>1. to = s * cw /\ to # 0 /\ pnsign(to) = s /\ VarOf(to) = cw
          BY <3>9, <3>11, <4>2
        <5> QED
          BY <3>14, <3>15, <4>2, <5>1
      <4>3. CASE val = 0 /\ cw = 0
        <5>1. to = 0 /\ mv = s /\ aw = 1
          BY <3>9, <3>10, <3>12, <3>15, <4>3
        <5> QED
          BY <3>13, <3>14, <4>3, <5>1
      <4> QED BY <4>1, <4>2, <4>3
    <3> QED
      BY <3>16 DEF to, mv
  <2>6. ASSUME NEW o \in 1..orivars, mapto[o] = 0 PROVE mapto'[o] = 0 /\ mapval'[o] = mapval[o]
    BY <1>1, <2>6
  <2>7. Copied(b)' = Copied(a)
    BY <2>3, <2>4, <2>5, <2>6
  <2>8. Completion(b)' = Completion(a)
    BY <1>1, <1>3, <2>3, <2>7 DEF Completion
  <2> QED BY <2>1, <2>8
<1> QED
  BY <1>1, <1>4, <1>6 DEF CarriedBack, CarriedOn

-----------------------------------------------------------------------------
(* The passes together. *)

(* What is kept by every pass, from the file on. *)
Promise == Completable /\ SatisfiabilityKept

(* The models of the file, and what Completable asks, written out. *)
LEMMA InputModels ==
  /\ Models(orivars, InputRows) = {a \in Total(orivars) : \A i \in DOMAIN input : Holds(input[i], a)}
  /\ Completable <=> (Renumbered => \A a \in Models(vars, ActiveRows) :
                        Completion(a).ok /\ Completion(a).values \in Models(orivars, InputRows))
<1>1. Models(orivars, InputRows) = {a \in Total(orivars) : \A i \in DOMAIN input : Holds(input[i], a)}
  BY DEF Models, InputRows, Total
<1> QED
  BY <1>1 DEF Completable, Completion

(* The file stays the same. *)
LEMMA SameInput ==
  ASSUME input' = input PROVE Models(orivars, InputRows)' = Models(orivars, InputRows)
BY DEF Models, InputRows

(* A step that carries the satisfying assignments keeps the promise. *)
LEMMA PromiseCarried ==
  ASSUME Promise, Renumbered, input' = input, Renumbered' => CarriedBack, CarriedOn
  PROVE  Promise'
<1> DEFINE M == Models(orivars, InputRows)
<1>1. M' = M
  BY SameInput
<1> HIDE DEF M
<1>2. Completable'
  <2> SUFFICES ASSUME Renumbered', NEW b \in Models(vars, ActiveRows)'
               PROVE  Completion(b)'.ok /\ Completion(b)'.values \in M'
    BY DEF Completable, Completion, M
  <2>1. PICK a \in Models(vars, ActiveRows) : Completion(b)' = Completion(a)
    BY DEF CarriedBack
  <2>2. Completion(a).ok /\ Completion(a).values \in M
    BY <2>1, InputModels DEF Promise, M
  <2> QED BY <1>1, <2>1, <2>2
<1>3. SatisfiabilityKept'
  <2> SUFFICES ASSUME M' # {}
               PROVE  pc' # "unsat" /\ (Renumbered' => Models(vars, ActiveRows)' # {})
    BY DEF SatisfiabilityKept, M
  <2>1. Models(vars, ActiveRows) # {}
    BY <1>1 DEF Promise, SatisfiabilityKept, M
  <2> QED BY <2>1 DEF CarriedOn
<1> QED BY <1>2, <1>3 DEF Promise

Passes == {"up", "eliminate", "pure", "binary", "ready", "unsat"}

PassInv ==
  /\ pc \in Passes
  /\ UpInv /\ UpRest /\ ElimInv /\ BinInv
  /\ NothingForcedLeft
  /\ Promise

(* The passes start with the promise kept. *)
LEMMA PassInit == Init => PassInv
<1> SUFFICES ASSUME Init PROVE PassInv
  OBVIOUS
<1>1. pc = "up" /\ UpInv
  BY UpInit DEF Init
<1>2. UpRest
  BY DEF Init, UpRest
<1> QED
  BY <1>1, <1>2 DEF PassInv, Passes, ElimInv, BinInv, NothingForcedLeft, Promise, Completable,
                    SatisfiabilityKept, Renumbered

(* A step of the propagation. *)
LEMMA PassPropagate == ASSUME PassInv, Propagate PROVE PassInv'
<1>1. UpInv /\ UpRest /\ UNCHANGED <<resVars, binVars>>
  BY DEF PassInv, Propagate
<1>2. input' = input /\ pc = "up"
  BY DEF Propagate, LoadRow, StartRound, SimplifyTouched, FinishPropagation, RowsRead, shared
<1>3. ASSUME LoadRow \/ SimplifyTouched \/ StartRound PROVE PassInv'
  <2>1. /\ UpInv' /\ pc' \in {"up", "unsat"}
        /\ pc' = "unsat" => \A a \in Total(orivars) : \E i \in RowsOfInput : ~Holds(input[i], a)
    BY <1>1, <1>3, UpLoadRow, UpSimplifyTouched, UpStartRound
  <2>2. UpRest'
    BY <1>1, <1>2, <2>1 DEF UpRest, resVars, binVars
  <2>3. ElimInv' /\ BinInv' /\ NothingForcedLeft' /\ Completable' /\ ~Renumbered' /\ pc' \in Passes
    BY <2>1 DEF ElimInv, BinInv, NothingForcedLeft, Completable, Renumbered, Passes
  <2>4. ASSUME pc' = "unsat" PROVE Models(orivars, InputRows)' = {}
    <3>1. DOMAIN input = RowsOfInput
      BY <1>1, <1>2, InputFacts DEF UpInv, UpType
    <3> QED
      BY <1>2, <2>1, <2>4, <3>1, InputModels, SameInput
  <2>5. SatisfiabilityKept'
    BY <2>3, <2>4 DEF SatisfiabilityKept
  <2> QED
    BY <2>1, <2>2, <2>3, <2>5 DEF PassInv, Promise
<1>4. ASSUME FinishPropagation PROVE PassInv'
  <2>1. /\ pc' = "eliminate" /\ ElimInv' /\ NothingForcedLeft'
        /\ \A b \in Models(vars, ActiveRows)' : \E a \in Total(orivars) :
              /\ SatisfiesInput(a)
              /\ a = [o \in 1..orivars |-> IF mapto'[o] # 0 THEN b[mapto'[o]] ELSE mapval'[o]]
        /\ (\E a \in Total(orivars) : SatisfiesInput(a)) => Models(vars, ActiveRows)' # {}
    BY <1>1, <1>4, FinishUp
  <2>2. DOMAIN input = RowsOfInput
    BY <1>1, <1>2, InputFacts DEF UpInv, UpType
  <2>3. \A a : a \in Models(orivars, InputRows)' <=> a \in Total(orivars) /\ SatisfiesInput(a)
    BY <1>2, <2>2, InputModels, SameInput DEF SatisfiesInput
  <2>4. ASSUME NEW b \in Models(vars, ActiveRows)'
        PROVE  Completion(b)'.ok /\ Completion(b)'.values \in Models(orivars, InputRows)'
    <3>1. PICK a \in Total(orivars) :
              /\ SatisfiesInput(a)
              /\ a = [o \in 1..orivars |-> IF mapto'[o] # 0 THEN b[mapto'[o]] ELSE mapval'[o]]
      BY <2>1
    <3>2. resolution' = <<>> /\ Eliminated' = [k \in DOMAIN resolution' |-> mapfrom'[resolution'[k]]]
      BY <1>1, <1>2, <2>1 DEF Eliminated, UpRest, resVars
    <3>3. Copied(b)' = [o \in 1..orivars |->
              IF mapto'[o] # 0 THEN pnsign(mapto'[o]) * b[VarOf(mapto'[o])] ELSE mapval'[o]]
      <4>1. pc' # "binary" /\ DOMAIN Eliminated' = {}
        BY <2>1, <3>2
      <4> QED
        BY <4>1 DEF Copied, Value
    <3>4. ASSUME NEW o \in 1..orivars, mapto'[o] # 0
          PROVE  pnsign(mapto'[o]) * b[VarOf(mapto'[o])] = b[mapto'[o]]
      <4>1. vars' \in Nat /\ mapto' \in [1..orivars -> 0..vars'] /\ b \in [1..vars' -> {-1, 1}]
        BY <2>1 DEF ElimInv, MapInv, RowsInv, Models
      <4>2. mapto'[o] \in 1..vars'
        BY <3>4, <4>1
      <4>3. VarOf(mapto'[o]) = mapto'[o] /\ pnsign(mapto'[o]) = 1 /\ b[mapto'[o]] \in Int
        BY <4>1, <4>2, VarLiteral
      <4> QED BY <4>3
    <3>5. Copied(b)' = a
      BY <3>1, <3>3, <3>4
    <3>6. {v \in DOMAIN a : a[v] \notin {-1, 0, 1}} = {}
      BY DEF Total
    <3>7. GetCompleteModel(res_clause', Eliminated', a) = [values |-> a, ok |-> TRUE]
      BY <3>6 DEF GetCompleteModel
    <3>8. Completion(b)' = [values |-> a, ok |-> TRUE]
      BY <3>5, <3>7 DEF Completion
    <3> QED
      BY <2>3, <3>1, <3>8
  <2>5. Completable'
    BY <2>4 DEF Completable, Completion
  <2>6. SatisfiabilityKept'
    BY <2>1, <2>3 DEF SatisfiabilityKept
  <2>7. UpInv' /\ UpRest' /\ BinInv' /\ pc' \in Passes
    BY <2>1 DEF UpInv, UpRest, BinInv, Passes
  <2> QED
    BY <2>1, <2>5, <2>6, <2>7 DEF PassInv, Promise
<1> QED
  BY <1>3, <1>4 DEF Propagate

(* Every step of the elimination keeps it, by the lemmas on rows and on      *)
(* satisfying assignments above.                                             *)
LEMMA PassResolve == ASSUME PassInv, Resolve PROVE PassInv'
<1>1. ElimInv /\ Promise /\ UNCHANGED binVars
  BY DEF PassInv, Resolve
<1>2. input' = input /\ pc \in {"eliminate", "pure"}
  BY DEF Resolve, KeepVariable, RefuteByResolution, EliminateVariable, StartPure, DropCandidate,
         DropUnused, AssignPure, Trying, shared
<1>3. ASSUME ElimInv', pc' \in {"eliminate", "pure", "unsat"}, NothingForcedLeft',
             Renumbered' => CarriedBack, CarriedOn
      PROVE  PassInv'
  <2>1. Promise'
    BY <1>1, <1>2, <1>3, PromiseCarried DEF Renumbered
  <2>2. UpInv' /\ UpRest' /\ BinInv' /\ pc' \in Passes
    BY <1>3 DEF UpInv, UpRest, BinInv, Passes
  <2> QED
    BY <1>3, <2>1, <2>2 DEF PassInv
<1>4. next \in Nat \ {0}
  BY <1>1, <1>2 DEF ElimInv
<1>5. CASE KeepVariable
  <2>1. ElimInv' /\ pc' = "eliminate" /\ next' = next + 1 /\ UNCHANGED <<shared, res_clause, resolution>>
    BY <1>1, <1>5, ElimKeepVariable DEF KeepVariable, resVars
  <2>2. CarriedBack /\ CarriedOn
    BY <1>1, <1>2, <2>1, SameModels
  <2> QED
    BY <1>3, <1>4, <2>1, <2>2 DEF NothingForcedLeft
<1>6. CASE StartPure \/ DropCandidate \/ DropUnused
  <2>1. ElimInv' /\ pc' = "pure" /\ UNCHANGED <<shared, res_clause, resolution>>
    BY <1>1, <1>6, ElimStartPure, ElimDropCandidate, ElimDropUnused
       DEF StartPure, DropCandidate, DropUnused
  <2>2. CarriedBack /\ CarriedOn
    BY <1>1, <1>2, <2>1, SameModels
  <2> QED
    BY <1>3, <2>1, <2>2 DEF NothingForcedLeft
<1>7. CASE RefuteByResolution
  <2>1. pc' = "unsat" /\ CarriedOn
    BY <1>1, <1>7, NoneRefuted DEF RefuteByResolution
  <2> QED
    BY <1>3, <2>1 DEF NothingForcedLeft, ElimInv, Renumbered
<1>8. CASE EliminateVariable
  <2>1. ElimInv' /\ pc' = "eliminate" /\ next' = next + 1 /\ CarriedBack /\ CarriedOn
    BY <1>1, <1>8, ElimEliminate, EliminateModels DEF EliminateVariable
  <2> QED
    BY <1>3, <1>4, <2>1 DEF NothingForcedLeft
<1>9. CASE AssignPure
  <2>1. ElimInv' /\ pc' \in {"pure", "unsat"} /\ CarriedBack /\ CarriedOn
    BY <1>1, <1>9, ElimAssignPure, PureModels
  <2> QED
    BY <1>3, <2>1 DEF NothingForcedLeft
<1> QED
  BY <1>5, <1>6, <1>7, <1>8, <1>9 DEF Resolve

(* So does the step into the binary pass. *)
LEMMA PassEnterBinary == ASSUME PassInv, EnterBinary PROVE PassInv'
<1>1. /\ ElimInv /\ Promise /\ rep' = Roots(vars') /\ UNCHANGED <<turn, turn_changed, any_changed>>
  BY DEF PassInv, EnterBinary
<1>2. input' = input /\ pc = "pure"
  BY DEF EnterBinary, FinishUnchanged, FinishResolution, PureDone, shared
<1>3. pc' = "binary" /\ BinInv' /\ CarriedBack /\ CarriedOn
  <2>1. CASE FinishUnchanged
    <3>1. /\ pc' = "binary" /\ BinInv'
          /\ Models(vars, ActiveRows)' = Models(vars, ActiveRows)
          /\ \A b \in Models(vars, ActiveRows) : Completion(b)' = Completion(b)
      BY <1>1, <2>1, EnterUnchanged
    <3> QED
      BY <3>1 DEF CarriedBack, CarriedOn
  <2>2. CASE FinishResolution
    <3>1. /\ pc' = "binary" /\ BinInv'
          /\ \A b \in Models(vars, ActiveRows)' : \E a \in Models(vars, ActiveRows) :
               Completion(b)' = Completion(a)
          /\ Models(vars, ActiveRows) # {} => Models(vars, ActiveRows)' # {}
      BY <1>1, <2>2, EnterResolved
    <3> QED
      BY <3>1 DEF CarriedBack, CarriedOn
  <2> QED BY <2>1, <2>2 DEF EnterBinary
<1>4. Promise'
  BY <1>1, <1>2, <1>3, PromiseCarried DEF Renumbered
<1> QED
  BY <1>3, <1>4 DEF PassInv, UpInv, UpRest, ElimInv, NothingForcedLeft, Passes

(* So does every turn of the binary pass, and its end. *)
LEMMA PassMerge == ASSUME PassInv, Merge PROVE PassInv'
<1>1. BinInv /\ Promise /\ UNCHANGED resVars
  BY DEF PassInv, Merge
<1>2. input' = input /\ pc = "binary"
  BY DEF Merge, BinaryTurn, LeaveBinary, FinishBinary, BinaryDone, shared
<1>3. /\ pc' \in {"binary", "ready", "unsat"} /\ BinInv'
      /\ Renumbered' => CarriedBack
      /\ CarriedOn
  <2>1. CASE BinaryTurn
    <3>1. BinInv' /\ (pc' # "unsat" => CarriedBack) /\ CarriedOn
      BY <1>1, <2>1, BinTurn, TurnCarried
    <3>2. pc' \in {"binary", "unsat"}
      BY <1>1, <2>1, TurnRows DEF TurnOf
    <3> QED
      BY <3>1, <3>2 DEF Renumbered
  <2>2. CASE LeaveBinary \/ FinishBinary
    <3>1. pc' = "ready" /\ CarriedBack /\ CarriedOn
      BY <1>1, <2>2, LeaveModels, FinishModels
    <3> QED
      BY <3>1 DEF BinInv
  <2> QED BY <2>1, <2>2 DEF Merge
<1>4. Promise'
  BY <1>1, <1>2, <1>3, PromiseCarried DEF Renumbered
<1> QED
  BY <1>3, <1>4 DEF PassInv, UpInv, UpRest, ElimInv, NothingForcedLeft, Passes

(* Nothing in the invariant depends on anything but the state. *)
LEMMA PassStutter == ASSUME PassInv, UNCHANGED state PROVE PassInv'
<1>1. pc' = pc /\ UNCHANGED <<shared, varval, next, upVars, resVars, binVars>>
  BY DEF state
<1>2. /\ Active' = Active /\ ActiveRows' = ActiveRows /\ Used(ActiveRows)' = Used(ActiveRows)
      /\ \A l : HasLit(l)' = HasLit(l)
      /\ RowsInv => RowsInv'
  BY <1>1, RowsAlone
<1>3. Eliminated' = Eliminated /\ RowsOfInput' = RowsOfInput
  BY <1>1 DEF Eliminated, RowsOfInput, shared, resVars
<1>4. input' = input /\ vars' = vars /\ clause' = clause /\ clause_delete' = clause_delete
      /\ mapto' = mapto /\ mapval' = mapval /\ mapfrom' = mapfrom /\ pending' = pending
      /\ touched' = touched /\ res_clause' = res_clause /\ resolution' = resolution
      /\ clean' = clean /\ pure_queue' = pure_queue /\ changed' = changed /\ rep' = rep
      /\ turn' = turn /\ turn_changed' = turn_changed /\ any_changed' = any_changed
  BY <1>1 DEF shared, upVars, resVars, binVars
<1>5. UpInv'
  BY <1>1, <1>3, <1>4 DEF PassInv, UpInv, UpType, UpRows, UpModels, Respected
<1>6. UpRest'
  BY <1>1, <1>4 DEF PassInv, UpRest
<1>7. StoredInv => StoredInv'
  BY <1>3, <1>4 DEF StoredInv
<1>8. ElimInv'
  <2>1. (MapInv => MapInv') /\ (CleanInv => CleanInv')
    BY <1>1, <1>2, <1>4 DEF MapInv, CleanInv
  <2>2. \A v : OneSided(v)' <=> OneSided(v)
    BY <1>2 DEF OneSided
  <2> QED
    BY <1>1, <1>2, <1>4, <1>7, <2>1, <2>2 DEF PassInv, ElimInv
<1>9. BinInv'
  <2>1. Classes' = Classes /\ in_cardinality' = in_cardinality
    BY <1>1, <1>2, <1>4 DEF Classes, in_cardinality
  <2>2. \A v : Root(Classes, v)' = Root(Classes, v)
    BY <2>1 DEF Root
  <2>3. (WellFormed(Classes) => WellFormed(Classes)') /\ (Untouched(Classes) => Untouched(Classes)')
    BY <1>4, <2>1, <2>2 DEF WellFormed, Untouched
  <2>4. (RowsNameFreeRoots => RowsNameFreeRoots') /\ (NoPureLeft => NoPureLeft')
    BY <1>1, <1>2, <1>4 DEF RowsNameFreeRoots, NoPureLeft
  <2> QED
    BY <1>1, <1>2, <1>4, <1>7, <2>3, <2>4 DEF PassInv, BinInv
<1>10. NothingForcedLeft'
  BY <1>1, <1>2, <1>4 DEF PassInv, NothingForcedLeft
<1>11. Models(vars, ActiveRows)' = Models(vars, ActiveRows)
       /\ Models(orivars, InputRows)' = Models(orivars, InputRows)
  BY <1>2, <1>4 DEF Models, InputRows
<1>12. Promise'
  <2>2. \A b : Copied(b)' = Copied(b)
    BY <1>1, <1>3, <1>4 DEF Copied, Value
  <2>3. Completable'
    BY <1>1, <1>3, <1>4, <1>11, <2>2 DEF PassInv, Promise, Completable, Renumbered
  <2>4. SatisfiabilityKept'
    BY <1>1, <1>11 DEF PassInv, Promise, SatisfiabilityKept, Renumbered
  <2> QED
    BY <2>3, <2>4 DEF Promise
<1> QED
  BY <1>1, <1>5, <1>6, <1>8, <1>9, <1>10, <1>12 DEF PassInv

(* In every reachable state of do_preprocess (preprocess.cpp:139-175),       *)
(* whatever the file: the invariant of the pass that runs, and the promise   *)
(* that satisfying assignments of the rows complete to models of the file    *)
(* and are not all lost.                                                     *)
THEOREM PassesKept == Spec => []PassInv
<1>1. ASSUME PassInv, [Next]_state PROVE PassInv'
  BY <1>1, PassPropagate, PassResolve, PassEnterBinary, PassMerge, PassStutter DEF Next
<1> QED
  BY <1>1, PassInit, PTL DEF Spec

(* preprocess_up (propagation.cpp:57-150) keeps exactly the models: in every *)
(* reachable state before renumbering, the assignments that keep the values  *)
(* found and satisfy the rows left are the models of the file.               *)
THEOREM PropagationKept == Spec => []PropagationExact
<1>1. PassInv => PropagationExact
  <2> SUFFICES ASSUME PassInv PROVE PropagationExact
    OBVIOUS
  <2>1. NothingForcedLeft
    BY DEF PassInv
  <2>2. ModelsPropagated
    <3> SUFFICES ASSUME pc = "up"
                 PROVE Models(orivars, InputRows) =
                   {a \in Models(orivars, ActiveRows) :
                      \A v \in 1 .. orivars : varval[v] # 0 => a[v] = varval[v]}
      BY DEF ModelsPropagated
    <3>1. UpType /\ UpModels
      BY DEF PassInv, UpInv
    <3>2. /\ DOMAIN input = RowsOfInput /\ DOMAIN clause = RowsOfInput
          /\ DOMAIN varval = 1..orivars
      BY <3>1, InputFacts DEF UpType, Partial
    <3>3. Models(orivars, InputRows) = {a \in Total(orivars) : Respected(a)}
      BY <3>1, <3>2, InputModels DEF UpModels
    <3>4. Models(orivars, ActiveRows)
            = {a \in Total(orivars) : \A i \in RowsOfInput \ clause_delete : Holds(clause[i], a)}
      BY <3>2 DEF Models, ActiveRows, Active, Total
    <3> QED
      BY <3>2, <3>3, <3>4 DEF Respected, Agrees
  <2> QED BY <2>1, <2>2 DEF PropagationExact
<1> QED
  BY <1>1, PassesKept, PTL

(* get_complete_model (preprocess.cpp:178-256) turns every satisfying        *)
(* assignment of the rows, at whatever point preprocessing stands, into a    *)
(* model of the file, and never fails on the way.                            *)
THEOREM CompletableKept == Spec => []Completable
<1>1. PassInv => Completable
  BY DEF PassInv, Promise
<1> QED
  BY <1>1, PassesKept, PTL

(* Preprocessing (preprocess.cpp:139-175) answers unsat only for a file      *)
(* without a model, and leaves rows without a satisfying assignment only for *)
(* such a file.                                                              *)
THEOREM SatisfiabilityNotLost == Spec => []SatisfiabilityKept
<1>1. PassInv => SatisfiabilityKept
  BY DEF PassInv, Promise
<1> QED
  BY <1>1, PassesKept, PTL

(* The pure phase (resolution.cpp:287-350) ends with every variable of a row *)
(* occurring both ways: its queue, which is fed only by the rows that go,    *)
(* misses none.                                                              *)
THEOREM PureFound == Spec => []NoPureLeft
<1>1. PassInv => NoPureLeft
  BY DEF PassInv, BinInv, NoPureLeft
<1> QED
  BY <1>1, PassesKept, PTL

(* After each turn of the binary pass (binary.cpp:326-395) the rows name     *)
(* only roots without a value, so that the classes can be left behind.       *)
THEOREM RowsOverRoots == Spec => []RowsNameFreeRoots
<1>1. PassInv => RowsNameFreeRoots
  BY DEF PassInv, BinInv, RowsNameFreeRoots
<1> QED
  BY <1>1, PassesKept, PTL

-----------------------------------------------------------------------------
(* The program. *)

(* A second line after the first. *)
LEMMA Two == ASSUME NEW S, NEW a \in S, NEW b \in S PROVE Append(<<a>>, b) = <<a, b>>
<1>1. <<a>> \in Seq(S) /\ Len(<<a>>) = 1
  OBVIOUS
<1>2. Append(<<a>>, b) \in Seq(S) /\ Len(Append(<<a>>, b)) = 2 /\ Append(<<a>>, b)[1] = a /\ Append(<<a>>, b)[2] = b
  BY <1>1, AppendProperties
<1>3. <<a, b>> \in Seq(S) /\ Len(<<a, b>>) = 2 /\ <<a, b>>[1] = a /\ <<a, b>>[2] = b
  OBVIOUS
<1>4. \A k \in 1..2 : Append(<<a>>, b)[k] = <<a, b>>[k]
  <2>1. \A k \in 1..2 : k = 1 \/ k = 2
    OBVIOUS
  <2> QED BY <1>2, <1>3, <2>1
<1> QED BY <1>2, <1>3, <1>4, SeqEqual, Zenon

(* When main has returned from run, what it knows is true of the file.       *)
ResultRight ==
  /\ res = 10 => m_model \in Models(orivars, InputRows)
  /\ res = 20 => Models(orivars, InputRows) = {}
  /\ res \in {0, 10, 20}
  /\ res = 10 <=> answer = 10
  /\ res = 20 <=> answer = 20 \/ (preprocessing /\ pc = "unsat")

(* What is printed at each point of main. *)
FinalLines == IF res = 10 THEN <<"SATISFIABLE", "v">> ELSE <<StatusLine>>

Lines == {"SATISFIABLE", "UNSATISFIABLE", "UNKNOWN", "v"}

LinesRight ==
  /\ output \in Seq(Lines)
  /\ at \in {"run", "report"} => output = <<>>
  /\ at = "model" => output = <<"SATISFIABLE">> /\ res = 10
  /\ at = "leave" \/ (at = "ended" /\ ~interrupted) => output = FinalLines
  /\ Printed("SATISFIABLE") => res = 10
  /\ Printed("UNSATISFIABLE") => res = 20

(* The rows are those of the file until a pass changes them. *)
Unpreprocessed ==
  ~preprocessing => pc = "up" /\ vars = orivars /\ clause = input /\ clause_delete = {}

ProgramInv ==
  /\ PassInv
  /\ Unpreprocessed
  /\ at \in {"run", "report", "model", "leave", "ended"}
  /\ at = "run" => res = 0 /\ answer = 0
  /\ at \notin {"run", "ended"} \/ (at = "ended" /\ ~interrupted) => ResultRight
  /\ res = 10 => m_model \in Models(orivars, InputRows)
  /\ res = 20 => Models(orivars, InputRows) = {}
  /\ interrupted => at = "ended"
  /\ LinesRight

(* The program starts in the invariant. *)
LEMMA ProgramInitRight == ProgramInit => ProgramInv
<1> SUFFICES ASSUME ProgramInit PROVE ProgramInv
  OBVIOUS
<1>1. Init /\ at = "run" /\ answer = 0 /\ res = 0 /\ output = <<>> /\ interrupted = FALSE
  BY DEF ProgramInit
<1>2. PassInv /\ Unpreprocessed
  BY <1>1, PassInit DEF Unpreprocessed, Init
<1>3. LinesRight
  BY <1>1 DEF LinesRight, Printed
<1> QED
  BY <1>1, <1>2, <1>3 DEF ProgramInv

(* The state that the engine is given. *)
LEMMA RowsGiven ==
  ASSUME ProgramInv, RowsReady, NEW a \in Models(vars, ActiveRows)
  PROVE  Completed(a).ok /\ Completed(a).values \in Models(orivars, InputRows)
<1>1. CASE preprocessing
  <2>1. Renumbered /\ Completable
    BY <1>1 DEF RowsReady, Renumbered, ProgramInv, PassInv, Promise
  <2>2. Completed(a) = Completion(a)
    BY <1>1 DEF Completed, Completion
  <2> QED
    BY <2>1, <2>2, InputModels
<1>2. CASE ~preprocessing
  <2>1. vars = orivars /\ clause = input /\ clause_delete = {}
    BY <1>2 DEF ProgramInv, Unpreprocessed
  <2>2. ActiveRows = InputRows
    BY <2>1 DEF ActiveRows, Active, InputRows
  <2> QED
    BY <1>2, <2>1, <2>2 DEF Completed
<1> QED BY <1>1, <1>2

(* Rows without a satisfying assignment come from a file without a model. *)
LEMMA NoneGiven ==
  ASSUME ProgramInv, RowsReady, Models(vars, ActiveRows) = {}
  PROVE  Models(orivars, InputRows) = {}
<1>1. CASE preprocessing
  BY <1>1 DEF RowsReady, Renumbered, ProgramInv, PassInv, Promise, SatisfiabilityKept
<1>2. CASE ~preprocessing
  <2>1. vars = orivars /\ clause = input /\ clause_delete = {}
    BY <1>2 DEF ProgramInv, Unpreprocessed
  <2>2. ActiveRows = InputRows
    BY <2>1 DEF ActiveRows, Active, InputRows
  <2> QED
    BY <2>1, <2>2
<1> QED BY <1>1, <1>2

(* Every step of the program keeps the invariant: the passes by PassesKept,  *)
(* the engine by its contract, main and the signal handler by the lines they *)
(* print.                                                                    *)
LEMMA ProgramStep == ASSUME ProgramInv, [ProgramNext]_programVars PROVE ProgramInv'
<1> DEFINE M == Models(orivars, InputRows)
<1>0. /\ PassInv /\ Unpreprocessed /\ LinesRight
      /\ at \in {"run", "report", "model", "leave", "ended"}
      /\ at = "run" => res = 0 /\ answer = 0
      /\ at \notin {"run", "ended"} \/ (at = "ended" /\ ~interrupted) => ResultRight
      /\ res = 10 => m_model \in M
      /\ res = 20 => M = {}
      /\ interrupted => at = "ended"
  BY DEF ProgramInv
<1>1. ASSUME UNCHANGED state
      PROVE  PassInv' /\ (Unpreprocessed /\ preprocessing' = preprocessing => Unpreprocessed')
             /\ M' = M /\ pc' = pc
  <2>1. PassInv'
    BY <1>0, <1>1, PassStutter
  <2>2. input' = input /\ pc' = pc /\ vars' = vars /\ clause' = clause /\ clause_delete' = clause_delete
    BY <1>1 DEF state, shared
  <2> QED
    BY <2>1, <2>2, SameInput DEF Unpreprocessed
<1>2. CASE DoPreprocess
  <2>1. preprocessing /\ at = "run" /\ Next /\ UNCHANGED mainVars
    BY <1>2 DEF DoPreprocess
  <2>2. PassInv'
    BY <1>0, <2>1, PassPropagate, PassResolve, PassEnterBinary, PassMerge DEF Next
  <2>3. at' = "run" /\ res' = 0 /\ answer' = 0 /\ output' = <<>> /\ ~interrupted' /\ preprocessing'
    BY <1>0, <2>1 DEF mainVars, LinesRight
  <2> QED
    BY <2>2, <2>3 DEF ProgramInv, LinesRight, Unpreprocessed, Printed
<1>3. CASE Refused
  <2>1. /\ preprocessing /\ at = "run" /\ pc = "unsat" /\ res' = 20 /\ at' = "report"
        /\ UNCHANGED <<state, preprocessing, answer, m_model, output, interrupted>>
    BY <1>3 DEF Refused
  <2>2. M = {}
    BY <1>0, <2>1 DEF PassInv, Promise, SatisfiabilityKept
  <2>3. PassInv' /\ Unpreprocessed' /\ M' = {} /\ pc' = pc
    BY <1>0, <1>1, <2>1, <2>2
  <2>4. output' = <<>> /\ ~interrupted' /\ answer' = 0 /\ preprocessing'
    BY <1>0, <2>1 DEF LinesRight
  <2>5. LinesRight'
    BY <2>1, <2>4 DEF LinesRight, Printed
  <2>6. ResultRight'
    BY <2>1, <2>3, <2>4 DEF ResultRight
  <2> QED
    BY <2>1, <2>3, <2>4, <2>5, <2>6 DEF ProgramInv
<1>4. CASE AnswerModel
  <2>1. PICK a \in Models(vars, ActiveRows) :
          LET r == Completed(a)
              built == r.ok /\ \A v \in 1 .. orivars : r.values[v] \in {-1, 1}
          IN  /\ res' = IF built THEN 10 ELSE 0
              /\ m_model' = r.values
    BY <1>4 DEF AnswerModel
  <2>2. /\ at = "run" /\ RowsReady /\ answer' = 10 /\ at' = "report"
        /\ UNCHANGED <<state, preprocessing, output, interrupted>>
    BY <1>4 DEF AnswerModel
  <2>3. Completed(a).ok /\ Completed(a).values \in M
    BY <2>2, RowsGiven
  <2>4. \A v \in 1 .. orivars : Completed(a).values[v] \in {-1, 1}
    BY <2>3 DEF Models
  <2>5. res' = 10 /\ m_model' \in M
    BY <2>1, <2>3, <2>4
  <2>6. PassInv' /\ Unpreprocessed' /\ M' = M /\ pc' = pc
    BY <1>0, <1>1, <2>2
  <2>7. output' = <<>> /\ ~interrupted' /\ preprocessing' = preprocessing
    BY <1>0, <2>2 DEF LinesRight
  <2>8. LinesRight'
    BY <2>2, <2>7 DEF LinesRight, Printed
  <2>9. ~(preprocessing' /\ pc' = "unsat")
    BY <2>2, <2>6, <2>7 DEF RowsReady
  <2>10. ResultRight'
    BY <2>2, <2>5, <2>6, <2>9 DEF ResultRight
  <2> QED
    BY <2>2, <2>5, <2>6, <2>7, <2>8, <2>10 DEF ProgramInv
<1>5. CASE AnswerNone
  <2>1. PICK r \in {0, 20} : /\ r = 20 => Refutes /\ Models(vars, ActiveRows) = {}
                             /\ answer' = r /\ res' = r
    BY <1>5 DEF AnswerNone
  <2>2. /\ at = "run" /\ RowsReady /\ at' = "report"
        /\ UNCHANGED <<state, preprocessing, m_model, output, interrupted>>
    BY <1>5 DEF AnswerNone
  <2>3. r = 20 => M = {}
    BY <2>1, <2>2, NoneGiven
  <2>4. PassInv' /\ Unpreprocessed' /\ M' = M /\ pc' = pc
    BY <1>0, <1>1, <2>2
  <2>5. output' = <<>> /\ ~interrupted' /\ preprocessing' = preprocessing
    BY <1>0, <2>2 DEF LinesRight
  <2>6. LinesRight'
    BY <2>2, <2>5 DEF LinesRight, Printed
  <2>7. ~(preprocessing' /\ pc' = "unsat")
    BY <2>2, <2>4, <2>5 DEF RowsReady
  <2>8. ResultRight'
    BY <2>1, <2>3, <2>4, <2>7 DEF ResultRight
  <2> QED
    BY <2>1, <2>2, <2>3, <2>4, <2>5, <2>6, <2>8 DEF ProgramInv
<1>6. ASSUME UNCHANGED <<state, preprocessing, answer, res, m_model, interrupted>>,
             at \in {"report", "model", "leave"}, at' \in {"model", "leave", "ended"}, LinesRight'
      PROVE  ProgramInv'
  <2>1. ResultRight /\ ~interrupted
    BY <1>0, <1>6
  <2>2. PassInv' /\ Unpreprocessed' /\ M' = M /\ pc' = pc
    BY <1>0, <1>1, <1>6
  <2>3. ResultRight'
    BY <1>6, <2>1, <2>2 DEF ResultRight
  <2> QED
    BY <1>6, <2>1, <2>2, <2>3 DEF ProgramInv, ResultRight
<1>7. CASE Report
  <2>1. /\ at = "report" /\ output' = Append(output, StatusLine)
        /\ at' = IF res = 10 THEN "model" ELSE "leave"
        /\ UNCHANGED <<state, preprocessing, answer, res, m_model, interrupted>>
    BY <1>7 DEF Report
  <2>2. output = <<>> /\ res \in {0, 10, 20}
    BY <1>0, <2>1 DEF LinesRight, ResultRight
  <2>3. output' = <<StatusLine>>
    BY <2>1, <2>2
  <2>4. StatusLine \in {"SATISFIABLE", "UNSATISFIABLE", "UNKNOWN"}
        /\ (StatusLine = "SATISFIABLE" <=> res = 10) /\ (StatusLine = "UNSATISFIABLE" <=> res = 20)
    BY <2>2 DEF StatusLine
  <2>5. StatusLine' = StatusLine
    BY <2>1 DEF StatusLine
  <2>6. LinesRight'
    BY <2>1, <2>3, <2>4, <2>5 DEF LinesRight, FinalLines, Printed, Lines
  <2> QED
    BY <1>6, <2>1, <2>6
<1>8. CASE ReportModel
  <2>1. /\ at = "model" /\ output' = Append(output, "v") /\ at' = "leave"
        /\ UNCHANGED <<state, preprocessing, answer, res, m_model, interrupted>>
    BY <1>8 DEF ReportModel
  <2>2. output = <<"SATISFIABLE">> /\ res = 10
    BY <1>0, <2>1 DEF LinesRight
  <2>3. output' = <<"SATISFIABLE", "v">>
    <3>1. "SATISFIABLE" \in Lines /\ "v" \in Lines
      BY DEF Lines
    <3> QED
      BY <2>1, <2>2, <3>1, Two
  <2>4. LinesRight'
    <3>1. output' \in Seq(Lines)
      BY <2>3 DEF Lines
    <3>2. Printed("SATISFIABLE")' /\ ~Printed("UNSATISFIABLE")'
      BY <2>3 DEF Printed
    <3> QED
      BY <2>1, <2>2, <2>3, <3>1, <3>2 DEF LinesRight, FinalLines
  <2> QED
    BY <1>6, <2>1, <2>4
<1>9. CASE Leave
  <2>1. /\ at = "leave" /\ at' = "ended"
        /\ UNCHANGED <<state, preprocessing, answer, res, m_model, output, interrupted>>
    BY <1>9 DEF Leave
  <2>2. StatusLine' = StatusLine
    BY <2>1 DEF StatusLine
  <2>3. LinesRight'
    BY <1>0, <2>1, <2>2 DEF LinesRight, FinalLines, Printed
  <2> QED
    BY <1>6, <2>1, <2>3
<1>10. CASE Signal
  <2>1. /\ output' = Append(output, "UNKNOWN") \/ output' = <<>>
        /\ at' = "ended" /\ interrupted' = TRUE
        /\ UNCHANGED <<state, preprocessing, answer, res, m_model>>
    BY <1>10 DEF Signal
  <2>2. /\ Printed("SATISFIABLE")' => Printed("SATISFIABLE")
        /\ Printed("UNSATISFIABLE")' => Printed("UNSATISFIABLE")
    <3>1. CASE output' = <<>>
      BY <3>1 DEF Printed
    <3>2. CASE output' = Append(output, "UNKNOWN")
      <4>1. output \in Seq(Lines) /\ "UNKNOWN" \in Lines
        BY <1>0 DEF LinesRight, Lines
      <4>2. /\ Len(output) \in Nat /\ DOMAIN output' = 1..Len(output) + 1
            /\ DOMAIN output = 1..Len(output)
            /\ \A k \in 1..Len(output) : output'[k] = output[k]
            /\ output'[Len(output) + 1] = "UNKNOWN"
        BY <3>2, <4>1, AppendProperties, LenProperties
      <4> QED
        BY <4>2 DEF Printed
    <3> QED BY <2>1, <3>1, <3>2
  <2>3. PassInv' /\ Unpreprocessed' /\ M' = M
    BY <1>0, <1>1, <2>1
  <2>4. LinesRight'
    <3>1. output' \in Seq(Lines)
      <4>1. output \in Seq(Lines) /\ "UNKNOWN" \in Lines
        BY <1>0 DEF LinesRight, Lines
      <4>2. Append(output, "UNKNOWN") \in Seq(Lines)
        BY <4>1, AppendProperties
      <4>3. <<>> \in Seq(Lines)
        OBVIOUS
      <4> QED
        BY <2>1, <4>2, <4>3
    <3> QED
      BY <1>0, <2>1, <2>2, <3>1 DEF LinesRight
  <2> QED
    BY <1>0, <2>1, <2>3, <2>4 DEF ProgramInv
<1>11. CASE UNCHANGED programVars
  <2>1. UNCHANGED <<state, preprocessing, at, answer, res, m_model, output, interrupted>>
    BY <1>11 DEF programVars, mainVars
  <2>2. PassInv' /\ Unpreprocessed' /\ M' = M /\ pc' = pc
    BY <1>0, <1>1, <2>1
  <2>3. (ResultRight => ResultRight') /\ StatusLine' = StatusLine
    BY <2>1, <2>2 DEF ResultRight, StatusLine
  <2>4. LinesRight'
    BY <1>0, <2>1, <2>3 DEF LinesRight, FinalLines, Printed
  <2> QED
    BY <1>0, <2>1, <2>2, <2>3, <2>4 DEF ProgramInv
<1> QED
  BY <1>2, <1>3, <1>4, <1>5, <1>7, <1>8, <1>9, <1>10, <1>11 DEF ProgramNext, Main

(* In every reachable state of main (main.cpp:37-53): the invariant of the   *)
(* passes, and that the result, the model and the lines printed agree with   *)
(* each other and with the file.                                             *)
THEOREM ProgramKept == ProgramSpec => []ProgramInv
BY ProgramInitRight, ProgramStep, PTL DEF ProgramSpec

(* Whatever the engine finds, whichever passes are on and whenever a signal  *)
(* comes, SATISFIABLE is printed only with a model of the file at hand and   *)
(* UNSATISFIABLE only if there is none (solver.cpp:58-97, main.cpp:37-53).   *)
THEOREM VerdictKept == ProgramSpec => []VerdictRight
<1>1. ProgramInv => VerdictRight
  BY DEF ProgramInv, LinesRight, VerdictRight
<1> QED
  BY <1>1, ProgramKept, PTL

(* Without a signal main prints one verdict and, if it is SATISFIABLE, the   *)
(* model after it, and nothing else (main.cpp:37-53).                        *)
THEOREM LeftAloneKept == ProgramSpec => []LeftAlone
<1>1. ProgramInv => LeftAlone
  <2> SUFFICES ASSUME ProgramInv, at = "ended", ~interrupted
               PROVE  /\ output # <<>> /\ OneStatus
                      /\ Printed("SATISFIABLE") <=> answer = 10
                      /\ Printed("UNSATISFIABLE") <=> answer = 20 \/ (preprocessing /\ pc = "unsat")
    BY DEF LeftAlone
  <2>1. ResultRight /\ output = FinalLines
    BY DEF ProgramInv, LinesRight
  <2>2. res \in {0, 10, 20}
    BY <2>1 DEF ResultRight
  <2>3. CASE res = 10
    <3>1. output = <<"SATISFIABLE", "v">>
      BY <2>1, <2>3 DEF FinalLines
    <3> QED
      BY <2>1, <2>3, <3>1 DEF ResultRight, OneStatus, Printed
  <2>4. CASE res = 20
    <3>1. output = <<"UNSATISFIABLE">>
      BY <2>1, <2>4 DEF FinalLines, StatusLine
    <3> QED
      BY <2>1, <2>4, <3>1 DEF ResultRight, OneStatus, Printed
  <2>5. CASE res = 0
    <3>1. output = <<"UNKNOWN">>
      BY <2>1, <2>5 DEF FinalLines, StatusLine
    <3> QED
      BY <2>1, <2>5, <3>1 DEF ResultRight, OneStatus, Printed
  <2> QED BY <2>2, <2>3, <2>4, <2>5
<1> QED
  BY <1>1, ProgramKept, PTL
=============================================================================
