------------------------- MODULE IndexedStackProofs -------------------------
(* The array-with-positions idiom implements a set, for every set of       *)
(* elements and every length of run.                                       *)
EXTENDS IndexedStack, NatRecursion

\* The first f entries of s are elements, with their positions in ix.
Placed(s, ix, f) == \A i \in 0..f - 1 : s[i] \in Elems /\ ix[s[i]] = i

\* What moving the last of f entries into position p must achieve.
LastMoved(s, ix, f, p, t, jx) ==
  /\ t \in [0..capacity - 1 -> Nat] /\ jx \in [Elems -> Int]
  /\ \A i \in 0..f - 2 : t[i] = IF i = p THEN s[f - 1] ELSE s[i]
  /\ \A i \in 0..f - 2 : t[i] \in Elems /\ t[i] # s[p] /\ jx[t[i]] = i
  /\ \A i \in 0..f - 1 : s[i] # s[p] => \E k \in 0..f - 2 : t[k] = s[i]
  /\ \A x \in Elems : jx[x] = IF marked /\ x = s[p] THEN -1
                              ELSE IF x = s[f - 1] THEN p ELSE ix[x]

\* The array t and positions jx that the code computes achieve it.
LEMMA MoveLast ==
  ASSUME NEW s \in [0..capacity - 1 -> Nat], NEW ix \in [Elems -> Int],
         NEW f \in 1..capacity, NEW p \in 0..f - 1, Placed(s, ix, f),
         NEW t, t = [s EXCEPT ![p] = s[f - 1]],
         NEW jx, jx = IF marked THEN [[ix EXCEPT ![s[f - 1]] = p] EXCEPT ![s[p]] = -1]
                                ELSE [ix EXCEPT ![s[f - 1]] = p]
  PROVE  LastMoved(s, ix, f, p, t, jx)
<1> USE DEF Placed
<1>1. capacity \in Nat /\ marked \in BOOLEAN /\ Elems \subseteq Nat
  BY StackAssumption
<1>2. /\ f - 1 \in 0..f - 1 /\ s[f - 1] \in Elems /\ ix[s[f - 1]] = f - 1
      /\ s[p] \in Elems /\ ix[s[p]] = p
  <2>1. f - 1 \in 0..f - 1
    OBVIOUS
  <2> QED BY <2>1
<1>3. t \in [0..capacity - 1 -> Nat] /\ jx \in [Elems -> Int]
  <2>1. t \in [0..capacity - 1 -> Nat]
    BY <1>1, <1>2
  <2>2. jx \in [Elems -> Int]
    BY <1>1, <1>2
  <2> QED BY <2>1, <2>2
<1>4. \A i \in 0..f - 2 : t[i] = IF i = p THEN s[f - 1] ELSE s[i]
  BY <1>1
<1>5. \A x \in Elems : jx[x] = IF marked /\ x = s[p] THEN -1
                               ELSE IF x = s[f - 1] THEN p ELSE ix[x]
  BY <1>2
<1>6. ASSUME NEW i \in 0..f - 2 PROVE t[i] \in Elems /\ t[i] # s[p] /\ jx[t[i]] = i
  <2>1. i \in 0..f - 1 /\ s[i] \in Elems /\ ix[s[i]] = i
    OBVIOUS
  <2>2. CASE i = p
    <3>1. t[i] = s[f - 1]
      BY <1>4, <2>2
    <3>2. s[f - 1] # s[p]
      BY <1>2, <2>2
    <3> QED BY <1>2, <1>5, <2>2, <3>1, <3>2
  <2>3. CASE i # p
    <3>1. t[i] = s[i]
      BY <1>4, <2>3
    <3>2. s[i] # s[p] /\ s[i] # s[f - 1]
      BY <1>2, <2>1, <2>3
    <3> QED BY <1>5, <2>1, <3>1, <3>2
  <2> QED BY <2>2, <2>3
<1>7. ASSUME NEW i \in 0..f - 1, s[i] # s[p] PROVE \E k \in 0..f - 2 : t[k] = s[i]
  <2>1. CASE i = f - 1
    <3>1. p \in 0..f - 2
      BY <1>7, <2>1
    <3>2. t[p] = s[i]
      BY <1>4, <2>1, <3>1
    <3> QED BY <3>1, <3>2
  <2>2. CASE i # f - 1
    <3>1. i \in 0..f - 2 /\ i # p
      BY <1>7, <2>2
    <3>2. t[i] = s[i]
      BY <1>4, <3>1
    <3> QED BY <3>1, <3>2
  <2> QED BY <2>1, <2>2
<1> QED
  BY <1>3, <1>4, <1>5, <1>6, <1>7 DEF LastMoved

\* The invariant, of a state given as a record.
States == [stack : [0..capacity - 1 -> Nat], index : [Elems -> Int], fill : 0..capacity]
Items(st) == {st.stack[i] : i \in 0..st.fill - 1}
Sound(st) ==
  /\ st \in States
  /\ \A i \in 0..st.fill - 1 : st.stack[i] \in Elems /\ st.index[st.stack[i]] = i
  /\ marked => \A x \in Elems : st.index[x] = -1 <=> x \notin Items(st)

\* Popping into a position removes the element there and nothing else.
LEMMA PopIntoSound ==
  ASSUME NEW st, Sound(st), NEW p \in 0..st.fill - 1
  PROVE  /\ Sound(PopInto(st, p))
         /\ PopInto(st, p).fill = st.fill - 1
         /\ Items(PopInto(st, p)) = Items(st) \ {st.stack[p]}
         /\ \A i \in 0..st.fill - 2 :
              PopInto(st, p).stack[i] = IF i = p THEN st.stack[st.fill - 1] ELSE st.stack[i]
<1> DEFINE s == st.stack
           ix == st.index
           f == st.fill
           new == PopInto(st, p)
           t == new.stack
           jx == new.index
<1>1. s \in [0..capacity - 1 -> Nat] /\ ix \in [Elems -> Int] /\ f \in 0..capacity
  BY DEF Sound, States
<1>2. f \in 1..capacity /\ capacity \in Nat /\ p \in 0..f - 1
  BY <1>1, StackAssumption
<1>3. Placed(s, ix, f)
  BY DEF Sound, Placed
<1>4. t = [s EXCEPT ![p] = s[f - 1]]
  BY DEF PopInto
<1>5. jx = IF marked THEN [[ix EXCEPT ![s[f - 1]] = p] EXCEPT ![s[p]] = -1]
                     ELSE [ix EXCEPT ![s[f - 1]] = p]
  BY DEF PopInto
<1>6. new.fill = f - 1 /\ new = [stack |-> t, index |-> jx, fill |-> f - 1]
  BY DEF PopInto
<1>7. Items(st) = {s[i] : i \in 0..f - 1} /\ Items(new) = {t[i] : i \in 0..f - 2}
  <2>1. (f - 1) - 1 = f - 2
    BY <1>2
  <2> QED BY <1>6, <2>1 DEF Items
<1>8. marked => \A x \in Elems : ix[x] = -1 <=> x \notin Items(st)
  BY DEF Sound
<1> HIDE DEF s, ix, f, new, t, jx
<1>8a. LastMoved(s, ix, f, p, t, jx)
  BY <1>1, <1>2, <1>3, <1>4, <1>5, MoveLast
<1>9. /\ t \in [0..capacity - 1 -> Nat] /\ jx \in [Elems -> Int]
      /\ \A i \in 0..f - 2 : t[i] = IF i = p THEN s[f - 1] ELSE s[i]
      /\ \A i \in 0..f - 2 : t[i] \in Elems /\ t[i] # s[p] /\ jx[t[i]] = i
      /\ \A i \in 0..f - 1 : s[i] # s[p] => \E k \in 0..f - 2 : t[k] = s[i]
      /\ \A x \in Elems : jx[x] = IF marked /\ x = s[p] THEN -1
                                  ELSE IF x = s[f - 1] THEN p ELSE ix[x]
  BY <1>8a DEF LastMoved
<1>10. Items(new) = Items(st) \ {s[p]}
  <2>1. ASSUME NEW i \in 0..f - 2 PROVE t[i] \in Items(st) \ {s[p]}
    <3>1. i \in 0..f - 1 /\ f - 1 \in 0..f - 1
      BY <1>2
    <3>2. t[i] = s[f - 1] \/ t[i] = s[i]
      BY <1>9
    <3> QED BY <1>7, <1>9, <3>1, <3>2
  <2>2. ASSUME NEW x \in Items(st) \ {s[p]} PROVE x \in Items(new)
    BY <1>7, <1>9
  <2> QED BY <1>7, <2>1, <2>2
<1>11. ASSUME marked, NEW x \in Elems PROVE jx[x] = -1 <=> x \notin Items(new)
  <2>1. ix[x] = -1 <=> x \notin Items(st)
    BY <1>8, <1>11
  <2>2. s[f - 1] \in Items(st) /\ p # -1
    BY <1>2, <1>7
  <2>3. jx[x] = IF x = s[p] THEN -1 ELSE IF x = s[f - 1] THEN p ELSE ix[x]
    BY <1>9, <1>11
  <2> QED BY <1>10, <2>1, <2>2, <2>3
<1>12. new \in States
  <2>1. f - 1 \in 0..capacity
    BY <1>2
  <2> QED BY <1>6, <1>9, <2>1 DEF States
<1>13. new.stack = t /\ new.index = jx /\ new.fill = f - 1
  BY <1>6 DEF t, jx
<1>14. \A i \in 0..new.fill - 1 : new.stack[i] \in Elems /\ new.index[new.stack[i]] = i
  <2>1. new.fill - 1 = f - 2
    BY <1>2, <1>13
  <2> QED BY <1>9, <1>13, <2>1
<1>15. Sound(new)
  BY <1>11, <1>12, <1>13, <1>14 DEF Sound
<1>16. PopInto(st, p) = new /\ st.stack = s /\ st.fill = f
  BY DEF new, s, f
<1>17. \A i \in 0..f - 2 : new.stack[i] = IF i = p THEN s[f - 1] ELSE s[i]
  BY <1>9, <1>13
<1> QED
  BY <1>10, <1>13, <1>15, <1>16, <1>17

\* The state after k positions of a sweep: those positions hold no bad
\* element, the others are untouched, and only bad elements are gone.
SweptSound(st, k, start, bad) ==
  /\ Sound(st)
  /\ st.fill \in start.fill - k..start.fill
  /\ \A i \in 0..(start.fill - k) - 1 : st.stack[i] = start.stack[i]
  /\ \A i \in start.fill - k..st.fill - 1 : st.stack[i] \notin bad
  /\ Items(st) \subseteq Items(start) /\ Items(start) \ bad \subseteq Items(st)

\* One position of the sweep.
SweepOne(st, i, bad) == IF st.stack[i] \in bad THEN PopInto(st, i) ELSE st

LEMMA SweepOneSound ==
  ASSUME NEW start, NEW st, NEW bad, NEW k \in Nat, k < start.fill,
         start.fill \in Nat, SweptSound(st, k, start, bad)
  PROVE  SweptSound(SweepOne(st, start.fill - (k + 1), bad), k + 1, start, bad)
<1> DEFINE p == start.fill - (k + 1)
           new == SweepOne(st, p, bad)
<1>1. /\ st.fill \in start.fill - k..start.fill /\ Sound(st)
      /\ \A i \in 0..(start.fill - k) - 1 : st.stack[i] = start.stack[i]
      /\ \A i \in start.fill - k..st.fill - 1 : st.stack[i] \notin bad
      /\ Items(st) \subseteq Items(start) /\ Items(start) \ bad \subseteq Items(st)
  BY DEF SweptSound
<1>2. /\ p \in 0..st.fill - 1 /\ st.fill \in Nat /\ p \in Nat
      /\ p = start.fill - (k + 1) /\ p + 1 = start.fill - k
  BY <1>1
<1>3. /\ new = IF st.stack[p] \in bad THEN PopInto(st, p) ELSE st
  BY DEF SweepOne
<1> HIDE DEF p, new
<1>4. CASE st.stack[p] \in bad
  <2>1. /\ Sound(new) /\ new.fill = st.fill - 1
        /\ Items(new) = Items(st) \ {st.stack[p]}
        /\ \A i \in 0..st.fill - 2 :
              new.stack[i] = IF i = p THEN st.stack[st.fill - 1] ELSE st.stack[i]
    BY <1>1, <1>2, <1>3, <1>4, PopIntoSound
  <2>2. new.fill \in p..start.fill
    BY <1>1, <1>2, <2>1
  <2>3. ASSUME NEW i \in 0..p - 1 PROVE new.stack[i] = start.stack[i]
    <3>1. i \in 0..st.fill - 2 /\ i # p /\ i \in 0..(start.fill - k) - 1
      BY <1>1, <1>2
    <3> QED BY <1>1, <2>1, <3>1
  <2>4. ASSUME NEW i \in p..new.fill - 1 PROVE new.stack[i] \notin bad
    <3>1. i \in 0..st.fill - 2
      BY <1>1, <1>2, <2>1
    <3>2. CASE i = p
      <4>1. st.fill - 1 \in start.fill - k..st.fill - 1
        BY <1>1, <1>2, <3>1, <3>2
      <4> QED BY <1>1, <2>1, <3>1, <3>2, <4>1
    <3>3. CASE i # p
      <4>1. i \in start.fill - k..st.fill - 1
        BY <1>1, <1>2, <3>1, <3>3
      <4> QED BY <1>1, <2>1, <3>1, <3>3, <4>1
    <3> QED BY <3>2, <3>3
  <2>5. Items(new) \subseteq Items(start) /\ Items(start) \ bad \subseteq Items(new)
    BY <1>1, <1>4, <2>1
  <2> QED BY <1>2, <2>1, <2>2, <2>3, <2>4, <2>5 DEF SweptSound, p, new
<1>5. CASE st.stack[p] \notin bad
  <2>1. new = st
    BY <1>3, <1>5
  <2>2. new.fill \in p..start.fill
    BY <1>1, <1>2, <2>1
  <2>3. ASSUME NEW i \in 0..p - 1 PROVE new.stack[i] = start.stack[i]
    <3>1. i \in 0..(start.fill - k) - 1
      BY <1>2
    <3> QED BY <1>1, <2>1, <3>1
  <2>4. ASSUME NEW i \in p..new.fill - 1 PROVE new.stack[i] \notin bad
    <3>1. i = p \/ i \in start.fill - k..st.fill - 1
      BY <1>1, <1>2, <2>1
    <3> QED BY <1>1, <1>5, <2>1, <3>1
  <2> QED BY <1>1, <1>2, <2>1, <2>2, <2>3, <2>4 DEF SweptSound, p, new
<1> QED BY <1>4, <1>5

\* The recursion of Swept does define a function on the positions, and after
\* all of them the stack holds exactly the elements that are not bad.
LEMMA SweptTypes ==
  ASSUME NEW bad, Sound(Here), NEW k \in 0..fill
  PROVE  SweptSound(Swept(bad)[k], k, Here, bad)
<1> DEFINE X == {st \in States : Sound(st)}
           Step(n, st) == SweepOne(st, fill - n, bad)
           Body(g, n) == IF n = 0 THEN Here ELSE Step(n, g[n - 1])
           F == [n \in Nat |-> [st \in X |-> IF Step(n, st) \in X THEN Step(n, st) ELSE st]]
           Ok(g, n) == SweptSound(g[n], n, Here, bad)
<1>1. fill \in Nat /\ Here.fill = fill /\ Here \in X
  <2>1. Here \in States
    BY DEF Sound
  <2>2. Here.fill = fill
    BY DEF Here
  <2>3. Here.fill \in 0..capacity
    BY <2>1 DEF States
  <2>4. fill \in Nat
    BY <2>2, <2>3, StackAssumption
  <2> QED BY <2>1, <2>2, <2>4
<1>2. F \in [Nat -> [X -> X]]
  OBVIOUS
<1>2a. \A n \in Nat : \A st \in X : Step(n, st) \in X => F[n][st] = Step(n, st)
  OBVIOUS
<1> HIDE DEF X, F
<1>3. SweptSound(Here, 0, Here, bad)
  <2>1. \A i \in fill - 0..fill - 1 : FALSE
    BY <1>1
  <2> QED BY <1>1, <2>1 DEF SweptSound
<1>4. ASSUME NEW n \in Nat, n < fill, NEW st, SweptSound(st, n, Here, bad)
      PROVE  Step(n + 1, st) \in X /\ SweptSound(Step(n + 1, st), n + 1, Here, bad)
  <2>1. SweptSound(Step(n + 1, st), n + 1, Here, bad)
    BY <1>1, <1>4, SweepOneSound
  <2>2. Sound(Step(n + 1, st))
    BY <2>1 DEF SweptSound
  <2> QED BY <2>1, <2>2 DEF Sound, X
<1>4a. PICK g : Iterates(g, X, Here, F)
  BY <1>1, <1>2, NatRecursionExists
<1>5. g \in [Nat -> X] /\ g[0] = Here /\ \A n \in Nat : g[n + 1] = F[n + 1][g[n]]
  BY <1>4a DEF Iterates
<1>6. \A n \in Nat : n <= fill => Ok(g, n)
  <2> DEFINE T == {n \in Nat : n <= fill => Ok(g, n)}
  <2>1. 0 \in T
    BY <1>3, <1>5
  <2>2. ASSUME NEW n \in Nat, n \in T PROVE n + 1 \in T
    <3> SUFFICES ASSUME n + 1 <= fill PROVE Ok(g, n + 1)
      OBVIOUS
    <3>1. n < fill /\ Ok(g, n) /\ g[n] \in X
      BY <1>1, <1>5, <2>2
    <3>2. Step(n + 1, g[n]) \in X /\ SweptSound(Step(n + 1, g[n]), n + 1, Here, bad)
      BY <1>4, <3>1
    <3>3. g[n + 1] = Step(n + 1, g[n])
      BY <1>2a, <1>5, <3>1, <3>2
    <3> QED BY <3>2, <3>3
  <2> HIDE DEF T
  <2>3. Nat \subseteq T
    BY <2>1, <2>2, NatInductionSet
  <2> QED BY <2>3 DEF T
<1> DEFINE h == [n \in 0..fill |-> g[n]]
<1>7. h = [n \in 0..fill |-> Body(h, n)]
  <2> SUFFICES ASSUME NEW n \in 0..fill PROVE g[n] = Body(h, n)
    OBVIOUS
  <2>1. CASE n = 0
    BY <1>5, <2>1
  <2>2. CASE n # 0
    <3>1. n - 1 \in Nat /\ n - 1 < fill /\ (n - 1) + 1 = n /\ n - 1 \in 0..fill
      BY <1>1, <2>2
    <3>2. Ok(g, n - 1) /\ g[n - 1] \in X
      BY <1>5, <1>6, <3>1
    <3>3. Step(n, g[n - 1]) \in X
      BY <1>4, <3>1, <3>2
    <3>4. g[n] = Step(n, g[n - 1])
      BY <1>2a, <1>5, <3>1, <3>2, <3>3
    <3>5. h[n - 1] = g[n - 1]
      BY <3>1
    <3> QED BY <2>2, <3>4, <3>5
  <2> QED BY <2>1, <2>2
<1>8. Swept(bad) = [n \in 0..fill |-> Body(Swept(bad), n)]
  BY <1>7 DEF Swept, SweepOne
<1>9. \A n \in Nat : n <= fill => Ok(Swept(bad), n)
  <2> DEFINE w == Swept(bad)
             T == {n \in Nat : n <= fill => Ok(w, n)}
  <2>0. w = [n \in 0..fill |-> Body(w, n)]
    BY <1>8
  <2> HIDE DEF w
  <2>1. 0 \in T
    <3>1. 0 \in 0..fill
      BY <1>1
    <3>2. w[0] = Here
      BY <2>0, <3>1
    <3> QED BY <1>3, <3>2
  <2>2. ASSUME NEW n \in Nat, n \in T PROVE n + 1 \in T
    <3> SUFFICES ASSUME n + 1 <= fill PROVE Ok(w, n + 1)
      OBVIOUS
    <3>1. n < fill /\ Ok(w, n) /\ n + 1 \in 0..fill /\ (n + 1) - 1 = n /\ n + 1 # 0
      BY <1>1, <2>2
    <3>2. w[n + 1] = Step(n + 1, w[n])
      BY <2>0, <3>1
    <3>3. SweptSound(Step(n + 1, w[n]), n + 1, Here, bad)
      BY <1>4, <3>1
    <3> QED BY <3>2, <3>3
  <2> HIDE DEF T
  <2>3. Nat \subseteq T
    BY <2>1, <2>2, NatInductionSet
  <2> QED BY <2>3 DEF T, w
<1> QED
  BY <1>1, <1>9

----------------------------------------------------------------------------
(* The operations.  Sound(Here) is the inductive invariant: the type and    *)
(* the inverse property need each other, since a position that is off would *)
(* send an element outside the array or remove the wrong one.               *)

LEMMA SoundMeaning ==
  /\ Items(Here) = Contents
  /\ Sound(Here) <=> TypeOK /\ IndexInverse
<1>1. Here.stack = stack /\ Here.index = index /\ Here.fill = fill
  BY DEF Here
<1>2. Items(Here) = Contents
  BY <1>1 DEF Items, Contents
<1>3. Here \in States <=> /\ stack \in [0..capacity - 1 -> Nat]
                          /\ index \in [Elems -> Int] /\ fill \in 0..capacity
  BY <1>1 DEF States, Here
<1>4. Contents \subseteq Elems <=> \A i \in 0..fill - 1 : stack[i] \in Elems
  BY DEF Contents
<1> QED
  BY <1>1, <1>2, <1>3, <1>4 DEF Sound, TypeOK, IndexInverse

LEMMA InitSound == Init => Sound(Here) /\ Contents = {}
<1> SUFFICES ASSUME Init PROVE TypeOK /\ IndexInverse /\ Contents = {}
  BY SoundMeaning
<1>1. capacity \in Nat
  BY StackAssumption
<1>2. Contents = {}
  BY <1>1 DEF Init, Contents
<1> QED
  BY <1>1, <1>2 DEF Init, TypeOK, IndexInverse

\* There is room for an element that is not on the stack: the entries are
\* distinct elements, and the array is as long as there are elements.
LEMMA RoomToPush ==
  ASSUME Sound(Here), NEW x \in Elems, x \notin Contents
  PROVE  fill < capacity
<1> DEFINE Others == Elems \ {x}
           at == [i \in 0..fill - 1 |-> stack[i]]
<1>1. /\ fill \in Nat /\ capacity \in Nat /\ Contents \subseteq Elems
      /\ \A i \in 0..fill - 1 : index[stack[i]] = i
  BY SoundMeaning, StackAssumption DEF TypeOK, IndexInverse
<1>2. IsFiniteSet(Others) /\ Cardinality(Others) = Cardinality(Elems) - 1
  BY StackAssumption, FS_RemoveElement
<1>3. at \in [0..fill - 1 -> Others]
  BY <1>1 DEF Contents
<1>4. \A i, j \in 0..fill - 1 : at[i] = at[j] => i = j
  BY <1>1
<1>5. at \in Injection(0..fill - 1, Others)
  BY <1>3, <1>4 DEF Injection, IsInjective
<1>6. IsFiniteSet(0..fill - 1) /\ Cardinality(0..fill - 1) = fill
  <2>1. Cardinality(0..fill - 1) = IF 0 > fill - 1 THEN 0 ELSE (fill - 1) - 0 + 1
    BY <1>1, FS_Interval
  <2>2. IsFiniteSet(0..fill - 1)
    BY <1>1, FS_Interval
  <2> QED BY <1>1, <2>1, <2>2
<1> HIDE DEF Others, at
<1>7. Cardinality(0..fill - 1) <= Cardinality(Others)
  BY <1>2, <1>5, FS_Injection
<1>8. Cardinality(Elems) \in Nat /\ Cardinality(Elems) <= capacity
  BY StackAssumption, FS_CardinalityType
<1> QED
  BY <1>1, <1>2, <1>6, <1>7, <1>8

LEMMA PushSound ==
  ASSUME Sound(Here), NEW x \in Elems, Push(x)
  PROVE  Sound(Here)' /\ Contents' = Contents \cup {x}
<1>1. fill < capacity
  BY RoomToPush DEF Push
<1>2. /\ stack \in [0..capacity - 1 -> Nat] /\ index \in [Elems -> Int] /\ fill \in 0..capacity
      /\ Contents \subseteq Elems /\ \A i \in 0..fill - 1 : index[stack[i]] = i
      /\ marked => \A y \in Elems : index[y] = -1 <=> y \notin Contents
  BY SoundMeaning DEF TypeOK, IndexInverse
<1>3. /\ x \notin Contents /\ stack' = [stack EXCEPT ![fill] = x]
      /\ index' = [index EXCEPT ![x] = fill] /\ fill' = fill + 1
      /\ capacity \in Nat /\ Elems \subseteq Nat
  BY StackAssumption DEF Push
<1>4. /\ fill \in 0..capacity - 1 /\ fill' \in 0..capacity /\ fill' - 1 = fill
      /\ stack' \in [0..capacity - 1 -> Nat] /\ index' \in [Elems -> Int]
  BY <1>1, <1>2, <1>3
<1>5. \A i \in 0..fill : stack'[i] = IF i = fill THEN x ELSE stack[i]
  BY <1>1, <1>2, <1>3
<1>6. Contents' = Contents \cup {x}
  <2>1. Contents' = {stack'[i] : i \in 0..fill}
    BY <1>4 DEF Contents
  <2>2. \A i \in 0..fill : stack'[i] \in Contents \cup {x}
    BY <1>2, <1>5 DEF Contents
  <2>3. \A i \in 0..fill - 1 : i \in 0..fill /\ stack[i] = stack'[i]
    BY <1>2, <1>5
  <2>4. fill \in 0..fill /\ stack'[fill] = x
    BY <1>2, <1>5
  <2> QED BY <2>1, <2>2, <2>3, <2>4 DEF Contents
<1>7. ASSUME NEW i \in 0..fill PROVE index'[stack'[i]] = i
  <2>1. CASE i = fill
    BY <1>2, <1>3, <1>5, <2>1
  <2>2. CASE i # fill
    <3>1. i \in 0..fill - 1 /\ stack'[i] = stack[i]
      BY <1>2, <1>5, <2>2
    <3>2. stack[i] \in Contents
      BY <3>1 DEF Contents
    <3> QED BY <1>2, <1>3, <3>1, <3>2
  <2> QED BY <2>1, <2>2
<1>8. marked => \A y \in Elems : index'[y] = -1 <=> y \notin Contents'
  BY <1>2, <1>3, <1>6
<1>9. TypeOK' /\ IndexInverse'
  BY <1>2, <1>4, <1>6, <1>7, <1>8 DEF TypeOK, IndexInverse
<1>10. Sound(Here)'
  BY <1>9, SoundMeaning, PTL
<1> QED
  BY <1>6, <1>10

LEMMA BecomeSound ==
  ASSUME NEW st, Sound(st), Become(st)
  PROVE  Sound(Here)' /\ Contents' = Items(st)
<1>1. st = [stack |-> st.stack, index |-> st.index, fill |-> st.fill]
  BY DEF Sound, States
<1>2. Here' = st
  BY <1>1 DEF Become, Here
<1>3. Contents' = Items(st)
  BY DEF Become, Contents, Items
<1> QED
  BY <1>2, <1>3 DEF Sound, States, Items

LEMMA RemoveSound ==
  ASSUME Sound(Here), NEW x \in Elems, Remove(x)
  PROVE  Sound(Here)' /\ Contents' = Contents \ {x}
<1>1. PICK i \in 0..fill - 1 : stack[i] = x
  BY DEF Remove, Contents
<1>2. index[x] = i
  BY <1>1, SoundMeaning DEF IndexInverse
<1>3. Here.fill = fill /\ Here.stack = stack /\ Items(Here) = Contents
  BY SoundMeaning DEF Here
<1>4. Sound(PopInto(Here, i)) /\ Items(PopInto(Here, i)) = Contents \ {x}
  BY <1>1, <1>3, PopIntoSound
<1>5. Become(PopInto(Here, i))
  BY <1>2 DEF Remove
<1> QED
  BY <1>4, <1>5, BecomeSound

LEMMA SweepSound ==
  ASSUME Sound(Here), NEW bad \in SUBSET Elems, Sweep(bad)
  PROVE  Sound(Here)' /\ Contents' = Contents \ bad
<1> DEFINE st == Swept(bad)[fill]
<1>1. Here.fill = fill /\ fill \in Nat /\ Items(Here) = Contents
  BY SoundMeaning, StackAssumption DEF Here, TypeOK
<1>2. SweptSound(st, fill, Here, bad)
  BY <1>1, SweptTypes
<1>3. Become(st)
  BY DEF Sweep
<1> HIDE DEF st
<1>4. /\ Sound(st) /\ st.fill \in 0..fill
      /\ \A i \in 0..st.fill - 1 : st.stack[i] \notin bad
      /\ Items(st) \subseteq Contents /\ Contents \ bad \subseteq Items(st)
  BY <1>1, <1>2 DEF SweptSound
<1>5. Items(st) = Contents \ bad
  BY <1>4 DEF Items
<1> QED
  BY <1>3, <1>4, <1>5, BecomeSound

LEMMA ClearSound ==
  ASSUME Sound(Here), Clear
  PROVE  Sound(Here)' /\ Contents' = {}
<1>1. /\ stack \in [0..capacity - 1 -> Nat] /\ index \in [Elems -> Int]
      /\ capacity \in Nat /\ marked \in BOOLEAN
  BY SoundMeaning, StackAssumption DEF TypeOK
<1>2. Contents' = {}
  BY DEF Clear, Contents
<1>3. TypeOK' /\ IndexInverse'
  BY <1>1, <1>2 DEF Clear, TypeOK, IndexInverse
<1>4. Sound(Here)'
  BY <1>3, SoundMeaning, PTL
<1> QED
  BY <1>2, <1>4

\* Every call of the stack is the same call of the set it holds.
LEMMA CallsSound ==
  ASSUME Sound(Here)
  PROVE  CallExact /\ (Next => Sound(Here)')
<1>1. ASSUME NEW x \in Elems, Push(x) PROVE Sound(Here)' /\ S!Add(x)
  BY <1>1, PushSound DEF Push, S!Add
<1>2. ASSUME NEW x \in Elems, Remove(x) PROVE Sound(Here)' /\ S!Drop(x)
  BY <1>2, RemoveSound DEF Remove, S!Drop
<1>3. ASSUME NEW bad \in SUBSET Elems, Sweep(bad) PROVE Sound(Here)' /\ S!DropAll(bad)
  BY <1>3, SweepSound DEF S!DropAll
<1>4. ASSUME Clear PROVE Sound(Here)' /\ S!DropAll(Elems)
  <2>1. Contents \subseteq Elems
    BY SoundMeaning DEF TypeOK
  <2> QED BY <1>4, <2>1, ClearSound DEF S!DropAll
<1>5. CallExact
  BY <1>1, <1>2, <1>3, <1>4 DEF CallExact
<1>6. Next => Sound(Here)'
  BY <1>1, <1>2, <1>3, <1>4 DEF Next
<1> QED
  BY <1>5, <1>6

\* Every step of the stack is a step of the set it holds.
LEMMA StepSound ==
  ASSUME Sound(Here), [Next]_vars
  PROVE  Sound(Here)' /\ [S!Next]_Contents /\ [CallExact]_vars
<1>1. CASE Next
  <2>1. CallExact /\ Sound(Here)'
    BY <1>1, CallsSound
  <2>2. ASSUME Clear PROVE S!DropAll(Elems) /\ Elems \in SUBSET Elems
    BY <2>1, <2>2 DEF CallExact
  <2>3. S!Next
    BY <1>1, <2>1, <2>2 DEF CallExact, Next, S!Next
  <2> QED BY <2>1, <2>3
<1>2. CASE UNCHANGED vars
  <2>1. Here' = Here /\ Contents' = Contents
    BY <1>2 DEF vars, Here, Contents
  <2>2. Sound(Here)'
    BY <2>1 DEF Sound, States, Items
  <2> QED BY <1>2, <2>1, <2>2
<1> QED
  BY <1>1, <1>2

\* However the last elements were moved about, the array stays within its
\* allocation and the positions stay the inverse of the array: the removal in
\* constant time always finds the element it is asked to remove.
THEOREM StackInvariant == Spec => [](TypeOK /\ IndexInverse)
<1>1. Init => Sound(Here)
  BY InitSound
<1>2. Sound(Here) /\ [Next]_vars => Sound(Here)'
  BY StepSound
<1>3. Sound(Here) => TypeOK /\ IndexInverse
  BY SoundMeaning
<1> QED
  BY <1>1, <1>2, <1>3, PTL DEF Spec

\* The stacks of the search implement sets: nothing but the element or the
\* elements named is ever added, removed or swept away.
THEOREM StackImplementsSet == Spec => SetSpec
<1>1. Init => Sound(Here) /\ S!Init
  BY InitSound DEF S!Init
<1>2. Sound(Here) /\ [Next]_vars => Sound(Here)' /\ [S!Next]_Contents
  BY StepSound
<1> QED
  BY <1>1, <1>2, PTL DEF Spec, SetSpec, S!Spec

\* No call, the sweep over moving elements included, ever adds or removes
\* anything but what it was asked to.
THEOREM CallsAreExact == Spec => EachCallExact
<1>1. Init => Sound(Here)
  BY InitSound
<1>2. Sound(Here) /\ [Next]_vars => Sound(Here)' /\ [CallExact]_vars
  BY StepSound
<1> QED
  BY <1>1, <1>2, PTL DEF Spec, EachCallExact
=============================================================================
