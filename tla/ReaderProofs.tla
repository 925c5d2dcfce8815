---------------------------- MODULE ReaderProofs ----------------------------
(* readfile and read_file give back every row as it was written, whatever    *)
(* the file holds, as long as no native row asks for 0 literals.  The proof  *)
(* follows the reader word by word: how far it is in the row that it reads   *)
(* says what that row's literals, degree and flag are.                       *)
EXTENDS Reader, NatRecursion, SequenceTheorems

Rows == [native : BOOLEAN, degree : Nat, lits : Seq(Literals(num_vars))]

Word == [is : {"k", "number"}, number : Int]

(* The words before the literals of a row. *)
Off(r) == IF r.native THEN 2 ELSE 0

WordCount(r) == Off(r) + Len(r.lits) + 1

WordOf(r, j) ==
  IF r.native /\ j = 1 THEN K
  ELSE IF r.native /\ j = 2 THEN Number(r.degree)
  ELSE IF j = WordCount(r) THEN Number(0) ELSE Number(r.lits[j - Off(r)])

(* The literals of a row are a sequence of numbers other than 0. *)
LEMMA RowLits ==
  ASSUME NEW r \in Rows
  PROVE  /\ r.lits \in Seq(Int) /\ Len(r.lits) \in Nat /\ DOMAIN r.lits = 1..Len(r.lits)
         /\ \A k \in 1..Len(r.lits) : r.lits[k] \in Int /\ r.lits[k] # 0
         /\ r.native \in BOOLEAN /\ r.degree \in Nat /\ Off(r) \in {0, 2}
<1> DEFINE L == Literals(num_vars)
<1>1. r.lits \in Seq(L) /\ r.native \in BOOLEAN /\ r.degree \in Nat
  BY DEF Rows
<1>2. \A l \in L : l \in Int /\ l # 0
  BY ReaderAssumption DEF Literals
<1> HIDE DEF L
<1>3. Len(r.lits) \in Nat /\ DOMAIN r.lits = 1..Len(r.lits)
  BY <1>1, LenProperties
<1>4. \A k \in 1..Len(r.lits) : r.lits[k] \in Int /\ r.lits[k] # 0
  BY <1>1, <1>2, ElementOfSeq
<1>5. r.lits \in Seq(Int)
  <2>1. r.lits \in [1..Len(r.lits) -> Int]
    <3>1. r.lits = [k \in 1..Len(r.lits) |-> r.lits[k]]
      BY <1>1, LenProperties
    <3> QED BY <1>4, <3>1
  <2> QED BY <1>3, <2>1, SeqDef
<1> QED
  BY <1>1, <1>3, <1>4, <1>5 DEF Off

(* The words of a row, one by one. *)
LEMMA RowWordsOf ==
  ASSUME NEW r \in Rows
  PROVE  /\ RowWords(r) \in Seq(Word) /\ Len(RowWords(r)) = WordCount(r) /\ WordCount(r) \in Nat \ {0}
         /\ \A j \in 1..WordCount(r) : RowWords(r)[j] = WordOf(r, j)
<1> DEFINE s1 == IF r.native THEN <<K, Number(r.degree)>> ELSE <<>>
           s2 == [j \in DOMAIN r.lits |-> Number(r.lits[j])]
           s3 == <<Number(0)>>
           n == Len(r.lits)
<1>1. /\ n \in Nat /\ DOMAIN r.lits = 1..n /\ \A k \in 1..n : r.lits[k] \in Int
      /\ r.native \in BOOLEAN /\ r.degree \in Nat
  BY RowLits
<1>2. K \in Word /\ \A m \in Int : Number(m) \in Word
  BY DEF K, Number, Word
<1>3. s1 \in Seq(Word) /\ Len(s1) = Off(r) /\ Off(r) \in {0, 2}
      /\ (r.native => s1[1] = K /\ s1[2] = Number(r.degree))
  <2>1. CASE r.native
    <3>1. s1 = <<K, Number(r.degree)>> /\ Number(r.degree) \in Word
      BY <1>1, <1>2, <2>1
    <3> QED
      BY <1>2, <2>1, <3>1 DEF Off
  <2>2. CASE ~r.native
    <3>1. s1 = <<>>
      BY <2>2
    <3> QED
      BY <2>2, <3>1, EmptySeq DEF Off
  <2> QED BY <2>1, <2>2
<1>4. s2 \in Seq(Word) /\ Len(s2) = n /\ \A k \in 1..n : s2[k] = Number(r.lits[k])
  <2>1. s2 \in [1..n -> Word]
    BY <1>1, <1>2
  <2> HIDE DEF n
  <2>2. s2 \in Seq(Word)
    BY <1>1, <2>1, SeqDef
  <2>3. Len(s2) = n
    BY <1>1, <2>1, <2>2, LenProperties
  <2> QED
    BY <1>1, <2>2, <2>3
<1>5. s3 \in Seq(Word) /\ Len(s3) = 1 /\ s3[1] = Number(0)
  BY <1>2
<1>6. RowWords(r) = (s1 \o s2) \o s3
  BY DEF RowWords
<1> DEFINE o == Off(r)
<1>6a. o \in {0, 2} /\ o \in Nat /\ (r.native <=> o = 2) /\ n \in Nat
  BY <1>1 DEF Off
<1> HIDE DEF s1, s2, s3, Word, n, o
<1> DEFINE t == s1 \o s2
<1>6b. Len(s1) = o /\ Len(s2) = n /\ Len(s3) = 1
  BY <1>3, <1>4, <1>5 DEF o, n
<1>7. /\ t \in Seq(Word) /\ Len(t) = o + n
      /\ \A j \in 1..o + n : t[j] = IF j <= o THEN s1[j] ELSE s2[j - o]
  BY <1>3, <1>4, <1>6b, ConcatProperties
<1>8. RowWords(r) = t \o s3
  BY <1>6
<1> HIDE DEF t
<1>9. /\ RowWords(r) \in Seq(Word) /\ Len(RowWords(r)) = o + n + 1
      /\ \A j \in 1..o + n + 1 :
           RowWords(r)[j] = IF j <= o + n THEN t[j] ELSE s3[j - (o + n)]
  <2> DEFINE c == o + n
  <2>1. Len(t) = c /\ c \in Nat /\ c = o + n
    BY <1>6a, <1>7
  <2> HIDE DEF c
  <2>2. /\ t \o s3 \in Seq(Word) /\ Len(t \o s3) = c + 1
        /\ \A j \in 1..c + 1 : (t \o s3)[j] = IF j <= c THEN t[j] ELSE s3[j - c]
    <3>1. t \in Seq(Word) /\ s3 \in Seq(Word) /\ Len(s3) = 1
      BY <1>5, <1>7
    <3> HIDE DEF t, s3
    <3>2a. t \o s3 \in Seq(Word) /\ Len(t \o s3) = Len(t) + Len(s3)
      BY <3>1, ConcatProperties, Zenon
    <3>2. t \o s3 \in Seq(Word) /\ Len(t \o s3) = c + 1
      BY <2>1, <3>1, <3>2a
    <3>3. ASSUME NEW j \in 1..c + 1 PROVE (t \o s3)[j] = IF j <= c THEN t[j] ELSE s3[j - c]
      <4>1. j \in 1..Len(t) + Len(s3)
        BY <2>1, <3>1
      <4> QED
        BY <2>1, <3>1, <4>1, ConcatProperties
    <3> QED
      BY <3>2, <3>3
  <2> QED
    BY <1>8, <2>1, <2>2
<1>11. WordCount(r) = o + n + 1 /\ WordCount(r) \in Nat \ {0}
  <2>1. WordCount(r) = o + n + 1
    BY DEF WordCount, o, n
  <2> QED BY <1>6a, <2>1
<1>10. ASSUME NEW j \in 1..o + n + 1 PROVE RowWords(r)[j] = WordOf(r, j)
  <2>1. CASE j <= o
    <3>1. r.native /\ (j = 1 \/ j = 2) /\ j \in 1..o + n /\ j <= o + n
      BY <1>6a, <2>1
    <3>2. RowWords(r)[j] = s1[j]
      BY <1>7, <1>9, <2>1, <3>1
    <3>3. r.native /\ s1[1] = K /\ s1[2] = Number(r.degree)
      BY <1>3, <3>1
    <3>4. CASE j = 1
      BY <3>2, <3>3, <3>4 DEF WordOf
    <3>5. CASE j = 2
      BY <3>2, <3>3, <3>5 DEF WordOf
    <3> QED
      BY <3>1, <3>4, <3>5
  <2>2. CASE j > o /\ j <= o + n
    <3>1. j - o \in 1..n /\ j \in 1..o + n /\ ~(j <= o)
      BY <1>6a, <2>2
    <3>2. RowWords(r)[j] = s2[j - o]
      BY <1>7, <1>9, <2>2, <3>1
    <3>3. s2[j - o] = Number(r.lits[j - o])
      BY <1>4, <3>1
    <3>4. ~(r.native /\ j = 1) /\ ~(r.native /\ j = 2) /\ j # WordCount(r)
      BY <1>6a, <1>11, <2>2
    <3>5. WordOf(r, j) = Number(r.lits[j - o])
      BY <3>4 DEF WordOf, o
    <3> QED
      BY <3>2, <3>3, <3>5
  <2>3. CASE j > o + n
    <3>1. j = o + n + 1 /\ j - (o + n) = 1 /\ ~(j <= o + n)
      BY <1>6a, <2>3
    <3>2. RowWords(r)[j] = Number(0)
      BY <1>5, <1>9, <3>1
    <3>3. ~(r.native /\ j = 1) /\ ~(r.native /\ j = 2) /\ j = WordCount(r)
      BY <1>6a, <1>11, <3>1
    <3> QED
      BY <3>2, <3>3 DEF WordOf
  <2>4. j <= o \/ (j > o /\ j <= o + n) \/ j > o + n
    BY <1>6a
  <2> QED
    BY <2>1, <2>2, <2>3, <2>4
<1> QED
  BY <1>9, <1>10, <1>11

(* f[i] is the number of words up to the end of row i: where the words of    *)
(* each row stand in the file.                                               *)
Spelled(rows, f) ==
  /\ f \in [0 .. Len(rows) -> Nat] /\ f[0] = 0
  /\ \A i \in 1 .. Len(rows) : f[i] = f[i - 1] + WordCount(rows[i])
  /\ Words(rows) \in Seq(Word) /\ Len(Words(rows)) = f[Len(rows)]
  /\ \A i \in 1 .. Len(rows) : \A j \in 1 .. WordCount(rows[i]) :
       /\ f[i - 1] + j <= f[Len(rows)]
       /\ Words(rows)[f[i - 1] + j] = WordOf(rows[i], j)

(* The words of a file, built row by row. *)
LEMMA WordsBuilt ==
  ASSUME NEW rows \in Seq(Rows)
  PROVE  \E p : /\ p \in [0 .. Len(rows) -> Seq(Word)] /\ p[0] = <<>> /\ Words(rows) = p[Len(rows)]
                /\ \A i \in 1 .. Len(rows) : p[i] = p[i - 1] \o RowWords(rows[i])
<1> DEFINE n == Len(rows)
           X == Seq(Word)
           step(x, k) == x \o RowWords(rows[k])
           F == [k \in Nat |-> [x \in X |-> IF k \in 1..n THEN step(x, k) ELSE x]]
           Body(h, k) == IF k = 0 THEN <<>> ELSE step(h[k - 1], k)
<1>1. n \in Nat /\ \A k \in 1..n : rows[k] \in Rows
  BY LenProperties, ElementOfSeq
<1>2. <<>> \in X
  BY EmptySeq
<1>3. \A x \in X, k \in 1..n : step(x, k) \in X
  BY <1>1, RowWordsOf, ConcatProperties
<1> HIDE DEF step, X, n
<1>4. F \in [Nat -> [X -> X]] /\ \A k \in 1..n : \A x \in X : F[k][x] = step(x, k)
  BY <1>1, <1>3
<1> HIDE DEF F
<1>5. PICK g : Iterates(g, X, <<>>, F)
  BY <1>2, <1>4, NatRecursionExists
<1>6. g \in [Nat -> X] /\ g[0] = <<>> /\ \A k \in Nat : g[k + 1] = F[k + 1][g[k]]
  BY <1>5 DEF Iterates
<1> DEFINE h == [k \in 0..n |-> g[k]]
<1>7. \A k \in 1..n : h[k] = step(h[k - 1], k)
  <2> SUFFICES ASSUME NEW k \in 1..n PROVE g[k] = step(g[k - 1], k)
    BY <1>1
  <2>1. k - 1 \in Nat /\ (k - 1) + 1 = k
    BY <1>1
  <2>2. g[k] = F[k][g[k - 1]] /\ g[k - 1] \in X
    BY <1>6, <2>1
  <2> QED
    BY <1>4, <2>2
<1>8. h = [k \in 0..n |-> Body(h, k)]
  <2> SUFFICES ASSUME NEW k \in 0..n PROVE h[k] = Body(h, k)
    OBVIOUS
  <2>1. CASE k = 0
    BY <1>6, <2>1
  <2>2. CASE k # 0
    <3>1. k \in 1..n
      BY <1>1, <2>2
    <3> QED
      BY <1>7, <2>2, <3>1
  <2> QED BY <2>1, <2>2
<1> DEFINE p == CHOOSE p : p = [k \in 0..n |-> Body(p, k)]
<1>9. Words(rows) = p[n]
  BY DEF Words, step, n
<1>10. p = [k \in 0..n |-> Body(p, k)]
  BY <1>8
<1> HIDE DEF p, h
<1>11. p[0] = <<>> /\ \A k \in 1..n : p[k] = step(p[k - 1], k)
  BY <1>1, <1>10
<1> DEFINE T == {k \in Nat : k <= n => p[k] \in X}
<1>12. 0 \in T
  BY <1>2, <1>11
<1>13. ASSUME NEW k \in Nat, k \in T PROVE k + 1 \in T
  <2> SUFFICES ASSUME k + 1 <= n PROVE p[k + 1] \in X
    OBVIOUS
  <2>1. k + 1 \in 1..n /\ (k + 1) - 1 = k /\ k <= n
    BY <1>1
  <2> QED
    BY <1>3, <1>11, <1>13, <2>1
<1> HIDE DEF T
<1>14. Nat \subseteq T
  BY <1>12, <1>13, NatInductionSet
<1>15. \A k \in 0..n : p[k] \in X
  BY <1>1, <1>14 DEF T
<1>16. p \in [0..n -> X]
  BY <1>10, <1>15
<1> QED
  BY <1>9, <1>11, <1>16 DEF X, n, step

(* The word at each place is the one that its row has there. *)
LEMMA SpelledOut ==
  ASSUME NEW rows \in Seq(Rows)
  PROVE  \E f : Spelled(rows, f)
<1> DEFINE n == Len(rows)
<1>1. n \in Nat /\ \A k \in 1..n : rows[k] \in Rows
  BY LenProperties, ElementOfSeq
<1>2. PICK p : /\ p \in [0 .. n -> Seq(Word)] /\ p[0] = <<>> /\ Words(rows) = p[n]
               /\ \A i \in 1 .. n : p[i] = p[i - 1] \o RowWords(rows[i])
  BY WordsBuilt
<1> HIDE DEF n
<1> DEFINE f == [i \in 0..n |-> Len(p[i])]
<1>3. f \in [0..n -> Nat]
  BY <1>2, LenProperties
<1>4. f[0] = 0
  BY <1>1, <1>2, EmptySeq
<1>5. ASSUME NEW i \in 1..n
      PROVE  /\ f[i] = f[i - 1] + WordCount(rows[i]) /\ f[i - 1] \in Nat /\ WordCount(rows[i]) \in Nat
             /\ \A j \in 1..f[i - 1] : p[i][j] = p[i - 1][j]
             /\ \A j \in 1..WordCount(rows[i]) : p[i][f[i - 1] + j] = WordOf(rows[i], j)
  <2>1. i - 1 \in 0..n /\ i \in 0..n
    BY <1>1
  <2> DEFINE a == p[i - 1]
             b == RowWords(rows[i])
             c == WordCount(rows[i])
  <2>2. a \in Seq(Word) /\ Len(a) = f[i - 1] /\ f[i - 1] \in Nat /\ p[i] = a \o b
    BY <1>2, <1>3, <2>1
  <2>3. /\ b \in Seq(Word) /\ Len(b) = c /\ c \in Nat
        /\ \A j \in 1..c : b[j] = WordOf(rows[i], j)
    BY <1>1, RowWordsOf
  <2>4. f[i] = Len(a \o b)
    BY <2>1, <2>2
  <2> DEFINE d == f[i - 1]
  <2> HIDE DEF a, b, c, f, d
  <2>5. Len(a) = d /\ d \in Nat
    BY <2>2 DEF d
  <2>6. f[i] = d + c
    <3>1. Len(a \o b) = Len(a) + Len(b)
      BY <2>2, <2>3, ConcatProperties, Zenon
    <3> QED BY <2>3, <2>4, <2>5, <3>1
  <2>7. ASSUME NEW j \in 1..d + c PROVE p[i][j] = IF j <= d THEN a[j] ELSE b[j - d]
    <3>1. j \in 1..Len(a) + Len(b)
      BY <2>3, <2>5
    <3>2. (a \o b)[j] = IF j <= Len(a) THEN a[j] ELSE b[j - Len(a)]
      BY <2>2, <2>3, <3>1, ConcatProperties, Zenon
    <3> QED BY <2>2, <2>5, <3>2
  <2>8. \A j \in 1..d : p[i][j] = a[j]
    BY <2>3, <2>5, <2>7
  <2>9. ASSUME NEW j \in 1..c PROVE p[i][d + j] = WordOf(rows[i], j)
    <3>1. d + j \in 1..d + c /\ ~(d + j <= d) /\ (d + j) - d = j
      BY <2>3, <2>5
    <3>2. p[i][d + j] = b[j]
      BY <2>7, <3>1
    <3> QED BY <2>3, <3>2
  <2> QED
    BY <2>3, <2>5, <2>6, <2>8, <2>9 DEF a, c, d
<1> DEFINE Done(m) == \A i \in 1..m : \A j \in 1..WordCount(rows[i]) :
                        f[i - 1] + j <= f[m] /\ p[m][f[i - 1] + j] = WordOf(rows[i], j)
           T == {m \in Nat : m <= n => Done(m)}
<1> HIDE DEF f
<1>6. 0 \in T
  OBVIOUS
<1>7. ASSUME NEW m \in Nat, m \in T PROVE m + 1 \in T
  <2> SUFFICES ASSUME m + 1 <= n PROVE Done(m + 1)
    OBVIOUS
  <2> SUFFICES ASSUME NEW i \in 1..m + 1, NEW j \in 1..WordCount(rows[i])
               PROVE  f[i - 1] + j <= f[m + 1] /\ p[m + 1][f[i - 1] + j] = WordOf(rows[i], j)
    OBVIOUS
  <2>1. m + 1 \in 1..n /\ (m + 1) - 1 = m /\ m <= n /\ i \in 1..n
    BY <1>1
  <2>2. /\ f[m + 1] = f[m] + WordCount(rows[m + 1]) /\ f[m] \in Nat /\ WordCount(rows[m + 1]) \in Nat
        /\ \A k \in 1..f[m] : p[m + 1][k] = p[m][k]
        /\ \A k \in 1..WordCount(rows[m + 1]) : p[m + 1][f[m] + k] = WordOf(rows[m + 1], k)
    BY <1>5, <2>1
  <2>3. CASE i = m + 1
    <3>1. i - 1 = m /\ j \in 1..WordCount(rows[m + 1])
      BY <2>1, <2>3
    <3>2. f[m] + j <= f[m + 1]
      BY <2>2, <3>1
    <3> QED
      BY <2>2, <2>3, <3>1, <3>2
  <2>4. CASE i # m + 1
    <3>1. i \in 1..m
      BY <2>4
    <3>2. f[i - 1] + j <= f[m] /\ p[m][f[i - 1] + j] = WordOf(rows[i], j)
      BY <1>7, <2>1, <3>1
    <3>3. f[i - 1] \in Nat /\ WordCount(rows[i]) \in Nat
      BY <1>5, <2>1
    <3>4. f[i - 1] + j \in 1..f[m]
      BY <2>2, <3>2, <3>3
    <3>5. f[i - 1] + j <= f[m + 1]
      BY <2>2, <3>2, <3>3
    <3> QED
      BY <2>2, <3>2, <3>4, <3>5
  <2> QED BY <2>3, <2>4
<1> HIDE DEF T
<1>8. Nat \subseteq T
  BY <1>6, <1>7, NatInductionSet
<1>9. Done(n)
  BY <1>1, <1>8 DEF T
<1>10. Words(rows) \in Seq(Word) /\ Len(Words(rows)) = f[n]
  BY <1>1, <1>2 DEF f
<1>11. \A i \in 1..n : f[i] = f[i - 1] + WordCount(rows[i])
  BY <1>5
<1>12. Spelled(rows, f)
  BY <1>2, <1>3, <1>4, <1>9, <1>10, <1>11 DEF Spelled, n
<1> QED
  BY <1>12

-----------------------------------------------------------------------------
(* No native row asks for 0 literals: a k is followed by the number that is  *)
(* meant to be a degree.                                                     *)
PositiveDegrees == \A rows \in Texts : \A i \in DOMAIN rows : rows[i].native => rows[i].degree # 0

(* The file, and where its words stand. *)
FileRead(f) ==
  /\ written \in Seq(Rows) /\ Spelled(written, f)
  /\ \A i \in 1 .. Len(written) : written[i].native => written[i].degree # 0

(* What is left to read when j words of the row have been read. *)
LeftToRead(f, j) ==
  /\ words \in Seq(Word) /\ Len(words) = f[Len(written)] - (f[Len(clause) - 1] + j)
  /\ \A k \in 1 .. Len(words) : words[k] = Words(written)[f[Len(clause) - 1] + j + k]

(* The row that is read, and the word it is at. *)
Place(j) ==
  /\ Len(clause) \in 1 .. Len(written) + 1
  /\ Len(clause) = Len(written) + 1 => j = 0
  /\ Len(clause) # Len(written) + 1 => j < WordCount(written[Len(clause)])

(* The rows before it are complete; of this one there are the literals that  *)
(* have been read; the degrees are those that have been read.                *)
RowsTo(c, rows, i, j) ==
  /\ c \in Seq(Seq(Int)) /\ Len(c) = i
  /\ \A k \in 1 .. i - 1 : c[k] = rows[k].lits
  /\ Len(c[i]) = IF i # Len(rows) + 1 /\ j > Off(rows[i]) THEN j - Off(rows[i]) ELSE 0
  /\ \A k \in 1 .. Len(c[i]) : c[i][k] = rows[i].lits[k]

ClausesRead(j) == RowsTo(clause, written, Len(clause), j)

DegreesRead(j) ==
  /\ degree \in [1 .. Len(written) -> Nat]
  /\ \A k \in 1 .. Len(written) :
       degree[k] = IF written[k].native /\ (k < Len(clause) \/ (k = Len(clause) /\ j >= 2))
                   THEN written[k].degree ELSE 0

FlagRead(j) ==
  cardinality <=> Len(clause) # Len(written) + 1 /\ j = 1 /\ written[Len(clause)].native

ReadSoFar(f, j) ==
  LeftToRead(f, j) /\ Place(j) /\ ClausesRead(j) /\ DegreesRead(j) /\ FlagRead(j)

(* At the end every row is as it was written, a clause with degree 1. *)
AllRead ==
  /\ words = <<>> /\ Len(clause) = Len(written) /\ clause \in Seq(Seq(Int))
  /\ degree \in [1 .. Len(written) -> Nat]
  /\ \A k \in 1 .. Len(written) :
       /\ clause[k] = written[k].lits
       /\ degree[k] = IF written[k].native THEN written[k].degree ELSE 1

(* The inductive invariant.  ReadAsWritten does not say what is still to be  *)
(* read, nor which word of the row the reader is at.                         *)
ReadInv ==
  \E f : FileRead(f) /\ (IF done THEN AllRead ELSE \E j \in Nat : ReadSoFar(f, j))

(* The reader is given the words of a file (parse.cpp:38-54). *)
LEMMA ReadInit == ASSUME PositiveDegrees, Init PROVE ReadInv
<1> DEFINE n == Len(written)
<1>1. written \in Seq(Rows)
  BY ReaderAssumption DEF Init, Rows
<1>2. n \in Nat /\ DOMAIN written = 1..n /\ \A i \in 1..n : written[i] \in Rows
  BY <1>1, LenProperties, ElementOfSeq
<1>3. PICK f : Spelled(written, f)
  BY <1>1, SpelledOut
<1>4. FileRead(f)
  BY <1>1, <1>2, <1>3 DEF FileRead, PositiveDegrees, Init
<1>5. /\ f \in [0..n -> Nat] /\ f[0] = 0
      /\ Words(written) \in Seq(Word) /\ Len(Words(written)) = f[n]
  BY <1>3 DEF Spelled
<1>6. clause = << <<>> >> /\ Len(clause) = 1 /\ clause[1] = <<>> /\ clause \in Seq(Seq(Int))
  BY DEF Init
<1>7. \A i \in 1..n : WordCount(written[i]) \in Nat \ {0} /\ Off(written[i]) \in {0, 2}
  BY <1>2, RowLits, RowWordsOf
<1> HIDE DEF n
<1>8. LeftToRead(f, 0)
  <2>1. words \in Seq(Word) /\ words = Words(written)
    BY <1>5 DEF Init
  <2>2. Len(words) = f[n] /\ f[n] \in Nat /\ f[Len(clause) - 1] = 0
    BY <1>2, <1>5, <1>6, <2>1
  <2>3. \A k \in 1..Len(words) : f[Len(clause) - 1] + 0 + k = k
    BY <2>2
  <2> QED
    BY <2>1, <2>2, <2>3 DEF LeftToRead, n
<1>9. Place(0)
  BY <1>2, <1>6, <1>7 DEF Place, n
<1>10. ClausesRead(0)
  <2>1. Len(clause[Len(clause)]) = 0
    BY <1>6, EmptySeq
  <2>2. 1..Len(clause) - 1 = {}
    BY <1>6
  <2>3. Len(clause) # n + 1 => Len(clause) \in 1..n
    BY <1>2, <1>6
  <2>4. ~(Len(clause) # n + 1 /\ 0 > Off(written[Len(clause)]))
    BY <1>7, <2>3
  <2> QED
    BY <1>6, <2>1, <2>2, <2>4 DEF ClausesRead, RowsTo, n
<1>11. DegreesRead(0)
  <2>1. degree \in [1..n -> Nat] /\ \A k \in 1..n : degree[k] = 0
    BY DEF Init, n
  <2>2. \A k \in 1..n : ~(k < Len(clause)) /\ ~(k = Len(clause) /\ 0 >= 2)
    BY <1>2, <1>6
  <2> QED
    BY <2>1, <2>2 DEF DegreesRead, n
<1>12. FlagRead(0)
  BY DEF Init, FlagRead
<1>13. ReadSoFar(f, 0)
  BY <1>8, <1>9, <1>10, <1>11, <1>12 DEF ReadSoFar
<1>14. ~done
  BY DEF Init
<1> QED
  BY <1>4, <1>13, <1>14 DEF ReadInv

(* The word that is read is the next of the row, and the rest is left.       *)
LEMMA NextWord ==
  ASSUME NEW f, NEW j \in Nat, FileRead(f), LeftToRead(f, j), Place(j), words # <<>>
  PROVE  /\ Len(clause) \in 1 .. Len(written) /\ j < WordCount(written[Len(clause)])
         /\ Head(words) = WordOf(written[Len(clause)], j + 1)
         /\ written[Len(clause)] \in Rows
<1> DEFINE n == Len(written)
           i == Len(clause)
<1>1. n \in Nat /\ \A k \in 1..n : written[k] \in Rows
  BY LenProperties, ElementOfSeq DEF FileRead
<1>2. /\ f \in [0..n -> Nat]
      /\ \A k \in 1..n : \A m \in 1..WordCount(written[k]) :
           Words(written)[f[k - 1] + m] = WordOf(written[k], m)
  BY DEF FileRead, Spelled
<1>3. words \in Seq(Word) /\ Len(words) = f[n] - (f[i - 1] + j)
      /\ \A k \in 1..Len(words) : words[k] = Words(written)[f[i - 1] + j + k]
  BY DEF LeftToRead
<1>4. i \in 1..n + 1 /\ (i = n + 1 => j = 0) /\ (i # n + 1 => j < WordCount(written[i]))
  BY DEF Place
<1>5. Len(words) \in Nat \ {0} /\ Head(words) = words[1]
  BY <1>3, EmptySeq, LenProperties
<1> HIDE DEF n, i
<1>6. i # n + 1
  <2> SUFFICES ASSUME i = n + 1 PROVE FALSE
    OBVIOUS
  <2>1. i - 1 = n /\ j = 0 /\ f[n] \in Nat
    BY <1>1, <1>2, <1>4
  <2> QED
    BY <1>3, <1>5, <2>1
<1>7. i \in 1..n /\ written[i] \in Rows /\ j < WordCount(written[i])
  BY <1>1, <1>4, <1>6
<1>8. WordCount(written[i]) \in Nat
  BY <1>7, RowWordsOf
<1>9. j + 1 \in 1..WordCount(written[i])
  BY <1>7, <1>8
<1>10. f[i - 1] \in Nat
  BY <1>1, <1>2, <1>7
<1>11. words[1] = Words(written)[f[i - 1] + j + 1] /\ f[i - 1] + j + 1 = f[i - 1] + (j + 1)
  BY <1>3, <1>5, <1>10
<1>12. words[1] = WordOf(written[i], j + 1)
  BY <1>2, <1>7, <1>9, <1>11
<1> QED
  BY <1>5, <1>7, <1>12 DEF i, n

(* One word less is left, of the same row or of the next one.                *)
LEMMA OneWordLess ==
  ASSUME NEW f, NEW j \in Nat, FileRead(f), LeftToRead(f, j), Place(j), Reading,
         NEW m \in Nat, Len(clause)' \in 1 .. Len(written) + 1,
         f[Len(clause)' - 1] + m = f[Len(clause) - 1] + (j + 1)
  PROVE  LeftToRead(f, m)'
<1> DEFINE n == Len(written)
           i == Len(clause)
<1>1. words \in Seq(Word) /\ Len(words) = f[n] - (f[i - 1] + j)
      /\ \A k \in 1..Len(words) : words[k] = Words(written)[f[i - 1] + j + k]
  BY DEF LeftToRead
<1>2. words # <<>> /\ words' = Tail(words) /\ written' = written
  BY DEF Reading
<1>3. n \in Nat /\ f \in [0..n -> Nat] /\ i \in 1..n + 1
  BY LenProperties DEF FileRead, Spelled, Place
<1>4. /\ Tail(words) \in Seq(Word) /\ Len(words) \in Nat \ {0}
      /\ Len(Tail(words)) = Len(words) - 1
      /\ \A k \in 1..Len(words) - 1 : Tail(words)[k] = words[k + 1]
  BY <1>1, <1>2, HeadTailProperties, EmptySeq, LenProperties
<1> DEFINE a == f[i - 1]
           b == f[n]
           l == Len(words)
<1>5. a \in Nat /\ b \in Nat
  BY <1>3
<1> HIDE DEF n, i
<1>6. Len(words') = b - (a + (j + 1))
  <2>1. Len(words) = b - (a + j) /\ Len(words') = Len(words) - 1
    BY <1>1, <1>2, <1>4
  <2> HIDE DEF a, b
  <2> QED BY <1>5, <2>1
<1>7. ASSUME NEW k \in 1..Len(words') PROVE words'[k] = Words(written)[a + (j + 1) + k]
  <2>1. k \in 1..l - 1 /\ k + 1 \in 1..l /\ k \in Nat
    BY <1>2, <1>4
  <2>2. words'[k] = words[k + 1]
    BY <1>2, <1>4, <2>1
  <2>3. words[k + 1] = Words(written)[a + j + (k + 1)]
    BY <1>1, <2>1
  <2>4. a + j + (k + 1) = a + (j + 1) + k
    <3> HIDE DEF a
    <3> QED BY <1>5, <2>1
  <2> QED
    BY <2>2, <2>3, <2>4
<1>8. Words(written)' = Words(written)
  BY <1>2 DEF Words, RowWords, K, Number
<1> DEFINE c == f[Len(clause)' - 1]
<1>9. c + m = a + (j + 1)
  BY DEF i
<1> HIDE DEF a, b, l
<1>10. Len(words') = b - (c + m)
  BY <1>6, <1>9
<1>11. \A k \in 1..Len(words') : words'[k] = Words(written)[c + m + k]
  BY <1>7, <1>9
<1>12. words' \in Seq(Word) /\ b = f[Len(written')]
  BY <1>2, <1>4 DEF b, n
<1> QED
  BY <1>8, <1>10, <1>11, <1>12 DEF LeftToRead

(* What each word of a row is, and that the degree of a native row is not 0. *)
LEMMA WordKinds ==
  ASSUME NEW r \in Rows, NEW j \in 1 .. WordCount(r), r.native => r.degree # 0
  PROVE  /\ Off(r) \in {0, 2} /\ (Off(r) = 2 <=> r.native)
         /\ WordCount(r) = Off(r) + Len(r.lits) + 1 /\ Len(r.lits) \in Nat
         /\ WordOf(r, j).is \in {"k", "number"} /\ WordOf(r, j).number \in Int
         /\ WordOf(r, j).is = "k" <=> r.native /\ j = 1
         /\ WordOf(r, j).is = "k" => WordOf(r, j).number = 0
         /\ WordOf(r, j) = Number(0) <=> j = WordCount(r)
         /\ r.native /\ j = 2 => WordOf(r, j).number = r.degree
         /\ j # WordCount(r) /\ ~(r.native /\ j <= 2) =>
              j - Off(r) \in 1 .. Len(r.lits) /\ WordOf(r, j).number = r.lits[j - Off(r)]
<1> DEFINE n == Len(r.lits)
           o == Off(r)
           w == WordOf(r, j)
<1>1. /\ n \in Nat /\ \A k \in 1..n : r.lits[k] \in Int /\ r.lits[k] # 0
      /\ r.native \in BOOLEAN /\ r.degree \in Nat
  BY RowLits
<1>2. o \in {0, 2} /\ (o = 2 <=> r.native) /\ WordCount(r) = o + n + 1
  BY <1>1 DEF Off, WordCount
<1>3. K.is = "k" /\ K.number = 0 /\ \A m \in Int : Number(m).is = "number" /\ Number(m).number = m
  BY DEF K, Number
<1>3a. K # Number(0) /\ \A m \in Int : m # 0 => Number(m) # Number(0)
  BY DEF K, Number
<1> HIDE DEF n, o, w
<1>4. CASE r.native /\ j = 1
  <2>1. w = K
    BY <1>4 DEF w, WordOf
  <2>2. j # WordCount(r)
    BY <1>1, <1>2, <1>4
  <2> QED
    BY <1>1, <1>2, <1>3, <1>3a, <1>4, <2>1, <2>2 DEF n, o, w
<1>5. CASE r.native /\ j = 2
  <2>1. w = Number(r.degree)
    BY <1>5 DEF w, WordOf
  <2>2. j # WordCount(r)
    BY <1>1, <1>2, <1>5
  <2>3. w.is = "number" /\ w.number = r.degree /\ w # Number(0)
    BY <1>1, <1>3, <1>3a, <1>5, <2>1
  <2> QED
    BY <1>1, <1>2, <1>5, <2>2, <2>3 DEF n, o, w
<1>6. CASE ~(r.native /\ j = 1) /\ ~(r.native /\ j = 2) /\ j = WordCount(r)
  <2>1. w = Number(0)
    BY <1>6 DEF w, WordOf
  <2>2. w.is = "number" /\ w.number = 0
    BY <1>3, <2>1
  <2> QED
    BY <1>1, <1>2, <1>6, <2>1, <2>2 DEF n, o, w
<1>7. CASE ~(r.native /\ j = 1) /\ ~(r.native /\ j = 2) /\ j # WordCount(r)
  <2>1. w = Number(r.lits[j - o])
    BY <1>7 DEF w, WordOf, o
  <2>2. j - o \in 1..n
    BY <1>1, <1>2, <1>7
  <2>3. w.is = "number" /\ w.number = r.lits[j - o] /\ w # Number(0) /\ w.number \in Int
    BY <1>1, <1>3, <1>3a, <2>1, <2>2
  <2> QED
    BY <1>1, <1>2, <1>7, <2>2, <2>3 DEF n, o, w
<1> QED
  BY <1>4, <1>5, <1>6, <1>7

(* What every step that reads a word starts from: the number of the row, the *)
(* row, and its next word.                                                   *)
Reads(f, j) ==
  LET r == written[Len(clause)]
  IN  /\ Len(clause) \in 1 .. Len(written) /\ r \in Rows
      /\ (r.native => r.degree # 0)
      /\ j + 1 \in 1 .. WordCount(r)
      /\ Head(words) = WordOf(r, j + 1)

LEMMA ReadingReads ==
  ASSUME NEW f, NEW j \in Nat, FileRead(f), ReadSoFar(f, j), Reading
  PROVE  /\ Reads(f, j) /\ Len(written) \in Nat /\ FileRead(f)' /\ done' = done
         /\ f \in [0 .. Len(written) -> Nat] /\ words # <<>>
<1>1. LeftToRead(f, j) /\ Place(j) /\ words # <<>>
  BY DEF ReadSoFar, Reading
<1>2. /\ Len(clause) \in 1 .. Len(written) /\ j < WordCount(written[Len(clause)])
      /\ Head(words) = WordOf(written[Len(clause)], j + 1)
      /\ written[Len(clause)] \in Rows
  BY <1>1, NextWord
<1>3. WordCount(written[Len(clause)]) \in Nat
  BY <1>2, RowWordsOf
<1>4. j + 1 \in 1 .. WordCount(written[Len(clause)])
  BY <1>2, <1>3
<1>5. Reads(f, j)
  BY <1>2, <1>4 DEF Reads, FileRead
<1>6. written' = written /\ done' = done
  BY DEF Reading
<1>7. FileRead(f)'
  BY <1>6 DEF FileRead
<1>8. Len(written) \in Nat /\ f \in [0 .. Len(written) -> Nat]
  BY LenProperties DEF FileRead, Spelled
<1> QED
  BY <1>1, <1>5, <1>6, <1>7, <1>8

(* A k is the first word of a native row (parse.cpp:55-63). *)
LEMMA ReadKStep ==
  ASSUME NEW f, NEW j \in Nat, FileRead(f), ReadSoFar(f, j), ReadK
  PROVE  ReadSoFar(f, 1)'
<1> DEFINE n == Len(written)
           i == Len(clause)
           r == written[i]
<1>1. Reads(f, j) /\ n \in Nat /\ f \in [0..n -> Nat]
  BY ReadingReads DEF ReadK
<1>2. i \in 1..n /\ r \in Rows /\ (r.native => r.degree # 0) /\ j + 1 \in 1..WordCount(r)
      /\ WordOf(r, j + 1).is = "k"
  BY <1>1 DEF Reads, ReadK
<1>3. r.native /\ j = 0 /\ Off(r) = 2 /\ WordCount(r) = 3 + Len(r.lits) /\ Len(r.lits) \in Nat
  <2>1. Off(r) \in {0, 2} /\ (Off(r) = 2 <=> r.native) /\ r.native /\ j + 1 = 1
        /\ WordCount(r) = Off(r) + Len(r.lits) + 1 /\ Len(r.lits) \in Nat
    BY <1>2, WordKinds
  <2> QED BY <2>1
<1>4. /\ clause' = clause /\ degree' = degree /\ cardinality' = TRUE /\ written' = written
  BY DEF ReadK, Reading
<1>5. LeftToRead(f, j) /\ Place(j) /\ ClausesRead(j) /\ DegreesRead(j)
  BY DEF ReadSoFar
<1>6. LeftToRead(f, 1)'
  <2>1. Len(clause)' \in 1..Len(written) + 1
    BY <1>1, <1>2, <1>4
  <2>2. f[Len(clause)' - 1] + 1 = f[Len(clause) - 1] + (j + 1)
    BY <1>3, <1>4
  <2> QED
    BY <1>5, <2>1, <2>2, OneWordLess DEF ReadK
<1>7. Place(1)'
  BY <1>1, <1>2, <1>3, <1>4 DEF Place, WordCount, Off
<1>8. ClausesRead(1)'
  BY <1>2, <1>3, <1>4, <1>5 DEF ClausesRead, RowsTo, Off
<1>9. DegreesRead(1)'
  BY <1>3, <1>4, <1>5 DEF DegreesRead
<1>10. FlagRead(1)'
  <2>1. i # n + 1
    BY <1>1, <1>2
  <2> QED BY <1>3, <1>4, <2>1 DEF FlagRead
<1> QED
  BY <1>6, <1>7, <1>8, <1>9, <1>10 DEF ReadSoFar

(* The number after it is the degree (parse.cpp:79-82). *)
LEMMA ReadDegreeStep ==
  ASSUME NEW f, NEW j \in Nat, FileRead(f), ReadSoFar(f, j), ReadDegree
  PROVE  ReadSoFar(f, 2)'
<1> DEFINE n == Len(written)
           i == Len(clause)
           r == written[i]
<1>1. Reads(f, j) /\ n \in Nat /\ f \in [0..n -> Nat]
  BY ReadingReads DEF ReadDegree
<1>2. i \in 1..n /\ r \in Rows /\ (r.native => r.degree # 0) /\ j + 1 \in 1..WordCount(r)
      /\ Head(words) = WordOf(r, j + 1)
  BY <1>1 DEF Reads
<1>3. LeftToRead(f, j) /\ Place(j) /\ ClausesRead(j) /\ DegreesRead(j) /\ FlagRead(j)
  BY DEF ReadSoFar
<1>4. r.native /\ j = 1
  BY <1>3 DEF FlagRead, ReadDegree
<1>5. /\ Off(r) = 2 /\ WordCount(r) = 3 + Len(r.lits) /\ Len(r.lits) \in Nat
      /\ Head(words).number = r.degree /\ r.degree \in Nat
  <2>1. Off(r) \in {0, 2} /\ (Off(r) = 2 <=> r.native)
        /\ WordCount(r) = Off(r) + Len(r.lits) + 1 /\ Len(r.lits) \in Nat
        /\ (r.native /\ j + 1 = 2 => WordOf(r, j + 1).number = r.degree)
    BY <1>2, WordKinds
  <2>2. r.degree \in Nat
    BY <1>2, RowLits
  <2>3. j + 1 = 2
    BY <1>4
  <2> QED BY <1>2, <1>4, <2>1, <2>2, <2>3
<1>6. /\ clause' = clause /\ cardinality' = FALSE /\ written' = written
      /\ degree' = [k \in DOMAIN degree |-> IF k = i THEN Head(words).number ELSE degree[k]]
  BY DEF ReadDegree, Reading
<1>7. LeftToRead(f, 2)'
  <2>1. Len(clause)' \in 1..Len(written) + 1
    BY <1>1, <1>2, <1>6
  <2>2. f[Len(clause)' - 1] + 2 = f[Len(clause) - 1] + (j + 1)
    BY <1>4, <1>6
  <2> QED
    BY <1>3, <2>1, <2>2, OneWordLess DEF ReadDegree
<1>8. Place(2)'
  BY <1>1, <1>2, <1>5, <1>6 DEF Place, WordCount, Off
<1>9. ClausesRead(2)'
  BY <1>2, <1>3, <1>4, <1>5, <1>6 DEF ClausesRead, RowsTo, Off
<1>10. DegreesRead(2)'
  <2>1. degree \in [1..n -> Nat]
        /\ \A k \in 1..n : degree[k] = IF written[k].native /\ (k < i \/ (k = i /\ j >= 2))
                                       THEN written[k].degree ELSE 0
    BY <1>3 DEF DegreesRead
  <2>2. degree' = [k \in 1..n |-> IF k = i THEN r.degree ELSE degree[k]]
    BY <1>5, <1>6, <2>1
  <2>3. degree' \in [1..n -> Nat]
    BY <1>5, <2>1, <2>2
  <2>4. \A k \in 1..n : degree'[k] = IF written[k].native /\ (k < i \/ k = i)
                                     THEN written[k].degree ELSE 0
    BY <1>4, <2>1, <2>2
  <2> QED
    BY <1>6, <2>3, <2>4 DEF DegreesRead
<1>11. FlagRead(2)'
  BY <1>6 DEF FlagRead
<1> QED
  BY <1>7, <1>8, <1>9, <1>10, <1>11 DEF ReadSoFar

(* Any other number that is not 0 is the row's next literal (parse.cpp:84). *)
LEMMA ReadLiteralStep ==
  ASSUME NEW f, NEW j \in Nat, FileRead(f), ReadSoFar(f, j), ReadLiteral
  PROVE  ReadSoFar(f, j + 1)'
<1> DEFINE n == Len(written)
           i == Len(clause)
           r == written[i]
           o == Off(r)
<1>1. Reads(f, j) /\ n \in Nat /\ f \in [0..n -> Nat]
  BY ReadingReads DEF ReadLiteral
<1>2. i \in 1..n /\ r \in Rows /\ (r.native => r.degree # 0) /\ j + 1 \in 1..WordCount(r)
      /\ Head(words) = WordOf(r, j + 1)
  BY <1>1 DEF Reads
<1>3. LeftToRead(f, j) /\ Place(j) /\ ClausesRead(j) /\ DegreesRead(j) /\ FlagRead(j)
  BY DEF ReadSoFar
<1>4. /\ o \in {0, 2} /\ (o = 2 <=> r.native)
      /\ WordCount(r) = o + Len(r.lits) + 1 /\ Len(r.lits) \in Nat
      /\ WordOf(r, j + 1).is \in {"k", "number"}
      /\ WordOf(r, j + 1).is = "k" <=> r.native /\ j + 1 = 1
      /\ WordOf(r, j + 1).is = "k" => WordOf(r, j + 1).number = 0
      /\ WordOf(r, j + 1) = Number(0) <=> j + 1 = WordCount(r)
      /\ (j + 1 # WordCount(r) /\ ~(r.native /\ j + 1 <= 2) =>
            j + 1 - o \in 1..Len(r.lits) /\ WordOf(r, j + 1).number = r.lits[j + 1 - o])
  BY <1>2, WordKinds
<1>5. ~(r.native /\ j = 0) /\ ~(r.native /\ j = 1) /\ j + 1 # WordCount(r)
  <2>1. Head(words).number # 0 /\ ~cardinality /\ Number(0).number = 0
    BY DEF ReadLiteral, Number
  <2>2. i # n + 1
    BY <1>1, <1>2
  <2>3. ~(r.native /\ j = 1)
    BY <1>3, <2>1, <2>2 DEF FlagRead
  <2>4. j + 1 # WordCount(r)
    BY <1>2, <1>4, <2>1
  <2>5. ~(r.native /\ j = 0)
    BY <1>2, <1>4, <2>1
  <2> QED BY <2>3, <2>4, <2>5
<1> HIDE DEF o
<1>6. j >= o /\ j + 1 - o \in 1..Len(r.lits) /\ Head(words).number = r.lits[j + 1 - o]
  <2>1. j >= o /\ ~(r.native /\ j + 1 <= 2)
    BY <1>4, <1>5
  <2> QED BY <1>2, <1>4, <1>5, <2>1
<1>7. /\ clause' = [clause EXCEPT ![i] = Append(@, Head(words).number)]
      /\ cardinality' = cardinality /\ written' = written /\ degree' = degree /\ ~cardinality
  BY DEF ReadLiteral, Reading
<1>8. /\ clause \in Seq(Seq(Int)) /\ (\A k \in 1..i - 1 : clause[k] = written[k].lits)
      /\ Len(clause[i]) = (IF i # n + 1 /\ j > o THEN j - o ELSE 0)
      /\ \A k \in 1..Len(clause[i]) : clause[i][k] = r.lits[k]
  BY <1>3 DEF ClausesRead, RowsTo, o
<1>9. i \in Nat /\ clause \in [1..i -> Seq(Int)] /\ i # n + 1
  BY <1>1, <1>2, <1>8, LenProperties
<1> DEFINE c == clause[i]
           l == Head(words).number
<1>10. c \in Seq(Int) /\ Len(c) = j - o /\ l \in Int
  <2>1. c \in Seq(Int)
    <3>1. i \in 1..Len(clause)
      <4>1. i \in Nat /\ i >= 1
        <5> HIDE DEF i, n, r, o, c, l
        <5> QED BY <1>1, <1>2, <1>9
      <4> QED BY <4>1
    <3> QED BY <1>8, <3>1, ElementOfSeq
  <2>1a. Len(c) = j - o
    <3>1. Len(c) = (IF j > o THEN j - o ELSE 0)
      BY <1>8, <1>9
    <3> HIDE DEF c
    <3> QED BY <1>4, <1>6, <3>1
  <2>2. l \in Int
    BY <1>2, <1>6, RowLits
  <2> QED BY <2>1, <2>1a, <2>2
<1> HIDE DEF c, l, n
<1>11. Append(c, l) \in Seq(Int) /\ Len(Append(c, l)) = j + 1 - o
       /\ \A k \in 1..j + 1 - o : Append(c, l)[k] = r.lits[k]
  <2>1. Append(c, l) \in Seq(Int) /\ Len(Append(c, l)) = Len(c) + 1
    BY <1>10, AppendProperties
  <2>2. ASSUME NEW k \in 1..Len(c) PROVE Append(c, l)[k] = r.lits[k]
    <3>1. Append(c, l)[k] = c[k]
      BY <1>10, AppendProperties
    <3> QED BY <1>8, <3>1 DEF c
  <2>3. Append(c, l)[Len(c) + 1] = l
    BY <1>10, AppendProperties
  <2>4. Len(c) + 1 = j + 1 - o /\ j - o \in Nat
    BY <1>4, <1>6, <1>10
  <2>5. ASSUME NEW k \in 1..j + 1 - o PROVE Append(c, l)[k] = r.lits[k]
    <3>1. k \in 1..Len(c) \/ k = Len(c) + 1
      BY <1>4, <1>10, <2>4
    <3> QED BY <1>6, <2>2, <2>3, <2>4, <3>1 DEF l
  <2> QED BY <2>1, <2>4, <2>5
<1>12. clause' = [clause EXCEPT ![i] = Append(c, l)]
  BY <1>7 DEF c, l
<1>13. /\ clause' \in [1..i -> Seq(Int)] /\ clause'[i] = Append(c, l)
       /\ \A k \in 1..i - 1 : clause'[k] = clause[k]
  <2> HIDE DEF i
  <2>1. i \in 1..i
    BY <1>1, <1>2
  <2>2. \A k \in 1..i - 1 : k \in 1..i /\ k # i
    BY <1>9
  <2> QED
    BY <1>9, <1>11, <1>12, <2>1, <2>2
<1> HIDE DEF i
<1>14. clause' \in Seq(Seq(Int)) /\ Len(clause') = i
  <2>1. clause' \in Seq(Seq(Int))
    BY <1>9, <1>13, SeqDef
  <2> QED BY <1>9, <1>13, <2>1, LenProperties
<1>15. LeftToRead(f, j + 1)'
  <2>1. Len(clause)' \in 1..Len(written) + 1
    BY <1>1, <1>2, <1>14 DEF n
  <2>2. f[Len(clause)' - 1] + (j + 1) = f[Len(clause) - 1] + (j + 1)
    BY <1>14 DEF i
  <2>3. j + 1 \in Nat
    OBVIOUS
  <2> QED
    BY <1>3, <2>1, <2>2, <2>3, OneWordLess DEF ReadLiteral
<1>16. Place(j + 1)'
  <2>1. j + 1 < WordCount(r)
    BY <1>2, <1>4, <1>5
  <2>2. i \in 1..n + 1 /\ i # n + 1
    BY <1>1, <1>2
  <2> QED
    BY <1>7, <1>14, <2>1, <2>2 DEF Place, n, WordCount, Off
<1>17. ClausesRead(j + 1)'
  <2>1. \A k \in 1..i - 1 : clause'[k] = written[k].lits
    BY <1>8, <1>13
  <2>2. Len(clause'[i]) = (IF i # n + 1 /\ j + 1 > o THEN j + 1 - o ELSE 0)
    BY <1>4, <1>6, <1>9, <1>11, <1>13
  <2>3. \A k \in 1..Len(clause'[i]) : clause'[i][k] = r.lits[k]
    BY <1>11, <1>13
  <2>4. RowsTo(clause', written, i, j + 1)
    <3>1. Len(clause'[i]) = IF i # Len(written) + 1 /\ j + 1 > Off(written[i])
                            THEN j + 1 - Off(written[i]) ELSE 0
      BY <2>2, Zenon DEF n, o
    <3>2. \A k \in 1..Len(clause'[i]) : clause'[i][k] = written[i].lits[k]
      BY <2>3
    <3>3. clause' \in Seq(Seq(Int)) /\ Len(clause') = i
      BY <1>14
    <3>4. \A k \in 1..i - 1 : clause'[k] = written[k].lits
      BY <2>1
    <3> DEFINE cl == clause'
               d == j + 1
    <3>5. Len(cl[i]) = IF i # Len(written) + 1 /\ d > Off(written[i]) THEN d - Off(written[i]) ELSE 0
      <4>1. Off(written[i]) \in Int
        BY DEF Off
      <4> QED BY <3>1, <4>1
    <3>6. \A k \in 1..Len(cl[i]) : cl[i][k] = written[i].lits[k]
      BY <3>2
    <3>7. cl \in Seq(Seq(Int)) /\ Len(cl) = i
      BY <3>3
    <3>8. \A k \in 1..i - 1 : cl[k] = written[k].lits
      BY <3>4
    <3> HIDE DEF cl, d
    <3>9. RowsTo(cl, written, i, d)
      BY <3>5, <3>6, <3>7, <3>8 DEF RowsTo
    <3> QED
      BY <3>9 DEF cl, d
  <2> QED
    BY <1>7, <1>14, <2>4 DEF ClausesRead
<1>18. DegreesRead(j + 1)'
  <2>1. degree \in [1..n -> Nat]
        /\ \A k \in 1..n : degree[k] = IF written[k].native /\ (k < i \/ (k = i /\ j >= 2))
                                       THEN written[k].degree ELSE 0
    BY <1>3 DEF DegreesRead, n, i
  <2>2. ASSUME NEW k \in 1..n
        PROVE  degree[k] = IF written[k].native /\ (k < i \/ (k = i /\ j + 1 >= 2))
                           THEN written[k].degree ELSE 0
    <3>1. k = i /\ written[k].native => (j >= 2 <=> j + 1 >= 2)
      BY <1>5
    <3> QED BY <2>1, <3>1
  <2> QED
    BY <1>7, <1>14, <2>1, <2>2 DEF DegreesRead, n
<1>19. FlagRead(j + 1)'
  <2>1. ~(j + 1 = 1 /\ r.native)
    BY <1>5
  <2> QED BY <1>7, <1>14, <2>1 DEF FlagRead
<1> QED
  BY <1>15, <1>16, <1>17, <1>18, <1>19 DEF ReadSoFar

(* A 0 is the end of the row, and the next row begins (parse.cpp:75-78). *)
LEMMA ReadZeroStep ==
  ASSUME NEW f, NEW j \in Nat, FileRead(f), ReadSoFar(f, j), ReadZero
  PROVE  ReadSoFar(f, 0)'
<1> DEFINE n == Len(written)
           i == Len(clause)
           r == written[i]
           o == Off(r)
           m == Len(r.lits)
<1>1. Reads(f, j) /\ n \in Nat /\ f \in [0..n -> Nat]
  BY ReadingReads DEF ReadZero
<1>2. i \in 1..n /\ r \in Rows /\ (r.native => r.degree # 0) /\ j + 1 \in 1..WordCount(r)
      /\ WordOf(r, j + 1) = Number(0)
  BY <1>1 DEF Reads, ReadZero
<1>3. LeftToRead(f, j) /\ Place(j) /\ ClausesRead(j) /\ DegreesRead(j) /\ FlagRead(j)
  BY DEF ReadSoFar
<1>4. /\ o \in {0, 2} /\ (o = 2 <=> r.native) /\ m \in Nat
      /\ WordCount(r) = o + m + 1 /\ j + 1 = WordCount(r)
  BY <1>2, WordKinds
<1> HIDE DEF o, m
<1>5. j = o + m /\ (r.native => j >= 2)
  BY <1>4
<1>6. /\ clause' = Append(clause, <<>>)
      /\ cardinality' = cardinality /\ written' = written /\ degree' = degree
  BY DEF ReadZero, Reading
<1>7. /\ clause \in Seq(Seq(Int)) /\ (\A k \in 1..i - 1 : clause[k] = written[k].lits)
      /\ Len(clause[i]) = (IF i # n + 1 /\ j > o THEN j - o ELSE 0)
      /\ \A k \in 1..Len(clause[i]) : clause[i][k] = r.lits[k]
  BY <1>3 DEF ClausesRead, RowsTo, o
<1>8. clause[i] = r.lits
  <2>1. i \in 1..Len(clause)
    <3>1. i \in Nat /\ i >= 1
      <4> HIDE DEF i, n, r
      <4> QED BY <1>1, <1>2
    <3> QED BY <3>1
  <2>2. clause[i] \in Seq(Int)
    BY <1>7, <2>1, ElementOfSeq
  <2>3. Len(clause[i]) = m
    <3> DEFINE c == Len(clause[i])
    <3>1. c = (IF i # n + 1 /\ j > o THEN j - o ELSE 0)
      BY <1>7
    <3> HIDE DEF c, i, n, r
    <3>2. i # n + 1
      BY <1>1, <1>2
    <3>3. c = m
      BY <1>4, <1>5, <3>1, <3>2
    <3> QED BY <3>3 DEF c, i
  <2>4. r.lits \in Seq(Int) /\ Len(r.lits) = m
    BY <1>2, RowLits DEF m
  <2> QED
    BY <1>7, <2>2, <2>3, <2>4, SeqEqual
<1>9. /\ clause' \in Seq(Seq(Int)) /\ Len(clause') = i + 1 /\ clause'[i + 1] = <<>>
      /\ \A k \in 1..i : clause'[k] = clause[k]
  <2>1. <<>> \in Seq(Int)
    BY EmptySeq
  <2> QED
    BY <1>6, <1>7, <2>1, AppendProperties
<1>10. WordCount(r) \in Nat /\ i \in Nat
  <2> HIDE DEF i, n, r
  <2> QED BY <1>1, <1>2, <1>4
<1>11. LeftToRead(f, 0)'
  <2> DEFINE d == f[i - 1]
             e == f[i]
  <2>1. Len(clause)' \in 1..Len(written) + 1
    <3> HIDE DEF i, n, r
    <3>1. i + 1 \in 1..n + 1
      BY <1>1, <1>2
    <3> QED BY <1>9, <3>1 DEF n
  <2>2. f[i] = f[i - 1] + WordCount(r) /\ f[i - 1] \in Nat
    <3>1. f[i] = f[i - 1] + WordCount(r)
      BY <1>2 DEF FileRead, Spelled
    <3>2. i - 1 \in 0..n
      <4> HIDE DEF i, n, r
      <4> QED BY <1>1, <1>2
    <3> QED BY <1>1, <3>1, <3>2
  <2>3. Len(clause)' - 1 = i
    BY <1>9, <1>10
  <2>4. e + 0 = d + (j + 1)
    <3> HIDE DEF d, e, r
    <3>1. e = d + WordCount(r) /\ d \in Nat
      BY <2>2 DEF d, e
    <3> QED BY <1>4, <1>10, <3>1
  <2>5. f[Len(clause)' - 1] + 0 = f[Len(clause) - 1] + (j + 1)
    BY <2>3, <2>4
  <2> QED
    BY <1>3, <2>1, <2>5, OneWordLess DEF ReadZero
<1>12. Place(0)'
  <2>1. i + 1 \in 1..n + 1
    <3> HIDE DEF i, n, r
    <3> QED BY <1>1, <1>2
  <2>2. i + 1 # n + 1 => 0 < WordCount(written[i + 1])
    <3> SUFFICES ASSUME i + 1 # n + 1 PROVE 0 < WordCount(written[i + 1])
      OBVIOUS
    <3>1. i + 1 \in 1..n
      <4> HIDE DEF i, n, r
      <4> QED BY <1>1, <1>2
    <3>2. written[i + 1] \in Rows
      BY <3>1, ElementOfSeq DEF FileRead
    <3>3. WordCount(written[i + 1]) \in Nat \ {0}
      BY <3>2, RowWordsOf
    <3> QED BY <3>3
  <2> HIDE DEF i, n, r
  <2>3. Len(clause') = i + 1 /\ Len(written') = n /\ written' = written
    BY <1>6, <1>9 DEF n
  <2> QED
    BY <2>1, <2>2, <2>3 DEF Place
<1>13. ClausesRead(0)'
  <2> HIDE DEF i, n, r
  <2>1. \A k \in 1..(i + 1) - 1 : clause'[k] = written[k].lits
    <3> SUFFICES ASSUME NEW k \in 1..(i + 1) - 1 PROVE clause'[k] = written[k].lits
      OBVIOUS
    <3>1. k \in 1..i /\ (k \in 1..i - 1 \/ k = i)
      BY <1>10
    <3> QED BY <1>7, <1>8, <1>9, <3>1 DEF r
  <2>2. Len(clause'[i + 1]) = 0
    BY <1>9, EmptySeq
  <2>3. i + 1 # n + 1 => Off(written[i + 1]) \in Nat
    BY DEF Off
  <2>4. RowsTo(clause', written, i + 1, 0)
    <3>1. ~(i + 1 # Len(written) + 1 /\ 0 > Off(written[i + 1]))
      BY <2>3 DEF n
    <3> QED BY <1>9, <2>1, <2>2, <3>1 DEF RowsTo
  <2> QED
    BY <1>6, <1>9, <2>4 DEF ClausesRead
<1>14. DegreesRead(0)'
  <2>1. degree \in [1..n -> Nat]
        /\ \A k \in 1..n : degree[k] = IF written[k].native /\ (k < i \/ (k = i /\ j >= 2))
                                       THEN written[k].degree ELSE 0
    BY <1>3 DEF DegreesRead
  <2> HIDE DEF i, n
  <2>2. ASSUME NEW k \in 1..n
        PROVE  degree[k] = IF written[k].native /\ (k < i + 1 \/ (k = i + 1 /\ 0 >= 2))
                           THEN written[k].degree ELSE 0
    <3>1. k < i + 1 <=> k < i \/ k = i
      BY <1>1, <1>10
    <3>2. k = i /\ written[k].native => j >= 2
      BY <1>5
    <3> QED BY <2>1, <3>1, <3>2
  <2>3. Len(clause') = i + 1 /\ written' = written /\ degree' = degree
    BY <1>6, <1>9
  <2> QED
    BY <2>1, <2>2, <2>3 DEF DegreesRead, n
<1>15. FlagRead(0)'
  <2>1. ~(j = 1 /\ r.native)
    BY <1>5
  <2>2. ~cardinality
    BY <1>3, <2>1 DEF FlagRead
  <2> QED BY <1>6, <2>2 DEF FlagRead
<1> QED
  BY <1>11, <1>12, <1>13, <1>14, <1>15 DEF ReadSoFar

(* The words end when the last row does.  The row that was begun after it is *)
(* dropped, and rows without a degree get degree 1 (preprocess.cpp:49-57).   *)
LEMMA RaiseDegreesStep ==
  ASSUME NEW f, NEW j \in Nat, FileRead(f), ReadSoFar(f, j), RaiseDegrees
  PROVE  AllRead' /\ FileRead(f)' /\ done'
<1> DEFINE n == Len(written)
           i == Len(clause)
<1>1. LeftToRead(f, j) /\ Place(j) /\ ClausesRead(j) /\ DegreesRead(j) /\ FlagRead(j)
  BY DEF ReadSoFar
<1>2. /\ n \in Nat /\ f \in [0..n -> Nat] /\ Words(written) \in Seq(Word)
      /\ (\A k \in 1..n : written[k] \in Rows /\ (written[k].native => written[k].degree # 0))
      /\ \A k \in 1..n : \A m \in 1..WordCount(written[k]) : f[k - 1] + m <= f[n]
  BY LenProperties, ElementOfSeq DEF FileRead, Spelled
<1>3. words = <<>> /\ written' = written /\ words' = words /\ done' = TRUE
      /\ clause' = SubSeq(clause, 1, i - 1)
  BY DEF RaiseDegrees
<1>4. i \in 1..n + 1 /\ (i # n + 1 => j < WordCount(written[i]))
  BY <1>1 DEF Place
<1>5. i = n + 1
  <2> SUFFICES ASSUME i # n + 1 PROVE FALSE
    OBVIOUS
  <2>1. 0 = f[n] - (f[i - 1] + j)
    BY <1>1, <1>3, EmptySeq DEF LeftToRead
  <2> HIDE DEF i, n
  <2>2. i \in 1..n /\ i - 1 \in 0..n
    BY <1>2, <1>4
  <2>3. WordCount(written[i]) \in Nat
    BY <1>2, <2>2, RowWordsOf
  <2>4. j + 1 \in 1..WordCount(written[i])
    BY <1>4, <2>3
  <2>5. f[i - 1] + (j + 1) <= f[n]
    BY <1>2, <2>2, <2>4
  <2>6. f[i - 1] \in Nat /\ f[n] \in Nat
    BY <1>2, <2>2
  <2> QED
    BY <2>1, <2>5, <2>6
<1>6. clause \in Seq(Seq(Int)) /\ \A k \in 1..n : clause[k] = written[k].lits
  <2>1. i - 1 = n
    <3> HIDE DEF i, n
    <3> QED BY <1>2, <1>5
  <2> QED BY <1>1, <2>1 DEF ClausesRead, RowsTo
<1>7. /\ degree \in [1..n -> Nat]
      /\ \A k \in 1..n : degree[k] = IF written[k].native THEN written[k].degree ELSE 0
  <2>1. /\ degree \in [1..n -> Nat]
        /\ \A k \in 1..n : degree[k] = IF written[k].native /\ (k < i \/ (k = i /\ j >= 2))
                                       THEN written[k].degree ELSE 0
    BY <1>1 DEF DegreesRead
  <2> HIDE DEF i, n
  <2>2. \A k \in 1..n : k < i
    BY <1>2, <1>5
  <2> QED BY <2>1, <2>2
<1>8. i - 1 = n
  <2> HIDE DEF i, n
  <2> QED BY <1>2, <1>5
<1>9. PICK stray \in 0..MaxStray :
        degree' = [k \in 1..n |-> LET d == IF k \in DOMAIN degree THEN degree[k] ELSE stray
                                  IN  IF d = 0 THEN 1 ELSE d]
  BY <1>8 DEF RaiseDegrees
<1>10. degree' = [k \in 1..n |-> IF degree[k] = 0 THEN 1 ELSE degree[k]]
  BY <1>7, <1>9
<1>11. degree' \in [1..n -> Nat]
  BY <1>7, <1>10
<1>12. ASSUME NEW k \in 1..n
       PROVE  degree'[k] = IF written[k].native THEN written[k].degree ELSE 1
  BY <1>2, <1>7, <1>10
<1>13. /\ clause' \in Seq(Seq(Int)) /\ Len(clause') = n
       /\ \A k \in 1..n : clause'[k] = clause[k]
  <2>1. clause' = SubSeq(clause, 1, n)
    BY <1>3, <1>8
  <2>2. Len(clause) = n + 1
    BY <1>5
  <2> HIDE DEF i, n
  <2>3. 1 \in 1..Len(clause) + 1 /\ n \in 1 - 1..Len(clause)
    BY <1>2, <2>2
  <2>4. /\ SubSeq(clause, 1, n) \in Seq(Seq(Int))
        /\ Len(SubSeq(clause, 1, n)) = IF 1 <= n THEN n - 1 + 1 ELSE 0
        /\ \A k \in 1..n - 1 + 1 : SubSeq(clause, 1, n)[k] = clause[1 + k - 1]
    BY <1>6, <2>3, SubSeqProperties
  <2>5. (IF 1 <= n THEN n - 1 + 1 ELSE 0) = n /\ n - 1 + 1 = n
    BY <1>2
  <2>6. \A k \in 1..n : 1 + k - 1 = k
    BY <1>2
  <2> QED
    BY <2>1, <2>4, <2>5, <2>6
<1>14. AllRead'
  BY <1>3, <1>6, <1>11, <1>12, <1>13 DEF AllRead
<1>15. FileRead(f)'
  BY <1>3 DEF FileRead
<1> QED
  BY <1>3, <1>14, <1>15

(* Every step of the reader keeps the invariant. *)
LEMMA ReadStep == ASSUME ReadInv, [Next]_vars PROVE ReadInv'
<1>1. PICK f : FileRead(f) /\ (IF done THEN AllRead ELSE \E j \in Nat : ReadSoFar(f, j))
  BY DEF ReadInv
<1>2. CASE UNCHANGED vars
  <2>1. FileRead(f)' /\ (AllRead => AllRead') /\ done' = done
    BY <1>1, <1>2 DEF vars, FileRead, AllRead
  <2>2. ASSUME NEW j \in Nat, ReadSoFar(f, j) PROVE ReadSoFar(f, j)'
    BY <1>2, <2>2 DEF vars, ReadSoFar, LeftToRead, Place, ClausesRead, DegreesRead, FlagRead
  <2> QED
    BY <1>1, <2>1, <2>2 DEF ReadInv
<1>3. CASE Next
  <2>1. ~done
    <3>1. CASE RaiseDegrees
      BY <3>1 DEF RaiseDegrees
    <3>2. CASE Reading
      BY <1>1, <3>2 DEF Reading, AllRead
    <3> QED
      BY <1>3, <3>1, <3>2 DEF Next, ReadK, ReadZero, ReadDegree, ReadLiteral
  <2>2. PICK j \in Nat : ReadSoFar(f, j)
    BY <1>1, <2>1
  <2>3. ASSUME Reading PROVE FileRead(f)' /\ ~done'
    BY <1>1, <2>1, <2>2, <2>3, ReadingReads
  <2>4. CASE ReadK
    <3>1. ReadSoFar(f, 1)'
      BY <1>1, <2>2, <2>4, ReadKStep
    <3> QED BY <2>3, <2>4, <3>1 DEF ReadInv, ReadK
  <2>5. CASE ReadZero
    <3>1. ReadSoFar(f, 0)'
      BY <1>1, <2>2, <2>5, ReadZeroStep
    <3> QED BY <2>3, <2>5, <3>1 DEF ReadInv, ReadZero
  <2>6. CASE ReadDegree
    <3>1. ReadSoFar(f, 2)'
      BY <1>1, <2>2, <2>6, ReadDegreeStep
    <3> QED BY <2>3, <2>6, <3>1 DEF ReadInv, ReadDegree
  <2>7. CASE ReadLiteral
    <3>1. ReadSoFar(f, j + 1)' /\ j + 1 \in Nat
      BY <1>1, <2>2, <2>7, ReadLiteralStep
    <3> QED BY <2>3, <2>7, <3>1 DEF ReadInv, ReadLiteral
  <2>8. CASE RaiseDegrees
    <3>1. AllRead' /\ FileRead(f)' /\ done'
      BY <1>1, <2>2, <2>8, RaiseDegreesStep
    <3> QED BY <3>1 DEF ReadInv
  <2> QED
    BY <1>3, <2>4, <2>5, <2>6, <2>7, <2>8 DEF Next
<1> QED
  BY <1>2, <1>3

(* The invariant says at least what ReadAsWritten does. *)
LEMMA ReadInvMeans == ASSUME ReadInv PROVE ReadAsWritten
<1> DEFINE n == Len(written)
           i == Len(clause)
<1>1. PICK f : FileRead(f) /\ (IF done THEN AllRead ELSE \E j \in Nat : ReadSoFar(f, j))
  BY DEF ReadInv
<1>2. n \in Nat /\ DOMAIN written = 1..n
  BY <1>1, LenProperties DEF FileRead
<1>3. CASE done
  <2>1. /\ i = n /\ clause \in Seq(Seq(Int))
        /\ \A k \in 1..n : /\ clause[k] = written[k].lits
                           /\ degree[k] = IF written[k].native THEN written[k].degree ELSE 1
    BY <1>1, <1>3 DEF AllRead
  <2>2. DOMAIN clause = 1..n
    BY <2>1, LenProperties
  <2>3. \A k \in 1..n : [lits |-> LitsOf(clause[k]), degree |-> degree[k]] = Meant(written[k])
    BY <2>1 DEF Meant
  <2>4. RowsRead = RowsMeant
    BY <1>2, <2>2, <2>3 DEF RowsRead, RowsMeant
  <2> HIDE DEF n, i
  <2>5. i <= n + 1 /\ \A k \in 1..i - 1 : k \in 1..n
    BY <1>2, <2>1
  <2> QED
    BY <1>3, <2>1, <2>4, <2>5 DEF ReadAsWritten, n, i
<1>4. CASE ~done
  <2>1. PICK j \in Nat : ReadSoFar(f, j)
    BY <1>1, <1>4
  <2>2. /\ i \in 1..n + 1 /\ (\A k \in 1..i - 1 : clause[k] = written[k].lits)
        /\ \A k \in 1..n : degree[k] = IF written[k].native /\ (k < i \/ (k = i /\ j >= 2))
                                       THEN written[k].degree ELSE 0
    BY <2>1 DEF ReadSoFar, Place, ClausesRead, RowsTo, DegreesRead
  <2> HIDE DEF n, i
  <2>3. i <= n + 1 /\ \A k \in 1..i - 1 : k \in 1..n /\ k < i
    BY <1>2, <2>2
  <2> QED
    BY <1>4, <2>2, <2>3 DEF ReadAsWritten, n, i
<1> QED
  BY <1>3, <1>4

(* Whatever the file, if no native row asks for 0 literals: row by row, what *)
(* readfile has read is what was written, and the rows it ends with are the  *)
(* rows meant (parse.cpp:38-86, preprocess.cpp:49-57).  Without the          *)
(* hypothesis this is false, and the run ReaderZero shows it.                *)
THEOREM RowsReadAsWritten == ASSUME PositiveDegrees PROVE Spec => []ReadAsWritten
<1>1. Init => ReadInv
  BY ReadInit
<1>2. ReadInv /\ [Next]_vars => ReadInv'
  BY ReadStep
<1>3. ReadInv => ReadAsWritten
  BY ReadInvMeans
<1> QED
  BY <1>1, <1>2, <1>3, PTL DEF Spec
=============================================================================
