----------------------------- MODULE ListProofs -----------------------------
(***************************************************************************)
(* Facts about the sequences the console works with: what filter, sort and *)
(* insertion return, whether elements stay distinct and in order.          *)
(*                                                                         *)
(* The recursive functions of Lists are read off one step at a time: for   *)
(* every n there is a function that makes the n steps (Recursion, by       *)
(* Induction over the set of the n for which it is so), and the function   *)
(* that CHOOSE takes is that one (FilteredSteps, DescendingSteps). The     *)
(* facts about them follow by Induction over the positions read.           *)
(***************************************************************************)
EXTENDS Lists, SequenceTheorems, FiniteSetTheorems, WellFoundedInduction, TLAPS

\* A set of numbers with 0, and with n + 1 whenever it has n, has them all.
LEMMA Induction ==
  ASSUME NEW P, 0 \in P, \A n \in Nat : n \in P => n + 1 \in P
  PROVE  Nat \subseteq P
<1> DEFINE T == Nat \ P
<1> SUFFICES ASSUME T # {} PROVE FALSE
  OBVIOUS
<1> HIDE DEF T
<1>1. T \subseteq Nat
  BY DEF T
<1>2. PICK x \in T : \A y \in T : ~(<<y, x>> \in OpToRel(<, Nat))
  BY <1>1, NatLessThanWellFounded, WFMin
<1>3. \A y \in T : ~(y < x)
  BY <1>1, <1>2 DEF OpToRel
<1>4. x \in Nat /\ x # 0
  BY <1>1 DEF T
<1>5. x - 1 \in P
  BY <1>3, <1>4 DEF T
<1>6. QED
  BY <1>4, <1>5 DEF T

\* k starts at base and takes the n steps of F.
Iterates(k, T, n, base, F) ==
  k \in [0 .. n -> T] /\ k[0] = base /\ \A i \in 1 .. n : k[i] = F[i][k[i - 1]]

\* There is such a function for every n.
LEMMA Recursion ==
  ASSUME NEW T, NEW n \in Nat, NEW base \in T, NEW F \in [1 .. n -> [T -> T]]
  PROVE  \E k : Iterates(k, T, n, base, F)
<1> DEFINE P == {m \in Nat : m <= n =>
                   \E k \in [0 .. m -> T] : k[0] = base /\ \A i \in 1 .. m : k[i] = F[i][k[i - 1]]}
<1>1. 0 \in P
  <2> DEFINE k == [i \in 0 .. 0 |-> base]
  <2>1. k \in [0 .. 0 -> T] /\ k[0] = base /\ \A i \in 1 .. 0 : k[i] = F[i][k[i - 1]]
    OBVIOUS
  <2>2. QED
    BY <2>1
<1>2. ASSUME NEW m \in Nat, m \in P PROVE m + 1 \in P
  <2> SUFFICES ASSUME m + 1 <= n
               PROVE  \E k \in [0 .. m + 1 -> T] :
                        k[0] = base /\ \A i \in 1 .. m + 1 : k[i] = F[i][k[i - 1]]
    OBVIOUS
  <2>1. PICK k \in [0 .. m -> T] : k[0] = base /\ \A i \in 1 .. m : k[i] = F[i][k[i - 1]]
    BY <1>2
  <2> DEFINE next == [i \in 0 .. m + 1 |-> IF i = m + 1 THEN F[m + 1][k[m]] ELSE k[i]]
  <2>2. F[m + 1] \in [T -> T] /\ k[m] \in T
    BY <2>1
  <2>3. next \in [0 .. m + 1 -> T]
    BY <2>1, <2>2
  <2>4. next[0] = base
    BY <2>1
  <2>5. ASSUME NEW i \in 1 .. m + 1 PROVE next[i] = F[i][next[i - 1]]
    BY <2>1
  <2>6. QED
    BY <2>3, <2>4, <2>5
<1>3. n \in P
  <2> HIDE DEF P
  <2>1. QED
    BY <1>1, <1>2, Induction
<1>4. QED
  BY <1>3 DEF Iterates
-----------------------------------------------------------------------------
(* Filtered.                                                               *)

\* The steps Filtered takes.
LEMMA FilteredSteps ==
  ASSUME NEW X, NEW s \in Seq(X), NEW set
  PROVE  \E k \in [0 .. Len(s) -> Seq(X)] :
           /\ k[0] = <<>> /\ Filtered(s, set) = k[Len(s)]
           /\ \A i \in 1 .. Len(s) :
                k[i] = IF s[i] \in set THEN Append(k[i - 1], s[i]) ELSE k[i - 1]
<1> DEFINE F == [i \in 1 .. Len(s) |-> [t \in Seq(X) |-> IF s[i] \in set THEN Append(t, s[i]) ELSE t]]
           step(k) == [n \in 0 .. Len(s) |->
                        IF n = 0 THEN <<>>
                        ELSE IF s[n] \in set THEN Append(k[n - 1], s[n]) ELSE k[n - 1]]
           kept == CHOOSE k : k = step(k)
<1>1. F \in [1 .. Len(s) -> [Seq(X) -> Seq(X)]]
  OBVIOUS
<1>2. <<>> \in Seq(X) /\ Len(s) \in Nat
  OBVIOUS
<1> HIDE DEF F
<1>3. PICK k : Iterates(k, Seq(X), Len(s), <<>>, F)
  BY <1>1, <1>2, Recursion
<1>11. k \in [0 .. Len(s) -> Seq(X)] /\ k[0] = <<>>
  BY <1>3 DEF Iterates
<1>4. ASSUME NEW i \in 1 .. Len(s)
      PROVE  k[i] = IF s[i] \in set THEN Append(k[i - 1], s[i]) ELSE k[i - 1]
  <2>1. k[i - 1] \in Seq(X)
    BY <1>2, <1>11
  <2>2. k[i] = F[i][k[i - 1]]
    BY <1>3 DEF Iterates
  <2>3. QED
    BY <2>1, <2>2 DEF F
<1>5. k = step(k)
  <2>1. \A n \in 0 .. Len(s) : n = 0 \/ n \in 1 .. Len(s)
    BY <1>2
  <2>2. \A n \in 0 .. Len(s) : k[n] = step(k)[n]
    BY <1>11, <1>4, <2>1
  <2>3. QED
    BY <1>11, <2>2
<1>6. kept = step(kept)
  <2> HIDE DEF step
  <2>1. QED
    BY <1>5
<1>10. /\ kept = [n \in 0 .. Len(s) |-> kept[n]] /\ kept[0] = <<>>
       /\ \A i \in 1 .. Len(s) :
            kept[i] = IF s[i] \in set THEN Append(kept[i - 1], s[i]) ELSE kept[i - 1]
  <2> HIDE DEF kept
  <2>1. \A n \in 0 .. Len(s) :
          kept[n] = IF n = 0 THEN <<>>
                    ELSE IF s[n] \in set THEN Append(kept[n - 1], s[n]) ELSE kept[n - 1]
    BY <1>6
  <2>2. \A i \in 1 .. Len(s) : i \in 0 .. Len(s) /\ i # 0
    BY <1>2
  <2>3. kept[0] = <<>>
    BY <1>2, <2>1
  <2>4. \A i \in 1 .. Len(s) :
            kept[i] = IF s[i] \in set THEN Append(kept[i - 1], s[i]) ELSE kept[i - 1]
    BY <2>1, <2>2
  <2>5. kept = [n \in 0 .. Len(s) |-> kept[n]]
    BY <1>6
  <2>6. QED
    BY <2>3, <2>4, <2>5
<1>7. kept \in [0 .. Len(s) -> Seq(X)]
  <2> DEFINE P == {n \in Nat : n <= Len(s) => kept[n] = k[n]}
  <2> HIDE DEF kept
  <2>1. 0 \in P
    BY <1>2, <1>10, <1>11
  <2>2. ASSUME NEW n \in Nat, n \in P PROVE n + 1 \in P
    <3> SUFFICES ASSUME n + 1 <= Len(s) PROVE kept[n + 1] = k[n + 1]
      OBVIOUS
    <3>1. n + 1 \in 1 .. Len(s) /\ (n + 1) - 1 = n
      BY <1>2
    <3>2. kept[n] = k[n]
      BY <1>2, <2>2
    <3>3. QED
      BY <1>4, <1>10, <3>1, <3>2
  <2>3. Nat \subseteq P
    <3> HIDE DEF P
    <3>1. QED
      BY <2>1, <2>2, Induction
  <2>4. \A n \in 0 .. Len(s) : kept[n] \in Seq(X)
    BY <1>11, <2>3
  <2>5. QED
    BY <1>10, <2>4
<1>8. Filtered(s, set) = kept[Len(s)]
  BY DEF Filtered
<1>9. QED
  <2> HIDE DEF kept
  <2>1. QED
    BY <1>7, <1>8, <1>10

\* The elements of a list with one more.
LEMMA AppendRange ==
  ASSUME NEW X, NEW t \in Seq(X), NEW e \in X
  PROVE  Range(Append(t, e)) = Range(t) \cup {e}
<1>1. /\ DOMAIN t = 1 .. Len(t) /\ DOMAIN Append(t, e) = 1 .. Len(t) + 1 /\ Len(t) \in Nat
      /\ \A i \in 1 .. Len(t) : Append(t, e)[i] = t[i]
      /\ Append(t, e)[Len(t) + 1] = e
  OBVIOUS
<1>2. 1 .. Len(t) + 1 = (1 .. Len(t)) \cup {Len(t) + 1}
  BY <1>1
<1>3. QED
  BY <1>1, <1>2 DEF Range

\* Filtered keeps the elements of s in the set, and only those.
LEMMA FilteredRange ==
  ASSUME NEW X, NEW s \in Seq(X), NEW set
  PROVE  Filtered(s, set) \in Seq(X) /\ Range(Filtered(s, set)) = Range(s) \cap set
<1>1. PICK k \in [0 .. Len(s) -> Seq(X)] :
        /\ k[0] = <<>> /\ Filtered(s, set) = k[Len(s)]
        /\ \A i \in 1 .. Len(s) :
             k[i] = IF s[i] \in set THEN Append(k[i - 1], s[i]) ELSE k[i - 1]
  BY FilteredSteps
<1>2. Len(s) \in Nat /\ DOMAIN s = 1 .. Len(s) /\ \A i \in 1 .. Len(s) : s[i] \in X
  OBVIOUS
<1> DEFINE P == {n \in Nat : n <= Len(s) => Range(k[n]) = {s[i] : i \in 1 .. n} \cap set}
<1>3. 0 \in P
  BY <1>1 DEF Range
<1>4. ASSUME NEW n \in Nat, n \in P PROVE n + 1 \in P
  <2> SUFFICES ASSUME n + 1 <= Len(s)
               PROVE  Range(k[n + 1]) = {s[i] : i \in 1 .. n + 1} \cap set
    OBVIOUS
  <2>1. n + 1 \in 1 .. Len(s) /\ (n + 1) - 1 = n /\ n \in 0 .. Len(s)
    BY <1>2
  <2>2. k[n] \in Seq(X) /\ s[n + 1] \in X
    BY <1>2, <2>1
  <2>3. k[n + 1] = IF s[n + 1] \in set THEN Append(k[n], s[n + 1]) ELSE k[n]
    BY <1>1, <2>1
  <2>4. {s[i] : i \in 1 .. n + 1} = {s[i] : i \in 1 .. n} \cup {s[n + 1]}
    <3>1. 1 .. n + 1 = (1 .. n) \cup {n + 1}
      OBVIOUS
    <3>2. QED
      BY <3>1
  <2>5. Range(k[n]) = {s[i] : i \in 1 .. n} \cap set
    BY <1>4, <2>1
  <2>6. Range(Append(k[n], s[n + 1])) = Range(k[n]) \cup {s[n + 1]}
    BY <2>2, AppendRange
  <2>7. QED
    BY <2>3, <2>4, <2>5, <2>6
<1>5. Len(s) \in P
  <2> HIDE DEF P
  <2>1. QED
    BY <1>2, <1>3, <1>4, Induction
<1>6. Range(s) = {s[i] : i \in 1 .. Len(s)}
  BY <1>2 DEF Range
<1>7. QED
  BY <1>1, <1>2, <1>5, <1>6
-----------------------------------------------------------------------------
(* Descending.                                                             *)

\* InsertAt keeps what was there and has the new element.
LEMMA InsertAtRange ==
  ASSUME NEW X, NEW t \in Seq(X), NEW e \in X, NEW p \in 1 .. Len(t) + 1
  PROVE  /\ InsertAt(t, p, e) \in Seq(X) /\ Len(InsertAt(t, p, e)) = Len(t) + 1
         /\ \A i \in 1 .. Len(t) + 1 :
              InsertAt(t, p, e)[i] = IF i < p THEN t[i] ELSE IF i = p THEN e ELSE t[i - 1]
         /\ Range(InsertAt(t, p, e)) = Range(t) \cup {e}
<1> DEFINE a == SubSeq(t, 1, p - 1)
           b == SubSeq(t, p, Len(t))
<1>1. Len(t) \in Nat /\ p \in Nat /\ p >= 1 /\ p <= Len(t) + 1
  OBVIOUS
<1>2. a \in Seq(X) /\ Len(a) = p - 1 /\ \A i \in 1 .. p - 1 : a[i] = t[i]
  BY <1>1, SubSeqProperties
<1>3. b \in Seq(X) /\ Len(b) = Len(t) - p + 1 /\ \A i \in 1 .. Len(t) - p + 1 : b[i] = t[p + i - 1]
  BY <1>1, SubSeqProperties
<1> HIDE DEF a, b
<1>4. <<e>> \in Seq(X) /\ Len(<<e>>) = 1 /\ <<e>>[1] = e
  OBVIOUS
<1> DEFINE c == a \o <<e>>
           r == c \o b
<1>7. InsertAt(t, p, e) = r
  BY DEF InsertAt, a, b
<1>5. c \in Seq(X) /\ Len(c) = p /\ \A i \in 1 .. p : c[i] = IF i < p THEN t[i] ELSE e
  <2>1. c \in Seq(X) /\ Len(c) = p
    BY <1>1, <1>2, <1>4, ConcatProperties
  <2>2. \A i \in 1 .. p : c[i] = IF i <= Len(a) THEN a[i] ELSE <<e>>[i - Len(a)]
    BY <1>1, <1>2, <1>4, ConcatProperties
  <2>3. QED
    BY <1>1, <1>2, <1>4, <2>1, <2>2
<1> HIDE DEF c
<1>6. /\ r \in Seq(X) /\ Len(r) = Len(t) + 1
      /\ \A i \in 1 .. Len(t) + 1 : r[i] = IF i <= p THEN c[i] ELSE b[i - p]
  <2>1. r \in Seq(X) /\ Len(r) = Len(c) + Len(b)
    BY <1>3, <1>5, ConcatProperties
  <2>2. \A i \in 1 .. Len(c) + Len(b) : r[i] = IF i <= Len(c) THEN c[i] ELSE b[i - Len(c)]
    BY <1>3, <1>5, ConcatProperties
  <2>3. QED
    BY <1>1, <1>3, <1>5, <2>1, <2>2
<1> HIDE DEF r
<1>8. ASSUME NEW i \in 1 .. Len(t) + 1
      PROVE  r[i] = IF i < p THEN t[i] ELSE IF i = p THEN e ELSE t[i - 1]
  <2>1. CASE i <= p
    BY <1>1, <1>5, <1>6, <2>1
  <2>2. CASE i > p
    <3>1. i - p \in 1 .. Len(t) - p + 1 /\ p + (i - p) - 1 = i - 1
      BY <1>1, <2>2
    <3>2. r[i] = b[i - p]
      BY <1>1, <1>6, <2>2
    <3>3. b[i - p] = t[p + (i - p) - 1]
      BY <1>3, <3>1
    <3>4. QED
      BY <1>1, <2>2, <3>1, <3>2, <3>3
  <2>3. QED
    BY <1>1, <2>1, <2>2
<1>9. Range(r) = Range(t) \cup {e}
  <2>1. DOMAIN r = 1 .. Len(t) + 1 /\ DOMAIN t = 1 .. Len(t)
    BY <1>6
  <2>2. ASSUME NEW i \in 1 .. Len(t) PROVE \E j \in 1 .. Len(t) + 1 : r[j] = t[i]
    <3>1. CASE i < p
      BY <1>1, <1>8, <3>1
    <3>2. CASE ~(i < p)
      <4>1. i + 1 \in 1 .. Len(t) + 1 /\ ~(i + 1 < p) /\ i + 1 # p /\ (i + 1) - 1 = i
        BY <1>1, <3>2
      <4>2. QED
        BY <1>8, <4>1
    <3>3. QED
      BY <3>1, <3>2
  <2>3. r[p] = e /\ p \in 1 .. Len(t) + 1
    BY <1>1, <1>8
  <2>4. ASSUME NEW i \in 1 .. Len(t) + 1 PROVE r[i] \in Range(t) \cup {e}
    <3>1. i < p => i \in 1 .. Len(t)
      BY <1>1
    <3>2. i > p => i - 1 \in 1 .. Len(t)
      BY <1>1
    <3>3. r[i] = e \/ (i \in 1 .. Len(t) /\ r[i] = t[i])
                   \/ (i - 1 \in 1 .. Len(t) /\ r[i] = t[i - 1])
      BY <1>1, <1>8, <3>1, <3>2
    <3>4. QED
      BY <2>1, <3>3 DEF Range
  <2>5. QED
    BY <2>1, <2>2, <2>3, <2>4 DEF Range
<1>10. QED
  BY <1>6, <1>7, <1>8, <1>9

Place(t, v) == 1 + Cardinality({i \in DOMAIN t : t[i] >= v})

\* A number is put before an element or behind the last.
LEMMA PlaceInRange ==
  ASSUME NEW X, NEW t \in Seq(X), NEW v PROVE Place(t, v) \in 1 .. Len(t) + 1
<1> DEFINE larger == {i \in DOMAIN t : t[i] >= v}
<1>1. Len(t) \in Nat /\ DOMAIN t = 1 .. Len(t)
  OBVIOUS
<1>2. IsFiniteSet(1 .. Len(t)) /\ Cardinality(1 .. Len(t)) = Len(t)
  BY <1>1, FS_Interval, SMTT(20)
<1>3. larger \subseteq 1 .. Len(t)
  BY <1>1
<1> HIDE DEF larger
<1>4. IsFiniteSet(larger) /\ Cardinality(larger) <= Cardinality(1 .. Len(t))
  BY <1>2, <1>3, FS_Subset
<1>5. Cardinality(larger) \in Nat
  BY <1>4, FS_CardinalityType
<1>6. Place(t, v) = 1 + Cardinality(larger)
  BY DEF Place, larger
<1>7. QED
  BY <1>1, <1>2, <1>4, <1>5, <1>6

\* The steps Descending takes.
LEMMA DescendingSteps ==
  ASSUME NEW X, NEW s \in Seq(X)
  PROVE  \E k \in [0 .. Len(s) -> Seq(X)] :
           /\ k[0] = <<>> /\ Descending(s) = k[Len(s)]
           /\ \A i \in 1 .. Len(s) : k[i] = InsertAt(k[i - 1], Place(k[i - 1], s[i]), s[i])
<1> DEFINE put(t, v) == InsertAt(t, 1 + Cardinality({i \in DOMAIN t : t[i] >= v}), v)
           F == [i \in 1 .. Len(s) |-> [t \in Seq(X) |-> put(t, s[i])]]
           step(k) == [n \in 0 .. Len(s) |-> IF n = 0 THEN <<>> ELSE put(k[n - 1], s[n])]
           sorted == CHOOSE k : k = step(k)
<1>1. Len(s) \in Nat /\ <<>> \in Seq(X)
  OBVIOUS
<1>2. Descending(s) = sorted[Len(s)]
  BY DEF Descending
<1>3. \A t, v : put(t, v) = InsertAt(t, Place(t, v), v)
  BY DEF Place
<1> HIDE DEF put
<1>4. ASSUME NEW t \in Seq(X), NEW i \in 1 .. Len(s) PROVE put(t, s[i]) \in Seq(X)
  BY <1>3, PlaceInRange, InsertAtRange
<1>5. F \in [1 .. Len(s) -> [Seq(X) -> Seq(X)]]
  BY <1>4
<1> HIDE DEF F
<1>6. PICK k : Iterates(k, Seq(X), Len(s), <<>>, F)
  BY <1>1, <1>5, Recursion
<1>7. k \in [0 .. Len(s) -> Seq(X)] /\ k[0] = <<>>
  BY <1>6 DEF Iterates
<1>8. ASSUME NEW i \in 1 .. Len(s) PROVE k[i] = put(k[i - 1], s[i])
  <2>1. k[i - 1] \in Seq(X)
    BY <1>1, <1>7, SMTT(20)
  <2>2. k[i] = F[i][k[i - 1]]
    BY <1>6 DEF Iterates
  <2>3. QED
    BY <2>1, <2>2 DEF F
<1>9. k = step(k)
  <2>1. \A n \in 0 .. Len(s) : n = 0 \/ n \in 1 .. Len(s)
    BY <1>1
  <2>2. \A n \in 0 .. Len(s) : k[n] = step(k)[n]
    BY <1>7, <1>8, <2>1
  <2>3. QED
    BY <1>7, <2>2
<1>10. sorted = step(sorted)
  <2> HIDE DEF step
  <2>1. QED
    BY <1>9
<1> HIDE DEF sorted
<1>11. /\ sorted = [n \in 0 .. Len(s) |-> sorted[n]] /\ sorted[0] = <<>>
       /\ \A i \in 1 .. Len(s) : sorted[i] = put(sorted[i - 1], s[i])
  <2>1. \A n \in 0 .. Len(s) : sorted[n] = IF n = 0 THEN <<>> ELSE put(sorted[n - 1], s[n])
    BY <1>10
  <2>2. \A i \in 1 .. Len(s) : i \in 0 .. Len(s) /\ i # 0
    BY <1>1
  <2>3. sorted = [n \in 0 .. Len(s) |-> sorted[n]]
    BY <1>10
  <2>4. sorted[0] = <<>>
    BY <1>1, <2>1
  <2>5. \A i \in 1 .. Len(s) : sorted[i] = put(sorted[i - 1], s[i])
    BY <2>1, <2>2
  <2>6. QED
    BY <2>3, <2>4, <2>5
<1> DEFINE P == {n \in Nat : n <= Len(s) => sorted[n] = k[n]}
<1>12. 0 \in P
  BY <1>7, <1>11
<1>13. ASSUME NEW n \in Nat, n \in P PROVE n + 1 \in P
  <2> SUFFICES ASSUME n + 1 <= Len(s) PROVE sorted[n + 1] = k[n + 1]
    OBVIOUS
  <2>1. n + 1 \in 1 .. Len(s) /\ (n + 1) - 1 = n
    BY <1>1
  <2>2. sorted[n] = k[n]
    BY <1>1, <1>13
  <2>3. QED
    BY <1>8, <1>11, <2>1, <2>2
<1>14. Nat \subseteq P
  <2> HIDE DEF P
  <2>1. QED
    BY <1>12, <1>13, Induction
<1>15. \A n \in 0 .. Len(s) : sorted[n] \in Seq(X)
  BY <1>7, <1>14
<1>16. sorted \in [0 .. Len(s) -> Seq(X)]
  BY <1>11, <1>15
<1>17. \A i \in 1 .. Len(s) : sorted[i] = InsertAt(sorted[i - 1], Place(sorted[i - 1], s[i]), s[i])
  BY <1>3, <1>11
<1>18. QED
  BY <1>2, <1>11, <1>16, <1>17

\* Descending keeps every element, and adds none.
LEMMA DescendingRange ==
  ASSUME NEW X, NEW s \in Seq(X)
  PROVE  /\ Descending(s) \in Seq(X) /\ Len(Descending(s)) = Len(s)
         /\ Range(Descending(s)) = Range(s)
<1>1. PICK k \in [0 .. Len(s) -> Seq(X)] :
        /\ k[0] = <<>> /\ Descending(s) = k[Len(s)]
        /\ \A i \in 1 .. Len(s) : k[i] = InsertAt(k[i - 1], Place(k[i - 1], s[i]), s[i])
  BY DescendingSteps
<1>2. Len(s) \in Nat /\ DOMAIN s = 1 .. Len(s) /\ \A i \in 1 .. Len(s) : s[i] \in X
  OBVIOUS
<1> DEFINE P == {n \in Nat : n <= Len(s) => Len(k[n]) = n /\ Range(k[n]) = {s[i] : i \in 1 .. n}}
<1>3. 0 \in P
  BY <1>1 DEF Range
<1>4. ASSUME NEW n \in Nat, n \in P PROVE n + 1 \in P
  <2> SUFFICES ASSUME n + 1 <= Len(s)
               PROVE  Len(k[n + 1]) = n + 1 /\ Range(k[n + 1]) = {s[i] : i \in 1 .. n + 1}
    OBVIOUS
  <2>1. n + 1 \in 1 .. Len(s) /\ (n + 1) - 1 = n /\ n \in 0 .. Len(s)
    BY <1>2
  <2>2. k[n] \in Seq(X) /\ s[n + 1] \in X
    BY <1>2, <2>1
  <2>3. k[n + 1] = InsertAt(k[n], Place(k[n], s[n + 1]), s[n + 1])
    BY <1>1, <2>1
  <2>4. {s[i] : i \in 1 .. n + 1} = {s[i] : i \in 1 .. n} \cup {s[n + 1]}
    <3>1. 1 .. n + 1 = (1 .. n) \cup {n + 1}
      OBVIOUS
    <3>2. QED
      BY <3>1
  <2>5. Len(k[n]) = n /\ Range(k[n]) = {s[i] : i \in 1 .. n}
    BY <1>4, <2>1
  <2>6. Place(k[n], s[n + 1]) \in 1 .. Len(k[n]) + 1
    BY <2>2, PlaceInRange
  <2>7. /\ Len(k[n + 1]) = Len(k[n]) + 1
        /\ Range(k[n + 1]) = Range(k[n]) \cup {s[n + 1]}
    <3> DEFINE t == k[n]
               e == s[n + 1]
               p == Place(t, e)
    <3>1. t \in Seq(X) /\ e \in X /\ p \in 1 .. Len(t) + 1
      BY <2>2, <2>6
    <3>2. k[n + 1] = InsertAt(t, p, e)
      BY <2>3
    <3> HIDE DEF t, e, p
    <3>3. Len(InsertAt(t, p, e)) = Len(t) + 1 /\ Range(InsertAt(t, p, e)) = Range(t) \cup {e}
      BY <3>1, InsertAtRange
    <3>4. QED
      BY <3>2, <3>3 DEF t, e
  <2>8. QED
    BY <2>4, <2>5, <2>7
<1>5. Len(s) \in P
  <2> HIDE DEF P
  <2>1. QED
    BY <1>2, <1>3, <1>4, Induction
<1>6. Range(s) = {s[i] : i \in 1 .. Len(s)}
  BY <1>2 DEF Range
<1>7. QED
  BY <1>1, <1>2, <1>5, <1>6

-----------------------------------------------------------------------------
(* Descending sequences.                                                   *)

Descends(s) == \A i, j \in DOMAIN s : i < j => s[i] > s[j]

\* The steps k of a filter.
Filters(k, X, s, set) ==
  /\ k \in [0 .. Len(s) -> Seq(X)] /\ k[0] = <<>> /\ Filtered(s, set) = k[Len(s)]
  /\ \A i \in 1 .. Len(s) : k[i] = IF s[i] \in set THEN Append(k[i - 1], s[i]) ELSE k[i - 1]

\* Filtered(s, set) in the form Recursion gives.
LEMMA FiltersInSteps ==
  ASSUME NEW X, NEW s \in Seq(X), NEW set
  PROVE  \E k : Filters(k, X, s, set)
BY FilteredSteps DEF Filters

\* A filter keeps a descending sequence descending.
LEMMA FilteredDescends ==
  ASSUME NEW X, X \subseteq Nat, NEW s \in Seq(X), Descends(s), NEW set
  PROVE  Descends(Filtered(s, set))
<1>7. PICK k : Filters(k, X, s, set)
  BY FiltersInSteps
<1>1. /\ k \in [0 .. Len(s) -> Seq(X)] /\ k[0] = <<>> /\ Filtered(s, set) = k[Len(s)]
      /\ \A i \in 1 .. Len(s) :
           k[i] = IF s[i] \in set THEN Append(k[i - 1], s[i]) ELSE k[i - 1]
  BY <1>7 DEF Filters
<1>2. Len(s) \in Nat /\ DOMAIN s = 1 .. Len(s) /\ \A i \in 1 .. Len(s) : s[i] \in X
  OBVIOUS
<1> DEFINE P == {n \in Nat : n <= Len(s) => /\ Descends(k[n])
                                            /\ \A i \in DOMAIN k[n] : \E j \in 1 .. n : k[n][i] = s[j]}
<1>3. 0 \in P
  BY <1>1 DEF Descends
<1>4. ASSUME NEW n \in Nat, n \in P PROVE n + 1 \in P
  <2> SUFFICES ASSUME n + 1 <= Len(s)
               PROVE  /\ Descends(k[n + 1])
                      /\ \A i \in DOMAIN k[n + 1] : \E j \in 1 .. n + 1 : k[n + 1][i] = s[j]
    OBVIOUS
  <2> DEFINE t == k[n]
             e == s[n + 1]
             u == Append(t, e)
  <2>1. n + 1 \in 1 .. Len(s) /\ (n + 1) - 1 = n /\ n \in 0 .. Len(s) /\ n <= Len(s)
    BY <1>2
  <2>2. t \in Seq(X) /\ e \in X
    BY <1>1, <1>2, <2>1
  <2>3. k[n + 1] = IF e \in set THEN u ELSE t
    BY <1>1, <2>1
  <2>4. Descends(t) /\ \A i \in DOMAIN t : \E j \in 1 .. n : t[i] = s[j]
    BY <1>4, <2>1
  <2>5. \A i \in DOMAIN t : t[i] > e
    <3>1. \A j \in 1 .. n : s[j] > e
      BY <1>2, <2>1 DEF Descends
    <3>2. QED
      BY <2>4, <3>1
  <2> HIDE DEF t, e
  <2>6. /\ DOMAIN t = 1 .. Len(t) /\ DOMAIN u = 1 .. Len(t) + 1 /\ Len(t) \in Nat
        /\ \A i \in 1 .. Len(t) : u[i] = t[i]
        /\ u[Len(t) + 1] = e
    BY <2>2
  <2> HIDE DEF u
  <2>7. Descends(u)
    <3> SUFFICES ASSUME NEW i \in 1 .. Len(t) + 1, NEW j \in 1 .. Len(t) + 1, i < j PROVE u[i] > u[j]
      BY <2>6 DEF Descends
    <3>1. i \in 1 .. Len(t)
      BY <2>6
    <3>2. CASE j \in 1 .. Len(t)
      BY <2>4, <2>6, <3>1, <3>2 DEF Descends
    <3>3. CASE j = Len(t) + 1
      BY <2>5, <2>6, <3>1, <3>3
    <3>4. QED
      BY <2>6, <3>2, <3>3
  <2>8. \A i \in DOMAIN u : \E j \in 1 .. n + 1 : u[i] = s[j]
    <3>1. \A i \in 1 .. Len(t) : \E j \in 1 .. n + 1 : u[i] = s[j]
      BY <2>4, <2>6
    <3>2. u[Len(t) + 1] = s[n + 1]
      BY <2>6 DEF e
    <3>3. \A i \in DOMAIN u : i \in 1 .. Len(t) \/ i = Len(t) + 1
      BY <2>6
    <3>4. n + 1 \in 1 .. n + 1
      OBVIOUS
    <3>5. QED
      BY <3>1, <3>2, <3>3, <3>4
  <2>9. \A i \in DOMAIN t : \E j \in 1 .. n + 1 : t[i] = s[j]
    BY <2>4
  <2>10. QED
    BY <2>3, <2>4, <2>7, <2>8, <2>9
<1>5. Len(s) \in P
  <2> HIDE DEF P
  <2>1. QED
    BY <1>2, <1>3, <1>4, Induction
<1>6. QED
  BY <1>1, <1>2, <1>5

\* The place of an element is the number of elements that are not smaller.
LEMMA DescendingPlaces ==
  ASSUME NEW s \in Seq(Nat), Descends(s), NEW i \in DOMAIN s
  PROVE  Cardinality({y \in Range(s) : y >= s[i]}) = i
<1> DEFINE S == {y \in Range(s) : y >= s[i]}
           f == [j \in 1 .. i |-> s[j]]
<1>1. Len(s) \in Nat /\ DOMAIN s = 1 .. Len(s) /\ (\A j \in 1 .. Len(s) : s[j] \in Nat)
      /\ i \in Nat /\ i >= 1 /\ i <= Len(s)
  OBVIOUS
<1>2. \A j \in 1 .. i : j \in DOMAIN s /\ s[j] \in S
  BY <1>1 DEF Descends, Range
<1>3. \A j \in DOMAIN s : s[j] >= s[i] => j \in 1 .. i
  <2> SUFFICES ASSUME NEW j \in DOMAIN s, ~(j \in 1 .. i) PROVE ~(s[j] >= s[i])
    OBVIOUS
  <2>1. i < j
    BY <1>1
  <2>2. s[i] > s[j]
    BY <2>1 DEF Descends
  <2>3. QED
    BY <1>1, <2>2
<1>4. f \in Bijection(1 .. i, S)
  <2>1. f \in [1 .. i -> S]
    BY <1>2
  <2>2. \A x, y \in 1 .. i : f[x] = f[y] => x = y
    <3> SUFFICES ASSUME NEW x \in 1 .. i, NEW y \in 1 .. i, x # y PROVE f[x] # f[y]
      OBVIOUS
    <3>1. x \in DOMAIN s /\ y \in DOMAIN s /\ (x < y \/ y < x)
      BY <1>1, <1>2
    <3>2. s[x] > s[y] \/ s[y] > s[x]
      BY <3>1 DEF Descends
    <3>3. s[x] # s[y]
      BY <1>1, <3>1, <3>2
    <3>4. QED
      BY <3>3
  <2>3. \A y \in S : \E j \in 1 .. i : f[j] = y
    BY <1>3 DEF Range
  <2>4. QED
    BY <2>1, <2>2, <2>3 DEF Bijection, Injection, IsInjective, Surjection
<1> HIDE DEF f, S
<1>5. IsFiniteSet(1 .. i) /\ Cardinality(1 .. i) = i
  <2>1. 1 \in Int /\ i \in Int
    BY <1>1
  <2>2. IsFiniteSet(1 .. i) /\ Cardinality(1 .. i) = IF 1 > i THEN 0 ELSE i - 1 + 1
    BY <2>1, FS_Interval
  <2>3. QED
    BY <1>1, <2>2
<1>6. Cardinality(S) = i
  BY <1>4, <1>5, FS_Bijection DEF ExistsBijection
<1>7. QED
  BY <1>6 DEF S

\* A descending sequence is given by its elements.
LEMMA SameDescending ==
  ASSUME NEW a \in Seq(Nat), NEW b \in Seq(Nat), Descends(a), Descends(b), Range(a) = Range(b)
  PROVE  a = b
<1>1. \A s \in Seq(Nat) : Len(s) \in Nat /\ DOMAIN s = 1 .. Len(s) /\ \A i \in 1 .. Len(s) : s[i] \in Nat
  OBVIOUS
<1>2. ASSUME NEW s \in Seq(Nat), NEW t \in Seq(Nat), Descends(s), Descends(t), Range(s) = Range(t),
             NEW i \in DOMAIN s
      PROVE  i \in DOMAIN t /\ s[i] = t[i]
  <2>1. PICK j \in DOMAIN t : t[j] = s[i]
    BY <1>2 DEF Range
  <2>2. Cardinality({y \in Range(s) : y >= s[i]}) = i
    BY <1>2, DescendingPlaces
  <2>3. Cardinality({y \in Range(t) : y >= t[j]}) = j
    BY <1>2, DescendingPlaces
  <2>4. QED
    BY <1>2, <2>1, <2>2, <2>3
<1>3. \A i \in DOMAIN a : i \in DOMAIN b /\ a[i] = b[i]
  BY <1>2
<1>4. \A i \in DOMAIN b : i \in DOMAIN a
  BY <1>2
<1>5. Len(a) = Len(b)
  BY <1>1, <1>3, <1>4
<1>6. QED
  BY <1>1, <1>3, <1>5, SeqEqual

\* Filtered does not get longer.
LEMMA FilteredLen ==
  ASSUME NEW X, NEW s \in Seq(X), NEW set
  PROVE  Len(Filtered(s, set)) <= Len(s)
<1>7. PICK k : Filters(k, X, s, set)
  BY FiltersInSteps
<1>1. /\ k \in [0 .. Len(s) -> Seq(X)] /\ k[0] = <<>> /\ Filtered(s, set) = k[Len(s)]
      /\ \A i \in 1 .. Len(s) :
           k[i] = IF s[i] \in set THEN Append(k[i - 1], s[i]) ELSE k[i - 1]
  BY <1>7 DEF Filters
<1>2. Len(s) \in Nat /\ \A i \in 1 .. Len(s) : s[i] \in X
  OBVIOUS
<1> DEFINE P == {n \in Nat : n <= Len(s) => Len(k[n]) <= n}
<1>3. 0 \in P
  BY <1>1
<1>4. ASSUME NEW n \in Nat, n \in P PROVE n + 1 \in P
  <2> SUFFICES ASSUME n + 1 <= Len(s) PROVE Len(k[n + 1]) <= n + 1
    OBVIOUS
  <2>1. n + 1 \in 1 .. Len(s) /\ (n + 1) - 1 = n /\ n \in 0 .. Len(s)
    BY <1>2
  <2>2. k[n] \in Seq(X) /\ s[n + 1] \in X /\ Len(k[n]) <= n
    BY <1>1, <1>2, <1>4, <2>1, SMTT(20)
  <2>3. k[n + 1] = IF s[n + 1] \in set THEN Append(k[n], s[n + 1]) ELSE k[n]
    BY <1>1, <2>1
  <2>4. QED
    BY <2>2, <2>3
<1>5. Len(s) \in P
  <2> HIDE DEF P
  <2>1. QED
    BY <1>2, <1>3, <1>4, Induction
<1>6. QED
  BY <1>1, <1>2, <1>5

\* A filter of elements that are all different leaves them different.
LEMMA FilteredApart ==
  ASSUME NEW X, NEW s \in Seq(X), IsInjective(s), NEW set
  PROVE  IsInjective(Filtered(s, set))
<1>7. PICK k : Filters(k, X, s, set)
  BY FiltersInSteps
<1>1. /\ k \in [0 .. Len(s) -> Seq(X)] /\ k[0] = <<>> /\ Filtered(s, set) = k[Len(s)]
      /\ \A i \in 1 .. Len(s) :
           k[i] = IF s[i] \in set THEN Append(k[i - 1], s[i]) ELSE k[i - 1]
  BY <1>7 DEF Filters
<1>2. Len(s) \in Nat /\ DOMAIN s = 1 .. Len(s) /\ \A i \in 1 .. Len(s) : s[i] \in X
  OBVIOUS
<1> DEFINE P == {n \in Nat : n <= Len(s) => /\ IsInjective(k[n])
                                            /\ \A i \in DOMAIN k[n] : \E j \in 1 .. n : k[n][i] = s[j]}
<1>3. 0 \in P
  BY <1>1 DEF IsInjective
<1>4. ASSUME NEW n \in Nat, n \in P PROVE n + 1 \in P
  <2> SUFFICES ASSUME n + 1 <= Len(s)
               PROVE  /\ IsInjective(k[n + 1])
                      /\ \A i \in DOMAIN k[n + 1] : \E j \in 1 .. n + 1 : k[n + 1][i] = s[j]
    OBVIOUS
  <2> DEFINE t == k[n]
             e == s[n + 1]
             u == Append(t, e)
  <2>1. n + 1 \in 1 .. Len(s) /\ (n + 1) - 1 = n /\ n \in 0 .. Len(s) /\ n <= Len(s)
    BY <1>2
  <2>2. t \in Seq(X) /\ e \in X
    BY <1>1, <1>2, <2>1
  <2>3. k[n + 1] = IF e \in set THEN u ELSE t
    BY <1>1, <2>1
  <2>4. IsInjective(t) /\ \A i \in DOMAIN t : \E j \in 1 .. n : t[i] = s[j]
    BY <1>4, <2>1
  <2>5. \A i \in DOMAIN t : t[i] # e
    <3>1. \A j \in 1 .. n : s[j] # e
      BY <1>2, <2>1 DEF IsInjective
    <3>2. QED
      BY <2>4, <3>1
  <2> HIDE DEF t, e
  <2>6. /\ DOMAIN t = 1 .. Len(t) /\ DOMAIN u = 1 .. Len(t) + 1 /\ Len(t) \in Nat
        /\ \A i \in 1 .. Len(t) : u[i] = t[i]
        /\ u[Len(t) + 1] = e
    BY <2>2
  <2> HIDE DEF u
  <2>7. IsInjective(u)
    <3> SUFFICES ASSUME NEW i \in 1 .. Len(t) + 1, NEW j \in 1 .. Len(t) + 1, i < j PROVE u[i] # u[j]
      BY <2>6 DEF IsInjective
    <3>1. i \in 1 .. Len(t)
      BY <2>6
    <3>2. CASE j \in 1 .. Len(t)
      BY <2>4, <2>6, <3>1, <3>2 DEF IsInjective
    <3>3. CASE j = Len(t) + 1
      BY <2>5, <2>6, <3>1, <3>3
    <3>4. QED
      BY <2>6, <3>2, <3>3
  <2>8. \A i \in DOMAIN u : \E j \in 1 .. n + 1 : u[i] = s[j]
    <3>1. \A i \in 1 .. Len(t) : \E j \in 1 .. n + 1 : u[i] = s[j]
      BY <2>4, <2>6
    <3>2. u[Len(t) + 1] = s[n + 1]
      BY <2>6 DEF e
    <3>3. \A i \in DOMAIN u : i \in 1 .. Len(t) \/ i = Len(t) + 1
      BY <2>6
    <3>4. n + 1 \in 1 .. n + 1
      OBVIOUS
    <3>5. QED
      BY <3>1, <3>2, <3>3, <3>4
  <2>9. \A i \in DOMAIN t : \E j \in 1 .. n + 1 : t[i] = s[j]
    BY <2>4
  <2>10. QED
    BY <2>3, <2>4, <2>7, <2>8, <2>9
<1>5. Len(s) \in P
  <2> HIDE DEF P
  <2>1. QED
    BY <1>2, <1>3, <1>4, Induction
<1>6. QED
  BY <1>1, <1>2, <1>5

\* A sequence of different elements is as long as it has elements.
LEMMA ApartLen ==
  ASSUME NEW X, NEW s \in Seq(X), IsInjective(s)
  PROVE  IsFiniteSet(Range(s)) /\ Cardinality(Range(s)) = Len(s)
<1>1. Len(s) \in Nat /\ DOMAIN s = 1 .. Len(s)
  OBVIOUS
<1>2. IsFiniteSet(1 .. Len(s)) /\ Cardinality(1 .. Len(s)) = Len(s)
  BY <1>1, FS_Interval, SMTT(20)
<1>3. s \in Bijection(1 .. Len(s), Range(s))
  <2>1. s \in [1 .. Len(s) -> Range(s)]
    BY <1>1 DEF Range
  <2>2. \A y \in Range(s) : \E i \in 1 .. Len(s) : s[i] = y
    BY <1>1 DEF Range
  <2>3. QED
    BY <1>1, <2>1, <2>2 DEF Bijection, Injection, IsInjective, Surjection
<1>4. QED
  BY <1>2, <1>3, FS_Bijection DEF ExistsBijection

\* A new element put among different ones leaves all different.
LEMMA InsertAtApart ==
  ASSUME NEW X, NEW t \in Seq(X), IsInjective(t), NEW e \in X \ Range(t), NEW p \in 1 .. Len(t) + 1
  PROVE  IsInjective(InsertAt(t, p, e))
<1> DEFINE r == InsertAt(t, p, e)
<1>1. /\ r \in Seq(X) /\ Len(r) = Len(t) + 1
      /\ \A i \in 1 .. Len(t) + 1 : r[i] = IF i < p THEN t[i] ELSE IF i = p THEN e ELSE t[i - 1]
  BY InsertAtRange
<1> HIDE DEF r
<1>2. /\ DOMAIN r = 1 .. Len(t) + 1 /\ DOMAIN t = 1 .. Len(t) /\ Len(t) \in Nat /\ p \in Nat
      /\ p >= 1 /\ p <= Len(t) + 1
  BY <1>1
<1>3. \A i \in 1 .. Len(t) : t[i] # e
  BY <1>2 DEF Range
<1> SUFFICES ASSUME NEW i \in 1 .. Len(t) + 1, NEW j \in 1 .. Len(t) + 1, i < j PROVE r[i] # r[j]
  <2>1. \A i, j \in 1 .. Len(t) + 1 : i = j \/ i < j \/ j < i
    BY <1>2
  <2>2. QED
    BY <1>2, <2>1 DEF IsInjective, r
<1>4. CASE j < p
  BY <1>1, <1>2, <1>4 DEF IsInjective
<1>5. CASE j = p
  <2>1. i \in 1 .. Len(t) /\ i < p
    BY <1>2, <1>5
  <2>2. QED
    BY <1>1, <1>2, <1>3, <1>5, <2>1
<1>6. CASE j > p
  <2>1. j - 1 \in 1 .. Len(t) /\ r[j] = t[j - 1]
    BY <1>1, <1>2, <1>6
  <2>2. CASE i < p
    <3>1. i \in 1 .. Len(t) /\ i # j - 1 /\ r[i] = t[i]
      BY <1>1, <1>2, <1>6, <2>2
    <3>2. QED
      BY <1>2, <2>1, <3>1 DEF IsInjective
  <2>3. CASE i = p
    BY <1>1, <1>2, <1>3, <2>1, <2>3
  <2>4. CASE i > p
    <3>1. i - 1 \in 1 .. Len(t) /\ i - 1 # j - 1 /\ r[i] = t[i - 1]
      BY <1>1, <1>2, <1>6, <2>4
    <3>2. QED
      BY <1>2, <2>1, <3>1 DEF IsInjective
  <2>5. QED
    BY <1>2, <2>2, <2>3, <2>4
<1>7. QED
  BY <1>2, <1>4, <1>5, <1>6

\* A set of numbers up to a bound has a largest.
LEMMA LargestOf ==
  ASSUME NEW n \in Nat, NEW S, S \subseteq 1 .. n, S # {}
  PROVE  \E m \in S : \A x \in S : x <= m
<1> DEFINE T == {n - x : x \in S}
<1>1. T \subseteq Nat /\ T # {}
  <2>1. \A x \in S : n - x \in Nat
    OBVIOUS
  <2>2. PICK x \in S : TRUE
    OBVIOUS
  <2>3. n - x \in T
    OBVIOUS
  <2>4. T \subseteq Nat
    BY <2>1
  <2>5. QED
    BY <2>3, <2>4
<1>2. PICK x \in T : \A y \in T : ~(<<y, x>> \in OpToRel(<, Nat))
  BY <1>1, NatLessThanWellFounded, WFMin
<1>3. \A y \in T : ~(y < x)
  BY <1>1, <1>2 DEF OpToRel
<1>4. PICK m \in S : x = n - m
  OBVIOUS
<1>5. \A y \in S : ~(n - y < n - m)
  BY <1>3, <1>4
<1>6. QED
  BY <1>5
=============================================================================
