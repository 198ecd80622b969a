--------------------------- MODULE ProcessesProofs ---------------------------
(***************************************************************************)
(* Proofs about Processes for every number of processes, every assignment  *)
(* of priorities and periods and every time-out.                           *)
(***************************************************************************)
EXTENDS TimedWaits, FiniteSetTheorems, SequenceTheorems, WellFoundedInduction,
        TLAPS

(***************************************************************************)
(* Sequences                                                               *)
(***************************************************************************)

(* A non-empty set of naturals has a least element, and Min is it.         *)
LEMMA MinProperties ==
  ASSUME NEW T, T \subseteq Nat, T # {}
  PROVE  Min(T) \in T /\ \A y \in T : Min(T) <= y
  <1> DEFINE R == OpToRel(<, Nat)
  <1>1. \E x \in T : \A y \in T : ~(<<y, x>> \in R)
    BY NatLessThanWellFounded, WFMin
  <1>2. PICK x \in T : \A y \in T : ~(<<y, x>> \in R)
    BY <1>1
  <1>3. \A y \in T : x <= y
    <2> TAKE y \in T
    <2>1. x \in Nat /\ y \in Nat
      OBVIOUS
    <2>2. y < x => <<y, x>> \in R
      BY <2>1 DEF OpToRel
    <2>3. ~(<<y, x>> \in R)
      BY <1>2
    <2>4. ~(y < x)
      BY <2>2, <2>3
    <2> QED
      BY <2>1, <2>4
  <1> QED
    BY <1>3 DEF Min

(* The place of the first e.                                               *)
LEMMA FirstIndex ==
  ASSUME NEW S, NEW s \in Seq(S), NEW e, \E i \in 1 .. Len(s) : s[i] = e
  PROVE  LET k == SelectInSeq(s, LAMBDA v : v = e)
         IN  k \in 1 .. Len(s) /\ s[k] = e
  <1> DEFINE I == {i \in 1 .. Len(s) : s[i] = e}
  <1>1. Len(s) \in Nat
    BY LenProperties
  <1>2. I \subseteq Nat /\ I # {}
    BY <1>1
  <1>3. Min(I) \in I
    BY <1>2, MinProperties
  <1>4. SelectInSeq(s, LAMBDA v : v = e) = Min(I)
    BY <1>2 DEF SelectInSeq
  <1> QED
    BY <1>3, <1>4

(* list_remove closes the gap left by the first e.                         *)
LEMMA RemoveFirstShape ==
  ASSUME NEW S, NEW s \in Seq(S), NEW e, \E i \in 1 .. Len(s) : s[i] = e
  PROVE  LET r == RemoveFirst(s, e)
         IN  \E k \in 1 .. Len(s) :
               /\ s[k] = e
               /\ r \in Seq(S)
               /\ Len(r) = Len(s) - 1
               /\ \A i \in 1 .. Len(s) - 1 : r[i] = IF i < k THEN s[i] ELSE s[i + 1]
  <1> DEFINE r == RemoveFirst(s, e)
             k == SelectInSeq(s, LAMBDA v : v = e)
             s1 == SubSeq(s, 1, k - 1)
             s2 == SubSeq(s, k + 1, Len(s))
  <1>a. Len(s) \in Nat /\ DOMAIN s = 1 .. Len(s) /\ \A i \in 1 .. Len(s) : s[i] \in S
    BY LenProperties, ElementOfSeq
  <1>1. r = s1 \o s2
    BY DEF RemoveFirst, RemoveAt
  <1>2. k \in 1 .. Len(s) /\ s[k] = e
    BY FirstIndex
  <1> HIDE DEF k
  <1>3. /\ s1 \in Seq(S)
        /\ Len(s1) = k - 1
        /\ \A i \in 1 .. k - 1 : s1[i] = s[i]
    <2>1. \A i \in 1 .. k - 1 : s[i] \in S
      BY <1>a, <1>2
    <2>2. 1 \in Int /\ k - 1 \in Int /\ k \in Nat
      BY <1>a, <1>2
    <2> QED
      BY <2>1, <2>2, <1>2, <1>a, SubSeqProperties
  <1>4. /\ s2 \in Seq(S)
        /\ Len(s2) = Len(s) - k
        /\ \A i \in 1 .. Len(s) - k : s2[i] = s[k + i]
    <2>1. \A i \in k + 1 .. Len(s) : s[i] \in S
      BY <1>a, <1>2
    <2>2. k + 1 \in Int /\ Len(s) \in Int /\ k \in Nat
      BY <1>a, <1>2
    <2>3. /\ s2 \in Seq(S)
          /\ Len(s2) = IF k + 1 <= Len(s) THEN Len(s) - (k + 1) + 1 ELSE 0
          /\ \A i \in 1 .. Len(s) - (k + 1) + 1 : s2[i] = s[(k + 1) + i - 1]
      BY <2>1, <2>2, SubSeqProperties
    <2> HIDE DEF s2
    <2>4. Len(s2) = Len(s) - k
      <3>1. Len(s2) = IF k + 1 <= Len(s) THEN Len(s) - (k + 1) + 1 ELSE 0
        BY <2>3
      <3>2. Len(s) \in Nat /\ k \in Nat /\ k <= Len(s)
        BY <1>a, <1>2
      <3> QED
        BY <3>1, <3>2
    <2>5. ASSUME NEW i \in 1 .. Len(s) - k PROVE s2[i] = s[k + i]
      <3>1. i \in 1 .. Len(s) - (k + 1) + 1 /\ (k + 1) + i - 1 = k + i
        BY <2>2
      <3> QED
        BY <3>1, <2>3
    <2> QED
      BY <2>3, <2>4, <2>5
  <1> HIDE DEF s1, s2
  <1>5. /\ r \in Seq(S)
        /\ Len(r) = Len(s) - 1
        /\ \A i \in 1 .. Len(s) - 1 : r[i] = IF i < k THEN s[i] ELSE s[i + 1]
    <2>1. /\ s1 \o s2 \in Seq(S)
          /\ Len(s1 \o s2) = Len(s1) + Len(s2)
          /\ \A i \in 1 .. Len(s1) + Len(s2) : (s1 \o s2)[i] =
                      IF i <= Len(s1) THEN s1[i] ELSE s2[i - Len(s1)]
      BY <1>3, <1>4, ConcatProperties
    <2>2. Len(s1) + Len(s2) = Len(s) - 1
      BY <1>2, <1>3, <1>4, <1>a
    <2>3. ASSUME NEW i \in 1 .. Len(s) - 1
          PROVE  r[i] = IF i < k THEN s[i] ELSE s[i + 1]
      <3>1. CASE i < k
        BY <3>1, <2>1, <2>2, <1>1, <1>2, <1>3, <1>a
      <3>2. CASE ~(i < k)
        <4>1. i - Len(s1) \in 1 .. Len(s) - k /\ k + (i - Len(s1)) = i + 1
          BY <3>2, <1>2, <1>3, <1>a
        <4>2. r[i] = s2[i - Len(s1)]
          BY <3>2, <2>1, <2>2, <1>1, <1>2, <1>3, <1>a
        <4>3. s2[i - Len(s1)] = s[k + (i - Len(s1))]
          BY <4>1, <1>4
        <4> QED
          BY <4>1, <4>2, <4>3, <3>2
      <3> QED
        BY <3>1, <3>2
    <2> QED
      BY <2>1, <2>2, <2>3, <1>1
  <1> QED
    BY <1>2, <1>5

(* list_remove takes one entry off the list and keeps the others.          *)
LEMMA RemoveFirstProperties ==
  ASSUME NEW S, NEW s \in Seq(S), NEW e
  PROVE  LET r == RemoveFirst(s, e)
         IN  /\ r \in Seq(S)
             /\ e \in ToSet(s) => Len(r) = Len(s) - 1
             /\ ToSet(r) \subseteq ToSet(s)
             /\ ToSet(s) \subseteq ToSet(r) \cup {e}
  <1> DEFINE r == RemoveFirst(s, e)
  <1>1. Len(s) \in Nat /\ DOMAIN s = 1 .. Len(s) /\ \A i \in 1 .. Len(s) : s[i] \in S
    BY LenProperties, ElementOfSeq
  <1>2. CASE ~\E i \in 1 .. Len(s) : s[i] = e
    <2>1. r = s
      BY <1>2 DEF RemoveFirst
    <2>2. e \notin ToSet(s)
      BY <1>1, <1>2 DEF ToSet
    <2> QED
      BY <2>1, <2>2
  <1>3. CASE \E i \in 1 .. Len(s) : s[i] = e
    <2>1. PICK k \in 1 .. Len(s) :
            /\ s[k] = e
            /\ r \in Seq(S)
            /\ Len(r) = Len(s) - 1
            /\ \A i \in 1 .. Len(s) - 1 : r[i] = IF i < k THEN s[i] ELSE s[i + 1]
      BY <1>3, RemoveFirstShape
    <2> HIDE DEF r
    <2>6. DOMAIN r = 1 .. Len(s) - 1
      BY <2>1, LenProperties
    <2>7. ToSet(r) \subseteq ToSet(s)
      BY <2>1, <2>6, <1>1 DEF ToSet
    <2>8. ASSUME NEW j \in 1 .. Len(s), j # k PROVE s[j] \in ToSet(r)
      <3>1. CASE j < k
        <4>1. j \in 1 .. Len(s) - 1 /\ r[j] = s[j]
          BY <3>1, <2>1, <1>1
        <4> QED
          BY <4>1, <2>6 DEF ToSet
      <3>2. CASE k < j
        <4>1. j - 1 \in 1 .. Len(s) - 1 /\ ~(j - 1 < k) /\ (j - 1) + 1 = j
          BY <3>2, <2>1, <1>1
        <4>2. r[j - 1] = s[j]
          BY <4>1, <2>1
        <4> QED
          BY <4>1, <4>2, <2>6 DEF ToSet
      <3> QED
        BY <3>1, <3>2, <2>1, <2>8
    <2>9. ToSet(s) \subseteq ToSet(r) \cup {e}
      BY <2>1, <2>8, <1>1 DEF ToSet
    <2> QED
      BY <2>1, <2>7, <2>9 DEF r
  <1> QED
    BY <1>2, <1>3

(* Reordering the process list loses and adds nobody.                      *)
LEMMA ToBackProperties ==
  ASSUME NEW S, NEW s \in Seq(S), NEW e \in ToSet(s)
  PROVE  /\ ToBack(s, e) \in Seq(S)
         /\ Len(ToBack(s, e)) = Len(s)
         /\ ToSet(ToBack(s, e)) = ToSet(s)
  <1> DEFINE r == RemoveFirst(s, e)
             t == Append(r, e)
  <1>1. /\ r \in Seq(S)
        /\ Len(r) = Len(s) - 1
        /\ ToSet(r) \subseteq ToSet(s)
        /\ ToSet(s) \subseteq ToSet(r) \cup {e}
    BY RemoveFirstProperties
  <1>2. e \in S /\ Len(s) \in Nat
    BY LenProperties, ElementOfSeq DEF ToSet
  <1> HIDE DEF r
  <1>3. /\ t \in Seq(S)
        /\ Len(t) = Len(r) + 1
        /\ \A i \in 1 .. Len(r) : t[i] = r[i]
        /\ t[Len(r) + 1] = e
    BY <1>1, <1>2, AppendProperties
  <1>4. DOMAIN t = 1 .. Len(r) + 1 /\ DOMAIN r = 1 .. Len(r) /\ Len(r) \in Nat
    BY <1>1, <1>3, LenProperties
  <1>5. ToSet(t) = ToSet(r) \cup {e}
    <2>1. \A i \in 1 .. Len(r) + 1 : i \in 1 .. Len(r) \/ i = Len(r) + 1
      BY <1>4
    <2> HIDE DEF t
    <2> QED
      BY <1>3, <1>4, <2>1 DEF ToSet
  <1>6. ToBack(s, e) = t
    BY DEF ToBack, r
  <1> HIDE DEF t
  <1>7. Len(t) = Len(s)
    BY <1>1, <1>2, <1>3
  <1>8. ToSet(t) = ToSet(s)
    BY <1>1, <1>5
  <1> QED
    BY <1>3, <1>6, <1>7, <1>8

LEMMA ToFrontProperties ==
  ASSUME NEW S, NEW s \in Seq(S), NEW e \in ToSet(s)
  PROVE  /\ ToFront(s, e) \in Seq(S)
         /\ Len(ToFront(s, e)) = Len(s)
         /\ ToSet(ToFront(s, e)) = ToSet(s)
  <1> DEFINE r == RemoveFirst(s, e)
             t == <<e>> \o r
  <1>1. /\ r \in Seq(S)
        /\ Len(r) = Len(s) - 1
        /\ ToSet(r) \subseteq ToSet(s)
        /\ ToSet(s) \subseteq ToSet(r) \cup {e}
    BY RemoveFirstProperties
  <1>2. e \in S /\ Len(s) \in Nat
    BY LenProperties, ElementOfSeq DEF ToSet
  <1> HIDE DEF r
  <1>3. <<e>> \in Seq(S) /\ Len(<<e>>) = 1 /\ <<e>>[1] = e
    BY <1>2
  <1>4. /\ t \in Seq(S)
        /\ Len(t) = Len(<<e>>) + Len(r)
        /\ \A i \in 1 .. Len(<<e>>) + Len(r) :
             t[i] = IF i <= Len(<<e>>) THEN <<e>>[i] ELSE r[i - Len(<<e>>)]
    BY <1>1, <1>3, ConcatProperties
  <1>5. DOMAIN t = 1 .. Len(r) + 1 /\ DOMAIN r = 1 .. Len(r) /\ Len(r) \in Nat
    BY <1>1, <1>3, <1>4, LenProperties
  <1>6. ToFront(s, e) = t
    BY DEF ToFront, r
  <1> HIDE DEF t
  <1>7. t[1] = e /\ \A i \in 1 .. Len(r) : t[i + 1] = r[i] /\ i + 1 \in DOMAIN t
    <2>1. t[1] = e
      BY <1>3, <1>4, <1>5
    <2>2. ASSUME NEW i \in 1 .. Len(r) PROVE t[i + 1] = r[i] /\ i + 1 \in DOMAIN t
      <3>1. i + 1 \in 1 .. Len(<<e>>) + Len(r) /\ ~(i + 1 <= 1) /\ (i + 1) - 1 = i
        BY <1>3, <1>5
      <3> QED
        BY <3>1, <1>3, <1>4, <1>5
    <2> QED
      BY <2>1, <2>2
  <1>8. ASSUME NEW i \in 1 .. Len(r) + 1, i # 1 PROVE i - 1 \in 1 .. Len(r) /\ t[i] = r[i - 1]
    <2>1. i - 1 \in 1 .. Len(r) /\ (i - 1) + 1 = i
      BY <1>5, <1>8
    <2> QED
      BY <2>1, <1>7
  <1>9. 1 \in DOMAIN t
    BY <1>5
  <1>10. ToSet(t) = ToSet(r) \cup {e}
    <2>1. ASSUME NEW i \in DOMAIN t PROVE t[i] \in ToSet(r) \cup {e}
      <3>1. CASE i = 1
        BY <3>1, <1>7
      <3>2. CASE i # 1
        BY <3>2, <1>5, <1>8 DEF ToSet
      <3> QED
        BY <3>1, <3>2
    <2>2. ToSet(r) \subseteq ToSet(t)
      BY <1>5, <1>7 DEF ToSet
    <2>3. e \in ToSet(t)
      BY <1>7, <1>9 DEF ToSet
    <2> QED
      BY <2>1, <2>2, <2>3 DEF ToSet
  <1>11. Len(t) = Len(s) /\ ToSet(t) = ToSet(s)
    <2>1. e \in ToSet(s)
      OBVIOUS
    <2>2. ToSet(t) = ToSet(s)
      BY <1>1, <1>10, <2>1
    <2>3. Len(t) = Len(s)
      BY <1>1, <1>2, <1>3, <1>4
    <2> QED
      BY <2>2, <2>3
  <1> QED
    BY <1>4, <1>6, <1>11

(* No entry of a queue is there twice.                                     *)
Distinct(s) == \A i, j \in 1 .. Len(s) : s[i] = s[j] => i = j

(* r is s with e put in at place k.                                        *)
Inserted(r, s, k, e) ==
  /\ Len(r) = Len(s) + 1
  /\ k \in 1 .. Len(s) + 1
  /\ \A i \in 1 .. Len(s) + 1 :
       r[i] = IF i < k THEN s[i] ELSE IF i = k THEN e ELSE s[i - 1]

LEMMA ToSetOfSeq ==
  ASSUME NEW S, NEW s \in Seq(S)
  PROVE  ToSet(s) = {s[i] : i \in 1 .. Len(s)} /\ ToSet(s) \subseteq S
  BY LenProperties, ElementOfSeq DEF ToSet

LEMMA AppendInserts ==
  ASSUME NEW S, NEW s \in Seq(S), NEW e \in S
  PROVE  /\ Append(s, e) \in Seq(S)
         /\ Inserted(Append(s, e), s, Len(s) + 1, e)
  <1>1. Len(s) \in Nat
    BY LenProperties
  <1>2. /\ Append(s, e) \in Seq(S)
        /\ Len(Append(s, e)) = Len(s) + 1
        /\ \A i \in 1 .. Len(s) : Append(s, e)[i] = s[i]
        /\ Append(s, e)[Len(s) + 1] = e
    BY AppendProperties
  <1>3. ASSUME NEW i \in 1 .. Len(s) + 1
        PROVE  Append(s, e)[i] = IF i < Len(s) + 1 THEN s[i]
                                 ELSE IF i = Len(s) + 1 THEN e ELSE s[i - 1]
    <2>1. CASE i = Len(s) + 1
      BY <1>1, <1>2, <2>1
    <2>2. CASE i \in 1 .. Len(s)
      BY <1>1, <1>2, <2>2
    <2> QED
      BY <1>1, <2>1, <2>2
  <1>4. Len(s) + 1 \in 1 .. Len(s) + 1
    BY <1>1
  <1> QED
    BY <1>2, <1>3, <1>4 DEF Inserted

(* InsertAt, for a place inside the sequence.                              *)
LEMMA InsertAtInserts ==
  ASSUME NEW S, NEW s \in Seq(S), NEW e \in S, NEW k \in 1 .. Len(s)
  PROVE  /\ InsertAt(s, k, e) \in Seq(S)
         /\ Inserted(InsertAt(s, k, e), s, k, e)
  <1> DEFINE a == SubSeq(s, 1, k - 1)
             b == SubSeq(s, k, Len(s))
             c == a \o <<e>>
             r == c \o b
  <1>1. Len(s) \in Nat /\ k \in Nat /\ \A i \in 1 .. Len(s) : s[i] \in S
    BY LenProperties, ElementOfSeq
  <1>2. /\ a \in Seq(S)
        /\ Len(a) = k - 1
        /\ \A i \in 1 .. k - 1 : a[i] = s[i]
    <2>1. \A i \in 1 .. k - 1 : s[i] \in S
      BY <1>1
    <2> QED
      BY <2>1, <1>1, SubSeqProperties
  <1>3. /\ b \in Seq(S)
        /\ Len(b) = Len(s) - k + 1
        /\ \A i \in 1 .. Len(s) - k + 1 : b[i] = s[k + i - 1]
    <2>1. \A i \in k .. Len(s) : s[i] \in S
      BY <1>1
    <2> QED
      BY <2>1, <1>1, SubSeqProperties
  <1>4. <<e>> \in Seq(S) /\ Len(<<e>>) = 1 /\ <<e>>[1] = e
    OBVIOUS
  <1> HIDE DEF a, b
  <1>5. /\ c \in Seq(S)
        /\ Len(c) = k
        /\ \A i \in 1 .. k : c[i] = IF i < k THEN s[i] ELSE e
    <2>1. /\ c \in Seq(S)
          /\ Len(c) = Len(a) + Len(<<e>>)
          /\ \A i \in 1 .. Len(a) + Len(<<e>>) :
               c[i] = IF i <= Len(a) THEN a[i] ELSE <<e>>[i - Len(a)]
      BY <1>2, <1>4, ConcatProperties
    <2>2. Len(a) + Len(<<e>>) = k
      BY <1>1, <1>2, <1>4
    <2> HIDE DEF c
    <2>3. ASSUME NEW i \in 1 .. k PROVE c[i] = IF i < k THEN s[i] ELSE e
      <3>1. CASE i < k
        BY <3>1, <2>1, <2>2, <1>1, <1>2
      <3>2. CASE i = k
        BY <3>2, <2>1, <2>2, <1>1, <1>2, <1>4
      <3> QED
        BY <3>1, <3>2, <1>1
    <2> QED
      BY <2>1, <2>2, <2>3
  <1> HIDE DEF c
  <1>6. /\ r \in Seq(S)
        /\ Len(r) = Len(c) + Len(b)
        /\ \A i \in 1 .. Len(c) + Len(b) :
             r[i] = IF i <= Len(c) THEN c[i] ELSE b[i - Len(c)]
    BY <1>3, <1>5, ConcatProperties
  <1>7. Len(c) + Len(b) = Len(s) + 1
    BY <1>1, <1>3, <1>5
  <1>8. InsertAt(s, k, e) = r
    BY DEF InsertAt, a, b, c
  <1> HIDE DEF r
  <1>9. ASSUME NEW i \in 1 .. Len(s) + 1
        PROVE  r[i] = IF i < k THEN s[i] ELSE IF i = k THEN e ELSE s[i - 1]
    <2>1. CASE i <= k
      BY <2>1, <1>1, <1>5, <1>6, <1>7
    <2>2. CASE i > k
      <3>1. i - k \in 1 .. Len(s) - k + 1 /\ k + (i - k) - 1 = i - 1
        BY <2>2, <1>1
      <3>2. r[i] = b[i - k]
        BY <2>2, <1>1, <1>5, <1>6, <1>7
      <3> QED
        BY <2>2, <3>1, <3>2, <1>1, <1>3
    <2> QED
      BY <2>1, <2>2, <1>1
  <1>10. k \in 1 .. Len(s) + 1
    BY <1>1
  <1> QED
    BY <1>6, <1>7, <1>8, <1>9, <1>10 DEF Inserted

(* What an insertion does to the members of a queue.                       *)
LEMMA InsertedProperties ==
  ASSUME NEW S, NEW s \in Seq(S), NEW r \in Seq(S), NEW e \in S, NEW k,
         Inserted(r, s, k, e)
  PROVE  /\ ToSet(r) = ToSet(s) \cup {e}
         /\ Distinct(s) /\ e \notin ToSet(s) => Distinct(r)
  <1>1. Len(s) \in Nat /\ Len(r) = Len(s) + 1 /\ k \in 1 .. Len(s) + 1
    BY LenProperties DEF Inserted
  <1>2. \A i \in 1 .. Len(s) + 1 :
          r[i] = IF i < k THEN s[i] ELSE IF i = k THEN e ELSE s[i - 1]
    BY DEF Inserted
  <1>3. /\ ToSet(s) = {s[i] : i \in 1 .. Len(s)}
        /\ ToSet(r) = {r[i] : i \in 1 .. Len(s) + 1}
    BY <1>1, ToSetOfSeq
  <1>4. ASSUME NEW i \in 1 .. Len(s) + 1 PROVE r[i] \in ToSet(s) \cup {e}
    <2>1. CASE i < k
      <3>1. i \in 1 .. Len(s)
        BY <2>1, <1>1
      <3> QED
        BY <3>1, <2>1, <1>2, <1>3
    <2>2. CASE i = k
      BY <2>2, <1>1, <1>2
    <2>3. CASE i > k
      <3>1. i - 1 \in 1 .. Len(s) /\ ~(i < k) /\ i # k
        BY <2>3, <1>1
      <3> QED
        BY <3>1, <1>2, <1>3
    <2> QED
      BY <2>1, <2>2, <2>3, <1>1
  <1>5. e \in ToSet(r)
    <2>1. r[k] = e
      BY <1>1, <1>2
    <2> QED
      BY <2>1, <1>1, <1>3
  <1>6. ASSUME NEW i \in 1 .. Len(s) PROVE s[i] \in ToSet(r)
    <2>1. CASE i < k
      <3>1. i \in 1 .. Len(s) + 1 /\ r[i] = s[i]
        BY <2>1, <1>1, <1>2
      <3> QED
        BY <3>1, <1>3
    <2>2. CASE ~(i < k)
      <3>1. i + 1 \in 1 .. Len(s) + 1 /\ ~(i + 1 < k) /\ i + 1 # k /\ (i + 1) - 1 = i
        BY <2>2, <1>1
      <3>2. r[i + 1] = s[i]
        BY <3>1, <1>2
      <3> QED
        BY <3>1, <3>2, <1>3
    <2> QED
      BY <2>1, <2>2
  <1>7. ToSet(r) = ToSet(s) \cup {e}
    BY <1>3, <1>4, <1>5, <1>6
  <1>8. ASSUME Distinct(s), e \notin ToSet(s) PROVE Distinct(r)
    <2> DEFINE from(i) == IF i < k THEN i ELSE i - 1
    <2>1. ASSUME NEW i \in 1 .. Len(s) + 1, i # k
          PROVE  from(i) \in 1 .. Len(s) /\ r[i] = s[from(i)]
      <3>1. CASE i < k
        BY <3>1, <1>1, <1>2
      <3>2. CASE i > k
        BY <3>2, <1>1, <1>2
      <3> QED
        BY <2>1, <3>1, <3>2, <1>1
    <2>2. ASSUME NEW i \in 1 .. Len(s) + 1, NEW j \in 1 .. Len(s) + 1,
                 i # k, j # k, from(i) = from(j)
          PROVE  i = j
      BY <2>2, <1>1
    <2>3. r[k] = e
      BY <1>1, <1>2
    <2> HIDE DEF from
    <2>4. ASSUME NEW i \in 1 .. Len(s) + 1, i # k PROVE r[i] # e
      BY <2>1, <2>4, <1>3, <1>8
    <2>5. ASSUME NEW i \in 1 .. Len(s) + 1, NEW j \in 1 .. Len(s) + 1, r[i] = r[j]
          PROVE  i = j
      <3>1. CASE i = k \/ j = k
        BY <3>1, <2>3, <2>4, <2>5
      <3>2. CASE i # k /\ j # k
        BY <3>2, <2>1, <2>2, <2>5, <1>8 DEF Distinct
      <3> QED
        BY <3>1, <3>2
    <2> QED
      BY <2>5, <1>1 DEF Distinct
  <1> QED
    BY <1>7, <1>8

(* list_insert_sorted puts e behind all of its own and higher priority and *)
(* before the first of a lower one.                                        *)
LEMMA InsertSortedInserts ==
  ASSUME NEW S, NEW s \in Seq(S), NEW e \in S,
         priority[e] \in Nat, \A q \in S : priority[q] \in Nat
  PROVE  /\ list_insert_sorted(s, e) \in Seq(S)
         /\ \E k \in 1 .. Len(s) + 1 :
              /\ Inserted(list_insert_sorted(s, e), s, k, e)
              /\ \A i \in 1 .. Len(s) : i < k => priority[e] <= priority[s[i]]
              /\ k <= Len(s) => priority[s[k]] < priority[e]
  <1> DEFINE I == {i \in 1 .. Len(s) : priority[s[i]] < priority[e]}
             r == list_insert_sorted(s, e)
  <1>1. Len(s) \in Nat /\ \A i \in 1 .. Len(s) : s[i] \in S
    BY LenProperties, ElementOfSeq
  <1>2. CASE I = {}
    <2>1. r = Append(s, e)
      BY <1>2 DEF list_insert_sorted, SelectInSeq
    <2>2. r \in Seq(S) /\ Inserted(r, s, Len(s) + 1, e)
      BY <2>1, AppendInserts
    <2>3. \A i \in 1 .. Len(s) : priority[e] <= priority[s[i]]
      BY <1>1, <1>2
    <2>4. Len(s) + 1 \in 1 .. Len(s) + 1 /\ ~(Len(s) + 1 <= Len(s))
      BY <1>1
    <2> HIDE DEF r
    <2> QED
      BY <2>2, <2>3, <2>4 DEF r
  <1>3. CASE I # {}
    <2> DEFINE k == Min(I)
    <2>1. I \subseteq Nat
      BY <1>1
    <2>2. k \in I /\ \A j \in I : k <= j
      BY <1>3, <2>1, MinProperties
    <2>3. r = IF k = 0 THEN Append(s, e) ELSE InsertAt(s, k, e)
      BY <1>3 DEF list_insert_sorted, SelectInSeq
    <2> HIDE DEF k, I
    <2>4. k \in 1 .. Len(s) /\ k # 0 /\ priority[s[k]] < priority[e]
      BY <2>2, <1>1 DEF I
    <2>5. r = InsertAt(s, k, e)
      BY <2>3, <2>4
    <2>6. r \in Seq(S) /\ Inserted(r, s, k, e)
      BY <2>4, <2>5, InsertAtInserts
    <2>7. ASSUME NEW i \in 1 .. Len(s), i < k PROVE priority[e] <= priority[s[i]]
      <3>1. i \notin I
        BY <2>2, <2>4, <2>7, <1>1
      <3>2. ~(priority[s[i]] < priority[e])
        BY <3>1 DEF I
      <3>3. priority[s[i]] \in Nat
        BY <1>1
      <3> QED
        BY <3>2, <3>3
    <2>8. k \in 1 .. Len(s) + 1
      BY <2>4, <1>1
    <2> HIDE DEF r
    <2> QED
      BY <2>4, <2>6, <2>7, <2>8 DEF r
  <1> QED
    BY <1>2, <1>3

(* The members of a queue whose first entry is taken off.                  *)
LEMMA TailProperties ==
  ASSUME NEW S, NEW s \in Seq(S), s # <<>>
  PROVE  /\ Head(s) \in S /\ Head(s) \in ToSet(s)
         /\ Tail(s) \in Seq(S)
         /\ ToSet(Tail(s)) \subseteq ToSet(s)
         /\ ToSet(s) \subseteq ToSet(Tail(s)) \cup {Head(s)}
         /\ Distinct(s) => Distinct(Tail(s)) /\ Head(s) \notin ToSet(Tail(s))
  <1> DEFINE t == Tail(s)
  <1>1. Len(s) \in Nat \ {0}
    BY EmptySeq
  <1>2. /\ Head(s) \in S /\ Head(s) = s[1]
        /\ t \in Seq(S)
        /\ Len(t) = Len(s) - 1
        /\ \A i \in 1 .. Len(t) : t[i] = s[i + 1]
    BY HeadTailProperties
  <1> HIDE DEF t
  <1>3. /\ ToSet(s) = {s[i] : i \in 1 .. Len(s)}
        /\ ToSet(t) = {t[i] : i \in 1 .. Len(s) - 1}
        /\ \A i \in 1 .. Len(s) - 1 : t[i] = s[i + 1] /\ i + 1 \in 1 .. Len(s)
    BY <1>1, <1>2, ToSetOfSeq
  <1>4. 1 \in 1 .. Len(s)
    BY <1>1
  <1>5. ToSet(t) \subseteq ToSet(s)
    BY <1>3
  <1>6. ASSUME NEW i \in 1 .. Len(s) PROVE s[i] \in ToSet(t) \cup {Head(s)}
    <2>1. CASE i = 1
      BY <2>1, <1>2
    <2>2. CASE i # 1
      <3>1. i - 1 \in 1 .. Len(s) - 1 /\ (i - 1) + 1 = i
        BY <2>2, <1>1
      <3> QED
        BY <3>1, <1>3
    <2> QED
      BY <2>1, <2>2
  <1>7. ASSUME Distinct(s) PROVE Distinct(t) /\ Head(s) \notin ToSet(t)
    <2>1. ASSUME NEW i \in 1 .. Len(s) - 1, NEW j \in 1 .. Len(s) - 1, t[i] = t[j]
          PROVE  i = j
      <3>1. s[i + 1] = s[j + 1] /\ i + 1 \in 1 .. Len(s) /\ j + 1 \in 1 .. Len(s)
        BY <2>1, <1>3
      <3>2. i + 1 = j + 1
        BY <3>1, <1>7 DEF Distinct
      <3> QED
        BY <3>2, <1>1
    <2>2. ASSUME NEW i \in 1 .. Len(s) - 1 PROVE t[i] # Head(s)
      <3>1. i + 1 # 1 /\ i + 1 \in 1 .. Len(s)
        BY <1>1
      <3> QED
        BY <3>1, <1>2, <1>3, <1>4, <1>7 DEF Distinct
    <2> QED
      BY <2>1, <2>2, <1>2, <1>3 DEF Distinct
  <1> QED
    BY <1>2, <1>3, <1>4, <1>5, <1>6, <1>7 DEF t

(* list_remove on a queue that holds e at most once.                       *)
LEMMA RemoveFirstDistinct ==
  ASSUME NEW S, NEW s \in Seq(S), NEW e, Distinct(s)
  PROVE  LET r == RemoveFirst(s, e)
         IN  r \in Seq(S) /\ Distinct(r) /\ ToSet(r) = ToSet(s) \ {e}
  <1> DEFINE r == RemoveFirst(s, e)
  <1>1. /\ r \in Seq(S)
        /\ ToSet(r) \subseteq ToSet(s)
        /\ ToSet(s) \subseteq ToSet(r) \cup {e}
    BY RemoveFirstProperties
  <1>2. Len(s) \in Nat /\ ToSet(s) = {s[i] : i \in 1 .. Len(s)}
    BY LenProperties, ToSetOfSeq
  <1>3. CASE ~\E i \in 1 .. Len(s) : s[i] = e
    <2>1. r = s
      BY <1>3 DEF RemoveFirst
    <2> QED
      BY <2>1, <1>2, <1>3
  <1>4. CASE \E i \in 1 .. Len(s) : s[i] = e
    <2>1. PICK k \in 1 .. Len(s) :
            /\ s[k] = e
            /\ Len(r) = Len(s) - 1
            /\ \A i \in 1 .. Len(s) - 1 : r[i] = IF i < k THEN s[i] ELSE s[i + 1]
      BY <1>4, RemoveFirstShape
    <2> HIDE DEF r
    <2> DEFINE from(i) == IF i < k THEN i ELSE i + 1
    <2>2. ASSUME NEW i \in 1 .. Len(s) - 1
          PROVE  from(i) \in 1 .. Len(s) /\ from(i) # k /\ r[i] = s[from(i)]
      <3>1. CASE i < k
        BY <3>1, <1>2, <2>1
      <3>2. CASE ~(i < k)
        BY <3>2, <1>2, <2>1
      <3> QED
        BY <3>1, <3>2
    <2>3. ASSUME NEW i \in 1 .. Len(s) - 1, NEW j \in 1 .. Len(s) - 1, from(i) = from(j)
          PROVE  i = j
      BY <2>3, <1>2
    <2> HIDE DEF from
    <2>4. Distinct(r)
      BY <2>1, <2>2, <2>3 DEF Distinct
    <2>5. ToSet(r) = {r[i] : i \in 1 .. Len(s) - 1}
      BY <1>1, <2>1, ToSetOfSeq
    <2>6. e \notin ToSet(r)
      BY <2>1, <2>2, <2>5 DEF Distinct
    <2> QED
      BY <1>1, <2>4, <2>6 DEF r
  <1> QED
    BY <1>3, <1>4

(***************************************************************************)
(* Type correctness                                                        *)
(***************************************************************************)

LEMMA ModNat ==
  ASSUME NEW a \in Int, NEW m \in Nat \ {0}
  PROVE  a % m \in Nat
  BY Z3

LEMMA DoingContains == "app" \in Doing /\ RcOnly \subseteq Doing
  BY DEF Doing

LEMMA InitTypeOK == Init => TypeOK
  <1> SUFFICES ASSUME Init PROVE TypeOK
    OBVIOUS
  <1>1. Cardinality(Procs) \in Nat
    BY ProcsAssumption, FS_CardinalityType
  <1>2. order \in [1 .. Cardinality(Procs) -> Procs] /\ ToSet(order) = Procs
    BY DEF Init
  <1>3. order \in Seq(Procs) /\ Len(order) = Cardinality(Procs)
    BY <1>1, <1>2
  <1>4. /\ queue \in [Resources -> Seq(Procs)]
        /\ priority \in [Procs -> Nat]
    BY PriorityAssumption, EmptySeq DEF Init
  <1>5. suspended \in [Procs -> BOOLEAN] /\ tick_pending \in BOOLEAN
    BY Zenon DEF Init
  <1>6. /\ state \in [Procs -> States]
        /\ timer \in [Procs -> Nat \cup {INFINITE, NoTimer}]
        /\ release \in [Procs -> Int]
        /\ init_delay \in [Procs -> Nat]
        /\ grid \in [Periodic -> Nat]
    BY DEF Init, States, NoTimer
  <1>7. /\ call \in [Procs -> Doing]
        /\ tracked \in [Procs -> SUBSET Resources]
        /\ owned \in [Procs -> Mutexes \cup {None}]
    BY DoingContains DEF Init
  <1>8. /\ mode \in {"COLD_START", "NORMAL"}
        /\ exec \in {"main", "os", "proc"}
        /\ current \in Procs \cup {None}
        /\ exec = "proc" => current # None
    BY DEF Init
  <1> QED
    BY <1>2, <1>3, <1>4, <1>5, <1>6, <1>7, <1>8, Zenon DEF TypeOK

(* A call is made by the process that has the processor.                   *)
LEMMA CallerType ==
  ASSUME TypeOK, NEW s, Calls(s)
  PROVE  current \in Procs /\ exec = "proc"
  BY DEF TypeOK, Calls

(* What the scheduler writes has the right type.                           *)
LEMMA ScheduleType ==
  ASSUME TypeOK, NEW st \in [Procs -> States], process_schedule(st)
  PROVE  /\ state' \in [Procs -> States]
         /\ exec' \in {"main", "os", "proc"}
         /\ current' \in Procs \cup {None}
         /\ call' \in [Procs -> Doing]
         /\ exec = "os" /\ exec' = "proc" => current' # None
  <1> DEFINE demoted == Demoted(st)
             ready == {p \in ToSet(order) : demoted[p] = "READY"}
  <1>1. demoted \in [Procs -> States]
    BY DEF Demoted, States
  <1>2. ready \subseteq Procs
    BY DEF TypeOK
  <1> HIDE DEF demoted
  <1>3. CASE ready = {} /\ state' = demoted /\ current' = None /\ UNCHANGED <<exec, call>>
    BY <1>1, <1>3 DEF TypeOK
  <1>4. ASSUME NEW p \in ready,
               state' = [demoted EXCEPT ![p] = "RUNNING"],
               current' = p,
               exec' = "proc",
               call' = [call EXCEPT ![p] = IF @ \in RcOnly THEN "app" ELSE @]
        PROVE  /\ state' \in [Procs -> States]
               /\ call' \in [Procs -> Doing]
               /\ current' \in Procs
    <2>1. p \in Procs /\ "RUNNING" \in States
      BY <1>2 DEF States
    <2>2. call \in [Procs -> Doing]
      BY DEF TypeOK
    <2>3. call' \in [Procs -> Doing]
      BY <1>4, <2>1, <2>2, DoingContains
    <2> QED
      BY <1>1, <1>4, <2>1, <2>3
  <1> QED
    BY <1>3, <1>4, ProcsAssumption DEF process_schedule, demoted, TypeOK

(* list_remove on every queue the stopped process is tracked in.           *)
LEMMA LeaveQueuesType ==
  ASSUME TypeOK, NEW p \in Procs, remove_process_from_waiting_queue(p)
  PROVE  queue' \in [Resources -> Seq(Procs)] /\ tracked' \in [Procs -> SUBSET Resources]
  <1>1. \A r \in Resources : queue[r] \in Seq(Procs)
    BY DEF TypeOK
  <1>2. \A r \in Resources : RemoveFirst(queue[r], p) \in Seq(Procs)
    BY <1>1, RemoveFirstProperties
  <1>3. queue' \in [Resources -> Seq(Procs)]
    BY <1>1, <1>2 DEF remove_process_from_waiting_queue
  <1>4. tracked' \in [Procs -> SUBSET Resources]
    BY DEF remove_process_from_waiting_queue, TypeOK
  <1> QED
    BY <1>3, <1>4

LEMMA OrderType ==
  ASSUME TypeOK, NEW p \in Procs, order' = ToBack(order, p)
  PROVE  /\ order' \in Seq(Procs)
         /\ Len(order') = Cardinality(Procs)
         /\ ToSet(order') = Procs
  BY ToBackProperties DEF TypeOK

(* The services that set the processes' times keep them well typed.        *)
LEMMA AwaitReleaseType ==
  ASSUME TypeOK, NEW p \in Periodic, NEW r \in Int, AwaitRelease(p, r)
  PROVE  /\ release' \in [Procs -> Int]
         /\ grid' \in [Periodic -> Nat]
         /\ state' \in [Procs -> States]
  <1>1. p \in Procs /\ Period[p] \in Nat \ {0}
    BY ProcsAssumption, TimeAssumption
  <1>2. r % Period[p] \in Nat
    BY <1>1, ModNat
  <1> QED
    BY <1>1, <1>2 DEF AwaitRelease, TypeOK, States

LEMMA TypeStep == TypeOK /\ [Next]_vars => TypeOK'
  <1> SUFFICES ASSUME TypeOK, [Next]_vars PROVE TypeOK'
    OBVIOUS
  <1> USE CallerType
  <1>a. Named \subseteq Procs /\ Periodic \subseteq Procs /\ None \notin Procs
    BY ProcsAssumption DEF Named
  <1>1. ASSUME NEW p \in Named, NEW v \in Priorities, SET_PRIORITY(p, v)
        PROVE  TypeOK'
    <2>1. p \in Procs /\ v \in Nat
      BY <1>1, <1>a, PriorityAssumption
    <2>2. priority' \in [Procs -> Nat]
      BY <1>1, <2>1 DEF SET_PRIORITY, TypeOK
    <2>3. order' = ToBack(order, p) \/ order' = order
      BY <1>1 DEF SET_PRIORITY
    <2>4. order' \in Seq(Procs) /\ Len(order') = Cardinality(Procs) /\ ToSet(order') = Procs
      BY <2>1, <2>3, OrderType DEF TypeOK
    <2>5. exec' \in {"main", "os", "proc"} /\ (exec' = "proc" => exec = "proc")
      BY <1>1 DEF SET_PRIORITY, yield_to_partition, TypeOK
    <2> QED
      BY <1>1, <2>2, <2>4, <2>5 DEF SET_PRIORITY, TypeOK, timeVars, waitVars
  <1>2. ASSUME NEW t \in Timeouts, SUSPEND_SELF(t) PROVE TypeOK'
    <2>1. current \in Procs /\ t \in Nat \cup {INFINITE}
      BY <1>2, TimeAssumption DEF SUSPEND_SELF
    <2>2. state' \in [Procs -> States] /\ timer' \in [Procs -> Nat \cup {INFINITE, NoTimer}]
      BY <1>2, <2>1 DEF SUSPEND_SELF, Arm, TypeOK, States
    <2>3. suspended' \in [Procs -> BOOLEAN]
      BY <1>2, <2>1, Zenon DEF SUSPEND_SELF, TypeOK
    <2>4. call' \in [Procs -> Doing]
      BY <1>2, <2>1 DEF SUSPEND_SELF, TypeOK, Doing, RcOnly
    <2> QED
      BY <1>2, <2>2, <2>3, <2>4 DEF SUSPEND_SELF, yield_to_partition, TypeOK
  <1>3. ASSUME NEW p \in Named, SUSPEND(p) PROVE TypeOK'
    <2>1. p \in Procs
      BY <1>a
    <2>2. state' \in [Procs -> States]
      BY <1>3, <2>1 DEF SUSPEND, TypeOK, States
    <2>3. suspended' \in [Procs -> BOOLEAN]
      BY <1>3, <2>1, Zenon DEF SUSPEND, TypeOK
    <2> QED
      BY <1>3, <2>2, <2>3 DEF SUSPEND, TypeOK, schedVars, timeVars, waitVars
  <1>4. ASSUME NEW p \in Named, RESUME(p) PROVE TypeOK'
    <2>1. p \in Procs /\ timer[p] \in Nat \cup {INFINITE, NoTimer}
      BY <1>a DEF TypeOK
    <2>2. state' \in [Procs -> States] /\ timer' \in [Procs -> Nat \cup {INFINITE, NoTimer}]
      BY <1>4, <2>1 DEF RESUME, TypeOK, States
    <2>3. suspended' \in [Procs -> BOOLEAN]
      BY <1>4, <2>1, Zenon DEF RESUME, TypeOK
    <2>4. exec' \in {"main", "os", "proc"} /\ (exec' = "proc" => exec = "proc")
      BY <1>4 DEF RESUME, yield_to_partition, TypeOK
    <2> QED
      BY <1>4, <2>2, <2>3, <2>4 DEF RESUME, TypeOK, waitVars
  <1>5. CASE STOP_SELF
    <2>1. current \in Procs
      BY <1>5 DEF STOP_SELF
    <2>2. state' \in [Procs -> States] /\ timer' \in [Procs -> Nat \cup {INFINITE, NoTimer}]
      BY <1>5, <2>1 DEF STOP_SELF, Halt, TypeOK, States
    <2>3. suspended' \in [Procs -> BOOLEAN]
      BY <1>5, <2>1, Zenon DEF STOP_SELF, Halt, TypeOK
    <2> QED
      BY <1>5, <2>2, <2>3 DEF STOP_SELF, yield_to_partition, TypeOK, waitVars
  <1>6. ASSUME NEW p \in Named, STOP(p) PROVE TypeOK'
    <2>1. p \in Procs
      BY <1>a
    <2>2. state' \in [Procs -> States] /\ timer' \in [Procs -> Nat \cup {INFINITE, NoTimer}]
      BY <1>6, <2>1 DEF STOP, Halt, TypeOK, States
    <2>3. suspended' \in [Procs -> BOOLEAN]
      BY <1>6, <2>1, Zenon DEF STOP, Halt, TypeOK
    <2>4. queue' \in [Resources -> Seq(Procs)] /\ tracked' \in [Procs -> SUBSET Resources]
      BY <1>6, <2>1, LeaveQueuesType DEF STOP
    <2> QED
      BY <1>6, <2>2, <2>3, <2>4 DEF STOP, yield_to_partition, TypeOK
  <1> DEFINE Started == /\ state' \in [Procs -> States]
                        /\ timer' \in [Procs -> Nat \cup {INFINITE, NoTimer}]
                        /\ release' \in [Procs -> Int]
                        /\ init_delay' \in [Procs -> Nat]
                        /\ grid' \in [Periodic -> Nat]
                        /\ exec' \in {exec, "os"}
  <1>7. ASSUME NEW p \in Procs, Restart(p)
        PROVE  /\ priority' \in [Procs -> Nat]
               /\ call' \in [Procs -> Doing]
               /\ UNCHANGED <<mode, current, order, tick_pending, suspended,
                              queue, tracked, owned>>
    <2>1. BasePriority[p] \in Nat
      BY PriorityAssumption
    <2> QED
      BY <1>7, <2>1, DoingContains DEF Restart, TypeOK
  <1>8. ASSUME NEW p \in Named, START(p) PROVE TypeOK'
    <2>1. p \in Procs /\ Restart(p)
      BY <1>8, <1>a DEF START
    <2>2. Started
      <3>1. CASE UNCHANGED <<exec, timeVars>> /\ state' = [state EXCEPT ![p] = "WAITING"]
        BY <2>1, <3>1 DEF TypeOK, States, timeVars
      <3>2. CASE UNCHANGED timeVars /\ yield_to_partition /\ state' = [state EXCEPT ![p] = "READY"]
        BY <2>1, <3>2 DEF TypeOK, States, timeVars, yield_to_partition
      <3>3. ASSUME p \in Periodic, NEW r \in FirstReleases, AwaitRelease(p, r)
            PROVE  Started
        <4>1. r \in Int
          BY TimeAssumption
        <4> QED
          BY <3>3, <4>1, AwaitReleaseType DEF AwaitRelease, TypeOK
      <3> QED
        BY <1>8, <3>1, <3>2, <3>3 DEF START
    <2> QED
      BY <1>7, <2>1, <2>2 DEF TypeOK
  <1>9. ASSUME NEW p \in Named, NEW d \in Timeouts, DELAYED_START(p, d) PROVE TypeOK'
    <2>1. p \in Procs /\ Restart(p) /\ d \in Nat
      BY <1>9, <1>a, TimeAssumption DEF DELAYED_START
    <2>2. Started
      <3>1. CASE /\ state' = [state EXCEPT ![p] = "WAITING"]
                 /\ init_delay' = [init_delay EXCEPT ![p] = d]
                 /\ UNCHANGED <<exec, timer, release, grid>>
        BY <2>1, <3>1 DEF TypeOK, States
      <3>2. CASE /\ state' = [state EXCEPT ![p] = IF d = 0 THEN "READY" ELSE "WAITING"]
                 /\ timer' = IF d = 0 THEN timer ELSE [timer EXCEPT ![p] = d]
                 /\ yield_to_partition
                 /\ UNCHANGED <<release, init_delay, grid>>
        BY <2>1, <3>2 DEF TypeOK, States, yield_to_partition
      <3>3. ASSUME p \in Periodic, NEW r \in FirstReleases, AwaitRelease(p, r + d)
            PROVE  Started
        <4>1. r + d \in Int
          BY <2>1, TimeAssumption
        <4> QED
          BY <3>3, <4>1, AwaitReleaseType DEF AwaitRelease, TypeOK
      <3> QED
        BY <1>9, <3>1, <3>2, <3>3 DEF DELAYED_START
    <2> QED
      BY <1>7, <2>1, <2>2 DEF TypeOK
  <1>10. ASSUME NEW d \in Timeouts, TIMED_WAIT(d) PROVE TypeOK'
    <2>1. current \in Procs /\ d \in Nat
      BY <1>10, TimeAssumption DEF TIMED_WAIT
    <2>2. order' = ToBack(order, current) \/ order' = order
      BY <1>10 DEF TIMED_WAIT
    <2>3. order' \in Seq(Procs) /\ Len(order') = Cardinality(Procs) /\ ToSet(order') = Procs
      BY <2>1, <2>2, OrderType DEF TypeOK
    <2>4. state' \in [Procs -> States] /\ timer' \in [Procs -> Nat \cup {INFINITE, NoTimer}]
      <3>1. Arm(d) \in [Procs -> Nat \cup {INFINITE, NoTimer}]
        BY <2>1 DEF Arm, TypeOK
      <3>2. timer' = timer \/ timer' = Arm(d)
        BY <1>10 DEF TIMED_WAIT
      <3>3. state' \in [Procs -> States]
        BY <1>10, <2>1 DEF TIMED_WAIT, TypeOK, States
      <3> QED
        BY <3>1, <3>2, <3>3 DEF TypeOK
    <2>5. call' \in [Procs -> Doing]
      BY <1>10, <2>1 DEF TIMED_WAIT, TypeOK, Doing, RcOnly
    <2> QED
      BY <1>10, <2>3, <2>4, <2>5 DEF TIMED_WAIT, yield_to_partition, TypeOK
  <1>11. CASE PERIODIC_WAIT
    <2>1. current \in Periodic /\ current \in Procs /\ Period[current] \in Int
      BY <1>11, <1>a, TimeAssumption DEF PERIODIC_WAIT
    <2>2. state' \in [Procs -> States] /\ release' \in [Procs -> Int]
      BY <1>11, <2>1 DEF PERIODIC_WAIT, NextRelease, TypeOK, States
    <2>3. call' \in [Procs -> Doing]
      BY <1>11, <2>1 DEF PERIODIC_WAIT, TypeOK, Doing, RcOnly
    <2> QED
      BY <1>11, <2>2, <2>3 DEF PERIODIC_WAIT, yield_to_partition, TypeOK
  <1>12. CASE SET_PARTITION_MODE_NORMAL
    <2>1. state' \in [Procs -> States]
      BY <1>12 DEF SET_PARTITION_MODE_NORMAL, TypeOK, States
    <2>2. PICK r \in FirstReleases :
            /\ release' = [p \in Procs |-> FirstRelease(p, r)]
            /\ grid' = [p \in Periodic |-> FirstRelease(p, r) % Period[p]]
      BY <1>12 DEF SET_PARTITION_MODE_NORMAL
    <2>3. \A p \in Procs : FirstRelease(p, r) \in Int
      BY TimeAssumption DEF FirstRelease, TypeOK
    <2>4. release' \in [Procs -> Int]
      BY <2>2, <2>3
    <2>5. \A p \in Periodic : FirstRelease(p, r) % Period[p] \in Nat
      BY <2>3, <1>a, ModNat, TimeAssumption
    <2>6. grid' \in [Periodic -> Nat]
      BY <2>2, <2>5
    <2> QED
      BY <1>12, <2>1, <2>4, <2>6 DEF SET_PARTITION_MODE_NORMAL, yield_to_partition, TypeOK, waitVars
  <1>13. CASE partition_OS
    <2>1. StateAfterUpdate \in [Procs -> States] /\ state \in [Procs -> States]
      BY DEF StateAfterUpdate, TypeOK, States
    <2>2. PICK st \in [Procs -> States] : process_schedule(st)
      BY <1>13, <2>1 DEF partition_OS
    <2>3. /\ state' \in [Procs -> States]
          /\ exec' \in {"main", "os", "proc"}
          /\ current' \in Procs \cup {None}
          /\ call' \in [Procs -> Doing]
          /\ exec' = "proc" => current' # None
      BY <1>13, <2>2, ScheduleType DEF partition_OS
    <2>4. suspended' \in [Procs -> BOOLEAN] /\ tick_pending' \in BOOLEAN
      BY <1>13, Zenon DEF partition_OS, arinc_time_update_partition, TypeOK
    <2>5. init_delay' \in [Procs -> Nat] /\ timer' \in [Procs -> Nat \cup {INFINITE, NoTimer}]
      BY <1>13 DEF partition_OS, arinc_time_update_partition, TypeOK, timeVars
    <2>6. UNCHANGED <<release, grid>>
      BY <1>13 DEF partition_OS, arinc_time_update_partition, timeVars
    <2> QED
      BY <1>13, <2>3, <2>4, <2>5, <2>6 DEF partition_OS, TypeOK
  <1>14. CASE Tick
    <2>1. \A n \in Nat \cup {INFINITE, NoTimer} : CountDown(n) \in Nat \cup {INFINITE, NoTimer}
      BY DEF CountDown, INFINITE, NoTimer
    <2>2. timer' \in [Procs -> Nat \cup {INFINITE, NoTimer}]
      BY <1>14, <2>1 DEF Tick, TypeOK
    <2>3. release' \in [Procs -> Int]
      BY <1>14 DEF Tick, CountDown, TypeOK
    <2>4. \A p \in Periodic : (grid[p] - 1) % Period[p] \in Nat
      <3>1. \A p \in Periodic : grid[p] - 1 \in Int /\ Period[p] \in Nat \ {0}
        BY TimeAssumption DEF TypeOK
      <3> QED
        BY <3>1, ModNat
    <2>5. grid' \in [Periodic -> Nat]
      BY <1>14, <2>4 DEF Tick
    <2> QED
      BY <1>14, <2>2, <2>3, <2>5 DEF Tick, TypeOK, waitVars
  <1>15. CASE UNCHANGED vars
    BY <1>15 DEF vars, schedVars, timeVars, waitVars, TypeOK
  <1> QED
    BY <1>1, <1>2, <1>3, <1>4, <1>5, <1>6, <1>8, <1>9, <1>10, <1>11, <1>12,
       <1>13, <1>14, <1>15 DEF Next, Service, OtherService

(* Whatever the processes call, in whatever order, process control blocks  *)
(* stay well formed and the process list holds every process once.         *)
THEOREM ProcessesTypeCorrect == Spec => []TypeOK
  BY InitTypeOK, TypeStep, PTL DEF Spec

(***************************************************************************)
(* Scheduling                                                              *)
(***************************************************************************)

(* A stopped process has no timer: Halt clears it, START leaves it.        *)
DormantHasNoTimer ==
  \A p \in Procs : state[p] = "DORMANT" => timer[p] = NoTimer

(* The inductive invariant: PriorityRespected needs to know that a process *)
(* whose priority changes without a yield is not the running one, and a    *)
(* waking by time that a stopped process has no timer.                     *)
SchedInv ==
  TypeOK /\ RunningIsCurrent /\ PriorityRespected /\ DormantHasNoTimer

LEMMA InitSched == Init => SchedInv
  <1> SUFFICES ASSUME Init PROVE SchedInv
    OBVIOUS
  <1>1. TypeOK
    BY InitTypeOK
  <1> QED
    BY <1>1 DEF Init, SchedInv, RunningIsCurrent, PriorityRespected, DormantHasNoTimer

(* The scheduler leaves one process RUNNING at most, and it chooses one    *)
(* that no READY process outranks.                                         *)
LEMMA ScheduleChoice ==
  ASSUME TypeOK, NEW st \in [Procs -> States], process_schedule(st),
         exec = "os", priority' = priority,
         \A p \in Procs : st[p] = "RUNNING" => p = current
  PROVE  /\ RunningIsCurrent'
         /\ PriorityRespected'
         /\ \A p \in Procs : state'[p] = "DORMANT" <=> st[p] = "DORMANT"
  <1> DEFINE demoted == Demoted(st)
             ready == {p \in ToSet(order) : demoted[p] = "READY"}
  <1>1. /\ demoted \in [Procs -> States]
        /\ \A p \in Procs : demoted[p] # "RUNNING"
        /\ \A p \in Procs : demoted[p] = "DORMANT" <=> st[p] = "DORMANT"
    BY DEF Demoted, States
  <1>2. \A p \in Procs : p \in ready <=> demoted[p] = "READY"
    BY DEF TypeOK
  <1>3. ready \subseteq Procs
    BY DEF TypeOK
  <1> HIDE DEF demoted
  <1>4. CASE ready = {} /\ state' = demoted /\ current' = None /\ UNCHANGED <<exec, call>>
    BY <1>1, <1>4 DEF RunningIsCurrent, PriorityRespected
  <1>5. ASSUME NEW p \in ready,
               IF ErrorHandler \in ready THEN p = ErrorHandler
                                         ELSE \A q \in ready : Precedes(p, q),
               state' = [demoted EXCEPT ![p] = "RUNNING"],
               current' = p,
               exec' = "proc"
        PROVE  /\ RunningIsCurrent'
               /\ PriorityRespected'
               /\ \A q \in Procs : state'[q] = "DORMANT" <=> st[q] = "DORMANT"
    <2>1. \A q \in Procs : state'[q] = IF q = p THEN "RUNNING" ELSE demoted[q]
      BY <1>1, <1>5
    <2>2. p \in Procs /\ demoted[p] = "READY"
      BY <1>3
    <2>3. RunningIsCurrent'
      BY <1>1, <1>5, <2>1, <2>2 DEF RunningIsCurrent
    <2>4. ASSUME NEW q \in Procs, state'[q] = "READY"
          PROVE  /\ q # ErrorHandler
                 /\ priority'[q] <= priority'[p] \/ p = ErrorHandler
      <3>1. q \in ready /\ q # p
        BY <1>2, <2>1, <2>4
      <3>2. q # ErrorHandler
        BY <1>5, <3>1
      <3>3. p = ErrorHandler \/ Precedes(p, q)
        BY <1>5, <3>1
      <3>4. priority[p] \in Nat /\ priority[q] \in Nat
        BY <2>2 DEF TypeOK
      <3> QED
        BY <3>2, <3>3, <3>4 DEF Precedes
    <2>5. PriorityRespected'
      BY <1>5, <2>4 DEF PriorityRespected
    <2> QED
      BY <1>1, <2>1, <2>2, <2>3, <2>5
  <1> QED
    BY <1>4, <1>5 DEF process_schedule, demoted

(* A service that ends in a yield and makes nobody RUNNING.                *)
Yields ==
  /\ exec' # "proc"
  /\ current' = current
  /\ \A p \in Procs : state'[p] = "RUNNING" => state[p] = "RUNNING"

(* A service that returns to its caller: whoever it changes is neither     *)
(* the caller nor READY afterwards.                                        *)
Returns ==
  /\ exec' = exec
  /\ current' = current
  /\ \A p \in Procs :
       \/ state'[p] = state[p] /\ priority'[p] = priority[p]
       \/ state[p] # "RUNNING" /\ state'[p] \notin {"READY", "RUNNING"}

TimersCleared ==
  \A p \in Procs :
    state'[p] = "DORMANT" =>
      timer'[p] = NoTimer \/ (state[p] = "DORMANT" /\ timer'[p] = timer[p])

LEMMA ServicesKeepSched ==
  ASSUME SchedInv, Yields \/ Returns, TimersCleared
  PROVE  RunningIsCurrent' /\ PriorityRespected' /\ DormantHasNoTimer'
  <1>1. DormantHasNoTimer'
    BY DEF SchedInv, DormantHasNoTimer, TimersCleared
  <1>2. CASE Yields
    BY <1>1, <1>2 DEF SchedInv, RunningIsCurrent, PriorityRespected, Yields
  <1>3. CASE Returns
    <2>1. RunningIsCurrent'
      BY <1>3 DEF SchedInv, RunningIsCurrent, Returns, TypeOK
    <2>2. PriorityRespected'
      BY <1>3 DEF SchedInv, RunningIsCurrent, PriorityRespected, Returns, TypeOK
    <2> QED
      BY <1>1, <2>1, <2>2
  <1> QED
    BY <1>2, <1>3

(* Every service either yields or disturbs neither its caller nor the      *)
(* READY processes.                                                        *)
LEMMA ServiceYieldsOrReturns ==
  ASSUME SchedInv, Service
  PROVE  (Yields \/ Returns) /\ TimersCleared
  <1> USE CallerType DEF SchedInv, TypeOK
  <1>a. Named \subseteq Procs
    BY DEF Named
  <1>b. \A s : Calls(s) => state[current] = "RUNNING" /\ current \in Procs
    BY DEF RunningIsCurrent, Calls
  <1>1. ASSUME NEW p \in Named, NEW v \in Priorities, SET_PRIORITY(p, v)
        PROVE  (Yields \/ Returns) /\ TimersCleared
    BY <1>1, <1>a DEF SET_PRIORITY, yield_to_partition, timeVars, Yields, Returns, TimersCleared
  <1>2. ASSUME NEW t \in Timeouts, SUSPEND_SELF(t) PROVE Yields /\ TimersCleared
    <2>1. \A p \in Procs : state'[p] = IF p = current THEN "WAITING" ELSE state[p]
      BY <1>2 DEF SUSPEND_SELF
    <2>2. \A p \in Procs : p # current => timer'[p] = timer[p]
      BY <1>2 DEF SUSPEND_SELF, Arm
    <2> QED
      BY <1>2, <2>1, <2>2 DEF SUSPEND_SELF, yield_to_partition, Yields, TimersCleared
  <1>3. ASSUME NEW p \in Named, SUSPEND(p) PROVE Returns /\ TimersCleared
    BY <1>3, <1>a DEF SUSPEND, RunningIsCurrent, schedVars, timeVars, Returns, TimersCleared
  <1>4. ASSUME NEW p \in Named, RESUME(p) PROVE (Yields \/ Returns) /\ TimersCleared
    <2>1. \A q \in Procs : q # p => state'[q] = state[q] /\ timer'[q] = timer[q]
      BY <1>4 DEF RESUME
    <2>2. state'[p] # "DORMANT"
      BY <1>4, <1>a DEF RESUME
    <2>3. Yields \/ Returns
      BY <1>4, <1>a DEF RESUME, yield_to_partition, Yields, Returns
    <2> QED
      BY <2>1, <2>2, <2>3 DEF TimersCleared
  <1>5. CASE STOP_SELF
    BY <1>5 DEF STOP_SELF, Halt, yield_to_partition, Yields, TimersCleared
  <1>6. ASSUME NEW p \in Named, STOP(p) PROVE Yields /\ TimersCleared
    BY <1>6, <1>a DEF STOP, Halt, yield_to_partition, Yields, TimersCleared
  <1>7. ASSUME NEW p \in Named, NEW w \in States \ {"DORMANT", "RUNNING"},
               state[p] = "DORMANT",
               current' = current,
               exec' = "os" \/ (exec' = exec /\ w = "WAITING"),
               state' = [state EXCEPT ![p] = w],
               \A q \in Procs : q # p => timer'[q] = timer[q] /\ priority'[q] = priority[q]
        PROVE  (Yields \/ Returns) /\ TimersCleared
    BY <1>7, <1>a DEF Yields, Returns, TimersCleared
  <1>8. ASSUME NEW p \in Named, START(p) PROVE (Yields \/ Returns) /\ TimersCleared
    <2>1. /\ state[p] = "DORMANT"
          /\ current' = current
          /\ \A q \in Procs : q # p => priority'[q] = priority[q]
      BY <1>8 DEF START, Restart
    <2>2. timer' = timer
      BY <1>8 DEF START, AwaitRelease, timeVars
    <2>3. \/ state' = [state EXCEPT ![p] = "WAITING"] /\ exec' = exec
          \/ state' = [state EXCEPT ![p] = "READY"] /\ exec' = "os"
      BY <1>8 DEF START, AwaitRelease, yield_to_partition
    <2>4. "WAITING" \in States \ {"DORMANT", "RUNNING"} /\ "READY" \in States \ {"DORMANT", "RUNNING"}
      BY DEF States
    <2> QED
      BY <1>7, <2>1, <2>2, <2>3, <2>4
  <1>9. ASSUME NEW p \in Named, NEW d \in Timeouts, DELAYED_START(p, d)
        PROVE  (Yields \/ Returns) /\ TimersCleared
    <2>1. /\ state[p] = "DORMANT"
          /\ current' = current
          /\ \A q \in Procs : q # p => priority'[q] = priority[q]
      BY <1>9 DEF DELAYED_START, Restart
    <2>2. \A q \in Procs : q # p => timer'[q] = timer[q]
      BY <1>9 DEF DELAYED_START, AwaitRelease
    <2>3. \/ state' = [state EXCEPT ![p] = "WAITING"] /\ exec' = exec
          \/ state' = [state EXCEPT ![p] = "READY"] /\ exec' = "os"
          \/ state' = [state EXCEPT ![p] = "WAITING"] /\ exec' = "os"
      BY <1>9 DEF DELAYED_START, AwaitRelease, yield_to_partition
    <2>4. "WAITING" \in States \ {"DORMANT", "RUNNING"} /\ "READY" \in States \ {"DORMANT", "RUNNING"}
      BY DEF States
    <2> QED
      BY <1>7, <2>1, <2>2, <2>3, <2>4
  <1>10. ASSUME NEW d \in Timeouts, TIMED_WAIT(d) PROVE Yields /\ TimersCleared
    <2>1. \A p \in Procs : p # current => state'[p] = state[p] /\ timer'[p] = timer[p]
      BY <1>10 DEF TIMED_WAIT, Arm
    <2>2. current \in Procs => state'[current] \in {"READY", "WAITING"}
      BY <1>10 DEF TIMED_WAIT
    <2> QED
      BY <1>10, <2>1, <2>2 DEF TIMED_WAIT, yield_to_partition, Yields, TimersCleared
  <1>11. CASE PERIODIC_WAIT
    BY <1>11 DEF PERIODIC_WAIT, yield_to_partition, Yields, TimersCleared
  <1>12. CASE SET_PARTITION_MODE_NORMAL
    BY <1>12 DEF SET_PARTITION_MODE_NORMAL, yield_to_partition, Yields, TimersCleared
  <1> QED
    BY <1>1, <1>2, <1>3, <1>4, <1>5, <1>6, <1>8, <1>9, <1>10, <1>11, <1>12
    DEF Service, OtherService

(* What time does to the states: it makes processes READY that wait or     *)
(* have a timer, and no stopped one.                                       *)
LEMMA UpdateStates ==
  ASSUME SchedInv
  PROVE  /\ StateAfterUpdate \in [Procs -> States]
         /\ \A p \in Procs :
              /\ StateAfterUpdate[p] = "RUNNING" => state[p] = "RUNNING"
              /\ StateAfterUpdate[p] = "DORMANT" <=> state[p] = "DORMANT"
  <1>1. \A p \in Procs : Released(p) \/ Expired(p) => state[p] # "DORMANT"
    BY DEF SchedInv, DormantHasNoTimer, Released, Expired, NoTimer
  <1>2. StateAfterUpdate \in [Procs -> States]
    BY DEF SchedInv, TypeOK, StateAfterUpdate, States
  <1> QED
    BY <1>1, <1>2 DEF SchedInv, TypeOK, StateAfterUpdate

LEMMA OSKeepsSched ==
  ASSUME SchedInv, partition_OS
  PROVE  /\ RunningIsCurrent' /\ PriorityRespected' /\ DormantHasNoTimer'
         /\ \A p \in Procs : state'[p] = "DORMANT" <=> state[p] = "DORMANT"
  <1>1. PICK st \in [Procs -> States] :
          /\ process_schedule(st)
          /\ \A p \in Procs : /\ st[p] = "RUNNING" => state[p] = "RUNNING"
                              /\ st[p] = "DORMANT" <=> state[p] = "DORMANT"
    BY UpdateStates DEF partition_OS, SchedInv, TypeOK
  <1>2. exec = "os" /\ priority' = priority
    BY DEF partition_OS
  <1>3. \A p \in Procs : st[p] = "RUNNING" => p = current
    BY <1>1 DEF SchedInv, RunningIsCurrent
  <1>4. /\ RunningIsCurrent' /\ PriorityRespected'
        /\ \A p \in Procs : state'[p] = "DORMANT" <=> st[p] = "DORMANT"
    BY <1>1, <1>2, <1>3, ScheduleChoice DEF SchedInv
  <1>5. \A p \in Procs : timer[p] = NoTimer => timer'[p] = NoTimer
    BY DEF partition_OS, arinc_time_update_partition, timeVars
  <1> QED
    BY <1>1, <1>4, <1>5 DEF SchedInv, DormantHasNoTimer

LEMMA SchedStep == SchedInv /\ [Next]_vars => SchedInv'
  <1> SUFFICES ASSUME SchedInv, [Next]_vars PROVE SchedInv'
    OBVIOUS
  <1>1. TypeOK'
    BY TypeStep DEF SchedInv
  <1>2. CASE Service
    BY <1>1, <1>2, ServiceYieldsOrReturns, ServicesKeepSched DEF SchedInv
  <1>3. CASE partition_OS
    BY <1>1, <1>3, OSKeepsSched DEF SchedInv
  <1>4. CASE Tick
    <2>1. DormantHasNoTimer'
      BY <1>4 DEF Tick, CountDown, NoTimer, SchedInv, DormantHasNoTimer, TypeOK
    <2> QED
      BY <1>1, <1>4, <2>1 DEF Tick, SchedInv, RunningIsCurrent, PriorityRespected
  <1>5. CASE UNCHANGED vars
    BY <1>1, <1>5 DEF vars, schedVars, timeVars, SchedInv, RunningIsCurrent,
                      PriorityRespected, DormantHasNoTimer
  <1> QED
    BY <1>2, <1>3, <1>4, <1>5 DEF Next

LEMMA SchedInvariant == Spec => []SchedInv
  BY InitSched, SchedStep, PTL DEF Spec

(* At most one process is RUNNING, the one that process_current names, and *)
(* nobody has the processor without being marked.                          *)
THEOREM OneProcessRuns == Spec => []RunningIsCurrent
  <1>1. SchedInv => RunningIsCurrent
    BY DEF SchedInv
  <1> QED
    BY <1>1, SchedInvariant, PTL

(* No service and no time-out leaves a READY process of higher priority    *)
(* than the running one, nor a READY error handler.                        *)
THEOREM HighestPriorityRuns == Spec => []PriorityRespected
  <1>1. SchedInv => PriorityRespected
    BY DEF SchedInv
  <1> QED
    BY <1>1, SchedInvariant, PTL

(* arinc_time_update_partition never wakes a stopped process.              *)
THEOREM StoppedStaysStoppedInTime == Spec => TimeNeverRevives
  <1>1. SchedInv /\ [Next]_vars =>
          [exec = "os" => \A p \in Procs : state[p] = "DORMANT" => state'[p] = "DORMANT"]_vars
    <2> SUFFICES ASSUME SchedInv, [Next]_vars, exec = "os",
                        NEW p \in Procs, state[p] = "DORMANT"
                 PROVE  state'[p] = "DORMANT" \/ UNCHANGED vars
      OBVIOUS
    <2>1. CASE Service
      BY <2>1 DEF Service, OtherService, SET_PRIORITY, SUSPEND_SELF, SUSPEND, RESUME, STOP_SELF,
           STOP, START, DELAYED_START, TIMED_WAIT, PERIODIC_WAIT,
           SET_PARTITION_MODE_NORMAL, Calls, MayCall
    <2>2. CASE partition_OS
      BY <2>2, OSKeepsSched
    <2>3. CASE Tick
      BY <2>3 DEF Tick
    <2> QED
      BY <2>1, <2>2, <2>3 DEF Next
  <1> QED
    BY <1>1, SchedInvariant, PTL DEF Spec, TimeNeverRevives

(***************************************************************************)
(* Release points                                                          *)
(***************************************************************************)

LEMMA DivMod ==
  ASSUME NEW a \in Int, NEW m \in Nat \ {0}
  PROVE  a = m * (a \div m) + (a % m) /\ a \div m \in Int /\ a % m \in Int
  BY Z3

LEMMA MultipleMod ==
  ASSUME NEW k \in Int, NEW m \in Nat \ {0}
  PROVE  (m * k) % m = 0
  BY Z3

(* Multiples of the period stay multiples when a multiple is added.        *)
LEMMA ShiftMod ==
  ASSUME NEW a \in Int, NEW b \in Int, NEW k \in Int, NEW m \in Nat \ {0},
         a % m = 0, b = a + m * k
  PROVE  b % m = 0
  <1>1. a = m * (a \div m) /\ a \div m \in Int
    BY DivMod
  <1>2. b = m * ((a \div m) + k) /\ (a \div m) + k \in Int
    BY <1>1, Z3
  <1> QED
    BY <1>2, MultipleMod

LEMMA AddPeriod ==
  ASSUME NEW a \in Int, NEW b \in Int, NEW m \in Nat \ {0}, a % m = 0, b = a + m
  PROVE  b % m = 0
  <1> DEFINE k == (a \div m) + 1
  <1>1. a = m * (a \div m) /\ a \div m \in Int
    BY DivMod
  <1>2. b = m * k /\ k \in Int
    BY <1>1, Z3
  <1> HIDE DEF k
  <1> QED
    BY <1>2, MultipleMod

(* A first release point is on the grid it starts.                         *)
LEMMA OnOwnGrid ==
  ASSUME NEW a \in Int, NEW m \in Nat \ {0}
  PROVE  (a - (a % m)) % m = 0
  <1>1. a - (a % m) = m * (a \div m) /\ a \div m \in Int
    BY DivMod
  <1> QED
    BY <1>1, MultipleMod

(* A tick moves the release point and the grid together.                   *)
LEMMA TickOnGrid ==
  ASSUME NEW a \in Int, NEW g \in Int, NEW m \in Nat \ {0}, (a - g) % m = 0
  PROVE  ((a - 1) - ((g - 1) % m)) % m = 0
  <1> DEFINE q == (g - 1) \div m
             b == (g - 1) % m
  <1>1. g - 1 = m * q + b /\ q \in Int /\ b \in Int
    BY DivMod
  <1> HIDE DEF q, b
  <1>2. (a - 1) - b = (a - g) + m * q
    BY <1>1, Z3
  <1> DEFINE x == a - g
             y == (a - 1) - b
  <1>3. x % m = 0 /\ y = x + m * q
    BY <1>2, Zenon
  <1>4. x \in Int /\ y \in Int
    BY <1>1
  <1> HIDE DEF x, y
  <1>5. y % m = 0
    BY <1>1, <1>3, <1>4, ShiftMod
  <1> QED
    BY <1>5 DEF b, y

OnGrid(p) == (release[p] - grid[p]) % Period[p] = 0

(* What a step does to a periodic process: it leaves release point and     *)
(* grid alone, starts a new grid, or moves to the next point of its grid.  *)
LEMMA StepOnGrid ==
  ASSUME SchedInv, Next, NEW p \in Periodic,
         mode' = "NORMAL", state'[p] # "DORMANT",
         mode = "NORMAL" /\ state[p] # "DORMANT" => OnGrid(p)
  PROVE  OnGrid(p)'
  <1> DEFINE m == Period[p]
  <1>t. TypeOK
    BY DEF SchedInv
  <1>a. p \in Procs /\ m \in Nat \ {0} /\ release[p] \in Int /\ grid[p] \in Int
    BY <1>t, ProcsAssumption, TimeAssumption DEF TypeOK
  <1>b. \A s : Calls(s) => current \in Procs /\ state[current] = "RUNNING"
    BY <1>t, CallerType DEF SchedInv, RunningIsCurrent
  <1> HIDE DEF m
  <1>1. ASSUME UNCHANGED <<mode, release, grid>>, state[p] # "DORMANT" PROVE OnGrid(p)'
    BY <1>1 DEF OnGrid
  <1>2. ASSUME NEW r \in Int, release'[p] = r, grid'[p] = r % m PROVE OnGrid(p)'
    BY <1>2, <1>a, OnOwnGrid DEF OnGrid, m
  <1>3. ASSUME NEW q \in Named, NEW r \in Int, AwaitRelease(q, r), Restart(q), q \in Periodic
        PROVE  OnGrid(p)'
    <2>1. CASE q = p
      <3>1. release'[p] = r /\ grid'[p] = r % m
        BY <1>t, <1>3, <1>a, <2>1 DEF AwaitRelease, TypeOK, m
      <3> QED
        BY <1>2, <3>1
    <2>2. CASE q # p
      <3>1. /\ release'[p] = release[p] /\ grid'[p] = grid[p]
            /\ state'[p] = state[p] /\ mode' = mode
        BY <1>t, <1>3, <1>a, <2>2 DEF AwaitRelease, Restart, TypeOK
      <3> QED
        BY <3>1 DEF OnGrid
    <2> QED
      BY <2>1, <2>2
  <1>4. ASSUME NEW q \in Named, START(q) PROVE OnGrid(p)'
    <2>1. mode = "NORMAL" /\ Restart(q)
      BY <1>4 DEF START, Restart
    <2>2. CASE q \in Periodic
      BY <1>3, <1>4, <2>1, <2>2, TimeAssumption DEF START, Aperiodic
    <2>3. CASE q \notin Periodic
      <3>1. UNCHANGED <<mode, release, grid>> /\ state'[p] = state[p]
        BY <1>t, <1>4, <1>a, <2>1, <2>3 DEF START, Restart, timeVars, TypeOK
      <3> QED
        BY <1>1, <3>1
    <2> QED
      BY <2>2, <2>3
  <1>5. ASSUME NEW q \in Named, NEW d \in Timeouts, DELAYED_START(q, d) PROVE OnGrid(p)'
    <2>1. mode = "NORMAL" /\ Restart(q) /\ d \in Int
      BY <1>5, TimeAssumption DEF DELAYED_START, Restart
    <2>2. CASE q \in Periodic
      <3>1. PICK r \in FirstReleases : AwaitRelease(q, r + d)
        BY <1>5, <2>1, <2>2 DEF DELAYED_START, Aperiodic
      <3>2. r + d \in Int
        BY <2>1, TimeAssumption
      <3> QED
        BY <1>3, <2>1, <2>2, <3>1, <3>2
    <2>3. CASE q \notin Periodic
      <3>1. UNCHANGED <<mode, release, grid>> /\ state'[p] = state[p]
        BY <1>t, <1>5, <1>a, <2>1, <2>3 DEF DELAYED_START, Restart, TypeOK
      <3> QED
        BY <1>1, <3>1
    <2> QED
      BY <2>2, <2>3
  <1>6. CASE PERIODIC_WAIT
    <2>1. UNCHANGED <<mode, grid>> /\ current \in Procs /\ state[current] # "DORMANT"
      BY <1>6, <1>b DEF PERIODIC_WAIT
    <2>2. CASE p = current
      <3>1. release'[p] = release[p] + m
        BY <1>t, <1>6, <1>a, <2>2 DEF PERIODIC_WAIT, NextRelease, TypeOK, m
      <3>2. (release[p] - grid[p]) % m = 0
        BY <2>1, <2>2 DEF OnGrid, m
      <3> DEFINE x == release[p] - grid[p]
                 y == (release[p] + m) - grid[p]
      <3>3. x % m = 0
        BY <3>2, Zenon
      <3>4. x \in Int /\ y \in Int /\ y = x + m
        <4>1. release[p] \in Int /\ grid[p] \in Int /\ m \in Int
          BY <1>a
        <4> QED
          BY <4>1
      <3> HIDE DEF x, y
      <3>5. y % m = 0
        BY <1>a, <3>3, <3>4, AddPeriod
      <3> QED
        BY <2>1, <3>1, <3>5 DEF OnGrid, m, y
    <2>3. CASE p # current
      <3>1. release'[p] = release[p] /\ state'[p] = state[p]
        BY <1>t, <1>6, <1>a, <2>3 DEF PERIODIC_WAIT, TypeOK
      <3> QED
        BY <2>1, <3>1 DEF OnGrid
    <2> QED
      BY <2>2, <2>3
  <1>7. CASE SET_PARTITION_MODE_NORMAL
    <2>1. PICK r \in FirstReleases :
            /\ release' = [q \in Procs |-> FirstRelease(q, r)]
            /\ grid' = [q \in Periodic |-> FirstRelease(q, r) % Period[q]]
      BY <1>7 DEF SET_PARTITION_MODE_NORMAL
    <2>2. FirstRelease(p, r) \in Int
      BY <1>t, <1>a, TimeAssumption DEF FirstRelease, TypeOK
    <2> QED
      BY <1>2, <1>a, <2>1, <2>2 DEF m
  <1>8. CASE Tick
    <2>1. mode = "NORMAL" /\ state[p] # "DORMANT"
      BY <1>8 DEF Tick
    <2>2. release'[p] = release[p] - 1 /\ grid'[p] = (grid[p] - 1) % m
      BY <1>8, <1>a, <2>1 DEF Tick, m
    <2>3. (release[p] - grid[p]) % m = 0
      BY <2>1 DEF OnGrid, m
    <2>4. ((release[p] - 1) - ((grid[p] - 1) % m)) % m = 0
      BY <1>a, <2>3, TickOnGrid
    <2> QED
      BY <2>2, <2>4 DEF OnGrid, m
  <1>9. CASE partition_OS
    <2>1. UNCHANGED <<mode, release, grid>>
      BY <1>9 DEF partition_OS, arinc_time_update_partition, timeVars
    <2>2. state[p] # "DORMANT"
      BY <1>9, <1>a, OSKeepsSched
    <2> QED
      BY <1>1, <2>1, <2>2
  <1>10. ASSUME NEW q \in Named, RESUME(q) \/ SUSPEND(q) \/ STOP(q) PROVE OnGrid(p)'
    <2>1. UNCHANGED <<mode, release, grid>>
      BY <1>10 DEF RESUME, SUSPEND, STOP, schedVars, timeVars
    <2>2. state[p] # "DORMANT"
      BY <1>10, <1>t, <1>a DEF RESUME, SUSPEND, STOP, Halt, TypeOK
    <2> QED
      BY <1>1, <2>1, <2>2
  <1>11. ASSUME NEW q \in Named, NEW v \in Priorities, SET_PRIORITY(q, v) PROVE OnGrid(p)'
    BY <1>1, <1>11 DEF SET_PRIORITY, timeVars
  <1>12. ASSUME NEW d \in Timeouts, TIMED_WAIT(d) \/ SUSPEND_SELF(d) PROVE OnGrid(p)'
    <2>1. UNCHANGED <<mode, release, grid>>
      BY <1>12 DEF TIMED_WAIT, SUSPEND_SELF
    <2>2. state[p] # "DORMANT"
      BY <1>12, <1>t, <1>a, <1>b DEF TIMED_WAIT, SUSPEND_SELF, TypeOK
    <2> QED
      BY <1>1, <2>1, <2>2
  <1>13. CASE STOP_SELF
    <2>1. UNCHANGED <<mode, release, grid>>
      BY <1>13 DEF STOP_SELF
    <2>2. state[p] # "DORMANT"
      BY <1>13, <1>t, <1>a, <1>b DEF STOP_SELF, Halt, TypeOK
    <2> QED
      BY <1>1, <2>1, <2>2
  <1> QED
    BY <1>4, <1>5, <1>6, <1>7, <1>8, <1>9, <1>10, <1>11, <1>12, <1>13 DEF Next, Service, OtherService

(* However late a periodic process is and however often it is stopped and  *)
(* started, its release points are whole periods after its first one.      *)
THEOREM ReleasesDoNotDrift == Spec => []NoDrift
  <1>1. Init => NoDrift
    BY DEF Init, NoDrift
  <1>2. SchedInv /\ NoDrift /\ [Next]_vars => NoDrift'
    <2> SUFFICES ASSUME SchedInv, NoDrift, [Next]_vars PROVE NoDrift'
      OBVIOUS
    <2>1. CASE Next
      BY <2>1, StepOnGrid DEF NoDrift, OnGrid
    <2>2. CASE UNCHANGED vars
      BY <2>2 DEF vars, schedVars, timeVars, NoDrift
    <2> QED
      BY <2>1, <2>2
  <1> QED
    BY <1>1, <1>2, SchedInvariant, PTL DEF Spec

(***************************************************************************)
(* Arithmetic of rings, for the modules of the buffers and the ports       *)
(***************************************************************************)

(* A remainder is the only one.                                            *)
LEMMA RemainderIs ==
  ASSUME NEW x \in Int, NEW m \in Nat \ {0}, NEW q \in Int, NEW r \in 0 .. m - 1,
         x = m * q + r
  PROVE  x % m = r
  <1>1. x = m * (x \div m) + (x % m) /\ x \div m \in Int /\ x % m \in Int
    BY DivMod
  <1>2. x % m \in 0 .. m - 1
    BY Z3
  <1> DEFINE d == x \div m
             s == x % m
  <1> HIDE DEF d, s
  <1>3. m * (d - q) = r - s
    BY <1>1 DEF d, s
  <1>4. d - q \in Int /\ r - s < m /\ -m < r - s
    BY <1>1, <1>2 DEF d, s
  <1>5. d - q = 0
    <2>1. CASE d - q >= 1
      <3>1. m * (d - q) >= m
        BY <2>1, <1>4
      <3> QED
        BY <3>1, <1>3, <1>4
    <2>2. CASE d - q <= -1
      <3>1. m * (d - q) <= -m
        BY <2>2, <1>4
      <3> QED
        BY <3>1, <1>3, <1>4
    <2> QED
      BY <1>4, <2>1, <2>2
  <1>6. r = s
    BY <1>3, <1>5, <1>1 DEF d, s
  <1> QED
    BY <1>6 DEF s

LEMMA ModRange ==
  ASSUME NEW x \in Int, NEW m \in Nat \ {0}
  PROVE  x % m \in 0 .. m - 1
  BY Z3

(* Wrapping early or late makes no difference.                             *)
LEMMA WrapTwice ==
  ASSUME NEW x \in Int, NEW y \in Int, NEW m \in Nat \ {0}
  PROVE  ((x % m) + y) % m = (x + y) % m
  <1> DEFINE q == x \div m
             r == x % m
             k == (r + y) \div m
             s == (r + y) % m
  <1>1. x = m * q + r /\ q \in Int /\ r \in Int
    BY DivMod
  <1>2. r + y \in Int
    BY <1>1
  <1> HIDE DEF q, r
  <1>3. r + y = m * k + s /\ k \in Int
    BY <1>2, DivMod
  <1>4. s \in 0 .. m - 1
    BY <1>2, ModRange
  <1> HIDE DEF k, s
  <1>5. x + y = m * (q + k) + s /\ q + k \in Int /\ x + y \in Int
    BY <1>1, <1>3, <1>4
  <1>6. (x + y) % m = s
    BY <1>4, <1>5, RemainderIs
  <1> QED
    BY <1>6 DEF s, r

LEMMA NextWraps ==
  ASSUME NEW x \in Int, NEW m \in Nat \ {0}
  PROVE  ((x % m) + 1) % m = (x + 1) % m
  <1> DEFINE y == 1
  <1>1. y \in Int
    OBVIOUS
  <1> HIDE DEF y
  <1>2. ((x % m) + y) % m = (x + y) % m
    BY <1>1, WrapTwice
  <1> QED
    BY <1>2 DEF y

(* Positions less than a lap apart are different slots.                    *)
LEMMA SlotsDiffer ==
  ASSUME NEW x \in Int, NEW y \in Int, NEW m \in Nat \ {0}, x < y, y - x < m
  PROVE  x % m # y % m
  <1> SUFFICES ASSUME x % m = y % m PROVE FALSE
    OBVIOUS
  <1> DEFINE j == x \div m
             k == y \div m
             r == x % m
  <1>1. x = m * j + r /\ j \in Int /\ r \in Int
    BY DivMod
  <1>2. y = m * k + r /\ k \in Int
    BY DivMod
  <1> HIDE DEF j, k, r
  <1>3. y - x = m * (k - j) /\ k - j \in Int
    BY <1>1, <1>2
  <1>4. CASE k - j >= 1
    <2>1. m * (k - j) >= m
      BY <1>3, <1>4
    <2> QED
      BY <2>1, <1>3
  <1>5. CASE k - j <= 0
    <2>1. m * (k - j) <= 0
      BY <1>3, <1>5
    <2> QED
      BY <2>1, <1>3
  <1> QED
    BY <1>3, <1>4, <1>5

(* What follows the slot that was read comes one place sooner.             *)
LEMMA NextSlot ==
  ASSUME NEW r \in Nat, NEW M \in Nat \ {0}, NEW i \in Nat \ {0}
  PROVE  (((r + 1) % M) + i - 1) % M = (r + (i + 1) - 1) % M
  <1> DEFINE x == r + 1
             y == i - 1
  <1>1. x \in Int /\ y \in Int /\ x + y = r + (i + 1) - 1
    OBVIOUS
  <1> HIDE DEF x, y
  <1>2. ((x % M) + y) % M = (x + y) % M
    BY <1>1, WrapTwice
  <1>3. x % M \in Int
    BY <1>1, ModRange
  <1>4. (x % M) + i - 1 = (x % M) + y
    BY <1>3 DEF y
  <1>5. ((x % M) + i - 1) % M = (r + (i + 1) - 1) % M
    BY <1>1, <1>2, <1>4
  <1> QED
    BY <1>5 DEF x

LEMMA FunctionIsSeq ==
  ASSUME NEW S, NEW n \in Nat, NEW s \in [1 .. n -> S]
  PROVE  s \in Seq(S) /\ Len(s) = n
  <1>1. s \in Seq(S)
    OBVIOUS
  <1>2. DOMAIN s = 1 .. n /\ Len(s) \in Nat /\ DOMAIN s = 1 .. Len(s)
    BY <1>1, LenProperties
  <1> QED
    BY <1>1, <1>2

(***************************************************************************)
(* The waiting queues, for the modules of the resources                    *)
(***************************************************************************)

(* Of all steps of the processes only STOP changes a waiting queue or a    *)
(* waiting_* pointer.                                                      *)
LEMMA OnlyStopEmptiesQueues ==
  ASSUME Next, ~\E p \in Named : STOP(p)
  PROVE  UNCHANGED <<queue, tracked>>
  BY DEF Next, Service, OtherService, SET_PRIORITY, SUSPEND_SELF, SUSPEND, RESUME, STOP_SELF,
    START, DELAYED_START, Restart, TIMED_WAIT, PERIODIC_WAIT,
    SET_PARTITION_MODE_NORMAL, partition_OS, Tick, waitVars

(* remove_process_from_waiting_queue leaves an empty queue empty.          *)
LEMMA EmptyStaysEmpty == \A p : RemoveFirst(<<>>, p) = <<>>
  <1> TAKE p
  <1>1. ~\E i \in 1 .. Len(<<>>) : <<>>[i] = p
    OBVIOUS
  <1> QED
    BY <1>1 DEF RemoveFirst

(* No step of the processes puts a process on a queue.                     *)
LEMMA StepsKeepEmpty ==
  ASSUME DOMAIN queue = Resources, Next
  PROVE  /\ DOMAIN queue' = Resources
         /\ \A r \in Resources : queue[r] = <<>> => queue'[r] = <<>>
  <1>1. ASSUME NEW p \in Named, STOP(p)
        PROVE  /\ DOMAIN queue' = Resources
               /\ \A r \in Resources : queue[r] = <<>> => queue'[r] = <<>>
    <2>1. queue' = [r \in Resources |->
               IF r \in tracked[p] THEN RemoveFirst(queue[r], p) ELSE queue[r]]
      BY <1>1 DEF STOP, remove_process_from_waiting_queue
    <2> QED
      BY <2>1, EmptyStaysEmpty
  <1>2. CASE ~\E p \in Named : STOP(p)
    BY <1>2, OnlyStopEmptiesQueues
  <1> QED
    BY <1>1, <1>2

(* The running process joins a queue: it becomes a member, once if it was  *)
(* none, and a queue sorted by priority stays sorted.                      *)
Sorted(s) ==
  \A i, j \in 1 .. Len(s) : i < j => priority[s[j]] <= priority[s[i]]

LEMMA InsertKeepsSorted ==
  ASSUME NEW s \in Seq(Procs), NEW r \in Seq(Procs), NEW e \in Procs, NEW k \in 1 .. Len(s) + 1,
         priority \in [Procs -> Nat],
         Inserted(r, s, k, e),
         \A i \in 1 .. Len(s) : i < k => priority[e] <= priority[s[i]],
         k <= Len(s) => priority[s[k]] < priority[e],
         Sorted(s)
  PROVE  Sorted(r)
  <1>1. Len(s) \in Nat /\ Len(r) = Len(s) + 1 /\ k \in Nat
    BY LenProperties DEF Inserted
  <1>2. \A i \in 1 .. Len(s) : s[i] \in Procs /\ priority[s[i]] \in Nat
    BY ElementOfSeq
  <1>3. \A i \in 1 .. Len(s) + 1 :
          r[i] = IF i < k THEN s[i] ELSE IF i = k THEN e ELSE s[i - 1]
    BY DEF Inserted
  <1>4. ASSUME NEW i \in 1 .. Len(s), k <= i PROVE priority[s[i]] <= priority[e]
    <2>1. k \in 1 .. Len(s) /\ priority[s[k]] < priority[e]
      BY <1>1, <1>4
    <2>2. priority[s[i]] <= priority[s[k]]
      BY <2>1, <1>1, <1>2, <1>4 DEF Sorted
    <2> QED
      BY <2>1, <2>2, <1>2
  <1>5. priority[e] \in Nat
    OBVIOUS
  <1>6. ASSUME NEW i \in 1 .. Len(s) + 1, NEW j \in 1 .. Len(s) + 1, i < j
        PROVE  priority[r[j]] <= priority[r[i]]
    <2>1. CASE j < k
      <3>1. i \in 1 .. Len(s) /\ j \in 1 .. Len(s) /\ i < k
        BY <1>1, <1>6, <2>1
      <3> QED
        BY <3>1, <2>1, <1>3, <1>6 DEF Sorted
    <2>2. CASE j = k
      <3>1. i \in 1 .. Len(s) /\ i < k /\ ~(j < k)
        BY <1>1, <1>6, <2>2
      <3> QED
        BY <3>1, <2>2, <1>3
    <2>3. CASE k < j /\ i < k
      <3>1. i \in 1 .. Len(s) /\ j - 1 \in 1 .. Len(s) /\ i < j - 1 /\ ~(j < k) /\ j # k
        BY <1>1, <1>6, <2>3
      <3>2. r[i] = s[i] /\ r[j] = s[j - 1]
        BY <3>1, <2>3, <1>3
      <3> QED
        BY <3>1, <3>2 DEF Sorted
    <2>4. CASE k < j /\ i = k
      <3>1. j - 1 \in 1 .. Len(s) /\ k <= j - 1 /\ ~(j < k) /\ j # k /\ ~(i < k)
        BY <1>1, <1>6, <2>4
      <3>2. r[i] = e /\ r[j] = s[j - 1]
        BY <3>1, <2>4, <1>3
      <3> QED
        BY <3>1, <3>2, <1>4
    <2>5. CASE k < j /\ k < i
      <3>1. /\ i - 1 \in 1 .. Len(s) /\ j - 1 \in 1 .. Len(s) /\ i - 1 < j - 1
            /\ ~(j < k) /\ j # k /\ ~(i < k) /\ i # k
        BY <1>1, <1>6, <2>5
      <3>2. r[i] = s[i - 1] /\ r[j] = s[j - 1]
        BY <3>1, <1>3
      <3> QED
        BY <3>1, <3>2 DEF Sorted
    <2> QED
      BY <2>1, <2>2, <2>3, <2>4, <2>5, <1>1
  <1> QED
    BY <1>1, <1>6 DEF Sorted

LEMMA EnqueueProperties ==
  ASSUME TypeOK, NEW r \in Resources, NEW sorted \in BOOLEAN, current \in Procs,
         EnqueueBy(r, sorted)
  PROVE  /\ queue' \in [Resources -> Seq(Procs)]
         /\ \A x \in Resources \ {r} : queue'[x] = queue[x]
         /\ ToSet(queue'[r]) = ToSet(queue[r]) \cup {current}
         /\ Distinct(queue[r]) /\ current \notin ToSet(queue[r]) => Distinct(queue'[r])
         /\ sorted /\ Sorted(queue[r]) => Sorted(queue'[r])
  <1> DEFINE s == queue[r]
             n == IF sorted THEN list_insert_sorted(s, current) ELSE Append(s, current)
  <1>1. s \in Seq(Procs) /\ priority \in [Procs -> Nat]
    BY DEF TypeOK
  <1>2. queue' = [queue EXCEPT ![r] = n]
    BY DEF EnqueueBy
  <1>3. /\ n \in Seq(Procs)
        /\ \E k \in 1 .. Len(s) + 1 : Inserted(n, s, k, current)
        /\ sorted /\ Sorted(s) => Sorted(n)
    <2>1. CASE sorted
      <3> DEFINE l == list_insert_sorted(s, current)
      <3>1. n = l
        BY <2>1
      <3>2. /\ l \in Seq(Procs)
            /\ \E k \in 1 .. Len(s) + 1 :
                 /\ Inserted(l, s, k, current)
                 /\ \A i \in 1 .. Len(s) : i < k => priority[current] <= priority[s[i]]
                 /\ k <= Len(s) => priority[s[k]] < priority[current]
        BY <1>1, InsertSortedInserts
      <3> HIDE DEF l, s, n
      <3> QED
        BY <3>1, <3>2, <1>1, InsertKeepsSorted
    <2>2. CASE ~sorted
      <3>1. n = Append(s, current)
        BY <2>2
      <3>2. n \in Seq(Procs) /\ Inserted(n, s, Len(s) + 1, current)
        BY <3>1, <1>1, AppendInserts
      <3>3. Len(s) + 1 \in 1 .. Len(s) + 1
        BY <1>1, LenProperties
      <3> HIDE DEF s, n
      <3> QED
        BY <3>2, <3>3, <2>2
    <2> QED
      BY <2>1, <2>2
  <1> HIDE DEF n
  <1>4. queue'[r] = n /\ queue' \in [Resources -> Seq(Procs)]
        /\ \A x \in Resources \ {r} : queue'[x] = queue[x]
    BY <1>2, <1>3 DEF TypeOK
  <1>5. /\ ToSet(n) = ToSet(s) \cup {current}
        /\ Distinct(s) /\ current \notin ToSet(s) => Distinct(n)
    BY <1>1, <1>3, InsertedProperties
  <1> QED
    BY <1>3, <1>4, <1>5

(* A wait keeps the types.                                                 *)
LEMMA WaitForType ==
  ASSUME TypeOK, NEW r \in Resources, NEW sorted \in BOOLEAN, NEW t \in Timeouts,
         NEW ptrs \in SUBSET Resources, NEW plain \in Doing, NEW timed \in Doing,
         current \in Procs, WaitFor(r, sorted, t, ptrs, plain, timed)
  PROVE  TypeOK'
  <1>1. t \in Nat \cup {INFINITE}
    BY TimeAssumption
  <1>2. state' \in [Procs -> States] /\ timer' \in [Procs -> Nat \cup {INFINITE, NoTimer}]
    BY <1>1 DEF WaitFor, Arm, TypeOK, States
  <1>3. queue' \in [Resources -> Seq(Procs)]
    BY EnqueueProperties DEF WaitFor
  <1>4. tracked' \in [Procs -> SUBSET Resources] /\ call' \in [Procs -> Doing]
    BY DEF WaitFor, TypeOK
  <1> QED
    BY <1>2, <1>3, <1>4 DEF WaitFor, yield_to_partition, TypeOK

(* A process that waits yields, and leaves no stopped process a timer.     *)
LEMMA WaitForYields ==
  ASSUME TypeOK, NEW r, NEW sorted, NEW t, NEW ptrs, NEW plain, NEW timed,
         current \in Procs, WaitFor(r, sorted, t, ptrs, plain, timed)
  PROVE  Yields /\ TimersCleared
  BY DEF WaitFor, yield_to_partition, Yields, TimersCleared, Arm, TypeOK

(* The first process leaves the queue of r.                                *)
LEMMA DequeueProperties ==
  ASSUME TypeOK, NEW r \in Resources, queue[r] # <<>>,
         queue' = [queue EXCEPT ![r] = Tail(queue[r])]
  PROVE  /\ Head(queue[r]) \in Procs
         /\ queue' \in [Resources -> Seq(Procs)]
         /\ \A x \in Resources \ {r} : queue'[x] = queue[x]
         /\ Head(queue[r]) \in ToSet(queue[r])
         /\ ToSet(queue'[r]) \subseteq ToSet(queue[r])
         /\ ToSet(queue[r]) \subseteq ToSet(queue'[r]) \cup {Head(queue[r])}
         /\ Distinct(queue[r]) =>
              Distinct(queue'[r]) /\ Head(queue[r]) \notin ToSet(queue'[r])
  <1>1. queue[r] \in Seq(Procs)
    BY DEF TypeOK
  <1> DEFINE s == queue[r]
             t == Tail(s)
  <1>2. /\ Head(s) \in Procs /\ Head(s) \in ToSet(s)
        /\ t \in Seq(Procs)
        /\ ToSet(t) \subseteq ToSet(s)
        /\ ToSet(s) \subseteq ToSet(t) \cup {Head(s)}
        /\ Distinct(s) => Distinct(t) /\ Head(s) \notin ToSet(t)
    BY <1>1, TailProperties
  <1> HIDE DEF t
  <1>3. /\ queue'[r] = t
        /\ queue' \in [Resources -> Seq(Procs)]
        /\ \A x \in Resources \ {r} : queue'[x] = queue[x]
    BY <1>2 DEF TypeOK, t
  <1> QED
    BY <1>2, <1>3

(* The caller of a service is RUNNING.                                     *)
LEMMA CallerRuns ==
  ASSUME SchedInv, NEW s, Calls(s)
  PROVE  current \in Procs /\ exec = "proc" /\ state[current] = "RUNNING"
  BY CallerType DEF SchedInv, RunningIsCurrent

(* What the scheduler writes: only READY and RUNNING processes change      *)
(* their state, and only the process it dispatches returns from its call.  *)
LEMMA ScheduleKeeps ==
  ASSUME TypeOK, NEW st \in [Procs -> States], process_schedule(st), NEW p \in Procs,
         st[p] \notin {"READY", "RUNNING"}
  PROVE  state'[p] = st[p] /\ call'[p] = call[p]
  <1>1. Demoted(st)[p] = st[p] /\ Demoted(st) \in [Procs -> States]
    BY DEF Demoted, States
  <1> DEFINE demoted == Demoted(st)
             ready == {q \in ToSet(order) : demoted[q] = "READY"}
  <1>2. p \notin ready
    BY <1>1
  <1> HIDE DEF demoted
  <1>3. \/ state' = demoted /\ UNCHANGED call
        \/ \E q \in ready : /\ state' = [demoted EXCEPT ![q] = "RUNNING"]
                            /\ call' = [call EXCEPT ![q] = IF @ \in RcOnly THEN "app" ELSE @]
    BY DEF process_schedule, demoted
  <1> QED
    BY <1>1, <1>2, <1>3 DEF TypeOK, demoted

(* A process that waits for something other than time keeps waiting in its *)
(* call: no service but STOP and RESUME, and nothing in arinc_time_update_ *)
(* partition but its own timer or release point, ends the wait.            *)
LEMMA WaitingStaysWaiting ==
  ASSUME SchedInv, Next, exec # "main", NEW p \in Procs,
         state[p] = "WAITING", ~suspended[p], ~Released(p), ~Expired(p), ~STOP(p)
  PROVE  state'[p] = "WAITING" /\ call'[p] = call[p] /\ tracked'[p] = tracked[p]
  <1>t. /\ TypeOK
        /\ state \in [Procs -> States] /\ call \in [Procs -> Doing]
        /\ tracked \in [Procs -> SUBSET Resources]
    BY DEF SchedInv, TypeOK
  <1>c. ASSUME NEW s, Calls(s) PROVE current \in Procs /\ p # current
    BY <1>c, CallerRuns
  <1>1. CASE Tick
    BY <1>1, <1>t DEF Tick, waitVars
  <1>2. CASE partition_OS
    <2>1. PICK st \in {state, StateAfterUpdate} : process_schedule(st) /\ tracked' = tracked
      BY <1>2 DEF partition_OS
    <2>2. st \in [Procs -> States] /\ st[p] = "WAITING"
      <3>1. StateAfterUpdate \in [Procs -> States] /\ StateAfterUpdate[p] = "WAITING"
        BY UpdateStates DEF StateAfterUpdate
      <3> QED
        BY <3>1, <1>t
    <2>3. state'[p] = st[p] /\ call'[p] = call[p]
      BY <1>t, <2>1, <2>2, ScheduleKeeps
    <2> QED
      BY <2>1, <2>2, <2>3
  <1>3. ASSUME NEW q \in Named, NEW v \in Priorities, SET_PRIORITY(q, v)
        PROVE  state'[p] = "WAITING" /\ call'[p] = call[p] /\ tracked'[p] = tracked[p]
    BY <1>3 DEF SET_PRIORITY, waitVars
  <1>4. ASSUME NEW t \in Timeouts, SUSPEND_SELF(t) \/ TIMED_WAIT(t)
        PROVE  state'[p] = "WAITING" /\ call'[p] = call[p] /\ tracked'[p] = tracked[p]
    BY <1>4, <1>c, <1>t DEF SUSPEND_SELF, TIMED_WAIT
  <1>5. ASSUME NEW q \in Named, SUSPEND(q) \/ RESUME(q)
        PROVE  state'[p] = "WAITING" /\ call'[p] = call[p] /\ tracked'[p] = tracked[p]
    BY <1>5, <1>c, <1>t DEF SUSPEND, RESUME, waitVars
  <1>6. CASE STOP_SELF \/ PERIODIC_WAIT
    BY <1>6, <1>c, <1>t DEF STOP_SELF, PERIODIC_WAIT, Halt, waitVars
  <1>7. ASSUME NEW q \in Named, STOP(q)
        PROVE  state'[p] = "WAITING" /\ call'[p] = call[p] /\ tracked'[p] = tracked[p]
    BY <1>7, <1>c, <1>t DEF STOP, Halt, remove_process_from_waiting_queue
  <1>8. ASSUME NEW q \in Named, START(q) \/ \E d \in Timeouts : DELAYED_START(q, d)
        PROVE  state'[p] = "WAITING" /\ call'[p] = call[p] /\ tracked'[p] = tracked[p]
    <2>1. p # q /\ tracked' = tracked /\ call' = [call EXCEPT ![q] = "app"]
      BY <1>8 DEF START, DELAYED_START, Restart
    <2>2. \E x \in States : state' = [state EXCEPT ![q] = x]
      BY <1>8 DEF START, DELAYED_START, AwaitRelease, States
    <2> QED
      BY <1>t, <2>1, <2>2
  <1>9. CASE SET_PARTITION_MODE_NORMAL
    BY <1>9 DEF SET_PARTITION_MODE_NORMAL
  <1> QED
    BY <1>1, <1>2, <1>3, <1>4, <1>5, <1>6, <1>7, <1>8, <1>9 DEF Next, Service, OtherService

(* Steps of the processes only take entries off the queues: STOP those of  *)
(* the process it stops, on the queues its waiting_* pointers name.        *)
LEMMA StepsShrinkQueues ==
  ASSUME TypeOK, Next, NEW r \in Resources
  PROVE  /\ ToSet(queue'[r]) \subseteq ToSet(queue[r])
         /\ Distinct(queue[r]) => Distinct(queue'[r])
         /\ \A p \in Procs : STOP(p) /\ r \in tracked[p] /\ Distinct(queue[r])
              => p \notin ToSet(queue'[r])
         /\ \A p \in Procs : tracked'[p] \in {tracked[p], {}}
  <1>1. queue[r] \in Seq(Procs) /\ tracked \in [Procs -> SUBSET Resources]
    BY DEF TypeOK
  <1>2. ASSUME NEW p \in Procs, STOP(p)
        PROVE  /\ ToSet(queue'[r]) \subseteq ToSet(queue[r])
               /\ Distinct(queue[r]) => Distinct(queue'[r])
               /\ r \in tracked[p] /\ Distinct(queue[r]) => p \notin ToSet(queue'[r])
               /\ \A q \in Procs : tracked'[q] \in {tracked[q], {}}
    <2>1. /\ queue'[r] = IF r \in tracked[p] THEN RemoveFirst(queue[r], p) ELSE queue[r]
          /\ tracked' = [tracked EXCEPT ![p] = {}]
      BY <1>2 DEF STOP, remove_process_from_waiting_queue
    <2>2. \A q \in Procs : tracked'[q] \in {tracked[q], {}}
      BY <1>1, <2>1
    <2>3. CASE r \notin tracked[p]
      BY <2>1, <2>2, <2>3
    <2>4. CASE r \in tracked[p]
      <3> DEFINE s == queue[r]
                 n == RemoveFirst(s, p)
      <3>1. ToSet(n) \subseteq ToSet(s)
        BY <1>1, RemoveFirstProperties
      <3>2. Distinct(s) => Distinct(n) /\ ToSet(n) = ToSet(s) \ {p}
        BY <1>1, RemoveFirstDistinct
      <3>3. queue'[r] = n
        BY <2>1, <2>4
      <3> HIDE DEF n
      <3> QED
        BY <2>2, <3>1, <3>2, <3>3
    <2> QED
      BY <2>3, <2>4
  <1>3. CASE \E p \in Procs : STOP(p)
    BY <1>2, <1>3
  <1>4. CASE ~\E p \in Procs : STOP(p)
    <2>1. ~\E p \in Named : STOP(p)
      BY <1>4 DEF Named
    <2> QED
      BY <1>4, <2>1, OnlyStopEmptiesQueues
  <1> QED
    BY <1>3, <1>4

(* The entry point never gets the processor back.                          *)
LEMMA MainIsLeft ==
  ASSUME Next, exec' = "main"
  PROVE  exec = "main"
  BY DEF Next, Service, OtherService, SET_PRIORITY, SUSPEND_SELF, SUSPEND, RESUME, STOP_SELF,
    STOP, START, DELAYED_START, Restart, AwaitRelease, TIMED_WAIT, PERIODIC_WAIT,
    SET_PARTITION_MODE_NORMAL, partition_OS, process_schedule, Tick, schedVars,
    yield_to_partition

(* A READY or RUNNING process stays so in the scheduler, and returns at    *)
(* most from a call that has nothing left to do but its return code.       *)
LEMMA ScheduleKeepsWorking ==
  ASSUME TypeOK, NEW st \in [Procs -> States], process_schedule(st), NEW p \in Procs,
         st[p] \in {"READY", "RUNNING"}
  PROVE  /\ state'[p] \in {"READY", "RUNNING"}
         /\ call'[p] = call[p] \/ call[p] \in RcOnly
  <1> DEFINE demoted == Demoted(st)
             ready == {q \in ToSet(order) : demoted[q] = "READY"}
  <1>1. demoted \in [Procs -> States] /\ demoted[p] \in {"READY", "RUNNING"}
    BY DEF Demoted, States
  <1> HIDE DEF demoted
  <1>2. \/ state' = demoted /\ UNCHANGED call
        \/ \E q \in ready : /\ state' = [demoted EXCEPT ![q] = "RUNNING"]
                            /\ call' = [call EXCEPT ![q] = IF @ \in RcOnly THEN "app" ELSE @]
    BY DEF process_schedule, demoted
  <1> QED
    BY <1>1, <1>2 DEF TypeOK, demoted

(* A process that owns a mutex is neither made to wait nor given another   *)
(* priority: every service that would do so asks for owned_mutex_id first. *)
(* (STOP does not ask.)                                                    *)
LEMMA OwnerKeepsWorking ==
  ASSUME SchedInv, Next, NEW p \in Procs, owned[p] # None,
         state[p] \in {"READY", "RUNNING"}, state'[p] # "DORMANT"
  PROVE  /\ state'[p] \in {"READY", "RUNNING"}
         /\ priority'[p] = priority[p]
         /\ call'[p] = call[p] \/ call[p] \in RcOnly
  <1> DEFINE Kept == /\ state'[p] \in {"READY", "RUNNING"}
                     /\ priority'[p] = priority[p]
                     /\ call'[p] = call[p] \/ call[p] \in RcOnly
  <1>t. /\ TypeOK
        /\ state \in [Procs -> States] /\ call \in [Procs -> Doing]
        /\ priority \in [Procs -> Nat]
    BY DEF SchedInv, TypeOK
  <1>c. ASSUME NEW s, Calls(s) PROVE current \in Procs /\ (MayWait => p # current)
    BY <1>c, CallerRuns DEF MayWait
  <1>1. CASE Tick
    BY <1>1 DEF Tick, waitVars
  <1>2. CASE partition_OS
    <2>1. PICK st \in {state, StateAfterUpdate} : process_schedule(st) /\ priority' = priority
      BY <1>2 DEF partition_OS
    <2>2. st \in [Procs -> States] /\ st[p] \in {"READY", "RUNNING"}
      <3>1. StateAfterUpdate \in [Procs -> States] /\ StateAfterUpdate[p] \in {"READY", "RUNNING"}
        BY UpdateStates DEF StateAfterUpdate
      <3> QED
        BY <3>1, <1>t
    <2> QED
      BY <1>t, <2>1, <2>2, ScheduleKeepsWorking
  <1>3. ASSUME NEW q \in Named, NEW v \in Priorities, SET_PRIORITY(q, v) PROVE Kept
    BY <1>3, <1>t DEF SET_PRIORITY, waitVars
  <1>4. ASSUME NEW t \in Timeouts, SUSPEND_SELF(t) \/ TIMED_WAIT(t) PROVE Kept
    BY <1>4, <1>c, <1>t DEF SUSPEND_SELF, TIMED_WAIT
  <1>5. ASSUME NEW q \in Named, SUSPEND(q) \/ RESUME(q) PROVE Kept
    BY <1>5, <1>t DEF SUSPEND, RESUME, waitVars
  <1>6. CASE STOP_SELF \/ PERIODIC_WAIT
    BY <1>6, <1>c, <1>t DEF STOP_SELF, PERIODIC_WAIT, Halt, waitVars
  <1>7. ASSUME NEW q \in Named, STOP(q) PROVE Kept
    BY <1>7, <1>t DEF STOP, Halt
  <1>8. ASSUME NEW q \in Named, START(q) \/ \E d \in Timeouts : DELAYED_START(q, d) PROVE Kept
    <2>1. /\ p # q /\ call' = [call EXCEPT ![q] = "app"]
          /\ priority' = [priority EXCEPT ![q] = BasePriority[q]]
      BY <1>8 DEF START, DELAYED_START, Restart
    <2>2. \E x \in States : state' = [state EXCEPT ![q] = x]
      BY <1>8 DEF START, DELAYED_START, AwaitRelease, States
    <2> QED
      BY <1>t, <2>1, <2>2
  <1>9. CASE SET_PARTITION_MODE_NORMAL
    BY <1>9 DEF SET_PARTITION_MODE_NORMAL, StartsNow, waitVars
  <1> QED
    BY <1>1, <1>2, <1>3, <1>4, <1>5, <1>6, <1>7, <1>8, <1>9 DEF Next, Service, OtherService

(* Nothing but the health monitor starts the error handler.                *)
LEMMA HandlerStaysDormant ==
  ASSUME SchedInv, Next, ErrorHandler \in Procs, state[ErrorHandler] = "DORMANT"
  PROVE  state'[ErrorHandler] = "DORMANT"
  <1>t. TypeOK /\ state \in [Procs -> States] /\ ErrorHandler \notin Named
    BY DEF SchedInv, TypeOK, Named
  <1>c. ASSUME NEW s, Calls(s) PROVE current \in Procs /\ ErrorHandler # current
    BY <1>c, CallerRuns
  <1>1. CASE partition_OS
    BY <1>1, OSKeepsSched
  <1>2. CASE Tick \/ SET_PARTITION_MODE_NORMAL
    BY <1>2 DEF Tick, SET_PARTITION_MODE_NORMAL, StartsNow
  <1>3. ASSUME NEW q \in Named,
               \/ SUSPEND(q) \/ RESUME(q) \/ STOP(q) \/ START(q)
               \/ \E d \in Timeouts : DELAYED_START(q, d)
               \/ \E v \in Priorities : SET_PRIORITY(q, v)
        PROVE  state'[ErrorHandler] = "DORMANT"
    <2>1. state' = state \/ \E x \in States : state' = [state EXCEPT ![q] = x]
      BY <1>3 DEF SUSPEND, RESUME, STOP, Halt, START, DELAYED_START, AwaitRelease,
           SET_PRIORITY, States
    <2> QED
      BY <1>t, <2>1
  <1>4. ASSUME STOP_SELF \/ PERIODIC_WAIT
               \/ \E t \in Timeouts : SUSPEND_SELF(t) \/ TIMED_WAIT(t)
        PROVE  state'[ErrorHandler] = "DORMANT"
    BY <1>4, <1>c, <1>t DEF STOP_SELF, PERIODIC_WAIT, SUSPEND_SELF, TIMED_WAIT, Halt
  <1> QED
    BY <1>1, <1>2, <1>3, <1>4 DEF Next, Service, OtherService


(***************************************************************************)
(* Queues with stale entries: p occurs at most once in s, whatever other   *)
(* processes do.                                                           *)
(***************************************************************************)

Once(s, p) == \A i, j \in 1 .. Len(s) : s[i] = p /\ s[j] = p => i = j

(* r is s without some of its entries, in the same order.                  *)
Thinned(r, s) ==
  \E from \in [1 .. Len(r) -> 1 .. Len(s)] :
    /\ \A i \in 1 .. Len(r) : r[i] = s[from[i]]
    /\ \A i, j \in 1 .. Len(r) : i < j => from[i] < from[j]

LEMMA TailThinned ==
  ASSUME NEW S, NEW s \in Seq(S), s # <<>>
  PROVE  Thinned(Tail(s), s) /\ (Once(s, Head(s)) => Head(s) \notin ToSet(Tail(s)))
  <1> DEFINE t == Tail(s)
             from == [i \in 1 .. Len(t) |-> i + 1]
  <1>1. Len(s) \in Nat \ {0}
    BY EmptySeq
  <1>2. /\ Head(s) = s[1]
        /\ t \in Seq(S)
        /\ Len(t) = Len(s) - 1
        /\ \A i \in 1 .. Len(t) : t[i] = s[i + 1]
    BY HeadTailProperties
  <1> HIDE DEF t
  <1>3. /\ from \in [1 .. Len(t) -> 1 .. Len(s)]
        /\ \A i \in 1 .. Len(t) : from[i] = i + 1 /\ i + 1 \in 1 .. Len(s) /\ i + 1 # 1
        /\ \A i, j \in 1 .. Len(t) : i < j => from[i] < from[j]
    BY <1>1, <1>2
  <1>4. \A i \in 1 .. Len(t) : t[i] = s[from[i]]
    BY <1>2, <1>3
  <1> HIDE DEF from
  <1>5. Thinned(t, s)
    BY <1>3, <1>4 DEF Thinned
  <1>6. ASSUME Once(s, s[1]) PROVE s[1] \notin ToSet(t)
    <2>1. ToSet(t) = {t[i] : i \in 1 .. Len(t)}
      BY <1>2, ToSetOfSeq
    <2>2. 1 \in 1 .. Len(s)
      BY <1>1
    <2>3. ASSUME NEW i \in 1 .. Len(t) PROVE t[i] # s[1]
      BY <1>2, <1>3, <1>6, <2>2 DEF Once
    <2> QED
      BY <2>1, <2>3
  <1> QED
    BY <1>2, <1>5, <1>6 DEF t

LEMMA RemoveFirstThinned ==
  ASSUME NEW S, NEW s \in Seq(S), NEW e
  PROVE  /\ Thinned(RemoveFirst(s, e), s)
         /\ Once(s, e) => e \notin ToSet(RemoveFirst(s, e))
  <1> DEFINE r == RemoveFirst(s, e)
  <1>1. Len(s) \in Nat /\ r \in Seq(S)
    BY LenProperties, RemoveFirstProperties
  <1>2. CASE ~\E i \in 1 .. Len(s) : s[i] = e
    <2>1. r = s
      BY <1>2 DEF RemoveFirst
    <2> DEFINE from == [i \in 1 .. Len(s) |-> i]
    <2>2. from \in [1 .. Len(s) -> 1 .. Len(s)] /\ \A i \in 1 .. Len(s) : from[i] = i
      OBVIOUS
    <2> HIDE DEF from
    <2>3. Thinned(s, s)
      BY <2>2 DEF Thinned
    <2>4. e \notin ToSet(s)
      BY <1>2, ToSetOfSeq
    <2> QED
      BY <2>1, <2>3, <2>4
  <1>3. CASE \E i \in 1 .. Len(s) : s[i] = e
    <2>1. PICK k \in 1 .. Len(s) :
            /\ s[k] = e
            /\ Len(r) = Len(s) - 1
            /\ \A i \in 1 .. Len(s) - 1 : r[i] = IF i < k THEN s[i] ELSE s[i + 1]
      BY <1>3, RemoveFirstShape
    <2> HIDE DEF r
    <2> DEFINE from == [i \in 1 .. Len(r) |-> IF i < k THEN i ELSE i + 1]
    <2>2. /\ from \in [1 .. Len(r) -> 1 .. Len(s)]
          /\ \A i \in 1 .. Len(r) : from[i] # k /\ from[i] = IF i < k THEN i ELSE i + 1
          /\ \A i, j \in 1 .. Len(r) : i < j => from[i] < from[j]
      BY <1>1, <2>1
    <2>3. \A i \in 1 .. Len(r) : r[i] = s[from[i]]
      BY <1>1, <2>1, <2>2
    <2> HIDE DEF from
    <2>4. Thinned(r, s)
      BY <2>2, <2>3 DEF Thinned
    <2>5. ToSet(r) = {r[i] : i \in 1 .. Len(r)}
      BY <1>1, ToSetOfSeq
    <2>6. Once(s, e) => e \notin ToSet(r)
      BY <2>1, <2>2, <2>3, <2>5 DEF Once
    <2> QED
      BY <2>4, <2>6 DEF r
  <1> QED
    BY <1>2, <1>3

(* Thinning a queue out keeps it sorted and repeats nobody.                *)
LEMMA ThinnedProperties ==
  ASSUME NEW s \in Seq(Procs), NEW r \in Seq(Procs), Thinned(r, s)
  PROVE  /\ ToSet(r) \subseteq ToSet(s)
         /\ Sorted(s) => Sorted(r)
         /\ \A p : Once(s, p) => Once(r, p)
  <1>1. PICK from \in [1 .. Len(r) -> 1 .. Len(s)] :
          /\ \A i \in 1 .. Len(r) : r[i] = s[from[i]]
          /\ \A i, j \in 1 .. Len(r) : i < j => from[i] < from[j]
    BY DEF Thinned
  <1>2. Len(r) \in Nat /\ Len(s) \in Nat
    BY LenProperties
  <1>3. ToSet(r) \subseteq ToSet(s)
    BY <1>1, ToSetOfSeq
  <1>4. Sorted(s) => Sorted(r)
    BY <1>1 DEF Sorted
  <1>5. ASSUME NEW p, Once(s, p), NEW i \in 1 .. Len(r), NEW j \in 1 .. Len(r),
               r[i] = p, r[j] = p
        PROVE  i = j
    <2>1. from[i] = from[j] /\ from[i] \in 1 .. Len(s)
      BY <1>1, <1>5 DEF Once
    <2>2. ~(i < j) /\ ~(j < i)
      BY <1>1, <1>2, <2>1
    <2> QED
      BY <2>2, <1>2
  <1> QED
    BY <1>3, <1>4, <1>5 DEF Once

(* Joining a queue.                                                        *)
LEMMA InsertedOnce ==
  ASSUME NEW S, NEW s \in Seq(S), NEW r \in Seq(S), NEW e \in S, NEW k,
         Inserted(r, s, k, e), NEW p, Once(s, p), p = e => e \notin ToSet(s)
  PROVE  Once(r, p)
  <1>1. Len(s) \in Nat /\ Len(r) = Len(s) + 1 /\ k \in 1 .. Len(s) + 1
    BY LenProperties DEF Inserted
  <1>2. \A i \in 1 .. Len(s) + 1 :
          r[i] = IF i < k THEN s[i] ELSE IF i = k THEN e ELSE s[i - 1]
    BY DEF Inserted
  <1> DEFINE from(i) == IF i < k THEN i ELSE i - 1
  <1>3. ASSUME NEW i \in 1 .. Len(s) + 1, i # k
        PROVE  from(i) \in 1 .. Len(s) /\ r[i] = s[from(i)]
    <2>1. CASE i < k
      BY <2>1, <1>1, <1>2
    <2>2. CASE i > k
      BY <2>2, <1>1, <1>2
    <2> QED
      BY <1>3, <2>1, <2>2, <1>1
  <1>4. ASSUME NEW i \in 1 .. Len(s) + 1, NEW j \in 1 .. Len(s) + 1,
               i # k, j # k, from(i) = from(j)
        PROVE  i = j
    BY <1>4, <1>1
  <1>5. r[k] = e
    BY <1>1, <1>2
  <1> HIDE DEF from
  <1>6. ToSet(s) = {s[i] : i \in 1 .. Len(s)}
    BY ToSetOfSeq
  <1>7. ASSUME NEW i \in 1 .. Len(s) + 1, NEW j \in 1 .. Len(s) + 1, r[i] = p, r[j] = p
        PROVE  i = j
    <2>1. CASE p = e
      <3>1. i = k /\ j = k
        BY <1>3, <1>6, <1>7, <2>1
      <3> QED
        BY <3>1
    <2>2. CASE p # e
      <3>1. i # k /\ j # k
        BY <1>5, <1>7, <2>2
      <3> QED
        BY <3>1, <1>3, <1>4, <1>7 DEF Once
    <2> QED
      BY <2>1, <2>2
  <1> QED
    BY <1>1, <1>7 DEF Once

LEMMA EnqueueOnce ==
  ASSUME TypeOK, NEW r \in Resources, NEW sorted \in BOOLEAN, current \in Procs,
         EnqueueBy(r, sorted), NEW p, Once(queue[r], p),
         p = current => p \notin ToSet(queue[r])
  PROVE  Once(queue'[r], p)
  <1> DEFINE s == queue[r]
             n == IF sorted THEN list_insert_sorted(s, current) ELSE Append(s, current)
  <1>1. s \in Seq(Procs) /\ priority \in [Procs -> Nat]
    BY DEF TypeOK
  <1>2. queue'[r] = n
    BY DEF EnqueueBy, TypeOK
  <1>3. n \in Seq(Procs) /\ \E k : Inserted(n, s, k, current)
    <2>1. CASE sorted
      <3> DEFINE l == list_insert_sorted(s, current)
      <3>1. n = l
        BY <2>1
      <3>2. l \in Seq(Procs) /\ \E k \in 1 .. Len(s) + 1 : Inserted(l, s, k, current)
        BY <1>1, InsertSortedInserts
      <3> HIDE DEF l, s, n
      <3> QED
        BY <3>1, <3>2
    <2>2. CASE ~sorted
      <3>1. n = Append(s, current)
        BY <2>2
      <3>2. n \in Seq(Procs) /\ Inserted(n, s, Len(s) + 1, current)
        BY <3>1, <1>1, AppendInserts
      <3> HIDE DEF s, n
      <3> QED
        BY <3>2
    <2> QED
      BY <2>1, <2>2
  <1> HIDE DEF n
  <1> QED
    BY <1>1, <1>2, <1>3, InsertedOnce

(* The first process leaves the queue of r, or STOP takes p off it.        *)
LEMMA QueueThinned ==
  ASSUME TypeOK, NEW r \in Resources,
         \/ queue[r] # <<>> /\ queue'[r] = Tail(queue[r])
         \/ queue'[r] = queue[r]
         \/ \E p : queue'[r] = RemoveFirst(queue[r], p)
  PROVE  /\ ToSet(queue'[r]) \subseteq ToSet(queue[r])
         /\ Sorted(queue[r]) => \A i, j \in 1 .. Len(queue'[r]) :
                                  i < j => priority[queue'[r][j]] <= priority[queue'[r][i]]
         /\ \A q : Once(queue[r], q) => Once(queue'[r], q)
  <1> DEFINE s == queue[r]
             n == queue'[r]
  <1>1. s \in Seq(Procs)
    BY DEF TypeOK
  <1> HIDE DEF s, n
  <1>2. CASE n = s
    BY <1>2 DEF s, n, Sorted
  <1>3. CASE s # <<>> /\ n = Tail(s)
    <2>1. n \in Seq(Procs) /\ Thinned(n, s)
      BY <1>1, <1>3, TailThinned, TailProperties
    <2>2. /\ ToSet(n) \subseteq ToSet(s)
          /\ Sorted(s) => Sorted(n)
          /\ \A p : Once(s, p) => Once(n, p)
      BY <1>1, <2>1, ThinnedProperties
    <2> QED
      BY <2>2 DEF Sorted, s, n
  <1>4. CASE \E p : n = RemoveFirst(s, p)
    <2>1. n \in Seq(Procs) /\ Thinned(n, s)
      BY <1>1, <1>4, RemoveFirstThinned, RemoveFirstProperties
    <2>2. /\ ToSet(n) \subseteq ToSet(s)
          /\ Sorted(s) => Sorted(n)
          /\ \A p : Once(s, p) => Once(n, p)
      BY <1>1, <2>1, ThinnedProperties
    <2> QED
      BY <2>2 DEF Sorted, s, n
  <1> QED
    BY <1>2, <1>3, <1>4 DEF s, n

(* Steps of the processes thin the queues out.                             *)
LEMMA StepsThinQueues ==
  ASSUME TypeOK, Next, NEW r \in Resources
  PROVE  queue'[r] = queue[r] \/ \E p : queue'[r] = RemoveFirst(queue[r], p)
  <1>1. ASSUME NEW p \in Named, STOP(p)
        PROVE  queue'[r] = queue[r] \/ queue'[r] = RemoveFirst(queue[r], p)
    BY <1>1 DEF STOP, remove_process_from_waiting_queue
  <1>2. CASE \E p \in Named : STOP(p)
    BY <1>1, <1>2
  <1>3. CASE ~\E p \in Named : STOP(p)
    BY <1>3, OnlyStopEmptiesQueues
  <1> QED
    BY <1>2, <1>3


(***************************************************************************)
(* Processes that no timer, release point or resumption will wake          *)
(***************************************************************************)

(* An aperiodic process that is not suspended: a delayed start or a timer  *)
(* is pending only while it waits for just that.                           *)
Calm(p) ==
  /\ ~suspended[p] /\ state[p] # "FAULTED"
  /\ init_delay[p] # 0 => state[p] = "WAITING" /\ call[p] = "app" /\ timer[p] = NoTimer
  /\ timer[p] # NoTimer => state[p] = "WAITING" /\ call[p] \in {"app", "TIMED_WAIT"}
  /\ exec = "main" => timer[p] = NoTimer

(* Calls that end only by what the service waits for.                      *)
Blocking == Doing \ (RcOnly \cup {"app"})

(* No process enters such a call by a step of the processes alone.         *)
LEMMA CallsKept ==
  ASSUME TypeOK, Next, NEW p \in Procs, call'[p] \in Blocking
  PROVE  call'[p] = call[p]
  <1>t. call \in [Procs -> Doing] /\ "app" \notin Blocking /\ RcOnly \cap Blocking = {}
    BY DEF TypeOK, Blocking
  <1>1. CASE Tick
    BY <1>1 DEF Tick, waitVars
  <1>2. CASE partition_OS
    BY <1>2, <1>t DEF partition_OS, process_schedule
  <1>3. ASSUME NEW q \in Named, START(q) \/ \E d \in Timeouts : DELAYED_START(q, d)
        PROVE  call'[p] = call[p]
    BY <1>3, <1>t DEF START, DELAYED_START, Restart
  <1>4. ASSUME NEW t \in Timeouts, SUSPEND_SELF(t) \/ TIMED_WAIT(t) PROVE call'[p] = call[p]
    BY <1>4, <1>t DEF SUSPEND_SELF, TIMED_WAIT, RcOnly
  <1>5. CASE PERIODIC_WAIT
    BY <1>5, <1>t DEF PERIODIC_WAIT, RcOnly
  <1>6. CASE call' = call
    BY <1>6
  <1> QED
    BY <1>1, <1>2, <1>3, <1>4, <1>5, <1>6
    DEF Next, Service, OtherService, SET_PRIORITY, SUSPEND, RESUME, STOP_SELF, STOP,
        SET_PARTITION_MODE_NORMAL, waitVars

LEMMA CalmStep ==
  ASSUME SchedInv, Next, NEW p \in Aperiodic, Calm(p), ~suspended'[p],
         state'[p] = "DORMANT" => state[p] = "DORMANT" \/ init_delay[p] = 0
  PROVE  Calm(p)'
  <1>t. /\ TypeOK /\ p \in Procs /\ p \notin Periodic
        /\ state \in [Procs -> States] /\ call \in [Procs -> Doing]
        /\ timer \in [Procs -> Nat \cup {INFINITE, NoTimer}]
        /\ suspended \in [Procs -> BOOLEAN]
        /\ init_delay \in [Procs -> Nat]
        /\ -2 \notin Nat
    BY DEF SchedInv, TypeOK, Aperiodic
  <1>c. ASSUME NEW s, Calls(s) PROVE current \in Procs /\ state[current] = "RUNNING"
    BY <1>c, CallerRuns
  <1>r. state[p] # "WAITING" => timer[p] = NoTimer /\ init_delay[p] = 0
    BY DEF Calm
  <1> DEFINE Same == /\ state'[p] = state[p] /\ call'[p] = call[p]
                     /\ timer'[p] = timer[p] /\ init_delay'[p] = init_delay[p]
             Idle == /\ state'[p] # "FAULTED" /\ timer'[p] = NoTimer /\ init_delay'[p] = 0
  <1>n. exec' = "main" => exec = "main"
    BY MainIsLeft
  <1>s. Same \/ Idle => Calm(p)'
    BY <1>n DEF Calm
  <1>1. CASE Tick
    <2>1. UNCHANGED <<state, call, init_delay, suspended>>
      BY <1>1 DEF Tick, waitVars
    <2>2. timer'[p] # NoTimer => timer[p] # NoTimer
      BY <1>1, <1>t DEF Tick, CountDown, NoTimer, INFINITE
    <2>3. timer[p] = NoTimer => timer'[p] = NoTimer
      BY <1>1, <1>t DEF Tick, CountDown, NoTimer, INFINITE
    <2> QED
      BY <1>n, <2>1, <2>2, <2>3 DEF Calm
  <1>2. CASE partition_OS
    <2>1. PICK st \in {state, StateAfterUpdate} : process_schedule(st)
      BY <1>2 DEF partition_OS
    <2>2. st \in [Procs -> States]
      BY <1>t, <2>1, UpdateStates
    <2>3. CASE st[p] \notin {"READY", "RUNNING"}
      <3>1. state'[p] = st[p] /\ call'[p] = call[p]
        BY <1>t, <2>1, <2>2, <2>3, ScheduleKeeps
      <3>2. CASE tick_pending /\ arinc_time_update_partition /\ process_schedule(StateAfterUpdate)
        <4>1. state'[p] = StateAfterUpdate[p] \/ state'[p] \in {"READY", "RUNNING"}
          BY <1>t, <3>2, UpdateStates, ScheduleKeeps, ScheduleKeepsWorking
        <4>2. state'[p] = StateAfterUpdate[p]
          BY <2>3, <3>1, <4>1
        <4>3. ~Released(p) /\ ~Expired(p)
          BY <2>3, <3>1, <4>2, <1>t DEF StateAfterUpdate
        <4>4. timer'[p] = timer[p] /\ init_delay'[p] = init_delay[p] /\ state'[p] = state[p]
          BY <1>t, <3>2, <4>2, <4>3 DEF arinc_time_update_partition, StateAfterUpdate
        <4> QED
          BY <3>1, <4>4, <1>s
      <3>3. CASE UNCHANGED timeVars /\ process_schedule(state)
        <4>1. state'[p] = state[p] \/ state'[p] \in {"READY", "RUNNING"}
          BY <1>t, <3>3, ScheduleKeeps, ScheduleKeepsWorking
        <4>2. state'[p] = state[p]
          BY <2>3, <3>1, <4>1
        <4> QED
          BY <3>1, <3>3, <4>2, <1>s DEF timeVars
      <3> QED
        BY <1>2, <3>2, <3>3 DEF partition_OS
    <2>4. CASE st[p] \in {"READY", "RUNNING"}
      <3>1. state'[p] \in {"READY", "RUNNING"}
        BY <1>t, <2>1, <2>2, <2>4, ScheduleKeepsWorking
      <3>2. CASE tick_pending /\ arinc_time_update_partition /\ process_schedule(StateAfterUpdate)
        <4>1. StateAfterUpdate[p] \in {"READY", "RUNNING"}
          BY <1>t, <3>1, <3>2, UpdateStates, ScheduleKeeps
        <4>2. CASE Released(p) \/ Expired(p)
          <5>1. Released(p) => init_delay'[p] = 0 /\ timer[p] = NoTimer
            BY <3>2, <1>t DEF arinc_time_update_partition, Released, Calm
          <5>2. Expired(p) => timer[p] # NoTimer /\ init_delay[p] = 0 /\ timer'[p] = NoTimer
            BY <3>2, <1>t DEF arinc_time_update_partition, Expired, Calm, NoTimer
          <5>3. timer[p] = NoTimer => timer'[p] = NoTimer
            BY <3>2, <1>t DEF arinc_time_update_partition
          <5>4. init_delay[p] = 0 => init_delay'[p] = 0
            BY <3>2, <1>t DEF arinc_time_update_partition
          <5> QED
            BY <3>1, <4>2, <5>1, <5>2, <5>3, <5>4, <1>s
        <4>3. CASE ~Released(p) /\ ~Expired(p)
          <5>1. state[p] \in {"READY", "RUNNING"}
            BY <4>1, <4>3, <1>t DEF StateAfterUpdate
          <5>2. timer'[p] = timer[p] /\ init_delay'[p] = init_delay[p]
            BY <1>t, <3>2, <4>3 DEF arinc_time_update_partition
          <5> QED
            BY <5>1, <5>2, <3>1, <1>r, <1>s
        <4> QED
          BY <4>2, <4>3
      <3>3. CASE UNCHANGED timeVars /\ process_schedule(state)
        <4>1. state[p] \in {"READY", "RUNNING"}
          BY <1>t, <3>1, <3>3, ScheduleKeeps
        <4> QED
          BY <3>1, <3>3, <4>1, <1>r, <1>s DEF timeVars
      <3> QED
        BY <1>2, <3>2, <3>3 DEF partition_OS
    <2> QED
      BY <2>3, <2>4
  <1>3. ASSUME NEW q \in Named, NEW v \in Priorities, SET_PRIORITY(q, v) PROVE Calm(p)'
    BY <1>3, <1>s DEF SET_PRIORITY, timeVars, waitVars
  <1>4. ASSUME NEW t \in Timeouts, SUSPEND_SELF(t) PROVE Calm(p)'
    <2>1. p # current
      BY <1>4, <1>t DEF SUSPEND_SELF
    <2>2. Same
      BY <1>4, <1>c, <1>t, <2>1 DEF SUSPEND_SELF, Arm
    <2> QED
      BY <2>2, <1>s
  <1>5. ASSUME NEW t \in Timeouts, TIMED_WAIT(t) PROVE Calm(p)'
    <2>1. CASE p # current
      <3>1. Same
        BY <1>5, <1>c, <1>t, <2>1 DEF TIMED_WAIT, Arm
      <3> QED
        BY <3>1, <1>s
    <2>2. CASE p = current /\ t = 0
      <3>1. Idle
        BY <1>5, <1>c, <1>r, <1>t, <2>2 DEF TIMED_WAIT
      <3> QED
        BY <3>1, <1>s
    <2>3. CASE p = current /\ t # 0
      <3>1. /\ state'[p] = "WAITING" /\ call'[p] = "TIMED_WAIT" /\ init_delay'[p] = 0
            /\ exec' = "os"
        BY <1>5, <1>c, <1>r, <1>t, <2>3 DEF TIMED_WAIT, yield_to_partition
      <3> QED
        BY <3>1 DEF Calm
    <2> QED
      BY <2>1, <2>2, <2>3
  <1>6. ASSUME NEW q \in Named, SUSPEND(q) PROVE Calm(p)'
    <2>1. p # q
      BY <1>6, <1>t DEF SUSPEND
    <2>2. Same
      BY <1>6, <1>t, <2>1 DEF SUSPEND, timeVars, waitVars
    <2> QED
      BY <2>2, <1>s
  <1>7. ASSUME NEW q \in Named, RESUME(q) PROVE Calm(p)'
    <2>1. p # q
      BY <1>7 DEF RESUME, Calm
    <2>2. Same
      BY <1>7, <1>t, <2>1 DEF RESUME, waitVars
    <2> QED
      BY <2>2, <1>s
  <1>8. ASSUME NEW q \in Procs, Halt(q), init_delay' = init_delay, call' = call PROVE Calm(p)'
    <2>1. CASE p # q
      <3>1. Same
        BY <1>8, <1>t, <2>1 DEF Halt
      <3> QED
        BY <3>1, <1>s
    <2>2. CASE p = q
      <3>1. state'[p] = "DORMANT" /\ timer'[p] = NoTimer
        BY <1>8, <1>t, <2>2 DEF Halt
      <3>2. init_delay'[p] = 0
        BY <1>8, <1>r, <3>1
      <3> QED
        BY <3>1, <3>2, <1>s
    <2> QED
      BY <2>1, <2>2
  <1>9. CASE STOP_SELF
    BY <1>9, <1>8, <1>c DEF STOP_SELF, waitVars
  <1>10. ASSUME NEW q \in Named, STOP(q) PROVE Calm(p)'
    BY <1>10, <1>8 DEF STOP, Named
  <1>11. ASSUME NEW q \in Named, START(q) \/ \E d \in Timeouts : DELAYED_START(q, d)
         PROVE  Calm(p)'
    <2>1. CASE p # q
      <3>1. call'[p] = call[p]
        BY <1>11, <1>t, <2>1 DEF START, DELAYED_START, Restart
      <3>2. \E x \in States : state' = [state EXCEPT ![q] = x]
        BY <1>11 DEF START, DELAYED_START, AwaitRelease, States
      <3>3. timer'[p] = timer[p] /\ init_delay'[p] = init_delay[p]
        BY <1>11, <1>t, <2>1 DEF START, DELAYED_START, AwaitRelease, timeVars
      <3> QED
        BY <3>1, <3>2, <3>3, <2>1, <1>s, <1>t
    <2>2. CASE p = q
      <3>1. state[p] = "DORMANT" /\ call'[p] = "app"
        BY <1>11, <1>t, <2>2 DEF START, DELAYED_START, Restart
      <3>2. timer[p] = NoTimer /\ init_delay[p] = 0
        BY <3>1, <1>r
      <3>3. CASE START(q)
        <4>1. Idle
          BY <3>2, <3>3, <1>t, <2>2 DEF START, AwaitRelease, timeVars
        <4> QED
          BY <4>1, <1>s
      <3>4. ASSUME NEW d \in Timeouts, DELAYED_START(q, d) PROVE Calm(p)'
        <4>1. CASE mode # "NORMAL"
          <5>1. state'[p] = "WAITING" /\ timer'[p] = NoTimer
            BY <3>2, <3>4, <4>1, <1>t, <2>2 DEF DELAYED_START
          <5> QED
            BY <3>1, <5>1 DEF Calm
        <4>2. CASE mode = "NORMAL"
          <5>1. init_delay'[p] = 0 /\ exec' = "os"
            BY <3>2, <3>4, <4>2, <1>t, <2>2 DEF DELAYED_START, yield_to_partition
          <5>2. /\ state'[p] = IF d = 0 THEN "READY" ELSE "WAITING"
                /\ d = 0 => timer'[p] = NoTimer
            BY <3>2, <3>4, <4>2, <1>t, <2>2 DEF DELAYED_START
          <5> QED
            BY <3>1, <5>1, <5>2 DEF Calm
        <4> QED
          BY <4>1, <4>2
      <3> QED
        BY <1>11, <3>3, <3>4
    <2> QED
      BY <2>1, <2>2
  <1>12. CASE PERIODIC_WAIT
    <2>1. p # current
      BY <1>12, <1>t DEF PERIODIC_WAIT
    <2>2. Same
      BY <1>12, <1>c, <1>t, <2>1 DEF PERIODIC_WAIT
    <2> QED
      BY <2>2, <1>s
  <1>13. CASE SET_PARTITION_MODE_NORMAL
    <2>1. UNCHANGED <<timer, init_delay, call>>
      BY <1>13 DEF SET_PARTITION_MODE_NORMAL, waitVars
    <2>2. state'[p] = IF StartsNow(p) THEN "READY" ELSE state[p]
      BY <1>13, <1>t DEF SET_PARTITION_MODE_NORMAL
    <2>3. timer[p] = NoTimer /\ (StartsNow(p) => init_delay[p] = 0)
      BY <1>13 DEF SET_PARTITION_MODE_NORMAL, StartsNow, Calm
    <2> QED
      BY <2>1, <2>2, <2>3, <1>s
  <1> QED
    BY <1>1, <1>2, <1>3, <1>4, <1>5, <1>6, <1>7, <1>9, <1>10, <1>11, <1>12, <1>13
    DEF Next, Service, OtherService


(* A calm process in a blocking call stays in it: it goes on waiting, or,  *)
(* once it has been made READY, works until it returns.                    *)
LEMMA CallGoesOn ==
  ASSUME SchedInv, Next, exec # "main", NEW p \in Aperiodic, Calm(p), call[p] \in Blocking,
         ~suspended'[p], state'[p] # "DORMANT"
  PROVE  /\ state[p] = "WAITING" => state'[p] = "WAITING" /\ call'[p] = call[p]
         /\ state[p] \in {"READY", "RUNNING"} =>
              state'[p] \in {"READY", "RUNNING"} /\ call'[p] = call[p]
  <1>t. /\ TypeOK /\ p \in Procs /\ p \notin Periodic
        /\ state \in [Procs -> States] /\ call \in [Procs -> Doing]
        /\ suspended \in [Procs -> BOOLEAN]
        /\ call[p] \notin RcOnly \cup {"app"}
        /\ "TIMED_WAIT" \in RcOnly
    BY DEF SchedInv, TypeOK, Aperiodic, Blocking, RcOnly
  <1>1. ASSUME state[p] = "WAITING" PROVE state'[p] = "WAITING" /\ call'[p] = call[p]
    <2>1. timer[p] = NoTimer /\ init_delay[p] = 0 /\ ~suspended[p]
      BY <1>t DEF Calm
    <2>2. ~Released(p) /\ ~Expired(p)
      BY <1>t, <2>1 DEF Released, Expired, NoTimer
    <2>3. ~STOP(p)
      BY <1>t DEF STOP, Halt
    <2> QED
      BY <1>t, <1>1, <2>1, <2>2, <2>3, WaitingStaysWaiting
  <1>2. ASSUME state[p] \in {"READY", "RUNNING"}
        PROVE  state'[p] \in {"READY", "RUNNING"} /\ call'[p] = call[p]
    <2> DEFINE Kept == state'[p] \in {"READY", "RUNNING"} /\ call'[p] = call[p]
    <2>c. ASSUME NEW s, Calls(s) PROVE current \in Procs /\ p # current
      BY <2>c, <1>t, CallerRuns DEF Calls
    <2>1. CASE Tick
      BY <1>2, <2>1 DEF Tick, waitVars
    <2>2. CASE partition_OS
      <3>1. PICK st \in {state, StateAfterUpdate} : process_schedule(st)
        BY <2>2 DEF partition_OS
      <3>2. st \in [Procs -> States] /\ st[p] \in {"READY", "RUNNING"}
        <4>1. StateAfterUpdate \in [Procs -> States] /\ StateAfterUpdate[p] \in {"READY", "RUNNING"}
          BY <1>t, <1>2, UpdateStates DEF StateAfterUpdate
        <4> QED
          BY <4>1, <1>t, <1>2
      <3> QED
        BY <1>t, <3>1, <3>2, ScheduleKeepsWorking
    <2>3. ASSUME NEW q \in Named, NEW v \in Priorities, SET_PRIORITY(q, v) PROVE Kept
      BY <1>2, <2>3 DEF SET_PRIORITY, waitVars
    <2>4. ASSUME NEW t \in Timeouts, SUSPEND_SELF(t) \/ TIMED_WAIT(t) PROVE Kept
      BY <1>2, <2>4, <2>c, <1>t DEF SUSPEND_SELF, TIMED_WAIT
    <2>5. ASSUME NEW q \in Named, SUSPEND(q) PROVE Kept
      <3>1. p # q
        BY <2>5, <1>t DEF SUSPEND
      <3> QED
        BY <1>2, <2>5, <3>1, <1>t DEF SUSPEND, waitVars
    <2>6. ASSUME NEW q \in Named, RESUME(q) PROVE Kept
      BY <1>2, <2>6, <1>t DEF RESUME, waitVars
    <2>7. CASE STOP_SELF \/ PERIODIC_WAIT
      BY <1>2, <2>7, <2>c, <1>t DEF STOP_SELF, PERIODIC_WAIT, Halt, waitVars
    <2>8. ASSUME NEW q \in Named, STOP(q) PROVE Kept
      BY <1>2, <2>8, <1>t DEF STOP, Halt
    <2>9. ASSUME NEW q \in Named, START(q) \/ \E d \in Timeouts : DELAYED_START(q, d) PROVE Kept
      <3>1. p # q /\ call' = [call EXCEPT ![q] = "app"]
        BY <1>2, <2>9 DEF START, DELAYED_START, Restart
      <3>2. \E x \in States : state' = [state EXCEPT ![q] = x]
        BY <2>9 DEF START, DELAYED_START, AwaitRelease, States
      <3> QED
        BY <1>t, <1>2, <3>1, <3>2
    <2>10. CASE SET_PARTITION_MODE_NORMAL
      BY <2>10 DEF SET_PARTITION_MODE_NORMAL
    <2> QED
      BY <2>1, <2>2, <2>3, <2>4, <2>5, <2>6, <2>7, <2>8, <2>9, <2>10 DEF Next, Service, OtherService
  <1> QED
    BY <1>1, <1>2

(* While the entry point runs, no process has run.                         *)
Unstarted == exec = "main" => \A p \in Procs : call[p] = "app"

LEMMA UnstartedStep ==
  ASSUME TypeOK, Next, Unstarted
  PROVE  Unstarted'
  <1>1. exec' = "main" => exec = "main"
    BY MainIsLeft
  <1> SUFFICES ASSUME exec = "main", exec' = "main", NEW p \in Procs PROVE call'[p] = "app"
    BY <1>1 DEF Unstarted
  <1>2. call[p] = "app" /\ call \in [Procs -> Doing]
    BY DEF Unstarted, TypeOK
  <1> QED
    BY <1>2 DEF Next, Service, OtherService, SET_PRIORITY, SUSPEND_SELF, SUSPEND, RESUME, STOP_SELF,
      STOP, START, DELAYED_START, Restart, TIMED_WAIT, PERIODIC_WAIT, Calls,
      SET_PARTITION_MODE_NORMAL, partition_OS, Tick, waitVars, yield_to_partition


(* STOP takes only the stopped process off a queue.                        *)
LEMMA StepsKeepWaiters ==
  ASSUME TypeOK, Next, NEW r \in Resources, NEW p \in ToSet(queue[r]), ~STOP(p)
  PROVE  p \in ToSet(queue'[r])
  <1>1. ASSUME NEW q \in Named, STOP(q) PROVE p \in ToSet(queue'[r])
    <2>1. CASE queue'[r] = queue[r]
      BY <2>1
    <2>2. CASE queue'[r] = RemoveFirst(queue[r], q)
      <3> DEFINE s == queue[r]
                 n == RemoveFirst(s, q)
      <3>1. s \in Seq(Procs)
        BY DEF TypeOK
      <3>2. ToSet(s) \subseteq ToSet(n) \cup {q}
        BY <3>1, RemoveFirstProperties
      <3>3. p # q
        BY <1>1
      <3> HIDE DEF n
      <3> QED
        BY <2>2, <3>2, <3>3 DEF n
    <2> QED
      BY <1>1, <2>1, <2>2 DEF STOP, remove_process_from_waiting_queue
  <1>2. CASE ~\E q \in Named : STOP(q)
    BY <1>2, OnlyStopEmptiesQueues
  <1> QED
    BY <1>1, <1>2

(* STOP takes a process off a queue that its waiting_* pointers name, if   *)
(* it was there once, and is the only step to change those pointers.       *)
LEMMA StopDequeues ==
  ASSUME TypeOK, NEW r \in Resources, NEW p \in Procs, STOP(p), r \in tracked[p],
         Once(queue[r], p)
  PROVE  p \notin ToSet(queue'[r])
  <1> DEFINE s == queue[r]
  <1>1. s \in Seq(Procs)
    BY DEF TypeOK
  <1>2. p \notin ToSet(RemoveFirst(s, p))
    BY <1>1, RemoveFirstThinned
  <1>3. queue'[r] = RemoveFirst(s, p)
    BY DEF STOP, remove_process_from_waiting_queue
  <1> QED
    BY <1>2, <1>3

LEMMA PointersKept ==
  ASSUME TypeOK, Next, NEW p \in Procs, ~STOP(p)
  PROVE  tracked'[p] = tracked[p]
  <1>1. ASSUME NEW q \in Named, STOP(q) PROVE tracked'[p] = tracked[p]
    BY <1>1 DEF STOP, remove_process_from_waiting_queue, TypeOK
  <1> QED
    BY <1>1, OnlyStopEmptiesQueues

(* A process becomes DORMANT by STOP or, running, by STOP_SELF, and        *)
(* forgets what it was doing only when it is started again.                *)
LEMMA StopsAndStarts ==
  ASSUME SchedInv, Next, NEW p \in Procs
  PROVE  /\ state'[p] = "DORMANT" => /\ call'[p] = call[p]
                                     /\ state[p] \in {"DORMANT", "RUNNING"} \/ STOP(p)
         /\ state[p] = "DORMANT" => state'[p] = "DORMANT" \/ call'[p] = "app"
  <1> DEFINE Goal == /\ state'[p] = "DORMANT" => /\ call'[p] = call[p]
                                                 /\ state[p] \in {"DORMANT", "RUNNING"} \/ STOP(p)
                     /\ state[p] = "DORMANT" => state'[p] = "DORMANT" \/ call'[p] = "app"
  <1> SUFFICES Goal
    OBVIOUS
  <1>t. /\ TypeOK
        /\ state \in [Procs -> States] /\ call \in [Procs -> Doing]
    BY DEF SchedInv, TypeOK
  <1>c. ASSUME NEW s, Calls(s) PROVE current \in Procs /\ state[current] = "RUNNING"
    BY <1>c, CallerRuns
  <1>1. CASE Tick
    BY <1>1, <1>t DEF Tick, waitVars
  <1>2. CASE partition_OS
    <2>1. PICK st \in {state, StateAfterUpdate} : process_schedule(st)
      BY <1>2 DEF partition_OS
    <2>2. /\ st \in [Procs -> States]
          /\ st[p] = "DORMANT" <=> state[p] = "DORMANT"
      BY <2>1, <1>t, UpdateStates
    <2>3. state'[p] = "DORMANT" <=> state[p] = "DORMANT"
      BY <1>2, OSKeepsSched
    <2>4. state'[p] = "DORMANT" => call'[p] = call[p]
      BY <1>t, <2>1, <2>2, <2>3, ScheduleKeeps
    <2> QED
      BY <2>3, <2>4
  <1>3. ASSUME NEW q \in Named, NEW v \in Priorities, SET_PRIORITY(q, v) PROVE Goal
    BY <1>3 DEF SET_PRIORITY, waitVars
  <1>4. ASSUME NEW t \in Timeouts, SUSPEND_SELF(t) \/ TIMED_WAIT(t) PROVE Goal
    BY <1>4, <1>c, <1>t DEF SUSPEND_SELF, TIMED_WAIT
  <1>5. ASSUME NEW q \in Named, SUSPEND(q) \/ RESUME(q) PROVE Goal
    BY <1>5, <1>t DEF SUSPEND, RESUME, waitVars
  <1>6. CASE STOP_SELF \/ PERIODIC_WAIT
    BY <1>6, <1>c, <1>t DEF STOP_SELF, PERIODIC_WAIT, Halt, waitVars
  <1>7. ASSUME NEW q \in Named, STOP(q) PROVE Goal
    <2>1. q \in Procs /\ state[q] # "DORMANT"
      BY <1>7 DEF Named, STOP
    <2>2. state' = [state EXCEPT ![q] = "DORMANT"] /\ call' = call
      BY <1>7 DEF STOP, Halt
    <2> QED
      BY <1>7, <1>t, <2>1, <2>2
  <1>8. ASSUME NEW q \in Named, START(q) \/ \E d \in Timeouts : DELAYED_START(q, d) PROVE Goal
    <2>1. call' = [call EXCEPT ![q] = "app"]
      BY <1>8 DEF START, DELAYED_START, Restart
    <2>2. \E x \in States \ {"DORMANT"} : state' = [state EXCEPT ![q] = x]
      BY <1>8 DEF START, DELAYED_START, AwaitRelease, States
    <2> QED
      BY <1>t, <2>1, <2>2 DEF Named
  <1>9. CASE SET_PARTITION_MODE_NORMAL
    <2>1. /\ state'[p] = IF StartsNow(p) THEN "READY" ELSE state[p]
          /\ call' = call
      BY <1>9 DEF SET_PARTITION_MODE_NORMAL, waitVars
    <2>2. StartsNow(p) => state[p] = "WAITING"
      BY DEF StartsNow
    <2> QED
      BY <2>1, <2>2
  <1> HIDE DEF Goal
  <1> QED
    BY <1>1, <1>2, <1>3, <1>4, <1>5, <1>6, <1>7, <1>8, <1>9 DEF Next, Service, OtherService

(* saved_init_delay is set by DELAYED_START alone, and STOP does not reset *)
(* it: a partition that uses only one of the two never meets a stale one.  *)
NoStaleDelay == "DELAYED_START" \notin Services \/ "STOP" \notin Services

NoDelays == "DELAYED_START" \notin Services => \A p \in Procs : init_delay[p] = 0

LEMMA NoDelaysStep ==
  ASSUME TypeOK, Next, NoDelays
  PROVE  NoDelays'
  <1> SUFFICES ASSUME "DELAYED_START" \notin Services, NEW p \in Procs
               PROVE  init_delay'[p] = 0
    BY DEF NoDelays
  <1>1. init_delay[p] = 0
    BY DEF NoDelays
  <1>2. ASSUME NEW q \in Named, NEW d \in Timeouts, DELAYED_START(q, d) PROVE FALSE
    BY <1>2 DEF DELAYED_START, MayCall, Calls
  <1>3. CASE partition_OS
    BY <1>1, <1>3 DEF partition_OS, arinc_time_update_partition, timeVars
  <1>4. CASE UNCHANGED init_delay
    BY <1>1, <1>4
  <1> QED
    BY <1>2, <1>3, <1>4 DEF Next, Service, OtherService, SET_PRIORITY, SUSPEND_SELF, SUSPEND, RESUME,
      STOP_SELF, STOP, START, AwaitRelease, TIMED_WAIT, PERIODIC_WAIT,
      SET_PARTITION_MODE_NORMAL, Tick, timeVars

(* So that whoever is stopped while Calm stays Calm.                       *)
LEMMA CalmWhenStopped ==
  ASSUME NoStaleDelay, NoDelays, SchedInv, Next, NEW p \in Aperiodic, Calm(p), ~suspended'[p]
  PROVE  Calm(p)'
  <1>1. p \in Procs
    BY DEF Aperiodic
  <1>2. ASSUME state'[p] = "DORMANT", state[p] # "DORMANT" PROVE init_delay[p] = 0
    <2>1. CASE "DELAYED_START" \notin Services
      BY <1>1, <2>1 DEF NoDelays
    <2>2. CASE "STOP" \notin Services
      <3>1. ~STOP(p)
        BY <2>2 DEF STOP, Calls
      <3>2. state[p] = "RUNNING"
        BY <1>1, <1>2, <3>1, StopsAndStarts
      <3> QED
        BY <3>2 DEF Calm
    <2> QED
      BY <2>1, <2>2 DEF NoStaleDelay
  <1> QED
    BY <1>2, CalmStep

(***************************************************************************)
(* Nobody is woken before its time                                         *)
(***************************************************************************)

(* saved_init_delay is cleared only when the delay is over: neither STOP   *)
(* nor the RESUME of a process suspended meanwhile clears it.              *)
DelaysRunOut == "DELAYED_START" \notin Services \/ {"STOP", "RESUME"} \cap Services = {}

(* A process that still has a saved_init_delay has not begun.              *)
Sleeps(p) ==
  /\ state[p] # "FAULTED"
  /\ init_delay[p] # 0 => state[p] = "WAITING" /\ call[p] = "app" /\ timer[p] = NoTimer

SleepInv == NoDelays /\ Unstarted /\ \A p \in Aperiodic : Sleeps(p)

LEMMA SleepsStep ==
  ASSUME DelaysRunOut, SchedInv, NoDelays, Unstarted, Next, NEW p \in Aperiodic, Sleeps(p)
  PROVE  Sleeps(p)'
  <1>t. /\ TypeOK /\ p \in Procs /\ p \notin Periodic
        /\ state \in [Procs -> States] /\ call \in [Procs -> Doing]
        /\ timer \in [Procs -> Nat \cup {INFINITE, NoTimer}]
        /\ suspended \in [Procs -> BOOLEAN]
        /\ init_delay \in [Procs -> Nat]
    BY DEF SchedInv, TypeOK, Aperiodic
  <1>c. ASSUME NEW s, Calls(s) PROVE current \in Procs /\ state[current] = "RUNNING"
    BY <1>c, CallerRuns
  <1> DEFINE Same == /\ state'[p] = state[p] /\ call'[p] = call[p]
                     /\ timer'[p] = timer[p] /\ init_delay'[p] = init_delay[p]
             Idle == state'[p] # "FAULTED" /\ timer'[p] = NoTimer /\ init_delay'[p] = 0
             App == state'[p] # "FAULTED" /\ call'[p] = "app" /\ init_delay'[p] = 0
             Asleep == state'[p] = "WAITING" /\ init_delay'[p] = 0
  <1>s. Same \/ Idle \/ App \/ Asleep => Sleeps(p)'
    BY <1>t DEF Sleeps, NoTimer
  <1>d. ASSUME {"STOP", "RESUME"} \cap Services # {} PROVE init_delay[p] = 0
    BY <1>d, <1>t DEF DelaysRunOut, NoDelays
  <1>1. CASE Tick
    <2>1. /\ state' = state /\ call' = call /\ init_delay' = init_delay
          /\ timer'[p] = CountDown(timer[p])
      BY <1>1, <1>t DEF Tick, waitVars
    <2>2. timer[p] = NoTimer => timer'[p] = NoTimer
      BY <2>1 DEF CountDown, NoTimer
    <2>3. timer'[p] > 0 => timer[p] > 0
      BY <1>t, <2>1 DEF CountDown, NoTimer, INFINITE
    <2> QED
      BY <2>1, <2>2, <2>3 DEF Sleeps
  <1>2. CASE partition_OS
    <2> DEFINE st == IF tick_pending THEN StateAfterUpdate ELSE state
    <2>1. /\ process_schedule(st) /\ st \in [Procs -> States]
      BY <1>2, <1>t, UpdateStates DEF partition_OS
    <2>2. CASE st[p] \in {"READY", "RUNNING"}
      <3>1. state'[p] # "FAULTED" /\ (call'[p] # "TIMED_WAIT" \/ state'[p] = "READY")
        <4> DEFINE demoted == Demoted(st)
                   ready == {q \in ToSet(order) : demoted[q] = "READY"}
        <4>1. demoted[p] \in {"READY", "RUNNING"} /\ demoted \in [Procs -> States]
          BY <1>t, <2>1, <2>2 DEF Demoted, States
        <4>2. demoted[p] = "READY"
          <5>1. st[p] = "RUNNING" => p = current
            BY <1>t, <2>1, UpdateStates DEF SchedInv, RunningIsCurrent
          <5> QED
            BY <1>t, <2>2, <5>1 DEF Demoted
        <4> HIDE DEF demoted
        <4>3. \/ state' = demoted /\ UNCHANGED call
              \/ \E q \in ready : /\ state' = [demoted EXCEPT ![q] = "RUNNING"]
                                  /\ call' = [call EXCEPT ![q] = IF @ \in RcOnly THEN "app" ELSE @]
          BY <2>1 DEF process_schedule, demoted
        <4> QED
          BY <1>t, <4>1, <4>2, <4>3 DEF RcOnly
      <3>2. call'[p] \in {call[p], "app"}
        BY <2>1, <1>t DEF process_schedule
      <3>3. st[p] = state[p] \/ (tick_pending /\ (Released(p) \/ Expired(p)))
        BY <1>t DEF StateAfterUpdate
      <3>4. CASE st[p] = state[p] /\ ~(tick_pending /\ (Released(p) \/ Expired(p)))
        <4>1. timer'[p] = timer[p] /\ init_delay'[p] = init_delay[p]
          BY <1>2, <1>t, <3>4 DEF partition_OS, arinc_time_update_partition, timeVars
        <4>2. state[p] # "WAITING"
          BY <2>2, <3>4
        <4> QED
          BY <3>1, <3>2, <4>1, <4>2 DEF Sleeps
      <3>5. CASE tick_pending /\ (Released(p) \/ Expired(p))
        <4>1. /\ init_delay'[p] = IF Released(p) THEN 0 ELSE init_delay[p]
              /\ timer'[p] = IF Expired(p) THEN NoTimer ELSE timer[p]
          BY <1>2, <1>t, <3>5 DEF partition_OS, arinc_time_update_partition, Aperiodic
        <4>2. CASE Expired(p)
          <5>1. init_delay[p] = 0 /\ init_delay'[p] = 0
            BY <4>1, <4>2 DEF Sleeps, Expired, NoTimer
          <5> QED
            BY <3>1, <4>1, <4>2, <5>1, <1>s
        <4>3. CASE Released(p) /\ ~Expired(p)
          <5>1. init_delay[p] # 0
            BY <4>3, <1>t DEF Released
          <5> QED
            BY <3>1, <4>1, <4>3, <5>1, <1>s DEF Sleeps
        <4> QED
          BY <3>5, <4>2, <4>3
      <3> QED
        BY <3>3, <3>4, <3>5
    <2>3. CASE st[p] \notin {"READY", "RUNNING"}
      <3>1. state'[p] = st[p] /\ call'[p] = call[p]
        BY <1>t, <2>1, <2>3, ScheduleKeeps
      <3>2. st[p] = state[p] /\ ~(tick_pending /\ (Released(p) \/ Expired(p)))
        BY <1>t, <2>3 DEF StateAfterUpdate
      <3>3. timer'[p] = timer[p] /\ init_delay'[p] = init_delay[p]
        BY <1>2, <1>t, <3>2 DEF partition_OS, arinc_time_update_partition, timeVars
      <3> QED
        BY <1>s, <3>1, <3>2, <3>3
    <2> QED
      BY <2>2, <2>3
  <1>3. ASSUME NEW q \in Named, NEW v \in Priorities, SET_PRIORITY(q, v) PROVE Sleeps(p)'
    <2>1. Same
      BY <1>3 DEF SET_PRIORITY, timeVars, waitVars
    <2> QED
      BY <2>1, <1>s
  <1>4. ASSUME NEW t \in Timeouts, SUSPEND_SELF(t) \/ TIMED_WAIT(t) PROVE Sleeps(p)'
    <2>1. init_delay' = init_delay /\ current \in Procs /\ state[current] = "RUNNING"
      BY <1>4, <1>c DEF SUSPEND_SELF, TIMED_WAIT
    <2>2. CASE p # current
      <3>1. Same
        BY <1>4, <1>t, <2>1, <2>2 DEF SUSPEND_SELF, TIMED_WAIT, Arm
      <3> QED
        BY <3>1, <1>s
    <2>3. CASE p = current
      <3>1. init_delay'[p] = 0
        BY <2>1, <2>3 DEF Sleeps
      <3>2. \/ state'[p] = "WAITING"
            \/ state'[p] = "READY" /\ call'[p] = "app"
        BY <1>4, <1>t, <2>1, <2>3 DEF SUSPEND_SELF, TIMED_WAIT, Calls
      <3> QED
        BY <3>1, <3>2, <1>s
    <2> QED
      BY <2>2, <2>3
  <1>5. ASSUME NEW q \in Named, SUSPEND(q) PROVE Sleeps(p)'
    <2>1. /\ state'[p] \in {state[p], "WAITING"} /\ call' = call
          /\ timer' = timer /\ init_delay' = init_delay
      BY <1>5, <1>t DEF SUSPEND, timeVars, waitVars
    <2> QED
      BY <2>1 DEF Sleeps
  <1>6. ASSUME NEW q \in Named, RESUME(q) PROVE Sleeps(p)'
    <2>1. init_delay' = init_delay /\ init_delay[p] = 0 /\ q \in Procs /\ call' = call
      BY <1>6, <1>d DEF RESUME, Calls, Named, waitVars
    <2>2. CASE p # q
      <3>1. Same
        BY <1>6, <1>t, <2>1, <2>2 DEF RESUME
      <3> QED
        BY <3>1, <1>s
    <2>3. CASE p = q
      <3>1. suspended[p]
        BY <1>6, <2>3 DEF RESUME, Sleeps
      <3>2. timer'[p] = NoTimer /\ state'[p] = "READY"
        BY <1>6, <1>t, <2>3, <3>1 DEF RESUME
      <3> QED
        BY <2>1, <3>2, <1>s
    <2> QED
      BY <2>2, <2>3
  <1>7. CASE STOP_SELF
    <2>1. init_delay' = init_delay /\ current \in Procs /\ state[current] = "RUNNING"
      BY <1>7, <1>c DEF STOP_SELF
    <2>2. CASE p = current
      <3>1. Idle
        BY <1>7, <1>t, <2>1, <2>2 DEF STOP_SELF, Halt, Sleeps
      <3> QED
        BY <3>1, <1>s
    <2>3. CASE p # current
      <3>1. Same
        BY <1>7, <1>t, <2>1, <2>3 DEF STOP_SELF, Halt, waitVars
      <3> QED
        BY <3>1, <1>s
    <2> QED
      BY <2>2, <2>3
  <1>8. ASSUME NEW q \in Named, STOP(q) PROVE Sleeps(p)'
    <2>1. init_delay' = init_delay /\ init_delay[p] = 0 /\ q \in Procs /\ call' = call
      BY <1>8, <1>d DEF STOP, Calls, Named
    <2>2. CASE p = q
      <3>1. Idle
        BY <1>8, <1>t, <2>1, <2>2 DEF STOP, Halt
      <3> QED
        BY <3>1, <1>s
    <2>3. CASE p # q
      <3>1. Same
        BY <1>8, <1>t, <2>1, <2>3 DEF STOP, Halt
      <3> QED
        BY <3>1, <1>s
    <2> QED
      BY <2>2, <2>3
  <1>9. ASSUME NEW q \in Named, START(q) \/ \E d \in Timeouts : DELAYED_START(q, d)
        PROVE  Sleeps(p)'
    <2>1. q \in Procs /\ state[q] = "DORMANT" /\ call' = [call EXCEPT ![q] = "app"]
      BY <1>9 DEF START, DELAYED_START, Restart, Named
    <2>2. CASE p # q
      <3>1. Same
        BY <1>9, <1>t, <2>1, <2>2 DEF START, DELAYED_START, AwaitRelease, timeVars
      <3> QED
        BY <3>1, <1>s
    <2>3. CASE p = q
      <3>1. init_delay[p] = 0 /\ timer[p] = NoTimer
        BY <2>1, <2>3, <1>t DEF Sleeps, SchedInv, DormantHasNoTimer
      <3>2. state'[p] # "FAULTED" /\ call'[p] = "app"
        BY <1>9, <1>t, <2>1, <2>3 DEF START, DELAYED_START, AwaitRelease
      <3>3. \/ init_delay'[p] = init_delay[p]
            \/ state'[p] = "WAITING" /\ timer' = timer
        BY <1>9, <1>t, <2>3 DEF START, DELAYED_START, AwaitRelease, timeVars
      <3> QED
        BY <3>1, <3>2, <3>3 DEF Sleeps
    <2> QED
      BY <2>2, <2>3
  <1>10. CASE PERIODIC_WAIT
    <2>1. current \in Procs /\ p # current
      BY <1>10, <1>c, <1>t DEF PERIODIC_WAIT
    <2>2. Same
      BY <1>10, <1>t, <2>1 DEF PERIODIC_WAIT
    <2> QED
      BY <2>2, <1>s
  <1>11. CASE SET_PARTITION_MODE_NORMAL
    <2>1. /\ call'[p] = "app" /\ timer' = timer /\ init_delay' = init_delay
          /\ state'[p] = IF StartsNow(p) THEN "READY" ELSE state[p]
      BY <1>11, <1>t DEF SET_PARTITION_MODE_NORMAL, Unstarted, waitVars
    <2>2. CASE StartsNow(p)
      <3>1. App
        BY <2>1, <2>2 DEF StartsNow
      <3> QED
        BY <3>1, <1>s
    <2>3. CASE ~StartsNow(p)
      BY <2>1, <2>3 DEF Sleeps
    <2> QED
      BY <2>2, <2>3
  <1> QED
    BY <1>1, <1>2, <1>3, <1>4, <1>5, <1>6, <1>7, <1>8, <1>9, <1>10, <1>11 DEF Next, Service, OtherService

LEMMA SleepInvariant ==
  ASSUME DelaysRunOut PROVE Spec => []SleepInv
  <1>1. Init => SleepInv
    BY DEF Init, SleepInv, NoDelays, Unstarted, Sleeps, Aperiodic, NoTimer
  <1>2. SchedInv /\ SleepInv /\ [Next]_vars => SleepInv'
    <2> SUFFICES ASSUME SchedInv, SleepInv, [Next]_vars PROVE SleepInv'
      OBVIOUS
    <2>1. CASE Next
      BY <2>1, NoDelaysStep, UnstartedStep, SleepsStep DEF SleepInv, SchedInv
    <2>2. CASE UNCHANGED vars
      BY <2>2 DEF vars, schedVars, timeVars, waitVars, SleepInv, NoDelays, Unstarted, Sleeps
    <2> QED
      BY <2>1, <2>2
  <1> QED
    BY <1>1, <1>2, SchedInvariant, PTL DEF Spec

(* The history of the delays takes no part in the steps.                   *)
LEMMA TimedSteps == TimedSpec => Spec
  <1>1. TimedInit => Init
    BY DEF TimedInit
  <1>2. [TimedNext]_timedVars => [Next]_vars
    BY DEF TimedNext, FallAsleep, TimePasses, OtherStep, timedVars, Next, Service
  <1> QED
    BY <1>1, <1>2, PTL DEF TimedSpec, Spec

(* The timer of a sleeper is the history of its delay.                     *)
Slumber(p) ==
  asleep[p] > 0 => state[p] = "WAITING" /\ call[p] = "TIMED_WAIT" /\ timer[p] = asleep[p]

SlumberInv ==
  /\ Unstarted
  /\ asleep \in [Procs -> Nat]
  /\ \A p \in Procs : Slumber(p)

(* Why a sleeper is woken before its time.                                 *)
Excused(p) ==
  \/ state'[p] = "DORMANT"
  \/ exec = "proc" /\ suspended[p]
  \/ OldRelease(p)

(* What a service of another kind, or the partition OS, does to a sleeper: *)
(* nothing, or it no longer waits and there is a reason.                   *)
LEMMA SleeperStep ==
  ASSUME SchedInv, SlumberInv, OtherService \/ partition_OS,
         NEW p \in Procs, asleep[p] > 0
  PROVE  \/ state'[p] = "WAITING" /\ call'[p] = call[p] /\ timer'[p] = timer[p]
         \/ state'[p] # "WAITING" /\ Excused(p)
  <1>t. /\ TypeOK /\ state \in [Procs -> States] /\ call \in [Procs -> Doing]
        /\ timer \in [Procs -> Nat \cup {INFINITE, NoTimer}]
        /\ suspended \in [Procs -> BOOLEAN] /\ asleep \in [Procs -> Nat]
    BY DEF SchedInv, TypeOK, SlumberInv
  <1>p. state[p] = "WAITING" /\ call[p] = "TIMED_WAIT" /\ timer[p] = asleep[p]
    BY DEF SlumberInv, Slumber
  <1>c. ASSUME NEW s, Calls(s) PROVE current \in Procs /\ p # current
    <2>1. current \in Procs /\ state[current] = "RUNNING"
      BY <1>c, <1>t, CallerRuns
    <2> QED
      BY <2>1, <1>p
  <1> DEFINE Same == state'[p] = state[p] /\ call'[p] = call[p] /\ timer'[p] = timer[p]
             Goal == \/ state'[p] = "WAITING" /\ call'[p] = call[p] /\ timer'[p] = timer[p]
                     \/ state'[p] # "WAITING" /\ Excused(p)
  <1> SUFFICES Goal
    OBVIOUS
  <1>s. Same => Goal
    BY <1>p
  <1>1. ASSUME NEW q \in Named, NEW v \in Priorities, SET_PRIORITY(q, v) PROVE Goal
    BY <1>1, <1>s DEF SET_PRIORITY, timeVars, waitVars
  <1>2. ASSUME NEW t \in Timeouts, SUSPEND_SELF(t) PROVE Goal
    <2>1. Same
      BY <1>2, <1>c, <1>t DEF SUSPEND_SELF, Arm
    <2> QED
      BY <2>1, <1>s
  <1>3. ASSUME NEW q \in Named, SUSPEND(q) PROVE Goal
    <2>1. state'[p] = "WAITING" /\ call' = call /\ timer' = timer
      BY <1>3, <1>p, <1>t DEF SUSPEND, timeVars, waitVars
    <2> QED
      BY <2>1
  <1>4. ASSUME NEW q \in Named, RESUME(q) PROVE Goal
    <2>1. call' = call /\ exec = "proc"
      BY <1>4 DEF RESUME, waitVars, Calls
    <2>2. CASE p = q
      <3>1. suspended[p] /\ state'[p] = "READY"
        BY <1>4, <1>p, <1>t, <2>2 DEF RESUME
      <3> QED
        BY <2>1, <3>1 DEF Excused
    <2>3. CASE p # q
      <3>1. Same
        BY <1>4, <1>t, <2>1, <2>3 DEF RESUME
      <3> QED
        BY <3>1, <1>s
    <2> QED
      BY <2>2, <2>3
  <1>5. CASE STOP_SELF
    <2>1. Same
      BY <1>5, <1>c, <1>t DEF STOP_SELF, Halt, waitVars
    <2> QED
      BY <2>1, <1>s
  <1>6. ASSUME NEW q \in Named, STOP(q) PROVE Goal
    <2>1. Same \/ state'[p] = "DORMANT"
      BY <1>6, <1>t DEF STOP, Halt
    <2> QED
      BY <2>1, <1>s DEF Excused
  <1>7. ASSUME NEW q \in Named, START(q) \/ \E d \in Timeouts : DELAYED_START(q, d)
        PROVE  Goal
    <2>1. p # q /\ call' = [call EXCEPT ![q] = "app"]
      BY <1>7, <1>p DEF START, DELAYED_START, Restart
    <2>2. Same
      BY <1>7, <1>t, <2>1 DEF START, DELAYED_START, AwaitRelease, timeVars
    <2> QED
      BY <2>2, <1>s
  <1>8. CASE PERIODIC_WAIT
    <2>1. Same
      BY <1>8, <1>c, <1>t DEF PERIODIC_WAIT
    <2> QED
      BY <2>1, <1>s
  <1>9. CASE SET_PARTITION_MODE_NORMAL
    BY <1>9, <1>p DEF SET_PARTITION_MODE_NORMAL, SlumberInv, Unstarted
  <1>10. CASE partition_OS
    <2> DEFINE st == IF tick_pending THEN StateAfterUpdate ELSE state
    <2>1. process_schedule(st) /\ st \in [Procs -> States]
      BY <1>10, <1>t, UpdateStates DEF partition_OS
    <2>2. ~Expired(p)
      BY <1>p, <1>t DEF Expired
    <2>3. timer'[p] = timer[p]
      BY <1>10, <1>t, <2>2 DEF partition_OS, arinc_time_update_partition, timeVars
    <2>4. CASE st[p] = "WAITING"
      <3>1. state'[p] = "WAITING" /\ call'[p] = call[p]
        BY <1>t, <2>1, <2>4, ScheduleKeeps
      <3> QED
        BY <2>3, <3>1
    <2>5. CASE st[p] # "WAITING"
      <3>1. Released(p) /\ st[p] = "READY"
        BY <1>p, <1>t, <2>2, <2>5 DEF StateAfterUpdate
      <3>2. OldRelease(p)
        BY <3>1 DEF Released, OldRelease
      <3>3. state'[p] # "WAITING"
        BY <1>t, <2>1, <3>1 DEF process_schedule, Demoted
      <3> QED
        BY <3>2, <3>3 DEF Excused
    <2> QED
      BY <2>4, <2>5
  <1> HIDE DEF Goal
  <1> QED
    BY <1>1, <1>2, <1>3, <1>4, <1>5, <1>6, <1>7, <1>8, <1>9, <1>10 DEF OtherService

LEMMA SlumberStep ==
  SchedInv /\ SlumberInv /\ [TimedNext]_timedVars => SlumberInv'
  <1> SUFFICES ASSUME SchedInv, SlumberInv, [TimedNext]_timedVars PROVE SlumberInv'
    OBVIOUS
  <1>t. /\ TypeOK /\ state \in [Procs -> States] /\ call \in [Procs -> Doing]
        /\ timer \in [Procs -> Nat \cup {INFINITE, NoTimer}] /\ asleep \in [Procs -> Nat]
    BY DEF SchedInv, TypeOK, SlumberInv
  <1>u. TimedNext => Unstarted'
    BY <1>t, UnstartedStep
    DEF TimedNext, FallAsleep, TimePasses, OtherStep, Next, Service, SlumberInv
  <1>1. CASE FallAsleep
    <2>1. PICK d \in Timeouts :
            TIMED_WAIT(d) /\ asleep' = [asleep EXCEPT ![current] = d]
      BY <1>1 DEF FallAsleep
    <2>2. current \in Procs /\ d \in Nat
      BY <2>1, <1>t, CallerRuns, TimeAssumption DEF TIMED_WAIT
    <2>3. ASSUME NEW p \in Procs PROVE Slumber(p)'
      <3>1. CASE p = current
        BY <1>t, <2>1, <2>2, <3>1 DEF TIMED_WAIT, Arm, Slumber
      <3>2. CASE p # current
        <4>1. /\ state'[p] = state[p] /\ call'[p] = call[p] /\ timer'[p] = timer[p]
              /\ asleep'[p] = asleep[p]
          BY <1>t, <2>1, <2>2, <3>2 DEF TIMED_WAIT, Arm
        <4> QED
          BY <4>1 DEF Slumber, SlumberInv
      <3> QED
        BY <3>1, <3>2
    <2>4. asleep' \in [Procs -> Nat]
      BY <1>t, <2>1, <2>2
    <2> QED
      BY <1>1, <1>u, <2>3, <2>4 DEF SlumberInv, TimedNext
  <1>2. CASE TimePasses
    <2>1. /\ asleep' = [p \in Procs |-> CountDown(asleep[p])]
          /\ timer' = [p \in Procs |-> CountDown(timer[p])]
          /\ state' = state /\ call' = call
      BY <1>2 DEF TimePasses, Tick, waitVars
    <2>2. ASSUME NEW p \in Procs PROVE Slumber(p)' /\ CountDown(asleep[p]) \in Nat
      <3>1. Slumber(p) /\ asleep[p] \in Nat
        BY <1>t DEF SlumberInv
      <3> QED
        BY <2>1, <3>1 DEF Slumber, CountDown
    <2> QED
      BY <1>2, <1>u, <2>1, <2>2 DEF SlumberInv, TimedNext
  <1>3. CASE OtherStep
    <2>1. /\ asleep' = [p \in Procs |-> IF state'[p] = "WAITING" THEN asleep[p] ELSE 0]
          /\ OtherService \/ partition_OS
      BY <1>3 DEF OtherStep
    <2>2. ASSUME NEW p \in Procs PROVE Slumber(p)'
      <3>1. CASE state'[p] # "WAITING" \/ asleep[p] = 0
        BY <2>1, <3>1 DEF Slumber
      <3>2. CASE state'[p] = "WAITING" /\ asleep[p] > 0
        <4>1. call'[p] = call[p] /\ timer'[p] = timer[p] /\ asleep'[p] = asleep[p]
          BY <2>1, <3>2, SleeperStep
        <4> QED
          BY <3>2, <4>1 DEF Slumber, SlumberInv
      <3> QED
        BY <1>t, <3>1, <3>2
    <2>3. asleep' \in [Procs -> Nat]
      BY <1>t, <2>1
    <2> QED
      BY <1>3, <1>u, <2>2, <2>3 DEF SlumberInv, TimedNext
  <1>4. CASE UNCHANGED timedVars
    BY <1>4 DEF timedVars, vars, schedVars, timeVars, waitVars, SlumberInv, Unstarted, Slumber
  <1> QED
    BY <1>1, <1>2, <1>3, <1>4 DEF TimedNext

LEMMA SlumberInvariant == TimedSpec => []SlumberInv
  <1>1. TimedInit => SlumberInv
    BY DEF TimedInit, Init, SlumberInv, Unstarted, Slumber
  <1> QED
    BY <1>1, SlumberStep, TimedSteps, SchedInvariant, PTL DEF TimedSpec

LEMMA SleeperExcused ==
  ASSUME SchedInv, SlumberInv, TimedNext, NEW p \in Procs,
         asleep[p] > 0, state'[p] # "WAITING"
  PROVE  Excused(p)
  <1>p. state[p] = "WAITING" /\ TypeOK /\ state \in [Procs -> States]
    BY DEF SchedInv, SlumberInv, Slumber, TypeOK
  <1>1. CASE FallAsleep
    <2>1. PICK d \in Timeouts : TIMED_WAIT(d)
      BY <1>1 DEF FallAsleep
    <2>2. current \in Procs /\ state[current] = "RUNNING"
      BY <2>1, <1>p, CallerRuns DEF TIMED_WAIT
    <2> QED
      BY <1>p, <2>1, <2>2 DEF TIMED_WAIT
  <1>2. CASE TimePasses
    BY <1>p, <1>2 DEF TimePasses, Tick
  <1>3. CASE OtherStep
    BY <1>3, SleeperStep DEF OtherStep
  <1> QED
    BY <1>1, <1>2, <1>3 DEF TimedNext

(* A process in TIMED_WAIT sleeps until its delay is over, unless it is    *)
(* stopped, or suspended and resumed, or has an old release point, for any *)
(* number of processes and all services: no other timer, suspension,       *)
(* priority change or restart cuts a wait short.                           *)
THEOREM SleepersAreLeftAlone == TimedSpec => NoEarlyWake
  <1>1. ASSUME SchedInv, SlumberInv, [TimedNext]_timedVars, NEW p \in Procs,
               asleep[p] > 0, state'[p] # "WAITING"
        PROVE  Excused(p)
    <2>1. CASE TimedNext
      BY <1>1, <2>1, SleeperExcused
    <2>2. CASE UNCHANGED timedVars
      BY <1>1, <2>2 DEF timedVars, vars, SlumberInv, Slumber
    <2> QED
      BY <1>1, <2>1, <2>2
  <1>2. SchedInv /\ SlumberInv /\ [TimedNext]_timedVars =>
          [\A p \in Procs : asleep[p] > 0 /\ state'[p] # "WAITING" =>
             \/ state'[p] = "DORMANT"
             \/ exec = "proc" /\ suspended[p]
             \/ OldRelease(p)]_timedVars
    BY <1>1 DEF Excused
  <1> QED
    BY <1>2, SlumberInvariant, TimedSteps, SchedInvariant, PTL DEF TimedSpec, NoEarlyWake

(* The aperiodic sleepers of a partition where the delay given to          *)
(* DELAYED_START always runs out have no old release point: only STOP, and *)
(* RESUME after a suspension, cut their waits short.                       *)
AperiodicSleepLong ==
  [][\A p \in Aperiodic :
       asleep[p] > 0 /\ state'[p] # "WAITING" =>
         state'[p] = "DORMANT" \/ (exec = "proc" /\ suspended[p])]_timedVars

(* In a partition without DELAYED_START, or with neither STOP nor RESUME,  *)
(* no release point left by a delayed start ends a later TIMED_WAIT.       *)
THEOREM TimedWaitsLast ==
  ASSUME DelaysRunOut PROVE TimedSpec => AperiodicSleepLong
  <1>1. ASSUME SchedInv, SlumberInv, SleepInv, [TimedNext]_timedVars, NEW p \in Aperiodic,
               asleep[p] > 0, state'[p] # "WAITING"
        PROVE  state'[p] = "DORMANT" \/ (exec = "proc" /\ suspended[p])
    <2>1. p \in Procs /\ p \notin Periodic
      BY DEF Aperiodic
    <2>2. CASE TimedNext
      <3>1. Excused(p)
        BY <1>1, <2>1, <2>2, SleeperExcused
      <3>2. call[p] = "TIMED_WAIT"
        BY <1>1, <2>1 DEF SlumberInv, Slumber
      <3>3. init_delay[p] = 0
        BY <1>1, <3>2 DEF SleepInv, Sleeps
      <3> QED
        BY <2>1, <3>1, <3>3 DEF Excused, OldRelease
    <2>3. CASE UNCHANGED timedVars
      BY <1>1, <2>1, <2>3 DEF timedVars, vars, SlumberInv, Slumber
    <2> QED
      BY <1>1, <2>2, <2>3
  <1>2. SchedInv /\ SlumberInv /\ SleepInv /\ [TimedNext]_timedVars =>
          [\A p \in Aperiodic : asleep[p] > 0 /\ state'[p] # "WAITING" =>
             state'[p] = "DORMANT" \/ (exec = "proc" /\ suspended[p])]_timedVars
    BY <1>1
  <1> QED
    BY <1>2, SlumberInvariant, SleepInvariant, TimedSteps, SchedInvariant, PTL
    DEF TimedSpec, AperiodicSleepLong
=============================================================================
