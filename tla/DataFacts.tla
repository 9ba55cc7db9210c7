------------------------------ MODULE DataFacts -----------------------------
(***************************************************************************)
(* Facts about data that proofs of several components share: what the      *)
(* operations on queues of mail do to the set of their elements, when      *)
(* entries are appended, taken from the front, or taken out; and the       *)
(* largest of a bounded set of numbers.                                    *)
(***************************************************************************)
EXTENDS Integers, Sequences, SequenceTheorems, WellFoundedInduction, TLAPS

(* The elements of a sequence.                                             *)
Ran(s) == {s[i] : i \in DOMAIN s}

LEMMA RanAppend ==
  ASSUME NEW S, NEW s \in Seq(S), NEW x \in S
  PROVE  Append(s, x) \in Seq(S) /\ Ran(Append(s, x)) = Ran(s) \union {x}
<1>1. Append(s, x) \in Seq(S) /\ Len(Append(s, x)) = Len(s) + 1
  BY AppendProperties
<1>2. \A i \in 1..Len(s) : Append(s, x)[i] = s[i]
  BY AppendProperties
<1>3. Append(s, x)[Len(s) + 1] = x
  BY AppendProperties
<1>4. Len(s) \in Nat /\ DOMAIN s = 1..Len(s) /\ DOMAIN Append(s, x) = 1..(Len(s) + 1)
  BY <1>1, LenProperties
<1> QED
  BY <1>1, <1>2, <1>3, <1>4 DEF Ran

LEMMA RanHeadTail ==
  ASSUME NEW S, NEW s \in Seq(S), s # <<>>
  PROVE  /\ Head(s) \in S /\ Head(s) \in Ran(s)
         /\ Tail(s) \in Seq(S) /\ Ran(Tail(s)) \subseteq Ran(s)
<1>1. Len(s) \in Nat \ {0} /\ DOMAIN s = 1..Len(s)
  BY LenProperties, EmptySeq
<1>2. Head(s) = s[1] /\ Head(s) \in S
  BY <1>1, HeadTailProperties
<1>3. /\ Tail(s) \in Seq(S) /\ DOMAIN Tail(s) = 1..(Len(s) - 1)
      /\ \A i \in 1..(Len(s) - 1) : Tail(s)[i] = s[i + 1]
  BY <1>1, HeadTailProperties, LenProperties
<1> QED
  BY <1>1, <1>2, <1>3 DEF Ran

LEMMA RanSubSeq ==
  ASSUME NEW S, NEW s \in Seq(S), NEW i \in 1..Len(s)
  PROVE  LET t == SubSeq(s, 1, i - 1) \o SubSeq(s, i + 1, Len(s))
         IN /\ t \in Seq(S) /\ Ran(t) \subseteq Ran(s)
            /\ \A j \in 1..Len(s) : j # i => s[j] \in Ran(t)
<1> DEFINE a == SubSeq(s, 1, i - 1)
           b == SubSeq(s, i + 1, Len(s))
<1>1. Len(s) \in Nat /\ DOMAIN s = 1..Len(s) /\ i \in 1..Len(s) /\ i \in Int
      /\ \A j \in 1..Len(s) : s[j] \in S
  BY LenProperties, ElementOfSeq
<1>2. a \in Seq(S) /\ Len(a) = i - 1 /\ \A j \in 1..(i - 1) : a[j] = s[j]
  BY <1>1, SubSeqProperties
<1>3. b \in Seq(S) /\ Len(b) = Len(s) - i /\ \A j \in 1..(Len(s) - i) : b[j] = s[i + j]
  <2>1. i + 1 \in Int /\ Len(s) \in Int /\ \A j \in (i + 1)..Len(s) : s[j] \in S
    BY <1>1
  <2>2. /\ b \in Seq(S) /\ Len(b) = IF i + 1 <= Len(s) THEN Len(s) - (i + 1) + 1 ELSE 0
        /\ \A j \in 1..(Len(s) - (i + 1) + 1) : b[j] = s[(i + 1) + j - 1]
    BY <2>1, SubSeqProperties
  <2>3. Len(s) - (i + 1) + 1 = Len(s) - i /\ \A j \in Int : (i + 1) + j - 1 = i + j
    BY <1>1
  <2>4. Len(b) = Len(s) - i
    <3> HIDE DEF b
    <3>1. CASE i + 1 <= Len(s)
      BY <1>1, <2>2, <2>3, <3>1
    <3>2. CASE i = Len(s)
      BY <1>1, <2>2, <3>2
    <3>3. i + 1 <= Len(s) \/ i = Len(s)
      <4>1. i \in Int /\ Len(s) \in Int /\ i <= Len(s)
        BY <1>1
      <4> QED BY <4>1
    <3> QED BY <3>1, <3>2, <3>3
  <2> HIDE DEF b
  <2>5. \A j \in 1..(Len(s) - i) : b[j] = s[i + j]
    <3> TAKE j \in 1..(Len(s) - i)
    <3>1. j \in Int /\ j \in 1..(Len(s) - (i + 1) + 1)
      BY <1>1, <2>3
    <3>2. (i + 1) + j - 1 = i + j
      BY <3>1, <1>1
    <3> QED BY <3>1, <3>2, <2>2
  <2> QED BY <2>2, <2>4, <2>5
<1>4. /\ a \o b \in Seq(S) /\ Len(a \o b) = Len(a) + Len(b)
      /\ \A j \in 1..(Len(a) + Len(b)) :
            (a \o b)[j] = IF j <= Len(a) THEN a[j] ELSE b[j - Len(a)]
  <2> HIDE DEF a, b
  <2> QED BY <1>2, <1>3, ConcatProperties
<1>5. DOMAIN (a \o b) = 1..(Len(s) - 1)
  <2> HIDE DEF a, b
  <2>1. DOMAIN (a \o b) = 1..Len(a \o b)
    BY <1>4, LenProperties
  <2>2. Len(a \o b) = Len(s) - 1
    BY <1>1, <1>2, <1>3, <1>4
  <2> QED BY <2>1, <2>2
<1>6. \A j \in 1..(Len(s) - 1) : (a \o b)[j] \in Ran(s)
  <2> HIDE DEF a, b
  <2> TAKE j \in 1..(Len(s) - 1)
  <2>1. CASE j <= i - 1
    <3>1. (a \o b)[j] = s[j]
      BY <1>1, <1>2, <1>3, <1>4, <2>1
    <3> QED BY <3>1, <1>1 DEF Ran
  <2>2. CASE j > i - 1
    <3>1. j - (i - 1) \in 1..(Len(s) - i)
      BY <1>1, <2>2
    <3>2. (a \o b)[j] = b[j - (i - 1)]
      BY <1>1, <1>2, <1>3, <1>4, <2>2
    <3>4. b[j - (i - 1)] = s[i + (j - (i - 1))]
      BY <1>3, <3>1
    <3>3. i + (j - (i - 1)) \in 1..Len(s)
      BY <1>1, <3>1
    <3>5. (a \o b)[j] = s[i + (j - (i - 1))]
      BY <3>2, <3>4
    <3> DEFINE k == i + (j - (i - 1))
    <3>6. k \in DOMAIN s /\ (a \o b)[j] = s[k]
      BY <3>3, <3>5, <1>1
    <3> HIDE DEF k
    <3> QED BY <3>6 DEF Ran
  <2>3. j <= i - 1 \/ j > i - 1
    BY <1>1
  <2> QED BY <2>1, <2>2, <2>3
<1>7. Ran(a \o b) \subseteq Ran(s)
  <2> HIDE DEF a, b
  <2> QED BY <1>5, <1>6 DEF Ran
<1>8. \A j \in 1..Len(s) : j # i => s[j] \in Ran(a \o b)
  <2> HIDE DEF a, b
  <2> TAKE j \in 1..Len(s)
  <2> HAVE j # i
  <2>1. CASE j < i
    <3>1. j \in 1..(i - 1) /\ j \in 1..(Len(s) - 1) /\ j <= Len(a) /\ j \in 1..(Len(a) + Len(b))
      BY <1>1, <1>2, <1>3, <2>1
    <3>2. (a \o b)[j] = s[j]
      BY <1>2, <1>4, <3>1
    <3> QED BY <1>5, <3>1, <3>2 DEF Ran
  <2>2. CASE j > i
    <3> DEFINE k == j - 1
    <3>1. k \in 1..(Len(s) - 1) /\ ~(k <= Len(a)) /\ k \in 1..(Len(a) + Len(b))
      BY <1>1, <1>2, <1>3, <2>2
    <3>2. k - Len(a) \in 1..(Len(s) - i) /\ i + (k - Len(a)) = j
      BY <1>1, <1>2, <2>2
    <3>3. (a \o b)[k] = b[k - Len(a)]
      BY <1>4, <3>1
    <3>4. b[k - Len(a)] = s[i + (k - Len(a))]
      BY <1>3, <3>2
    <3>5. (a \o b)[k] = s[j]
      BY <3>2, <3>3, <3>4
    <3> HIDE DEF k
    <3> QED BY <1>5, <3>1, <3>5 DEF Ran
  <2> QED BY <1>1, <2>1, <2>2
<1> QED
  BY <1>4, <1>7, <1>8

(* One element put in front.                                               *)
LEMMA RanPrepend ==
  ASSUME NEW S, NEW s \in Seq(S), NEW x \in S
  PROVE  <<x>> \o s \in Seq(S) /\ Ran(<<x>> \o s) = Ran(s) \union {x}
<1>1. <<x>> \in Seq(S) /\ Len(<<x>>) = 1 /\ <<x>>[1] = x
  OBVIOUS
<1> DEFINE t == <<x>>
<1> HIDE DEF t
<1>2. t \in Seq(S) /\ Len(t) = 1 /\ t[1] = x
  BY <1>1 DEF t
<1>3. /\ t \o s \in Seq(S) /\ Len(t \o s) = 1 + Len(s)
      /\ \A j \in 1..(1 + Len(s)) : (t \o s)[j] = IF j <= 1 THEN t[j] ELSE s[j - 1]
  <2>1. /\ t \o s \in Seq(S) /\ Len(t \o s) = Len(t) + Len(s)
        /\ \A j \in 1..(Len(t) + Len(s)) :
              (t \o s)[j] = IF j <= Len(t) THEN t[j] ELSE s[j - Len(t)]
    BY <1>2, ConcatProperties
  <2> QED BY <1>2, <2>1
<1>4. Len(s) \in Nat /\ DOMAIN s = 1..Len(s) /\ DOMAIN (t \o s) = 1..(1 + Len(s))
  BY <1>3, LenProperties
<1>5. (t \o s)[1] = x /\ 1 \in DOMAIN (t \o s)
  BY <1>2, <1>3, <1>4
<1>6. \A j \in DOMAIN s : j + 1 \in DOMAIN (t \o s) /\ (t \o s)[j + 1] = s[j]
  <2> TAKE j \in DOMAIN s
  <2>1. j \in 1..Len(s) /\ j + 1 \in 1..(1 + Len(s)) /\ ~(j + 1 <= 1) /\ (j + 1) - 1 = j
    BY <1>4
  <2>2. (t \o s)[j + 1] = s[(j + 1) - 1]
    BY <1>3, <2>1
  <2> QED BY <1>4, <2>1, <2>2
<1>7. \A j \in DOMAIN (t \o s) : j = 1 \/ (j - 1 \in DOMAIN s /\ (t \o s)[j] = s[j - 1])
  <2> TAKE j \in DOMAIN (t \o s)
  <2>1. j \in 1..(1 + Len(s)) /\ j \in Int
    BY <1>4
  <2>2. CASE j = 1
    BY <2>2
  <2>3. CASE j # 1
    <3>1. ~(j <= 1) /\ j - 1 \in 1..Len(s)
      BY <1>4, <2>1, <2>3
    <3>2. (t \o s)[j] = s[j - 1]
      BY <1>3, <2>1, <3>1
    <3> QED BY <1>4, <3>1, <3>2
  <2> QED BY <2>2, <2>3
<1>8. Ran(t \o s) = Ran(s) \union {x}
  <2> HIDE DEF t
  <2>1. Ran(t \o s) \subseteq Ran(s) \union {x}
    BY <1>5, <1>7 DEF Ran
  <2>2. Ran(s) \subseteq Ran(t \o s)
    BY <1>6 DEF Ran
  <2>3. x \in Ran(t \o s)
    BY <1>5 DEF Ran
  <2> QED BY <2>1, <2>2, <2>3
<1> QED BY <1>3, <1>8 DEF t


(* The first element and the others.                                       *)
LEMMA RanSplit ==
  ASSUME NEW S, NEW s \in Seq(S), s # <<>>
  PROVE  Ran(s) = Ran(Tail(s)) \union {Head(s)}
<1>1. Len(s) \in Nat \ {0} /\ DOMAIN s = 1..Len(s)
  BY LenProperties, EmptySeq
<1>2. Head(s) = s[1]
  BY <1>1, HeadTailProperties
<1>3. /\ DOMAIN Tail(s) = 1..(Len(s) - 1)
      /\ \A i \in 1..(Len(s) - 1) : Tail(s)[i] = s[i + 1]
  BY <1>1, HeadTailProperties, LenProperties
<1>4. \A i \in DOMAIN s : s[i] \in Ran(Tail(s)) \union {Head(s)}
  <2> TAKE i \in DOMAIN s
  <2>1. CASE i = 1
    BY <1>2, <2>1
  <2>2. CASE i # 1
    <3>1. i - 1 \in 1..(Len(s) - 1) /\ (i - 1) + 1 = i
      BY <1>1, <2>2
    <3>2. Tail(s)[i - 1] = s[i]
      BY <1>3, <3>1
    <3> QED BY <1>3, <3>1, <3>2 DEF Ran
  <2> QED BY <2>1, <2>2
<1>5. Ran(s) \subseteq Ran(Tail(s)) \union {Head(s)}
  BY <1>4 DEF Ran
<1> QED BY <1>5, RanHeadTail


LEMMA RanTyped ==
  ASSUME NEW S, NEW s \in Seq(S)
  PROVE  Ran(s) \subseteq S
BY LenProperties, ElementOfSeq DEF Ran

(* The largest of a bounded set of numbers.                                *)
LEMMA LargestOf ==
  ASSUME NEW T \in SUBSET Nat, T # {}, NEW bound \in Nat, \A n \in T : n <= bound
  PROVE  \E n \in T : \A k \in T : k <= n
<1> DEFINE U == {n \in Nat : \A k \in T : k <= n}
<1>1. U \subseteq Nat /\ bound \in U
  OBVIOUS
<1>2. PICK n \in U : \A k \in U : ~(<<k, n>> \in OpToRel(<, Nat))
  <2> HIDE DEF U
  <2> QED BY <1>1, NatLessThanWellFounded, WFMin
<1>3. \A k \in U : ~(k < n)
  BY <1>1, <1>2 DEF OpToRel
<1>4. n \in T
  <2> SUFFICES ASSUME n \notin T PROVE FALSE
    OBVIOUS
  <2>1. n \in Nat /\ \A k \in T : k < n
    BY <1>1
  <2>2. PICK k \in T : TRUE
    OBVIOUS
  <2>3. n - 1 \in Nat /\ n - 1 < n
    BY <2>1, <2>2
  <2>4. n - 1 \in U
    BY <2>1, <2>3
  <2> QED BY <1>3, <2>3, <2>4
<1> QED BY <1>4
=============================================================================
