------------------------------ MODULE SeqLemmas -------------------------------
(* Facts about the sequence operators that the queues of the service use. *)
EXTENDS Integers, SequencesExt, SequenceTheorems, TLAPS

\* In a sequence without duplicates, the first occurrence is the only one.
LEMMA RemoveFirstIsRemoveAt ==
  ASSUME NEW S, NEW q \in Seq(S), NEW i \in 1 .. Len(q),
         \A j, k \in DOMAIN q : q[j] = q[k] => j = k
  PROVE  RemoveFirst(q, q[i]) = RemoveAt(q, i)
<1> DEFINE I == {j \in 1 .. Len(q) : q[j] = q[i]}
<1>1. I = {i}
  OBVIOUS
<1>2. SelectInSeq(q, LAMBDA v : v = q[i]) = i
  <2>1. Min(I) = i
    BY <1>1 DEF Min
  <2>2. I # {}
    BY <1>1
  <2> HIDE DEF I
  <2>3. (IF I # {} THEN Min(I) ELSE 0) = i
    BY <2>1, <2>2
  <2> QED
    BY <2>3 DEF SelectInSeq, I
<1> QED
  BY <1>2 DEF RemoveFirst

\* Taking the element at i out of a sequence (splice).
LEMMA RemoveAtSplices ==
  ASSUME NEW S, NEW q \in Seq(S), NEW i \in 1 .. Len(q)
  PROVE  /\ RemoveAt(q, i) \in Seq(S)
         /\ Len(RemoveAt(q, i)) = Len(q) - 1
         /\ \A j \in 1 .. Len(q) - 1 :
              RemoveAt(q, i)[j] = IF j < i THEN q[j] ELSE q[j + 1]
<1> DEFINE a == SubSeq(q, 1, i - 1)
           b == SubSeq(q, i + 1, Len(q))
<1>1. a \in Seq(S) /\ Len(a) = i - 1 /\ \A j \in 1 .. i - 1 : a[j] = q[j]
  OBVIOUS
<1>2. b \in Seq(S) /\ Len(b) = Len(q) - i /\ \A j \in 1 .. Len(q) - i : b[j] = q[i + j]
  OBVIOUS
<1>3. RemoveAt(q, i) = a \o b
  BY DEF RemoveAt
<1> HIDE DEF a, b
<1>4. /\ a \o b \in Seq(S)
      /\ Len(a \o b) = Len(a) + Len(b)
      /\ \A j \in 1 .. Len(a) + Len(b) :
           (a \o b)[j] = IF j <= Len(a) THEN a[j] ELSE b[j - Len(a)]
  BY <1>1, <1>2, ConcatProperties, Zenon
<1>5. ASSUME NEW j \in 1 .. Len(q) - 1
      PROVE  (a \o b)[j] = IF j < i THEN q[j] ELSE q[j + 1]
  BY <1>1, <1>2, <1>4
<1> QED
  BY <1>1, <1>2, <1>3, <1>4, <1>5

\* Taking the one occurrence of an element out of a sequence (indexOf and splice).
LEMMA RemoveFirstSplices ==
  ASSUME NEW S, NEW q \in Seq(S), NEW i \in 1 .. Len(q),
         \A j, k \in DOMAIN q : q[j] = q[k] => j = k
  PROVE  /\ RemoveFirst(q, q[i]) \in Seq(S)
         /\ Len(RemoveFirst(q, q[i])) = Len(q) - 1
         /\ \A j \in 1 .. Len(q) - 1 :
              RemoveFirst(q, q[i])[j] = IF j < i THEN q[j] ELSE q[j + 1]
<1>1. RemoveFirst(q, q[i]) = RemoveAt(q, i)
  BY RemoveFirstIsRemoveAt
<1> DEFINE rest == RemoveAt(q, i)
<1>2. /\ rest \in Seq(S)
      /\ Len(rest) = Len(q) - 1
      /\ \A j \in 1 .. Len(q) - 1 : rest[j] = IF j < i THEN q[j] ELSE q[j + 1]
  BY RemoveAtSplices
<1>3. RemoveFirst(q, q[i]) = rest
  BY <1>1
<1> HIDE DEF rest
<1> QED  BY <1>2, <1>3
===============================================================================
