---------------------------- MODULE QueueLemmas ----------------------------
(***************************************************************************)
(* Lemmas about sequences used as queues, for the proofs of several        *)
(* components: what appending to one, taking its head, removing one of its *)
(* elements and joining two of them do to the elements.                    *)
(***************************************************************************)
EXTENDS Integers, Sequences, SequencesExt, TLAPS

\* A queue to which an element is appended.
LEMMA QueueAppend ==
    ASSUME NEW S, NEW q \in Seq(S), NEW e \in S
    PROVE  /\ Append(q, e) \in Seq(S) /\ Len(q) \in Nat /\ Len(Append(q, e)) = Len(q) + 1
           /\ Append(q, e) # <<>>
           /\ DOMAIN q = 1..Len(q) /\ DOMAIN Append(q, e) = 1..(Len(q) + 1)
           /\ Append(q, e)[Len(q) + 1] = e
           /\ \A i \in 1..Len(q) : Append(q, e)[i] = q[i]
<1>1. /\ Append(q, e) \in Seq(S) /\ Len(q) \in Nat /\ Len(Append(q, e)) = Len(q) + 1
      /\ DOMAIN q = 1..Len(q) /\ DOMAIN Append(q, e) = 1..(Len(q) + 1)
      /\ Append(q, e)[Len(q) + 1] = e
      /\ \A i \in 1..Len(q) : Append(q, e)[i] = q[i]
    OBVIOUS
<1>2. Len(<<>>) = 0
    OBVIOUS
<1> QED
    BY <1>1, <1>2

\* A queue whose head is taken.
LEMMA QueueTail ==
    ASSUME NEW S, NEW q \in Seq(S), q # <<>>
    PROVE  /\ Tail(q) \in Seq(S) /\ Len(q) \in Nat \ {0} /\ Len(Tail(q)) = Len(q) - 1
           /\ DOMAIN q = 1..Len(q) /\ DOMAIN Tail(q) = 1..(Len(q) - 1)
           /\ Head(q) \in S /\ Head(q) = q[1]
           /\ \A i \in 1..(Len(q) - 1) : Tail(q)[i] = q[i + 1]
<1>1. Len(q) \in Nat /\ Len(q) > 0 /\ DOMAIN q = 1..Len(q)
    OBVIOUS
<1>2. /\ Tail(q) \in Seq(S) /\ Len(Tail(q)) = Len(q) - 1 /\ DOMAIN Tail(q) = 1..Len(Tail(q))
      /\ \A i \in 1..(Len(q) - 1) : Tail(q)[i] = q[i + 1]
    OBVIOUS
<1>3. Head(q) = q[1] /\ Head(q) \in S
    BY <1>1
<1> QED
    BY <1>1, <1>2, <1>3

\* Two queues, one after the other.
LEMMA QueueConcat ==
    ASSUME NEW S, NEW a \in Seq(S), NEW b \in Seq(S)
    PROVE  /\ a \o b \in Seq(S) /\ Len(a) \in Nat /\ Len(b) \in Nat
           /\ Len(a \o b) = Len(a) + Len(b) /\ DOMAIN (a \o b) = 1..(Len(a) + Len(b))
           /\ \A j \in 1..Len(a) : (a \o b)[j] = a[j]
           /\ \A j \in (Len(a) + 1)..(Len(a) + Len(b)) : (a \o b)[j] = b[j - Len(a)]
<1>1. a \o b \in Seq(S) /\ Len(a) \in Nat /\ Len(b) \in Nat
    OBVIOUS
<1>2. Len(a \o b) = Len(a) + Len(b)
    OBVIOUS
<1>3. DOMAIN (a \o b) = 1..Len(a \o b)
    BY <1>1
<1>4. \A j \in 1..(Len(a) + Len(b)) :
         (a \o b)[j] = IF j <= Len(a) THEN a[j] ELSE b[j - Len(a)]
    OBVIOUS
<1>5. \A j \in 1..Len(a) : (a \o b)[j] = a[j]
    BY <1>1, <1>4
<1>6. \A j \in (Len(a) + 1)..(Len(a) + Len(b)) : (a \o b)[j] = b[j - Len(a)]
    BY <1>1, <1>4
<1> QED
    BY <1>1, <1>2, <1>3, <1>5, <1>6

\* A queue one element of which is taken.
LEMMA QueueRemove ==
    ASSUME NEW S, NEW q \in Seq(S), NEW i \in DOMAIN q
    PROVE  /\ RemoveAt(q, i) \in Seq(S) /\ q[i] \in S /\ DOMAIN q = 1..Len(q)
           /\ Len(q) \in Nat \ {0}
           /\ Len(RemoveAt(q, i)) = Len(q) - 1 /\ DOMAIN RemoveAt(q, i) = 1..(Len(q) - 1)
           /\ \A j \in 1..(Len(q) - 1) : RemoveAt(q, i)[j] = IF j < i THEN q[j] ELSE q[j + 1]
<1>1. Len(q) \in Nat /\ DOMAIN q = 1..Len(q) /\ i \in 1..Len(q) /\ \A j \in 1..Len(q) : q[j] \in S
    OBVIOUS
<1> DEFINE a == SubSeq(q, 1, i - 1)
           b == SubSeq(q, i + 1, Len(q))
<1>2. a \in Seq(S) /\ Len(a) = i - 1 /\ \A j \in 1..(i - 1) : a[j] = q[j]
    BY <1>1
<1>3. b \in Seq(S) /\ Len(b) = Len(q) - i /\ \A j \in 1..(Len(q) - i) : b[j] = q[j + i]
    BY <1>1
<1>4. RemoveAt(q, i) = a \o b
    BY DEF RemoveAt
<1> HIDE DEF a, b
<1>5. /\ a \o b \in Seq(S) /\ Len(a \o b) = Len(a) + Len(b)
      /\ DOMAIN (a \o b) = 1..(Len(a) + Len(b))
      /\ \A j \in 1..Len(a) : (a \o b)[j] = a[j]
      /\ \A j \in (Len(a) + 1)..(Len(a) + Len(b)) : (a \o b)[j] = b[j - Len(a)]
    BY <1>2, <1>3, QueueConcat
<1>6. Len(a \o b) = Len(q) - 1 /\ DOMAIN (a \o b) = 1..(Len(q) - 1)
    <2>1. Len(a) + Len(b) = Len(q) - 1
        BY <1>1, <1>2, <1>3
    <2> QED
        BY <1>5, <2>1
<1>7. ASSUME NEW j \in 1..(Len(q) - 1)
      PROVE  (a \o b)[j] = IF j < i THEN q[j] ELSE q[j + 1]
    <2>1. CASE j < i
        <3>1. j \in 1..Len(a) /\ j \in 1..(i - 1)
            BY <1>1, <1>2, <2>1
        <3> QED
            BY <1>2, <1>5, <2>1, <3>1
    <2>2. CASE ~(j < i)
        <3>1. j \in (Len(a) + 1)..(Len(a) + Len(b)) /\ j - (i - 1) \in 1..(Len(q) - i)
              /\ (j - (i - 1)) + i = j + 1 /\ j - Len(a) = j - (i - 1)
            BY <1>1, <1>2, <1>3, <2>2
        <3> QED
            BY <1>3, <1>5, <2>2, <3>1
    <2> QED
        BY <2>1, <2>2
<1>8. /\ RemoveAt(q, i) \in Seq(S) /\ Len(RemoveAt(q, i)) = Len(q) - 1
      /\ DOMAIN RemoveAt(q, i) = 1..(Len(q) - 1)
    BY <1>4, <1>5, <1>6
<1>9. \A j \in 1..(Len(q) - 1) : RemoveAt(q, i)[j] = IF j < i THEN q[j] ELSE q[j + 1]
    BY <1>4, <1>7
<1> QED
    BY <1>1, <1>8, <1>9

-----------------------------------------------------------------------------
(* The elements of a queue *)

LEMMA RangeAppend ==
    ASSUME NEW S, NEW q \in Seq(S), NEW e \in S
    PROVE  Range(Append(q, e)) = Range(q) \cup {e}
<1>1. /\ DOMAIN q = 1..Len(q) /\ Len(q) \in Nat /\ DOMAIN Append(q, e) = 1..(Len(q) + 1)
      /\ Append(q, e)[Len(q) + 1] = e
      /\ \A i \in 1..Len(q) : Append(q, e)[i] = q[i]
    BY QueueAppend
<1>2. ASSUME NEW x \in Range(Append(q, e)) PROVE x \in Range(q) \cup {e}
    <2>1. PICK i \in 1..(Len(q) + 1) : x = Append(q, e)[i]
        BY <1>1 DEF Range
    <2>2. i = Len(q) + 1 \/ i \in 1..Len(q)
        BY <1>1
    <2> QED
        BY <1>1, <2>1, <2>2 DEF Range
<1>3. ASSUME NEW x \in Range(q) PROVE x \in Range(Append(q, e))
    <2>1. PICK i \in 1..Len(q) : x = q[i]
        BY <1>1 DEF Range
    <2>2. i \in 1..(Len(q) + 1)
        BY <1>1
    <2> QED
        BY <1>1, <2>1, <2>2 DEF Range
<1>4. e \in Range(Append(q, e))
    <2>1. Len(q) + 1 \in 1..(Len(q) + 1)
        BY <1>1
    <2> QED
        BY <1>1, <2>1 DEF Range
<1> QED
    BY <1>2, <1>3, <1>4

LEMMA RangeTail ==
    ASSUME NEW S, NEW q \in Seq(S), q # <<>>
    PROVE  Range(q) = Range(Tail(q)) \cup {Head(q)}
<1>1. /\ DOMAIN q = 1..Len(q) /\ Len(q) \in Nat \ {0} /\ DOMAIN Tail(q) = 1..(Len(q) - 1)
      /\ Head(q) = q[1]
      /\ \A i \in 1..(Len(q) - 1) : Tail(q)[i] = q[i + 1]
    BY QueueTail
<1>2. ASSUME NEW x \in Range(q) PROVE x \in Range(Tail(q)) \cup {Head(q)}
    <2>1. PICK i \in 1..Len(q) : x = q[i]
        BY <1>1 DEF Range
    <2>2. i = 1 \/ (i - 1 \in 1..(Len(q) - 1) /\ (i - 1) + 1 = i)
        BY <1>1
    <2> QED
        BY <1>1, <2>1, <2>2 DEF Range
<1>3. ASSUME NEW x \in Range(Tail(q)) PROVE x \in Range(q)
    <2>1. PICK i \in 1..(Len(q) - 1) : x = q[i + 1]
        BY <1>1 DEF Range
    <2>2. i + 1 \in 1..Len(q)
        BY <1>1
    <2> QED
        BY <1>1, <2>1, <2>2 DEF Range
<1>4. Head(q) \in Range(q)
    <2>1. 1 \in 1..Len(q)
        BY <1>1
    <2> QED
        BY <1>1, <2>1 DEF Range
<1> QED
    BY <1>2, <1>3, <1>4

LEMMA RangeOf ==
    ASSUME NEW S, NEW q \in Seq(S)
    PROVE  /\ Range(q) \subseteq S
           /\ \A x : x \in Range(q) <=> \E i \in DOMAIN q : x = q[i]
    BY DEF Range

\* The first occurrence of an element is removed from a queue without repetitions.
LEMMA FirstRemoved ==
    ASSUME NEW S, NEW q \in Seq(S), IsInjective(q), NEW n
    PROVE  /\ RemoveFirst(q, n) \in Seq(S) /\ IsInjective(RemoveFirst(q, n))
           /\ Range(RemoveFirst(q, n)) = Range(q) \ {n}
<1>1. DOMAIN q = 1..Len(q) /\ Len(q) \in Nat
    OBVIOUS
<1>2. CASE \E i \in 1..Len(q) : q[i] = n
    <2>1. PICK i \in 1..Len(q) : q[i] = n
        BY <1>2
    <2>2. {j \in 1..Len(q) : q[j] = n} = {i}
        BY <1>1, <2>1 DEF IsInjective
    <2>3. Min({i}) = i
        BY <2>1 DEF Min
    <2>4. SelectInSeq(q, LAMBDA v : v = n) = i
        BY <2>2, <2>3 DEF SelectInSeq
    <2>5. RemoveFirst(q, n) = RemoveAt(q, i)
        BY <1>2, <2>4 DEF RemoveFirst
    <2> DEFINE r == RemoveAt(q, i)
    <2>6. /\ r \in Seq(S) /\ DOMAIN r = 1..(Len(q) - 1)
          /\ \A j \in 1..(Len(q) - 1) : r[j] = IF j < i THEN q[j] ELSE q[j + 1]
        BY <1>1, <2>1, QueueRemove
    <2> HIDE DEF r
    <2>7. ASSUME NEW j \in DOMAIN r, NEW k \in DOMAIN r, r[j] = r[k]
          PROVE  j = k
        <3>1. /\ (j < i => r[j] = q[j]) /\ (~(j < i) => r[j] = q[j + 1])
              /\ (k < i => r[k] = q[k]) /\ (~(k < i) => r[k] = q[k + 1])
              /\ j \in 1..Len(q) /\ k \in 1..Len(q) /\ j + 1 \in 1..Len(q) /\ k + 1 \in 1..Len(q)
            BY <1>1, <2>6, <2>7
        <3> QED
            BY <1>1, <2>1, <2>7, <3>1 DEF IsInjective
    <2>8. ASSUME NEW x \in Range(r) PROVE x \in Range(q) \ {n}
        <3>1. PICK j \in DOMAIN r : x = r[j]
            BY <2>8 DEF Range
        <3>2. PICK k \in 1..Len(q) : k # i /\ x = q[k]
            <4>1. CASE j < i
                BY <1>1, <2>1, <2>6, <3>1, <4>1
            <4>2. CASE ~(j < i)
                <5>1. j + 1 \in 1..Len(q) /\ j + 1 # i
                    BY <1>1, <2>1, <2>6, <4>2
                <5> QED
                    BY <2>6, <3>1, <4>2, <5>1
            <4> QED
                BY <4>1, <4>2
        <3> QED
            BY <1>1, <2>1, <3>2 DEF Range, IsInjective
    <2>9. ASSUME NEW x \in Range(q) \ {n} PROVE x \in Range(r)
        <3>1. PICK k \in 1..Len(q) : x = q[k] /\ k # i
            BY <1>1, <2>1, <2>9 DEF Range
        <3>2. CASE k < i
            <4>1. k \in DOMAIN r /\ r[k] = q[k]
                BY <1>1, <2>1, <2>6, <3>1, <3>2
            <4> QED
                BY <3>1, <4>1 DEF Range
        <3>3. CASE ~(k < i)
            <4>1. k - 1 \in 1..(Len(q) - 1) /\ ~(k - 1 < i) /\ (k - 1) + 1 = k
                BY <1>1, <2>1, <3>1, <3>3
            <4>2. k - 1 \in DOMAIN r /\ r[k - 1] = q[k]
                BY <2>6, <4>1
            <4> QED
                BY <3>1, <4>2 DEF Range
        <3> QED
            BY <3>2, <3>3
    <2>10. IsInjective(r) /\ Range(r) = Range(q) \ {n}
        BY <2>7, <2>8, <2>9 DEF IsInjective
    <2> QED
        BY <2>5, <2>6, <2>10 DEF r
<1>3. CASE ~(\E i \in 1..Len(q) : q[i] = n)
    <2>1. RemoveFirst(q, n) = q
        BY <1>3 DEF RemoveFirst
    <2>2. n \notin Range(q)
        BY <1>1, <1>3 DEF Range
    <2> QED
        BY <2>1, <2>2
<1> QED
    BY <1>2, <1>3

\* A new element is appended to a queue without repetitions.
LEMMA AppendNew ==
    ASSUME NEW S, NEW q \in Seq(S), IsInjective(q), NEW e \in S \ Range(q)
    PROVE  IsInjective(Append(q, e))
<1>1. /\ DOMAIN q = 1..Len(q) /\ Len(q) \in Nat /\ DOMAIN Append(q, e) = 1..(Len(q) + 1)
      /\ Append(q, e)[Len(q) + 1] = e
      /\ \A i \in 1..Len(q) : Append(q, e)[i] = q[i] /\ q[i] # e
    BY QueueAppend DEF Range
<1>2. ASSUME NEW i \in 1..(Len(q) + 1), NEW j \in 1..(Len(q) + 1), Append(q, e)[i] = Append(q, e)[j]
      PROVE  i = j
    <2>1. (i = Len(q) + 1 \/ i \in 1..Len(q)) /\ (j = Len(q) + 1 \/ j \in 1..Len(q))
        BY <1>1
    <2> QED
        BY <1>1, <1>2, <2>1 DEF IsInjective
<1> QED
    BY <1>1, <1>2 DEF IsInjective
=============================================================================
