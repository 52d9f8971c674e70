------------------------- MODULE MailboxQueueProofs -------------------------
(***************************************************************************)
(* Lemmas about MailboxQueue: where the messages of a queue are after an   *)
(* insertion and after a removal, and that both keep its order.            *)
(***************************************************************************)
EXTENDS MailboxQueue, SequenceTheorems, TLAPS

(* A slice of a sequence: its length and where its elements come from.     *)
LEMMA SubSeqOfSeq ==
    ASSUME NEW S, NEW q \in Seq(S), NEW a \in Nat \ {0}, NEW b \in Nat, b <= Len(q)
    PROVE  /\ SubSeq(q, a, b) \in Seq(S)
           /\ Len(SubSeq(q, a, b)) = IF a <= b THEN b - a + 1 ELSE 0
           /\ \A i \in 1..Len(SubSeq(q, a, b)) : SubSeq(q, a, b)[i] = q[a + i - 1]
<1>1. \A i \in a..b : q[i] \in S
  BY ElementOfSeq
<1>2. QED
  BY <1>1, SubSeqProperties

(* Where the elements of a queue are after one was put behind the k-th.    *)
LEMMA InsertAfterProperties ==
    ASSUME NEW S, NEW q \in Seq(S), NEW m \in S, NEW k \in 0..Len(q),
           NEW r, r = InsertAfter(q, k, m)
    PROVE  /\ r \in Seq(S)
           /\ Len(r) = Len(q) + 1
           /\ \A i \in 1..Len(r) :
                 r[i] = IF i <= k THEN q[i] ELSE IF i = k + 1 THEN m ELSE q[i - 1]
<1> DEFINE front == SubSeq(q, 1, k)
           back == SubSeq(q, k + 1, Len(q))
<1>0. Len(q) \in Nat /\ k \in Nat
  BY LenProperties
<1>1. /\ front \in Seq(S) /\ Len(front) = k
      /\ \A i \in 1..k : front[i] = q[i]
  BY <1>0, SubSeqOfSeq
<1>2. /\ back \in Seq(S) /\ Len(back) = Len(q) - k
      /\ \A i \in 1..Len(q) - k : back[i] = q[k + i]
  BY <1>0, SubSeqOfSeq
<1>3. /\ <<m>> \in Seq(S) /\ Len(<<m>>) = 1 /\ <<m>>[1] = m
  OBVIOUS
<1> HIDE DEF front, back
<1>4. /\ front \o <<m>> \in Seq(S)
      /\ Len(front \o <<m>>) = k + 1
      /\ \A i \in 1..k + 1 : (front \o <<m>>)[i] = IF i <= k THEN q[i] ELSE m
  BY <1>0, <1>1, <1>3, ConcatProperties
<1>5. /\ r \in Seq(S)
      /\ Len(r) = Len(q) + 1
      /\ \A i \in 1..Len(q) + 1 :
            r[i] = IF i <= k + 1 THEN (front \o <<m>>)[i] ELSE back[i - (k + 1)]
  <2>1. r = (front \o <<m>>) \o back
    BY DEF InsertAfter, front, back
  <2>2. QED
    BY <2>1, <1>0, <1>2, <1>4, ConcatProperties
<1>6. QED
  <2>1. SUFFICES ASSUME NEW i \in 1..Len(r)
                 PROVE  r[i] = IF i <= k THEN q[i] ELSE IF i = k + 1 THEN m ELSE q[i - 1]
    BY <1>5
  <2>2. CASE i <= k + 1
    BY <2>2, <1>0, <1>4, <1>5
  <2>3. CASE i > k + 1
    <3>0. i \in Int /\ i <= Len(q) + 1
      BY <1>0, <1>5
    <3>1. i - (k + 1) \in 1..Len(q) - k /\ k + (i - (k + 1)) = i - 1
      BY <2>3, <3>0, <1>0
    <3>2. r[i] = back[i - (k + 1)]
      BY <2>3, <1>0, <1>5
    <3>3. back[i - (k + 1)] = q[k + (i - (k + 1))]
      BY <3>1, <1>2
    <3>4. QED
      BY <2>3, <3>1, <3>2, <3>3, <1>0
  <2>4. QED
    BY <2>2, <2>3, <1>0, <1>5

(* Where the elements of a queue are after the d-th was cut out.           *)
LEMMA RemoveAtProperties ==
    ASSUME NEW S, NEW q \in Seq(S), NEW d \in 1..Len(q),
           NEW r, r = RemoveAt(q, d)
    PROVE  /\ r \in Seq(S)
           /\ Len(r) = Len(q) - 1
           /\ \A i \in 1..Len(r) : r[i] = IF i < d THEN q[i] ELSE q[i + 1]
<1> DEFINE front == SubSeq(q, 1, d - 1)
           back == SubSeq(q, d + 1, Len(q))
<1>0. Len(q) \in Nat /\ d \in Nat \ {0} /\ d <= Len(q)
  BY LenProperties
<1>1. /\ front \in Seq(S) /\ Len(front) = d - 1
      /\ \A i \in 1..d - 1 : front[i] = q[i]
  BY <1>0, SubSeqOfSeq
<1>2. /\ back \in Seq(S) /\ Len(back) = Len(q) - d
      /\ \A i \in 1..Len(q) - d : back[i] = q[d + i]
  BY <1>0, SubSeqOfSeq
<1> HIDE DEF front, back
<1>3. r = front \o back
  BY DEF RemoveAt, front, back
<1>4. /\ r \in Seq(S)
      /\ Len(r) = Len(q) - 1
      /\ \A i \in 1..Len(q) - 1 :
            r[i] = IF i <= d - 1 THEN front[i] ELSE back[i - (d - 1)]
  <2>1. Len(front) + Len(back) = Len(q) - 1
    BY <1>0, <1>1, <1>2
  <2>2. front \in Seq(S) /\ back \in Seq(S)
    BY <1>1, <1>2
  <2>3. /\ front \o back \in Seq(S)
        /\ Len(front \o back) = Len(front) + Len(back)
        /\ \A i \in 1..Len(front) + Len(back) :
              (front \o back)[i] = IF i <= Len(front) THEN front[i] ELSE back[i - Len(front)]
    BY <2>2, ConcatProperties
  <2>4. QED
    BY <2>1, <2>3, <1>1, <1>3
<1>5. SUFFICES ASSUME NEW i \in 1..Len(r)
               PROVE  r[i] = IF i < d THEN q[i] ELSE q[i + 1]
  BY <1>4
<1>6. CASE i < d
  BY <1>6, <1>0, <1>1, <1>4
<1>7. CASE i >= d
  <2>1. i - (d - 1) \in 1..Len(q) - d /\ d + (i - (d - 1)) = i + 1
    BY <1>7, <1>0, <1>4
  <2>2. r[i] = back[i - (d - 1)]
    BY <1>7, <1>0, <1>4
  <2>3. back[i - (d - 1)] = q[d + (i - (d - 1))]
    BY <2>1, <1>2
  <2>4. QED
    BY <1>7, <2>1, <2>2, <2>3, <1>0
<1>8. QED
  BY <1>6, <1>7, <1>0, <1>4

----------------------------------------------------------------------------

Elements(q) == {q[i] : i \in 1..Len(q)}

(* Stamps and importances are numbers.                                     *)
LEMMA MessageFields ==
    ASSUME NEW m \in Message
    PROVE  m.stamp \in Nat /\ m.imp \in Nat
<1>1. m.stamp \in 1..MaxSends /\ m.imp \in Levels
  BY DEF Message
<1>2. m.imp \in 1..5
  BY <1>1, LevelsAssumption DEF SystemLevel
<1>3. QED
  BY <1>1, <1>2, MaxSendsAssumption

(* Insertion adds the message and nothing else.                            *)
LEMMA InsertAfterElements ==
    ASSUME NEW q \in Seq(Message), NEW m \in Message, NEW k \in 0..Len(q),
           NEW r, r = InsertAfter(q, k, m)
    PROVE  Elements(r) = Elements(q) \cup {m}
<1>1. /\ Len(q) \in Nat /\ Len(r) = Len(q) + 1
      /\ \A i \in 1..Len(r) :
            r[i] = IF i <= k THEN q[i] ELSE IF i = k + 1 THEN m ELSE q[i - 1]
  BY InsertAfterProperties, LenProperties
<1>2. ASSUME NEW x \in Elements(r) PROVE x \in Elements(q) \cup {m}
  <2>1. PICK i \in 1..Len(r) : x = r[i]
    BY DEF Elements
  <2>2. CASE i <= k
    BY <2>1, <2>2, <1>1 DEF Elements
  <2>3. CASE i = k + 1
    BY <2>1, <2>3, <1>1
  <2>4. CASE i > k + 1
    <3>1. x = q[i - 1] /\ i - 1 \in 1..Len(q)
      BY <2>1, <2>4, <1>1
    <3>2. QED
      BY <3>1 DEF Elements
  <2>5. QED
    BY <2>2, <2>3, <2>4, <1>1
<1>3. m \in Elements(r)
  <2>1. k + 1 \in 1..Len(r) /\ r[k + 1] = m
    BY <1>1
  <2>2. QED
    BY <2>1 DEF Elements
<1>4. ASSUME NEW x \in Elements(q) PROVE x \in Elements(r)
  <2>1. PICK i \in 1..Len(q) : x = q[i]
    BY DEF Elements
  <2>2. CASE i <= k
    <3>1. i \in 1..Len(r) /\ r[i] = x
      BY <2>1, <2>2, <1>1
    <3>2. QED
      BY <3>1 DEF Elements
  <2>3. CASE i > k
    <3>1. i + 1 \in 1..Len(r) /\ r[i + 1] = q[(i + 1) - 1] /\ (i + 1) - 1 = i
      BY <2>1, <2>3, <1>1
    <3>2. r[i + 1] = x
      BY <3>1, <2>1
    <3>3. QED
      BY <3>1, <3>2 DEF Elements
  <2>4. QED
    BY <2>2, <2>3, <1>1
<1>5. QED
  BY <1>2, <1>3, <1>4

(* insertMessage puts a message that is newer than the queued ones where   *)
(* the order is kept.                                                      *)
LEMMA InsertedProperties ==
    ASSUME NEW q \in Seq(Message), NEW m \in Message, NEW r,
           Inserted(q, m, r)
    PROVE  \E k \in 0..Len(q) :
              /\ r = InsertAfter(q, k, m)
              /\ IsSystem(m) => EndsSystemRun(q, k)
              /\ ~IsSystem(m) => k = Len(q)
<1>0. Len(q) \in Nat
  BY LenProperties
<1>1. CASE IsSystem(m)
  BY <1>1 DEF Inserted
<1>2. CASE ~IsSystem(m)
  <2>1. r = Append(q, m)
    BY <1>2 DEF Inserted
  <2>2. InsertAfter(q, Len(q), m) = (q \o <<m>>) \o << >>
    <3>1. SubSeq(q, 1, Len(q)) = q
      BY SubSeqFull
    <3>2. SubSeq(q, Len(q) + 1, Len(q)) = << >>
      BY <1>0, SubSeqEmpty
    <3>3. QED
      BY <3>1, <3>2 DEF InsertAfter
  <2>3. (q \o <<m>>) \o << >> = q \o <<m>>
    <3>1. q \o <<m>> \in Seq(Message)
      BY ConcatProperties
    <3>2. QED
      BY <3>1, ConcatEmptySeq
  <2>4. Append(q, m) = q \o <<m>>
    BY AppendIsConcat
  <2>5. QED
    BY <1>0, <1>2, <2>1, <2>2, <2>3, <2>4
<1>3. QED
  BY <1>1, <1>2

(* Whatever position insertMessage takes, the order of the queue is kept   *)
(* if the message is younger than what is queued.                          *)
LEMMA InsertedKeepsOrder ==
    ASSUME NEW q \in Seq(Message), NEW m \in Message, NEW r,
           Inserted(q, m, r), Ordered(q),
           \A i \in 1..Len(q) : q[i].stamp < m.stamp
    PROVE  /\ r \in Seq(Message)
           /\ Len(r) = Len(q) + 1
           /\ Elements(r) = Elements(q) \cup {m}
           /\ Ordered(r)
<1>0. Len(q) \in Nat
  BY LenProperties
<1>1. PICK k \in 0..Len(q) :
              /\ r = InsertAfter(q, k, m)
              /\ IsSystem(m) => EndsSystemRun(q, k)
              /\ ~IsSystem(m) => k = Len(q)
  BY InsertedProperties
<1>2. /\ r \in Seq(Message)
      /\ Len(r) = Len(q) + 1
      /\ \A i \in 1..Len(r) :
            r[i] = IF i <= k THEN q[i] ELSE IF i = k + 1 THEN m ELSE q[i - 1]
  BY <1>1, InsertAfterProperties
<1>3. Elements(r) = Elements(q) \cup {m}
  BY <1>1, InsertAfterElements
<1>4. ASSUME NEW i \in 1..k PROVE IsSystem(m) => IsSystem(q[i])
  BY <1>1 DEF EndsSystemRun
<1>5. ASSUME NEW i \in 1..Len(q), i > k PROVE IsSystem(m) /\ ~IsSystem(q[i])
  <2>1. IsSystem(m) /\ EndsSystemRun(q, k) /\ k < Len(q)
    BY <1>0, <1>1, <1>5
  <2>2. ~IsSystem(q[k + 1])
    BY <2>1 DEF EndsSystemRun
  <2>3. CASE i = k + 1
    BY <2>1, <2>2, <2>3
  <2>4. CASE i > k + 1
    BY <1>0, <2>1, <2>2, <2>4 DEF Ordered
  <2>5. QED
    BY <1>0, <1>5, <2>3, <2>4
<1>6. ASSUME NEW i \in 1..Len(r), NEW j \in 1..Len(r), i < j
      PROVE  /\ IsSystem(r[j]) => IsSystem(r[i])
             /\ SameClass(r[i], r[j]) => r[i].stamp < r[j].stamp
  <2>1. CASE j <= k
    BY <2>1, <1>0, <1>2, <1>6 DEF Ordered
  <2>2. CASE j = k + 1
    <3>1. i \in 1..k /\ i \in 1..Len(q) /\ r[i] = q[i] /\ r[j] = m
      BY <2>2, <1>0, <1>2, <1>6
    <3>2. QED
      BY <3>1, <1>4
  <2>3. CASE j > k + 1 /\ i <= k
    <3>1. i \in 1..Len(q) /\ j - 1 \in 1..Len(q) /\ i < j - 1
      BY <2>3, <1>0, <1>2
    <3>2. r[i] = q[i] /\ r[j] = q[j - 1]
      BY <2>3, <1>0, <1>2
    <3>3. QED
      BY <3>1, <3>2 DEF Ordered
  <2>4. CASE j > k + 1 /\ i = k + 1
    <3>1. j - 1 \in 1..Len(q) /\ j - 1 > k
      BY <2>4, <1>0, <1>2
    <3>2. r[i] = m /\ r[j] = q[j - 1]
      BY <2>4, <1>0, <1>2
    <3>3. QED
      BY <3>1, <3>2, <1>5 DEF SameClass
  <2>5. CASE j > k + 1 /\ i > k + 1
    <3>1. i - 1 \in 1..Len(q) /\ j - 1 \in 1..Len(q) /\ i - 1 < j - 1
      BY <2>5, <1>0, <1>2, <1>6
    <3>2. r[i] = q[i - 1] /\ r[j] = q[j - 1]
      BY <2>5, <1>0, <1>2
    <3>3. QED
      BY <3>1, <3>2 DEF Ordered
  <2>6. QED
    BY <2>1, <2>2, <2>3, <2>4, <2>5, <1>0, <1>2
<1>7. QED
  BY <1>2, <1>3, <1>6 DEF Ordered

(* Removing a message, the head or another, keeps the order.               *)
LEMMA RemovedKeepsOrder ==
    ASSUME NEW q \in Seq(Message), NEW d \in 1..Len(q), NEW r \in Seq(Message),
           Ordered(q), Len(r) = Len(q) - 1,
           \A i \in 1..Len(r) : r[i] = IF i < d THEN q[i] ELSE q[i + 1]
    PROVE  /\ Ordered(r)
           /\ Elements(r) = Elements(q) \ {q[d]}
<1>0. Len(q) \in Nat /\ Len(r) \in Nat
  BY LenProperties
<1> DEFINE old(i) == IF i < d THEN i ELSE i + 1
<1>1. ASSUME NEW i \in 1..Len(r)
      PROVE  old(i) \in 1..Len(q) /\ old(i) # d /\ r[i] = q[old(i)]
  BY <1>0
<1>2. ASSUME NEW i \in 1..Len(r), NEW j \in 1..Len(r), i < j
      PROVE  old(i) < old(j)
  BY <1>0, <1>2
<1>3. ASSUME NEW i \in 1..Len(q), i # d
      PROVE  \E j \in 1..Len(r) : old(j) = i
  <2>1. CASE i < d
    <3>1. i \in 1..Len(r) /\ old(i) = i
      BY <2>1, <1>0
    <3>2. QED
      BY <3>1
  <2>2. CASE i > d
    <3>1. i - 1 \in 1..Len(r) /\ old(i - 1) = i
      BY <2>2, <1>0
    <3>2. QED
      BY <3>1
  <2>3. QED
    BY <2>1, <2>2, <1>0, <1>3
<1> HIDE DEF old
<1>4. Ordered(r)
  BY <1>1, <1>2 DEF Ordered
<1>5. ASSUME NEW i \in 1..Len(q), i # d PROVE q[i] # q[d]
  <2>1. CASE i < d
    <3>1. q[i] = q[d] => q[i].stamp < q[i].stamp
      BY <2>1 DEF Ordered, SameClass
    <3>2. q[i] \in Message
      BY ElementOfSeq
    <3>3. QED
      BY <3>1, <3>2, MessageFields
  <2>2. CASE i > d
    <3>1. q[i] = q[d] => q[i].stamp < q[i].stamp
      BY <2>2 DEF Ordered, SameClass
    <3>2. q[i] \in Message
      BY ElementOfSeq
    <3>3. QED
      BY <3>1, <3>2, MessageFields
  <2>3. QED
    BY <2>1, <2>2, <1>0, <1>5
<1>6. ASSUME NEW x \in Elements(r) PROVE x \in Elements(q) \ {q[d]}
  BY <1>1, <1>5 DEF Elements
<1>7. ASSUME NEW x \in Elements(q) \ {q[d]} PROVE x \in Elements(r)
  <2>1. PICK i \in 1..Len(q) : x = q[i] /\ i # d
    BY DEF Elements
  <2>2. PICK j \in 1..Len(r) : old(j) = i
    BY <2>1, <1>3
  <2>3. QED
    BY <2>1, <2>2, <1>1 DEF Elements
<1>8. QED
  BY <1>4, <1>6, <1>7
=============================================================================
