-------------------------------- MODULE Queues --------------------------------
(***************************************************************************)
(* What is known of the contents of a queue after an element was appended or  *)
(* taken from its front, for the proofs about event queues and packets.       *)
(***************************************************************************)
EXTENDS Naturals, Sequences, TLAPS

\* No element of the queue is in S.
None(s, S) == \A i \in DOMAIN s : s[i] \notin S

\* At most one element of the queue is in S.
One(s, S) == \A i, j \in DOMAIN s : s[i] \in S /\ s[j] \in S => i = j

\* Every a in the queue comes before every b.
Precedes(s, a, b) == \A i, j \in DOMAIN s : s[i] = a /\ s[j] = b => i < j

\* The empty queue.
LEMMA EmptyQueue ==
    ASSUME NEW S, NEW a, NEW b
    PROVE  None(<<>>, S) /\ One(<<>>, S) /\ Precedes(<<>>, a, b)
  BY DEF None, One, Precedes

\* An element is appended.
LEMMA AppendToQueue ==
    ASSUME NEW T, NEW s \in Seq(T), NEW e \in T, NEW S
    PROVE  /\ Append(s, e) \in Seq(T)
           /\ None(Append(s, e), S) <=> None(s, S) /\ e \notin S
           /\ One(s, S) /\ (e \notin S \/ None(s, S)) => One(Append(s, e), S)
           /\ \A a, b : Precedes(s, a, b) /\ (e # a \/ None(s, {b})) /\ a # b
                            => Precedes(Append(s, e), a, b)
  <1>1. /\ Append(s, e) \in Seq(T) /\ Len(Append(s, e)) = Len(s) + 1
        /\ DOMAIN Append(s, e) = 1 .. Len(s) + 1 /\ DOMAIN s = 1 .. Len(s) /\ Len(s) \in Nat
        /\ \A i \in 1 .. Len(s) : Append(s, e)[i] = s[i]
        /\ Append(s, e)[Len(s) + 1] = e
    OBVIOUS
  <1> DEFINE t == Append(s, e)
  <1> HIDE DEF t
  <1>2. None(t, S) <=> None(s, S) /\ e \notin S
    BY <1>1 DEF None, t
  <1>3. One(s, S) /\ (e \notin S \/ None(s, S)) => One(t, S)
    BY <1>1 DEF None, One, t
  <1>4. ASSUME NEW a, NEW b, Precedes(s, a, b), e # a \/ None(s, {b}), a # b
        PROVE  Precedes(t, a, b)
    BY <1>1, <1>4 DEF None, Precedes, t
  <1> QED
    BY <1>1, <1>2, <1>3, <1>4 DEF t

\* The first element is taken.
LEMMA TakeFromQueue ==
    ASSUME NEW T, NEW s \in Seq(T), s # <<>>, NEW S
    PROVE  /\ Head(s) \in T /\ Tail(s) \in Seq(T)
           /\ None(s, S) <=> None(Tail(s), S) /\ Head(s) \notin S
           /\ One(s, S) => One(Tail(s), S) /\ (Head(s) \in S => None(Tail(s), S))
           /\ \A a, b : Precedes(s, a, b) => /\ Precedes(Tail(s), a, b)
                                             /\ Head(s) = b /\ a # b => None(Tail(s), {a})
  <1>1. /\ Head(s) \in T /\ Tail(s) \in Seq(T) /\ Len(Tail(s)) = Len(s) - 1
        /\ DOMAIN Tail(s) = 1 .. Len(s) - 1 /\ DOMAIN s = 1 .. Len(s) /\ Len(s) \in Nat /\ Len(s) > 0
        /\ \A i \in 1 .. Len(s) - 1 : Tail(s)[i] = s[i + 1]
        /\ Head(s) = s[1]
    OBVIOUS
  <1> DEFINE t == Tail(s)
  <1> HIDE DEF t
  <1>5. \A i \in DOMAIN s : i = 1 \/ (i - 1 \in DOMAIN t /\ s[i] = t[i - 1])
    BY <1>1 DEF t
  <1>6. \A i \in DOMAIN t : i + 1 \in DOMAIN s /\ t[i] = s[i + 1] /\ i \in Nat
    BY <1>1 DEF t
  <1>7. 1 \in DOMAIN s
    BY <1>1
  <1>2. None(s, S) <=> None(t, S) /\ Head(s) \notin S
    BY <1>1, <1>5, <1>6, <1>7 DEF None
  <1>3. One(s, S) => One(t, S) /\ (Head(s) \in S => None(t, S))
    <2> SUFFICES ASSUME One(s, S) PROVE One(t, S) /\ (Head(s) \in S => None(t, S))
      OBVIOUS
    <2>1. ASSUME NEW i \in DOMAIN t, NEW j \in DOMAIN t, t[i] \in S, t[j] \in S PROVE i = j
      <3>1. i + 1 = j + 1
        BY <1>6, <2>1 DEF One
      <3> QED
        BY <1>6, <3>1
    <2>2. ASSUME Head(s) \in S, NEW i \in DOMAIN t, t[i] \in S PROVE FALSE
      <3>1. i + 1 = 1
        BY <1>1, <1>6, <1>7, <2>2 DEF One
      <3>2. i >= 1
        BY <1>1 DEF t
      <3> QED
        BY <1>6, <3>1, <3>2
    <2> QED
      BY <2>1, <2>2 DEF One, None
  <1>4. ASSUME NEW a, NEW b, Precedes(s, a, b)
        PROVE  Precedes(t, a, b) /\ (Head(s) = b /\ a # b => None(t, {a}))
    <2>1. ASSUME NEW i \in DOMAIN t, NEW j \in DOMAIN t, t[i] = a, t[j] = b PROVE i < j
      <3>1. i + 1 < j + 1
        BY <1>4, <1>6, <2>1 DEF Precedes
      <3> QED
        BY <1>6, <3>1
    <2>2. ASSUME Head(s) = b, NEW i \in DOMAIN t, t[i] = a PROVE FALSE
      <3>1. i + 1 < 1
        BY <1>1, <1>4, <1>6, <1>7, <2>2 DEF Precedes
      <3> QED
        BY <1>6, <3>1
    <2> QED
      BY <2>1, <2>2 DEF Precedes, None
  <1> QED
    BY <1>1, <1>2, <1>3, <1>4 DEF t

\* Every element of A comes before every element of B.
Before(s, A, B) == \A i, j \in DOMAIN s : s[i] \in A /\ s[j] \in B => i < j

\* Queue t has no elements of S that s does not have, and has them in the same order.
PartOf(t, s, S) ==
    \E k \in Nat : \A i \in DOMAIN t : t[i] \in S => i + k \in DOMAIN s /\ s[i + k] = t[i]

\* A queue that lost elements, or was appended others, is part of the old one.
LEMMA PartOfQueue ==
    ASSUME NEW T, NEW s \in Seq(T), NEW S
    PROVE  /\ PartOf(s, s, S) /\ PartOf(<<>>, s, S)
           /\ \A e \in T : e \notin S => PartOf(Append(s, e), s, S)
           /\ s # <<>> => PartOf(Tail(s), s, S)
  <1>1. Len(s) \in Nat /\ DOMAIN s = 1 .. Len(s)
    OBVIOUS
  <1>2. PartOf(s, s, S)
    <2>1. \A i \in DOMAIN s : i + 0 = i
      BY <1>1
    <2> QED
      BY <2>1 DEF PartOf
  <1>3. PartOf(<<>>, s, S)
    BY DEF PartOf
  <1>4. ASSUME NEW e \in T, e \notin S
        PROVE  PartOf(Append(s, e), s, S)
    <2>1. /\ DOMAIN Append(s, e) = 1 .. Len(s) + 1 /\ Append(s, e)[Len(s) + 1] = e
          /\ \A i \in 1 .. Len(s) : Append(s, e)[i] = s[i]
      OBVIOUS
    <2> DEFINE t == Append(s, e)
    <2> HIDE DEF t
    <2>2. \A i \in DOMAIN t : t[i] \in S => i + 0 \in DOMAIN s /\ s[i + 0] = t[i]
      BY <1>1, <1>4, <2>1 DEF t
    <2>3. PartOf(t, s, S)
      BY <2>2 DEF PartOf
    <2> QED
      BY <2>3 DEF t
  <1>5. ASSUME s # <<>>
        PROVE  PartOf(Tail(s), s, S)
    <2>1. DOMAIN Tail(s) = 1 .. Len(s) - 1 /\ \A i \in 1 .. Len(s) - 1 : Tail(s)[i] = s[i + 1]
      BY <1>5
    <2> DEFINE t == Tail(s)
    <2> HIDE DEF t
    <2>2. \A i \in DOMAIN t : i + 1 \in DOMAIN s /\ s[i + 1] = t[i]
      BY <1>1, <2>1 DEF t
    <2>3. PartOf(t, s, S)
      BY <2>2 DEF PartOf
    <2> QED
      BY <2>3 DEF t
  <1> QED
    BY <1>2, <1>3, <1>4, <1>5

\* What holds of a queue holds of its parts.
LEMMA PartKeeps ==
    ASSUME NEW T, NEW s \in Seq(T), NEW t \in Seq(T), NEW S, PartOf(t, s, S),
           NEW A \in SUBSET S, NEW B \in SUBSET S
    PROVE  /\ None(s, A) => None(t, A)
           /\ One(s, A) => One(t, A)
           /\ Before(s, A, B) => Before(t, A, B)
  <1>1. /\ \A i \in DOMAIN s : i \in Nat
        /\ \A i \in DOMAIN t : i \in Nat
    OBVIOUS
  <1>2. PICK k \in Nat : \A i \in DOMAIN t : t[i] \in S => i + k \in DOMAIN s /\ s[i + k] = t[i]
    BY DEF PartOf
  <1>3. None(s, A) => None(t, A)
    BY <1>2 DEF None
  <1>4. ASSUME One(s, A), NEW i \in DOMAIN t, NEW j \in DOMAIN t, t[i] \in A, t[j] \in A
        PROVE  i = j
    <2>1. i + k = j + k
      BY <1>2, <1>4 DEF One
    <2> QED
      BY <1>1, <2>1
  <1>5. ASSUME Before(s, A, B), NEW i \in DOMAIN t, NEW j \in DOMAIN t, t[i] \in A, t[j] \in B
        PROVE  i < j
    <2>1. i + k < j + k
      BY <1>2, <1>5 DEF Before
    <2> QED
      BY <1>1, <2>1
  <1> QED
    BY <1>3, <1>4, <1>5 DEF One, Before

\* What is appended comes last, and what is taken came first.
LEMMA OrderOfQueue ==
    ASSUME NEW T, NEW s \in Seq(T), NEW A, NEW B
    PROVE  /\ None(s, B) => Before(s, A, B)
           /\ \A e \in T : Before(s, A, B) /\ e \notin A => Before(Append(s, e), A, B)
           /\ s # <<>> /\ Before(s, A, B) /\ Head(s) \in B => None(s, A)
  <1>1. Len(s) \in Nat /\ DOMAIN s = 1 .. Len(s)
    OBVIOUS
  <1>2. ASSUME NEW e \in T, Before(s, A, B), e \notin A
        PROVE  Before(Append(s, e), A, B)
    <2>1. /\ DOMAIN Append(s, e) = 1 .. Len(s) + 1 /\ Append(s, e)[Len(s) + 1] = e
          /\ \A i \in 1 .. Len(s) : Append(s, e)[i] = s[i]
      OBVIOUS
    <2> DEFINE t == Append(s, e)
    <2> HIDE DEF t
    <2>2. ASSUME NEW i \in DOMAIN t, NEW j \in DOMAIN t, t[i] \in A, t[j] \in B
          PROVE  i < j
      <3>1. i \in 1 .. Len(s) /\ s[i] \in A
        BY <1>1, <1>2, <2>1, <2>2 DEF t
      <3>2. CASE j = Len(s) + 1
        BY <1>1, <3>1, <3>2
      <3>3. CASE j # Len(s) + 1
        <4>1. j \in 1 .. Len(s) /\ s[j] \in B
          BY <1>1, <2>1, <2>2, <3>3 DEF t
        <4> QED
          BY <1>1, <1>2, <3>1, <4>1 DEF Before
      <3> QED
        BY <3>2, <3>3
    <2>3. Before(t, A, B)
      BY <2>2 DEF Before
    <2> QED
      BY <2>3 DEF t
  <1>3. ASSUME s # <<>>, Before(s, A, B), Head(s) \in B
        PROVE  None(s, A)
    <2>1. 1 \in DOMAIN s /\ s[1] \in B
      BY <1>1, <1>3
    <2> QED
      BY <1>1, <1>3, <2>1 DEF Before, None
  <1> QED
    BY <1>2, <1>3 DEF None, Before

\* Queues that are emptied into one another.
LEMMA JoinedQueues ==
    ASSUME NEW T, NEW s \in Seq(T), NEW t \in Seq(T)
    PROVE  /\ s \o t \in Seq(T) /\ s \o <<>> = s
           /\ \A e \in T : s \o Append(t, e) = Append(s \o t, e)
           /\ s # <<>> => s \o t # <<>> /\ Head(s \o t) = Head(s) /\ Tail(s \o t) = Tail(s) \o t
  <1>1. s \o t \in Seq(T) /\ s \o <<>> = s
    OBVIOUS
  <1>2. ASSUME NEW e \in T PROVE s \o Append(t, e) = Append(s \o t, e)
    OBVIOUS
  <1>3. ASSUME s # <<>>
        PROVE  s \o t # <<>> /\ Head(s \o t) = Head(s) /\ Tail(s \o t) = Tail(s) \o t
    BY <1>3
  <1> QED
    BY <1>1, <1>2, <1>3

\* An e can only be the last element.
OnlyLast(s, e) == \A i \in DOMAIN s : s[i] = e => i = Len(s)

\* The last element stays the last one, and nothing follows it.
LEMMA LastOfQueue ==
    ASSUME NEW T, NEW s \in Seq(T), NEW e
    PROVE  /\ None(s, {e}) => OnlyLast(s, e) /\ \A d \in T : OnlyLast(Append(s, d), e)
           /\ s # <<>> /\ OnlyLast(s, e) => OnlyLast(Tail(s), e) /\ (Head(s) = e => Tail(s) = <<>>)
  <1>1. Len(s) \in Nat /\ DOMAIN s = 1 .. Len(s)
    OBVIOUS
  <1>2. ASSUME None(s, {e}), NEW d \in T
        PROVE  OnlyLast(Append(s, d), e)
    <2>1. /\ DOMAIN Append(s, d) = 1 .. Len(s) + 1 /\ Len(Append(s, d)) = Len(s) + 1
          /\ \A i \in 1 .. Len(s) : Append(s, d)[i] = s[i]
      OBVIOUS
    <2>2. \A i \in 1 .. Len(s) : s[i] # e
      BY <1>1, <1>2 DEF None
    <2> QED
      BY <1>1, <2>1, <2>2 DEF OnlyLast
  <1>3. ASSUME s # <<>>, OnlyLast(s, e)
        PROVE  OnlyLast(Tail(s), e) /\ (Head(s) = e => Tail(s) = <<>>)
    <2>1. /\ DOMAIN Tail(s) = 1 .. Len(s) - 1 /\ Len(Tail(s)) = Len(s) - 1 /\ Tail(s) \in Seq(T)
          /\ \A i \in 1 .. Len(s) - 1 : Tail(s)[i] = s[i + 1]
          /\ Head(s) = s[1] /\ Len(s) > 0
      BY <1>3
    <2>2. OnlyLast(Tail(s), e)
      <3> SUFFICES ASSUME NEW i \in 1 .. Len(s) - 1, s[i + 1] = e PROVE i = Len(s) - 1
        BY <2>1 DEF OnlyLast
      <3>1. i + 1 \in DOMAIN s /\ i \in Nat
        BY <1>1
      <3>2. i + 1 = Len(s)
        BY <1>3, <3>1 DEF OnlyLast
      <3>3. \A n \in Nat : i + 1 = n => i = n - 1
        BY <3>1
      <3> QED
        BY <1>1, <3>2, <3>3
    <2>3. ASSUME Head(s) = e PROVE Tail(s) = <<>>
      <3>1. Len(s) = 1
        BY <1>1, <1>3, <2>1, <2>3 DEF OnlyLast
      <3> QED
        BY <2>1, <3>1
    <2> QED
      BY <2>2, <2>3
  <1> QED
    BY <1>2, <1>3 DEF None, OnlyLast
===============================================================================
