---------------------------- MODULE BufferProofs ----------------------------
(***************************************************************************)
(* Buffer keeps its shape, wastes at most as much as it holds, and is a    *)
(* bounded queue: for all bytes, blocks, counts and limits.                *)
(***************************************************************************)
EXTENDS Buffer, SequenceTheorems, TLAPS

-----------------------------------------------------------------------------
(* Sequences without their first elements. *)

\* What is left after the first h of s.
LEMMA DropProperties ==
  ASSUME NEW S, NEW s \in Seq(S), NEW h \in Nat, h <= Len(s)
  PROVE  /\ SubSeq(s, h + 1, Len(s)) \in Seq(S)
         /\ Len(SubSeq(s, h + 1, Len(s))) = Len(s) - h
         /\ \A i \in 1 .. Len(s) - h : SubSeq(s, h + 1, Len(s))[i] = s[h + i]
<1>1. \A i \in h + 1 .. Len(s) : s[i] \in S
  BY ElementOfSeq, LenProperties
<1>2. Len(s) \in Nat
  BY LenProperties
<1>. QED
  BY <1>1, <1>2, SubSeqProperties

\* Appending does not touch what was left.
LEMMA DropOfConcat ==
  ASSUME NEW S, NEW s \in Seq(S), NEW t \in Seq(S), NEW h \in Nat, h <= Len(s)
  PROVE  SubSeq(s \o t, h + 1, Len(s \o t)) = SubSeq(s, h + 1, Len(s)) \o t
<1>. DEFINE whole == SubSeq(s \o t, h + 1, Len(s \o t))
            left  == SubSeq(s, h + 1, Len(s))
<1>1. /\ s \o t \in Seq(S) /\ Len(s \o t) = Len(s) + Len(t)
      /\ \A i \in 1 .. Len(s) + Len(t) :
           (s \o t)[i] = IF i <= Len(s) THEN s[i] ELSE t[i - Len(s)]
  BY ConcatProperties
<1>2. Len(s) \in Nat /\ Len(t) \in Nat
  BY LenProperties
<1>3. /\ whole \in Seq(S) /\ Len(whole) = Len(s) + Len(t) - h
      /\ \A i \in 1 .. Len(s) + Len(t) - h : whole[i] = (s \o t)[h + i]
  BY <1>1, <1>2, DropProperties
<1>4. /\ left \in Seq(S) /\ Len(left) = Len(s) - h
      /\ \A i \in 1 .. Len(s) - h : left[i] = s[h + i]
  BY DropProperties
<1>5. /\ left \o t \in Seq(S) /\ Len(left \o t) = Len(left) + Len(t)
      /\ \A i \in 1 .. Len(left) + Len(t) :
           (left \o t)[i] = IF i <= Len(left) THEN left[i] ELSE t[i - Len(left)]
  BY <1>4, ConcatProperties
<1>6. \A i \in 1 .. Len(whole) : whole[i] = (left \o t)[i]
  BY <1>1, <1>2, <1>3, <1>4, <1>5
<1>7. Len(whole) = Len(left \o t)
  BY <1>2, <1>3, <1>4, <1>5
<1>. HIDE DEF whole, left
<1>8. whole = left \o t
  BY <1>3, <1>5, <1>6, <1>7, SeqEqual
<1>. QED
  BY <1>8 DEF whole, left

\* Appending does not touch what is in front.
LEMMA FrontOfConcat ==
  ASSUME NEW S, NEW s \in Seq(S), NEW t \in Seq(S)
  PROVE  SubSeq(s \o t, 1, Len(s)) = s
<1>. DEFINE whole == s \o t
            front == SubSeq(whole, 1, Len(s))
<1>1. Len(s) \in Nat /\ Len(t) \in Nat
  BY LenProperties
<1>2. \A i \in 1 .. Len(s) : whole[i] = s[i] /\ s[i] \in S
  BY <1>1, ConcatProperties, ElementOfSeq
<1>. HIDE DEF whole
<1>3. /\ front \in Seq(S) /\ Len(front) = Len(s)
      /\ \A i \in 1 .. Len(s) : front[i] = s[i]
  <2>1. \A i \in 1 .. Len(s) : whole[i] \in S
    BY <1>2
  <2>. QED
    BY <1>1, <1>2, <2>1, SubSeqProperties
<1>. HIDE DEF front
<1>4. front = s
  BY <1>3, SeqEqual
<1>. QED
  BY <1>4 DEF front, whole

\* Dropping twice.
LEMMA DropOfDrop ==
  ASSUME NEW S, NEW s \in Seq(S), NEW h \in Nat, NEW n \in Nat, h + n <= Len(s)
  PROVE  SubSeq(s, h + n + 1, Len(s))
           = SubSeq(SubSeq(s, h + 1, Len(s)), n + 1, Len(SubSeq(s, h + 1, Len(s))))
<1>. DEFINE once  == SubSeq(s, h + 1, Len(s))
            twice == SubSeq(once, n + 1, Len(once))
            all   == SubSeq(s, h + n + 1, Len(s))
<1>1. Len(s) \in Nat
  BY LenProperties
<1>2. /\ once \in Seq(S) /\ Len(once) = Len(s) - h
      /\ \A i \in 1 .. Len(s) - h : once[i] = s[h + i]
  BY <1>1, DropProperties
<1>3. /\ twice \in Seq(S) /\ Len(twice) = Len(once) - n
      /\ \A i \in 1 .. Len(once) - n : twice[i] = once[n + i]
  BY <1>1, <1>2, DropProperties
<1>4. /\ all \in Seq(S) /\ Len(all) = Len(s) - (h + n)
      /\ \A i \in 1 .. Len(s) - (h + n) : all[i] = s[(h + n) + i]
  <2>1. h + n \in Nat
    OBVIOUS
  <2>. QED
    BY <1>1, <2>1, DropProperties
<1>5. \A i \in 1 .. Len(all) : all[i] = twice[i]
  BY <1>1, <1>2, <1>3, <1>4
<1>6. Len(all) = Len(twice)
  BY <1>1, <1>2, <1>3, <1>4
<1>. HIDE DEF once, twice, all
<1>7. all = twice
  BY <1>3, <1>4, <1>5, <1>6, SeqEqual
<1>. QED
  BY <1>7 DEF once, twice, all

-----------------------------------------------------------------------------
(* The vector. *)

Sound(v) == v \in Vector /\ v.head <= Len(v.storage)

LEMMA ContentProperties ==
  ASSUME NEW v, Sound(v)
  PROVE  Content(v) \in Seq(Byte) /\ Len(Content(v)) = Size(v) /\ Size(v) \in Nat
<1>1. v.storage \in Seq(Byte) /\ v.head \in Nat /\ v.head <= Len(v.storage)
  BY DEF Sound, Vector
<1>2. Len(v.storage) \in Nat
  BY <1>1, LenProperties
<1>. QED
  BY <1>1, <1>2, DropProperties DEF Content, Size

\* Compaction moves the bytes that are there and loses none.
LEMMA CompactedKeepsContent ==
  ASSUME NEW v, Sound(v)
  PROVE  /\ Sound(Compacted(v))
         /\ Content(Compacted(v)) = Content(v)
         /\ Compacted(v).head > 0 => Compacted(v).head < Len(Compacted(v).storage) \div 2
<1>1. /\ v.storage \in Seq(Byte) /\ v.head \in Nat
      /\ Len(v.storage) \in Nat /\ Len(v.storage) \div 2 \in Nat
  BY LenProperties DEF Sound, Vector
<1>2. CASE v.head > 0 /\ v.head >= Len(v.storage) \div 2
  <2>1. /\ Compacted(v).storage = Content(v) /\ Compacted(v).head = 0
        /\ Compacted(v) = [storage |-> Content(v), head |-> 0]
    BY <1>2 DEF Compacted, Compact
  <2>2. Content(v) \in Seq(Byte) /\ Len(Content(v)) \in Nat
    BY ContentProperties, LenProperties
  <2>3. Sound(Compacted(v))
    BY <2>1, <2>2 DEF Sound, Vector
  <2>4. Content(Compacted(v)) = SubSeq(Content(v), 1, Len(Content(v)))
    BY <2>1, <2>2 DEF Content
  <2>. QED
    BY <2>1, <2>2, <2>3, <2>4, SubSeqFull
<1>3. CASE ~(v.head > 0 /\ v.head >= Len(v.storage) \div 2)
  <2>1. Compacted(v) = v
    BY <1>3 DEF Compacted
  <2>2. v.head > 0 => v.head < Len(v.storage) \div 2
    <3>. DEFINE half == Len(v.storage) \div 2
                front == v.head
    <3>1. half \in Nat /\ front \in Nat /\ ~(front > 0 /\ front >= half)
      BY <1>1, <1>3
    <3>. HIDE DEF half, front
    <3>2. front > 0 => front < half
      BY <3>1
    <3>. QED
      BY <3>2 DEF half, front
  <2>. QED
    BY <2>1, <2>2
<1>. QED
  BY <1>2, <1>3

LEMMA EmptyProperties ==
  Sound(Empty) /\ Content(Empty) = <<>> /\ Size(Empty) = 0
<1>1. <<>> \in Seq(Byte) /\ Len(<<>>) = 0
  BY EmptySeq
<1>2. SubSeq(<<>>, 1, 0) = <<>>
  BY SubSeqEmpty
<1>. QED
  BY <1>1, <1>2 DEF Sound, Empty, Vector, Content, Size

-----------------------------------------------------------------------------
(* Steps. *)

Inv == TypeOK /\ WasteBounded

LEMMA InvSound ==
  ASSUME Inv, reserved
  PROVE  Sound(vector)
BY DEF Inv, TypeOK, Sound

\* An append puts its bytes behind those that are there.
LEMMA AppendKeeps ==
  ASSUME Inv, NEW bytes \in Blocks, NEW limit \in {max, ResultLimit},
         Append2(bytes, limit)
  PROVE  /\ Inv'
         /\ Content(vector)' = Content(vector) \o bytes
<1>. DEFINE v == Compacted(vector)
<1>1. bytes \in Seq(Byte) /\ Len(bytes) \in Nat
  BY Sizes, LenProperties
<1>2. reserved /\ Sound(vector)
  BY InvSound DEF Append2
<1>3. /\ Sound(v) /\ Content(v) = Content(vector)
      /\ v.head > 0 => v.head < Len(v.storage) \div 2
  BY <1>2, CompactedKeepsContent
<1>4. /\ v.storage \in Seq(Byte) /\ v.head \in Nat /\ v.head <= Len(v.storage)
      /\ Len(v.storage) \in Nat /\ v \in Vector
  BY <1>3, LenProperties DEF Sound, Vector
<1>5. /\ v.storage \o bytes \in Seq(Byte)
      /\ Len(v.storage \o bytes) = Len(v.storage) + Len(bytes)
  BY <1>1, <1>4, ConcatProperties
<1>. HIDE DEF v
<1>6. /\ vector' = [v EXCEPT !.storage = v.storage \o bytes]
      /\ max' = max /\ reserved' = reserved
  BY DEF Append2, v
<1>7. vector'.storage = v.storage \o bytes /\ vector'.head = v.head /\ vector' \in Vector
  BY <1>4, <1>5, <1>6 DEF Vector
<1>8. TypeOK'
  BY <1>1, <1>4, <1>5, <1>6, <1>7 DEF Inv, TypeOK
<1>9. WasteBounded'
  <2>1. ASSUME NEW h \in Nat, NEW m \in Nat, NEW k \in Nat, h < m \div 2
        PROVE  h < (m + k) \div 2
    BY <2>1
  <2>. QED
    BY <1>1, <1>3, <1>4, <1>5, <1>7, <2>1 DEF WasteBounded
<1>10. Content(vector)' = Content(vector) \o bytes
  <2>1. Content(vector)' = SubSeq(v.storage \o bytes, v.head + 1, Len(v.storage \o bytes))
    BY <1>7 DEF Content
  <2>2. @ = SubSeq(v.storage, v.head + 1, Len(v.storage)) \o bytes
    BY <1>1, <1>4, DropOfConcat
  <2>3. @ = Content(v) \o bytes
    BY DEF Content
  <2>. QED
    BY <1>3, <2>1, <2>2, <2>3
<1>. QED
  BY <1>8, <1>9, <1>10 DEF Inv

\* Consuming takes the oldest bytes, at most those that are there.
LEMMA ConsumeKeeps ==
  ASSUME Inv, NEW n \in Counts, Consume(n)
  PROVE  /\ Inv'
         /\ \E k \in 0 .. Len(Content(vector)) :
              Content(vector)' = SubSeq(Content(vector), k + 1, Len(Content(vector)))
<1>. DEFINE k == Least(n, Size(vector))
            u == [vector EXCEPT !.head = vector.head + k]
            v == Compacted(u)
<1>1. reserved /\ Sound(vector)
  BY InvSound DEF Consume
<1>2. /\ vector.storage \in Seq(Byte) /\ vector.head \in Nat /\ vector \in Vector
      /\ Len(vector.storage) \in Nat /\ vector.head <= Len(vector.storage)
  BY <1>1, LenProperties DEF Sound, Vector
<1>3. /\ k \in 0 .. Size(vector)
      /\ k \in Nat /\ vector.head + k \in Nat /\ vector.head + k <= Len(vector.storage)
  BY <1>2, Sizes DEF Least, Size
<1>4. vector' = (IF v.head = Len(v.storage) THEN Empty ELSE v)
      /\ max' = max /\ reserved' = reserved
  BY DEF Consume
<1>. HIDE DEF k
<1>5. u.storage = vector.storage /\ u.head = vector.head + k /\ Sound(u)
  BY <1>2, <1>3 DEF Sound, Vector
<1>6. Content(u) = SubSeq(Content(vector), k + 1, Len(Content(vector)))
  <2>1. Content(u) = SubSeq(vector.storage, vector.head + k + 1, Len(vector.storage))
    BY <1>5 DEF Content
  <2>. QED
    BY <1>2, <1>3, <2>1, DropOfDrop DEF Content
<1>. HIDE DEF u
<1>7. /\ Sound(v) /\ Content(v) = Content(u)
      /\ v.head > 0 => v.head < Len(v.storage) \div 2
  BY <1>5, CompactedKeepsContent
<1>. HIDE DEF v
<1>8. Sound(vector') /\ Content(vector') = Content(v)
  <2>1. CASE v.head = Len(v.storage)
    <3>1. Len(Content(v)) = 0 /\ Content(v) \in Seq(Byte)
      BY <1>7, <2>1, ContentProperties DEF Size, Sound, Vector
    <3>2. Content(v) = <<>>
      BY <3>1, EmptySeq
    <3>. QED
      BY <1>4, <2>1, <3>2, EmptyProperties
  <2>2. CASE v.head # Len(v.storage)
    BY <1>4, <1>7, <2>2
  <2>. QED
    BY <2>1, <2>2
<1>9. TypeOK'
  BY <1>4, <1>8 DEF Inv, TypeOK, Sound
<1>10. WasteBounded'
  <2>1. CASE v.head = Len(v.storage)
    <3>1. vector'.head = 0
      BY <1>4, <2>1 DEF Empty
    <3>. QED
      BY <3>1 DEF WasteBounded
  <2>2. CASE v.head # Len(v.storage)
    <3>1. vector' = v
      BY <1>4, <2>2
    <3>. QED
      BY <1>7, <3>1 DEF WasteBounded
  <2>. QED
    BY <2>1, <2>2
<1>11. Len(Content(vector)) = Size(vector)
  BY <1>1, ContentProperties
<1>. QED
  BY <1>3, <1>6, <1>7, <1>8, <1>9, <1>10, <1>11 DEF Inv

LEMMA InitInv ==
  Init => Inv
<1>. SUFFICES ASSUME Init
              PROVE  Inv
  OBVIOUS
<1>1. vector = Empty /\ max \in Nat /\ reserved = TRUE
  BY Sizes DEF Init
<1>. QED
  BY <1>1, EmptyProperties DEF Inv, TypeOK, WasteBounded, Sound, Empty

LEMMA NextInv ==
  Inv /\ [Next]_vars => Inv'
<1>. SUFFICES ASSUME Inv, [Next]_vars
              PROVE  Inv'
  OBVIOUS
<1>1. ASSUME NEW bytes \in Blocks, NEW limit \in {max, ResultLimit}, Append2(bytes, limit)
      PROVE  Inv'
  BY <1>1, AppendKeeps
<1>2. ASSUME NEW n \in Counts, Consume(n)
      PROVE  Inv'
  BY <1>2, ConsumeKeeps
<1>3. CASE Reset
  BY <1>3, EmptyProperties DEF Reset, Inv, TypeOK, WasteBounded, Sound, Empty
<1>4. CASE Earase
  <2>1. vector' \in Vector
    BY <1>4, EmptySeq DEF Earase, Inv, TypeOK, Vector
  <2>. QED
    BY <1>4, <2>1 DEF Earase, Inv, TypeOK, WasteBounded
<1>5. ASSUME NEW m \in Maxes, SetMaxSize(m)
      PROVE  Inv'
  BY <1>5, Sizes DEF SetMaxSize, Inv, TypeOK, WasteBounded
<1>6. CASE UNCHANGED vars
  BY <1>6 DEF vars, Inv, TypeOK, WasteBounded
<1>7. ASSUME NEW bytes \in Blocks, NEW limit \in {max, ResultLimit}, Refuse(bytes, limit)
      PROVE  Inv'
  BY <1>6, <1>7 DEF Refuse
<1>. QED
  BY <1>1, <1>2, <1>3, <1>4, <1>5, <1>6, <1>7 DEF Next

\* The vector keeps its shape: while the buffer can be used, _head is never
\* past the end of _storage, so size() does not wrap around.
THEOREM BufferTyped == Spec => []TypeOK
<1>1. Spec => []Inv
  BY InitInv, NextInv, PTL DEF Spec
<1>. QED
  BY <1>1, PTL DEF Inv

\* Lazy compaction at half of the vector: the memory is at most twice that of
\* the bytes that are there, after any sequence of operations.
THEOREM WasteStaysBounded == Spec => []WasteBounded
<1>1. Spec => []Inv
  BY InitInv, NextInv, PTL DEF Spec
<1>. QED
  BY <1>1, PTL DEF Inv
-----------------------------------------------------------------------------
(* Refinement. *)

\* The bytes the users see, as a state of the queue.
Seen == IF reserved THEN Content(vector) ELSE <<>>

LEMMA SeenSeq ==
  ASSUME Inv
  PROVE  Seen \in Seq(Byte) /\ Len(Seen) \in Nat
<1>1. CASE reserved
  BY <1>1, InvSound, ContentProperties, LenProperties DEF Seen
<1>2. CASE ~reserved
  BY <1>2, EmptySeq DEF Seen
<1>. QED
  BY <1>1, <1>2

\* Nothing left is one of the things that can be taken.
LEMMA TakeAll ==
  ASSUME NEW S, NEW s \in Seq(S)
  PROVE  \E n \in 0 .. Len(s) : <<>> = SubSeq(s, n + 1, Len(s))
<1>1. Len(s) \in Nat
  BY LenProperties
<1>2. SubSeq(s, Len(s) + 1, Len(s)) = <<>>
  BY <1>1, SubSeqEmpty
<1>. QED
  BY <1>1, <1>2

LEMMA AppendPuts ==
  ASSUME Inv, NEW bytes \in Blocks, NEW limit \in {max, ResultLimit},
         Append2(bytes, limit)
  PROVE  Queue!Put
<1>1. reserved /\ reserved' /\ max' = max /\ Sound(vector)
  BY InvSound DEF Append2
<1>2. Seen' = Seen \o bytes
  BY <1>1, AppendKeeps DEF Seen
<1>3. Seen \in Seq(Byte) /\ Len(Seen) \in Nat /\ bytes \in Seq(Byte) /\ Len(bytes) \in Nat
  BY SeenSeq, Sizes, LenProperties
<1>4. /\ Seen \o bytes \in Seq(Byte) /\ Len(Seen \o bytes) = Len(Seen) + Len(bytes)
      /\ SubSeq(Seen \o bytes, 1, Len(Seen)) = Seen
  BY <1>3, ConcatProperties, FrontOfConcat
<1>5. Len(Seen) = Size(vector)
  BY <1>1, ContentProperties DEF Seen
<1>6. Len(Seen') <= limit
  BY <1>2, <1>4, <1>5 DEF Append2
<1>. QED
  BY <1>1, <1>2, <1>3, <1>4, <1>6 DEF Queue!Put, Seen

LEMMA ConsumeTakes ==
  ASSUME Inv, NEW n \in Counts, Consume(n)
  PROVE  Queue!Take
<1>1. reserved /\ reserved' /\ max' = max
  BY DEF Consume
<1>. QED
  BY <1>1, ConsumeKeeps DEF Queue!Take

\* Every step of the buffer is one of the queue, or none.
LEMMA StepRefines ==
  Inv /\ [Next]_vars => [Queue!Next]_(Queue!vars)
<1>. SUFFICES ASSUME Inv, [Next]_vars
              PROVE  [Queue!Next]_(Queue!vars)
  OBVIOUS
<1>1. ASSUME NEW bytes \in Blocks, NEW limit \in {max, ResultLimit}, Append2(bytes, limit)
      PROVE  Queue!Next
  BY <1>1, AppendPuts DEF Queue!Next
<1>2. ASSUME NEW n \in Counts, Consume(n)
      PROVE  Queue!Next
  BY <1>2, ConsumeTakes DEF Queue!Next
<1>3. ASSUME Seen' = <<>>, max' = max
      PROVE  Queue!Next
  BY <1>3, SeenSeq, TakeAll DEF Queue!Next, Queue!Take, Seen
<1>4. CASE Reset
  <2>1. Seen' = <<>>
    BY <1>4, EmptyProperties DEF Reset, Seen
  <2>. QED
    BY <1>3, <1>4, <2>1 DEF Reset
<1>5. CASE Earase
  BY <1>3, <1>5 DEF Earase, Seen
<1>6. ASSUME NEW m \in Maxes, SetMaxSize(m)
      PROVE  Queue!Next
  BY <1>6, Sizes DEF SetMaxSize, Queue!Next, Queue!SetMax, Content
<1>7. CASE UNCHANGED vars
  BY <1>7 DEF vars, Queue!vars, Content
<1>8. ASSUME NEW bytes \in Blocks, NEW limit \in {max, ResultLimit}, Refuse(bytes, limit)
      PROVE  UNCHANGED Queue!vars
  BY <1>8 DEF Refuse, vars, Queue!vars, Content
<1>. QED
  BY <1>1, <1>2, <1>4, <1>5, <1>6, <1>7, <1>8 DEF Next

\* Buffer implements a bounded queue of bytes: none is lost, repeated,
\* reordered or accepted beyond the limit in force, whatever is compacted when.
THEOREM BufferIsQueue == Spec => QueueRefined
<1>1. Init => Queue!Init
  <2>. SUFFICES ASSUME Init
                PROVE  Queue!Init
    OBVIOUS
  <2>1. vector = Empty /\ reserved = TRUE /\ max \in Nat
    BY Sizes DEF Init
  <2>. QED
    BY <2>1, EmptyProperties DEF Queue!Init
<1>2. Spec => []Inv
  BY InitInv, NextInv, PTL DEF Spec
<1>. QED
  BY <1>1, <1>2, StepRefines, PTL DEF Spec, Queue!Spec, QueueRefined
=============================================================================
