------------------------------- MODULE Buffer -------------------------------
(***************************************************************************)
(* Buffer: a vector of bytes whose front part, up to _head, is consumed    *)
(* already; it is moved away only when it is half of the vector or more.   *)
(* Connections have one for reading, one for writing and one for the body  *)
(* of the request, and a CGI job has one for the header block.             *)
(*                                                                         *)
(* Of the vector's capacity only zero matters: _ensureCapacity doubles it  *)
(* until it suffices, which it never does from zero.  The source erases a  *)
(* buffer only where it is reset or deleted before it is used again, and   *)
(* so does the model; RequestIntake has the one path where this fails.     *)
(***************************************************************************)
EXTENDS Naturals, Sequences

CONSTANTS
  Byte,
  Blocks,        \* what is appended at a time; nothing is not worth a step
  Counts,        \* how much is consumed at a time
  Maxes,         \* the values of client_max_body_size
  ResultLimit    \* LimitRequestBody

ASSUME Sizes ==
  /\ Blocks \subseteq Seq(Byte) \ {<<>>}
  /\ Counts \subseteq Nat /\ Maxes \subseteq Nat
  /\ ResultLimit \in Nat

VARIABLES
  vector,      \* _storage and _head
  max,         \* _cmbs
  reserved     \* the vector has capacity

vars == <<vector, max, reserved>>

-----------------------------------------------------------------------------
Vector == [storage : Seq(Byte), head : Nat]
Empty == [storage |-> <<>>, head |-> 0]

Size(v) == Len(v.storage) - v.head
Content(v) == SubSeq(v.storage, v.head + 1, Len(v.storage))

\* _compact
Compact(v) == [storage |-> Content(v), head |-> 0]

\* Variant: only when more than half is consumed.
CompactedLater(v) ==
  IF v.head > 0 /\ v.head > Len(v.storage) \div 2 THEN Compact(v) ELSE v

\* The test before it.
Compacted(v) ==
  IF v.head > 0 /\ v.head >= Len(v.storage) \div 2 THEN Compact(v) ELSE v

Least(a, b) == IF a < b THEN a ELSE b

-----------------------------------------------------------------------------
Init ==
  /\ vector = Empty
  /\ max \in Maxes
  /\ reserved = TRUE

\* Variant: what is held already is forgotten in the test of the limit.
AppendBlockwise(bytes, limit) ==
  /\ reserved
  /\ Len(bytes) <= limit
  /\ vector' = [Compacted(vector) EXCEPT !.storage = @ \o bytes]
  /\ UNCHANGED <<max, reserved>>

\* append (limit = max) and append_result (limit = ResultLimit).
Append2(bytes, limit) ==
  /\ reserved
  /\ Size(vector) + Len(bytes) <= limit
  /\ vector' = [Compacted(vector) EXCEPT !.storage = @ \o bytes]
  /\ UNCHANGED <<max, reserved>>

\* More than the limit: BodyLimitException, and nothing has changed.
Refuse(bytes, limit) ==
  /\ reserved
  /\ Size(vector) + Len(bytes) > limit
  /\ UNCHANGED vars

\* consume; what is left empty is reset.
Consume(n) ==
  /\ reserved
  /\ LET v == Compacted([vector EXCEPT !.head = @ + Least(n, Size(vector))])
     IN  vector' = IF v.head = Len(v.storage) THEN Empty ELSE v
  /\ UNCHANGED <<max, reserved>>

Reset ==
  /\ vector' = Empty /\ reserved' = TRUE
  /\ UNCHANGED max

\* earase: the vector goes, _head stays.
Earase ==
  /\ vector' = [vector EXCEPT !.storage = <<>>]
  /\ reserved' = FALSE
  /\ UNCHANGED max

SetMaxSize(m) ==
  /\ max' = m
  /\ UNCHANGED <<vector, reserved>>

Next ==
  \/ \E bytes \in Blocks : \E limit \in {max, ResultLimit} :
       Append2(bytes, limit) \/ Refuse(bytes, limit)
  \/ \E n \in Counts : Consume(n)
  \/ Reset
  \/ Earase
  \/ \E m \in Maxes : SetMaxSize(m)

Spec == Init /\ [][Next]_vars

-----------------------------------------------------------------------------
(* Properties. *)

TypeOK ==
  /\ vector \in Vector
  /\ max \in Nat
  /\ reserved \in BOOLEAN
  /\ reserved => vector.head <= Len(vector.storage)

\* Lazy compaction costs at most as much memory again as the bytes that are
\* there: after every operation less than half of the vector is consumed.
WasteBounded ==
  reserved /\ vector.head > 0 => vector.head < Len(vector.storage) \div 2

\* Whatever is moved and when, the users see a bounded queue: no byte is lost,
\* repeated or reordered, and none is accepted beyond the limit.
Queue == INSTANCE ByteQueue
           WITH queue <- IF reserved THEN Content(vector) ELSE <<>>
QueueRefined == Queue!Spec
=============================================================================
