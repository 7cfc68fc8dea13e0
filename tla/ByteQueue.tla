----------------------------- MODULE ByteQueue -----------------------------
(***************************************************************************)
(* What Buffer promises its users: a queue of bytes that is put to at one  *)
(* end and taken from at the other, within a limit.                        *)
(***************************************************************************)
EXTENDS Naturals, Sequences

CONSTANT ResultLimit   \* the limit for the output of a CGI

VARIABLES
  queue,   \* the bytes put and not yet taken
  max      \* the limit for everything else

vars == <<queue, max>>

Init == queue = <<>> /\ max \in Nat

\* Bytes are added behind those that are there, never beyond a limit.
Put ==
  /\ \E limit \in {max, ResultLimit} : Len(queue') <= limit
  /\ Len(queue) <= Len(queue')
  /\ SubSeq(queue', 1, Len(queue)) = queue
  /\ max' = max

\* The oldest bytes are taken, perhaps all.
Take ==
  /\ \E n \in 0 .. Len(queue) : queue' = SubSeq(queue, n + 1, Len(queue))
  /\ max' = max

SetMax == max' \in Nat /\ queue' = queue

Next == Put \/ Take \/ SetMax

Spec == Init /\ [][Next]_vars
=============================================================================
