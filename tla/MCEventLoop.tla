---------------------------- MODULE MCEventLoop ----------------------------
(* Small instances of EventLoop for TLC. *)
EXTENDS EventLoopInvariant, TLC

\* Descriptors, references and pids are interchangeable.
Symmetry == Permutations(Fd) \cup Permutations(Ref) \cup Permutations(Pid)
=============================================================================
