\* Two descriptors: one client at a time with a CGI, or two clients.
CONSTANTS
  Fd = {f1, f2}
  Ref = {r1, r2, r3, r4}
  Pid = {p1, p2}
  Listener = Listener
  None = None
  Faults = {"signal", "add"}
SPECIFICATION Spec
SYMMETRY Symmetry
INVARIANTS
  NoUseAfterFree
  EventTargetsLive
  NoDoubleFree
  JobsOwned
  CgiRunningHasJob
  MaskFollowsState
  ReadsOnlyWhenReading
  PendingIsWriting
  ChildrenAccounted
  SweptClientsExist
  ExitReaps
PROPERTIES
  StoppedTakesNoWork
  LifecycleRefined
