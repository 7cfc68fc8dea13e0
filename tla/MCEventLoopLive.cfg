\* Liveness: no symmetry, one client with its CGI or two clients.
CONSTANTS
  Fd = {f1, f2}
  Ref = {r1, r2, r3}
  Pid = {p1}
  Listener = Listener
  None = None
  Faults = {}
SPECIFICATION FairSpec
PROPERTIES
  CgiEnds
  IdleClosed
  KilledReaped
