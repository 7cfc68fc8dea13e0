\* Two requests: one whose script runs while the other arrives, spools, forks.
CONSTANTS
  Requests = {a, b}
  Server = Server
  Null = Null
  MaxBody = 2
SPECIFICATION Spec
INVARIANTS
  EndIsOwn
  NothingLeaks
  ScriptsHoldNothing
  BodyIsWhole
