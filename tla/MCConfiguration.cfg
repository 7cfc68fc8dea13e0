\* Files of one vocabulary each; an int of 17 bits, a long of 19.
CONSTANTS
  Vocabularies <- SomeVocabularies
  Paths <- SomePaths
  Directories = {"./r", "./up"}
  Writable = {"./up"}
  Files = {"404.html", "500.html"}
  Executables = {"/py", "/sh"}
  Rooted = {"./r", "./up", "./none"}
  WithExtension = {"index.html", "a.html", "b.html", "c.html", ".a.html"}
  PlainNames = {"index.html", "a.html", "b.html", "c.html"}
  Addresses = {"10.0.0.1"}
  LongMax = 262143
  OutOfRange <- LongMin
  IntMod = 131072
  MaxPort = 65535
  DefaultPort = 9090
  MaxTimeout = 3600
  MaxServers = 20
  MaxLimit = 200000
  LeastHttpLimit = 20000
  DefaultLimit = 100000
SPECIFICATION Spec
INVARIANTS
  AcceptedIsUsable
  LocationsInherit
  NumbersAsWritten
