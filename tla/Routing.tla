------------------------------ MODULE Routing ------------------------------
(***************************************************************************)
(* Which server block and which location answer a request, with what: a    *)
(* connection to one of the listeners, request after request, over the     *)
(* virtual hosts of the configuration and a tree of files that uploads and *)
(* deletions change.  What is sent before the request line, the framing of *)
(* bodies and CGI scripts are in RequestIntake.  Answers fit into the      *)
(* write buffer.                                                           *)
(***************************************************************************)
EXTENDS Paths, FiniteSetsExt

CONSTANTS
  Configurations,   \* sequences of server blocks: see ValidConfiguration
  Uris,             \* the paths clients ask for
  Hosts,            \* values of Host
  Lengths,          \* lengths of bodies
  Dirs,             \* the directories: a root and the names below it
  InitialFiles,     \* the files, as well
  UploadNames       \* names given to uploads

Methods == {"GET", "HEAD", "POST", "DELETE"}
NoPlace == [root |-> "none", names |-> <<>>]

\* A place in the file system, and what a configuration says.  The path of a
\* location begins with a slash: parsLocation.
Place == [root : STRING \ {"none"}, names : Seq(STRING)]
LocationBlock ==
  [path : {p \in Path : p # <<>> /\ Head(p) = "/"}, root : STRING \ {"none"},
   methods : SUBSET Methods, max : Nat, upload : Place \cup {NoPlace}, redirect : BOOLEAN,
   index : Seq(STRING), autoindex : BOOLEAN]
ServerBlock ==
  [addr : STRING, port : Nat, name : STRING, root : STRING \ {"none"}, max : Nat,
   index : Seq(STRING), locations : Seq(LocationBlock)]

ASSUME Inputs ==
  /\ Configurations \subseteq Seq(ServerBlock)
  /\ Uris \cup {<<"/">>} \subseteq Path /\ UploadNames \subseteq STRING
  /\ Dirs \subseteq Place /\ InitialFiles \subseteq Place

ASSUME Tree ==
  /\ \A d \in Dirs : d.names = <<>> \/ [d EXCEPT !.names = Front(@)] \in Dirs
  /\ \A f \in InitialFiles : [f EXCEPT !.names = Front(@)] \in Dirs /\ f \notin Dirs

\* The host of a request whose Host is not known yet: see NoRequest.
ASSUME NoneIsNoName ==
  /\ "none" \notin Hosts
  /\ \A c \in Configurations : \A i \in DOMAIN c : c[i].name # "none"

VARIABLES
  servers,   \* the configuration
  files,     \* the files there are
  phase,     \* of the connection: see Phases
  listener,  \* where it was accepted
  block,     \* _config: the index of the block in use
  request,   \* path, method, Host, framing and length, as far as they are known
  answer     \* code, what was served, made, left or removed, the location

vars == <<servers, files, phase, listener, block, request, answer>>

Phases == {"CLOSED", "READING", "HEADERS", "COMPLETE", "ANSWERED"}

NoRequest ==
  [path |-> <<>>, method |-> "GET", host |-> "none", chunked |-> FALSE, length |-> 0]
NoAnswer == [code |-> 0, place |-> NoPlace, location |-> NoLocation]

\* validate_final_config and verifying_path_in_locations_inside_server
ValidConfiguration(c) ==
  /\ \A i, j \in DOMAIN c : i # j => c[i].port # c[j].port \/ c[i].name # c[j].name
  /\ \A i \in DOMAIN c :
       LET ls == c[i].locations IN
       /\ c[i].max > 0 /\ \A l \in ToSet(ls) : l.max > 0
       /\ \A l \in ToSet(ls) : l.upload # NoPlace =>
            l.upload \in Dirs /\ (l.methods = {} \/ "POST" \in l.methods)
       /\ \A m, n \in DOMAIN ls : m # n => WithoutSlash(ls[m].path) # WithoutSlash(ls[n].path)

-----------------------------------------------------------------------------
(* The file system: stat(). *)

Nowhere == [root |-> "none", names |-> <<"nowhere">>]
Above == [root |-> "none", names |-> <<"above">>]

\* One name further, from a directory.
Step(at, s) ==
  IF at \notin Dirs THEN (IF at = Above THEN Above ELSE Nowhere)
  ELSE IF s = "." THEN at
  ELSE IF s # ".." THEN [at EXCEPT !.names = Append(@, s)]
  ELSE IF at.names = <<>> THEN Above
  ELSE [at EXCEPT !.names = Front(@)]

PlaceOf(r) ==
  IF r.uri = <<>> \/ Head(r.uri) # "/" THEN Nowhere
  ELSE FoldLeft(Step, [root |-> r.root, names |-> <<>>], SegmentsOf(r.uri))

\* What is above the root is not in the model: it may be there or not.
Kinds(r) ==
  LET at == PlaceOf(r)
  IN  CASE at \in Dirs -> {"dir"}
        [] at \in files -> IF EndsWithSlash(r.uri) THEN {"none"} ELSE {"file"}
        [] at = Above -> {"file", "none"}
        [] OTHER -> {"none"}

-----------------------------------------------------------------------------
(* The choice of the server block. *)

\* _configForServer: the last earlier block with the same address, whatever
\* its port.
ConfigForServer(i) ==
  LET earlier == {j \in 1 .. i - 1 : servers[j].addr = servers[i].addr}
  IN  IF earlier = {} THEN i ELSE Max(earlier)

Named(host) == {j \in DOMAIN servers : servers[j].name = host}

\* Variant: only for a connection that has the block of its listener still.
OverrideOnce(host) ==
  IF Named(host) = {} \/ block # ConfigForServer(listener) THEN block ELSE Min(Named(host))

\* override_host: the first block with that name, whatever it listens to.
OverrideHost(host) == IF Named(host) = {} THEN block ELSE Min(Named(host))

LocationIn(b, path) == MatchLocation(servers[b].locations, path)

\* Variant: the limit of the block, not of the location.
ServerLimit(b, path) == servers[b].max

\* _applyLocationBodyLimit
LimitOf(b, path) ==
  LET l == LocationIn(b, path) IN IF l = NoLocation THEN servers[b].max ELSE l.max

-----------------------------------------------------------------------------
(* ResponseHandler::handle.  An answer is a record as NoAnswer. *)

Code(c) == [NoAnswer EXCEPT !.code = c]

\* What may come of a request: an answer and the files after it.
Reply(codes) == {[answer |-> Code(c), files |-> files] : c \in codes}
Served(a) == {[answer |-> a, files |-> files]}

\* _serveStaticFile: too large, gone, not readable, or another failure.
Static(place, l) ==
  Served([code |-> 200, place |-> place, location |-> l]) \cup Reply({400, 403, 404, 500})

\* _sendDirectoryListing
Listing(dir, l) ==
  Served([code |-> 200, place |-> dir, location |-> l]) \cup Reply({403, 404, 500})

\* A directory: its first index, else a listing, else the code.
Directory(dir, l, code) ==
  LET names == IF l # NoLocation /\ l.index # <<>> THEN l.index ELSE servers[block].index
      name == IF names = <<>> THEN "index.html" ELSE Head(names)
      index == [dir EXCEPT !.names = Append(@, name)]
  IN  IF index \in files THEN Static(index, l)
      ELSE IF l # NoLocation /\ l.autoindex THEN Listing(dir, l)
      ELSE Reply({code})

\* _handlePost: open() fails, for one with the name of a directory, or makes or
\* empties the file; it stays also if a write() then fails.
Uploads(l) ==
  Reply({500}) \cup
  {[answer |-> [code |-> code, place |-> new, location |-> l], files |-> files \cup {new}] :
     code \in IF request.length = 0 THEN {201} ELSE {201, 500},
     new \in {[l.upload EXCEPT !.names = Append(@, n)] : n \in UploadNames} \ Dirs}

\* _handleDelete
Deletions(place, l) ==
  Reply({403, 500}) \cup
  {[answer |-> [code |-> 204, place |-> place, location |-> l], files |-> files \ {place}]}

\* Variant: a location without the method serves it.
MayIfLocated(l, method) == l # NoLocation \/ method = "GET"

\* The test of the method; without a location only GET.
May(l, method) ==
  IF l = NoLocation THEN method = "GET"
  ELSE l.methods = {} \/ method \in l.methods

\* handle(), for a path that is normalised; <<>> if that failed.
Outcomes(path, l, kind, at) ==
  IF path = <<>> THEN Reply({400})
  ELSE IF request.method = "HEAD" \/ ~May(l, request.method) THEN Reply({405})
  ELSE IF l # NoLocation /\ l.redirect THEN Reply({301})
  ELSE IF kind = "none" THEN Reply({404})
  ELSE IF request.method = "POST"
    THEN IF l # NoLocation /\ l.upload # NoPlace THEN Uploads(l) ELSE Reply({405})
  ELSE IF request.method = "DELETE"
    THEN IF kind = "file" THEN Deletions(at, l) ELSE Reply({405})
  ELSE IF kind = "file" THEN Static(at, l)
  ELSE Directory(at, l, IF path = <<"/">> \/ EndsWithSlash(path) THEN 403 ELSE 404)

-----------------------------------------------------------------------------
Init ==
  /\ servers \in {c \in Configurations : ValidConfiguration(c)}
  /\ files = InitialFiles
  /\ phase = "CLOSED"
  /\ listener = 1 /\ block = 1
  /\ request = NoRequest /\ answer = NoAnswer

\* _handleAccept: main has made a listener for each block.
Accept(i) ==
  /\ phase = "CLOSED"
  /\ phase' = "READING" /\ listener' = i /\ block' = ConfigForServer(i)
  /\ UNCHANGED <<servers, files, request, answer>>

\* The end of _parseRequestLine: what is not there for the block of the last
\* request gets 404 before Host is read, and sendError answers.
RequestLine(uri, method) ==
  /\ phase = "READING"
  /\ LET path == CleanPath(IF uri = <<>> THEN <<"/">> ELSE uri)
         r == ResolveFsPath(path, LocationIn(block, path), servers[block].root)
     IN  /\ request' = [NoRequest EXCEPT !.path = path, !.method = method]
         /\ \E kind \in Kinds(r) :
              IF kind = "none"
                THEN answer' = Code(404) /\ phase' = "ANSWERED"
                ELSE answer' = NoAnswer /\ phase' = "HEADERS"
  /\ UNCHANGED <<servers, files, listener, block>>

\* The end of _parseHeaders, and the body: Content-Length is compared with the
\* limit of the block, what is read of a body with that of the location.
Headers(host, chunked, length) ==
  /\ phase = "HEADERS"
  /\ block' = OverrideHost(host)
  /\ request' = [request EXCEPT !.host = host, !.chunked = chunked, !.length = length]
  /\ LET code == IF ~chunked /\ length > servers[block'].max THEN 413
                 ELSE IF ~chunked /\ request.method = "POST" /\ length = 0 THEN 411
                 ELSE IF length > LimitOf(block', request.path) THEN 413
                 ELSE 0
     IN  IF code = 0 THEN phase' = "COMPLETE" /\ answer' = NoAnswer
         ELSE phase' = "ANSWERED" /\ answer' = Code(code)
  /\ UNCHANGED <<servers, files, listener>>

\* handle(): the path is normalised, matched again and resolved again.
Handle ==
  /\ phase = "COMPLETE"
  /\ LET path == NormalizePath(request.path)
         l == LocationIn(block, path)
         r == ResolveFsPath(path, l, servers[block].root)
     IN  /\ request' = [request EXCEPT !.path = path]
         /\ \E kind \in Kinds(r) : \E o \in Outcomes(path, l, kind, PlaceOf(r)) :
              answer' = o.answer /\ files' = o.files
  /\ phase' = "ANSWERED"
  /\ UNCHANGED <<servers, listener, block>>

\* The response is written: setReading, with the block it has.
NextRequest ==
  /\ phase = "ANSWERED"
  /\ phase' = "READING" /\ request' = NoRequest /\ answer' = NoAnswer
  /\ UNCHANGED <<servers, files, listener, block>>

\* The connection ends, between requests or in the middle of one.
Close ==
  /\ phase # "CLOSED"
  /\ phase' = "CLOSED" /\ request' = NoRequest /\ answer' = NoAnswer
  /\ listener' = 1 /\ block' = 1
  /\ UNCHANGED <<servers, files>>

Next ==
  \/ \E i \in DOMAIN servers : Accept(i)
  \/ \E uri \in Uris, method \in Methods : RequestLine(uri, method)
  \/ \E host \in Hosts, chunked \in BOOLEAN, length \in Lengths : Headers(host, chunked, length)
  \/ Handle
  \/ NextRequest
  \/ Close

Spec == Init /\ [][Next]_vars

-----------------------------------------------------------------------------
(* Properties. *)

TypeOK ==
  /\ files \cap Dirs = {} /\ \A f \in files : [f EXCEPT !.names = Front(@)] \in Dirs
  /\ phase \in Phases
  /\ listener \in DOMAIN servers /\ block \in DOMAIN servers
  /\ request.method \in Methods /\ request.host \in Hosts \cup {"none"}
  /\ request.chunked \in BOOLEAN /\ request.length \in Lengths \cup {0}
  /\ answer.place \in files \cup Dirs \cup {NoPlace} \/ answer.code = 204
  /\ phase = "ANSWERED" <=> answer.code # 0

\* The names of a path that remain when each ".." takes away the one before.
Balance(s, i, j) ==
  Cardinality({k \in i .. j : s[k] \notin {".", ".."}}) - Cardinality({k \in i .. j : s[k] = ".."})
Remaining(s) ==
  {i \in DOMAIN s : s[i] \notin {".", ".."} /\ \A j \in i .. Len(s) : Balance(s, i, j) > 0}
EscapesRoot(s) == \E k \in DOMAIN s : Balance(s, 1, k) < 0

\* normalizePath collapses "." and "..", refuses just the paths that leave the
\* root, and changes nothing in what it returns.
NormalizedRight ==
  request.path # <<>> =>
    LET s == SegmentsOf(request.path)
        n == NormalizePath(request.path)
        kept == Remaining(s)
    IN  IF EscapesRoot(s) THEN n = <<>>
        ELSE /\ Len(SegmentsOf(n)) = Cardinality(kept)
             /\ \A i \in kept : SegmentsOf(n)[Cardinality({j \in kept : j <= i})] = s[i]
             /\ NormalizePath(n) = n

\* Does a location with path l serve a path, name by name?  "/" serves itself,
\* and what is not clean, but for a slash at its end, serves nothing.
Covers(l, p) ==
  /\ CleanPath(WithoutSlash(l)) = WithoutSlash(l)
  /\ IsPrefix(SegmentsOf(l), SegmentsOf(p))
  /\ SegmentsOf(l) = <<>> => SegmentsOf(p) = <<>>

\* The location of a request is the most specific of its block, in whatever
\* order the configuration has them and however the path is written.
MostSpecific ==
  phase \in {"HEADERS", "COMPLETE"} =>
    LET l == LocationIn(block, request.path)
        covering == {m \in ToSet(servers[block].locations) : Covers(m.path, request.path)}
    IN  IF covering = {} THEN l = NoLocation
        ELSE l \in covering /\ \A m \in covering :
               Len(SegmentsOf(m.path)) <= Len(SegmentsOf(l.path))

\* Is it the place of a path in its location: below the location's root, by all
\* of its names or by those behind the location?  (Where nothing is behind it, or
\* its own names once more, by the last one.)
IsAt(place, l, p) ==
  LET s == SegmentsOf(p)
      own == SegmentsOf(l.path)
      rest == SubSeq(s, Len(own) + 1, Len(s))
  IN  /\ place.root = l.root
      /\ \/ place.names \in {s, rest}
         \/ place.names = <<Last(s)>> /\ rest \in {<<>>, own}

\* A file is made or removed only by a request that its location allows, and
\* that file alone: made in the location's upload directory, also if the upload
\* then fails, or removed at the very path.
ChangesAllowed ==
  [][files' # files =>
       LET l == answer'.location
           place == answer'.place
       IN  /\ l.methods # {} => request.method \in l.methods
           /\ Covers(l.path, request'.path)
           /\ ~l.redirect
           /\ \/ /\ request.method = "POST" /\ answer'.code \in {201, 500}
                 /\ files' = files \cup {place}
                 /\ [place EXCEPT !.names = Front(@)] = l.upload
              \/ /\ request.method = "DELETE" /\ answer'.code = 204
                 /\ files' = files \ {place}
                 /\ IsAt(place, l, request'.path)]_vars

\* On every request of a connection, the first or a later one, the block that
\* Host names answers, if there is one.
NamedServerAnswers ==
  phase \in {"COMPLETE", "ANSWERED"} /\ Named(request.host) # {} =>
    block = Min(Named(request.host))

\* No upload is larger than its location allows, nor, where its length was
\* announced, than its block does, though the limit is set before Host is known
\* and again after it.  (Where the path is not normal, the limit is that of the
\* location of the path as it was sent.)
LimitsHold ==
  [][answer'.code = 201 /\ request.path = request'.path =>
       /\ ~(request.length > answer'.location.max)
       /\ request.chunked \/ ~(request.length > servers[block].max)]_vars

\* src/README.md:184: a server block is "selected by `listen` and
\* `server_name`".  The block a connection begins with, before it names one,
\* listens where the connection was accepted.
ServerByListen ==
  [][phase = "CLOSED" /\ phase' = "READING" =>
       /\ servers[block'].addr = servers[listener'].addr
       /\ servers[block'].port = servers[listener'].port]_vars
=============================================================================
