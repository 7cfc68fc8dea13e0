# Verification of Webserv

Webserv is an HTTP/1.1 server in C++98: one thread, one epoll instance in
edge-triggered mode, CGI scripts as child processes. This directory holds TLA+
models of it, what TLC checks of them on small instances, and proofs, checked by
TLAPS, of what holds for every size. Paths below are those of the repository.

## 1. The system

| Component | State | Operations | Interacts by |
|---|---|---|---|
| Event loop (`src/EventLoop/`) | `_event_refs`, `_stale_refs`, `_running`, `_stopped`, the epoll set in the kernel | `run`, `_dispatch`, the handlers, the two sweeps, `stop`, the destructor | calls everything below; epoll events carry pointers to its `EventRef`s |
| Connections (`Connection`, `ConnectionManager`) | map by descriptor; per connection: state, three buffers, request, server block, last activity | accept, recv, send, reset, close, list of the timed out | owned by the manager, used by loop, parser and responses |
| CGI jobs (`EventLoop_helper_cgi.cpp`, `cgi/CgiCleanning.cpp`) | `_cgi_jobs` by pipe descriptor, `_pending_reap`, header buffer, counters | start, relay, pump, finish, fail, time limit, kill, reap | writes into its client's write buffer and changes its state |
| Buffer (`Buffer.cpp`) | vector, head, limit | append, consume, reset, earase, compaction | throws `BodyLimitException` through parser and handlers |
| Parser (`HttpParser.cpp`) | inside the request: stage, counters, chunk in progress | `feed` and its stages | consumes the read buffer, fills the body, changes limits and server block |
| CGI process set-up (`cgi/CgiHandler.cpp`) | descriptors of server, child and script | checks, `pipe`, `fork`, `dup2`, `execve`, `_setCloexec` | called by dispatch, gives the job its pipe and its child |
| Body spool (in `EventLoop_helper_handlers.cpp`) | temporary file, its descriptor and counters | flush, finalize, clean up, dispatch when complete | takes the body from the parser, hands the file to the CGI |
| Responses (`ResponseHandler*.cpp`, `ResponseLoader.cpp`) | none but the file system | `handle`, `sendError`, uploads, deletions, listings | appends to the write buffer |
| Virtual hosts (`conf/serverConfig.cpp`, `_configForServer`, `override_host`) | list of blocks with locations | choice of block and location | read by parser and responses |
| Configuration (`conf/`) | none after the start | lexer, parser, validation | its result is the list of blocks |
| `main`, listeners, logger | the global loop pointer | start, signal handler, exit | `stop` runs inside the signal handler |

What is hard about it, and to test:

* **Descriptor reuse inside a batch.** `epoll_wait` returns up to a batch of
  events; a handler may close descriptors that later events of the batch are
  about, and the next `accept` or `pipe` gets the same number.
* **Memory of event references.** Events carry raw pointers, so a reference
  must live until the batch is done and be deleted exactly once.
* **Edge-triggered events.** An event that is not used up is not repeated; each
  state change must re-arm the right mask, each partial read must be resumed by
  something else.
* **Life of a CGI job.** It ends by end of file, error, time limit, its client's
  disconnection, the server's stop, or an exception while it starts; every one
  of these must leave client, pipe, reference and child consistent.
* **Descriptors across `fork`.** A child inherits what the server has open; an
  end of a pipe left in the wrong process delays an end of file, a socket left
  there keeps a closed connection open.
* **Segmentation.** Requests come in pieces of any size; parser, spool and
  dispatch resume at any of them, and system calls may fail in between.
* **Limits.** One limit is shared by bodies, read buffer and write buffer, and
  changes with location and Host in the middle of a request.
* **Signals.** `stop` may run between any two handlers.
* **Order of directives.** Locations copy their server's settings when they
  open and are filled in later, so what a file means may depend on its order;
  numbers pass through types of several widths.

`PROJECT.json` lists these as hazards, each at its line with the properties that
would notice it going wrong, and says which have none and why.

What makes each component correct: the loop never uses or deletes a reference
twice and never acts on the wrong object; a connection leads the life of
`ConnectionLifecycle`; every job has one live client and every child is reaped;
what the client gets of a CGI is one well-formed response with all of its bytes;
a script reads the whole body, and nobody else keeps its output from ending;
a request is answered as its whole content deserves, however it was cut; a buffer
is a bounded queue; the block that Host names and its most specific location
decide what is served and which file changes; a configuration that is accepted
lacks nothing that the rest relies on.

## 2. Modules

| Module | Models | Uses |
|---|---|---|
| `ConnectionLifecycle` | what the loop promises for each descriptor (abstract) | |
| `EventLoop` | the loop's tables and all of its handlers | instance of `ConnectionLifecycle` |
| `EventLoopInvariant` | its inductive invariant | `EventLoop` |
| `EventLoopProofs` | proofs about the tables, about children, waiting connections and `stop`, and that the loop implements `ConnectionLifecycle`: lemmas about each operation, one per action, the theorems | `EventLoopInvariant` |
| `CgiStream`, `CgiStreamProofs` | the bytes of one CGI response, from script to client; its proofs | |
| `CgiProcess`, `CgiProcessProofs` | who holds which descriptor, from the connection over `fork` and `execve` to the end of the script; its proofs | |
| `RequestParser` | the parser's stages, as operators on a record | |
| `RequestIntake` | one connection: reads, parsing, spooling, dispatch, keep-alive | `RequestParser` |
| `RequestIntakeProofs`, `RequestIntakeStream` | its proofs: types and spool files; what the parser makes of the stream of requests, and the answers | `RequestIntake` |
| `ByteQueue` | what a buffer promises (abstract) | |
| `Buffer`, `BufferProofs` | the lazily compacted vector; its proofs | instance of `ByteQueue` |
| `Paths` | cleaning, normalising, matching and resolving paths | |
| `Routing`, `RoutingProofs` | virtual hosts, locations, files, over a connection's requests; its proofs | `Paths` |
| `Configuration`, `ConfigurationProofs` | reading a configuration file, and main's start with it; its proofs | |
| `MC...` | values for the constants that TLC needs as definitions | |

The modules meet at named outcomes. `EventLoop` takes what a request turns out
to be, and what a write achieves, as nondeterministic; `RequestIntake`,
`CgiStream`, `CgiProcess` and `Routing` say which outcomes there are and why, and
what `Routing` takes for granted of a block is what `Configuration` accepts. Composing all of
them would multiply their states without adding an interaction: they run in one
thread and share only the connection's state, which `EventLoop` has.

### EventLoop

`srv` is one record with a field for each table: `connections`, `cgiJobs`,
`refs` (the heap of `EventRef`s), `eventRefs` (`_event_refs`), `staleRefs`,
`interest` (the kernel's epoll set), `child` (processes), `pendingReap`,
`overdue` (children killed more than `REAP_STALE_SECONDS` ago, which
`_reapPending` gives up) and `stopped`.
`phase`, `batch` and `todo` are where `run()` is. Functions that change tables
are operators from a record to the next, and call each other as in the source:
`UnregisterEventFd`, `CloseCgiJobs`, `FinishCgiJob`, `FailCgiJob`, `CloseClient`,
`HandleCgiEvent`, `HandleWrite`, ...

An action is a whole handler. `Wait` returns any set of events the
interest allows; the `Dispatch...` actions take any one of the batch, since the
kernel's order is not specified; `AcceptOne` is one round of the accept loop, so
that a signal can come between two rounds; `SweepClient`, `SweepJob` and
`JobsSwept` (with `_reapPending`) are the steps of the sweeps; `Exit` is the
destructor. `Stop`, `ChildExits`, `ConnectionIdles`, `JobExpires` and
`ReapOverdue`, the clock of a killed child, are the environment. A
descriptor, a reference or a pid that is free may be handed out at once.

The signal handler acts between handlers. In the program it can also interrupt
one, and then walks a map that may be half changed; that is undefined behaviour
inside the C++ library, and no property here speaks about it.
`PROCESSING` and `CLOSING` of the source's enumeration are transient or unused
and are no states of the model. A `BodyLimitException` that leaves a handler is
not in this module but in `CgiStream`.

### CgiStream

Items of unit size move from script to pipe, header buffer, write buffer, socket
and client. Actions: what the script writes, `DispatchCgi` (`_handleCgiEvent`:
one read per event), `DispatchOut` (`_handleWrite` with its pump), the two time
limits, the client's reads. `relay` is job and client as one record; exceptions
are the field `thrown`, raised by `Append2Out` and caught where the source
catches. When the handler of an exception throws itself, as it does with a
`client_max_body_size` below the high-water mark and a chunk, the exception
leaves `run()` (`CRASHED`); `OutBounded` says that a larger limit is never met.

### CgiProcess

An object is what a descriptor refers to: a connection, a spool file open for
writing, the same file open for the script, an end of a result pipe. `held` has
the objects of the server and of each child, `request` the stage of each request
with its body and the offset of its file, `script` its process with standard
input and output. `Arrive`, `SpoolUnit` and `SpoolFails` are the request coming
in; `Start` is `_tryDispatchComplete` with `_ApiStartCgi` and `startCgi` up to
the return of `fork` in the server, `StartFails` any of the calls in it failing;
`Exec` and `ExecFails` are the child's side, with the `dup2` calls and what
FD_CLOEXEC closes; `ScriptReads`, `ScriptClosesOutput`, `ScriptEnds` and `Dies`
are the script. `ReadEnd` is the end of file, which a pipe shows only when
nobody holds its other end, and which may stay unread; `JobTimeout` and `CloseClient` end the job earlier.
A file being spooled for another request has no FD_CLOEXEC, so a script may
hold it: `ScriptsHoldNothing` says that this is all.

### RequestParser and RequestIntake

The wire is a sequence of items: a request line with the code it deserves,
header fields, chunk sizes, data, CR and LF. `Feed` is `HttpParser::feed` on the
record of what the parser remembers; its operators are the stages of the source
and may be cut anywhere. One server block and no change of host here (that is
`Routing`). `RequestIntake` adds the socket, the loop of `recv` calls, in which
more bytes may arrive between two calls, the spool file with calls that may fail
(`Faults`), dispatch and keep-alive. The client may send its next request at any
time (`Pipelines`); requests begun before the last one was answered are in
`early`. A page has a size, and is written as its headers and one piece after
another (`Page`).
`phase = "HUNG"` is the endless loop of `_ensureCapacity` on a buffer without
capacity, the state `earase` leaves; `NoStall` says that only a connection whose
spooling has failed comes there. `phase = "DIED"` is an exception leaving `run()`.
Two of its properties name what the code does not do, so that the rest of them
can be exact: a chunked body of no bytes for a script is never dispatched
(`NeverSpooled`), and `Connection::reset` drops what was read of a request that
came early (`early`). The source has a
path for a POST without any length (`maybeCompletePostWithoutLength`); the
parser answers 411 before it, so it is not taken.

### Buffer

`vector` is `_storage` with `_head`; `Append2` is both `append` and
`append_result`, which differ in the limit; `Compacted` is the test at half of
the vector. Capacity is reduced to whether there is any.

### Paths and Routing

A path is a sequence of slashes and names. `CleanPath`, `NormalizePath`,
`MatchLocation` and `ResolveFsPath` are the functions of the source.
`Routing` has the block in use as state that outlives a request: `Accept`
(`_configForServer`), `RequestLine` (existence is checked with the block of the
connection so far), `Headers` (`override_host`, then the limits), `Handle`
(everything again with the normalised path), `NextRequest`. In `Headers`,
Content-Length is compared with the block's limit and what is read of a body with
the location's, so a chunked body has only the second. `Kinds` is `stat()`;
what lies above a root is outside of the model and may be there or not. Failing
calls on files are outcomes: an `open` that fails changes nothing, a `write` that
fails is answered with 500 and leaves the file made or emptied (`Uploads`). `Inputs` gives the constants their types; that
the path of a location begins with a slash is `parsLocation`'s test.
Five things the model makes visible and no property asserts otherwise: location
`/` matches only the path `/`; a location written with two slashes in a row serves
nothing, for request paths are cleaned and locations are not; only the first index
name is tried, where `README.md` says each; the limit of a body is that of the
location of the path as sent, which need not be the location of the normalised path;
and of a path that is its location's path alone, or twice, only the last name is looked
for under the location's root, so that a DELETE of `/a/f/a/f` in location `/a/f`
removes `/f` there (the last case of `IsAt`).

### Configuration

A file is a run of statements, one action each: `Directive` in the block `at`
that is being read, `OpenServer`, `OpenLocation` and so on for the blocks,
`SyntaxError` for everything that is not a statement of its place. The choice of
the next statement is the file: TLC takes every order. `ServerTakes`,
`LocationTakes` and `HttpTakes` are the tests of `parseDirective`, `...With` what
it stores. `NewServer` and `NewLocation` copy, `Filled` and `FilledServer` are
the end of `parsServer`, `FinalServer` and `Valid` what `parsing_lexems` and
`validate_final_config` do at the end of the file; `Listen` and `Run` are `main`.
A number is the sequence of its digits and goes through `safe_strtol`
(`Strtol`) and a cast (`ToInt`) whose widths are constants. A size is a double, as a
fraction, with a unit; `SizeOf` is the test for overflow and the conversion to a long
(`ToLong`), whose outcome beyond a long is up to the machine: `OutOfRange`, either end
of the range. `given`, `from`,
`start` and `text` are not in the program: they remember what was written, for
the properties. `DefaultServer` is `set_default_conf`, used without an argument.
Four things to know of an accepted file: a location's limit, further index
names and error pages depend on whether the server's directive comes before or
after the location (`Inherited` says exactly how); a port such as 131152 is
taken for the port it is modulo the width of an int; a size of exactly 2^63 bytes
passes the test for overflow, which compares with 2^63 because LONG_MAX as a double is
that, and on a machine that converts it to LONG_MIN also the test for the largest
limit, so that "8589934592G" is a limit of 2^63 bytes (the exception in
`UsableLimits`); and `README.md` documents
`upload_store` and `cgi_extension`, which the lexer knows as `upload_path` and
`cgi_ext`.

## 3. Runs

| Run | Shows | Bounds |
|---|---|---|
| `event_loop` | the safety of tables, children and `stop`, the refinement of `ConnectionLifecycle` | 2 descriptors, 4 references, 2 children, signal and failing registration; symmetric |
| `event_loop_live` | a CGI's client and an idle connection do not wait for ever; a killed child is reaped, unless it is given up after `REAP_STALE_SECONDS` | 2 descriptors, 3 references, 1 child |
| `cgi_stream` | framing, no loss, a kept connection is past a whole response, bounded memory, and the script's end ends a streamed response without a time limit | 2 header parts, 5 data items, 3 reads, pipe 3, socket 2; both time limits may pass and none has to |
| `cgi_stream_idle` | *violated*: a slow CGI is cut off by the idle timeout once it streams | 1 header part, 3 data items |
| `cgi_process` | each end of file is its script's own, no descriptor leaks or is kept by a script, whole bodies | 2 requests, bodies of up to 2 units |
| `intake` | right answers, whole bodies, no stall, no spool file left | 2 of 19 kinds of requests, pipelined or not, `recv` of at most 4 items, socket of 7, four calls that may fail, clients that leave |
| `intake_error` | *violated*: after an error response the connection goes on | 1 request |
| `intake_page` | *violated*: a page that does not fit into the write buffer is cut and a 413 page follows it | a page of 9 with its headers, a limit of 8 |
| `configuration` | what is accepted is complete and unambiguous, limits are neither 0 nor above the maximum but for one size, locations inherit, numbers are as written | six vocabularies of statements in any order, one server with one location or two of either; an int of 17 bits, a long of 19 |
| `buffer` | bounded waste, refinement of `ByteQueue` | blocks of 1 to 3 bytes, limits 2, 5 and 6 |
| `routing` | normalisation and matching against reference definitions, the block named by Host answers, files change only where allowed, limits hold | 2 configurations of 2 and 3 blocks, all paths of 3 segments of 5 names and one of a location twice, 6 directories, limits 1 and 2, bodies of up to 3, chunked or not |
| `routing_listen` | *violated*: a connection may begin with the block of another port | |

Why these bounds. Two descriptors are what it takes for one to be closed and
reused while an event for the other is pending, and for a client with its CGI;
the properties of the tables are theorems for any number of them. Four
references are two live ones, one stale and the listener's. In `cgi_stream`
five data items are more than two reads, fill the pipe, and cross the
high-water mark together with the chunk's framing; the number of reads passes
its limit, and so does the header block. In `cgi_process` two requests are one
whose script runs while the other arrives, is spooled and forks; its invariants
are theorems for any number. In `intake` the limits lie around the lengths of
the bodies, so each is met exactly and exceeded by one, the second request meets
everything the first may leave behind, and a socket of 7 holds the end of one
request and the beginning of the next. In `configuration` the vocabularies
separate settings that do not meet in the code; each has values on both sides of
every test, and the widths leave room for one number that is too long for an int
and one that is too long for a long; of the sizes, one is cut off to 0, two are one byte
beyond a long, with and without a unit, and one is larger. In `routing` three segments are the least in
which two `..` meet one name, and the blocks share an address on two ports, a
port under two addresses and a name; a block's limit lies below a location's and above one,
with lengths at and beyond both.

Deadlock is checked in every run but `cgi_stream_idle`, which leaves out the
time limit of jobs, so a server waiting for its script is a legitimate end there.

The violated properties are what the repository's `src/README.md` says; the
findings in `PROJECT.json` quote the lines.

### Fairness

`EventLoop`: weak fairness of the loop (the thread runs, and `epoll_wait` has a
timeout, so it always returns), of each job's time limit (time passes), and of
the exit of a child that was sent SIGKILL. None of a client or of a script that
was not killed. `CgiStream`: of handling a reported event and of a client that
goes on reading; not of a time limit, so `StreamEnds` shows that none is needed.
`CgiProcess` has no fairness and no liveness: that a script ends is not enough
for its job to end. The pipe is read once per edge, and not above the high-water
mark, so an end of file that comes with the last bytes of an incomplete header
block stays unread until the job's time limit, which is fair in `EventLoop`
(`CgiEnds`). `RequestIntake` states what must not be left waiting as an invariant
(`NoStall`) and needs no fairness for it.

## 4. Proofs

**Tables of the loop.** `EventLoopProofs` proves `Spec => []IInv` for any sets of
descriptors, references and processes and any faults, assuming only that `None`
and the listener are not among them (`ConstantsDistinct`, `FaultsKnown`), and
from it seven of the properties of the run `event_loop`.

None of these properties is inductive. That a pending event never points to
freed memory needs that what is freed is on the stale list, that stale references
are not registered, that epoll watches only registered ones, and that events come
only from what is watched. `IInv` says that the maps, the heap, the epoll set and
the batch agree (`RegisteredOK`, `WatchedOK`, `LiveOK`, `OwnersOK`, `BatchOK`),
that jobs and clients agree on their progress (`JobStates`), and what may be
pending in which phase. Between two calls inside a handler the last two need not
hold, but `Tables` does, for a batch without the events of the client at hand
(`quiet`): so each operator is proved to keep `Tables`, handlers
compose these lemmas as the functions call each other, and there is
one lemma per action, on top of which the theorems are one line each.

**Children and waiting connections.** The same module then strengthens `IInv` by
`Children` (each unreaped child has exactly one holder, a held pid is that of an
unreaped child) and `Waiting` (bytes in a buffer mean WRITING, CGI_RUNNING means
a job). Inside a handler `Waiting` fails for its own client, so `Sound(s, some)`
states it for all but the connections in `some`, and the lemmas say which
operators settle a client (`Settled`). The theorems are `ChildrenAccounted`,
`ExitReaps`, `PendingIsWriting`, `CgiRunningHasJob` and `StoppedTakesNoWork`.

**Refinement of the life cycle.** Last, `EventLoopProofs` proves
`LifecycleRefined`. The key lemmas say that a handler of one client is `Apart`
from the others: their connections keep their state, and no job but the client's
own has gone. What is left is the one client, whose step is one of
`ConnectionLifecycle` because, by `JobStates` and `Waiting`, state and job fit
each other before and after.

**Buffer.** `BufferProofs` proves for all bytes, blocks and limits that `Buffer`
keeps its shape, that less than half of the vector is ever waste, and that it
implements `ByteQueue`. It rests on three lemmas about sequences (dropping a
prefix of a concatenation, in front of it, and twice), from which compaction
keeps the content, an append puts behind it and a consumption takes from its
front.

**The stream of a response.** `CgiStreamProofs` proves all four invariants of the
run `cgi_stream`, for scripts of any length and any sizes of pipe, socket, reads
and limits. The invariant says which of four stages the relay is at: `Collecting`
(the header block is not complete, nothing has gone out), `Streaming` (whole
chunks go out: the client's parser stands between two of them, and there is a
last item such that what went out carries the data up to it and the pipe the
rest), `Finished` and `Failed`. It also bounds the write buffer, which is why an
append fails, if at all, where the bound says. The stages before and after each
read follow from lemmas about sequences: what the parser makes of a chunk
(`ParsedChunk`), and what is carried by two pieces together, by a piece cut in
two, and behind items that are no data (`CarriesJoin`, `CarriesSplit`,
`CarriesBehind`). `NothingLost`, `KeptAfterWhole` and `OutBounded` need no
assumption. `Framed`, and that no exception leaves the loop, assume `Roomy`: a
`client_max_body_size`, which also limits the write buffer, above the high-water
mark, one read and the end of the response. With a smaller one a chunk may be cut
in its middle by an exception, so the assumption is needed; the program does not
check it.

The parser is a recursive function, and the proofs about it are inductions.
The library's induction theorem cannot be used by these provers, but they can use
a set: `NatSet` says that a set of numbers with 0 and each successor has all, and
follows from the well-foundedness of `<` (`LeastNat`). The existence of
the function is an induction of this kind too (`ParsesExists`).

**Descriptors of scripts.** `CgiProcessProofs` proves the four invariants of the
run `cgi_process` for any number of requests and any length of bodies. `EndIsOwn`
is not inductive: a fork copies what the server holds, so the invariant says what
the server holds of each request at each stage, what a forked child then holds
of its own and of the others, and what is left after `execve`.

**Which block answers.** `RoutingProofs` proves `NamedServerAnswers` and
`LimitsHold` for any configuration, paths, hosts and lengths. The invariant
`RouteInv` has `Chosen`, which adds to the first that Host is unknown before the
headers are read and that no block has the name that stands for "unknown"
(the assumption `NoneIsNoName`), and `WithinLimits`, that a complete body has
passed the limit of the location of the path as sent and, unless it is chunked, of the
block in use now. Limits are compared as "not larger", which is the code's test.
`FilesChangeByMethod` proves a part of `ChangesAllowed`: files appear by a POST that
is answered with 201, or with 500 when it fails half-way, and disappear by DELETE only,
from a location that takes the method and does not redirect.

**Paths, locations and files.** The rest of `RoutingProofs` proves what is said of
paths, for paths and locations of any length: `MostSpecific`, `ChangesAllowed` and
`NormalizedRight`. It assumes `Inputs`: no two names of a path follow each other, a
location begins with a slash, and no root is called as the model calls the place
that is none. (`Inputs` also says that `/` is a path, since the provers do not know
that a text is one.) The functions of `Paths` are folds. `FoldExists` shows that the
function by which the library defines a fold exists, so each fold has its run,
element by element (`CleanRun`, `SegmentsRun`, `WalkRun`, `MatchRun`, `PlaceRun`),
and what a run keeps is an induction of the kind above.

`MostSpecific` compares names, and the code characters. They agree because of
`PathInv`: whatever a client sends, a path that comes as far as its headers is
`Clean`, a slash and a name in turns with none at its end. A path that begins
with no slash is not; it has no place (`NotRooted`), so it is answered with 404
before. Of a location only a part of `Covers` is needed: one that is not clean
behind its last slash is no prefix of a clean path (`ServesCovers`), and of two
that cover a path the longer has more names (`CoversSize`).

`FilesChangeAllowed` follows a path from the end of the walk of `normalizePath` to
the place that `stat()` finds. What a location's root is put in front of is a
suffix of the path, cut at a slash (`ResolvedSuffix`): the whole path, what is behind
the location (`RestNames`), or what is behind the last slash (`LastNames`), and the
latter only if nothing, or the location once more, is behind the location
(`ResolvedNames`). Its names, none of them a dot or two, are walked below the root as
they are (`PlaceNames`), so the file that a DELETE removes is the one of the path's
names in the location's root, with that exception (`PlaceIsAt`). That an upload is in the upload directory needs that
files have names, which is the first part of `PathInv`.

`NormalisationRight` compares the walk, which keeps a stack of names, with
`Remaining`, which counts. `Kept` says that after each segment the walk has ended
just if some `..` has left the root, and otherwise has the names that remain so far,
the a-th of n with a balance of n - a + 1 from there on (`Has`). A name pushed or
taken away changes each balance by one (`HasPush`, `HasPop`). At the end the
balances are those of `Remaining`, and an increasing sequence has each rank once
(`RankIs`). A path once normalised has no dots left, so the walk over it keeps it
(`WalkSame`).

**What is accepted is usable.** `ConfigurationProofs` proves `AcceptedIsUsable`
for any vocabularies, hence files of any length with statements and blocks in any
order, any file system and any widths. What is true of an accepted block was
brought about at different places, so the invariant `ReadInv` says how far each
kind of block has come: `Begun` for a location being read (a limit, and the map
of interpreters that its two lists make, whichever came first), `Ended` and
`Settled` when its block and its server's have ended, `BegunServer`,
`EndedServer` and `BegunHttp` for what holds them. `hasPartialCGIConfig` compares
numbers of entries only; `WholeIsPaired` shows that this suffices, since a map
with as many entries as extensions has each once. It assumes that the default
port and the built-in settings are in range (`Defaults`), that widths and limits
are numbers and the default limit is below the maximum (`Widths`, `Limits`, `NamesNest`), that a double beyond a long becomes one
end of its range (`Conversion`), and that a size is a fraction
with a unit, a port and a timeout digits (`Values`). That a limit is in
`UsableLimits`, and before its block has ended maybe 0 (`Sizes`), is where the test for
overflow and the conversion behind it come in (`SizeIsSize`). The built-in settings, which nothing validates, are
proved usable as well. On top of `ReadInv`, `InheritInv` proves `LocationsInherit`:
`Copied` says what a location has while its server is still read. Root, index and
limit are directives that a server may have once, so what `from` has is what the
server will have in the end, and what `from` lacks was not set when it was copied.
`NumberInv` then proves `NumbersAsWritten`, for any number of digits. The code reads
them from the first on, `Decimal` from the last; `StrtolRight` relates the two: what
has been read times the weight of what is left, plus its value, is the same after
each digit. `ShiftedIs` is the test for overflow, and `ToIntRight` the conversion.

**Requests in pieces.** `RequestIntakeProofs` proves what the parser makes of a
read buffer, however the bytes were cut. Each part of `feed` gets a lemma on what
it returns; the two loops are recursive functions, and `HeadersRun` and `ChunksRun`
say that a set which a round does not leave is not left by the loop, and that at
its end a further round changes nothing. `FeedInto` composes them: a set of sane
connections (`Sane`) that no part leaves is not left by `feed`. With it the types
(`IntakeTyped`) and the life of the spool file (`SpoolFilesGo`) are proved for
any requests, limits, sizes of reads and faults. The invariant `ControlInv` adds
to the types that a file with a path has its descriptor while its request is
read (`SpoolOwned`), which is why closing the connection finds it.

**Whole requests from pieces.** `RequestIntakeStream` relates the parser to what
the client sent, for any requests, pipelined or not, any cuts and any faults. The
bytes of a request are a sequence of items, and `At` says, for each stage of the
parser, which tail of the current request lies unread in front of the requests
behind it, and what the connection has kept of the part before: which fields,
how much of the body, whether a chunk's size, data or end comes next. `Follows`
adds that the body so far is in the file and then in memory; each part of `feed`
keeps it or refuses the request for one of its `Reasons` (`LineStep`,
`FollowsHeader`, `FollowsBody`, `FollowsChunk`), hence by the lemmas on the loops
so does `feed`. The invariant `StreamInv` says that a connection that is reading is
between requests, within one, or has failed to spool (`Parsed`); that what is
left is something without a request line and then whole requests (`Lying`), of
which none has had its turn; and that it waits only where it can do nothing with
what it has (`Waits`). `EarlyInv` keeps count of the requests begun before their
turn, whose bytes `Connection::reset` drops. `BodiesAccounted` is then a
part of the invariant. `NothingStalls` follows because a parser that has all of a
request in its buffer can do something (`RequestEnd`, `LineEnd`): so if
one is due and all has arrived, what waits is one of the cases `NoStall` names.

**Right answers.** The last part of `RequestIntakeStream` proves `AnswersRight`.
`StreamInv` is kept as it is, and `RightInv` joins to it two facts about a request
that could not be spooled. `FaultInv` says that only a call that failed brings a
request into that state, hence that a 500 or 503 was not earned by the request
alone. `SpoolRoom` says that such a request, or a script's chunked body of no
bytes, leaves at most the end of a line in the read buffer, unless the next
request has been begun behind it; without it an invariant could not say why the
next read does not overflow the buffer. `RightRead` then takes a round of the
read loop apart: an overflow has a cause in the request (`LineShort`,
`FieldsShort`, `SizeShort` and `EndShort` bound what was left in the buffer),
an error of `feed` is one of its `Reasons`, and what is dispatched was
read whole (`DispatchRight`). A request that is dispatched has no `Reasons`, so a
200 is never given to one that should have been
refused (`ReasonNone`). `Excuses` lists what a request may be answered with for
nothing that is wrong with it: 408 if clients are slow, 500 and 503 for a
script if calls fail, and 413 if the next request came in behind a body that
cannot be spooled.

The theorem assumes `Roomy`: a limit has room for a read of the largest size behind
the end of a line, and for a page. The program does not check this of
`client_max_body_size`, whose default of 1 MB is far above the 16 KB of a read
and which a configuration may set to a byte. Since `Connection` holds its read
and write buffers to that limit too, a limit that is less makes it answer 413 to
requests whose bodies fit, whenever enough of the next bytes comes with them. The
hypothesis is no larger than need be: with a `ServerLimit` of 7 or a
`LocationLimit` of 5 beside the reads of 4 of `intake`, TLC finds `AnswersRight`
violated. The run's own limits, 8 and 6, are the least that `Roomy` allows.

Only model-checked is liveness, whose proof needs fairness and ENABLED: `CgiEnds`,
`IdleClosed` and `KilledReaped` of the event loop and `StreamEnds` of a stream. Every invariant, action property and refinement that a
passing run checks is also a theorem.

## 5. Not modelled

* Tokenising the configuration, the logger, MIME types, HTML, multipart parsing,
  dates, the environment of a script other than CONTENT_LENGTH, the search for
  its interpreter: wording and pure computation on text.
* The characters of a request line or of Host: the line has the code it
  deserves. Percent-decoding is done before a path enters the model.
* The backlog of the listener at the connection limit. `addConnection` refuses at
  10 000 connections, and the clients left in the backlog of the edge-triggered
  listener wait for the next arrival. `EventLoop` reports the listener at any
  time, so it does not show this; a bound that does would be another number than
  the program's and a property that says what no text of the repository promises.
* What the signal handler does to a handler it interrupts: `stop` walks
  `_event_refs` while the interrupted code may be changing that map. That is
  undefined behaviour inside the C++ library whose outcomes cannot be listed.

## 6. Plan

Everything of the plan's core is done: the loop with all of its safety proved,
the stream, the intake with pages and pipelining, scripts' descriptors with their
proofs, the buffer with its proofs, paths and routing with proofs, the
configuration with its proof. What would come next, in this order:

1. A listener with a backlog and a limit beside `EventLoop`.
2. The decoder of multipart bodies as a resumable parser beside `RequestParser`.
