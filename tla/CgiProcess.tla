----------------------------- MODULE CgiProcess -----------------------------
(***************************************************************************)
(* The start of CGI scripts: which descriptors the server, a forked child  *)
(* and a running script hold of connections, spool files and pipes, for    *)
(* several requests at a time, from the accepted connection to the end of  *)
(* the script.  An object below is what descriptors refer to; a process    *)
(* holds an object as long as one descriptor of it does, and the end of a  *)
(* pipe shows only when no process holds its other end.                    *)
(*                                                                         *)
(* What the script writes is in CgiStream, what the calls that fail in     *)
(* spooling leave behind in RequestIntake, the tables of the loop in       *)
(* EventLoop; an exception while a job starts ends the loop (there), and   *)
(* all that is held with it.                                               *)
(***************************************************************************)
EXTENDS Naturals

CONSTANTS
  Requests,   \* each on a connection of its own: the next one of a kept
              \* connection meets nothing that is held but the connection
  Server,     \* the process of the server; a script is named by its request
  Null,       \* the object of /dev/null
  MaxBody     \* longest body, in units

ASSUME ServerIsNoScript == Server \notin Requests
ASSUME MaxBodyKnown == MaxBody \in Nat

VARIABLES
  held,      \* the objects each process holds, stdin and stdout of scripts aside
  request,   \* of each request: see Request
  script     \* of each request: see Script

vars == <<held, request, script>>

Kinds == {"client", "spool", "body", "read", "write"}
Client(r) == [kind |-> "client", of |-> r]
Spool(r) == [kind |-> "spool", of |-> r]   \* the spool file, open for writing
Body(r) == [kind |-> "body", of |-> r]     \* the same, open for the script
Read(r) == [kind |-> "read", of |-> r]     \* the ends of the result pipe
Write(r) == [kind |-> "write", of |-> r]
Objects == [kind : Kinds, of : Requests]

ASSUME NullIsOther == Null \notin Objects

\* body: the length of it; size and offset: of the spool file.
\* CGI: a job runs.
Stages == {"NONE", "READING", "CGI", "WRITING", "CLOSED"}
Request == [stage : Stages, body : 0 .. MaxBody, size : 0 .. MaxBody, offset : 0 .. MaxBody]

\* FORKED is the child before execve(); a KILLED one was sent SIGKILL.
\* announced: CONTENT_LENGTH; got: what it has read.
Script == [state : {"NONE", "FORKED", "RUNNING", "KILLED", "ENDED"},
           in : Objects \cup {Null}, out : Objects \cup {Null},
           announced : 0 .. MaxBody, got : 0 .. MaxBody]
NoScript == [state |-> "NONE", in |-> Null, out |-> Null, announced |-> 0, got |-> 0]

Init ==
  /\ held = [p \in Requests \cup {Server} |-> {}]
  /\ request = [r \in Requests |-> [stage |-> "NONE", body |-> 0, size |-> 0, offset |-> 0]]
  /\ script = [r \in Requests |-> NoScript]

\* Who holds an object: with the standard descriptors of scripts.
Holders(o) ==
  {p \in Requests \cup {Server} :
     o \in held[p] \/ (p # Server /\ o \in {script[p].in, script[p].out})}

JobRuns(r) == request[r].stage = "CGI"

Opens(objects) == held' = [held EXCEPT ![Server] = @ \cup objects]
Closes(objects) == held' = [held EXCEPT ![Server] = @ \ objects]
Becomes(r, stage) == request' = [request EXCEPT ![r].stage = stage]

-----------------------------------------------------------------------------
(* Before the script. *)

Arrive(r, n) ==
  /\ request[r].stage = "NONE"
  /\ Opens({Client(r)})
  /\ request' = [request EXCEPT ![r].stage = "READING", ![r].body = n]
  /\ UNCHANGED script

\* flushRequestBodyToTmpFile, which opens the file with the first unit.
SpoolUnit(r) ==
  /\ request[r].stage = "READING" /\ request[r].size < request[r].body
  /\ Opens({Spool(r)})
  /\ request' = [request EXCEPT ![r].size = @ + 1, ![r].offset = @ + 1]
  /\ UNCHANGED script

\* open() or write() of the spool file fails: the request gets an error, and
\* the file, if it is open, stays so until the response is out.
SpoolFails(r) ==
  /\ request[r].stage = "READING" /\ request[r].size < request[r].body
  /\ \/ Opens({Spool(r)})
     \/ UNCHANGED held
  /\ Becomes(r, "WRITING")
  /\ UNCHANGED script

Complete(r) == request[r].stage = "READING" /\ request[r].size = request[r].body

\* Variant: the descriptor that wrote the file is passed on as it is.
FinalizedInPlace(r) == IF request[r].size = 0 THEN request[r].offset ELSE request[r].size

\* finalizeBodyTmpFile closes the file and opens it again: from its start.
Finalized(r) == 0

BodyOf(r) == IF request[r].size = 0 THEN {} ELSE {Body(r)}

-----------------------------------------------------------------------------
(* _tryDispatchComplete with _ApiStartCgi, one handler. *)

\* Variant: the server keeps its write end of the pipe.
StartKeepingWrite(r) ==
  /\ Complete(r)
  /\ held' = [held EXCEPT
       ![Server] = (@ \ {Spool(r)}) \cup {Read(r), Write(r)},
       ![r] = (held[Server] \ {Spool(r)}) \cup BodyOf(r) \cup {Read(r), Write(r)}]
  /\ request' = [request EXCEPT ![r].stage = "CGI", ![r].offset = Finalized(r)]
  /\ script' = [script EXCEPT ![r].state = "FORKED"]

\* The child gets what the server holds at the fork; then the server closes
\* its write end of the pipe and the body.
Start(r) ==
  /\ Complete(r)
  /\ held' = [held EXCEPT
       ![Server] = (@ \ {Spool(r)}) \cup {Read(r)},
       ![r] = (held[Server] \ {Spool(r)}) \cup BodyOf(r) \cup {Read(r), Write(r)}]
  /\ request' = [request EXCEPT ![r].stage = "CGI", ![r].offset = Finalized(r)]
  /\ script' = [script EXCEPT ![r].state = "FORKED"]

\* The body cannot be opened again, or pipe(), fcntl(), a check of startCgi
\* or fork() fails: what was opened is closed, an error is answered.
StartFails(r) ==
  /\ Complete(r)
  /\ Closes({Spool(r)})
  /\ Becomes(r, "WRITING")
  /\ UNCHANGED script

-----------------------------------------------------------------------------
(* The child. *)

\* Variant: _setCloexec is not called for accepted connections.
CloseOnExecPipes == {"read", "write"}

\* The descriptors the server marks FD_CLOEXEC; files are not.
CloseOnExec == {"client", "read", "write"}

\* CONTENT_LENGTH, from what was spooled.
ContentLength(r) == request[r].size

\* startCgi after fork() == 0: the script and its interpreter are verified,
\* the standard descriptors replaced, execve().
Exec(r) ==
  /\ script[r].state = "FORKED"
  /\ script' = [script EXCEPT ![r] =
       [state |-> "RUNNING",
        in |-> IF Body(r) \in held[r] THEN Body(r) ELSE Null,
        out |-> Write(r), announced |-> ContentLength(r), got |-> 0]]
  /\ held' = [held EXCEPT ![r] =
       {o \in @ \ {Body(r), Write(r)} : o.kind \notin CloseOnExec}]
  /\ UNCHANGED request

Ends(r) ==
  /\ script' = [script EXCEPT ![r] =
       [@ EXCEPT !.state = "ENDED", !.in = Null, !.out = Null]]
  /\ held' = [held EXCEPT ![r] = {}]
  /\ UNCHANGED request

\* exit() in the child: verification or a call failed.
ExecFails(r) == script[r].state = "FORKED" /\ Ends(r)

\* The script takes a unit from its standard input.
ScriptReads(r) ==
  /\ script[r].state = "RUNNING" /\ script[r].in = Body(r)
  /\ request[r].offset < request[r].size
  /\ request' = [request EXCEPT ![r].offset = @ + 1]
  /\ script' = [script EXCEPT ![r].got = @ + 1]
  /\ UNCHANGED held

\* It may close its output and go on.
ScriptClosesOutput(r) ==
  /\ script[r].state = "RUNNING" /\ script[r].out # Null
  /\ script' = [script EXCEPT ![r].out = Null]
  /\ UNCHANGED <<held, request>>

ScriptEnds(r) == script[r].state = "RUNNING" /\ Ends(r)

Dies(r) == script[r].state = "KILLED" /\ Ends(r)

-----------------------------------------------------------------------------
(* The job. *)

\* _closeCgiJob kills a child that has not ended.
Killed(r) ==
  script' = [script EXCEPT ![r].state = IF @ \in {"FORKED", "RUNNING"} THEN "KILLED" ELSE @]

EndsJob(r) == Closes({Read(r)}) /\ Becomes(r, "WRITING") /\ Killed(r)

\* _handleCgiEvent: read() returns 0, once nobody can write any more.  An edge
\* is worth one read, and none above the high-water mark: the end may stay
\* unread until the time limit (CgiStream has what is read when).
ReadEnd(r) == JobRuns(r) /\ Holders(Write(r)) = {} /\ EndsJob(r)

\* _closeTimedOutCgiJobs
JobTimeout(r) == JobRuns(r) /\ EndsJob(r)

\* Variant: the spool file of the connection stays open.
CloseClientOnly(r) ==
  /\ request[r].stage \in Stages \ {"NONE", "CLOSED"}
  /\ Closes({Client(r), Read(r)}) /\ Becomes(r, "CLOSED")
  /\ Killed(r)

\* _closeClient, when the response is written, and for a client that leaves
\* or is idle: the job goes first, then the spool file.
CloseClient(r) ==
  /\ request[r].stage \in Stages \ {"NONE", "CLOSED"}
  /\ Closes({Client(r), Read(r), Spool(r)}) /\ Becomes(r, "CLOSED")
  /\ Killed(r)

\* Nothing is left to do.
Rest ==
  /\ \A r \in Requests : request[r].stage = "CLOSED" /\ script[r].state \in {"NONE", "ENDED"}
  /\ UNCHANGED vars

ServerStep ==
  \E r \in Requests :
    \/ \E n \in 0 .. MaxBody : Arrive(r, n)
    \/ SpoolUnit(r) \/ SpoolFails(r) \/ Start(r) \/ StartFails(r)
    \/ ReadEnd(r) \/ JobTimeout(r) \/ CloseClient(r)

ChildStep(r) ==
  \/ Exec(r) \/ ExecFails(r)
  \/ ScriptReads(r) \/ ScriptClosesOutput(r) \/ ScriptEnds(r) \/ Dies(r)

Next == ServerStep \/ (\E r \in Requests : ChildStep(r)) \/ Rest

Spec == Init /\ [][Next]_vars

-----------------------------------------------------------------------------
(* Properties. *)

TypeOK ==
  /\ held \in [Requests \cup {Server} -> SUBSET Objects]
  /\ request \in [Requests -> Request]
  /\ script \in [Requests -> Script]

\* The end of file the server waits for depends on that script alone: no
\* other process, not the server and no script started meanwhile, holds the
\* write end of its pipe.
EndIsOwn == \A r \in Requests : Holders(Write(r)) \subseteq {r}

\* Between handlers the server holds just what its open connections, the
\* bodies being read and the running jobs account for: no descriptor leaks,
\* whichever call failed and whoever left.
NothingLeaks ==
  \A r \in Requests :
    /\ Client(r) \in held[Server] <=> request[r].stage \notin {"NONE", "CLOSED"}
    /\ Read(r) \in held[Server] <=> JobRuns(r)
    /\ Spool(r) \in held[Server] => request[r].stage \in {"READING", "WRITING"}
    /\ {Body(r), Write(r)} \cap held[Server] = {}

\* A connection is closed for its client as soon as the server has closed
\* it, and a pipe for its script: no running script keeps them open.  (Of
\* files being spooled it may hold the descriptors: they have no FD_CLOEXEC.)
ScriptsHoldNothing ==
  \A r \in Requests : script[r].state = "RUNNING" =>
    \A o \in held[r] : o.kind = "spool" /\ o.of # r

\* A script reads its request's body from the start, as many bytes as
\* CONTENT_LENGTH says, and a script without one reads /dev/null.
BodyIsWhole ==
  \A r \in Requests : script[r].state = "RUNNING" =>
    /\ script[r].announced = request[r].body
    /\ script[r].in = (IF request[r].body = 0 THEN Null ELSE Body(r))
    /\ script[r].got + (request[r].size - request[r].offset) = script[r].announced
=============================================================================
