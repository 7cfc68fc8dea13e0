-------------------------- MODULE CgiProcessProofs --------------------------
(***************************************************************************)
(* The invariants of CgiProcess for any set of requests.  None of them is  *)
(* inductive: that an end of file is a script's own needs that no process  *)
(* that forks later could inherit the write end, that the body is whole    *)
(* needs what the child holds between fork() and execve().                 *)
(***************************************************************************)
EXTENDS CgiProcess, TLAPS

Process == Requests \cup {Server}

\* Only a script's own process ever holds its body and its end of the pipe,
\* and none holds the descriptor its body was spooled with.
HeldOwn ==
  \A r \in Requests :
    /\ \A p \in Process : Body(r) \in held[p] \/ Write(r) \in held[p] => p = r
    /\ Spool(r) \notin held[r]
    /\ script[r].in \in {Null, Body(r)} /\ script[r].out \in {Null, Write(r)}

\* What is known of a request before its script, at the fork, and after.
Progress ==
  \A r \in Requests :
    /\ request[r].stage \in {"NONE", "READING"} => script[r].state = "NONE"
    /\ request[r].stage \in {"NONE", "READING"} => request[r].offset = request[r].size
    /\ request[r].offset <= request[r].size
    /\ script[r].state # "NONE" => request[r].size = request[r].body
    /\ script[r].state = "FORKED" =>
         request[r].offset = 0 /\ (Body(r) \in held[r] <=> request[r].size # 0)

IInv == TypeOK /\ HeldOwn /\ NothingLeaks /\ ScriptsHoldNothing /\ Progress /\ BodyIsWhole

-----------------------------------------------------------------------------
(* Objects are told apart by their kind and their request. *)

\* The kind and the request of each.
LEMMA Distinct ==
  ASSUME NEW r \in Requests
  PROVE  /\ Client(r) \in Objects /\ Client(r).kind = "client" /\ Client(r).of = r
         /\ Spool(r) \in Objects /\ Spool(r).kind = "spool" /\ Spool(r).of = r
         /\ Body(r) \in Objects /\ Body(r).kind = "body" /\ Body(r).of = r
         /\ Read(r) \in Objects /\ Read(r).kind = "read" /\ Read(r).of = r
         /\ Write(r) \in Objects /\ Write(r).kind = "write" /\ Write(r).of = r
BY DEF Client, Spool, Body, Read, Write, Objects, Kinds

\* Every object is one of a request's five.
LEMMA ObjectIs ==
  ASSUME NEW o \in Objects
  PROVE  /\ o.of \in Requests
         /\ o \in {Client(o.of), Spool(o.of), Body(o.of), Read(o.of), Write(o.of)}
BY DEF Client, Spool, Body, Read, Write, Objects, Kinds

\* What the actions make of a request is a request.
LEMMA RequestStage ==
  ASSUME NEW q \in Request, NEW stage \in Stages
  PROVE  [q EXCEPT !.stage = stage] \in Request
BY DEF Request

LEMMA RequestRead ==
  ASSUME NEW q \in Request, NEW n \in 0 .. MaxBody
  PROVE  [q EXCEPT !.offset = n] \in Request
BY DEF Request

\* What the actions make of a script is a script.
LEMMA ScriptTyped ==
  ASSUME NEW q \in Script
  PROVE  /\ [q EXCEPT !.state = "FORKED"] \in Script
         /\ [q EXCEPT !.state = "ENDED", !.in = Null, !.out = Null] \in Script
         /\ [q EXCEPT !.out = Null] \in Script
         /\ [q EXCEPT !.state = IF @ \in {"FORKED", "RUNNING"} THEN "KILLED" ELSE @] \in Script
BY DEF Script

LEMMA ScriptGot ==
  ASSUME NEW q \in Script, NEW n \in 0 .. MaxBody
  PROVE  [q EXCEPT !.got = n] \in Script
BY DEF Script

\* The parts of a typed state, and the arithmetic of its counters.
LEMMA Fields ==
  ASSUME IInv, NEW r \in Requests
  PROVE  /\ request[r] \in Request /\ script[r] \in Script
         /\ held[r] \subseteq Objects /\ held[Server] \subseteq Objects
         /\ request[r].size \in 0 .. MaxBody /\ request[r].offset \in 0 .. MaxBody
         /\ request[r].stage = "READING" /\ request[r].size < request[r].body =>
              request[r].size + 1 \in 0 .. MaxBody /\ request[r].offset + 1 \in 0 .. MaxBody
         /\ script[r].state = "RUNNING" /\ request[r].offset < request[r].size =>
              request[r].offset + 1 \in 0 .. MaxBody /\ script[r].got + 1 \in 0 .. MaxBody
<1> USE MaxBodyKnown DEF IInv
<1>1. /\ request[r] \in Request /\ script[r] \in Script
      /\ held[r] \subseteq Objects /\ held[Server] \subseteq Objects
  BY DEF TypeOK
<1>2. request[r].size \in 0 .. MaxBody /\ request[r].offset \in 0 .. MaxBody
  BY <1>1 DEF Request
<1>3. request[r].stage = "READING" /\ request[r].size < request[r].body =>
        request[r].size + 1 \in 0 .. MaxBody /\ request[r].offset + 1 \in 0 .. MaxBody
  BY <1>1 DEF Request, Progress
<1>4. script[r].state = "RUNNING" /\ request[r].offset < request[r].size =>
        request[r].offset + 1 \in 0 .. MaxBody /\ script[r].got + 1 \in 0 .. MaxBody
  BY <1>1 DEF Request, Script, BodyIsWhole
<1>5. QED
  BY <1>1, <1>2, <1>3, <1>4

-----------------------------------------------------------------------------
(* The initial state and every action keep the invariant. *)

\* Nothing is held, nothing runs.
LEMMA InitKeeps == Init => IInv
<1> SUFFICES ASSUME Init PROVE IInv
  OBVIOUS
<1> USE MaxBodyKnown, ServerIsNoScript
<1>1. TypeOK
  BY DEF Init, TypeOK, Request, Stages, Script, NoScript
<1>2. HeldOwn
  BY DEF Init, HeldOwn, NoScript, Process
<1>3. NothingLeaks
  BY DEF Init, NothingLeaks, JobRuns
<1>4. ScriptsHoldNothing /\ Progress /\ BodyIsWhole
  BY DEF Init, ScriptsHoldNothing, Progress, BodyIsWhole, NoScript
<1>5. QED
  BY <1>1, <1>2, <1>3, <1>4 DEF IInv

\* A connection is accepted.
LEMMA ArriveKeeps ==
  ASSUME IInv, NEW r \in Requests, NEW n \in 0 .. MaxBody, Arrive(r, n)
  PROVE  IInv'
<1> USE MaxBodyKnown, ServerIsNoScript, Distinct DEF IInv, Arrive, Opens, Process
<1>1. TypeOK'
  <2>1. request[r] \in Request /\ script[r] \in Script
    BY Fields
  <2>2. held' \in [Process -> SUBSET Objects]
    BY DEF TypeOK
  <2>3. request' \in [Requests -> Request]
    <3>1. request'[r] \in Request
      <4>1. request'[r] = [stage |-> "READING", body |-> n, size |-> request[r].size,
                           offset |-> request[r].offset]
        <5>1. /\ request' = [request EXCEPT ![r].stage = "READING", ![r].body = n]
              /\ request \in [Requests -> Request]
          BY DEF TypeOK
        <5>2. QED
          BY ONLY <2>1, <5>1, r \in Requests DEF Request
      <4>2. "READING" \in Stages
        BY DEF Stages
      <4>3. QED
        BY ONLY <2>1, <4>1, <4>2, n \in 0 .. MaxBody DEF Request
    <3>2. QED
      BY <3>1 DEF TypeOK
  <2>4. script' \in [Requests -> Script]
    BY DEF TypeOK
  <2>5. QED
    BY <2>2, <2>3, <2>4 DEF TypeOK
<1>2. HeldOwn'
  BY DEF HeldOwn, TypeOK
<1>3. NothingLeaks'
  BY DEF NothingLeaks, TypeOK, JobRuns
<1>4. ScriptsHoldNothing'
  BY DEF ScriptsHoldNothing, TypeOK
<1>5. Progress'
  BY DEF Progress, TypeOK, Request
<1>6. BodyIsWhole'
  BY DEF BodyIsWhole, TypeOK, Progress, Request
<1>7. QED
  BY <1>1, <1>2, <1>3, <1>4, <1>5, <1>6

\* The spool file grows; the request is still read, so no script is.
LEMMA SpoolUnitKeeps ==
  ASSUME IInv, NEW r \in Requests, SpoolUnit(r)
  PROVE  IInv'
<1> USE MaxBodyKnown, ServerIsNoScript, Distinct DEF IInv, SpoolUnit, Opens, Process
<1>1. TypeOK'
  <2>1. request[r] \in Request /\ script[r] \in Script
    BY Fields
  <2>2. held' \in [Process -> SUBSET Objects]
    BY DEF TypeOK
  <2>3. request' \in [Requests -> Request]
    <3>1. request'[r] \in Request
      <4>1. /\ request' = [request EXCEPT ![r].size = request[r].size + 1,
                                         ![r].offset = request[r].offset + 1]
            /\ request \in [Requests -> Request]
        BY DEF TypeOK
      <4>2. request'[r] = [stage |-> request[r].stage, body |-> request[r].body,
                           size |-> request[r].size + 1, offset |-> request[r].offset + 1]
        BY ONLY <2>1, <4>1, r \in Requests DEF Request
      <4>3. request[r].size + 1 \in 0 .. MaxBody /\ request[r].offset + 1 \in 0 .. MaxBody
        BY Fields
      <4>4. QED
        BY ONLY <2>1, <4>2, <4>3 DEF Request
    <3>2. QED
      BY <3>1 DEF TypeOK
  <2>4. script' \in [Requests -> Script]
    BY DEF TypeOK
  <2>5. QED
    BY <2>2, <2>3, <2>4 DEF TypeOK
<1>2. HeldOwn'
  BY DEF HeldOwn, TypeOK
<1>3. NothingLeaks'
  BY DEF NothingLeaks, TypeOK, JobRuns
<1>4. ScriptsHoldNothing'
  BY DEF ScriptsHoldNothing, TypeOK
<1>5. Progress'
  <2>1. /\ request'[r].size = request[r].size + 1
        /\ request'[r].offset = request[r].offset + 1
        /\ request'[r].stage = "READING"
    <3>1. request[r] \in Request /\ request[r].stage = "READING"
      BY Fields
    <3>2. request'[r] = [stage |-> request[r].stage, body |-> request[r].body,
                         size |-> request[r].size + 1, offset |-> request[r].offset + 1]
      BY <3>1 DEF TypeOK, Request
    <3>3. QED
      BY ONLY <3>1, <3>2
  <2>2. \A q \in Requests \ {r} : request'[q] = request[q] /\ held'[q] = held[q]
    BY DEF TypeOK
  <2>3. /\ request[r].size = request[r].offset /\ script'[r].state = "NONE"
        /\ request[r].size \in Nat
    BY Fields DEF Progress
  <2>4. \A q \in Requests \ {r} : script'[q] = script[q]
    OBVIOUS
  <2> HIDE DEF SpoolUnit, Opens, Process
  <2> SUFFICES ASSUME NEW q \in Requests PROVE Progress!(q)'
    BY DEF Progress
  <2>5. CASE q = r
    BY <2>1, <2>3, <2>5
  <2>6. CASE q # r
    BY <2>2, <2>4, <2>6 DEF Progress
  <2>7. QED
    BY <2>5, <2>6
<1>6. BodyIsWhole'
  BY DEF BodyIsWhole, TypeOK, Progress, Request
<1>7. QED
  BY <1>1, <1>2, <1>3, <1>4, <1>5, <1>6

\* The request is answered; its file may stay open until then.
LEMMA SpoolFailsKeeps ==
  ASSUME IInv, NEW r \in Requests, SpoolFails(r)
  PROVE  IInv'
<1> USE MaxBodyKnown, ServerIsNoScript, Distinct DEF IInv, SpoolFails, Opens, Becomes, Process
<1>1. TypeOK'
  <2>1. request[r] \in Request /\ script[r] \in Script
    BY Fields
  <2>2. held' \in [Process -> SUBSET Objects]
    BY DEF TypeOK
  <2>3. request' \in [Requests -> Request]
    <3>1. request'[r] \in Request
      <4>1. request'[r] = [request[r] EXCEPT !.stage = "WRITING"]
        BY DEF TypeOK
      <4>2. "WRITING" \in Stages
        BY DEF Stages
      <4>3. QED
        BY ONLY <2>1, <4>1, <4>2, RequestStage
    <3>2. QED
      BY <3>1 DEF TypeOK
  <2>4. script' \in [Requests -> Script]
    BY DEF TypeOK
  <2>5. QED
    BY <2>2, <2>3, <2>4 DEF TypeOK
<1>2. HeldOwn'
  BY DEF HeldOwn, TypeOK
<1>3. NothingLeaks'
  <2>1. held'[Server] = held[Server] \/ held'[Server] = held[Server] \cup {Spool(r)}
    BY DEF TypeOK
  <2>2. request'[r].stage = "WRITING"
    BY Fields DEF TypeOK, Request
  <2>3. \A q \in Requests \ {r} : request'[q] = request[q]
    BY DEF TypeOK
  <2>4. QED
    BY <2>1, <2>2, <2>3 DEF NothingLeaks, JobRuns
<1>4. ScriptsHoldNothing'
  BY DEF ScriptsHoldNothing, TypeOK
<1>5. Progress'
  BY DEF Progress, TypeOK, Request
<1>6. BodyIsWhole'
  BY DEF BodyIsWhole, TypeOK, Progress, Request
<1>7. QED
  BY <1>1, <1>2, <1>3, <1>4, <1>5, <1>6

\* The child inherits what the server holds: by NothingLeaks no write end
\* and no body of another request, and no spool file of its own.
LEMMA StartKeeps ==
  ASSUME IInv, NEW r \in Requests, Start(r)
  PROVE  IInv'
<1> USE MaxBodyKnown, ServerIsNoScript, Distinct DEF IInv, Start, Complete, Finalized, Process
<1>1. TypeOK'
  <2>0. 0 \in 0 .. MaxBody
    BY MaxBodyKnown
  <2>1. request[r] \in Request /\ script[r] \in Script
    BY Fields
  <2>2. held' \in [Process -> SUBSET Objects]
    BY DEF TypeOK, BodyOf
  <2>3. request' \in [Requests -> Request]
    <3>1. request'[r] \in Request
      <4>1. request'[r] = [stage |-> "CGI", body |-> request[r].body, size |-> request[r].size,
                           offset |-> 0]
        BY <2>1 DEF Request, TypeOK, Finalized
      <4>2. "CGI" \in Stages
        BY DEF Stages
      <4>3. QED
        BY ONLY <2>1, <4>1, <4>2, <2>0 DEF Request
    <3>2. QED
      BY <3>1 DEF TypeOK
  <2>4. script' \in [Requests -> Script]
    <3>1. script'[r] \in Script
      <4>1. script'[r] = [script[r] EXCEPT !.state = "FORKED"]
        BY DEF TypeOK
      <4>2. QED
        BY ONLY <2>1, <4>1, ScriptTyped
    <3>2. QED
      BY <3>1 DEF TypeOK
  <2>5. QED
    BY <2>2, <2>3, <2>4 DEF TypeOK
<1>2. HeldOwn'
  BY DEF HeldOwn, TypeOK, BodyOf, NothingLeaks
<1>3. NothingLeaks'
  BY DEF NothingLeaks, TypeOK, JobRuns
<1>4. ScriptsHoldNothing'
  BY DEF ScriptsHoldNothing, TypeOK
<1>5. Progress'
  BY DEF Progress, TypeOK, Request, BodyOf, NothingLeaks, Script
<1>6. BodyIsWhole'
  BY DEF BodyIsWhole, TypeOK, Progress, Request
<1>7. QED
  BY <1>1, <1>2, <1>3, <1>4, <1>5, <1>6

\* As if the script had not been asked for.
LEMMA StartFailsKeeps ==
  ASSUME IInv, NEW r \in Requests, StartFails(r)
  PROVE  IInv'
<1> USE MaxBodyKnown, ServerIsNoScript, Distinct DEF IInv, StartFails, Complete, Closes, Becomes, Process
<1>1. TypeOK'
  <2>1. request[r] \in Request /\ script[r] \in Script
    BY Fields
  <2>2. held' \in [Process -> SUBSET Objects]
    BY DEF TypeOK
  <2>3. request' \in [Requests -> Request]
    <3>1. request'[r] \in Request
      <4>1. request'[r] = [request[r] EXCEPT !.stage = "WRITING"]
        BY DEF TypeOK
      <4>2. "WRITING" \in Stages
        BY DEF Stages
      <4>3. QED
        BY ONLY <2>1, <4>1, <4>2, RequestStage
    <3>2. QED
      BY <3>1 DEF TypeOK
  <2>4. script' \in [Requests -> Script]
    BY DEF TypeOK
  <2>5. QED
    BY <2>2, <2>3, <2>4 DEF TypeOK
<1>2. HeldOwn'
  BY DEF HeldOwn, TypeOK
<1>3. NothingLeaks'
  BY DEF NothingLeaks, TypeOK, JobRuns
<1>4. ScriptsHoldNothing'
  BY DEF ScriptsHoldNothing, TypeOK
<1>5. Progress'
  BY DEF Progress, TypeOK, Request
<1>6. BodyIsWhole'
  BY DEF BodyIsWhole, TypeOK, Progress, Request
<1>7. QED
  BY <1>1, <1>2, <1>3, <1>4, <1>5, <1>6

\* What has FD_CLOEXEC goes: of the rest only spool files are left.
LEMMA ExecKeeps ==
  ASSUME IInv, NEW r \in Requests, Exec(r)
  PROVE  IInv'
<1> USE MaxBodyKnown, ServerIsNoScript, Distinct DEF IInv, Exec, ContentLength, CloseOnExec, Process
<1>1. TypeOK'
  <2>1. request[r] \in Request /\ script[r] \in Script
    BY Fields
  <2>2. held' \in [Process -> SUBSET Objects]
    BY DEF TypeOK
  <2>3. request' \in [Requests -> Request]
    BY DEF TypeOK
  <2>4. script' \in [Requests -> Script]
    <3>1. script'[r] \in Script
      BY <2>1, Fields DEF TypeOK, Script
    <3>2. QED
      BY <3>1 DEF TypeOK
  <2>5. QED
    BY <2>2, <2>3, <2>4 DEF TypeOK
<1>2. HeldOwn'
  BY DEF HeldOwn, TypeOK
<1>3. NothingLeaks'
  BY DEF NothingLeaks, TypeOK, JobRuns
<1>4. ScriptsHoldNothing'
  <2>1. ASSUME NEW o \in held'[r]
        PROVE  o.kind = "spool" /\ o.of # r
    <3>1. o \in held[r] /\ o \in Objects /\ o.kind \notin {"client", "read", "write"} /\ o # Body(r)
      BY Fields DEF TypeOK
    <3>2. o \in {Spool(o.of), Body(o.of)} /\ o.of \in Requests
      BY <3>1, ObjectIs
    <3>3. QED
      BY <3>1, <3>2 DEF HeldOwn
  <2>2. \A q \in Requests \ {r} : held'[q] = held[q] /\ script'[q] = script[q]
    BY DEF TypeOK
  <2>3. QED
    BY <2>1, <2>2 DEF ScriptsHoldNothing
<1>5. Progress'
  BY DEF Progress, TypeOK, Request, Script
<1>6. BodyIsWhole'
  BY DEF BodyIsWhole, TypeOK, Progress, Request
<1>7. QED
  BY <1>1, <1>2, <1>3, <1>4, <1>5, <1>6

\* Whatever ends a script, it then holds nothing.
LEMMA EndsKeeps ==
  ASSUME IInv, NEW r \in Requests, script[r].state # "NONE", Ends(r)
  PROVE  IInv'
<1> USE MaxBodyKnown, ServerIsNoScript, Distinct DEF IInv, Ends, Process
<1>1. TypeOK'
  <2>1. request[r] \in Request /\ script[r] \in Script
    BY Fields
  <2>2. held' \in [Process -> SUBSET Objects]
    BY DEF TypeOK
  <2>3. request' \in [Requests -> Request]
    BY DEF TypeOK
  <2>4. script' \in [Requests -> Script]
    <3>1. script'[r] \in Script
      <4>1. script'[r] = [script[r] EXCEPT !.state = "ENDED", !.in = Null, !.out = Null]
        BY DEF TypeOK
      <4>2. QED
        BY ONLY <2>1, <4>1, ScriptTyped
    <3>2. QED
      BY <3>1 DEF TypeOK
  <2>5. QED
    BY <2>2, <2>3, <2>4 DEF TypeOK
<1>2. HeldOwn'
  BY DEF HeldOwn, TypeOK
<1>3. NothingLeaks'
  BY DEF NothingLeaks, TypeOK, JobRuns
<1>4. ScriptsHoldNothing'
  BY DEF ScriptsHoldNothing, TypeOK
<1>5. Progress'
  BY DEF Progress, TypeOK, Request
<1>6. BodyIsWhole'
  BY DEF BodyIsWhole, TypeOK, Progress, Request
<1>7. QED
  BY <1>1, <1>2, <1>3, <1>4, <1>5, <1>6

\* The offset and what the script has got grow together.
LEMMA ScriptReadsKeeps ==
  ASSUME IInv, NEW r \in Requests, ScriptReads(r)
  PROVE  IInv'
<1> USE MaxBodyKnown, ServerIsNoScript, Distinct DEF IInv, ScriptReads, Process
<1>1. TypeOK'
  <2>1. request[r] \in Request /\ script[r] \in Script
    BY Fields
  <2>2. held' \in [Process -> SUBSET Objects]
    BY DEF TypeOK
  <2>3. request' \in [Requests -> Request]
    <3>1. request'[r] \in Request
      <4>1. request'[r] = [request[r] EXCEPT !.offset = request[r].offset + 1]
        BY DEF TypeOK
      <4>2. request[r].offset + 1 \in 0 .. MaxBody /\ request[r].stage \in Stages
        BY <2>1, Fields DEF Request
      <4>3. QED
        BY ONLY <2>1, <4>1, <4>2, RequestRead
    <3>2. QED
      BY <3>1 DEF TypeOK
  <2>4. script' \in [Requests -> Script]
    <3>1. script'[r] \in Script
      <4>1. script'[r] = [script[r] EXCEPT !.got = script[r].got + 1]
        BY DEF TypeOK
      <4>2. script[r].got + 1 \in 0 .. MaxBody
        BY Fields
      <4>3. QED
        BY ONLY <2>1, <4>1, <4>2, ScriptGot
    <3>2. QED
      BY <3>1 DEF TypeOK
  <2>5. QED
    BY <2>2, <2>3, <2>4 DEF TypeOK
<1>2. HeldOwn'
  BY DEF HeldOwn, TypeOK
<1>3. NothingLeaks'
  BY DEF NothingLeaks, TypeOK, JobRuns
<1>4. ScriptsHoldNothing'
  BY DEF ScriptsHoldNothing, TypeOK
<1>5. Progress'
  BY DEF Progress, TypeOK, Request
<1>6. BodyIsWhole'
  <2>1. /\ request'[r].offset = request[r].offset + 1 /\ script'[r].got = script[r].got + 1
        /\ request'[r].size = request[r].size /\ request'[r].body = request[r].body
        /\ script'[r].announced = script[r].announced /\ script'[r].in = script[r].in
    BY Fields DEF TypeOK, Request, Script
  <2>2. \A q \in Requests \ {r} : request'[q] = request[q] /\ script'[q] = script[q]
    BY DEF TypeOK
  <2>3. script[r].got \in Nat /\ script[r].announced \in Nat
    BY Fields DEF Script
  <2>4. script'[r].got + (request'[r].size - request'[r].offset) = script'[r].announced
    BY <2>1, <2>3, Fields DEF BodyIsWhole
  <2>5. QED
    BY <2>1, <2>2, <2>4 DEF BodyIsWhole
<1>7. QED
  BY <1>1, <1>2, <1>3, <1>4, <1>5, <1>6

\* Its output refers to nothing any more.
LEMMA ScriptClosesOutputKeeps ==
  ASSUME IInv, NEW r \in Requests, ScriptClosesOutput(r)
  PROVE  IInv'
<1> USE MaxBodyKnown, ServerIsNoScript, Distinct DEF IInv, ScriptClosesOutput, Process
<1>1. TypeOK'
  <2>1. request[r] \in Request /\ script[r] \in Script
    BY Fields
  <2>2. held' \in [Process -> SUBSET Objects]
    BY DEF TypeOK
  <2>3. request' \in [Requests -> Request]
    BY DEF TypeOK
  <2>4. script' \in [Requests -> Script]
    <3>1. script'[r] \in Script
      <4>1. script'[r] = [script[r] EXCEPT !.out = Null]
        BY DEF TypeOK
      <4>2. QED
        BY ONLY <2>1, <4>1, ScriptTyped
    <3>2. QED
      BY <3>1 DEF TypeOK
  <2>5. QED
    BY <2>2, <2>3, <2>4 DEF TypeOK
<1>2. HeldOwn'
  BY DEF HeldOwn, TypeOK
<1>3. NothingLeaks'
  BY DEF NothingLeaks, TypeOK, JobRuns
<1>4. ScriptsHoldNothing'
  BY DEF ScriptsHoldNothing, TypeOK
<1>5. Progress'
  BY DEF Progress, TypeOK, Request
<1>6. BodyIsWhole'
  BY DEF BodyIsWhole, TypeOK, Progress, Request
<1>7. QED
  BY <1>1, <1>2, <1>3, <1>4, <1>5, <1>6

\* The job's end, by end of file or time limit: the script may go on.
LEMMA EndsJobKeeps ==
  ASSUME IInv, NEW r \in Requests, JobRuns(r), EndsJob(r)
  PROVE  IInv'
<1> USE MaxBodyKnown, ServerIsNoScript, Distinct DEF IInv, EndsJob, Closes, Becomes, Killed, Process
<1>1. TypeOK'
  <2>1. request[r] \in Request /\ script[r] \in Script
    BY Fields
  <2>2. held' \in [Process -> SUBSET Objects]
    BY DEF TypeOK
  <2>3. request' \in [Requests -> Request]
    <3>1. request'[r] \in Request
      <4>1. request'[r] = [request[r] EXCEPT !.stage = "WRITING"]
        BY DEF TypeOK
      <4>2. "WRITING" \in Stages
        BY DEF Stages
      <4>3. QED
        BY ONLY <2>1, <4>1, <4>2, RequestStage
    <3>2. QED
      BY <3>1 DEF TypeOK
  <2>4. script' \in [Requests -> Script]
    <3>1. script'[r] \in Script
      <4>1. script'[r] = [script[r] EXCEPT !.state = IF @ \in {"FORKED", "RUNNING"} THEN "KILLED" ELSE @]
        BY DEF TypeOK
      <4>2. QED
        BY ONLY <2>1, <4>1, ScriptTyped
    <3>2. QED
      BY <3>1 DEF TypeOK
  <2>5. QED
    BY <2>2, <2>3, <2>4 DEF TypeOK
<1>2. HeldOwn'
  BY DEF HeldOwn, TypeOK
<1>3. NothingLeaks'
  BY DEF NothingLeaks, TypeOK, JobRuns
<1>4. ScriptsHoldNothing'
  BY DEF ScriptsHoldNothing, TypeOK
<1>5. Progress'
  BY DEF Progress, TypeOK, Request
<1>6. BodyIsWhole'
  BY DEF BodyIsWhole, TypeOK, Progress, Request
<1>7. QED
  BY <1>1, <1>2, <1>3, <1>4, <1>5, <1>6

\* The connection goes with its job and its file.
LEMMA CloseClientKeeps ==
  ASSUME IInv, NEW r \in Requests, CloseClient(r)
  PROVE  IInv'
<1> USE MaxBodyKnown, ServerIsNoScript, Distinct DEF IInv, CloseClient, Closes, Becomes, Killed, Process
<1>1. TypeOK'
  <2>1. request[r] \in Request /\ script[r] \in Script
    BY Fields
  <2>2. held' \in [Process -> SUBSET Objects]
    BY DEF TypeOK
  <2>3. request' \in [Requests -> Request]
    <3>1. request'[r] \in Request
      <4>1. request'[r] = [request[r] EXCEPT !.stage = "CLOSED"]
        BY DEF TypeOK
      <4>2. "CLOSED" \in Stages
        BY DEF Stages
      <4>3. QED
        BY ONLY <2>1, <4>1, <4>2, RequestStage
    <3>2. QED
      BY <3>1 DEF TypeOK
  <2>4. script' \in [Requests -> Script]
    <3>1. script'[r] \in Script
      <4>1. script'[r] = [script[r] EXCEPT !.state = IF @ \in {"FORKED", "RUNNING"} THEN "KILLED" ELSE @]
        BY DEF TypeOK
      <4>2. QED
        BY ONLY <2>1, <4>1, ScriptTyped
    <3>2. QED
      BY <3>1 DEF TypeOK
  <2>5. QED
    BY <2>2, <2>3, <2>4 DEF TypeOK
<1>2. HeldOwn'
  BY DEF HeldOwn, TypeOK
<1>3. NothingLeaks'
  BY DEF NothingLeaks, TypeOK, JobRuns
<1>4. ScriptsHoldNothing'
  BY DEF ScriptsHoldNothing, TypeOK
<1>5. Progress'
  BY DEF Progress, TypeOK, Request
<1>6. BodyIsWhole'
  BY DEF BodyIsWhole, TypeOK, Progress, Request
<1>7. QED
  BY <1>1, <1>2, <1>3, <1>4, <1>5, <1>6

\* Every step keeps the invariant.
LEMMA StepKeeps == IInv /\ [Next]_vars => IInv'
<1> SUFFICES ASSUME IInv, [Next]_vars PROVE IInv'
  OBVIOUS
<1>1. ASSUME NEW r \in Requests, NEW n \in 0 .. MaxBody, Arrive(r, n) PROVE IInv'
  BY <1>1, ArriveKeeps
<1>2. ASSUME NEW r \in Requests,
             SpoolUnit(r) \/ SpoolFails(r) \/ Start(r) \/ StartFails(r) \/ CloseClient(r)
      PROVE  IInv'
  BY <1>2, SpoolUnitKeeps, SpoolFailsKeeps, StartKeeps, StartFailsKeeps, CloseClientKeeps
<1>3. ASSUME NEW r \in Requests, ReadEnd(r) \/ JobTimeout(r) PROVE IInv'
  BY <1>3, EndsJobKeeps DEF ReadEnd, JobTimeout
<1>4. ASSUME NEW r \in Requests, ChildStep(r) PROVE IInv'
  <2>1. CASE Exec(r) \/ ScriptReads(r) \/ ScriptClosesOutput(r)
    BY <2>1, ExecKeeps, ScriptReadsKeeps, ScriptClosesOutputKeeps
  <2>2. CASE ExecFails(r) \/ ScriptEnds(r) \/ Dies(r)
    BY <2>2, EndsKeeps DEF ExecFails, ScriptEnds, Dies
  <2>3. QED
    BY <1>4, <2>1, <2>2 DEF ChildStep
<1>5. ASSUME UNCHANGED vars PROVE IInv'
  BY <1>5 DEF vars, IInv, TypeOK, HeldOwn, NothingLeaks, ScriptsHoldNothing, Progress,
              BodyIsWhole, JobRuns
<1>6. QED
  BY <1>1, <1>2, <1>3, <1>4, <1>5 DEF Next, ServerStep, Rest

-----------------------------------------------------------------------------
(* The properties. *)

\* All parts of the invariant hold in every reachable state.
THEOREM DescriptorsAgree == Spec => []IInv
BY InitKeeps, StepKeeps, PTL DEF Spec

\* The variables have their types: descriptors, requests, scripts.
THEOREM CgiProcessTyped == Spec => []TypeOK
<1>1. IInv => TypeOK
  BY DEF IInv
<1>2. QED
  BY <1>1, DescriptorsAgree, PTL

\* Only a script itself holds the end of the pipe whose closing its job
\* waits for, however many others are forked meanwhile.
THEOREM EndsAreOwn == Spec => []EndIsOwn
<1>1. IInv => EndIsOwn
  <2> SUFFICES ASSUME IInv, NEW r \in Requests, NEW p \in Holders(Write(r))
               PROVE  p = r
    BY DEF EndIsOwn
  <2>1. p \in Process
    BY DEF Holders, Process
  <2>2. CASE Write(r) \in held[p]
    BY <2>1, <2>2 DEF IInv, HeldOwn
  <2>3. CASE p \in Requests /\ Write(r) \in {script[p].in, script[p].out}
    BY <2>3, Distinct, NullIsOther DEF IInv, HeldOwn
  <2>4. QED
    BY <2>2, <2>3, ServerIsNoScript DEF Holders, Process
<1>2. QED
  BY <1>1, DescriptorsAgree, PTL

\* The server holds descriptors for what is open and nothing else.
THEOREM ServerLeaksNothing == Spec => []NothingLeaks
<1>1. IInv => NothingLeaks
  BY DEF IInv
<1>2. QED
  BY <1>1, DescriptorsAgree, PTL

\* No running script keeps a connection or a pipe of the server open.
THEOREM ScriptsKeepNothing == Spec => []ScriptsHoldNothing
<1>1. IInv => ScriptsHoldNothing
  BY DEF IInv
<1>2. QED
  BY <1>1, DescriptorsAgree, PTL

\* A script finds as much of the body as CONTENT_LENGTH announces.
THEOREM BodiesAreWhole == Spec => []BodyIsWhole
<1>1. IInv => BodyIsWhole
  BY DEF IInv
<1>2. QED
  BY <1>1, DescriptorsAgree, PTL
=============================================================================
