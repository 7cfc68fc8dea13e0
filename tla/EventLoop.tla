----------------------------- MODULE EventLoop -----------------------------
(***************************************************************************)
(* The core of the server: one thread, one epoll instance, and the tables  *)
(* that tie the kernel's objects to the program's.                         *)
(*                                                                         *)
(*   - the connection map of ConnectionManager and the map of CGI jobs,    *)
(*     both keyed by file descriptor, descriptors being reused at once;    *)
(*   - the EventRef objects an epoll event points to, the map that finds   *)
(*     the one of a descriptor, the list of stale ones, and their memory;  *)
(*   - the CGI children, and the list of killed ones that await reaping.   *)
(*                                                                         *)
(* Every function of the program that changes these tables is an operator  *)
(* from a server state to the next, and the operators call each other the  *)
(* way the functions do.  A handler runs to its end before the next event  *)
(* is looked at, so one handler is one step; clients, children, the clock  *)
(* and the signal handler act between handlers.  What a request contains   *)
(* and how much the kernel accepts or delivers are nondeterministic.       *)
(***************************************************************************)
EXTENDS Naturals, FiniteSets

CONSTANTS
  Fd,         \* descriptor numbers for clients and CGI result pipes
  Listener,   \* the descriptor of the listening socket
  Ref,        \* addresses at which an EventRef may be allocated
  Pid,        \* process ids of CGI children
  None,       \* no descriptor, no EventRef, no process
  Faults      \* which rare events may happen: see FaultKind

ASSUME ConstantsDistinct ==
  /\ Listener \notin Fd
  /\ None \notin Fd \cup {Listener} \cup Ref \cup Pid

\* signal: SIGINT or SIGTERM.  add: EPOLL_CTL_ADD fails (ENOSPC, ENOMEM).
FaultKind == {"signal", "add"}

ASSUME FaultsKnown == Faults \subseteq FaultKind

VARIABLES
  srv,    \* the tables: a record, see Server below
  phase,  \* where run() is in its loop
  batch,  \* the events epoll_wait returned that are not dispatched yet
  todo    \* the descriptors the current timeout sweep still has to visit

vars == <<srv, phase, batch, todo>>

-----------------------------------------------------------------------------
(* The shape of the state. *)

AllFd == Fd \cup {Listener}

\* FREED is memory that holds no EventRef; the others are EventRef::kind.
EventKind == {"FREED", "INVALID", "SERVER", "CLIENT", "CGI"}

\* FREE is a descriptor with no entry in the map of connections.
ConnState == {"FREE", "READING", "WRITING", "CGI_RUNNING"}

\* pending: the write buffer is not empty.  idle: more than the configured
\* timeout has passed since the last transfer.
Connection == [state : ConnState, pending : BOOLEAN,
               halfClosed : BOOLEAN, idle : BOOLEAN]
NoConnection == [state |-> "FREE", pending |-> FALSE,
                 halfClosed |-> FALSE, idle |-> FALSE]
NewConnection == [NoConnection EXCEPT !.state = "READING"]

\* A CGI job is keyed by the read end of its pipe; client = None: no job.
CgiJob == [client : Fd \cup {None}, pid : Pid \cup {None},
           headersSent : BOOLEAN, expired : BOOLEAN]
NoJob == [client |-> None, pid |-> None,
          headersSent |-> FALSE, expired |-> FALSE]

EventFlag == {"IN", "OUT", "RDHUP", "HUP"}
Interest == [ref : Ref \cup {None}, events : SUBSET EventFlag]
NoInterest == [ref |-> None, events |-> {}]

Server ==
  [connections : [Fd -> Connection],            \* ConnectionManager's map
   cgiJobs     : [Fd -> CgiJob],                \* _cgi_jobs
   refs        : [Ref -> [kind : EventKind, fd : AllFd]],
   eventRefs   : [AllFd -> Ref \cup {None}],    \* _event_refs
   staleRefs   : SUBSET Ref,                    \* _stale_refs
   interest    : [AllFd -> Interest],           \* the kernel's epoll set
   child       : [Pid -> {"NONE", "RUNNING", "ZOMBIE"}],
   pendingReap : SUBSET Pid,                    \* _pending_reap
   overdue     : SUBSET Pid,                    \* killed more than REAP_STALE_SECONDS ago
   stopped     : BOOLEAN]

Phase == {"wait", "dispatch", "accept", "clients", "jobs", "unwind", "exit"}

IsConnection(s, fd) == s.connections[fd].state # "FREE"
IsJob(s, j) == s.cgiJobs[j].client # None
JobsOf(s, fd) == {j \in Fd : s.cgiJobs[j].client = fd}

\* The kernel hands out descriptors, memory and pids that are not in use.
FreeFd(s) == {f \in Fd : ~IsConnection(s, f) /\ ~IsJob(s, f)}
FreeRef(s) == {r \in Ref : s.refs[r].kind = "FREED"}
FreePid(s) == {p \in Pid : s.child[p] = "NONE"}

-----------------------------------------------------------------------------
(* Registration with epoll. *)

\* The map entry is written before EPOLL_CTL_ADD, which may fail (added).
RegisterEventFd(s, fd, ref, kind, events, added) ==
  [s EXCEPT !.refs[ref] = [kind |-> kind, fd |-> fd],
            !.eventRefs[fd] = ref,
            !.interest[fd] = IF added THEN [ref |-> ref, events |-> events] ELSE @]

\* Variants of the next definition, told from it by the properties: the
\* reference is deleted at once, keeps its kind, or stays in the map.
UnregisterAndDelete(s, fds) ==
  LET gone == {s.eventRefs[f] : f \in fds} \ {None}
  IN  [s EXCEPT !.interest  = [f \in AllFd |-> IF f \in fds THEN NoInterest ELSE @[f]],
                !.refs      = [r \in Ref |-> IF r \in gone
                                               THEN [kind |-> "FREED", fd |-> Listener]
                                               ELSE @[r]],
                !.eventRefs = [f \in AllFd |-> IF f \in fds THEN None ELSE @[f]]]

UnregisterKeepingKind(s, fds) ==
  [s EXCEPT !.interest  = [f \in AllFd |-> IF f \in fds THEN NoInterest ELSE @[f]],
            !.staleRefs = @ \cup ({s.eventRefs[f] : f \in fds} \ {None}),
            !.eventRefs = [f \in AllFd |-> IF f \in fds THEN None ELSE @[f]]]

UnregisterWithoutErase(s, fds) ==
  LET gone == {s.eventRefs[f] : f \in fds} \ {None}
  IN  [s EXCEPT !.interest  = [f \in AllFd |-> IF f \in fds THEN NoInterest ELSE @[f]],
                !.refs      = [r \in Ref |-> IF r \in gone
                                               THEN [@[r] EXCEPT !.kind = "INVALID"]
                                               ELSE @[r]],
                !.staleRefs = @ \cup gone]

\* The references of a set of descriptors leave the map for the stale list.
UnregisterEventFds(s, fds) ==
  LET gone == {s.eventRefs[f] : f \in fds} \ {None}
  IN  [s EXCEPT !.interest  = [f \in AllFd |-> IF f \in fds THEN NoInterest ELSE @[f]],
                !.refs      = [r \in Ref |-> IF r \in gone
                                               THEN [@[r] EXCEPT !.kind = "INVALID"]
                                               ELSE @[r]],
                !.staleRefs = @ \cup gone,
                !.eventRefs = [f \in AllFd |-> IF f \in fds THEN None ELSE @[f]]]

UnregisterEventFd(s, fd) == UnregisterEventFds(s, {fd})

\* ConnectionManager::closeConnection.
CloseConnection(s, fd) ==
  IF fd \in Fd /\ IsConnection(s, fd)
    THEN [s EXCEPT !.connections[fd] = NoConnection, !.interest[fd] = NoInterest]
    ELSE s

\* EPOLL_CTL_MOD of a descriptor epoll does not hold fails, and the code
\* then closes the connection of that number.
ModifyEventFd(s, fd, events) ==
  LET ref == s.eventRefs[fd]
  IN  IF ref = None THEN s
      ELSE IF s.refs[ref].kind = "INVALID" THEN s
      ELSE IF s.interest[fd] = NoInterest THEN CloseConnection(s, fd)
      ELSE [s EXCEPT !.interest[fd] = [ref |-> ref, events |-> events]]

\* Connection::buildEpollEvent: the state decides the mask.
EventsFor(state) ==
  CASE state = "READING" -> {"IN", "RDHUP"}
    [] state = "WRITING" -> {"OUT", "RDHUP"}
    [] OTHER             -> {"RDHUP"}

RearmClient(s, fd) ==
  IF IsConnection(s, fd)
    THEN ModifyEventFd(s, fd, EventsFor(s.connections[fd].state))
    ELSE s

\* Variant: the mask is not brought up to date.
EnterWithoutRearm(s, fd, state) == [s EXCEPT !.connections[fd].state = state]

\* setWriting() or setReading()'s state, then _rearmClient.
Enter(s, fd, state) == RearmClient([s EXCEPT !.connections[fd].state = state], fd)

\* Bytes are appended to the write buffer, setWriting(), _rearmClient.
Respond(s, fd) == Enter([s EXCEPT !.connections[fd].pending = TRUE], fd, "WRITING")

-----------------------------------------------------------------------------
(* CGI jobs. *)

\* Variant: the killed child is not remembered.
CloseJobsForgettingChildren(s, jobs) ==
  UnregisterEventFds(
    [s EXCEPT !.cgiJobs = [j \in Fd |-> IF j \in jobs THEN NoJob ELSE @[j]]], jobs)

\* Each job's child is reaped if it has exited, else killed and remembered.
CloseCgiJobs(s, jobs) ==
  LET pids    == {s.cgiJobs[j].pid : j \in jobs} \ {None}
      running == {p \in pids : s.child[p] = "RUNNING"}
  IN  UnregisterEventFds(
        [s EXCEPT !.child = [p \in Pid |-> IF p \in pids \ running THEN "NONE" ELSE @[p]],
                  !.pendingReap = @ \cup running,
                  !.cgiJobs = [j \in Fd |-> IF j \in jobs THEN NoJob ELSE @[j]]],
        jobs)

CloseCgiJob(s, j) == IF IsJob(s, j) THEN CloseCgiJobs(s, {j}) ELSE s

CloseCgiJobsForClient(s, fd) == CloseCgiJobs(s, JobsOf(s, fd))

\* Variant: the jobs of the client survive it.
CloseClientOnly(s, fd) == CloseConnection(UnregisterEventFd(s, fd), fd)

CloseClient(s, fd) ==
  CloseConnection(UnregisterEventFd(CloseCgiJobsForClient(s, fd), fd), fd)

\* Variant: setWriting() is forgotten.
FailJobWithoutWriting(s, j) ==
  IF IsJob(s, j)
    THEN CloseCgiJob([s EXCEPT !.connections[s.cgiJobs[j].client].pending = TRUE], j)
    ELSE s

\* An error response, or after the headers the final chunk, then the end.
FailCgiJob(s, j) ==
  IF IsJob(s, j)
    THEN LET fd == s.cgiJobs[j].client
         IN  CloseCgiJob(IF IsConnection(s, fd) THEN Respond(s, fd) ELSE s, j)
    ELSE s

\* End of the child's output.  No final chunk is written for a HEAD request.
FinishCgiJob(s, j, head) ==
  IF ~IsJob(s, j) THEN s
  ELSE LET fd == s.cgiJobs[j].client
       IN  IF ~s.cgiJobs[j].headersSent THEN FailCgiJob(s, j)
           ELSE LET ended == IF IsConnection(s, fd) /\ ~head
                               THEN [s EXCEPT !.connections[fd].pending = TRUE]
                               ELSE s
                    closed == CloseCgiJob(ended, j)
                IN  IF IsConnection(closed, fd) THEN Enter(closed, fd, "WRITING")
                                                ELSE closed

\* What one read of the pipe leads to: nothing to relay (no data, headers
\* still incomplete, the high-water mark), output relayed, end of file, a
\* failure (header block too long, too many reads, BodyLimitException).
CgiOutcome == {"nothing", "output", "eof", "eofHead", "fail"}

HandleCgiEvent(s, j, o) ==
  IF s.stopped \/ ~IsJob(s, j) THEN s
  ELSE LET fd == s.cgiJobs[j].client
       IN  IF ~IsConnection(s, fd)
             THEN IF o = "fail" THEN FailCgiJob(s, j) ELSE CloseCgiJob(s, j)
           ELSE CASE o = "nothing" -> s
                  [] o = "output"  -> Respond([s EXCEPT !.cgiJobs[j].headersSent = TRUE], fd)
                  [] o = "eof"     -> FinishCgiJob(s, j, FALSE)
                  [] o = "eofHead" -> FinishCgiJob(s, j, TRUE)
                  [] o = "fail"    -> FailCgiJob(s, j)

\* The job is entered and registered before the script is started; pid is
\* None when startCgi fails, and the job is then closed again.
ApiStartCgi(s, fd, j, ref, pid) ==
  LET opened == RegisterEventFd([s EXCEPT !.cgiJobs[j] = [NoJob EXCEPT !.client = fd]],
                                j, ref, "CGI", {"IN"}, TRUE)
      armed  == Enter(opened, fd, "CGI_RUNNING")
  IN  IF pid = None
        THEN Respond(CloseCgiJob(armed, j), fd)
        ELSE [armed EXCEPT !.cgiJobs[j].pid = pid, !.child[pid] = "RUNNING"]

-----------------------------------------------------------------------------
(* The client handlers. *)

\* Some bytes went through: Connection::_touchActive.
Touch(s, fd) == [s EXCEPT !.connections[fd].idle = FALSE]

\* How one call of _handleWrite goes: what the kernel takes of the buffer,
\* whether what is left is below the low-water mark, what the pump of a
\* running CGI then reads, and whether the request asks for keep-alive, which
\* is looked at once everything is sent.
WriteOutcome ==
  {w \in [sent : {"none", "some", "all"}, low : BOOLEAN,
          pump : CgiOutcome, keepAlive : BOOLEAN] :
     /\ w.sent = "all" => w.low
     /\ w.sent # "all" => ~w.keepAlive
     /\ ~w.low => w.pump = "nothing"}

\* Variant: a running CGI is not looked for.
HandleWriteIgnoringCgi(s, fd, w) ==
  LET flushed == [Touch(s, fd) EXCEPT !.connections[fd].pending = (w.sent # "all")]
  IN  IF w.sent # "all" THEN Enter(flushed, fd, "WRITING")
      ELSE IF w.keepAlive
        THEN RearmClient([flushed EXCEPT !.connections[fd] = NewConnection], fd)
      ELSE CloseClient(flushed, fd)

HandleWrite(s, fd, w) ==
  LET conn    == s.connections[fd]
      flushed == IF conn.pending /\ w.sent # "none"
                   THEN [Touch(s, fd) EXCEPT !.connections[fd].pending = (w.sent # "all")]
                   ELSE s
      left    == flushed.connections[fd].pending
  IN  IF JobsOf(flushed, fd) # {}
        THEN LET j      == CHOOSE x \in JobsOf(flushed, fd) : TRUE
                 pumped == IF w.low \/ ~left
                             THEN HandleCgiEvent(ModifyEventFd(flushed, j, {"IN"}), j, w.pump)
                             ELSE flushed
             IN  IF IsConnection(pumped, fd) THEN Enter(pumped, fd, "WRITING") ELSE pumped
      ELSE IF left THEN Enter(flushed, fd, "WRITING")
      ELSE IF ~conn.halfClosed /\ w.keepAlive
        THEN RearmClient([flushed EXCEPT !.connections[fd] = NewConnection], fd)
      ELSE CloseClient(flushed, fd)

\* EPOLLRDHUP: the peer will send no more.
HandleHangup(s, fd) ==
  IF ~s.connections[fd].pending \/ JobsOf(s, fd) # {}
    THEN CloseClient(s, fd)
    ELSE [s EXCEPT !.connections[fd].halfClosed = TRUE]

\* _handleRead, up to the point where a CGI is started: the peer closed, the
\* request is incomplete (bytes came, or none), or a response is ready.
ReadOutcome == {"closed", "nothing", "more", "respond"}

HandleRead(s, fd, o) ==
  CASE s.connections[fd].state = "CGI_RUNNING" -> s
    [] s.connections[fd].state # "CGI_RUNNING" /\ o = "closed"  -> CloseClient(s, fd)
    [] s.connections[fd].state # "CGI_RUNNING" /\ o = "nothing" -> s
    [] s.connections[fd].state # "CGI_RUNNING" /\ o = "more"    -> Touch(s, fd)
    [] s.connections[fd].state # "CGI_RUNNING" /\ o = "respond" -> Respond(Touch(s, fd), fd)

-----------------------------------------------------------------------------
(* The loop. *)

Init ==
  \E r \in Ref :
    /\ srv = [connections |-> [f \in Fd |-> NoConnection],
              cgiJobs     |-> [f \in Fd |-> NoJob],
              refs        |-> [x \in Ref |->
                                IF x = r THEN [kind |-> "SERVER", fd |-> Listener]
                                         ELSE [kind |-> "FREED", fd |-> Listener]],
              eventRefs   |-> [f \in AllFd |-> IF f = Listener THEN r ELSE None],
              staleRefs   |-> {},
              interest    |-> [f \in AllFd |-> IF f = Listener
                                                 THEN [ref |-> r, events |-> {"IN"}]
                                                 ELSE NoInterest],
              child       |-> [p \in Pid |-> "NONE"],
              pendingReap |-> {},
              overdue     |-> {},
              stopped     |-> FALSE]
    /\ phase = "wait"
    /\ batch = [x \in Ref |-> {}]
    /\ todo = {}

\* What an armed descriptor reports: it is ready for what it was armed for,
\* and the peer may also have shut down its side or be gone altogether.
Report(events, what) ==
  (events \cap {"IN", "OUT"})
    \cup (IF what = "ready" THEN {} ELSE events \cap {"RDHUP"})
    \cup (IF what = "gone" THEN {"HUP"} ELSE {})

\* epoll_wait returns: any descriptors of the epoll set, each at most once.
Wait ==
  /\ phase = "wait"
  /\ ~srv.stopped
  /\ \E fds \in SUBSET {f \in AllFd : srv.interest[f] # NoInterest} :
       \E what \in [fds -> {"ready", "shut", "gone"}] :
         /\ \A f \in fds : Report(srv.interest[f].events, what[f]) # {}
         /\ batch' = [r \in Ref |->
                        UNION {Report(srv.interest[f].events, what[f]) :
                                 f \in {x \in fds : srv.interest[x].ref = r}}]
  /\ phase' = "dispatch"
  /\ UNCHANGED <<srv, todo>>

\* The events whose handler runs, and the one that is now being handled.
Dispatching(ref, kind) ==
  /\ phase = "dispatch"
  /\ batch[ref] # {}
  /\ ~srv.stopped
  /\ srv.refs[ref].kind = kind
  /\ batch' = [batch EXCEPT ![ref] = {}]
  /\ UNCHANGED todo

\* _dispatch returns at once after stop() and for a stale reference.
DispatchIgnored(ref) ==
  /\ phase = "dispatch"
  /\ batch[ref] # {}
  /\ srv.stopped \/ srv.refs[ref].kind = "INVALID"
  /\ batch' = [batch EXCEPT ![ref] = {}]
  /\ UNCHANGED <<srv, phase, todo>>

DispatchServer(ref) ==
  /\ Dispatching(ref, "SERVER")
  /\ phase' = "accept"
  /\ UNCHANGED srv

\* Variant: stop() leaves the listening socket open.
AcceptAfterStop(fd, ref, added) ==
  /\ phase = "accept"
  /\ fd \in FreeFd(srv)
  /\ ref \in FreeRef(srv)
  /\ srv' = [srv EXCEPT !.connections[fd] = NewConnection]
  /\ UNCHANGED <<phase, batch, todo>>

\* One round of _handleAccept's loop; a client that epoll does not take is
\* closed again, and its EventRef stays in the map.
AcceptOne(fd, ref, added) ==
  /\ phase = "accept"
  /\ ~srv.stopped
  /\ added \/ "add" \in Faults
  /\ fd \in FreeFd(srv)
  /\ ref \in FreeRef(srv)
  /\ LET s == RegisterEventFd([srv EXCEPT !.connections[fd] = NewConnection],
                              fd, ref, "CLIENT", {"IN", "RDHUP"}, added)
     IN  srv' = IF added THEN s ELSE CloseConnection(s, fd)
  /\ UNCHANGED <<phase, batch, todo>>

\* accept() has no more, fails, or the connection limit is reached.
AcceptDone ==
  /\ phase = "accept"
  /\ phase' = "dispatch"
  /\ UNCHANGED <<srv, batch, todo>>

DispatchCgi(ref) ==
  /\ Dispatching(ref, "CGI")
  /\ \E o \in CgiOutcome : srv' = HandleCgiEvent(srv, srv.refs[ref].fd, o)
  /\ UNCHANGED phase

\* _handleClientEvent tests the flags in this order and acts on the first.
DispatchClientError(ref) ==
  /\ Dispatching(ref, "CLIENT")
  /\ "HUP" \in batch[ref]
  /\ srv' = CloseClient(srv, srv.refs[ref].fd)
  /\ UNCHANGED phase

DispatchClientHangup(ref) ==
  /\ Dispatching(ref, "CLIENT")
  /\ "RDHUP" \in batch[ref] /\ "HUP" \notin batch[ref]
  /\ srv' = HandleHangup(srv, srv.refs[ref].fd)
  /\ UNCHANGED phase

Readable(ref) == "IN" \in batch[ref] /\ batch[ref] \cap {"HUP", "RDHUP"} = {}

DispatchClientRead(ref) ==
  /\ Dispatching(ref, "CLIENT")
  /\ Readable(ref)
  /\ \E o \in ReadOutcome : srv' = HandleRead(srv, srv.refs[ref].fd, o)
  /\ UNCHANGED phase

\* _handleRead completes a request that names a CGI script.
DispatchClientCgi(ref, j, new, pid) ==
  /\ Dispatching(ref, "CLIENT")
  /\ Readable(ref)
  /\ srv.connections[srv.refs[ref].fd].state # "CGI_RUNNING"
  /\ j \in FreeFd(srv) /\ new \in FreeRef(srv) /\ pid \in FreePid(srv) \cup {None}
  /\ srv' = ApiStartCgi(Touch(srv, srv.refs[ref].fd), srv.refs[ref].fd, j, new, pid)
  /\ UNCHANGED phase

\* As above, but the pipe cannot be registered: the exception leaves run().
DispatchClientCgiThrows(ref, j, new) ==
  /\ "add" \in Faults
  /\ Dispatching(ref, "CLIENT")
  /\ Readable(ref)
  /\ srv.connections[srv.refs[ref].fd].state # "CGI_RUNNING"
  /\ j \in FreeFd(srv) /\ new \in FreeRef(srv)
  /\ srv' = RegisterEventFd(Touch(srv, srv.refs[ref].fd), j, new, "CGI", {"IN"}, FALSE)
  /\ phase' = "unwind"

DispatchClientWrite(ref) ==
  /\ Dispatching(ref, "CLIENT")
  /\ "OUT" \in batch[ref] /\ batch[ref] \cap {"HUP", "RDHUP", "IN"} = {}
  /\ \E w \in WriteOutcome : srv' = HandleWrite(srv, srv.refs[ref].fd, w)
  /\ UNCHANGED phase

\* Variant: only connections that wait for a request time out.
TimedOutReaders(s) ==
  {f \in Fd : s.connections[f].state = "READING" /\ s.connections[f].idle}

\* getTimedOutFds leaves out the connections that wait for a CGI.
TimedOutFds(s) ==
  {f \in Fd : s.connections[f].state \notin {"FREE", "CGI_RUNNING"} /\ s.connections[f].idle}

FreeStaleRefs(s) ==
  [s EXCEPT !.refs = [r \in Ref |-> IF r \in s.staleRefs
                                      THEN [kind |-> "FREED", fd |-> Listener]
                                      ELSE @[r]],
            !.staleRefs = {}]

\* The batch is done: the stale references are deleted, the sweeps begin.
EndDispatch ==
  /\ phase = "dispatch"
  /\ \A r \in Ref : batch[r] = {}
  /\ srv' = FreeStaleRefs(srv)
  /\ todo' = TimedOutFds(srv)
  /\ phase' = "clients"
  /\ UNCHANGED batch

\* Variant: the visited descriptor stays on the list.
SweepClientAgain(fd, w) ==
  /\ phase = "clients"
  /\ fd \in todo
  /\ srv' = CloseClient(srv, fd)
  /\ UNCHANGED <<phase, batch, todo>>

\* _closeTimedOutClients: a 408 into the buffer, one _handleWrite, close.
SweepClient(fd, w) ==
  /\ phase = "clients"
  /\ fd \in todo
  /\ LET timeout == [srv EXCEPT !.connections[fd].pending = TRUE]
     IN  srv' = CloseClient(HandleWrite(timeout, fd, w), fd)
  /\ todo' = todo \ {fd}
  /\ UNCHANGED <<phase, batch>>

\* Variant: the time limit of the jobs is not looked at.
ClientsSweptOnly ==
  /\ phase = "clients"
  /\ todo = {}
  /\ phase' = "jobs"
  /\ UNCHANGED <<srv, batch, todo>>

ClientsSwept ==
  /\ phase = "clients"
  /\ todo = {}
  /\ todo' = {j \in Fd : IsJob(srv, j) /\ srv.cgiJobs[j].expired}
  /\ phase' = "jobs"
  /\ UNCHANGED <<srv, batch>>

SweepJob(j) ==
  /\ phase = "jobs"
  /\ j \in todo
  /\ srv' = FailCgiJob(srv, j)
  /\ todo' = todo \ {j}
  /\ UNCHANGED <<phase, batch>>

\* Variant: each child is waited for once, whether it has ended or not.
ReapPendingOnce(s) ==
  [s EXCEPT !.child = [p \in Pid |-> IF p \in s.pendingReap \ s.overdue /\ @[p] = "ZOMBIE"
                                       THEN "NONE" ELSE @[p]],
            !.pendingReap = {}]

\* _reapPending: an entry that is overdue is dropped without a wait, a dead
\* child is reaped, the others stay.  Then the loop starts over.
ReapPending(s) ==
  [s EXCEPT !.child = [p \in Pid |-> IF p \in s.pendingReap \ s.overdue /\ @[p] = "ZOMBIE"
                                       THEN "NONE" ELSE @[p]],
            !.pendingReap = {p \in @ \ s.overdue : s.child[p] = "RUNNING"}]

JobsSwept ==
  /\ phase = "jobs"
  /\ todo = {}
  /\ srv' = ReapPending(srv)
  /\ phase' = "wait"
  /\ UNCHANGED <<batch, todo>>

\* Variant: the children that await reaping are forgotten.
DestroyOnlyJobs(s) ==
  [s EXCEPT !.connections = [f \in Fd |-> NoConnection],
            !.cgiJobs     = [f \in Fd |-> NoJob],
            !.child       = [p \in Pid |-> IF \E j \in Fd : s.cgiJobs[j].pid = p
                                              THEN "NONE" ELSE @[p]],
            !.eventRefs   = [f \in AllFd |-> None],
            !.interest    = [f \in AllFd |-> NoInterest],
            !.pendingReap = {}]

\* ~EventLoop: children are killed and waited for, everything is deleted.
Destroy(s) ==
  LET pids == ({s.cgiJobs[j].pid : j \in Fd} \ {None}) \cup s.pendingReap
      dead == (({s.eventRefs[f] : f \in AllFd}) \ {None}) \cup s.staleRefs
  IN  [s EXCEPT !.connections = [f \in Fd |-> NoConnection],
                !.cgiJobs     = [f \in Fd |-> NoJob],
                !.child       = [p \in Pid |-> IF p \in pids THEN "NONE" ELSE @[p]],
                !.refs        = [r \in Ref |-> IF r \in dead
                                                 THEN [kind |-> "FREED", fd |-> Listener]
                                                 ELSE @[r]],
                !.eventRefs   = [f \in AllFd |-> None],
                !.interest    = [f \in AllFd |-> NoInterest],
                !.staleRefs   = {},
                !.pendingReap = {}]

\* run() ends after stop(), or by an exception, and main destroys the loop.
Exit ==
  /\ phase = "unwind" \/ (phase = "wait" /\ srv.stopped)
  /\ srv' = Destroy(srv)
  /\ phase' = "exit"
  /\ batch' = [r \in Ref |-> {}]
  /\ UNCHANGED todo

Loop ==
  \/ Wait
  \/ \E ref \in Ref :
       \/ DispatchIgnored(ref)
       \/ DispatchServer(ref)
       \/ DispatchCgi(ref)
       \/ DispatchClientError(ref)
       \/ DispatchClientHangup(ref)
       \/ DispatchClientRead(ref)
       \/ DispatchClientWrite(ref)
       \/ \E j \in Fd, new \in Ref, pid \in Pid \cup {None} : DispatchClientCgi(ref, j, new, pid)
       \/ \E j \in Fd, new \in Ref : DispatchClientCgiThrows(ref, j, new)
  \/ \E fd \in Fd, ref \in Ref, added \in BOOLEAN : AcceptOne(fd, ref, added)
  \/ AcceptDone
  \/ EndDispatch
  \/ \E fd \in Fd, w \in WriteOutcome : SweepClient(fd, w)
  \/ ClientsSwept
  \/ \E j \in Fd : SweepJob(j)
  \/ JobsSwept
  \/ Exit

-----------------------------------------------------------------------------
(* What happens around the loop, between two handlers. *)

Running == phase \notin {"unwind", "exit"}

\* SIGINT or SIGTERM: EventLoop::stop runs in the signal handler.
Stop ==
  /\ "signal" \in Faults
  /\ Running
  /\ ~srv.stopped
  /\ LET known == {srv.eventRefs[f] : f \in AllFd} \ {None}
     IN  srv' = [srv EXCEPT !.stopped  = TRUE,
                            !.refs     = [r \in Ref |-> IF r \in known
                                                          THEN [@[r] EXCEPT !.kind = "INVALID"]
                                                          ELSE @[r]],
                            !.interest = [f \in AllFd |-> NoInterest]]
  /\ UNCHANGED <<phase, batch, todo>>

\* A child ends, by itself or by the SIGKILL it was sent.
ChildExits(p) ==
  /\ Running
  /\ srv.child[p] = "RUNNING"
  /\ srv' = [srv EXCEPT !.child[p] = "ZOMBIE"]
  /\ UNCHANGED <<phase, batch, todo>>

\* The clock passes a connection's idle timeout, or a job's time limit.
ConnectionIdles(fd) ==
  /\ Running
  /\ IsConnection(srv, fd)
  /\ ~srv.connections[fd].idle
  /\ srv' = [srv EXCEPT !.connections[fd].idle = TRUE]
  /\ UNCHANGED <<phase, batch, todo>>

JobExpires(j) ==
  /\ Running
  /\ IsJob(srv, j)
  /\ ~srv.cgiJobs[j].expired
  /\ srv' = [srv EXCEPT !.cgiJobs[j].expired = TRUE]
  /\ UNCHANGED <<phase, batch, todo>>

\* It passes REAP_STALE_SECONDS since a child was killed.  It may at any time;
\* only _reapPending looks, so that it shows when that begins.
ReapOverdue(p) ==
  /\ phase = "jobs" /\ todo = {}
  /\ p \in srv.pendingReap \ srv.overdue
  /\ srv' = [srv EXCEPT !.overdue = @ \cup {p}]
  /\ UNCHANGED <<phase, batch, todo>>

Environment ==
  \/ Stop
  \/ \E p \in Pid : ChildExits(p) \/ ReapOverdue(p)
  \/ \E fd \in Fd : ConnectionIdles(fd) \/ JobExpires(fd)

\* main has returned.
Exited == phase = "exit" /\ UNCHANGED vars

Next == Loop \/ Environment \/ Exited

Spec == Init /\ [][Next]_vars

\* The thread keeps running, epoll_wait returns at the latest after
\* EPOLL_TIMEOUT_MS, a job's time limit passes, a killed child dies.
Fairness ==
  /\ WF_vars(Loop)
  /\ \A j \in Fd : WF_vars(JobExpires(j))
  /\ \A p \in Pid : WF_vars(p \in srv.pendingReap /\ ChildExits(p))

FairSpec == Spec /\ Fairness
-----------------------------------------------------------------------------
(* Properties. *)

\* The tables have the shapes declared above.
TypeOK ==
  /\ srv \in Server
  /\ phase \in Phase
  /\ batch \in [Ref -> SUBSET EventFlag]
  /\ todo \in SUBSET Fd

\* No event of the batch points to freed memory: a reference that goes stale
\* while the batch is dispatched is deleted only after it (_stale_refs).
NoUseAfterFree == \A r \in Ref : batch[r] # {} => srv.refs[r].kind # "FREED"

\* An event that will be handled is still about the object it was reported
\* for: its reference is the registered one of a live connection, job or
\* listener, never of an earlier owner of the same descriptor number.
EventTargetsLive ==
  \A r \in Ref : batch[r] # {} =>
    LET kind == srv.refs[r].kind
        fd   == srv.refs[r].fd
    IN  /\ kind # "INVALID" => srv.eventRefs[fd] = r
        /\ kind = "CLIENT" => fd \in Fd /\ IsConnection(srv, fd)
        /\ kind = "CGI"    => fd \in Fd /\ IsJob(srv, fd)
        /\ kind = "SERVER" => fd = Listener

\* The destructor and the end of the batch delete a reference once: no two
\* descriptors share one, none is both in the map and on the stale list.
NoDoubleFree ==
  /\ \A f, g \in AllFd : f # g /\ srv.eventRefs[f] # None =>
                            srv.eventRefs[f] # srv.eventRefs[g]
  /\ \A f \in AllFd : srv.eventRefs[f] \notin srv.staleRefs

\* A job's client is the live connection that started it: no job outlives
\* its connection, so none writes into the next client of that descriptor.
\* A connection runs one job at a time.
JobsOwned ==
  \A j \in Fd : IsJob(srv, j) =>
    LET fd == srv.cgiJobs[j].client
    IN  /\ IsConnection(srv, fd)
        /\ srv.connections[fd].state =
              IF srv.cgiJobs[j].headersSent THEN "WRITING" ELSE "CGI_RUNNING"
        /\ JobsOf(srv, fd) = {j}

\* A connection in CGI_RUNNING is exempt from the idle timeout, so its job
\* must exist: the job's own time limit is what ends it.
CgiRunningHasJob ==
  \A fd \in Fd : srv.connections[fd].state = "CGI_RUNNING" => JobsOf(srv, fd) # {}

\* The state machine drives the poll mask: what epoll watches a client for
\* is always what its state calls for, through its registered reference.
MaskFollowsState ==
  ~srv.stopped =>
    \A fd \in Fd : IsConnection(srv, fd) =>
      /\ srv.eventRefs[fd] # None
      /\ srv.interest[fd] = [ref |-> srv.eventRefs[fd],
                             events |-> EventsFor(srv.connections[fd].state)]

\* Input is only parsed while no response is under way: _handleRead does not
\* test for WRITING, it relies on the events of one batch being current.
ReadsOnlyWhenReading ==
  \A r \in Ref : "IN" \in batch[r] /\ srv.refs[r].kind = "CLIENT" =>
    srv.connections[srv.refs[r].fd].state = "READING"

\* Bytes wait in the write buffer only while the connection is WRITING, so
\* EPOLLOUT is armed for them.
PendingIsWriting ==
  \A fd \in Fd : srv.connections[fd].pending => srv.connections[fd].state = "WRITING"

\* Every child that has not been reaped is the child of one job, or awaits
\* reaping, or was given up, but not before REAP_STALE_SECONDS had passed since
\* its kill; and whoever holds a pid to kill or wait for it holds the pid of an
\* unreaped child, which the kernel cannot have given to another process.
ChildrenAccounted ==
  LET holders(p) == {j \in Fd : srv.cgiJobs[j].pid = p}
  IN  \A p \in Pid :
        /\ srv.child[p] # "NONE" =>
             holders(p) # {} \/ p \in srv.pendingReap \/ p \in srv.overdue
        /\ holders(p) # {} \/ p \in srv.pendingReap => srv.child[p] # "NONE"
        /\ \A i, j \in holders(p) : i = j
        /\ p \in srv.pendingReap => holders(p) = {}

\* _closeTimedOutClients looks up each listed descriptor again and uses the
\* result without a test: the connection must still be there.
SweptClientsExist ==
  phase = "clients" => \A fd \in todo : IsConnection(srv, fd)

\* After main's exit no child is left but those that were given up.
ExitReaps ==
  phase = "exit" => \A p \in Pid : srv.child[p] # "NONE" => p \in srv.overdue

\* After a signal, which may come in the middle of a batch or of the accept
\* loop, no client is taken in and no child is started any more.
StoppedTakesNoWork ==
  [][srv.stopped =>
       /\ \A fd \in Fd : ~IsConnection(srv, fd) => ~IsConnection(srv', fd)
       /\ \A p \in Pid : srv.child[p] = "NONE" => srv'.child[p] = "NONE"]_vars

\* The promise of ConnectionLifecycle: a job counts for the connection whose
\* descriptor it names.
Lifecycle ==
  INSTANCE ConnectionLifecycle
    WITH state <- [fd \in Fd |-> srv.connections[fd].state],
         cgi   <- [fd \in Fd |-> JobsOf(srv, fd) # {}]

LifecycleRefined == Lifecycle!LifeSpec

\* A connection does not wait for its CGI for ever, even for one that never
\* writes or exits: the job's time limit ends the wait.
CgiEnds ==
  \A fd \in Fd : srv.connections[fd].state = "CGI_RUNNING"
                   ~> srv.connections[fd].state # "CGI_RUNNING"

\* A connection past its idle timeout is closed unless bytes move again or a
\* CGI takes over.
IdleClosed ==
  \A fd \in Fd : srv.connections[fd].idle ~>
    \/ ~srv.connections[fd].idle
    \/ srv.connections[fd].state = "CGI_RUNNING"

\* A killed child is reaped, unless REAP_STALE_SECONDS pass before: only then
\* may it be left a zombie.
KilledReaped ==
  \A p \in Pid : p \in srv.pendingReap ~> srv.child[p] = "NONE" \/ p \in srv.overdue
=============================================================================
