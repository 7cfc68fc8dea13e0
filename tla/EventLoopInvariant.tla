------------------------- MODULE EventLoopInvariant -------------------------
(***************************************************************************)
(* The inductive invariant of EventLoop: what ties the tables to each      *)
(* other between any two calls inside a handler (Tables), and what holds   *)
(* besides between two handlers (IInv).                                    *)
(***************************************************************************)
EXTENDS EventLoop

-----------------------------------------------------------------------------
(* The inductive invariant, as predicates of a server state s and the      *)
(* batch b of events still to be dispatched.                               *)

KindOf(s, r) == s.refs[r].kind

\* A registered reference is allocated, knows its descriptor, is not stale.
RegisteredOK(s) ==
  /\ \A f \in AllFd : s.eventRefs[f] # None =>
       /\ s.refs[s.eventRefs[f]].fd = f
       /\ KindOf(s, s.eventRefs[f]) # "FREED"
       /\ s.eventRefs[f] \notin s.staleRefs
  /\ \A r \in s.staleRefs : KindOf(s, r) = "INVALID"

\* The object a valid kind speaks of exists under descriptor f.
Exists(s, kind, f) ==
  /\ kind = "SERVER" => f = Listener
  /\ kind = "CLIENT" => f \in Fd /\ IsConnection(s, f)
  /\ kind = "CGI"    => f \in Fd /\ IsJob(s, f)

\* What epoll watches is registered and exists.
WatchedOK(s) ==
  \A f \in AllFd : s.interest[f].ref # None =>
    /\ s.eventRefs[f] = s.interest[f].ref
    /\ KindOf(s, s.eventRefs[f]) # "INVALID"
    /\ Exists(s, KindOf(s, s.eventRefs[f]), f)

\* Until stop(), connections and jobs are watched, connections with the mask
\* of their state; afterwards nothing is, and no reference is valid.
LiveOK(s) ==
  /\ ~s.stopped =>
       \A f \in Fd :
         /\ IsConnection(s, f) =>
              /\ s.eventRefs[f] # None
              /\ KindOf(s, s.eventRefs[f]) = "CLIENT"
              /\ s.interest[f] = [ref |-> s.eventRefs[f],
                                  events |-> EventsFor(s.connections[f].state)]
         /\ IsJob(s, f) =>
              /\ s.eventRefs[f] # None
              /\ KindOf(s, s.eventRefs[f]) = "CGI"
              /\ s.interest[f] = [ref |-> s.eventRefs[f], events |-> {"IN"}]
  /\ s.stopped =>
       \A f \in AllFd :
         /\ s.interest[f].ref = None
         /\ s.eventRefs[f] # None => KindOf(s, s.eventRefs[f]) = "INVALID"

\* A descriptor is one thing; a job's client exists and has no other job.
OwnersOK(s) ==
  \A j \in Fd : IsJob(s, j) =>
    /\ ~IsConnection(s, j)
    /\ IsConnection(s, s.cgiJobs[j].client)
    /\ \A i \in Fd : s.cgiJobs[i].client = s.cgiJobs[j].client => i = j

\* Events of a client in a state.
Fits(events, state, fd, quiet) ==
  /\ "IN" \in events => state = "READING" /\ <<fd, "IN">> \notin quiet
  /\ "OUT" \in events => state = "WRITING" /\ <<fd, "OUT">> \notin quiet

\* The pending events are about objects that exist, and fit their state; none
\* of the pairs of descriptor and flag in quiet is pending.
BatchOK(s, b, quiet) ==
  \A r \in Ref : b[r] # {} =>
    /\ KindOf(s, r) # "FREED"
    /\ KindOf(s, r) # "INVALID" => s.eventRefs[s.refs[r].fd] = r
    /\ Exists(s, KindOf(s, r), s.refs[r].fd)
    /\ KindOf(s, r) = "CLIENT" => Fits(b[r], s.connections[s.refs[r].fd].state, s.refs[r].fd, quiet)

\* All of the above: it also holds between the calls inside a handler.
Tables(s, b, quiet) ==
  /\ s \in Server
  /\ RegisteredOK(s)
  /\ WatchedOK(s)
  /\ LiveOK(s)
  /\ OwnersOK(s)
  /\ BatchOK(s, b, quiet)

\* Between handlers, a job's client is in the state the job has reached.
JobStates(s) ==
  \A j \in Fd : IsJob(s, j) =>
    s.connections[s.cgiJobs[j].client].state =
      IF s.cgiJobs[j].headersSent THEN "WRITING" ELSE "CGI_RUNNING"

\* The tables agree with each other, with what epoll watches and with the
\* pending events; jobs and clients agree on their progress; nothing is
\* pending outside of the dispatch; the idle sweep's list holds connections
\* that no CGI has taken over.
IInv ==
  /\ TypeOK
  /\ Tables(srv, batch, {})
  /\ JobStates(srv)
  /\ phase \notin {"dispatch", "accept", "unwind"} => batch = [r \in Ref |-> {}]
  /\ phase = "clients" =>
       \A f \in todo : srv.connections[f].state \notin {"FREE", "CGI_RUNNING"}
=============================================================================
