-------------------------- MODULE EventLoopProofs --------------------------
(***************************************************************************)
(* EventLoop for any number of descriptors, references and children.       *)
(*                                                                         *)
(* The tables: the inductive invariant holds in every reachable state, and *)
(* the safety properties follow from it.  First what each operator does to *)
(* the tables, following the calls of the handlers from the bottom up;     *)
(* then one lemma per action, and the theorems.                            *)
(*                                                                         *)
(* Children and waiting connections: every child has one holder that will  *)
(* wait for it, every connection that waits for a CGI has a job, and bytes *)
(* wait in a write buffer only where epoll is armed to send them.          *)
(*                                                                         *)
(* The refinement of ConnectionLifecycle: a handler works for one client;  *)
(* the other connections and their jobs are as before, and the client's    *)
(* own connection has gone one step of its life, or none.                  *)
(***************************************************************************)
EXTENDS EventLoopInvariant, TLAPS

-----------------------------------------------------------------------------
(* What each operator of the loop does to the tables. *)

\* Fields the tables do not speak of may change.
LEMMA FrameTables ==
  ASSUME NEW s, NEW t, NEW b, NEW quiet, Tables(s, b, quiet), t \in Server,
         t.refs = s.refs, t.eventRefs = s.eventRefs, t.staleRefs = s.staleRefs,
         t.interest = s.interest, t.stopped = s.stopped,
         \A f \in Fd : t.connections[f].state = s.connections[f].state,
         \A j \in Fd : t.cgiJobs[j].client = s.cgiJobs[j].client
  PROVE  Tables(t, b, quiet)
<1>1. \A f \in Fd : IsConnection(t, f) <=> IsConnection(s, f)
  BY DEF IsConnection
<1>2. \A f \in Fd : IsJob(t, f) <=> IsJob(s, f)
  BY DEF IsJob
<1>3. \A r : KindOf(t, r) = KindOf(s, r)
  BY DEF KindOf
<1>4. \A kind, f : Exists(t, kind, f) <=> Exists(s, kind, f)
  BY <1>1, <1>2 DEF Exists
<1>5. s.cgiJobs \in [Fd -> CgiJob] /\ s.refs \in [Ref -> [kind : EventKind, fd : AllFd]]
  BY DEF Tables, Server
<1>6. RegisteredOK(t)
  BY <1>3 DEF Tables, RegisteredOK
<1>7. WatchedOK(t)
  BY <1>3, <1>4 DEF Tables, WatchedOK
<1>8. LiveOK(t)
  BY <1>1, <1>2, <1>3 DEF Tables, LiveOK
<1>9. OwnersOK(t)
  <2>1. \A j \in Fd : IsJob(s, j) => s.cgiJobs[j].client \in Fd
    BY <1>5 DEF IsJob, CgiJob
  <2>2. QED
    BY <1>1, <1>2, <2>1 DEF Tables, OwnersOK
<1>10. BatchOK(t, b, quiet)
  BY <1>3, <1>4 DEF Tables, BatchOK, Exists
<1>11. QED
  BY <1>6, <1>7, <1>8, <1>9, <1>10 DEF Tables

\* From s to t nothing but the state of one connection has changed that an
\* owner of jobs sees.
Became(s, t, fd, state) ==
  /\ t.cgiJobs = s.cgiJobs
  /\ t.stopped = s.stopped
  /\ \A f \in Fd : t.connections[f].state = IF f = fd THEN state ELSE s.connections[f].state

\* Enter, whatever it is called for, leaves the tables in order.
LEMMA EnterTables ==
  ASSUME NEW s, NEW b, NEW quiet, Tables(s, b, quiet),
         NEW fd \in Fd, IsConnection(s, fd),
         NEW state \in ConnState, state # "FREE",
         <<fd, "IN">> \in quiet, state = "WRITING" \/ <<fd, "OUT">> \in quiet
  PROVE  Tables(Enter(s, fd, state), b, quiet) /\ Became(s, Enter(s, fd, state), fd, state)
<1> DEFINE c == [s.connections EXCEPT ![fd].state = state]
           m == [s EXCEPT !.connections = c]
           i == [s.interest EXCEPT ![fd] = [ref |-> s.eventRefs[fd], events |-> EventsFor(state)]]
           n == [m EXCEPT !.interest = i]
           t == Enter(s, fd, state)
<1>0. s \in Server /\ s.connections \in [Fd -> Connection]
  BY DEF Tables, Server
<1>1. c \in [Fd -> Connection] /\ c[fd].state = state
  BY <1>0 DEF Connection
<1>2. m \in Server /\ m.connections = c /\ m.interest = s.interest
  BY <1>0, <1>1 DEF Server
<1>3. m.refs = s.refs /\ m.eventRefs = s.eventRefs
  BY <1>0 DEF Server
<1>4. fd \in AllFd /\ fd # Listener
  BY ConstantsDistinct DEF AllFd
<1>5. EventsFor(state) \in SUBSET EventFlag
  BY DEF EventsFor, EventFlag
<1>6. i \in [AllFd -> Interest]
  BY <1>0, <1>4, <1>5 DEF Server, Interest
<1>7. t = RearmClient(m, fd)
  BY DEF Enter
<1>8. IsConnection(m, fd) /\ m.connections[fd].state = state
  BY <1>1, <1>2 DEF IsConnection
<1>9. t = ModifyEventFd(m, fd, EventsFor(state))
  BY <1>7, <1>8 DEF RearmClient
<1>12. \A j \in Fd : IsJob(s, j) => s.cgiJobs[j].client \in Fd
  BY <1>0 DEF Server, CgiJob, IsJob
<1>10. CASE s.stopped
  <2>1. t = m
    <3>1. m.eventRefs[fd] # None => m.refs[m.eventRefs[fd]].kind = "INVALID"
      BY <1>3, <1>4, <1>10 DEF Tables, LiveOK, KindOf
    <3>2. QED
      BY <3>1, <1>9 DEF ModifyEventFd
  <2>2. /\ t.connections = c /\ t.cgiJobs = s.cgiJobs /\ t.refs = s.refs /\ t.eventRefs = s.eventRefs
        /\ t.interest = s.interest /\ t.stopped = s.stopped /\ t.staleRefs = s.staleRefs
    BY <2>1, <1>0, <1>2 DEF Server
  <2>3. \A f \in Fd : IsConnection(t, f) <=> IsConnection(s, f)
    BY <2>2, <1>0 DEF IsConnection
  <2>4. \A f \in Fd : IsJob(t, f) <=> IsJob(s, f)
    BY <2>2 DEF IsJob
  <2>5. \A r : KindOf(t, r) = KindOf(s, r)
    BY <2>2 DEF KindOf
  <2>6. \A kind, f : Exists(t, kind, f) <=> Exists(s, kind, f)
    BY <2>3, <2>4 DEF Exists
  <2>7. t \in Server
    BY <2>1, <1>2
  <2>8. RegisteredOK(t) /\ WatchedOK(t)
    BY <2>2, <2>5, <2>6 DEF Tables, RegisteredOK, WatchedOK
  <2>9. LiveOK(t)
    BY <2>2, <2>5, <1>10 DEF Tables, LiveOK
  <2>10. OwnersOK(t)
    BY <2>2, <2>3, <2>4, <1>12 DEF Tables, OwnersOK
  <2>11. BatchOK(t, b, quiet)
    BY <2>2, <2>5, <2>6, <1>0, <1>1 DEF Tables, BatchOK, Exists, Fits
  <2>12. Tables(t, b, quiet)
    BY <2>2, <2>7, <2>8, <2>9, <2>10, <2>11 DEF Tables
  <2>13. QED
    BY <2>2, <2>12, <1>0, <1>1 DEF Became
<1>11. CASE ~s.stopped
  <2>1. t = n
    <3>1. /\ m.eventRefs[fd] # None
          /\ m.refs[m.eventRefs[fd]].kind = "CLIENT"
          /\ m.interest[fd] = [ref |-> s.eventRefs[fd], events |-> EventsFor(s.connections[fd].state)]
      BY <1>2, <1>3, <1>11 DEF Tables, LiveOK, KindOf
    <3>2. m.interest[fd] # NoInterest
      BY <3>1, <1>3 DEF NoInterest
    <3>3. QED
      BY <3>1, <3>2, <1>9, <1>2, <1>3 DEF ModifyEventFd
  <2>2. /\ t.connections = c /\ t.cgiJobs = s.cgiJobs /\ t.refs = s.refs /\ t.eventRefs = s.eventRefs
        /\ t.interest = i /\ t.stopped = s.stopped /\ t.staleRefs = s.staleRefs
    BY <2>1, <1>0, <1>2 DEF Server
  <2>3. \A f \in Fd : IsConnection(t, f) <=> IsConnection(s, f)
    BY <2>2, <1>0 DEF IsConnection
  <2>4. \A f \in Fd : IsJob(t, f) <=> IsJob(s, f)
    BY <2>2 DEF IsJob
  <2>5. \A r : KindOf(t, r) = KindOf(s, r)
    BY <2>2 DEF KindOf
  <2>6. \A kind, f : Exists(t, kind, f) <=> Exists(s, kind, f)
    BY <2>3, <2>4 DEF Exists
  <2>7. t \in Server
    BY <2>1, <1>2, <1>6 DEF Server
  <2>8. RegisteredOK(t)
    BY <2>2, <2>5 DEF Tables, RegisteredOK
  <2>9. /\ i[fd] = [ref |-> s.eventRefs[fd], events |-> EventsFor(state)]
        /\ \A f \in AllFd : i[f].ref = s.interest[f].ref /\ (f # fd => i[f] = s.interest[f])
    <3>1. s.interest[fd] = [ref |-> s.eventRefs[fd], events |-> EventsFor(s.connections[fd].state)]
      BY <1>11 DEF Tables, LiveOK
    <3>2. s.interest[fd].ref = s.eventRefs[fd]
      BY <3>1
    <3>3. s.interest \in [AllFd -> Interest]
      BY <1>0 DEF Server
    <3>4. QED
      BY <3>2, <3>3, <1>4
  <2>10. WatchedOK(t)
    BY <2>2, <2>5, <2>6, <2>9 DEF Tables, WatchedOK
  <2>11. LiveOK(t)
    <3>1. \A f \in Fd : f # fd => t.connections[f] = s.connections[f]
      BY <2>2, <1>0
    <3>2. \A f \in Fd : f \in AllFd
      BY DEF AllFd
    <3>3. ~IsJob(s, fd)
      BY DEF Tables, OwnersOK
    <3>4. ASSUME NEW f \in Fd, IsConnection(t, f)
          PROVE  /\ t.eventRefs[f] # None
                 /\ KindOf(t, t.eventRefs[f]) = "CLIENT"
                 /\ t.interest[f] = [ref |-> t.eventRefs[f],
                                     events |-> EventsFor(t.connections[f].state)]
      <4>1. /\ s.eventRefs[f] # None
            /\ KindOf(s, s.eventRefs[f]) = "CLIENT"
            /\ s.interest[f] = [ref |-> s.eventRefs[f],
                                events |-> EventsFor(s.connections[f].state)]
        BY <3>4, <2>3, <1>11 DEF Tables, LiveOK
      <4>2. CASE f = fd
        BY <4>1, <4>2, <2>2, <2>5, <2>9, <1>1
      <4>3. CASE f # fd
        BY <4>1, <4>3, <2>2, <2>5, <2>9, <3>1, <3>2
      <4>4. QED
        BY <4>2, <4>3
    <3>5. ASSUME NEW f \in Fd, IsJob(t, f)
          PROVE  /\ t.eventRefs[f] # None
                 /\ KindOf(t, t.eventRefs[f]) = "CGI"
                 /\ t.interest[f] = [ref |-> t.eventRefs[f], events |-> {"IN"}]
      <4>1. /\ s.eventRefs[f] # None
            /\ KindOf(s, s.eventRefs[f]) = "CGI"
            /\ s.interest[f] = [ref |-> s.eventRefs[f], events |-> {"IN"}]
        BY <3>5, <2>4, <1>11 DEF Tables, LiveOK
      <4>2. QED
        BY <3>3, <3>5, <4>1, <2>2, <2>4, <2>5, <2>9, <3>2
    <3>6. QED
      BY <3>4, <3>5, <2>2, <1>11 DEF LiveOK
  <2>12. OwnersOK(t)
    BY <2>2, <2>3, <2>4, <1>12 DEF Tables, OwnersOK
  <2>13. BatchOK(t, b, quiet)
    BY <2>2, <2>5, <2>6, <1>0, <1>1 DEF Tables, BatchOK, Exists, Fits
  <2>14. Tables(t, b, quiet)
    BY <2>2, <2>7, <2>8, <2>10, <2>11, <2>12, <2>13 DEF Tables
  <2>15. QED
    BY <2>2, <2>14, <1>0, <1>1 DEF Became
<1>20. QED
  BY <1>10, <1>11

\* A set of descriptors loses its objects and its references go stale.
Dropped(s, t, fds) ==
  LET gone == {s.eventRefs[f] : f \in fds} \ {None}
  IN  /\ t \in Server
      /\ t.stopped = s.stopped
      /\ t.staleRefs = s.staleRefs \cup gone
      /\ \A f \in Fd : t.connections[f].state = IF f \in fds THEN "FREE" ELSE s.connections[f].state
      /\ \A f \in Fd : t.cgiJobs[f].client = IF f \in fds THEN None ELSE s.cgiJobs[f].client
      /\ \A f \in AllFd : t.eventRefs[f] = IF f \in fds THEN None ELSE s.eventRefs[f]
      /\ \A f \in AllFd : t.interest[f] = IF f \in fds THEN NoInterest ELSE s.interest[f]
      /\ \A r \in Ref : KindOf(t, r) = IF r \in gone THEN "INVALID" ELSE KindOf(s, r)
      /\ \A r \in Ref : t.refs[r].fd = s.refs[r].fd

\* Closing a set of descriptors leaves the tables in order, if no job that
\* stays belongs to a connection that goes.
LEMMA DropTables ==
  ASSUME NEW s, NEW t, NEW b, NEW quiet, NEW fds \in SUBSET Fd,
         Tables(s, b, quiet), Dropped(s, t, fds),
         \A j \in Fd \ fds : IsJob(s, j) => s.cgiJobs[j].client \notin fds
  PROVE  Tables(t, b, quiet)
<1> DEFINE gone == {s.eventRefs[f] : f \in fds} \ {None}
<1> USE DEF Dropped
<1>1. /\ s \in Server
      /\ s.eventRefs \in [AllFd -> Ref \cup {None}]
      /\ s.refs \in [Ref -> [kind : EventKind, fd : AllFd]]
      /\ s.staleRefs \in SUBSET Ref
      /\ s.interest \in [AllFd -> Interest]
      /\ s.cgiJobs \in [Fd -> CgiJob]
  BY DEF Tables, Server
<1>2. fds \subseteq AllFd /\ Fd \subseteq AllFd /\ None \notin Ref /\ None \notin Fd
  BY ConstantsDistinct DEF AllFd
<1>3. gone \subseteq Ref
  BY <1>1, <1>2
<1>4. \A f \in AllFd \ fds : s.eventRefs[f] \notin gone
  <2>1. SUFFICES ASSUME NEW f \in AllFd \ fds, NEW g \in fds,
                        s.eventRefs[g] # None, s.eventRefs[f] = s.eventRefs[g]
                 PROVE  FALSE
    OBVIOUS
  <2>2. s.refs[s.eventRefs[f]].fd = f /\ s.refs[s.eventRefs[g]].fd = g
    BY <2>1, <1>2 DEF Tables, RegisteredOK
  <2>3. QED
    BY <2>1, <2>2
<1>5. \A f \in Fd : IsConnection(t, f) <=> IsConnection(s, f) /\ f \notin fds
  BY DEF IsConnection
<1>6. \A f \in Fd : IsJob(t, f) <=> IsJob(s, f) /\ f \notin fds
  BY DEF IsJob
<1>7. \A kind : \A f \in AllFd \ fds : Exists(t, kind, f) <=> Exists(s, kind, f)
  BY <1>5, <1>6 DEF Exists
<1>8. RegisteredOK(t)
  <2>1. ASSUME NEW f \in AllFd, t.eventRefs[f] # None
        PROVE  /\ t.refs[t.eventRefs[f]].fd = f
               /\ KindOf(t, t.eventRefs[f]) # "FREED"
               /\ t.eventRefs[f] \notin t.staleRefs
    <3>1. f \notin fds /\ t.eventRefs[f] = s.eventRefs[f] /\ t.eventRefs[f] \in Ref \ gone
      BY <2>1, <1>1, <1>4
    <3>2. /\ s.refs[s.eventRefs[f]].fd = f
          /\ KindOf(s, s.eventRefs[f]) # "FREED"
          /\ s.eventRefs[f] \notin s.staleRefs
      BY <2>1, <3>1 DEF Tables, RegisteredOK
    <3>3. QED
      BY <3>1, <3>2
  <2>2. \A r \in t.staleRefs : KindOf(t, r) = "INVALID"
    BY <1>1, <1>3 DEF Tables, RegisteredOK
  <2>3. QED
    BY <2>1, <2>2 DEF RegisteredOK
<1>9. WatchedOK(t)
  <2>1. SUFFICES ASSUME NEW f \in AllFd, t.interest[f].ref # None
                 PROVE  /\ t.eventRefs[f] = t.interest[f].ref
                        /\ KindOf(t, t.eventRefs[f]) # "INVALID"
                        /\ Exists(t, KindOf(t, t.eventRefs[f]), f)
    BY DEF WatchedOK
  <2>2. f \notin fds /\ t.interest[f] = s.interest[f] /\ t.eventRefs[f] = s.eventRefs[f]
    BY <2>1 DEF NoInterest
  <2>3. /\ s.eventRefs[f] = s.interest[f].ref
        /\ KindOf(s, s.eventRefs[f]) # "INVALID"
        /\ Exists(s, KindOf(s, s.eventRefs[f]), f)
    BY <2>1, <2>2 DEF Tables, WatchedOK
  <2>4. s.eventRefs[f] \in Ref
    BY <2>1, <2>2, <2>3, <1>1
  <2>5. KindOf(t, t.eventRefs[f]) = KindOf(s, s.eventRefs[f])
    BY <2>2, <2>4, <1>4
  <2>6. QED
    BY <2>2, <2>3, <2>5, <1>7
<1>10. \A f \in AllFd \ fds : s.eventRefs[f] # None =>
         t.eventRefs[f] = s.eventRefs[f] /\ KindOf(t, t.eventRefs[f]) = KindOf(s, s.eventRefs[f])
  BY <1>1, <1>4
<1>11. LiveOK(t)
  <2>1. ASSUME NEW f \in Fd, ~t.stopped, IsConnection(t, f)
        PROVE  /\ t.eventRefs[f] # None
               /\ KindOf(t, t.eventRefs[f]) = "CLIENT"
               /\ t.interest[f] = [ref |-> t.eventRefs[f],
                                   events |-> EventsFor(t.connections[f].state)]
    <3>1. f \in AllFd \ fds /\ ~s.stopped /\ IsConnection(s, f)
      BY <2>1, <1>5, <1>2
    <3>2. /\ s.eventRefs[f] # None
          /\ KindOf(s, s.eventRefs[f]) = "CLIENT"
          /\ s.interest[f] = [ref |-> s.eventRefs[f],
                              events |-> EventsFor(s.connections[f].state)]
      BY <3>1 DEF Tables, LiveOK
    <3>3. t.interest[f] = s.interest[f] /\ t.connections[f].state = s.connections[f].state
      BY <3>1
    <3>4. QED
      BY <3>1, <3>2, <3>3, <1>10
  <2>2. ASSUME NEW f \in Fd, ~t.stopped, IsJob(t, f)
        PROVE  /\ t.eventRefs[f] # None
               /\ KindOf(t, t.eventRefs[f]) = "CGI"
               /\ t.interest[f] = [ref |-> t.eventRefs[f], events |-> {"IN"}]
    <3>1. f \in AllFd \ fds /\ ~s.stopped /\ IsJob(s, f)
      BY <2>2, <1>6, <1>2
    <3>2. /\ s.eventRefs[f] # None
          /\ KindOf(s, s.eventRefs[f]) = "CGI"
          /\ s.interest[f] = [ref |-> s.eventRefs[f], events |-> {"IN"}]
      BY <3>1 DEF Tables, LiveOK
    <3>3. QED
      BY <3>1, <3>2, <1>10
  <2>3. ASSUME NEW f \in AllFd, t.stopped
        PROVE  /\ t.interest[f].ref = None
               /\ t.eventRefs[f] # None => KindOf(t, t.eventRefs[f]) = "INVALID"
    <3>1. /\ s.interest[f].ref = None
          /\ s.eventRefs[f] # None => KindOf(s, s.eventRefs[f]) = "INVALID"
      BY <2>3 DEF Tables, LiveOK
    <3>2. QED
      BY <3>1, <1>10 DEF NoInterest
  <2>4. QED
    BY <2>1, <2>2, <2>3 DEF LiveOK
<1>12. OwnersOK(t)
  <2>1. SUFFICES ASSUME NEW j \in Fd, IsJob(t, j)
                 PROVE  /\ ~IsConnection(t, j)
                        /\ IsConnection(t, t.cgiJobs[j].client)
                        /\ \A i \in Fd : t.cgiJobs[i].client = t.cgiJobs[j].client => i = j
    BY DEF OwnersOK
  <2>2. IsJob(s, j) /\ j \notin fds /\ t.cgiJobs[j].client = s.cgiJobs[j].client
    BY <2>1, <1>6
  <2>3. /\ ~IsConnection(s, j)
        /\ IsConnection(s, s.cgiJobs[j].client)
        /\ \A i \in Fd : s.cgiJobs[i].client = s.cgiJobs[j].client => i = j
    BY <2>2 DEF Tables, OwnersOK
  <2>4. s.cgiJobs[j].client \in Fd \ fds
    BY <2>2, <1>1 DEF CgiJob, IsJob
  <2>5. QED
    BY <2>2, <2>3, <2>4, <1>2, <1>5
<1>13. BatchOK(t, b, quiet)
  <2>1. SUFFICES ASSUME NEW r \in Ref, b[r] # {}
                 PROVE  /\ KindOf(t, r) # "FREED"
                        /\ KindOf(t, r) # "INVALID" => t.eventRefs[t.refs[r].fd] = r
                        /\ Exists(t, KindOf(t, r), t.refs[r].fd)
                        /\ KindOf(t, r) = "CLIENT" =>
                             Fits(b[r], t.connections[t.refs[r].fd].state, t.refs[r].fd, quiet)
    BY DEF BatchOK
  <2>2. /\ KindOf(s, r) # "FREED"
        /\ KindOf(s, r) # "INVALID" => s.eventRefs[s.refs[r].fd] = r
        /\ Exists(s, KindOf(s, r), s.refs[r].fd)
        /\ KindOf(s, r) = "CLIENT" =>
             Fits(b[r], s.connections[s.refs[r].fd].state, s.refs[r].fd, quiet)
    BY <2>1 DEF Tables, BatchOK
  <2>3. CASE KindOf(t, r) = "INVALID"
    BY <2>3 DEF Exists
  <2>4. CASE KindOf(t, r) # "INVALID"
    <3>1. r \notin gone /\ KindOf(t, r) = KindOf(s, r) /\ KindOf(s, r) # "INVALID"
      BY <2>4
    <3>2. t.refs[r].fd = s.refs[r].fd /\ s.refs[r].fd \in AllFd /\ s.eventRefs[s.refs[r].fd] = r
      BY <3>1, <2>2, <1>1
    <3>3. s.refs[r].fd \notin fds
      BY <3>1, <3>2, <1>2
    <3>4. t.eventRefs[s.refs[r].fd] = r /\ Exists(t, KindOf(t, r), s.refs[r].fd)
      BY <3>1, <3>2, <3>3, <1>7, <2>2
    <3>5. KindOf(t, r) = "CLIENT" => t.connections[s.refs[r].fd].state = s.connections[s.refs[r].fd].state
      BY <3>1, <3>3, <2>2 DEF Exists
    <3>6. QED
      BY <3>1, <3>2, <3>4, <3>5, <2>2
  <2>5. QED
    BY <2>3, <2>4
<1>14. QED
  BY <1>8, <1>9, <1>11, <1>12, <1>13 DEF Tables

\* A response is put into the write buffer of a connection that is not about
\* to be read from.
LEMMA RespondTables ==
  ASSUME NEW s, NEW b, NEW quiet, Tables(s, b, quiet),
         NEW fd \in Fd, IsConnection(s, fd), <<fd, "IN">> \in quiet
  PROVE  Tables(Respond(s, fd), b, quiet) /\ Became(s, Respond(s, fd), fd, "WRITING")
<1> DEFINE c == [s.connections EXCEPT ![fd].pending = TRUE]
           m == [s EXCEPT !.connections = c]
<1>1. s \in Server /\ s.connections \in [Fd -> Connection]
  BY DEF Tables, Server
<1>2. /\ c \in [Fd -> Connection]
      /\ \A f \in Fd : c[f].state = s.connections[f].state
  BY <1>1 DEF Connection
<1>3. /\ m \in Server /\ m.connections = c /\ m.cgiJobs = s.cgiJobs /\ m.stopped = s.stopped
      /\ m.refs = s.refs /\ m.eventRefs = s.eventRefs /\ m.staleRefs = s.staleRefs
      /\ m.interest = s.interest
  BY <1>1, <1>2 DEF Server
<1>4. Tables(m, b, quiet)
  <2>1. /\ \A f \in Fd : m.connections[f].state = s.connections[f].state
        /\ \A i \in Fd : m.cgiJobs[i].client = s.cgiJobs[i].client
    BY ONLY <1>2, <1>3
  <2>2. Tables(s, b, quiet)
    OBVIOUS
  <2> HIDE DEF m
  <2>3. QED
    BY ONLY <1>3, <2>1, <2>2, FrameTables
<1>5. Respond(s, fd) = Enter(m, fd, "WRITING")
  BY DEF Respond
<1>6. IsConnection(m, fd)
  BY <1>2, <1>3 DEF IsConnection
<1> HIDE DEF m
<1>7. Tables(Enter(m, fd, "WRITING"), b, quiet) /\ Became(m, Enter(m, fd, "WRITING"), fd, "WRITING")
  BY <1>4, <1>6, EnterTables DEF ConnState
<1>8. QED
  BY <1>2, <1>3, <1>5, <1>7 DEF Became

\* A set of jobs is closed; the connections stay as they are.
LEMMA CloseJobsTables ==
  ASSUME NEW s, NEW b, NEW quiet, Tables(s, b, quiet),
         NEW jobs \in SUBSET Fd, \A j \in jobs : IsJob(s, j)
  PROVE  /\ Tables(CloseCgiJobs(s, jobs), b, quiet)
         /\ CloseCgiJobs(s, jobs).connections = s.connections
         /\ CloseCgiJobs(s, jobs).stopped = s.stopped
         /\ CloseCgiJobs(s, jobs).cgiJobs =
              [j \in Fd |-> IF j \in jobs THEN NoJob ELSE s.cgiJobs[j]]
<1> DEFINE pids    == {s.cgiJobs[j].pid : j \in jobs} \ {None}
           running == {p \in pids : s.child[p] = "RUNNING"}
           ch      == [p \in Pid |-> IF p \in pids \ running THEN "NONE" ELSE s.child[p]]
           pr      == s.pendingReap \cup running
           jb      == [j \in Fd |-> IF j \in jobs THEN NoJob ELSE s.cgiJobs[j]]
           m       == [s EXCEPT !.child = ch, !.pendingReap = pr, !.cgiJobs = jb]
           gone    == {m.eventRefs[f] : f \in jobs} \ {None}
           it      == [f \in AllFd |-> IF f \in jobs THEN NoInterest ELSE m.interest[f]]
           rf      == [r \in Ref |-> IF r \in gone THEN [m.refs[r] EXCEPT !.kind = "INVALID"]
                                                   ELSE m.refs[r]]
           st      == m.staleRefs \cup gone
           er      == [f \in AllFd |-> IF f \in jobs THEN None ELSE m.eventRefs[f]]
           t       == [m EXCEPT !.interest = it, !.refs = rf, !.staleRefs = st, !.eventRefs = er]
<1>1. s \in Server /\ jobs \subseteq AllFd
  BY DEF Tables, AllFd
<1>2. pids \subseteq Pid
  BY <1>1 DEF Server, CgiJob
<1>3. ch \in [Pid -> {"NONE", "RUNNING", "ZOMBIE"}] /\ pr \in SUBSET Pid
  BY <1>1, <1>2 DEF Server
<1>4. NoJob \in CgiJob /\ NoJob.client = None
  BY DEF NoJob, CgiJob
<1>5. jb \in [Fd -> CgiJob]
  BY <1>1, <1>4 DEF Server
<1>6. /\ m \in Server /\ m.cgiJobs = jb /\ m.connections = s.connections
      /\ m.refs = s.refs /\ m.eventRefs = s.eventRefs /\ m.staleRefs = s.staleRefs
      /\ m.interest = s.interest /\ m.stopped = s.stopped
  BY <1>1, <1>3, <1>5 DEF Server
<1> HIDE DEF m
<1>7. it \in [AllFd -> Interest]
  BY <1>6 DEF Server, Interest, NoInterest
<1>8. rf \in [Ref -> [kind : EventKind, fd : AllFd]]
  BY <1>6 DEF Server, EventKind
<1>9. st \in SUBSET Ref
  BY <1>1, <1>6 DEF Server
<1>10. er \in [AllFd -> Ref \cup {None}]
  BY <1>6 DEF Server
<1>11. /\ t \in Server /\ t.cgiJobs = jb /\ t.connections = s.connections
       /\ t.refs = rf /\ t.eventRefs = er /\ t.staleRefs = st
       /\ t.interest = it /\ t.stopped = s.stopped
  BY <1>6, <1>7, <1>8, <1>9, <1>10 DEF Server
<1>12. CloseCgiJobs(s, jobs) = t
  BY DEF CloseCgiJobs, UnregisterEventFds, m
<1>13. Dropped(s, t, jobs)
  <2>1. \A f \in jobs : s.connections[f].state = "FREE"
    BY DEF Tables, OwnersOK, IsConnection
  <2>2. \A f \in Fd : t.connections[f].state = IF f \in jobs THEN "FREE" ELSE s.connections[f].state
    BY <2>1, <1>11
  <2>3. \A f \in Fd : t.cgiJobs[f].client = IF f \in jobs THEN None ELSE s.cgiJobs[f].client
    BY <1>4, <1>11
  <2>4. \A r \in Ref : /\ rf[r].kind = IF r \in gone THEN "INVALID" ELSE m.refs[r].kind
                       /\ rf[r].fd = m.refs[r].fd
    BY <1>6 DEF Server
  <2>5. \A r \in Ref : /\ KindOf(t, r) = IF r \in gone THEN "INVALID" ELSE KindOf(s, r)
                       /\ t.refs[r].fd = s.refs[r].fd
    BY <2>4, <1>6, <1>11 DEF KindOf
  <2>6. gone = {s.eventRefs[f] : f \in jobs} \ {None}
    BY <1>6
  <2>7. \A f \in AllFd : /\ t.eventRefs[f] = IF f \in jobs THEN None ELSE s.eventRefs[f]
                         /\ t.interest[f] = IF f \in jobs THEN NoInterest ELSE s.interest[f]
    BY <1>6, <1>11
  <2>8. t.staleRefs = s.staleRefs \cup gone
    BY <1>6, <1>11
  <2> HIDE DEF t, gone
  <2>9. QED
    BY <2>2, <2>3, <2>5, <2>6, <2>7, <2>8, <1>11 DEF Dropped
<1>14. \A j \in Fd \ jobs : IsJob(s, j) => s.cgiJobs[j].client \notin jobs
  BY DEF Tables, OwnersOK
<1>15. Tables(t, b, quiet)
  BY <1>13, <1>14, DropTables
<1>16. QED
  BY <1>11, <1>12, <1>15

\* A client, if there is one, is closed with its jobs.
LEMMA CloseClientTables ==
  ASSUME NEW s, NEW b, NEW quiet, Tables(s, b, quiet),
         NEW fd \in Fd, ~IsJob(s, fd)
  PROVE  /\ Tables(CloseClient(s, fd), b, quiet)
         /\ CloseClient(s, fd).stopped = s.stopped
         /\ \A f \in Fd : CloseClient(s, fd).connections[f].state =
                            IF f = fd THEN "FREE" ELSE s.connections[f].state
         /\ CloseClient(s, fd).cgiJobs =
              [j \in Fd |-> IF j \in JobsOf(s, fd) THEN NoJob ELSE s.cgiJobs[j]]
<1> DEFINE jobs == JobsOf(s, fd)
           u    == CloseCgiJobs(s, jobs)
           gone == {u.eventRefs[f] : f \in {fd}} \ {None}
           it   == [f \in AllFd |-> IF f \in {fd} THEN NoInterest ELSE u.interest[f]]
           rf   == [r \in Ref |-> IF r \in gone THEN [u.refs[r] EXCEPT !.kind = "INVALID"]
                                                ELSE u.refs[r]]
           st   == u.staleRefs \cup gone
           er   == [f \in AllFd |-> IF f \in {fd} THEN None ELSE u.eventRefs[f]]
           v    == [u EXCEPT !.interest = it, !.refs = rf, !.staleRefs = st, !.eventRefs = er]
           c    == [v.connections EXCEPT ![fd] = NoConnection]
           i    == [v.interest EXCEPT ![fd] = NoInterest]
           t    == CloseClient(s, fd)
<1>1. fd \in AllFd /\ None \notin Fd
  BY ConstantsDistinct DEF AllFd
<1>2. jobs \in SUBSET Fd /\ \A j \in jobs : IsJob(s, j)
  BY <1>1 DEF JobsOf, IsJob
<1>3. /\ Tables(u, b, quiet) /\ u.connections = s.connections /\ u.stopped = s.stopped
      /\ u.cgiJobs = [j \in Fd |-> IF j \in jobs THEN NoJob ELSE s.cgiJobs[j]]
  BY <1>2, CloseJobsTables
<1>4. u \in Server
  BY <1>3 DEF Tables
<1>5. it \in [AllFd -> Interest]
  BY <1>4 DEF Server, Interest, NoInterest
<1>6. rf \in [Ref -> [kind : EventKind, fd : AllFd]]
  BY <1>4 DEF Server, EventKind
<1>7. st \in SUBSET Ref
  BY <1>1, <1>4 DEF Server
<1>8. er \in [AllFd -> Ref \cup {None}]
  BY <1>4 DEF Server
<1>9. /\ v \in Server /\ v.cgiJobs = u.cgiJobs /\ v.connections = u.connections
      /\ v.refs = rf /\ v.eventRefs = er /\ v.staleRefs = st
      /\ v.interest = it /\ v.stopped = u.stopped
  BY <1>4, <1>5, <1>6, <1>7, <1>8 DEF Server
<1>10. t = CloseConnection(v, fd)
  BY DEF CloseClient, CloseCgiJobsForClient, UnregisterEventFd, UnregisterEventFds
<1> HIDE DEF v, t
<1>11. NoConnection \in Connection /\ NoConnection.state = "FREE"
  BY DEF NoConnection, Connection, ConnState
<1>12. /\ t \in Server /\ t.cgiJobs = u.cgiJobs /\ t.refs = rf /\ t.eventRefs = er
       /\ t.staleRefs = st /\ t.interest = it /\ t.stopped = u.stopped
       /\ \A f \in Fd : t.connections[f].state = IF f = fd THEN "FREE" ELSE u.connections[f].state
  <2>1. CASE IsConnection(v, fd)
    <3>1. t = [v EXCEPT !.connections = c, !.interest = i]
      BY <2>1, <1>10 DEF CloseConnection
    <3>2. c \in [Fd -> Connection] /\ \A f \in Fd : c[f].state = IF f = fd THEN "FREE" ELSE u.connections[f].state
      BY <1>4, <1>9, <1>11 DEF Server
    <3>3. i = it
      BY <1>1, <1>9
    <3>4. QED
      BY <3>1, <3>2, <3>3, <1>5, <1>9 DEF Server
  <2>2. CASE ~IsConnection(v, fd)
    <3>1. t = v
      BY <2>2, <1>10 DEF CloseConnection
    <3>2. QED
      BY <3>1, <2>2, <1>9 DEF IsConnection
  <2>3. QED
    BY <2>1, <2>2
<1>13. u.cgiJobs[fd].client = None
  BY <1>2, <1>3 DEF IsJob
<1>14. Dropped(u, t, {fd})
  <2>1. \A r \in Ref : /\ KindOf(t, r) = IF r \in gone THEN "INVALID" ELSE KindOf(u, r)
                       /\ t.refs[r].fd = u.refs[r].fd
    BY <1>4, <1>12 DEF KindOf, Server
  <2>2. \A f \in Fd : t.cgiJobs[f].client = IF f \in {fd} THEN None ELSE u.cgiJobs[f].client
    BY <1>12, <1>13
  <2>3. QED
    BY <2>1, <2>2, <1>1, <1>12 DEF Dropped
<1> HIDE DEF u
<1>15. \A j \in Fd \ {fd} : IsJob(u, j) => u.cgiJobs[j].client \notin {fd}
  <2>1. SUFFICES ASSUME NEW j \in Fd, IsJob(u, j) PROVE u.cgiJobs[j].client # fd
    OBVIOUS
  <2>2. u.cgiJobs[j] = IF j \in jobs THEN NoJob ELSE s.cgiJobs[j]
    BY ONLY <1>3, <2>1
  <2>3. j \notin jobs
    BY ONLY <2>1, <2>2 DEF IsJob, NoJob
  <2>4. QED
    BY <2>2, <2>3 DEF JobsOf
<1>16. Tables(t, b, quiet)
  <2>1. {fd} \in SUBSET Fd /\ Tables(u, b, quiet)
    BY <1>3
  <2>2. \A j \in Fd \ {fd} : IsJob(u, j) => u.cgiJobs[j].client \notin {fd}
    BY <1>15
  <2>3. QED
    BY ONLY <2>1, <2>2, <1>14, DropTables
<1>17. QED
  BY <1>3, <1>12, <1>16 DEF t

\* The client of a job is a live connection, which is not about to be read
\* from, and no other job has it.
LEMMA JobClient ==
  ASSUME NEW s, NEW b, NEW quiet, Tables(s, b, quiet), NEW j \in Fd, IsJob(s, j)
  PROVE  /\ s.cgiJobs[j].client \in Fd
         /\ IsConnection(s, s.cgiJobs[j].client)
         /\ \A i \in Fd : s.cgiJobs[i].client = s.cgiJobs[j].client => i = j
<1>1. s.cgiJobs \in [Fd -> CgiJob]
  BY DEF Tables, Server
<1>2. QED
  BY <1>1 DEF Tables, OwnersOK, CgiJob, IsJob

\* Connections keep their state, or go on to write.
Moved(s, t) ==
  /\ t.stopped = s.stopped
  /\ \A f \in Fd : \/ t.connections[f].state = s.connections[f].state
                   \/ IsConnection(s, f) /\ t.connections[f].state = "WRITING"

\* A job fails: its client gets a response, the job is gone.
LEMMA FailTables ==
  ASSUME NEW s, NEW b, NEW quiet, Tables(s, b, quiet), JobStates(s),
         NEW j \in Fd, IsJob(s, j), <<s.cgiJobs[j].client, "IN">> \in quiet
  PROVE  /\ Tables(FailCgiJob(s, j), b, quiet)
         /\ JobStates(FailCgiJob(s, j))
         /\ Moved(s, FailCgiJob(s, j))
<1> DEFINE fd == s.cgiJobs[j].client
           m  == Respond(s, fd)
           t  == CloseCgiJobs(m, {j})
<1>1. fd \in Fd /\ IsConnection(s, fd) /\ \A i \in Fd : s.cgiJobs[i].client = fd => i = j
  BY JobClient
<1>2. Tables(m, b, quiet) /\ Became(s, m, fd, "WRITING")
  BY <1>1, RespondTables
<1>3. IsJob(m, j)
  BY <1>2 DEF Became, IsJob
<1>4. FailCgiJob(s, j) = t
  BY <1>1, <1>3 DEF FailCgiJob, CloseCgiJob
<1> HIDE DEF m
<1>5. /\ Tables(t, b, quiet) /\ t.connections = m.connections /\ t.stopped = m.stopped
      /\ t.cgiJobs = [i \in Fd |-> IF i \in {j} THEN NoJob ELSE m.cgiJobs[i]]
  BY <1>2, <1>3, CloseJobsTables
<1> HIDE DEF t
<1>6. JobStates(t)
  <2>1. SUFFICES ASSUME NEW i \in Fd, IsJob(t, i)
                 PROVE  t.connections[t.cgiJobs[i].client].state =
                          IF t.cgiJobs[i].headersSent THEN "WRITING" ELSE "CGI_RUNNING"
    BY DEF JobStates
  <2>2. i # j /\ t.cgiJobs[i] = s.cgiJobs[i] /\ IsJob(s, i)
    BY <2>1, <1>2, <1>5 DEF IsJob, NoJob, Became
  <2>3. s.cgiJobs[i].client \in Fd /\ s.cgiJobs[i].client # fd
    BY <2>2, <1>1, JobClient
  <2>4. QED
    BY <2>2, <2>3, <1>2, <1>5 DEF JobStates, Became
<1>7. QED
  BY <1>1, <1>2, <1>4, <1>5, <1>6 DEF Became, Moved

\* The end of a job's output.
LEMMA FinishTables ==
  ASSUME NEW s, NEW b, NEW quiet, Tables(s, b, quiet), JobStates(s),
         NEW j \in Fd, IsJob(s, j), <<s.cgiJobs[j].client, "IN">> \in quiet, NEW head \in BOOLEAN
  PROVE  /\ Tables(FinishCgiJob(s, j, head), b, quiet)
         /\ JobStates(FinishCgiJob(s, j, head))
         /\ Moved(s, FinishCgiJob(s, j, head))
<1> DEFINE fd == s.cgiJobs[j].client
           c  == [s.connections EXCEPT ![fd].pending = TRUE]
           p  == [s EXCEPT !.connections = c]
           m  == IF IsConnection(s, fd) /\ ~head THEN p ELSE s
           u  == CloseCgiJobs(m, {j})
           t  == Enter(u, fd, "WRITING")
<1>1. fd \in Fd /\ IsConnection(s, fd) /\ \A i \in Fd : s.cgiJobs[i].client = fd => i = j
  BY JobClient
<1>2. CASE ~s.cgiJobs[j].headersSent
  BY <1>2, FailTables DEF FinishCgiJob
<1>3. CASE s.cgiJobs[j].headersSent
  <2>1. s \in Server /\ s.connections \in [Fd -> Connection]
    BY DEF Tables, Server
  <2>2. c \in [Fd -> Connection] /\ \A f \in Fd : c[f].state = s.connections[f].state
    BY <2>1 DEF Connection
  <2>3. /\ p \in Server /\ p.connections = c /\ p.cgiJobs = s.cgiJobs /\ p.stopped = s.stopped
        /\ p.refs = s.refs /\ p.eventRefs = s.eventRefs /\ p.staleRefs = s.staleRefs
        /\ p.interest = s.interest
    BY <2>1, <2>2 DEF Server
  <2>4. Tables(p, b, quiet)
    <3>1. /\ \A f \in Fd : p.connections[f].state = s.connections[f].state
          /\ \A i \in Fd : p.cgiJobs[i].client = s.cgiJobs[i].client
      BY ONLY <2>2, <2>3
    <3>2. Tables(s, b, quiet)
      OBVIOUS
    <3> HIDE DEF p
    <3>3. QED
      BY ONLY <2>3, <3>1, <3>2, FrameTables
  <2>5. /\ Tables(m, b, quiet) /\ m.cgiJobs = s.cgiJobs /\ m.stopped = s.stopped
        /\ \A f \in Fd : m.connections[f].state = s.connections[f].state
    <3> DEFINE Kept(x) == /\ Tables(x, b, quiet) /\ x.cgiJobs = s.cgiJobs /\ x.stopped = s.stopped
                          /\ \A f \in Fd : x.connections[f].state = s.connections[f].state
    <3>1. Kept(p)
      BY ONLY <2>2, <2>3, <2>4
    <3>2. Kept(s)
      OBVIOUS
    <3>3. m \in {p, s}
      OBVIOUS
    <3> HIDE DEF p, m, Kept
    <3>4. Kept(m)
      BY ONLY <3>1, <3>2, <3>3
    <3>5. QED
      BY <3>4 DEF Kept
  <2> HIDE DEF m
  <2>6. IsJob(m, j)
    BY <2>5 DEF IsJob
  <2>7. /\ Tables(u, b, quiet) /\ u.connections = m.connections /\ u.stopped = m.stopped
        /\ u.cgiJobs = [i \in Fd |-> IF i \in {j} THEN NoJob ELSE m.cgiJobs[i]]
    BY <2>5, <2>6, CloseJobsTables
  <2> HIDE DEF u
  <2>8. IsConnection(u, fd)
    BY <1>1, <2>5, <2>7 DEF IsConnection
  <2>9. Tables(t, b, quiet) /\ Became(u, t, fd, "WRITING")
    BY <1>1, <2>7, <2>8, EnterTables DEF ConnState
  <2>10. FinishCgiJob(s, j, head) = t
    BY <1>3, <2>6, <2>8 DEF FinishCgiJob, CloseCgiJob, m, u
  <2> HIDE DEF t
  <2>11. JobStates(t)
    <3>1. SUFFICES ASSUME NEW i \in Fd, IsJob(t, i)
                   PROVE  t.connections[t.cgiJobs[i].client].state =
                            IF t.cgiJobs[i].headersSent THEN "WRITING" ELSE "CGI_RUNNING"
      BY DEF JobStates
    <3>2. i # j /\ t.cgiJobs[i] = s.cgiJobs[i] /\ IsJob(s, i)
      BY <3>1, <2>5, <2>7, <2>9 DEF IsJob, NoJob, Became
    <3>3. s.cgiJobs[i].client \in Fd /\ s.cgiJobs[i].client # fd
      BY <3>2, <1>1, JobClient
    <3>4. QED
      BY <3>2, <3>3, <2>5, <2>7, <2>9 DEF JobStates, Became
  <2>12. Moved(s, t)
    BY <1>1, <2>5, <2>7, <2>9 DEF Became, Moved
  <2>13. QED
    BY <2>9, <2>10, <2>11, <2>12
<1>4. QED
  BY <1>2, <1>3

\* One event on a job's pipe, or one turn of the pump.
LEMMA CgiEventTables ==
  ASSUME NEW s, NEW b, NEW quiet, Tables(s, b, quiet), JobStates(s), NEW j \in Fd,
         IsJob(s, j) => <<s.cgiJobs[j].client, "IN">> \in quiet, NEW o \in CgiOutcome
  PROVE  /\ Tables(HandleCgiEvent(s, j, o), b, quiet)
         /\ JobStates(HandleCgiEvent(s, j, o))
         /\ Moved(s, HandleCgiEvent(s, j, o))
<1> DEFINE fd == s.cgiJobs[j].client
           g  == [s.cgiJobs EXCEPT ![j].headersSent = TRUE]
           m  == [s EXCEPT !.cgiJobs = g]
           t  == Respond(m, fd)
<1>1. CASE s.stopped \/ ~IsJob(s, j)
  BY <1>1 DEF HandleCgiEvent, Moved
<1>2. CASE ~s.stopped /\ IsJob(s, j)
  <2>1. fd \in Fd /\ IsConnection(s, fd) /\ \A i \in Fd : s.cgiJobs[i].client = fd => i = j
    BY <1>2, JobClient
  <2>2. CASE o = "nothing"
    BY <1>2, <2>1, <2>2 DEF HandleCgiEvent, Moved
  <2>3. CASE o = "eof"
    BY <1>2, <2>1, <2>3, FinishTables DEF HandleCgiEvent
  <2>4. CASE o = "eofHead"
    BY <1>2, <2>1, <2>4, FinishTables DEF HandleCgiEvent
  <2>5. CASE o = "fail"
    BY <1>2, <2>1, <2>5, FailTables DEF HandleCgiEvent
  <2>6. CASE o = "output"
    <3>1. s \in Server /\ s.cgiJobs \in [Fd -> CgiJob]
      BY DEF Tables, Server
    <3>2. /\ g \in [Fd -> CgiJob] /\ g[j].headersSent = TRUE
          /\ \A i \in Fd : g[i].client = s.cgiJobs[i].client /\ (i # j => g[i] = s.cgiJobs[i])
      BY <3>1 DEF CgiJob
    <3>3. /\ m \in Server /\ m.connections = s.connections /\ m.cgiJobs = g /\ m.stopped = s.stopped
          /\ m.refs = s.refs /\ m.eventRefs = s.eventRefs /\ m.staleRefs = s.staleRefs
          /\ m.interest = s.interest
      BY <3>1, <3>2 DEF Server
    <3>4. HandleCgiEvent(s, j, o) = t
      BY <1>2, <2>1, <2>6 DEF HandleCgiEvent
    <3> HIDE DEF m, g
    <3>5. Tables(m, b, quiet)
      BY <3>2, <3>3, FrameTables
    <3>6. IsConnection(m, fd)
      BY <2>1, <3>3 DEF IsConnection
    <3>7. Tables(t, b, quiet) /\ Became(m, t, fd, "WRITING")
      BY <1>2, <2>1, <3>5, <3>6, RespondTables
    <3> HIDE DEF t
    <3>8. JobStates(t)
      <4>1. SUFFICES ASSUME NEW i \in Fd, IsJob(t, i)
                     PROVE  t.connections[t.cgiJobs[i].client].state =
                              IF t.cgiJobs[i].headersSent THEN "WRITING" ELSE "CGI_RUNNING"
        BY DEF JobStates
      <4>2. t.cgiJobs = g /\ IsJob(s, i)
        BY <4>1, <3>2, <3>3, <3>7 DEF Became, IsJob
      <4>3. CASE i = j
        BY <4>2, <4>3, <2>1, <3>2, <3>7 DEF Became
      <4>4. CASE i # j
        <5>1. s.cgiJobs[i].client \in Fd /\ s.cgiJobs[i].client # fd /\ g[i] = s.cgiJobs[i]
          BY <4>2, <4>4, <2>1, <3>2, JobClient
        <5>2. QED
          BY <4>2, <5>1, <3>3, <3>7 DEF Became, JobStates
      <4>5. QED
        BY <4>3, <4>4
    <3>9. Moved(s, t)
      BY <2>1, <3>3, <3>7 DEF Became, Moved
    <3>10. QED
      BY <3>4, <3>7, <3>8, <3>9
  <2>7. QED
    BY <2>2, <2>3, <2>4, <2>5, <2>6 DEF CgiOutcome
<1>3. QED
  BY <1>1, <1>2

\* Whatever changes of the connections but their state.
LEMMA BytesTables ==
  ASSUME NEW s, NEW b, NEW quiet, Tables(s, b, quiet), JobStates(s),
         NEW c \in [Fd -> Connection], \A f \in Fd : c[f].state = s.connections[f].state,
         NEW m, m = [s EXCEPT !.connections = c]
  PROVE  /\ Tables(m, b, quiet) /\ JobStates(m) /\ Moved(s, m)
         /\ m.connections = c /\ m.cgiJobs = s.cgiJobs /\ m.stopped = s.stopped
         /\ m.refs = s.refs /\ m.eventRefs = s.eventRefs
<1>1. s \in Server
  BY DEF Tables
<1>2. /\ m \in Server /\ m.connections = c /\ m.cgiJobs = s.cgiJobs /\ m.stopped = s.stopped
      /\ m.refs = s.refs /\ m.eventRefs = s.eventRefs /\ m.staleRefs = s.staleRefs
      /\ m.interest = s.interest
  BY <1>1 DEF Server
<1>3. Tables(m, b, quiet)
  BY <1>2, FrameTables
<1>4. JobStates(m)
  <2>1. \A j \in Fd : IsJob(m, j) => IsJob(s, j) /\ m.cgiJobs[j].client \in Fd
    BY <1>2, JobClient DEF IsJob
  <2>2. QED
    BY <2>1, <1>2 DEF JobStates
<1>5. QED
  BY <1>2, <1>3, <1>4 DEF Moved

\* Re-arming the pipe of a job changes nothing: it is always armed for input.
LEMMA RearmJob ==
  ASSUME NEW s, NEW b, NEW quiet, Tables(s, b, quiet), NEW j \in Fd, IsJob(s, j)
  PROVE  ModifyEventFd(s, j, {"IN"}) = s
<1>1. s \in Server /\ j \in AllFd /\ s.interest \in [AllFd -> Interest]
  BY DEF Tables, Server, AllFd
<1>2. CASE s.stopped
  BY <1>1, <1>2 DEF ModifyEventFd, Tables, LiveOK, KindOf
<1>3. CASE ~s.stopped
  <2>1. /\ s.eventRefs[j] # None
        /\ KindOf(s, s.eventRefs[j]) = "CGI"
        /\ s.interest[j] = [ref |-> s.eventRefs[j], events |-> {"IN"}]
    BY <1>3 DEF Tables, LiveOK
  <2>2. s.interest[j] # NoInterest
    BY <2>1 DEF NoInterest
  <2>3. ModifyEventFd(s, j, {"IN"}) =
          [s EXCEPT !.interest = [s.interest EXCEPT ![j] = [ref |-> s.eventRefs[j], events |-> {"IN"}]]]
    BY <2>1, <2>2 DEF ModifyEventFd, KindOf
  <2>4. [s.interest EXCEPT ![j] = [ref |-> s.eventRefs[j], events |-> {"IN"}]] = s.interest
    BY <2>1, <1>1
  <2>5. [s EXCEPT !.interest = s.interest] = s
    BY <1>1 DEF Server
  <2>6. QED
    BY <2>3, <2>4, <2>5
<1>4. QED
  BY <1>2, <1>3

\* One call of _handleWrite, for a connection none of whose events is pending.
LEMMA WriteTables ==
  ASSUME NEW s, NEW b, NEW quiet, Tables(s, b, quiet), JobStates(s),
         NEW fd \in Fd, s.connections[fd].state \in {"READING", "WRITING"},
         <<fd, "IN">> \in quiet, <<fd, "OUT">> \in quiet, NEW w \in WriteOutcome
  PROVE  LET t == HandleWrite(s, fd, w)
         IN  /\ Tables(t, b, quiet)
             /\ JobStates(t)
             /\ ~IsJob(t, fd)
             /\ t.stopped = s.stopped
             /\ \A f \in Fd \ {fd} : \/ t.connections[f].state = s.connections[f].state
                                     \/ IsConnection(s, f) /\ t.connections[f].state = "WRITING"
<1> DEFINE conn == s.connections[fd]
           tc   == [s.connections EXCEPT ![fd].idle = FALSE]
           fc   == [tc EXCEPT ![fd].pending = (w.sent # "all")]
           m    == IF conn.pending /\ w.sent # "none"
                     THEN [Touch(s, fd) EXCEPT !.connections[fd].pending = (w.sent # "all")]
                     ELSE s
           t    == HandleWrite(s, fd, w)
<1>1. s.connections \in [Fd -> Connection]
  BY DEF Tables, Server
<1>2. fc \in [Fd -> Connection] /\ \A f \in Fd : fc[f].state = s.connections[f].state
  BY <1>1 DEF Connection
<1>3. [Touch(s, fd) EXCEPT !.connections[fd].pending = (w.sent # "all")] = [s EXCEPT !.connections = fc]
  BY DEF Touch
<1>4. /\ Tables(m, b, quiet) /\ JobStates(m) /\ m.cgiJobs = s.cgiJobs /\ m.stopped = s.stopped
      /\ \A f \in Fd : m.connections[f].state = s.connections[f].state
  <2>1. CASE conn.pending /\ w.sent # "none"
    <3>1. m = [s EXCEPT !.connections = fc]
      BY <1>3, <2>1
    <3> HIDE DEF m, fc
    <3>2. QED
      BY <1>2, <3>1, BytesTables
  <2>2. CASE ~(conn.pending /\ w.sent # "none")
    BY <2>2
  <2>3. QED
    BY <2>1, <2>2
<1>5. t = IF JobsOf(m, fd) # {}
            THEN LET j      == CHOOSE x \in JobsOf(m, fd) : TRUE
                     pumped == IF w.low \/ ~m.connections[fd].pending
                                 THEN HandleCgiEvent(ModifyEventFd(m, j, {"IN"}), j, w.pump)
                                 ELSE m
                 IN  IF IsConnection(pumped, fd) THEN Enter(pumped, fd, "WRITING") ELSE pumped
          ELSE IF m.connections[fd].pending THEN Enter(m, fd, "WRITING")
          ELSE IF ~conn.halfClosed /\ w.keepAlive
            THEN RearmClient([m EXCEPT !.connections[fd] = NewConnection], fd)
          ELSE CloseClient(m, fd)
  BY DEF HandleWrite
<1> HIDE DEF m, t
<1>6. IsConnection(m, fd) /\ ~IsJob(m, fd)
  BY <1>4 DEF IsConnection, Tables, OwnersOK
<1>7. CASE JobsOf(m, fd) # {}
  <2> DEFINE j == CHOOSE x \in JobsOf(m, fd) : TRUE
             p == IF w.low \/ ~m.connections[fd].pending
                    THEN HandleCgiEvent(m, j, w.pump) ELSE m
  <2>1. j \in JobsOf(m, fd)
    BY <1>7
  <2> HIDE DEF j
  <2>2. j \in Fd /\ m.cgiJobs[j].client = fd /\ IsJob(m, j)
    BY <2>1, ConstantsDistinct DEF JobsOf, IsJob
  <2>3. ModifyEventFd(m, j, {"IN"}) = m
    BY <2>2, <1>4, RearmJob
  <2>4. w.pump \in CgiOutcome
    BY DEF WriteOutcome
  <2>5. Tables(p, b, quiet) /\ JobStates(p) /\ Moved(m, p)
    <3>1. Tables(HandleCgiEvent(m, j, w.pump), b, quiet) /\ JobStates(HandleCgiEvent(m, j, w.pump))
            /\ Moved(m, HandleCgiEvent(m, j, w.pump))
      BY <2>2, <2>4, <1>4, CgiEventTables
    <3>2. Moved(m, m)
      BY DEF Moved
    <3>3. QED
      BY <3>1, <3>2, <1>4
  <2>6. m.connections[fd].state = "WRITING"
    BY <2>2, <1>4 DEF JobStates
  <2>7. p.connections[fd].state = "WRITING" /\ IsConnection(p, fd)
    BY <2>5, <2>6 DEF Moved, IsConnection
  <2>8. t = Enter(p, fd, "WRITING")
    BY <1>5, <1>7, <2>3, <2>7 DEF j
  <2> HIDE DEF p
  <2>9. Tables(t, b, quiet) /\ Became(p, t, fd, "WRITING")
    BY <2>5, <2>7, <2>8, EnterTables DEF ConnState
  <2>10. \A f \in Fd : t.connections[f].state = p.connections[f].state
    BY <2>7, <2>9 DEF Became
  <2>11. JobStates(t)
    <3>1. \A i \in Fd : IsJob(t, i) => IsJob(p, i) /\ t.cgiJobs[i].client \in Fd
      BY <2>5, <2>9, JobClient DEF IsJob, Became
    <3>2. QED
      BY <2>5, <2>9, <2>10, <3>1 DEF JobStates, Became
  <2>12. ~IsJob(t, fd)
    BY <2>7, <2>9, <2>10 DEF Tables, OwnersOK, IsConnection
  <2>13. QED
    BY <1>4, <2>5, <2>9, <2>10, <2>11, <2>12 DEF Moved, Became, IsConnection, t
<1>8. CASE JobsOf(m, fd) = {} /\ m.connections[fd].pending
  <2>1. t = Enter(m, fd, "WRITING")
    BY <1>5, <1>8
  <2>2. Tables(t, b, quiet) /\ Became(m, t, fd, "WRITING")
    BY <1>4, <1>6, <2>1, EnterTables DEF ConnState
  <2>3. JobStates(t)
    <3>1. \A i \in Fd : IsJob(t, i) => IsJob(m, i) /\ t.cgiJobs[i].client \in Fd \ {fd}
      BY <1>4, <1>8, <2>2, JobClient DEF IsJob, Became, JobsOf
    <3>2. QED
      BY <1>4, <2>2, <3>1 DEF JobStates, Became
  <2>4. QED
    BY <1>4, <1>6, <2>2, <2>3 DEF Became, IsJob, t
<1>9. CASE JobsOf(m, fd) = {} /\ ~m.connections[fd].pending /\ ~conn.halfClosed /\ w.keepAlive
  <2> DEFINE old == [NewConnection EXCEPT !.state = m.connections[fd].state]
             yc  == [m.connections EXCEPT ![fd] = old]
             y   == [m EXCEPT !.connections = yc]
  <2>1. m \in Server /\ m.connections \in [Fd -> Connection]
    BY <1>4 DEF Tables, Server
  <2>2. yc \in [Fd -> Connection] /\ \A f \in Fd : yc[f].state = m.connections[f].state
    BY <2>1 DEF NewConnection, NoConnection, Connection, ConnState
  <2>3. Tables(y, b, quiet) /\ JobStates(y) /\ Moved(m, y) /\ y.connections = yc /\ y.cgiJobs = m.cgiJobs
    <3>1. y = [m EXCEPT !.connections = yc]
      OBVIOUS
    <3> HIDE DEF y, yc
    <3>2. QED
      BY <2>2, <3>1, <1>4, BytesTables
  <2>4. Enter(y, fd, "READING") = RearmClient([m EXCEPT !.connections[fd] = NewConnection], fd)
    <3>1. [yc EXCEPT ![fd].state = "READING"] = [m.connections EXCEPT ![fd] = NewConnection]
      BY <2>1 DEF NewConnection, NoConnection
    <3>2. [y EXCEPT !.connections = [yc EXCEPT ![fd].state = "READING"]]
            = [m EXCEPT !.connections = [yc EXCEPT ![fd].state = "READING"]]
      BY <2>1 DEF Server
    <3>3. [y EXCEPT !.connections[fd].state = "READING"] = [m EXCEPT !.connections[fd] = NewConnection]
      BY <3>1, <3>2, <2>3
    <3>4. QED
      BY <3>3 DEF Enter
  <2>5. IsConnection(y, fd)
    BY <1>6, <2>2, <2>3 DEF IsConnection
  <2> HIDE DEF y
  <2>6. Tables(Enter(y, fd, "READING"), b, quiet) /\ Became(y, Enter(y, fd, "READING"), fd, "READING")
    BY <2>3, <2>5, EnterTables DEF ConnState
  <2>7. t = Enter(y, fd, "READING")
    BY <1>5, <1>9, <2>4
  <2>8. JobStates(t)
    <3>1. \A i \in Fd : IsJob(t, i) => IsJob(m, i) /\ t.cgiJobs[i].client \in Fd \ {fd}
      BY <1>4, <1>9, <2>3, <2>6, <2>7, JobClient DEF IsJob, Became, JobsOf
    <3>2. QED
      BY <1>4, <2>2, <2>3, <2>6, <2>7, <3>1 DEF JobStates, Became
  <2>9. QED
    BY <1>4, <1>6, <2>2, <2>3, <2>6, <2>7, <2>8 DEF Became, Moved, IsJob, t
<1>10. CASE JobsOf(m, fd) = {} /\ ~m.connections[fd].pending /\ ~(~conn.halfClosed /\ w.keepAlive)
  <2>1. t = CloseClient(m, fd)
    BY <1>5, <1>10
  <2>2. /\ Tables(t, b, quiet) /\ t.stopped = m.stopped
        /\ \A f \in Fd : t.connections[f].state = IF f = fd THEN "FREE" ELSE m.connections[f].state
        /\ t.cgiJobs = [i \in Fd |-> IF i \in JobsOf(m, fd) THEN NoJob ELSE m.cgiJobs[i]]
    BY <2>1, <1>4, <1>6, CloseClientTables
  <2>3. JobStates(t)
    <3>1. \A i \in Fd : IsJob(t, i) => IsJob(m, i) /\ t.cgiJobs[i] = m.cgiJobs[i] /\ t.cgiJobs[i].client \in Fd \ {fd}
      BY <1>4, <1>10, <2>2, JobClient DEF IsJob, JobsOf
    <3>2. QED
      BY <1>4, <2>2, <3>1 DEF JobStates
  <2>4. QED
    BY <1>4, <1>6, <1>10, <2>2, <2>3 DEF IsJob, t
<1>11. QED
  BY <1>7, <1>8, <1>9, <1>10

\* Closing a client leaves the other clients in their jobs' states, and the
\* descriptor without a job.
LEMMA CloseClientStates ==
  ASSUME NEW s, NEW b, NEW quiet, Tables(s, b, quiet), JobStates(s),
         NEW fd \in Fd, ~IsJob(s, fd)
  PROVE  /\ JobStates(CloseClient(s, fd))
         /\ ~IsJob(CloseClient(s, fd), fd)
<1> DEFINE t == CloseClient(s, fd)
<1>1. /\ \A f \in Fd : t.connections[f].state = IF f = fd THEN "FREE" ELSE s.connections[f].state
      /\ t.cgiJobs = [i \in Fd |-> IF i \in JobsOf(s, fd) THEN NoJob ELSE s.cgiJobs[i]]
  BY CloseClientTables
<1> HIDE DEF t
<1>2. ~IsJob(t, fd)
  BY <1>1 DEF IsJob, NoJob
<1>3. \A i \in Fd : IsJob(t, i) => IsJob(s, i) /\ t.cgiJobs[i] = s.cgiJobs[i] /\ t.cgiJobs[i].client \in Fd \ {fd}
  BY <1>1, JobClient DEF IsJob, JobsOf, NoJob
<1>4. JobStates(t)
  BY <1>1, <1>3 DEF JobStates
<1>5. QED
  BY <1>2, <1>4 DEF t

\* Descriptor fd and reference ref, both free before, are registered for a
\* new client or job; or only the map names them, epoll having refused.
Registered(s, t, fd, ref, kind) ==
  /\ t \in Server /\ t.stopped = s.stopped /\ t.staleRefs = s.staleRefs
  /\ t.refs[ref].kind = kind /\ t.refs[ref].fd = fd
  /\ \A r \in Ref \ {ref} : t.refs[r] = s.refs[r]
  /\ t.eventRefs[fd] = ref
  /\ \A f \in AllFd \ {fd} : t.eventRefs[f] = s.eventRefs[f] /\ t.interest[f] = s.interest[f]
  /\ \A f \in Fd \ {fd} : t.connections[f].state = s.connections[f].state
  /\ \A f \in Fd \ {fd} : t.cgiJobs[f].client = s.cgiJobs[f].client
  /\ \/ t.interest[fd].ref = None /\ ~IsConnection(t, fd) /\ ~IsJob(t, fd)
     \/ /\ kind = "CLIENT"
        /\ t.interest[fd] = [ref |-> ref, events |-> EventsFor("READING")]
        /\ t.connections[fd].state = "READING" /\ ~IsJob(t, fd)
     \/ /\ kind = "CGI"
        /\ t.interest[fd] = [ref |-> ref, events |-> {"IN"}]
        /\ ~IsConnection(t, fd) /\ IsJob(t, fd)
        /\ t.cgiJobs[fd].client \in Fd /\ IsConnection(s, t.cgiJobs[fd].client)
        /\ \A i \in Fd : s.cgiJobs[i].client # t.cgiJobs[fd].client

\* A free descriptor gets a reference; if epoll takes it, it becomes the
\* descriptor of a new client, or of the first job of a client.
LEMMA RegisterTables ==
  ASSUME NEW s, NEW t, NEW b, NEW quiet, Tables(s, b, quiet), ~s.stopped,
         NEW fd \in FreeFd(s), NEW ref \in FreeRef(s), NEW kind \in {"CLIENT", "CGI"},
         Registered(s, t, fd, ref, kind)
  PROVE  Tables(t, b, quiet)
<1> USE DEF Registered
<1>0. fd \in Fd /\ ref \in Ref /\ KindOf(s, ref) = "FREED"
  BY DEF FreeFd, FreeRef, KindOf
<1> USE <1>0
<1>1. /\ s \in Server
      /\ s.eventRefs \in [AllFd -> Ref \cup {None}]
      /\ s.refs \in [Ref -> [kind : EventKind, fd : AllFd]]
      /\ s.staleRefs \in SUBSET Ref
      /\ s.cgiJobs \in [Fd -> CgiJob]
  BY DEF Tables, Server
<1>2. fd \in AllFd /\ fd # Listener /\ Fd \subseteq AllFd /\ None \notin Ref /\ None \notin Fd
  BY ConstantsDistinct DEF AllFd
<1>3. ~IsConnection(s, fd) /\ ~IsJob(s, fd)
  BY DEF FreeFd
<1>4. t.refs[ref].fd = fd /\ t.eventRefs[fd] = ref /\ KindOf(t, ref) = kind
  BY DEF KindOf
<1>5. \A r \in Ref \ {ref} : t.refs[r] = s.refs[r] /\ KindOf(t, r) = KindOf(s, r)
  BY <1>1 DEF KindOf
<1>6. \A f \in AllFd \ {fd} : t.eventRefs[f] = s.eventRefs[f] /\ s.eventRefs[f] # ref
  BY <1>1, <1>2 DEF Tables, RegisteredOK, KindOf
<1>7. ref \notin s.staleRefs
  BY DEF Tables, RegisteredOK
<1>8. \A f \in Fd \ {fd} : /\ IsConnection(t, f) <=> IsConnection(s, f)
                           /\ IsJob(t, f) <=> IsJob(s, f)
  BY DEF IsConnection, IsJob
<1>9. \A k : \A f \in AllFd \ {fd} : Exists(t, k, f) <=> Exists(s, k, f)
  BY <1>8 DEF Exists
<1>10. RegisteredOK(t)
  <2>1. ASSUME NEW f \in AllFd, t.eventRefs[f] # None
        PROVE  /\ t.refs[t.eventRefs[f]].fd = f
               /\ KindOf(t, t.eventRefs[f]) # "FREED"
               /\ t.eventRefs[f] \notin t.staleRefs
    <3>1. CASE f = fd
      BY <3>1, <1>4, <1>7
    <3>2. CASE f # fd
      <4>1. t.eventRefs[f] = s.eventRefs[f] /\ s.eventRefs[f] \in Ref \ {ref}
        BY <2>1, <3>2, <1>1, <1>6
      <4>2. QED
        BY <2>1, <4>1, <1>5 DEF Tables, RegisteredOK
    <3>3. QED
      BY <3>1, <3>2
  <2>2. \A r \in t.staleRefs : KindOf(t, r) = "INVALID"
    BY <1>1, <1>5, <1>7 DEF Tables, RegisteredOK
  <2>3. QED
    BY <2>1, <2>2 DEF RegisteredOK
<1>11. WatchedOK(t)
  <2>1. SUFFICES ASSUME NEW f \in AllFd, t.interest[f].ref # None
                 PROVE  /\ t.eventRefs[f] = t.interest[f].ref
                        /\ KindOf(t, t.eventRefs[f]) # "INVALID"
                        /\ Exists(t, KindOf(t, t.eventRefs[f]), f)
    BY DEF WatchedOK
  <2>2. CASE f = fd
    BY <2>1, <2>2, <1>4 DEF Exists, IsConnection
  <2>3. CASE f # fd
    <3>1. /\ s.eventRefs[f] = s.interest[f].ref
          /\ KindOf(s, s.eventRefs[f]) # "INVALID"
          /\ Exists(s, KindOf(s, s.eventRefs[f]), f)
          /\ t.interest[f] = s.interest[f]
      BY <2>1, <2>3 DEF Tables, WatchedOK
    <3>2. t.eventRefs[f] = s.eventRefs[f] /\ s.eventRefs[f] \in Ref \ {ref}
      BY <2>1, <2>3, <3>1, <1>1, <1>6
    <3>3. QED
      BY <2>3, <3>1, <3>2, <1>5, <1>9
  <2>4. QED
    BY <2>2, <2>3
<1>12. LiveOK(t)
  <2>1. ASSUME NEW f \in Fd, IsConnection(t, f)
        PROVE  /\ t.eventRefs[f] # None
               /\ KindOf(t, t.eventRefs[f]) = "CLIENT"
               /\ t.interest[f] = [ref |-> t.eventRefs[f],
                                   events |-> EventsFor(t.connections[f].state)]
    <3>1. CASE f = fd
      BY <2>1, <3>1, <1>2, <1>4
    <3>2. CASE f # fd
      <4>1. /\ s.eventRefs[f] # None
            /\ KindOf(s, s.eventRefs[f]) = "CLIENT"
            /\ s.interest[f] = [ref |-> s.eventRefs[f],
                                events |-> EventsFor(s.connections[f].state)]
        BY <2>1, <3>2, <1>8 DEF Tables, LiveOK
      <4>2. f \in AllFd \ {fd} /\ t.eventRefs[f] = s.eventRefs[f] /\ s.eventRefs[f] \in Ref \ {ref}
        BY <3>2, <4>1, <1>1, <1>2, <1>6
      <4>3. QED
        BY <4>1, <4>2, <1>5
    <3>3. QED
      BY <3>1, <3>2
  <2>2. ASSUME NEW f \in Fd, IsJob(t, f)
        PROVE  /\ t.eventRefs[f] # None
               /\ KindOf(t, t.eventRefs[f]) = "CGI"
               /\ t.interest[f] = [ref |-> t.eventRefs[f], events |-> {"IN"}]
    <3>1. CASE f = fd
      BY <2>2, <3>1, <1>2, <1>4
    <3>2. CASE f # fd
      <4>1. /\ s.eventRefs[f] # None
            /\ KindOf(s, s.eventRefs[f]) = "CGI"
            /\ s.interest[f] = [ref |-> s.eventRefs[f], events |-> {"IN"}]
        BY <2>2, <3>2, <1>8 DEF Tables, LiveOK
      <4>2. f \in AllFd \ {fd} /\ t.eventRefs[f] = s.eventRefs[f] /\ s.eventRefs[f] \in Ref \ {ref}
        BY <3>2, <4>1, <1>1, <1>2, <1>6
      <4>3. QED
        BY <4>1, <4>2, <1>5
    <3>3. QED
      BY <3>1, <3>2
  <2>3. QED
    BY <2>1, <2>2 DEF LiveOK
<1>13. OwnersOK(t)
  <2>1. SUFFICES ASSUME NEW j \in Fd, IsJob(t, j)
                 PROVE  /\ ~IsConnection(t, j)
                        /\ IsConnection(t, t.cgiJobs[j].client)
                        /\ \A i \in Fd : t.cgiJobs[i].client = t.cgiJobs[j].client => i = j
    BY DEF OwnersOK
  <2>2. CASE j = fd
    <3>1. /\ ~IsConnection(t, fd) /\ t.cgiJobs[fd].client \in Fd
          /\ IsConnection(s, t.cgiJobs[fd].client)
          /\ \A i \in Fd : s.cgiJobs[i].client # t.cgiJobs[fd].client
      BY <2>1, <2>2
    <3>2. t.cgiJobs[fd].client \in Fd \ {fd}
      BY <3>1, <1>3
    <3>3. QED
      BY <2>2, <3>1, <3>2, <1>8
  <2>3. CASE j # fd
    <3>1. /\ IsJob(s, j) /\ t.cgiJobs[j].client = s.cgiJobs[j].client
          /\ s.cgiJobs[j].client \in Fd
          /\ ~IsConnection(s, j)
          /\ IsConnection(s, s.cgiJobs[j].client)
          /\ \A i \in Fd : s.cgiJobs[i].client = s.cgiJobs[j].client => i = j
      BY <2>1, <2>3, <1>8, JobClient DEF Tables, OwnersOK
    <3>2. s.cgiJobs[j].client \in Fd \ {fd}
      BY <3>1, <1>3
    <3>3. t.cgiJobs[fd].client # s.cgiJobs[j].client
      BY <3>1, <1>2 DEF IsJob
    <3>4. QED
      BY <2>3, <3>1, <3>2, <3>3, <1>8
  <2>4. QED
    BY <2>2, <2>3
<1>14. BatchOK(t, b, quiet)
  <2>1. SUFFICES ASSUME NEW r \in Ref, b[r] # {}
                 PROVE  /\ KindOf(t, r) # "FREED"
                        /\ KindOf(t, r) # "INVALID" => t.eventRefs[t.refs[r].fd] = r
                        /\ Exists(t, KindOf(t, r), t.refs[r].fd)
                        /\ KindOf(t, r) = "CLIENT" =>
                             Fits(b[r], t.connections[t.refs[r].fd].state, t.refs[r].fd, quiet)
    BY DEF BatchOK
  <2>2. /\ KindOf(s, r) # "FREED"
        /\ KindOf(s, r) # "INVALID" => s.eventRefs[s.refs[r].fd] = r
        /\ Exists(s, KindOf(s, r), s.refs[r].fd)
        /\ KindOf(s, r) = "CLIENT" =>
             Fits(b[r], s.connections[s.refs[r].fd].state, s.refs[r].fd, quiet)
    BY <2>1 DEF Tables, BatchOK
  <2>3. t.refs[r] = s.refs[r] /\ KindOf(t, r) = KindOf(s, r) /\ s.refs[r].fd \in AllFd
    BY <2>2, <1>1, <1>5
  <2>4. CASE KindOf(s, r) = "INVALID"
    BY <2>3, <2>4 DEF Exists
  <2>5. CASE KindOf(s, r) # "INVALID"
    <3>1. KindOf(s, r) \in {"SERVER", "CLIENT", "CGI"}
      BY <2>2, <2>5, <1>1 DEF KindOf, EventKind
    <3>2. s.refs[r].fd \in AllFd \ {fd}
      BY <2>2, <2>3, <3>1, <1>2, <1>3 DEF Exists
    <3>3. KindOf(s, r) = "CLIENT" => t.connections[s.refs[r].fd].state = s.connections[s.refs[r].fd].state
      BY <2>2, <3>2 DEF Exists
    <3>4. QED
      BY <2>2, <2>3, <3>2, <3>3, <1>6, <1>9
  <2>6. QED
    BY <2>4, <2>5
<1>15. QED
  BY <1>10, <1>11, <1>12, <1>13, <1>14 DEF Tables

\* EPOLLRDHUP of a client.
LEMMA HangupTables ==
  ASSUME NEW s, NEW b, NEW quiet, Tables(s, b, quiet), JobStates(s),
         NEW fd \in Fd, IsConnection(s, fd)
  PROVE  Tables(HandleHangup(s, fd), b, quiet) /\ JobStates(HandleHangup(s, fd))
<1> DEFINE c == [s.connections EXCEPT ![fd].halfClosed = TRUE]
           m == [s EXCEPT !.connections = c]
<1>1. ~IsJob(s, fd)
  BY DEF Tables, OwnersOK
<1>2. CASE ~s.connections[fd].pending \/ JobsOf(s, fd) # {}
  BY <1>1, <1>2, CloseClientTables, CloseClientStates DEF HandleHangup
<1>3. CASE ~(~s.connections[fd].pending \/ JobsOf(s, fd) # {})
  <2>1. s.connections \in [Fd -> Connection]
    BY DEF Tables, Server
  <2>2. c \in [Fd -> Connection] /\ \A f \in Fd : c[f].state = s.connections[f].state
    BY <2>1 DEF Connection
  <2>3. HandleHangup(s, fd) = m
    BY <1>3 DEF HandleHangup
  <2>4. m = [s EXCEPT !.connections = c]
    OBVIOUS
  <2> HIDE DEF m, c
  <2>5. QED
    BY <2>2, <2>3, <2>4, BytesTables
<1>4. QED
  BY <1>2, <1>3

\* A connection that reads has no job.
LEMMA ReaderHasNoJob ==
  ASSUME NEW s, NEW b, NEW quiet, Tables(s, b, quiet), JobStates(s),
         NEW fd \in Fd, s.connections[fd].state = "READING"
  PROVE  JobsOf(s, fd) = {}
<1>1. \A j \in Fd : s.cgiJobs[j].client = fd => IsJob(s, j)
  BY ConstantsDistinct DEF IsJob
<1>2. QED
  BY <1>1 DEF JobStates, JobsOf

\* _handleRead without a CGI, for a connection that reads and none of whose
\* events is pending.
LEMMA ReadTables ==
  ASSUME NEW s, NEW b, NEW quiet, Tables(s, b, quiet), JobStates(s),
         NEW fd \in Fd, s.connections[fd].state = "READING",
         <<fd, "IN">> \in quiet, NEW o \in ReadOutcome
  PROVE  Tables(HandleRead(s, fd, o), b, quiet) /\ JobStates(HandleRead(s, fd, o))
<1> DEFINE c == [s.connections EXCEPT ![fd].idle = FALSE]
           m == Touch(s, fd)
<1>1. ~IsJob(s, fd)
  BY DEF Tables, OwnersOK, IsConnection
<1>2. s.connections \in [Fd -> Connection]
  BY DEF Tables, Server
<1>3. c \in [Fd -> Connection] /\ \A f \in Fd : c[f].state = s.connections[f].state
  BY <1>2 DEF Connection
<1>4. m = [s EXCEPT !.connections = c]
  BY DEF Touch
<1>5. Tables(m, b, quiet) /\ JobStates(m) /\ m.connections = c /\ m.cgiJobs = s.cgiJobs
  <2> HIDE DEF m, c
  <2>1. QED
    BY <1>3, <1>4, BytesTables
<1>6. CASE o = "closed"
  BY <1>1, <1>6, CloseClientTables, CloseClientStates DEF HandleRead
<1>7. CASE o = "nothing"
  BY <1>7 DEF HandleRead
<1>8. CASE o = "more"
  BY <1>5, <1>8 DEF HandleRead
<1>9. CASE o = "respond"
  <2> DEFINE t == Respond(m, fd)
  <2>1. HandleRead(s, fd, o) = t
    BY <1>9 DEF HandleRead
  <2> HIDE DEF m
  <2>2. IsConnection(m, fd)
    BY <1>3, <1>5 DEF IsConnection
  <2>3. Tables(t, b, quiet) /\ Became(m, t, fd, "WRITING")
    BY <1>5, <2>2, RespondTables
  <2> HIDE DEF t
  <2>4. JobsOf(m, fd) = {}
    BY <1>3, <1>5, ReaderHasNoJob
  <2>5. JobStates(t)
    <3>1. \A i \in Fd : IsJob(t, i) => IsJob(m, i) /\ t.cgiJobs[i].client \in Fd \ {fd}
      BY <1>5, <2>3, <2>4, JobClient DEF IsJob, Became, JobsOf
    <3>2. QED
      BY <1>5, <2>3, <3>1 DEF JobStates, Became
  <2>6. QED
    BY <2>1, <2>3, <2>5
<1>10. QED
  BY <1>6, <1>7, <1>8, <1>9 DEF ReadOutcome

\* A request that names a CGI: the pipe is registered, the client waits; if
\* the script does not start, the client gets an error response instead.
LEMMA StartCgiTables ==
  ASSUME NEW s, NEW b, NEW quiet, Tables(s, b, quiet), JobStates(s), ~s.stopped,
         NEW fd \in Fd, s.connections[fd].state = "READING",
         <<fd, "IN">> \in quiet, <<fd, "OUT">> \in quiet,
         NEW j \in FreeFd(s), NEW ref \in FreeRef(s), NEW pid \in FreePid(s) \cup {None}
  PROVE  /\ Tables(ApiStartCgi(s, fd, j, ref, pid), b, quiet)
         /\ JobStates(ApiStartCgi(s, fd, j, ref, pid))
<1> DEFINE job    == [NoJob EXCEPT !.client = fd]
           g      == [s.cgiJobs EXCEPT ![j] = job]
           m      == [s EXCEPT !.cgiJobs = g]
           rf     == [m.refs EXCEPT ![ref] = [kind |-> "CGI", fd |-> j]]
           er     == [m.eventRefs EXCEPT ![j] = ref]
           it     == [m.interest EXCEPT ![j] = [ref |-> ref, events |-> {"IN"}]]
           opened == [m EXCEPT !.refs = rf, !.eventRefs = er, !.interest = it]
           armed  == Enter(opened, fd, "CGI_RUNNING")
           t      == ApiStartCgi(s, fd, j, ref, pid)
<1>1. s \in Server /\ s.cgiJobs \in [Fd -> CgiJob]
  BY DEF Tables, Server
<1>2. /\ j \in Fd /\ j \in AllFd /\ ~IsConnection(s, j) /\ ~IsJob(s, j) /\ j # fd
      /\ ref \in Ref /\ KindOf(s, ref) = "FREED"
  BY DEF FreeFd, FreeRef, AllFd, KindOf, IsConnection
<1>3. job \in CgiJob /\ job.client = fd /\ job.headersSent = FALSE
  BY DEF NoJob, CgiJob
<1>4. g \in [Fd -> CgiJob] /\ g[j] = job /\ \A i \in Fd : i # j => g[i] = s.cgiJobs[i]
  BY <1>1, <1>2, <1>3
<1>5. /\ m \in Server /\ m.cgiJobs = g /\ m.connections = s.connections
      /\ m.refs = s.refs /\ m.eventRefs = s.eventRefs /\ m.staleRefs = s.staleRefs
      /\ m.interest = s.interest /\ m.stopped = s.stopped
  BY <1>1, <1>4 DEF Server
<1>6. RegisterEventFd([s EXCEPT !.cgiJobs[j] = [NoJob EXCEPT !.client = fd]], j, ref, "CGI", {"IN"}, TRUE) = opened
  BY DEF RegisterEventFd
<1>7. t = IF pid = None
            THEN Respond(CloseCgiJob(armed, j), fd)
            ELSE [armed EXCEPT !.cgiJobs[j].pid = pid, !.child[pid] = "RUNNING"]
  BY <1>6 DEF ApiStartCgi
<1> HIDE DEF m, t, job, g
<1>8. rf \in [Ref -> [kind : EventKind, fd : AllFd]]
  BY <1>2, <1>5 DEF Server, EventKind
<1>9. er \in [AllFd -> Ref \cup {None}]
  BY <1>2, <1>5 DEF Server
<1>10. it \in [AllFd -> Interest]
  BY <1>2, <1>5 DEF Server, Interest, EventFlag
<1>11. /\ opened \in Server /\ opened.cgiJobs = g /\ opened.connections = s.connections
       /\ opened.refs = rf /\ opened.eventRefs = er /\ opened.staleRefs = s.staleRefs
       /\ opened.interest = it /\ opened.stopped = s.stopped
  BY <1>5, <1>8, <1>9, <1>10 DEF Server
<1>12. /\ rf = [s.refs EXCEPT ![ref] = [kind |-> "CGI", fd |-> j]]
       /\ er = [s.eventRefs EXCEPT ![j] = ref]
       /\ \A f \in AllFd \ {j} : it[f] = s.interest[f]
       /\ it[j] = [ref |-> ref, events |-> {"IN"}]
  BY <1>1, <1>2, <1>5 DEF Server
<1> HIDE DEF opened, rf, er, it
<1>13. \A i \in Fd : s.cgiJobs[i].client # fd
  BY ReaderHasNoJob DEF JobsOf
<1>14. IsConnection(s, fd) /\ ~IsConnection(opened, j) /\ IsJob(opened, j) /\ opened.cgiJobs[j].client = fd
  BY <1>2, <1>3, <1>4, <1>11, ConstantsDistinct DEF IsConnection, IsJob
<1>15. Tables(opened, b, quiet)
  <2>1. /\ opened.interest[j] = [ref |-> ref, events |-> {"IN"}]
        /\ opened.cgiJobs[j].client \in Fd /\ IsConnection(s, opened.cgiJobs[j].client)
        /\ \A i \in Fd : s.cgiJobs[i].client # opened.cgiJobs[j].client
    BY <1>11, <1>12, <1>13, <1>14
  <2>2. /\ \A f \in AllFd \ {j} : /\ opened.eventRefs[f] = s.eventRefs[f]
                                  /\ opened.interest[f] = s.interest[f]
        /\ \A f \in Fd \ {j} : opened.connections[f].state = s.connections[f].state
        /\ \A f \in Fd \ {j} : opened.cgiJobs[f].client = s.cgiJobs[f].client
    BY <1>1, <1>4, <1>11, <1>12 DEF Server
  <2>3. /\ opened.refs[ref].kind = "CGI" /\ opened.refs[ref].fd = j
        /\ \A r \in Ref \ {ref} : opened.refs[r] = s.refs[r]
        /\ opened.eventRefs[j] = ref
    BY <1>1, <1>2, <1>11, <1>12 DEF Server
  <2>4. opened \in Server /\ opened.stopped = s.stopped /\ opened.staleRefs = s.staleRefs
    BY <1>11
  <2>5. Registered(s, opened, j, ref, "CGI")
    BY <1>14, <2>1, <2>2, <2>3, <2>4 DEF Registered
  <2>6. QED
    BY <2>5, RegisterTables
<1>16. Tables(armed, b, quiet) /\ Became(opened, armed, fd, "CGI_RUNNING")
  BY <1>11, <1>14, <1>15, EnterTables DEF ConnState, IsConnection
<1> HIDE DEF armed
<1>17. armed.cgiJobs = g /\ \A f \in Fd : f # fd => armed.connections[f].state = s.connections[f].state
  BY <1>11, <1>16 DEF Became
<1>18. \A i \in Fd : i # j /\ g[i].client # None => IsJob(s, i) /\ s.cgiJobs[i].client \in Fd \ {fd}
  BY <1>4, <1>13, JobClient DEF IsJob
<1>19. JobStates(armed)
  <2>1. SUFFICES ASSUME NEW i \in Fd, IsJob(armed, i)
                 PROVE  armed.connections[armed.cgiJobs[i].client].state =
                          IF armed.cgiJobs[i].headersSent THEN "WRITING" ELSE "CGI_RUNNING"
    BY DEF JobStates
  <2>2. CASE i = j
    BY <2>2, <1>3, <1>4, <1>16, <1>17 DEF Became
  <2>3. CASE i # j
    BY <2>1, <2>3, <1>4, <1>17, <1>18 DEF IsJob, JobStates
  <2>4. QED
    BY <2>2, <2>3
<1>20. CASE pid = None
  <2> DEFINE u == CloseCgiJobs(armed, {j})
             v == Respond(u, fd)
  <2>1. IsJob(armed, j)
    BY <1>14, <1>11, <1>17 DEF IsJob
  <2>2. t = v
    BY <1>7, <1>20, <2>1 DEF CloseCgiJob
  <2>3. /\ Tables(u, b, quiet) /\ u.connections = armed.connections
        /\ u.cgiJobs = [i \in Fd |-> IF i \in {j} THEN NoJob ELSE g[i]]
    BY <1>2, <1>16, <1>17, <2>1, CloseJobsTables
  <2> HIDE DEF u
  <2>4. IsConnection(u, fd)
    BY <1>16, <2>3 DEF IsConnection, Became
  <2>5. Tables(v, b, quiet) /\ Became(u, v, fd, "WRITING")
    BY <2>3, <2>4, RespondTables
  <2> HIDE DEF v
  <2>6. \A i \in Fd : IsJob(v, i) => i # j /\ v.cgiJobs[i] = s.cgiJobs[i] /\ g[i].client # None
    BY <1>4, <2>3, <2>5 DEF IsJob, NoJob, Became
  <2>7. JobStates(v)
    BY <1>17, <1>18, <2>3, <2>5, <2>6 DEF JobStates, Became
  <2>8. QED
    BY <2>2, <2>5, <2>7 DEF t
<1>21. CASE pid # None
  <2> DEFINE a == [armed.cgiJobs EXCEPT ![j].pid = pid]
             h == [armed.child EXCEPT ![pid] = "RUNNING"]
             v == [armed EXCEPT !.cgiJobs = a, !.child = h]
  <2>1. t = v
    BY <1>7, <1>21
  <2>2. pid \in Pid
    BY <1>21 DEF FreePid
  <2>3. armed \in Server
    BY <1>16 DEF Tables
  <2>4. /\ a \in [Fd -> CgiJob]
        /\ \A i \in Fd : a[i].client = armed.cgiJobs[i].client /\ a[i].headersSent = armed.cgiJobs[i].headersSent
    <3>1. armed.cgiJobs \in [Fd -> CgiJob]
      BY <2>3 DEF Server
    <3>2. QED
      BY <2>2, <3>1 DEF CgiJob
  <2>5. h \in [Pid -> {"NONE", "RUNNING", "ZOMBIE"}]
    BY <2>3 DEF Server
  <2>6. /\ v \in Server /\ v.connections = armed.connections /\ v.cgiJobs = a
        /\ v.refs = armed.refs /\ v.eventRefs = armed.eventRefs /\ v.staleRefs = armed.staleRefs
        /\ v.interest = armed.interest /\ v.stopped = armed.stopped
    BY <2>3, <2>4, <2>5 DEF Server
  <2> HIDE DEF v, a, h
  <2>7. Tables(v, b, quiet)
    BY <1>16, <2>4, <2>6, FrameTables
  <2>8. JobStates(v)
    <3>1. \A i \in Fd : IsJob(v, i) => IsJob(armed, i) /\ v.cgiJobs[i].client = armed.cgiJobs[i].client
      BY <2>4, <2>6 DEF IsJob
    <3>2. QED
      BY <1>19, <2>4, <2>6, <3>1 DEF JobStates
  <2>9. QED
    BY <2>1, <2>7, <2>8 DEF t
<1>22. QED
  BY <1>20, <1>21

-----------------------------------------------------------------------------
(* Which events of a client are not pending. *)

\* An event that is taken off the batch leaves the others in order.
LEMMA Fewer ==
  ASSUME NEW s, NEW b \in [Ref -> SUBSET EventFlag], NEW quiet, NEW ref \in Ref,
         Tables(s, b, quiet)
  PROVE  Tables(s, [b EXCEPT ![ref] = {}], quiet)
<1> DEFINE c == [b EXCEPT ![ref] = {}]
<1>1. \A r \in Ref : c[r] # {} => c[r] = b[r]
  OBVIOUS
<1> HIDE DEF c
<1>2. BatchOK(s, c, quiet)
  BY <1>1 DEF Tables, BatchOK
<1>3. QED
  BY <1>2 DEF Tables, c

\* What is said of fewer silent descriptors is weaker.
LEMMA Loud ==
  ASSUME NEW s, NEW b, NEW quiet, Tables(s, b, quiet)
  PROVE  Tables(s, b, {})
BY DEF Tables, BatchOK, Fits

\* Nothing is pending outside of the dispatch.
LEMMA QuietEmpty ==
  ASSUME NEW s, NEW b, NEW quiet, Tables(s, b, {}), b = [r \in Ref |-> {}]
  PROVE  Tables(s, b, quiet)
BY DEF Tables, BatchOK

\* Input is not pending for a connection that does not read.
LEMMA QuietState ==
  ASSUME NEW s, NEW b, Tables(s, b, {}), NEW fd, s.connections[fd].state # "READING"
  PROVE  Tables(s, b, {<<fd, "IN">>})
<1>1. BatchOK(s, b, {<<fd, "IN">>})
  BY DEF Tables, BatchOK, Fits
<1>2. QED
  BY <1>1 DEF Tables

\* epoll reports a descriptor once: when the event of a client is taken off
\* the batch, nothing else is pending for its connection.
LEMMA QuietOwn ==
  ASSUME NEW s, NEW b \in [Ref -> SUBSET EventFlag], NEW ref \in Ref,
         Tables(s, b, {}), b[ref] # {}, KindOf(s, ref) = "CLIENT"
  PROVE  LET fd == s.refs[ref].fd
         IN  /\ fd \in Fd /\ IsConnection(s, fd) /\ ~IsJob(s, fd)
             /\ Fits(b[ref], s.connections[fd].state, fd, {})
             /\ Tables(s, [b EXCEPT ![ref] = {}], {<<fd, "IN">>, <<fd, "OUT">>})
<1> DEFINE fd    == s.refs[ref].fd
           c     == [b EXCEPT ![ref] = {}]
           quiet == {<<fd, "IN">>, <<fd, "OUT">>}
<1>1. /\ fd \in Fd /\ IsConnection(s, fd)
      /\ Fits(b[ref], s.connections[fd].state, fd, {})
  BY DEF Tables, BatchOK, Exists
<1>2. ~IsJob(s, fd)
  BY <1>1 DEF Tables, OwnersOK
<1>3. \A r \in Ref : c[r] # {} => r # ref /\ c[r] = b[r]
  OBVIOUS
<1>4. \A r \in Ref : c[r] # {} /\ KindOf(s, r) = "CLIENT" => s.refs[r].fd # fd
  BY <1>3 DEF Tables, BatchOK
<1> HIDE DEF c
<1>5. BatchOK(s, c, quiet)
  BY <1>3, <1>4 DEF Tables, BatchOK, Fits
<1>6. Tables(s, c, quiet)
  BY <1>5 DEF Tables
<1>7. QED
  BY <1>1, <1>2, <1>6 DEF c

-----------------------------------------------------------------------------
(* Every step keeps the invariant. *)

\* What a dispatched event leaves to be shown.
LEMMA DispatchKeeps ==
  ASSUME IInv, phase = "dispatch", phase' \in {"dispatch", "accept", "unwind"},
         NEW ref \in Ref, batch' = [batch EXCEPT ![ref] = {}], UNCHANGED todo,
         Tables(srv', batch', {}), JobStates(srv')
  PROVE  IInv'
<1>1. TypeOK'
  BY DEF IInv, TypeOK, Tables, Phase
<1>2. QED
  BY <1>1 DEF IInv

\* A reference that has become stale, or anything after stop(): no step.
LEMMA IgnoredKeeps ==
  ASSUME IInv, NEW ref \in Ref, DispatchIgnored(ref)
  PROVE  IInv'
<1>1. Tables(srv', batch', {}) /\ JobStates(srv')
  BY Fewer DEF IInv, TypeOK, DispatchIgnored
<1>2. QED
  BY <1>1, DispatchKeeps DEF DispatchIgnored

\* The listening socket is ready: the accept loop begins.
LEMMA ServerKeeps ==
  ASSUME IInv, NEW ref \in Ref, DispatchServer(ref)
  PROVE  IInv'
<1>1. Tables(srv', batch', {}) /\ JobStates(srv')
  BY Fewer DEF IInv, TypeOK, DispatchServer, Dispatching
<1>2. QED
  BY <1>1, DispatchKeeps DEF DispatchServer, Dispatching

\* A CGI's output: its client does not read, so no input of it is pending.
LEMMA CgiKeeps ==
  ASSUME IInv, NEW ref \in Ref, DispatchCgi(ref)
  PROVE  IInv'
<1> DEFINE j  == srv.refs[ref].fd
           fd == srv.cgiJobs[j].client
<1>1. PICK o \in CgiOutcome : srv' = HandleCgiEvent(srv, j, o)
  BY DEF DispatchCgi
<1>2. j \in Fd /\ IsJob(srv, j)
  BY DEF IInv, DispatchCgi, Dispatching, Tables, BatchOK, Exists, KindOf
<1>3. Tables(srv, batch', {})
  BY Fewer DEF IInv, TypeOK, DispatchCgi, Dispatching
<1>4. srv.connections[fd].state # "READING"
  BY <1>2 DEF IInv, JobStates
<1>5. Tables(srv, batch', {<<fd, "IN">>})
  BY <1>3, <1>4, QuietState
<1>6. Tables(srv', batch', {<<fd, "IN">>}) /\ JobStates(srv')
  BY <1>1, <1>2, <1>5, CgiEventTables DEF IInv
<1>7. Tables(srv', batch', {})
  BY <1>6, Loud
<1>8. QED
  BY <1>6, <1>7, DispatchKeeps DEF DispatchCgi, Dispatching

\* EPOLLHUP of a client.
LEMMA ErrorKeeps ==
  ASSUME IInv, NEW ref \in Ref, DispatchClientError(ref)
  PROVE  IInv'
<1> DEFINE fd    == srv.refs[ref].fd
           quiet == {<<fd, "IN">>, <<fd, "OUT">>}
<1>1. fd \in Fd /\ ~IsJob(srv, fd) /\ Tables(srv, batch', quiet)
  BY QuietOwn DEF IInv, TypeOK, DispatchClientError, Dispatching, KindOf
<1>2. Tables(srv', batch', quiet) /\ JobStates(srv')
  BY <1>1, CloseClientTables, CloseClientStates DEF IInv, DispatchClientError
<1>3. Tables(srv', batch', {})
  BY <1>2, Loud
<1>4. QED
  BY <1>2, <1>3, DispatchKeeps DEF DispatchClientError, Dispatching

\* EPOLLRDHUP of a client.
LEMMA HangupKeeps ==
  ASSUME IInv, NEW ref \in Ref, DispatchClientHangup(ref)
  PROVE  IInv'
<1> DEFINE fd    == srv.refs[ref].fd
           quiet == {<<fd, "IN">>, <<fd, "OUT">>}
<1>1. fd \in Fd /\ IsConnection(srv, fd) /\ Tables(srv, batch', quiet)
  BY QuietOwn DEF IInv, TypeOK, DispatchClientHangup, Dispatching, KindOf
<1>2. Tables(srv', batch', quiet) /\ JobStates(srv')
  BY <1>1, HangupTables DEF IInv, DispatchClientHangup
<1>3. Tables(srv', batch', {})
  BY <1>2, Loud
<1>4. QED
  BY <1>2, <1>3, DispatchKeeps DEF DispatchClientHangup, Dispatching

\* EPOLLIN of a client: it was armed for input, so it still reads.
LEMMA ReadableReads ==
  ASSUME IInv, NEW ref \in Ref, Dispatching(ref, "CLIENT"), Readable(ref)
  PROVE  LET fd == srv.refs[ref].fd
         IN  /\ fd \in Fd /\ srv.connections[fd].state = "READING"
             /\ Tables(srv, batch', {<<fd, "IN">>, <<fd, "OUT">>})
BY QuietOwn DEF IInv, TypeOK, Dispatching, KindOf, Readable, Fits

LEMMA ReadKeeps ==
  ASSUME IInv, NEW ref \in Ref, DispatchClientRead(ref)
  PROVE  IInv'
<1> DEFINE fd    == srv.refs[ref].fd
           quiet == {<<fd, "IN">>, <<fd, "OUT">>}
<1>1. PICK o \in ReadOutcome : srv' = HandleRead(srv, fd, o)
  BY DEF DispatchClientRead
<1>2. fd \in Fd /\ srv.connections[fd].state = "READING" /\ Tables(srv, batch', quiet)
  BY ReadableReads DEF DispatchClientRead
<1>3. JobStates(srv) /\ <<fd, "IN">> \in quiet
  BY DEF IInv
<1> HIDE DEF fd, quiet
<1>4. Tables(srv', batch', quiet) /\ JobStates(srv')
  BY <1>1, <1>2, <1>3, ReadTables
<1>5. Tables(srv', batch', {})
  BY <1>4, Loud
<1>6. QED
  BY <1>4, <1>5, DispatchKeeps DEF DispatchClientRead, Dispatching

\* EPOLLOUT of a client: it was armed for output, so it still writes.
LEMMA WriteKeeps ==
  ASSUME IInv, NEW ref \in Ref, DispatchClientWrite(ref)
  PROVE  IInv'
<1> DEFINE fd    == srv.refs[ref].fd
           quiet == {<<fd, "IN">>, <<fd, "OUT">>}
<1>1. PICK w \in WriteOutcome : srv' = HandleWrite(srv, fd, w)
  BY DEF DispatchClientWrite
<1>2. fd \in Fd /\ srv.connections[fd].state = "WRITING" /\ Tables(srv, batch', quiet)
  BY QuietOwn DEF IInv, TypeOK, DispatchClientWrite, Dispatching, KindOf, Fits
<1>3. JobStates(srv) /\ <<fd, "IN">> \in quiet /\ <<fd, "OUT">> \in quiet
  BY DEF IInv
<1> HIDE DEF fd, quiet
<1>4. Tables(srv', batch', quiet) /\ JobStates(srv')
  BY <1>1, <1>2, <1>3, WriteTables
<1>5. Tables(srv', batch', {})
  BY <1>4, Loud
<1>6. QED
  BY <1>4, <1>5, DispatchKeeps DEF DispatchClientWrite, Dispatching

\* The clock is touched before a script is started.
LEMMA TouchTables ==
  ASSUME NEW s, NEW b, NEW quiet, Tables(s, b, quiet), JobStates(s), NEW fd \in Fd
  PROVE  /\ Tables(Touch(s, fd), b, quiet) /\ JobStates(Touch(s, fd))
         /\ \A f \in Fd : Touch(s, fd).connections[f].state = s.connections[f].state
         /\ FreeFd(Touch(s, fd)) = FreeFd(s) /\ FreeRef(Touch(s, fd)) = FreeRef(s)
         /\ FreePid(Touch(s, fd)) = FreePid(s) /\ Touch(s, fd).stopped = s.stopped
<1> DEFINE c == [s.connections EXCEPT ![fd].idle = FALSE]
           m == [s EXCEPT !.connections = c]
<1>1. s.connections \in [Fd -> Connection] /\ s \in Server
  BY DEF Tables, Server
<1>2. c \in [Fd -> Connection] /\ \A f \in Fd : c[f].state = s.connections[f].state
  BY <1>1 DEF Connection
<1>3. Touch(s, fd) = m
  BY DEF Touch
<1>4. m.child = s.child /\ m.refs = s.refs /\ m = [s EXCEPT !.connections = c]
  BY <1>1 DEF Server
<1> HIDE DEF m, c
<1>5. /\ Tables(m, b, quiet) /\ JobStates(m)
      /\ m.connections = c /\ m.cgiJobs = s.cgiJobs /\ m.stopped = s.stopped
  BY <1>2, <1>4, BytesTables
<1>6. FreeFd(m) = FreeFd(s)
  BY <1>2, <1>5 DEF FreeFd, IsConnection, IsJob
<1>7. FreeRef(m) = FreeRef(s) /\ FreePid(m) = FreePid(s)
  BY <1>4 DEF FreeRef, FreePid
<1>8. QED
  BY <1>2, <1>3, <1>5, <1>6, <1>7

\* A request that names a CGI.
LEMMA StartCgiKeeps ==
  ASSUME IInv, NEW ref \in Ref, NEW j \in Fd, NEW new \in Ref, NEW pid \in Pid \cup {None},
         DispatchClientCgi(ref, j, new, pid)
  PROVE  IInv'
<1> DEFINE fd    == srv.refs[ref].fd
           quiet == {<<fd, "IN">>, <<fd, "OUT">>}
           s     == Touch(srv, fd)
<1>1. fd \in Fd /\ srv.connections[fd].state = "READING" /\ Tables(srv, batch', quiet)
  BY ReadableReads DEF DispatchClientCgi
<1>2. JobStates(srv) /\ <<fd, "IN">> \in quiet /\ <<fd, "OUT">> \in quiet
  BY DEF IInv
<1>3. /\ srv' = ApiStartCgi(s, fd, j, new, pid) /\ ~srv.stopped
      /\ j \in FreeFd(srv) /\ new \in FreeRef(srv) /\ pid \in FreePid(srv) \cup {None}
  BY DEF DispatchClientCgi, Dispatching
<1> HIDE DEF fd, quiet, s
<1>4. /\ Tables(s, batch', quiet) /\ JobStates(s) /\ ~s.stopped
      /\ s.connections[fd].state = "READING"
      /\ j \in FreeFd(s) /\ new \in FreeRef(s) /\ pid \in FreePid(s) \cup {None}
  BY <1>1, <1>2, <1>3, TouchTables DEF s
<1>5. Tables(srv', batch', quiet) /\ JobStates(srv')
  BY <1>1, <1>2, <1>3, <1>4, StartCgiTables
<1>6. Tables(srv', batch', {})
  BY <1>5, Loud
<1>7. QED
  BY <1>5, <1>6, DispatchKeeps DEF DispatchClientCgi, Dispatching

\* epoll refuses a descriptor: it stays free, though the map names it.
LEMMA RefusedTables ==
  ASSUME NEW s, NEW b, NEW quiet, Tables(s, b, quiet), JobStates(s), ~s.stopped,
         NEW fd \in FreeFd(s), NEW ref \in FreeRef(s), NEW kind \in {"CLIENT", "CGI"},
         NEW events
  PROVE  LET t == RegisterEventFd(s, fd, ref, kind, events, FALSE)
         IN  Tables(t, b, quiet) /\ JobStates(t) /\ t.connections = s.connections
<1> DEFINE rf == [s.refs EXCEPT ![ref] = [kind |-> kind, fd |-> fd]]
           er == [s.eventRefs EXCEPT ![fd] = ref]
           t  == RegisterEventFd(s, fd, ref, kind, events, FALSE)
           u  == [s EXCEPT !.refs = rf, !.eventRefs = er]
<1>1. fd \in Fd /\ fd \in AllFd /\ ref \in Ref /\ ~IsConnection(s, fd) /\ ~IsJob(s, fd)
  BY DEF FreeFd, FreeRef, AllFd
<1>2. /\ s \in Server /\ s.refs \in [Ref -> [kind : EventKind, fd : AllFd]]
      /\ s.eventRefs \in [AllFd -> Ref \cup {None}]
      /\ s.interest \in [AllFd -> Interest]
  BY DEF Tables, Server
<1>3. t = u
  <2>1. [s.interest EXCEPT ![fd] = @] = s.interest
    BY <1>1, <1>2
  <2>2. t = [s EXCEPT !.refs = rf, !.eventRefs = er, !.interest = [s.interest EXCEPT ![fd] = @]]
    BY DEF RegisterEventFd
  <2>3. QED
    BY <1>2, <2>1, <2>2 DEF Server
<1>4. /\ rf \in [Ref -> [kind : EventKind, fd : AllFd]]
      /\ rf[ref].kind = kind /\ rf[ref].fd = fd
      /\ \A r \in Ref \ {ref} : rf[r] = s.refs[r]
  BY <1>1, <1>2 DEF EventKind
<1>5. /\ er \in [AllFd -> Ref \cup {None}] /\ er[fd] = ref
      /\ \A f \in AllFd \ {fd} : er[f] = s.eventRefs[f]
  BY <1>1, <1>2
<1>6. /\ u \in Server /\ u.refs = rf /\ u.eventRefs = er /\ u.staleRefs = s.staleRefs
      /\ u.stopped = s.stopped /\ u.interest = s.interest
      /\ u.connections = s.connections /\ u.cgiJobs = s.cgiJobs
  BY <1>2, <1>4, <1>5 DEF Server
<1> HIDE DEF u, rf, er, t
<1>7. ~IsConnection(u, fd) /\ ~IsJob(u, fd)
  BY <1>1, <1>6 DEF IsConnection, IsJob
<1>8. s.interest[fd].ref = None
  <2>1. SUFFICES ASSUME s.interest[fd].ref # None PROVE FALSE
    OBVIOUS
  <2>2. /\ s.eventRefs[fd] = s.interest[fd].ref
        /\ KindOf(s, s.eventRefs[fd]) # "INVALID"
        /\ Exists(s, KindOf(s, s.eventRefs[fd]), fd)
    BY <1>1, <2>1 DEF Tables, WatchedOK
  <2>3. KindOf(s, s.eventRefs[fd]) \in {"SERVER", "CLIENT", "CGI"}
    <3>1. s.eventRefs[fd] \in Ref /\ KindOf(s, s.eventRefs[fd]) \in EventKind
      BY <1>1, <1>2, <2>1, <2>2 DEF KindOf
    <3>2. KindOf(s, s.eventRefs[fd]) # "FREED"
      BY <1>1, <2>1, <2>2 DEF Tables, RegisteredOK
    <3>3. QED
      BY <2>2, <3>1, <3>2 DEF EventKind
  <2>4. QED
    BY <1>1, <2>2, <2>3, ConstantsDistinct DEF Exists
<1>9. Registered(s, u, fd, ref, kind)
  BY <1>1, <1>4, <1>5, <1>6, <1>7, <1>8 DEF Registered
<1>10. Tables(u, b, quiet)
  BY <1>9, RegisterTables
<1>11. JobStates(u)
  BY <1>6 DEF JobStates, IsJob
<1>12. QED
  BY <1>3, <1>6, <1>10, <1>11 DEF t

\* The pipe of a CGI cannot be registered: run() is left with the map naming
\* a descriptor that nothing owns.
LEMMA ThrowsKeeps ==
  ASSUME IInv, NEW ref \in Ref, NEW j \in Fd, NEW new \in Ref,
         DispatchClientCgiThrows(ref, j, new)
  PROVE  IInv'
<1> DEFINE fd    == srv.refs[ref].fd
           quiet == {<<fd, "IN">>, <<fd, "OUT">>}
           s     == Touch(srv, fd)
<1>1. fd \in Fd /\ Tables(srv, batch', quiet) /\ JobStates(srv)
  BY ReadableReads DEF DispatchClientCgiThrows, IInv
<1>2. /\ srv' = RegisterEventFd(s, j, new, "CGI", {"IN"}, FALSE) /\ ~srv.stopped
      /\ j \in FreeFd(srv) /\ new \in FreeRef(srv)
  BY DEF DispatchClientCgiThrows, Dispatching
<1> HIDE DEF fd, quiet, s
<1>3. /\ Tables(s, batch', quiet) /\ JobStates(s) /\ ~s.stopped
      /\ j \in FreeFd(s) /\ new \in FreeRef(s)
  BY <1>1, <1>2, TouchTables DEF s
<1>4. Tables(srv', batch', quiet) /\ JobStates(srv')
  BY <1>2, <1>3, RefusedTables
<1>5. Tables(srv', batch', {})
  BY <1>4, Loud
<1>6. QED
  BY <1>4, <1>5, DispatchKeeps DEF DispatchClientCgiThrows, Dispatching

\* A client is accepted; epoll takes it or it is closed again.
LEMMA AcceptTables ==
  ASSUME NEW s, NEW b, NEW quiet, Tables(s, b, quiet), JobStates(s), ~s.stopped,
         NEW fd \in FreeFd(s), NEW ref \in FreeRef(s), NEW added \in BOOLEAN
  PROVE  LET m == RegisterEventFd([s EXCEPT !.connections[fd] = NewConnection],
                                  fd, ref, "CLIENT", {"IN", "RDHUP"}, added)
             t == IF added THEN m ELSE CloseConnection(m, fd)
         IN  Tables(t, b, quiet) /\ JobStates(t)
<1> DEFINE events == {"IN", "RDHUP"}
           m  == RegisterEventFd([s EXCEPT !.connections[fd] = NewConnection],
                                 fd, ref, "CLIENT", events, added)
           t  == IF added THEN m ELSE CloseConnection(m, fd)
           c  == [s.connections EXCEPT ![fd] = IF added THEN NewConnection ELSE NoConnection]
           rf == [s.refs EXCEPT ![ref] = [kind |-> "CLIENT", fd |-> fd]]
           er == [s.eventRefs EXCEPT ![fd] = ref]
           it == [s.interest EXCEPT ![fd] = IF added THEN [ref |-> ref, events |-> events]
                                                     ELSE NoInterest]
           u  == [s EXCEPT !.connections = c, !.refs = rf, !.eventRefs = er, !.interest = it]
<1>1. fd \in Fd /\ fd \in AllFd /\ ref \in Ref /\ ~IsConnection(s, fd) /\ ~IsJob(s, fd)
  BY DEF FreeFd, FreeRef, AllFd
<1>2. /\ s \in Server /\ s.refs \in [Ref -> [kind : EventKind, fd : AllFd]]
      /\ s.eventRefs \in [AllFd -> Ref \cup {None}]
      /\ s.interest \in [AllFd -> Interest] /\ s.connections \in [Fd -> Connection]
  BY DEF Tables, Server
<1>3. NewConnection.state = "READING" /\ NoConnection.state = "FREE"
  BY DEF NewConnection, NoConnection
<1>4. NewConnection \in Connection /\ NoConnection \in Connection
  BY DEF NewConnection, NoConnection, Connection, ConnState
<1>5. t = u
  <2>1. CASE added
    BY <2>1, <1>2 DEF RegisterEventFd, Server
  <2>2. CASE ~added
    <3> DEFINE cn == [s.connections EXCEPT ![fd] = NewConnection]
               im == [s.interest EXCEPT ![fd] = @]
    <3>1. m = [s EXCEPT !.connections = cn, !.refs = rf, !.eventRefs = er, !.interest = im]
      BY <1>2, <2>2 DEF RegisterEventFd, Server
    <3>2. m.connections = cn /\ m.interest = im
      BY <1>2, <3>1 DEF Server
    <3>3. m.connections[fd].state = "READING"
      BY <1>1, <1>2, <1>3, <3>2
    <3>4. t = [m EXCEPT !.connections[fd] = NoConnection, !.interest[fd] = NoInterest]
      BY <1>1, <2>2, <3>3 DEF CloseConnection, IsConnection
    <3>5. [cn EXCEPT ![fd] = NoConnection] = c
      BY <1>2, <2>2
    <3>6. [im EXCEPT ![fd] = NoInterest] = it
      BY <1>2, <2>2
    <3> HIDE DEF m, cn, im, c, it, rf, er, t
    <3>7. t = [s EXCEPT !.connections = c, !.refs = rf, !.eventRefs = er, !.interest = it]
      BY <1>2, <3>1, <3>4, <3>5, <3>6 DEF Server
    <3>8. QED
      BY <3>7
  <2>3. QED
    BY <2>1, <2>2
<1>6. /\ c \in [Fd -> Connection] /\ c[fd].state = IF added THEN "READING" ELSE "FREE"
      /\ \A f \in Fd \ {fd} : c[f] = s.connections[f]
  BY <1>1, <1>2, <1>3, <1>4
<1>7. /\ rf \in [Ref -> [kind : EventKind, fd : AllFd]]
      /\ rf[ref].kind = "CLIENT" /\ rf[ref].fd = fd
      /\ \A r \in Ref \ {ref} : rf[r] = s.refs[r]
  BY <1>1, <1>2 DEF EventKind
<1>8. /\ er \in [AllFd -> Ref \cup {None}] /\ er[fd] = ref
      /\ \A f \in AllFd \ {fd} : er[f] = s.eventRefs[f]
  BY <1>1, <1>2
<1>9. /\ it \in [AllFd -> Interest] /\ \A f \in AllFd \ {fd} : it[f] = s.interest[f]
      /\ it[fd] = IF added THEN [ref |-> ref, events |-> EventsFor("READING")] ELSE NoInterest
  BY <1>1, <1>2 DEF Interest, NoInterest, EventFlag, EventsFor
<1>10. /\ u \in Server /\ u.refs = rf /\ u.eventRefs = er /\ u.staleRefs = s.staleRefs
       /\ u.stopped = s.stopped /\ u.interest = it
       /\ u.connections = c /\ u.cgiJobs = s.cgiJobs
  BY <1>2, <1>6, <1>7, <1>8, <1>9 DEF Server
<1> HIDE DEF u, rf, er, it, c, t
<1>11. ~IsJob(u, fd) /\ (~added => ~IsConnection(u, fd) /\ u.interest[fd].ref = None)
  BY <1>1, <1>6, <1>9, <1>10 DEF IsConnection, IsJob, NoInterest
<1>12. Registered(s, u, fd, ref, "CLIENT")
  BY <1>1, <1>6, <1>7, <1>8, <1>9, <1>10, <1>11 DEF Registered
<1>13. Tables(u, b, quiet)
  BY <1>12, RegisterTables
<1>14. JobStates(u)
  <2>1. \A i \in Fd : IsJob(u, i) => IsJob(s, i) /\ s.cgiJobs[i].client \in Fd \ {fd}
    BY <1>1, <1>10, JobClient DEF IsJob
  <2>2. QED
    BY <1>6, <1>10, <2>1 DEF JobStates
<1>15. QED
  BY <1>5, <1>13, <1>14 DEF t

LEMMA AcceptKeeps ==
  ASSUME IInv, NEW fd \in Fd, NEW ref \in Ref, NEW added \in BOOLEAN, AcceptOne(fd, ref, added)
  PROVE  IInv'
<1>1. Tables(srv', batch', {}) /\ JobStates(srv')
  BY AcceptTables DEF IInv, AcceptOne
<1>2. TypeOK'
  BY <1>1 DEF IInv, TypeOK, AcceptOne, Tables
<1>3. QED
  BY <1>1, <1>2 DEF IInv, AcceptOne

LEMMA AcceptDoneKeeps ==
  ASSUME IInv, AcceptDone
  PROVE  IInv'
BY DEF IInv, AcceptDone, TypeOK, Phase

\* epoll_wait: what is reported is what the watched objects were armed for.
LEMMA WaitKeeps ==
  ASSUME IInv, Wait
  PROVE  IInv'
<1>1. PICK fds \in SUBSET {f \in AllFd : srv.interest[f] # NoInterest} :
        \E what \in [fds -> {"ready", "shut", "gone"}] :
          batch' = [r \in Ref |->
                      UNION {Report(srv.interest[f].events, what[f]) :
                               f \in {x \in fds : srv.interest[x].ref = r}}]
  BY DEF Wait
<1>2. PICK what \in [fds -> {"ready", "shut", "gone"}] :
        batch' = [r \in Ref |->
                    UNION {Report(srv.interest[f].events, what[f]) :
                             f \in {x \in fds : srv.interest[x].ref = r}}]
  BY <1>1
<1>3. srv' = srv /\ todo' = todo /\ phase' = "dispatch" /\ ~srv.stopped
  BY DEF Wait
<1>4. /\ Tables(srv, batch, {}) /\ JobStates(srv) /\ srv \in Server
      /\ srv.interest \in [AllFd -> Interest]
  BY DEF IInv, TypeOK, Server
<1>5. \A f \in AllFd : \A x : Report(srv.interest[f].events, x) \subseteq EventFlag
  BY <1>4 DEF Interest, Report, EventFlag
<1>6. \A r \in Ref : batch'[r] = UNION {Report(srv.interest[f].events, what[f]) :
                                          f \in {x \in fds : srv.interest[x].ref = r}}
  BY <1>2
<1>7. batch' \in [Ref -> SUBSET EventFlag]
  <2>1. \A r \in Ref : UNION {Report(srv.interest[f].events, what[f]) :
                                f \in {x \in fds : srv.interest[x].ref = r}} \subseteq EventFlag
    BY <1>5
  <2>2. QED
    BY <1>2, <2>1
<1>8. BatchOK(srv, batch', {})
  <2>1. SUFFICES ASSUME NEW r \in Ref, batch'[r] # {}
                 PROVE  /\ KindOf(srv, r) # "FREED"
                        /\ KindOf(srv, r) # "INVALID" => srv.eventRefs[srv.refs[r].fd] = r
                        /\ Exists(srv, KindOf(srv, r), srv.refs[r].fd)
                        /\ KindOf(srv, r) = "CLIENT" =>
                             Fits(batch'[r], srv.connections[srv.refs[r].fd].state, srv.refs[r].fd, {})
    BY DEF BatchOK
  <2>2. PICK f \in fds : srv.interest[f].ref = r
    BY <1>6, <2>1
  <2>3. f \in AllFd /\ r # None
    BY ConstantsDistinct
  <2>4. \A x \in fds : srv.interest[x].ref = r => srv.eventRefs[x] = r /\ srv.refs[r].fd = x
    BY <1>4, <2>3 DEF Tables, WatchedOK, RegisteredOK
  <2>5. \A x \in fds : srv.interest[x].ref = r <=> x = f
    BY <2>2, <2>4
  <2>6. /\ srv.eventRefs[f] = r /\ srv.refs[r].fd = f
        /\ KindOf(srv, r) # "FREED" /\ KindOf(srv, r) # "INVALID"
        /\ Exists(srv, KindOf(srv, r), f)
    BY <1>4, <2>2, <2>3, <2>4 DEF Tables, WatchedOK, RegisteredOK
  <2>7. batch'[r] = Report(srv.interest[f].events, what[f])
    <3>1. {x \in fds : srv.interest[x].ref = r} = {f}
      BY <2>5
    <3>2. batch'[r] = UNION {Report(srv.interest[x].events, what[x]) : x \in {f}}
      BY <1>6, <3>1
    <3>3. {Report(srv.interest[x].events, what[x]) : x \in {f}} = {Report(srv.interest[f].events, what[f])}
      OBVIOUS
    <3>4. QED
      BY <3>2, <3>3
  <2>8. ASSUME KindOf(srv, r) = "CLIENT"
        PROVE  Fits(batch'[r], srv.connections[f].state, f, {})
    <3>1. f \in Fd /\ IsConnection(srv, f)
      BY <2>6, <2>8 DEF Exists
    <3>2. srv.interest[f] = [ref |-> srv.eventRefs[f], events |-> EventsFor(srv.connections[f].state)]
      BY <1>3, <1>4, <3>1 DEF Tables, LiveOK
    <3>3. srv.interest[f].events = EventsFor(srv.connections[f].state)
      BY <3>2
    <3>4. QED
      BY <2>7, <3>3 DEF Fits, Report, EventsFor
  <2>9. QED
    BY <2>6, <2>8
<1>9. Tables(srv', batch', {}) /\ JobStates(srv')
  BY <1>3, <1>4, <1>8 DEF Tables
<1>10. TypeOK'
  BY <1>3, <1>7 DEF IInv, TypeOK, Phase
<1>11. QED
  BY <1>3, <1>9, <1>10 DEF IInv

\* The stale references are deleted once the whole batch is dispatched.
LEMMA FreeStaleTables ==
  ASSUME NEW s, NEW b, Tables(s, b, {}), JobStates(s), b = [r \in Ref |-> {}]
  PROVE  LET t == FreeStaleRefs(s)
         IN  Tables(t, b, {}) /\ JobStates(t) /\ t.connections = s.connections
<1> DEFINE rf == [r \in Ref |-> IF r \in s.staleRefs THEN [kind |-> "FREED", fd |-> Listener]
                                                     ELSE s.refs[r]]
           t  == [s EXCEPT !.refs = rf, !.staleRefs = {}]
<1>1. /\ s \in Server /\ s.refs \in [Ref -> [kind : EventKind, fd : AllFd]]
      /\ s.eventRefs \in [AllFd -> Ref \cup {None}] /\ s.interest \in [AllFd -> Interest]
  BY DEF Tables, Server
<1>2. /\ rf \in [Ref -> [kind : EventKind, fd : AllFd]]
      /\ \A r \in Ref \ s.staleRefs : rf[r] = s.refs[r]
  BY <1>1 DEF EventKind, AllFd
<1>3. /\ t \in Server /\ t.refs = rf /\ t.staleRefs = {} /\ t.stopped = s.stopped
      /\ t.connections = s.connections /\ t.cgiJobs = s.cgiJobs
      /\ t.eventRefs = s.eventRefs /\ t.interest = s.interest
  BY <1>1, <1>2 DEF Server
<1>4. FreeStaleRefs(s) = t
  BY <1>1 DEF FreeStaleRefs, Server
<1> HIDE DEF rf, t
<1>5. \A r \in Ref \ s.staleRefs : t.refs[r] = s.refs[r] /\ KindOf(t, r) = KindOf(s, r)
  BY <1>2, <1>3 DEF KindOf
<1>6. \A f \in AllFd : s.eventRefs[f] # None => s.eventRefs[f] \in Ref \ s.staleRefs
  BY <1>1 DEF Tables, RegisteredOK
<1>7. RegisteredOK(t)
  BY <1>3, <1>5, <1>6 DEF Tables, RegisteredOK
<1>8. \A k, f : Exists(t, k, f) <=> Exists(s, k, f)
  BY <1>3 DEF Exists, IsConnection, IsJob
<1>9. WatchedOK(t)
  <2>1. \A f \in AllFd : s.interest[f].ref # None => s.eventRefs[f] # None
    BY DEF Tables, WatchedOK
  <2>2. QED
    BY <1>3, <1>5, <1>6, <1>8, <2>1 DEF Tables, WatchedOK
<1>10. LiveOK(t)
  <2>1. \A f \in AllFd : s.eventRefs[f] # None => KindOf(t, s.eventRefs[f]) = KindOf(s, s.eventRefs[f])
    BY <1>5, <1>6
  <2>2. Fd \subseteq AllFd
    BY DEF AllFd
  <2>3. QED
    BY <1>3, <2>1, <2>2 DEF Tables, LiveOK, IsConnection, IsJob
<1>11. OwnersOK(t)
  BY <1>3 DEF Tables, OwnersOK, IsConnection, IsJob
<1>12. BatchOK(t, b, {})
  BY DEF BatchOK
<1>13. Tables(t, b, {}) /\ JobStates(t)
  BY <1>3, <1>7, <1>9, <1>10, <1>11, <1>12 DEF Tables, JobStates, IsJob
<1>14. QED
  BY <1>3, <1>4, <1>13

LEMMA EndDispatchKeeps ==
  ASSUME IInv, EndDispatch
  PROVE  IInv'
<1>1. batch = [r \in Ref |-> {}] /\ batch' = batch
  BY DEF IInv, TypeOK, EndDispatch
<1>2. Tables(srv', batch', {}) /\ JobStates(srv') /\ srv'.connections = srv.connections
  BY <1>1, FreeStaleTables DEF IInv, EndDispatch
<1>3. TypeOK'
  BY <1>1, <1>2 DEF IInv, TypeOK, EndDispatch, TimedOutFds, Tables, Phase
<1>4. \A f \in todo' : srv'.connections[f].state \notin {"FREE", "CGI_RUNNING"}
  BY <1>2 DEF EndDispatch, TimedOutFds
<1>5. QED
  BY <1>1, <1>2, <1>3, <1>4 DEF IInv

\* A step that takes in no client.
NoneTaken == \A f \in Fd : ~IsConnection(srv, f) => ~IsConnection(srv', f)

\* _closeTimedOutClients: outside of the dispatch no event is pending, so
\* the write may do what it likes with the state.
LEMMA SweepClientKeeps ==
  ASSUME IInv, NEW fd \in Fd, NEW w \in WriteOutcome, SweepClient(fd, w)
  PROVE  IInv' /\ NoneTaken
<1> DEFINE quiet == {<<fd, "IN">>, <<fd, "OUT">>}
           c == [srv.connections EXCEPT ![fd].pending = TRUE]
           m == [srv EXCEPT !.connections = c]
           t == HandleWrite(m, fd, w)
           u == CloseClient(t, fd)
<1>1. /\ srv' = u /\ phase = "clients" /\ phase' = phase /\ batch' = batch
      /\ fd \in todo /\ todo' = todo \ {fd}
  BY DEF SweepClient
<1>2. /\ batch = [r \in Ref |-> {}] /\ Tables(srv, batch, quiet) /\ JobStates(srv)
      /\ \A f \in todo : srv.connections[f].state \notin {"FREE", "CGI_RUNNING"}
  BY <1>1, QuietEmpty DEF IInv
<1>3. srv.connections \in [Fd -> Connection]
  BY <1>2 DEF Tables, Server
<1>4. c \in [Fd -> Connection] /\ \A f \in Fd : c[f].state = srv.connections[f].state
  BY <1>3 DEF Connection
<1>5. m = [srv EXCEPT !.connections = c]
  OBVIOUS
<1>6. <<fd, "IN">> \in quiet /\ <<fd, "OUT">> \in quiet
  OBVIOUS
<1> HIDE DEF quiet, c, m
<1>7. Tables(m, batch, quiet) /\ JobStates(m) /\ m.connections = c
  BY <1>2, <1>4, <1>5, BytesTables
<1>8. m.connections[fd].state \in {"READING", "WRITING"}
  <2>1. srv.connections[fd].state \in ConnState
    BY <1>3 DEF Connection
  <2>2. QED
    BY <1>1, <1>2, <1>4, <1>7, <2>1 DEF ConnState
<1>9. /\ Tables(t, batch, quiet) /\ JobStates(t) /\ ~IsJob(t, fd)
      /\ \A f \in Fd \ {fd} : \/ t.connections[f].state = m.connections[f].state
                              \/ IsConnection(m, f) /\ t.connections[f].state = "WRITING"
  BY <1>6, <1>7, <1>8, WriteTables
<1> HIDE DEF t
<1>10. /\ Tables(u, batch, quiet) /\ JobStates(u)
       /\ \A f \in Fd : u.connections[f].state = IF f = fd THEN "FREE" ELSE t.connections[f].state
  BY <1>9, CloseClientTables, CloseClientStates
<1> HIDE DEF u
<1>11. Tables(srv', batch', {}) /\ JobStates(srv')
  BY <1>1, <1>10, Loud
<1>12. TypeOK'
  BY <1>1, <1>11 DEF IInv, TypeOK, Tables
<1>13. \A f \in todo' : srv'.connections[f].state \notin {"FREE", "CGI_RUNNING"}
  <2>1. todo \subseteq Fd
    BY DEF IInv, TypeOK
  <2>2. QED
    BY <1>1, <1>2, <1>4, <1>7, <1>9, <1>10, <2>1
<1>14. NoneTaken
  BY <1>1, <1>4, <1>7, <1>9, <1>10 DEF NoneTaken, IsConnection
<1>15. QED
  BY <1>1, <1>2, <1>11, <1>12, <1>13, <1>14 DEF IInv

LEMMA ClientsSweptKeeps ==
  ASSUME IInv, ClientsSwept
  PROVE  IInv'
BY DEF IInv, ClientsSwept, TypeOK, Phase

\* _closeTimedOutCgiJobs.
LEMMA SweepJobKeeps ==
  ASSUME IInv, NEW j \in Fd, SweepJob(j)
  PROVE  IInv' /\ NoneTaken
<1>1. /\ srv' = FailCgiJob(srv, j) /\ phase = "jobs" /\ phase' = phase /\ batch' = batch
      /\ todo' \subseteq todo /\ batch = [r \in Ref |-> {}]
  BY DEF SweepJob, IInv
<1>2. Tables(srv', batch', {}) /\ JobStates(srv') /\ Moved(srv, srv')
  <2>1. CASE IsJob(srv, j)
    <3> DEFINE quiet == {<<srv.cgiJobs[j].client, "IN">>}
    <3>1. Tables(srv, batch, quiet) /\ JobStates(srv) /\ <<srv.cgiJobs[j].client, "IN">> \in quiet
      BY <1>1, QuietEmpty DEF IInv
    <3> HIDE DEF quiet
    <3>2. Tables(srv', batch, quiet) /\ JobStates(srv') /\ Moved(srv, srv')
      BY <1>1, <2>1, <3>1, FailTables
    <3>3. QED
      BY <1>1, <3>2, Loud
  <2>2. CASE ~IsJob(srv, j)
    BY <1>1, <2>2 DEF IInv, FailCgiJob, Moved
  <2>3. QED
    BY <2>1, <2>2
<1>3. TypeOK'
  BY <1>1, <1>2 DEF IInv, TypeOK, Tables
<1>4. NoneTaken
  BY <1>2 DEF NoneTaken, Moved, IsConnection
<1>5. QED
  BY <1>1, <1>2, <1>3, <1>4 DEF IInv

\* _reapPending touches the children only.
LEMMA JobsSweptKeeps ==
  ASSUME IInv, JobsSwept
  PROVE  IInv'
<1> DEFINE c == [p \in Pid |-> IF p \in srv.pendingReap \ srv.overdue /\ srv.child[p] = "ZOMBIE"
                                 THEN "NONE" ELSE srv.child[p]]
           k == {p \in srv.pendingReap \ srv.overdue : srv.child[p] = "RUNNING"}
           t == [srv EXCEPT !.child = c, !.pendingReap = k]
<1>1. srv \in Server
  BY DEF IInv, TypeOK
<1>2. /\ c \in [Pid -> {"NONE", "RUNNING", "ZOMBIE"}]
      /\ k \in SUBSET Pid
  BY <1>1 DEF Server
<1>3. srv' = t
  BY <1>1 DEF JobsSwept, ReapPending, Server
<1> HIDE DEF c, k
<1>4. /\ t \in Server /\ t.connections = srv.connections /\ t.cgiJobs = srv.cgiJobs
      /\ t.refs = srv.refs /\ t.eventRefs = srv.eventRefs /\ t.staleRefs = srv.staleRefs
      /\ t.interest = srv.interest /\ t.stopped = srv.stopped
  BY <1>1, <1>2 DEF Server
<1> HIDE DEF t
<1>5. Tables(t, batch, {})
  BY <1>4, FrameTables DEF IInv
<1>6. JobStates(t)
  BY <1>4 DEF IInv, JobStates, IsJob
<1>7. TypeOK'
  BY <1>3, <1>4 DEF IInv, TypeOK, JobsSwept, Phase
<1>8. QED
  BY <1>3, <1>5, <1>6, <1>7 DEF IInv, JobsSwept

\* The destructor leaves nothing.
LEMMA ExitKeeps ==
  ASSUME IInv, Exit
  PROVE  IInv'
<1> DEFINE pids == ({srv.cgiJobs[j].pid : j \in Fd} \ {None}) \cup srv.pendingReap
           dead == (({srv.eventRefs[f] : f \in AllFd}) \ {None}) \cup srv.staleRefs
           cn == [f \in Fd |-> NoConnection]
           cj == [f \in Fd |-> NoJob]
           ch == [p \in Pid |-> IF p \in pids THEN "NONE" ELSE srv.child[p]]
           rf == [r \in Ref |-> IF r \in dead THEN [kind |-> "FREED", fd |-> Listener]
                                              ELSE srv.refs[r]]
           er == [f \in AllFd |-> None]
           it == [f \in AllFd |-> NoInterest]
           t  == [srv EXCEPT !.connections = cn, !.cgiJobs = cj, !.child = ch, !.refs = rf,
                             !.eventRefs = er, !.interest = it, !.staleRefs = {},
                             !.pendingReap = {}]
<1>1. srv \in Server
  BY DEF IInv, TypeOK
<1>2. srv' = t
  BY <1>1 DEF Exit, Destroy, Server
<1>3. cn \in [Fd -> Connection] /\ cj \in [Fd -> CgiJob]
  BY DEF NoConnection, NoJob, Connection, CgiJob, ConnState
<1>4. ch \in [Pid -> {"NONE", "RUNNING", "ZOMBIE"}]
  BY <1>1 DEF Server
<1>5. rf \in [Ref -> [kind : EventKind, fd : AllFd]]
  BY <1>1 DEF Server, EventKind, AllFd
<1>6. er \in [AllFd -> Ref \cup {None}] /\ it \in [AllFd -> Interest]
  BY DEF Interest, NoInterest
<1>7. /\ \A f \in Fd : cn[f].state = "FREE" /\ cj[f].client = None
      /\ \A f \in AllFd : er[f] = None /\ it[f].ref = None
  BY DEF NoConnection, NoJob, NoInterest
<1> HIDE DEF pids, dead, cn, cj, ch, rf, er, it
<1>8. /\ t \in Server /\ t.connections = cn /\ t.cgiJobs = cj /\ t.eventRefs = er
      /\ t.interest = it /\ t.staleRefs = {}
  BY <1>1, <1>3, <1>4, <1>5, <1>6 DEF Server
<1> HIDE DEF t
<1>9. batch' = [r \in Ref |-> {}] /\ todo' = todo /\ phase' = "exit"
  BY DEF Exit
<1>10. RegisteredOK(t) /\ WatchedOK(t)
  BY <1>7, <1>8 DEF RegisteredOK, WatchedOK
<1>11. \A f \in Fd : ~IsConnection(t, f) /\ ~IsJob(t, f)
  BY <1>7, <1>8 DEF IsConnection, IsJob
<1>12. LiveOK(t)
  BY <1>7, <1>8, <1>11 DEF LiveOK
<1>13. OwnersOK(t) /\ JobStates(t)
  BY <1>11 DEF OwnersOK, JobStates
<1>14. BatchOK(t, batch', {})
  BY <1>9 DEF BatchOK
<1>15. Tables(t, batch', {})
  BY <1>8, <1>10, <1>12, <1>13, <1>14 DEF Tables
<1>16. TypeOK'
  BY <1>2, <1>8, <1>9 DEF IInv, TypeOK, Phase
<1>17. QED
  BY <1>2, <1>9, <1>13, <1>15, <1>16 DEF IInv

\* The signal handler: nothing is watched any more, no reference is valid.
LEMMA StopKeeps ==
  ASSUME IInv, Stop
  PROVE  IInv'
<1> DEFINE known == {srv.eventRefs[f] : f \in AllFd} \ {None}
           rf == [r \in Ref |-> IF r \in known THEN [srv.refs[r] EXCEPT !.kind = "INVALID"]
                                               ELSE srv.refs[r]]
           it == [f \in AllFd |-> NoInterest]
           t  == [srv EXCEPT !.stopped = TRUE, !.refs = rf, !.interest = it]
<1>1. /\ srv \in Server /\ srv.refs \in [Ref -> [kind : EventKind, fd : AllFd]]
      /\ srv.eventRefs \in [AllFd -> Ref \cup {None}] /\ Tables(srv, batch, {}) /\ JobStates(srv)
  BY DEF IInv, TypeOK, Server
<1>2. /\ srv' = t /\ phase' = phase /\ batch' = batch /\ todo' = todo
  BY <1>1 DEF Stop, Server
<1>3. /\ rf \in [Ref -> [kind : EventKind, fd : AllFd]]
      /\ \A r \in Ref : rf[r].fd = srv.refs[r].fd
      /\ \A r \in Ref : rf[r].kind = IF r \in known THEN "INVALID" ELSE srv.refs[r].kind
  BY <1>1 DEF EventKind
<1>4. it \in [AllFd -> Interest] /\ \A f \in AllFd : it[f].ref = None
  BY DEF Interest, NoInterest
<1>5. \A f \in AllFd : srv.eventRefs[f] # None => srv.eventRefs[f] \in known /\ srv.eventRefs[f] \in Ref
  BY <1>1
<1> HIDE DEF rf, it, known
<1>6. /\ t \in Server /\ t.connections = srv.connections /\ t.cgiJobs = srv.cgiJobs
      /\ t.refs = rf /\ t.eventRefs = srv.eventRefs /\ t.staleRefs = srv.staleRefs
      /\ t.interest = it /\ t.stopped = TRUE
  BY <1>1, <1>3, <1>4 DEF Server
<1> HIDE DEF t
<1>7. \A r \in Ref : KindOf(t, r) = IF r \in known THEN "INVALID" ELSE KindOf(srv, r)
  BY <1>3, <1>6 DEF KindOf
<1>8. RegisteredOK(t)
  <2>1. srv.staleRefs \subseteq Ref
    BY <1>1 DEF Server
  <2>2. QED
    BY <1>1, <1>3, <1>5, <1>6, <1>7, <2>1 DEF Tables, RegisteredOK
<1>9. WatchedOK(t) /\ LiveOK(t)
  BY <1>4, <1>5, <1>6, <1>7 DEF WatchedOK, LiveOK
<1>10. OwnersOK(t) /\ JobStates(t)
  BY <1>1, <1>6 DEF Tables, OwnersOK, JobStates, IsConnection, IsJob
<1>11. BatchOK(t, batch, {})
  <2>1. SUFFICES ASSUME NEW r \in Ref, batch[r] # {}
                 PROVE  /\ KindOf(t, r) # "FREED"
                        /\ KindOf(t, r) # "INVALID" => t.eventRefs[t.refs[r].fd] = r
                        /\ Exists(t, KindOf(t, r), t.refs[r].fd)
                        /\ KindOf(t, r) = "CLIENT" =>
                             Fits(batch[r], t.connections[t.refs[r].fd].state, t.refs[r].fd, {})
    BY DEF BatchOK
  <2>2. /\ KindOf(srv, r) # "FREED"
        /\ KindOf(srv, r) # "INVALID" => srv.eventRefs[srv.refs[r].fd] = r
    BY <1>1, <2>1 DEF Tables, BatchOK
  <2>3. srv.refs[r].fd \in AllFd
    BY <1>1
  <2>4. KindOf(t, r) = "INVALID"
    BY <1>5, <1>7, <2>2, <2>3, ConstantsDistinct
  <2>5. QED
    BY <2>4 DEF Exists
<1>12. Tables(t, batch, {})
  BY <1>6, <1>8, <1>9, <1>10, <1>11 DEF Tables
<1>13. QED
  BY <1>2, <1>6, <1>10, <1>12 DEF IInv, TypeOK

\* The clock and the children change nothing the tables speak of.
LEMMA EnvironmentKeeps ==
  ASSUME IInv, Environment
  PROVE  IInv'
<1>1. /\ srv \in Server /\ Tables(srv, batch, {}) /\ JobStates(srv)
      /\ srv.child \in [Pid -> {"NONE", "RUNNING", "ZOMBIE"}]
      /\ srv.connections \in [Fd -> Connection] /\ srv.cgiJobs \in [Fd -> CgiJob]
  BY DEF IInv, TypeOK, Server
<1>2. ASSUME NEW t, t \in Server, srv' = t, UNCHANGED <<phase, batch, todo>>,
             t.refs = srv.refs, t.eventRefs = srv.eventRefs, t.staleRefs = srv.staleRefs,
             t.interest = srv.interest, t.stopped = srv.stopped,
             \A f \in Fd : t.connections[f].state = srv.connections[f].state,
             \A j \in Fd : /\ t.cgiJobs[j].client = srv.cgiJobs[j].client
                           /\ t.cgiJobs[j].headersSent = srv.cgiJobs[j].headersSent
      PROVE  IInv'
  <2>1. Tables(t, batch, {})
    BY <1>1, <1>2, FrameTables
  <2>2. \A j \in Fd : IsJob(t, j) => IsJob(srv, j) /\ srv.cgiJobs[j].client \in Fd
    BY <1>1, <1>2, JobClient DEF IsJob
  <2>3. JobStates(t)
    BY <1>1, <1>2, <2>2 DEF JobStates
  <2>4. QED
    BY <1>2, <2>1, <2>3 DEF IInv, TypeOK
<1>3. ASSUME NEW p \in Pid, ChildExits(p)
      PROVE  IInv'
  <2> DEFINE h == [srv.child EXCEPT ![p] = "ZOMBIE"]
             t == [srv EXCEPT !.child = h]
  <2>1. h \in [Pid -> {"NONE", "RUNNING", "ZOMBIE"}]
    BY <1>1
  <2>2. srv' = t /\ UNCHANGED <<phase, batch, todo>>
    BY <1>3 DEF ChildExits
  <2> HIDE DEF h
  <2>3. /\ t \in Server /\ t.connections = srv.connections /\ t.cgiJobs = srv.cgiJobs
        /\ t.refs = srv.refs /\ t.eventRefs = srv.eventRefs /\ t.staleRefs = srv.staleRefs
        /\ t.interest = srv.interest /\ t.stopped = srv.stopped
    BY <1>1, <2>1 DEF Server
  <2> HIDE DEF t
  <2>4. QED
    BY <1>2, <2>2, <2>3
<1>4. ASSUME NEW fd \in Fd, ConnectionIdles(fd)
      PROVE  IInv'
  <2> DEFINE c == [srv.connections EXCEPT ![fd].idle = TRUE]
             t == [srv EXCEPT !.connections = c]
  <2>1. c \in [Fd -> Connection] /\ \A f \in Fd : c[f].state = srv.connections[f].state
    BY <1>1 DEF Connection
  <2>2. srv' = t /\ UNCHANGED <<phase, batch, todo>>
    BY <1>4 DEF ConnectionIdles
  <2> HIDE DEF c
  <2>3. /\ t \in Server /\ t.connections = c /\ t.cgiJobs = srv.cgiJobs
        /\ t.refs = srv.refs /\ t.eventRefs = srv.eventRefs /\ t.staleRefs = srv.staleRefs
        /\ t.interest = srv.interest /\ t.stopped = srv.stopped
    BY <1>1, <2>1 DEF Server
  <2> HIDE DEF t
  <2>4. QED
    BY <1>2, <2>1, <2>2, <2>3
<1>5. ASSUME NEW j \in Fd, JobExpires(j)
      PROVE  IInv'
  <2> DEFINE c == [srv.cgiJobs EXCEPT ![j].expired = TRUE]
             t == [srv EXCEPT !.cgiJobs = c]
  <2>1. /\ c \in [Fd -> CgiJob]
        /\ \A i \in Fd : c[i].client = srv.cgiJobs[i].client /\ c[i].headersSent = srv.cgiJobs[i].headersSent
    BY <1>1 DEF CgiJob
  <2>2. srv' = t /\ UNCHANGED <<phase, batch, todo>>
    BY <1>5 DEF JobExpires
  <2> HIDE DEF c
  <2>3. /\ t \in Server /\ t.connections = srv.connections /\ t.cgiJobs = c
        /\ t.refs = srv.refs /\ t.eventRefs = srv.eventRefs /\ t.staleRefs = srv.staleRefs
        /\ t.interest = srv.interest /\ t.stopped = srv.stopped
    BY <1>1, <2>1 DEF Server
  <2> HIDE DEF t
  <2>4. QED
    BY <1>2, <2>1, <2>2, <2>3
<1>6. ASSUME NEW p \in Pid, ReapOverdue(p)
      PROVE  IInv'
  <2> DEFINE t == [srv EXCEPT !.overdue = @ \cup {p}]
  <2>1. srv' = t /\ UNCHANGED <<phase, batch, todo>>
    BY <1>6 DEF ReapOverdue
  <2>2. /\ t \in Server /\ t.connections = srv.connections /\ t.cgiJobs = srv.cgiJobs
        /\ t.refs = srv.refs /\ t.eventRefs = srv.eventRefs /\ t.staleRefs = srv.staleRefs
        /\ t.interest = srv.interest /\ t.stopped = srv.stopped
    BY <1>1 DEF Server
  <2> HIDE DEF t
  <2>3. QED
    BY <1>2, <2>1, <2>2
<1>7. QED
  BY StopKeeps, <1>3, <1>4, <1>5, <1>6 DEF Environment

-----------------------------------------------------------------------------
(* The invariant, and what follows from it. *)

LEMMA InitInvariant == Init => IInv
<1>1. SUFFICES ASSUME Init PROVE IInv
  OBVIOUS
<1>2. PICK r \in Ref :
        srv = [connections |-> [f \in Fd |-> NoConnection],
               cgiJobs     |-> [f \in Fd |-> NoJob],
               refs        |-> [x \in Ref |->
                                 IF x = r THEN [kind |-> "SERVER", fd |-> Listener]
                                          ELSE [kind |-> "FREED", fd |-> Listener]],
               eventRefs   |-> [f \in AllFd |-> IF f = Listener THEN r ELSE None],
               staleRefs   |-> {},
               interest    |-> [f \in AllFd |-> IF f = Listener
                                                  THEN [ref |-> r, events |-> {"IN"}]
                                                  ELSE NoInterest],
               child       |-> [p \in Pid |-> "NONE"],
               pendingReap |-> {},
               overdue     |-> {},
               stopped     |-> FALSE]
  BY <1>1 DEF Init
<1>3. phase = "wait" /\ batch = [x \in Ref |-> {}] /\ todo = {}
  BY <1>1 DEF Init
<1>4. r # None /\ Listener \notin Fd
  BY ConstantsDistinct
<1>5. NoConnection \in Connection /\ NoConnection.state = "FREE"
  BY DEF NoConnection, Connection, ConnState
<1>6. NoJob \in CgiJob /\ NoJob.client = None
  BY DEF NoJob, CgiJob
<1>7. NoInterest \in Interest /\ NoInterest.ref = None
  BY DEF NoInterest, Interest
<1>8. srv.connections = [f \in Fd |-> NoConnection] /\ srv.cgiJobs = [f \in Fd |-> NoJob]
  BY <1>2
<1>9. /\ srv.refs[r].kind = "SERVER" /\ srv.refs[r].fd = Listener
      /\ srv.refs \in [Ref -> [kind : EventKind, fd : AllFd]]
  BY <1>2 DEF EventKind, AllFd
<1>10. /\ srv.eventRefs[Listener] = r /\ \A f \in Fd : srv.eventRefs[f] = None
       /\ srv.interest[Listener] = [ref |-> r, events |-> {"IN"}]
       /\ \A f \in Fd : srv.interest[f] = NoInterest
       /\ srv.eventRefs \in [AllFd -> Ref \cup {None}]
       /\ srv.interest \in [AllFd -> Interest]
  BY <1>2, <1>4, <1>7 DEF AllFd, Interest, EventFlag
<1>11. srv.stopped = FALSE /\ srv.staleRefs = {}
  BY <1>2
<1>12. srv \in Server
  <2>1. /\ srv.connections \in [Fd -> Connection] /\ srv.cgiJobs \in [Fd -> CgiJob]
        /\ srv.child \in [Pid -> {"NONE", "RUNNING", "ZOMBIE"}]
        /\ srv.pendingReap = {} /\ srv.overdue = {}
    BY <1>2, <1>5, <1>6
  <2> DEFINE a == srv.connections  e == srv.cgiJobs  g == srv.refs  h == srv.eventRefs
             i == srv.interest     k == srv.child
  <2>2. srv = [connections |-> a, cgiJobs |-> e, refs |-> g, eventRefs |-> h, staleRefs |-> {},
               interest |-> i, child |-> k, pendingReap |-> {}, overdue |-> {},
               stopped |-> FALSE]
    BY <1>2
  <2>3. a \in [Fd -> Connection] /\ e \in [Fd -> CgiJob] /\ k \in [Pid -> {"NONE", "RUNNING", "ZOMBIE"}]
    BY <2>1
  <2>4. /\ g \in [Ref -> [kind : EventKind, fd : AllFd]]
        /\ h \in [AllFd -> Ref \cup {None}] /\ i \in [AllFd -> Interest]
    BY <1>9, <1>10
  <2> HIDE DEF a, e, g, h, i, k
  <2>5. QED
    BY <2>2, <2>3, <2>4 DEF Server
<1>13. \A f \in Fd : ~IsConnection(srv, f) /\ ~IsJob(srv, f)
  BY <1>5, <1>6, <1>8 DEF IsConnection, IsJob
<1>14. \A f \in AllFd : f # Listener => f \in Fd
  BY DEF AllFd
<1>15. RegisteredOK(srv) /\ WatchedOK(srv)
  BY <1>4, <1>7, <1>9, <1>10, <1>11, <1>14 DEF RegisteredOK, WatchedOK, KindOf, Exists
<1>16. LiveOK(srv) /\ OwnersOK(srv) /\ JobStates(srv)
  BY <1>11, <1>13 DEF LiveOK, OwnersOK, JobStates
<1>17. BatchOK(srv, batch, {})
  BY <1>3 DEF BatchOK
<1>18. Tables(srv, batch, {})
  BY <1>12, <1>15, <1>16, <1>17 DEF Tables
<1>19. TypeOK
  BY <1>3, <1>12 DEF TypeOK, Phase
<1>20. QED
  BY <1>3, <1>16, <1>18, <1>19 DEF IInv

LEMMA NextInvariant == IInv /\ [Next]_vars => IInv'
<1>1. SUFFICES ASSUME IInv, [Next]_vars PROVE IInv'
  OBVIOUS
<1>2. CASE UNCHANGED vars
  BY <1>1, <1>2 DEF vars, IInv, TypeOK
<1>3. CASE Loop
  <2>1. CASE Wait
    BY <1>1, <2>1, WaitKeeps
  <2>2. ASSUME NEW ref \in Ref,
               \/ DispatchIgnored(ref)
               \/ DispatchServer(ref)
               \/ DispatchCgi(ref)
               \/ DispatchClientError(ref)
               \/ DispatchClientHangup(ref)
               \/ DispatchClientRead(ref)
               \/ DispatchClientWrite(ref)
               \/ \E j \in Fd, new \in Ref, pid \in Pid \cup {None} :
                     DispatchClientCgi(ref, j, new, pid)
               \/ \E j \in Fd, new \in Ref : DispatchClientCgiThrows(ref, j, new)
        PROVE  IInv'
    BY <1>1, <2>2, IgnoredKeeps, ServerKeeps, CgiKeeps, ErrorKeeps, HangupKeeps,
       ReadKeeps, WriteKeeps, StartCgiKeeps, ThrowsKeeps
  <2>3. CASE \E fd \in Fd, ref \in Ref, added \in BOOLEAN : AcceptOne(fd, ref, added)
    BY <1>1, <2>3, AcceptKeeps
  <2>4. CASE AcceptDone
    BY <1>1, <2>4, AcceptDoneKeeps
  <2>5. CASE EndDispatch
    BY <1>1, <2>5, EndDispatchKeeps
  <2>6. CASE \E fd \in Fd, w \in WriteOutcome : SweepClient(fd, w)
    BY <1>1, <2>6, SweepClientKeeps
  <2>7. CASE ClientsSwept
    BY <1>1, <2>7, ClientsSweptKeeps
  <2>8. CASE \E j \in Fd : SweepJob(j)
    BY <1>1, <2>8, SweepJobKeeps
  <2>9. CASE JobsSwept
    BY <1>1, <2>9, JobsSweptKeeps
  <2>10. CASE Exit
    BY <1>1, <2>10, ExitKeeps
  <2>11. QED
    BY <1>3, <2>1, <2>2, <2>3, <2>4, <2>5, <2>6, <2>7, <2>8, <2>9, <2>10 DEF Loop
<1>4. CASE Environment
  BY <1>1, <1>4, EnvironmentKeeps
<1>5. CASE Exited
  BY <1>2, <1>5 DEF Exited
<1>6. QED
  BY <1>1, <1>2, <1>3, <1>4, <1>5 DEF Next

\* The tables agree with each other in every state the server can reach.
THEOREM TablesAgree == Spec => []IInv
<1>1. Init => IInv
  BY InitInvariant
<1>2. IInv /\ [Next]_vars => IInv'
  BY NextInvariant
<1>3. QED
  BY <1>1, <1>2, PTL DEF Spec

\* The tables of EventLoop and the kernel's have the shapes declared.
THEOREM TypeCorrect == Spec => []TypeOK
<1>1. IInv => TypeOK
  BY DEF IInv
<1>2. QED
  BY <1>1, TablesAgree, PTL

\* _dispatch never follows a pointer to a deleted EventRef: the references
\* that die while a batch is handled are deleted after it.
THEOREM NeverUsedAfterFree == Spec => []NoUseAfterFree
<1>1. IInv => NoUseAfterFree
  BY DEF IInv, Tables, BatchOK, NoUseAfterFree, KindOf
<1>2. QED
  BY <1>1, TablesAgree, PTL

\* An event that is acted on finds the client, job or listener it was
\* reported for, though descriptors are reused while the batch is handled.
THEOREM TargetsLive == Spec => []EventTargetsLive
<1>1. IInv => EventTargetsLive
  BY DEF IInv, Tables, BatchOK, Exists, EventTargetsLive, KindOf
<1>2. QED
  BY <1>1, TablesAgree, PTL

\* ~EventLoop and the end of a batch delete each EventRef at most once.
THEOREM NeverFreedTwice == Spec => []NoDoubleFree
<1>1. IInv => NoDoubleFree
  <2>1. SUFFICES ASSUME IInv PROVE NoDoubleFree
    OBVIOUS
  <2>2. srv.staleRefs \subseteq Ref
    BY <2>1 DEF IInv, TypeOK, Server
  <2>3. \A f \in AllFd : srv.eventRefs[f] # None =>
          srv.refs[srv.eventRefs[f]].fd = f /\ srv.eventRefs[f] \notin srv.staleRefs
    BY <2>1 DEF IInv, Tables, RegisteredOK
  <2>4. QED
    BY <2>2, <2>3, ConstantsDistinct DEF NoDoubleFree
<1>2. QED
  BY <1>1, TablesAgree, PTL

\* A job belongs to a live connection in the state that fits it, and to no
\* other: what a CGI writes cannot reach the next client of a descriptor.
THEOREM EveryJobOwned == Spec => []JobsOwned
<1>1. IInv => JobsOwned
  BY DEF IInv, Tables, OwnersOK, JobStates, JobsOwned, JobsOf
<1>2. QED
  BY <1>1, TablesAgree, PTL

\* epoll watches every client for exactly what its state calls for, until
\* the signal handler clears the set.
THEOREM MaskFollows == Spec => []MaskFollowsState
<1>1. IInv => MaskFollowsState
  BY DEF IInv, Tables, LiveOK, MaskFollowsState
<1>2. QED
  BY <1>1, TablesAgree, PTL

\* _handleRead runs for connections that read only: none whose state an
\* earlier event of the batch has changed is handed to the parser.
THEOREM ReadsAreCurrent == Spec => []ReadsOnlyWhenReading
<1>1. IInv => ReadsOnlyWhenReading
  BY DEF IInv, Tables, BatchOK, Fits, ReadsOnlyWhenReading, KindOf
<1>2. QED
  BY <1>1, TablesAgree, PTL

\* The connections _closeTimedOutClients has listed are still there when it
\* comes to them, though closing one ends its jobs and fills buffers.
THEOREM SweptExist == Spec => []SweptClientsExist
<1>1. IInv => SweptClientsExist
  BY DEF IInv, SweptClientsExist, IsConnection
<1>2. QED
  BY <1>1, TablesAgree, PTL

-----------------------------------------------------------------------------
(* Children and waiting connections: the invariant. *)

\* Those whose pid is p.
Holders(s, p) == {j \in Fd : s.cgiJobs[j].pid = p}

\* A pid is held by one job, or awaits reaping, or is given up, as long as
\* there is a child; where there is no job there is no pid.
Children(s) ==
  /\ \A p \in Pid :
       /\ s.child[p] # "NONE" => Holders(s, p) # {} \/ p \in s.pendingReap \/ p \in s.overdue
       /\ Holders(s, p) # {} \/ p \in s.pendingReap => s.child[p] # "NONE"
       /\ \A i, j \in Holders(s, p) : i = j
       /\ p \in s.pendingReap => Holders(s, p) = {}
  /\ \A j \in Fd : s.cgiJobs[j].client = None => s.cgiJobs[j].pid = None

\* A connection, other than those in some, is armed for the bytes it holds,
\* and has a job if it waits for one.
Waiting(s, some) ==
  \A f \in Fd \ some :
    /\ s.connections[f].pending => s.connections[f].state = "WRITING"
    /\ s.connections[f].state = "CGI_RUNNING" => \E j \in Fd : s.cgiJobs[j].client = f

Sound(s, some) == s \in Server /\ Children(s) /\ Waiting(s, some)

-----------------------------------------------------------------------------
(* What the operators of the loop leave alone. *)

\* Nothing about jobs and children has changed.
SameJobs(s, t) ==
  /\ t \in Server
  /\ t.cgiJobs = s.cgiJobs /\ t.child = s.child
  /\ t.pendingReap = s.pendingReap /\ t.overdue = s.overdue

\* No child has been started.
NoneStarted(s, t) == \A p \in Pid : s.child[p] = "NONE" => t.child[p] = "NONE"

LEMMA UnregisterShape ==
  ASSUME NEW s \in Server, NEW fds \in SUBSET AllFd
  PROVE  /\ SameJobs(s, UnregisterEventFds(s, fds))
         /\ UnregisterEventFds(s, fds).connections = s.connections
<1> DEFINE gone == {s.eventRefs[f] : f \in fds} \ {None}
           it   == [f \in AllFd |-> IF f \in fds THEN NoInterest ELSE s.interest[f]]
           rf   == [r \in Ref |-> IF r \in gone THEN [s.refs[r] EXCEPT !.kind = "INVALID"]
                                                ELSE s.refs[r]]
           st   == s.staleRefs \cup gone
           er   == [f \in AllFd |-> IF f \in fds THEN None ELSE s.eventRefs[f]]
           t    == [s EXCEPT !.interest = it, !.refs = rf, !.staleRefs = st, !.eventRefs = er]
<1>1. it \in [AllFd -> Interest]
  BY DEF Server, Interest, NoInterest
<1>2. rf \in [Ref -> [kind : EventKind, fd : AllFd]]
  BY DEF Server, EventKind
<1>3. st \in SUBSET Ref /\ er \in [AllFd -> Ref \cup {None}]
  BY DEF Server
<1>4. t = UnregisterEventFds(s, fds)
  BY DEF UnregisterEventFds
<1> HIDE DEF it, rf, st, er
<1>5. SameJobs(s, t) /\ t.connections = s.connections
  BY <1>1, <1>2, <1>3 DEF SameJobs, Server
<1>6. QED
  BY <1>4, <1>5

LEMMA CloseConnectionShape ==
  ASSUME NEW s \in Server, NEW fd \in Fd
  PROVE  LET t == CloseConnection(s, fd)
         IN  /\ SameJobs(s, t)
             /\ \A f \in Fd \ {fd} : t.connections[f] = s.connections[f]
             /\ t.connections[fd] = IF IsConnection(s, fd) THEN NoConnection ELSE s.connections[fd]
<1> DEFINE c == [s.connections EXCEPT ![fd] = NoConnection]
           i == [s.interest EXCEPT ![fd] = NoInterest]
           t == [s EXCEPT !.connections = c, !.interest = i]
<1>1. c \in [Fd -> Connection]
  BY DEF Server, NoConnection, Connection, ConnState
<1>2. i \in [AllFd -> Interest] /\ fd \in AllFd
  BY DEF Server, Interest, NoInterest, AllFd
<1>3. SameJobs(s, t) /\ t.connections = c
  BY <1>1, <1>2 DEF SameJobs, Server
<1>4. s.connections \in [Fd -> Connection]
  BY DEF Server
<1>5. CloseConnection(s, fd) = IF IsConnection(s, fd) THEN t ELSE s
  BY DEF CloseConnection
<1>6. SameJobs(s, s)
  BY DEF SameJobs
<1> HIDE DEF t
<1>7. QED
  BY <1>3, <1>4, <1>5, <1>6

LEMMA ModifyShape ==
  ASSUME NEW s \in Server, NEW fd \in Fd, NEW events \in SUBSET EventFlag
  PROVE  LET t == ModifyEventFd(s, fd, events)
         IN  /\ SameJobs(s, t)
             /\ \A f \in Fd \ {fd} : t.connections[f] = s.connections[f]
             /\ t.connections[fd] \in {s.connections[fd], NoConnection}
<1> DEFINE ref == s.eventRefs[fd]
           i   == [s.interest EXCEPT ![fd] = [ref |-> ref, events |-> events]]
           t   == [s EXCEPT !.interest = i]
<1>1. fd \in AllFd /\ ref \in Ref \cup {None}
  BY DEF Server, AllFd
<1>2. i \in [AllFd -> Interest]
  BY <1>1 DEF Server, Interest
<1>3. SameJobs(s, t) /\ t.connections = s.connections
  BY <1>2 DEF SameJobs, Server
<1>4. SameJobs(s, s)
  BY DEF SameJobs
<1>5. ModifyEventFd(s, fd, events) \in {s, t, CloseConnection(s, fd)}
  BY DEF ModifyEventFd
<1> HIDE DEF t
<1>6. QED
  BY <1>3, <1>4, <1>5, CloseConnectionShape

\* RearmClient either arms the connection or, where epoll has lost it, closes
\* it.
LEMMA RearmShape ==
  ASSUME NEW s \in Server, NEW fd \in Fd
  PROVE  LET t == RearmClient(s, fd)
         IN  /\ SameJobs(s, t)
             /\ \A f \in Fd \ {fd} : t.connections[f] = s.connections[f]
             /\ t.connections[fd] \in {s.connections[fd], NoConnection}
<1>1. EventsFor(s.connections[fd].state) \in SUBSET EventFlag
  BY DEF EventsFor, EventFlag
<1>2. SameJobs(s, s)
  BY DEF SameJobs
<1>3. QED
  BY <1>1, <1>2, ModifyShape DEF RearmClient

\* A connection that is told to write does so, or is gone.
Settled(s, t, fd) ==
  /\ SameJobs(s, t)
  /\ \A f \in Fd \ {fd} : t.connections[f] = s.connections[f]
  /\ t.connections[fd] = NoConnection \/ t.connections[fd].state = "WRITING"

LEMMA EnterShape ==
  ASSUME NEW s \in Server, NEW fd \in Fd, NEW state \in ConnState
  PROVE  LET t == Enter(s, fd, state)
         IN  /\ SameJobs(s, t)
             /\ \A f \in Fd \ {fd} : t.connections[f] = s.connections[f]
             /\ t.connections[fd] \in {[s.connections[fd] EXCEPT !.state = state], NoConnection}
<1> DEFINE c == [s.connections EXCEPT ![fd].state = state]
           m == [s EXCEPT !.connections = c]
<1>1. /\ c \in [Fd -> Connection] /\ c[fd] = [s.connections[fd] EXCEPT !.state = state]
      /\ \A f \in Fd \ {fd} : c[f] = s.connections[f]
  BY DEF Server, Connection
<1>2. SameJobs(s, m) /\ m.connections = c
  BY <1>1 DEF SameJobs, Server
<1>3. Enter(s, fd, state) = RearmClient(m, fd)
  BY DEF Enter
<1> HIDE DEF m, c
<1>4. QED
  BY <1>1, <1>2, <1>3, RearmShape DEF SameJobs

LEMMA WritingShape ==
  ASSUME NEW s \in Server, NEW fd \in Fd
  PROVE  Settled(s, Enter(s, fd, "WRITING"), fd)
<1>1. s.connections[fd] \in Connection /\ "WRITING" \in ConnState
  BY DEF Server, ConnState
<1>2. [s.connections[fd] EXCEPT !.state = "WRITING"].state = "WRITING"
  BY <1>1 DEF Connection
<1>3. QED
  BY <1>1, <1>2, EnterShape DEF Settled

\* Changes of one connection that leave its state.
LEMMA ConnectionShape ==
  ASSUME NEW s \in Server, NEW fd \in Fd, NEW conn \in Connection
  PROVE  LET t == [s EXCEPT !.connections[fd] = conn]
         IN  /\ SameJobs(s, t)
             /\ t.connections = [s.connections EXCEPT ![fd] = conn]
             /\ t.connections[fd] = conn
             /\ \A f \in Fd \ {fd} : t.connections[f] = s.connections[f]
<1>1. [s.connections EXCEPT ![fd] = conn] \in [Fd -> Connection]
  BY DEF Server
<1>2. QED
  BY <1>1 DEF SameJobs, Server

LEMMA RespondShape ==
  ASSUME NEW s \in Server, NEW fd \in Fd
  PROVE  Settled(s, Respond(s, fd), fd)
<1> DEFINE c == [s.connections EXCEPT ![fd].pending = TRUE]
           m == [s EXCEPT !.connections = c]
<1>0. s.connections \in [Fd -> Connection]
  BY DEF Server
<1>1. c \in [Fd -> Connection] /\ \A f \in Fd \ {fd} : c[f] = s.connections[f]
  BY <1>0 DEF Connection
<1>2. SameJobs(s, m) /\ m.connections = c
  BY <1>1 DEF SameJobs, Server
<1>3. Respond(s, fd) = Enter(m, fd, "WRITING")
  BY DEF Respond
<1> HIDE DEF m, c
<1>4. QED
  BY <1>1, <1>2, <1>3, WritingShape DEF Settled, SameJobs
-----------------------------------------------------------------------------
(* Each operator keeps the invariant. *)

LEMMA FrameChildren ==
  ASSUME NEW s, NEW t, Children(s), SameJobs(s, t)
  PROVE  Children(t) /\ NoneStarted(s, t)
BY DEF Children, SameJobs, Holders, NoneStarted

LEMMA SettledSound ==
  ASSUME NEW s, NEW t, NEW some, Sound(s, some), NEW fd \in Fd, Settled(s, t, fd)
  PROVE  Sound(t, some \ {fd}) /\ NoneStarted(s, t)
<1>1. Children(t) /\ NoneStarted(s, t) /\ t \in Server
  BY FrameChildren DEF Sound, Settled, SameJobs
<1>2. Waiting(t, some \ {fd})
  BY DEF Sound, Waiting, Settled, SameJobs, NoConnection
<1>3. QED
  BY <1>1, <1>2 DEF Sound

\* Closing jobs: children that have exited are reaped, the others await it.
LEMMA CloseJobsSound ==
  ASSUME NEW s, NEW some, Sound(s, some), NEW jobs \in SUBSET Fd,
         \A j \in jobs : s.cgiJobs[j].client \notin Fd \ some
                           \/ s.connections[s.cgiJobs[j].client].state # "CGI_RUNNING"
  PROVE  LET t == CloseCgiJobs(s, jobs)
         IN  Sound(t, some) /\ NoneStarted(s, t) /\ t.connections = s.connections
<1> DEFINE pids    == {s.cgiJobs[j].pid : j \in jobs} \ {None}
           running == {p \in pids : s.child[p] = "RUNNING"}
           ch      == [p \in Pid |-> IF p \in pids \ running THEN "NONE" ELSE s.child[p]]
           pr      == s.pendingReap \cup running
           jb      == [j \in Fd |-> IF j \in jobs THEN NoJob ELSE s.cgiJobs[j]]
           m       == [s EXCEPT !.child = ch, !.pendingReap = pr, !.cgiJobs = jb]
           t       == CloseCgiJobs(s, jobs)
<1>1. s \in Server /\ jobs \subseteq AllFd /\ s.cgiJobs \in [Fd -> CgiJob]
  BY DEF Sound, AllFd, Server
<1>2. pids \subseteq Pid
  BY <1>1 DEF CgiJob
<1>3. ch \in [Pid -> {"NONE", "RUNNING", "ZOMBIE"}] /\ pr \in SUBSET Pid
  BY <1>1, <1>2 DEF Server
<1>4. jb \in [Fd -> CgiJob]
  BY <1>1 DEF NoJob, CgiJob
<1>5. /\ m \in Server /\ m.cgiJobs = jb /\ m.connections = s.connections /\ m.child = ch
      /\ m.pendingReap = pr /\ m.overdue = s.overdue
  BY <1>1, <1>3, <1>4 DEF Server
<1>6. t = UnregisterEventFds(m, jobs)
  BY DEF CloseCgiJobs
<1> HIDE DEF m, t
<1>7. SameJobs(m, t) /\ t.connections = s.connections
  BY <1>1, <1>5, <1>6, UnregisterShape
<1>8. Children(m)
  <2>1. None \notin Pid
    BY ConstantsDistinct
  <2>2. \A p \in Pid : Holders(m, p) = Holders(s, p) \ jobs
    BY <1>5, <2>1 DEF Holders, NoJob
  <2>3. \A p \in Pid : p \in pids <=> Holders(s, p) \cap jobs # {}
    BY <2>1 DEF Holders
  <2>4. ASSUME NEW p \in Pid
        PROVE  /\ m.child[p] # "NONE" => Holders(m, p) # {} \/ p \in m.pendingReap \/ p \in m.overdue
               /\ Holders(m, p) # {} \/ p \in m.pendingReap => m.child[p] # "NONE"
               /\ \A i, j \in Holders(m, p) : i = j
               /\ p \in m.pendingReap => Holders(m, p) = {}
    <3>1. /\ s.child[p] # "NONE" => Holders(s, p) # {} \/ p \in s.pendingReap \/ p \in s.overdue
          /\ Holders(s, p) # {} \/ p \in s.pendingReap => s.child[p] # "NONE"
          /\ \A i, j \in Holders(s, p) : i = j
          /\ p \in s.pendingReap => Holders(s, p) = {}
      BY DEF Sound, Children
    <3>2. CASE p \in pids
      <4>1. Holders(m, p) = {} /\ p \notin s.pendingReap
        BY <2>2, <2>3, <3>1, <3>2
      <4>2. m.child[p] = (IF s.child[p] = "RUNNING" THEN s.child[p] ELSE "NONE")
        BY <1>5, <3>2
      <4>3. p \in m.pendingReap <=> s.child[p] = "RUNNING"
        BY <1>5, <3>2, <4>1
      <4>4. QED
        BY <4>1, <4>2, <4>3
    <3>3. CASE p \notin pids
      <4>1. Holders(m, p) = Holders(s, p)
        BY <2>2, <2>3, <3>3
      <4>2. m.child[p] = s.child[p] /\ (p \in m.pendingReap <=> p \in s.pendingReap)
        BY <1>5, <3>3
      <4>3. QED
        BY <1>5, <3>1, <4>1, <4>2
    <3>4. QED
      BY <3>2, <3>3
  <2>5. \A j \in Fd : m.cgiJobs[j].client = None => m.cgiJobs[j].pid = None
    BY <1>5 DEF Sound, Children, NoJob
  <2>6. QED
    BY <2>4, <2>5 DEF Children
<1>9. Children(t) /\ NoneStarted(m, t)
  BY <1>7, <1>8, FrameChildren
<1>10. NoneStarted(s, m)
  BY <1>5 DEF NoneStarted
<1>11. Waiting(t, some)
  <2>1. SUFFICES ASSUME NEW f \in Fd \ some, s.connections[f].state = "CGI_RUNNING"
                 PROVE  \E j \in Fd : t.cgiJobs[j].client = f
    BY <1>7 DEF Waiting, Sound
  <2>2. PICK j \in Fd : s.cgiJobs[j].client = f
    BY <2>1 DEF Sound, Waiting
  <2>3. j \notin jobs
    BY <2>1, <2>2
  <2>4. t.cgiJobs[j] = s.cgiJobs[j]
    BY <2>3, <1>5, <1>7 DEF SameJobs
  <2>5. QED
    BY <2>2, <2>4
<1>12. QED
  BY <1>7, <1>9, <1>10, <1>11 DEF Sound, SameJobs, NoneStarted, t

LEMMA SoundWider ==
  ASSUME NEW s, NEW some, NEW more, Sound(s, some), some \subseteq more
  PROVE  Sound(s, more) /\ NoneStarted(s, s)
BY DEF Sound, Waiting, NoneStarted

\* Closing a client: its jobs go first, so only it may be waiting in between.
LEMMA CloseClientSound ==
  ASSUME NEW s, NEW some, NEW fd \in Fd, Sound(s, some), IsConnection(s, fd) \/ fd \notin some
  PROVE  Sound(CloseClient(s, fd), some \ {fd}) /\ NoneStarted(s, CloseClient(s, fd))
<1> DEFINE u == CloseCgiJobs(s, JobsOf(s, fd))
           v == UnregisterEventFds(u, {fd})
           t == CloseConnection(v, fd)
<1>1. JobsOf(s, fd) \in SUBSET Fd /\ \A j \in JobsOf(s, fd) : s.cgiJobs[j].client = fd
  BY DEF JobsOf
<1>2. Sound(s, some \cup {fd})
  BY SoundWider
<1>3. Sound(u, some \cup {fd}) /\ NoneStarted(s, u) /\ u.connections = s.connections
  BY <1>1, <1>2, CloseJobsSound
<1> HIDE DEF u
<1>4. u \in Server /\ {fd} \in SUBSET AllFd
  BY <1>3 DEF Sound, AllFd
<1>5. SameJobs(u, v) /\ v.connections = s.connections
  BY <1>3, <1>4, UnregisterShape
<1> HIDE DEF v
<1>6. /\ SameJobs(v, t)
      /\ \A f \in Fd \ {fd} : t.connections[f] = v.connections[f]
      /\ t.connections[fd] = IF IsConnection(v, fd) THEN NoConnection ELSE v.connections[fd]
  BY <1>5, CloseConnectionShape DEF SameJobs
<1>7. CloseClient(s, fd) = t
  BY DEF CloseClient, CloseCgiJobsForClient, UnregisterEventFd, u, v
<1> HIDE DEF t
<1>8. SameJobs(u, t)
  BY <1>5, <1>6 DEF SameJobs
<1>9. Children(t) /\ NoneStarted(u, t) /\ t \in Server
  BY <1>3, <1>8, FrameChildren DEF Sound, SameJobs
<1>10. ~t.connections[fd].pending /\ t.connections[fd].state # "CGI_RUNNING"
  <2>1. CASE IsConnection(s, fd)
    BY <2>1, <1>5, <1>6 DEF IsConnection, NoConnection
  <2>2. CASE ~IsConnection(s, fd)
    BY <2>2, <1>5, <1>6 DEF IsConnection, Sound, Waiting
  <2>3. QED
    BY <2>1, <2>2
<1>11. Waiting(t, some \ {fd})
  BY <1>3, <1>5, <1>6, <1>8, <1>10 DEF Sound, Waiting, SameJobs
<1>12. QED
  BY <1>3, <1>7, <1>9, <1>11 DEF Sound, NoneStarted

\* What holds after a step that works for the client of a job: if it is a
\* connection it is settled, otherwise it was none before.
ClientSound(s, t, some, fd) ==
  /\ Sound(t, some)
  /\ IsConnection(s, fd) => Sound(t, some \ {fd})
  /\ NoneStarted(s, t)

\* A job of a client that is not waiting for it is closed.
LEMMA CloseJobSound ==
  ASSUME NEW s, NEW some, NEW j \in Fd, Sound(s, some),
         s.cgiJobs[j].client \notin Fd \ some
           \/ s.connections[s.cgiJobs[j].client].state # "CGI_RUNNING"
  PROVE  LET t == CloseCgiJob(s, j)
         IN  Sound(t, some) /\ NoneStarted(s, t) /\ t.connections = s.connections
<1>1. CASE ~IsJob(s, j)
  BY <1>1 DEF CloseCgiJob, NoneStarted
<1>2. CASE IsJob(s, j)
  <2>1. {j} \in SUBSET Fd /\ CloseCgiJob(s, j) = CloseCgiJobs(s, {j})
    BY <1>2 DEF CloseCgiJob
  <2> HIDE DEF CloseCgiJob
  <2>2. QED
    BY <2>1, CloseJobsSound
<1>3. QED
  BY <1>1, <1>2

LEMMA FailSound ==
  ASSUME NEW s, NEW some, NEW j \in Fd, Sound(s, some), IsJob(s, j)
  PROVE  ClientSound(s, FailCgiJob(s, j), some, s.cgiJobs[j].client)
<1> DEFINE fd == s.cgiJobs[j].client
           m  == Respond(s, fd)
<1>1. fd \in Fd /\ s \in Server
  BY DEF Sound, Server, CgiJob, IsJob
<1>2. CASE ~IsConnection(s, fd)
  <2>1. FailCgiJob(s, j) = CloseCgiJob(s, j)
    BY <1>2 DEF FailCgiJob
  <2>2. QED
    BY <1>2, <2>1, CloseJobSound DEF IsConnection, ClientSound
<1>3. CASE IsConnection(s, fd)
  <2>1. FailCgiJob(s, j) = CloseCgiJob(m, j)
    BY <1>3 DEF FailCgiJob
  <2>2. Settled(s, m, fd)
    BY <1>1, RespondShape
  <2> HIDE DEF m
  <2>3. Sound(m, some \ {fd}) /\ NoneStarted(s, m)
    BY <1>1, <2>2, SettledSound
  <2>4. m.cgiJobs[j].client = fd /\ m.connections[fd].state # "CGI_RUNNING"
    BY <1>1, <2>2 DEF Settled, SameJobs, NoConnection
  <2>5. Sound(CloseCgiJob(m, j), some \ {fd}) /\ NoneStarted(m, CloseCgiJob(m, j))
    BY <2>3, <2>4, CloseJobSound
  <2>6. QED
    BY <2>1, <2>3, <2>5, SoundWider DEF ClientSound, NoneStarted
<1>4. QED
  BY <1>2, <1>3

LEMMA FinishSound ==
  ASSUME NEW s, NEW some, NEW j \in Fd, Sound(s, some), IsJob(s, j), NEW head \in BOOLEAN
  PROVE  ClientSound(s, FinishCgiJob(s, j, head), some, s.cgiJobs[j].client)
<1> DEFINE fd     == s.cgiJobs[j].client
           c      == [s.connections EXCEPT ![fd].pending = TRUE]
           p      == [s EXCEPT !.connections = c]
           m      == IF IsConnection(s, fd) /\ ~head THEN p ELSE s
           closed == CloseCgiJob(m, j)
           t      == Enter(closed, fd, "WRITING")
<1>1. fd \in Fd /\ s \in Server /\ s.connections \in [Fd -> Connection]
  BY DEF Sound, Server, CgiJob, IsJob
<1>2. CASE ~s.cgiJobs[j].headersSent
  BY <1>2, FailSound DEF FinishCgiJob
<1>3. CASE s.cgiJobs[j].headersSent /\ ~IsConnection(s, fd)
  <2>1. FinishCgiJob(s, j, head) = closed /\ m = s
    <3>1. m = s
      BY <1>3
    <3>2. CloseCgiJob(s, j).connections = s.connections
      BY <1>3, CloseJobSound DEF IsConnection
    <3>3. ~IsConnection(closed, fd)
      BY <1>3, <3>1, <3>2 DEF IsConnection
    <3>4. QED
      BY <1>3, <3>1, <3>3 DEF FinishCgiJob
  <2>2. QED
    BY <1>3, <2>1, CloseJobSound DEF IsConnection, ClientSound
<1>4. CASE s.cgiJobs[j].headersSent /\ IsConnection(s, fd)
  <2>1. /\ c \in [Fd -> Connection] /\ \A f \in Fd \ {fd} : c[f] = s.connections[f]
        /\ c[fd].state = s.connections[fd].state
    BY <1>1 DEF Connection
  <2>2. SameJobs(s, p) /\ p.connections = c
    BY <1>1, <2>1 DEF SameJobs, Server
  <2> HIDE DEF p, c
  <2>3. /\ SameJobs(s, m) /\ \A f \in Fd \ {fd} : m.connections[f] = s.connections[f]
        /\ m.connections[fd].state = s.connections[fd].state
    BY <1>1, <2>1, <2>2 DEF SameJobs
  <2>4. FinishCgiJob(s, j, head) = IF IsConnection(closed, fd) THEN t ELSE closed
    BY <1>4 DEF FinishCgiJob, p, c
  <2> HIDE DEF m
  <2>5. Sound(m, some \cup {fd}) /\ NoneStarted(s, m)
    <3>1. Children(m) /\ NoneStarted(s, m)
      BY <2>3, FrameChildren DEF Sound
    <3>2. Waiting(m, some \cup {fd})
      BY <2>3 DEF Sound, Waiting, SameJobs
    <3>3. QED
      BY <3>1, <3>2, <2>3 DEF Sound, SameJobs
  <2>6. m.cgiJobs[j].client = fd
    BY <2>3 DEF SameJobs
  <2>7. Sound(closed, some \cup {fd}) /\ NoneStarted(m, closed) /\ closed.connections = m.connections
    BY <2>5, <2>6, CloseJobSound
  <2>8. IsConnection(closed, fd)
    BY <1>4, <2>3, <2>7 DEF IsConnection
  <2> HIDE DEF closed
  <2>9. Settled(closed, t, fd)
    BY <1>1, <2>7, WritingShape DEF Sound
  <2> HIDE DEF t
  <2>10. Sound(t, (some \cup {fd}) \ {fd}) /\ NoneStarted(closed, t)
    BY <1>1, <2>7, <2>9, SettledSound
  <2>11. Sound(t, some \ {fd})
    <3>1. (some \cup {fd}) \ {fd} = some \ {fd}
      OBVIOUS
    <3>2. QED
      BY <2>10, <3>1
  <2>12. Sound(t, some)
    BY <2>11, SoundWider
  <2>13. QED
    BY <2>4, <2>5, <2>7, <2>8, <2>10, <2>11, <2>12 DEF ClientSound, NoneStarted
<1>5. QED
  BY <1>2, <1>3, <1>4

\* One event of a job's pipe: nothing, or its client is settled.
LEMMA CgiEventSound ==
  ASSUME NEW s, NEW some, NEW j \in Fd, Sound(s, some), NEW o \in CgiOutcome
  PROVE  LET t == HandleCgiEvent(s, j, o)
         IN  /\ Sound(t, some) /\ NoneStarted(s, t)
             /\ t = s \/ (IsJob(s, j) /\ ClientSound(s, t, some, s.cgiJobs[j].client))
<1> DEFINE fd == s.cgiJobs[j].client
           g  == [s.cgiJobs EXCEPT ![j].headersSent = TRUE]
           m  == [s EXCEPT !.cgiJobs = g]
           t  == HandleCgiEvent(s, j, o)
<1>0. SUFFICES /\ Sound(t, some) /\ NoneStarted(s, t)
               /\ t = s \/ (IsJob(s, j) /\ ClientSound(s, t, some, fd))
  OBVIOUS
<1>1. CASE s.stopped \/ ~IsJob(s, j)
  <2>1. t = s
    BY <1>1 DEF HandleCgiEvent
  <2> HIDE DEF t
  <2>2. QED
    BY <2>1 DEF NoneStarted
<1>2. CASE ~s.stopped /\ IsJob(s, j) /\ ~IsConnection(s, fd)
  <2>1. t = FailCgiJob(s, j) \/ t = CloseCgiJob(s, j)
    BY <1>2 DEF HandleCgiEvent
  <2> HIDE DEF t
  <2>2. CASE t = FailCgiJob(s, j)
    BY <1>2, <2>2, FailSound DEF ClientSound
  <2>3. CASE t = CloseCgiJob(s, j)
    BY <1>2, <2>3, CloseJobSound DEF IsConnection, ClientSound
  <2>4. QED
    BY <2>1, <2>2, <2>3
<1>3. CASE ~s.stopped /\ IsJob(s, j) /\ IsConnection(s, fd)
  <2>1. fd \in Fd /\ s \in Server /\ s.cgiJobs \in [Fd -> CgiJob]
    BY <1>3 DEF Sound, Server, CgiJob, IsJob
  <2>2. CASE o = "output"
    <3>1. /\ g \in [Fd -> CgiJob]
          /\ \A i \in Fd : g[i].client = s.cgiJobs[i].client /\ g[i].pid = s.cgiJobs[i].pid
      BY <2>1 DEF CgiJob
    <3>2. /\ m \in Server /\ m.cgiJobs = g /\ m.connections = s.connections /\ m.child = s.child
          /\ m.pendingReap = s.pendingReap /\ m.overdue = s.overdue
      BY <2>1, <3>1 DEF Server
    <3>3. t = Respond(m, fd)
      BY <1>3, <2>2 DEF HandleCgiEvent
    <3> HIDE DEF m, g, t
    <3>4. Sound(m, some) /\ NoneStarted(s, m)
      BY <3>1, <3>2 DEF Sound, Children, Holders, Waiting, NoneStarted
    <3>5. Settled(m, t, fd)
      BY <2>1, <3>2, <3>3, RespondShape
    <3>6. Sound(t, some \ {fd}) /\ NoneStarted(m, t)
      BY <2>1, <3>4, <3>5, SettledSound
    <3>7. Sound(t, some)
      BY <3>6, SoundWider
    <3>8. QED
      BY <1>3, <3>4, <3>6, <3>7 DEF ClientSound, NoneStarted
  <2>3. CASE o = "nothing"
    <3>1. t = s
      BY <1>3, <2>3 DEF HandleCgiEvent
    <3> HIDE DEF t
    <3>2. QED
      BY <3>1 DEF NoneStarted
  <2>4. CASE o \in {"eof", "eofHead", "fail"}
    <3>1. \/ t = FailCgiJob(s, j)
          \/ t = FinishCgiJob(s, j, TRUE)
          \/ t = FinishCgiJob(s, j, FALSE)
      BY <1>3, <2>4 DEF HandleCgiEvent
    <3> HIDE DEF t
    <3>2. ClientSound(s, t, some, fd)
      BY <1>3, <3>1, FailSound, FinishSound
    <3>3. QED
      BY <1>3, <3>2 DEF ClientSound
  <2>5. QED
    BY <2>2, <2>3, <2>4 DEF CgiOutcome
<1>4. QED
  BY <1>1, <1>2, <1>3

\* One connection is changed and may not be settled for the moment.
LEMMA OneSound ==
  ASSUME NEW s, NEW some, NEW fd \in Fd, Sound(s, some), NEW t, SameJobs(s, t),
         \A f \in Fd \ {fd} : t.connections[f] = s.connections[f]
  PROVE  /\ Sound(t, some \cup {fd}) /\ NoneStarted(s, t)
         /\ ~t.connections[fd].pending /\ t.connections[fd].state # "CGI_RUNNING"
              => Sound(t, some \ {fd})
<1>1. Children(t) /\ NoneStarted(s, t) /\ t \in Server
  BY FrameChildren DEF Sound, SameJobs
<1>2. Waiting(t, some \cup {fd})
  BY DEF Sound, Waiting, SameJobs
<1>3. ~t.connections[fd].pending /\ t.connections[fd].state # "CGI_RUNNING"
        => Waiting(t, some \ {fd})
  BY DEF Sound, Waiting, SameJobs
<1>4. QED
  BY <1>1, <1>2, <1>3 DEF Sound

\* A step that starts no wait and fills no buffer.
LEMMA QuietSound ==
  ASSUME NEW s, NEW some, NEW t, Sound(s, some), SameJobs(s, t),
         \A f \in Fd \ some :
           \/ t.connections[f] = NoConnection
           \/ /\ t.connections[f].state = s.connections[f].state
              /\ t.connections[f].pending => s.connections[f].pending
  PROVE  Sound(t, some) /\ NoneStarted(s, t)
<1>1. Children(t) /\ NoneStarted(s, t) /\ t \in Server
  BY FrameChildren DEF Sound, SameJobs
<1>2. Waiting(t, some)
  <2>1. SUFFICES ASSUME NEW f \in Fd \ some
                 PROVE  /\ t.connections[f].pending => t.connections[f].state = "WRITING"
                        /\ t.connections[f].state = "CGI_RUNNING"
                             => \E j \in Fd : t.cgiJobs[j].client = f
    BY DEF Waiting
  <2>2. CASE t.connections[f] = NoConnection
    BY <2>2 DEF NoConnection
  <2>3. CASE /\ t.connections[f].state = s.connections[f].state
             /\ t.connections[f].pending => s.connections[f].pending
    BY <2>3 DEF Sound, Waiting, SameJobs
  <2>4. QED
    BY <2>2, <2>3
<1>3. QED
  BY <1>1, <1>2 DEF Sound

\* _handleWrite: the connection it works for need not be settled before, as
\* when a 408 has just been put into its buffer.
LEMMA WriteSound ==
  ASSUME NEW s, NEW fd \in Fd, Sound(s, {fd}), IsConnection(s, fd), NEW w \in WriteOutcome,
         \A j \in JobsOf(s, fd) : j # fd
  PROVE  Sound(HandleWrite(s, fd, w), {}) /\ NoneStarted(s, HandleWrite(s, fd, w))
<1> DEFINE conn    == s.connections[fd]
           tc      == [s.connections EXCEPT ![fd].idle = FALSE]
           fc      == [tc EXCEPT ![fd].pending = (w.sent # "all")]
           m       == [s EXCEPT !.connections = fc]
           flushed == IF conn.pending /\ w.sent # "none"
                        THEN [Touch(s, fd) EXCEPT !.connections[fd].pending = (w.sent # "all")]
                        ELSE s
           left    == flushed.connections[fd].pending
           t       == HandleWrite(s, fd, w)
<1>1. s \in Server /\ s.connections \in [Fd -> Connection]
  BY DEF Sound, Server
<1>2. /\ fc \in [Fd -> Connection] /\ fc[fd].state = conn.state
      /\ fc = [s.connections EXCEPT ![fd] = fc[fd]]
  BY <1>1 DEF Connection
<1>3. /\ Sound(flushed, {fd}) /\ NoneStarted(s, flushed) /\ SameJobs(s, flushed)
      /\ flushed.connections[fd].state = conn.state
  <2>1. CASE conn.pending /\ w.sent # "none"
    <3>1. flushed = m
      BY <2>1 DEF Touch
    <3> DEFINE new == fc[fd]
    <3>2. new \in Connection /\ m = [s EXCEPT !.connections = [s.connections EXCEPT ![fd] = new]]
      BY <1>2
    <3>3. m = [s EXCEPT !.connections[fd] = new]
      BY <3>2
    <3> HIDE DEF m, fc, new, flushed
    <3>4. /\ SameJobs(s, m) /\ m.connections[fd] = new
          /\ \A f \in Fd \ {fd} : m.connections[f] = s.connections[f]
      BY <1>1, <3>2, <3>3, ConnectionShape
    <3>5. Sound(m, {fd} \cup {fd}) /\ NoneStarted(s, m)
      BY <3>4, OneSound
    <3>6. {fd} \cup {fd} = {fd}
      OBVIOUS
    <3>7. QED
      BY <1>2, <3>1, <3>4, <3>5, <3>6 DEF new
  <2>2. CASE ~(conn.pending /\ w.sent # "none")
    BY <1>1, <2>2 DEF NoneStarted, SameJobs
  <2>3. QED
    BY <2>1, <2>2
<1>5. flushed.connections \in [Fd -> Connection] /\ flushed \in Server /\ IsConnection(flushed, fd)
  BY <1>3 DEF Sound, Server, IsConnection
<1>6. t = IF JobsOf(flushed, fd) # {}
            THEN LET j      == CHOOSE x \in JobsOf(flushed, fd) : TRUE
                     pumped == IF w.low \/ ~left
                                 THEN HandleCgiEvent(ModifyEventFd(flushed, j, {"IN"}), j, w.pump)
                                 ELSE flushed
                 IN  IF IsConnection(pumped, fd) THEN Enter(pumped, fd, "WRITING") ELSE pumped
          ELSE IF left THEN Enter(flushed, fd, "WRITING")
          ELSE IF ~conn.halfClosed /\ w.keepAlive
            THEN RearmClient([flushed EXCEPT !.connections[fd] = NewConnection], fd)
          ELSE CloseClient(flushed, fd)
  BY DEF HandleWrite
<1> SUFFICES Sound(t, {}) /\ NoneStarted(flushed, t)
  BY <1>3 DEF NoneStarted
<1> HIDE DEF flushed, t, left, conn
<1>7. ASSUME NEW u, Sound(u, {fd}), NoneStarted(flushed, u), t = Enter(u, fd, "WRITING")
      PROVE  Sound(t, {}) /\ NoneStarted(flushed, t)
  <2>1. Settled(u, t, fd)
    BY <1>7, WritingShape DEF Sound
  <2>2. Sound(t, {fd} \ {fd}) /\ NoneStarted(u, t)
    BY <1>7, <2>1, SettledSound
  <2>3. QED
    BY <1>7, <2>2 DEF NoneStarted
<1>8. CASE JobsOf(flushed, fd) # {}
  <2> DEFINE j      == CHOOSE x \in JobsOf(flushed, fd) : TRUE
             mod    == ModifyEventFd(flushed, j, {"IN"})
             event  == HandleCgiEvent(mod, j, w.pump)
             pumped == IF w.low \/ ~left THEN event ELSE flushed
  <2>1. j \in JobsOf(flushed, fd)
    BY <1>8
  <2>2. j \in Fd /\ j # fd /\ flushed.cgiJobs[j].client = fd
    <3>1. JobsOf(flushed, fd) = JobsOf(s, fd)
      BY <1>3 DEF SameJobs, JobsOf
    <3>2. QED
      BY <2>1, <3>1 DEF JobsOf
  <2>3. t = IF IsConnection(pumped, fd) THEN Enter(pumped, fd, "WRITING") ELSE pumped
    BY <1>6, <1>8
  <2> HIDE DEF j
  <2>4. /\ SameJobs(flushed, mod)
        /\ \A f \in Fd \ {j} : mod.connections[f] = flushed.connections[f]
        /\ mod.connections[j] \in {flushed.connections[j], NoConnection}
    <3>1. {"IN"} \in SUBSET EventFlag
      BY DEF EventFlag
    <3>2. QED
      BY <1>5, <2>2, <3>1, ModifyShape
  <2> HIDE DEF mod
  <2>5. Sound(mod, {fd}) /\ NoneStarted(flushed, mod) /\ IsConnection(mod, fd)
    BY <1>3, <1>5, <2>2, <2>4, QuietSound DEF IsConnection
  <2>6. mod.cgiJobs[j].client = fd
    BY <2>2, <2>4 DEF SameJobs
  <2>7. w.pump \in CgiOutcome
    BY DEF WriteOutcome
  <2>8. /\ Sound(event, {fd}) /\ NoneStarted(mod, event)
        /\ event = mod \/ ClientSound(mod, event, {fd}, fd)
    BY <2>2, <2>5, <2>6, <2>7, CgiEventSound
  <2> HIDE DEF event
  <2>9. Sound(pumped, {fd}) /\ NoneStarted(flushed, pumped)
    <3>1. NoneStarted(flushed, event) /\ NoneStarted(flushed, flushed)
      BY <2>5, <2>8 DEF NoneStarted
    <3>2. QED
      BY <1>3, <2>8, <3>1
  <2>10. ~IsConnection(pumped, fd) => Sound(pumped, {fd} \ {fd})
    BY <1>5, <2>5, <2>8 DEF ClientSound
  <2> HIDE DEF pumped
  <2>11. QED
    BY <1>7, <2>3, <2>9, <2>10
<1>9. CASE JobsOf(flushed, fd) = {} /\ left
  <2>1. t = Enter(flushed, fd, "WRITING")
    BY <1>6, <1>9
  <2>2. NoneStarted(flushed, flushed)
    BY DEF NoneStarted
  <2>3. QED
    BY <1>3, <1>7, <2>1, <2>2
<1>10. CASE JobsOf(flushed, fd) = {} /\ ~left /\ ~conn.halfClosed /\ w.keepAlive
  <2> DEFINE k == [flushed EXCEPT !.connections[fd] = NewConnection]
  <2>1. t = RearmClient(k, fd)
    BY <1>6, <1>10
  <2>2. /\ NewConnection \in Connection /\ ~NewConnection.pending
        /\ NewConnection.state # "CGI_RUNNING"
    BY DEF NewConnection, NoConnection, Connection, ConnState
  <2>3. Sound(k, {fd} \ {fd}) /\ NoneStarted(flushed, k)
    <3>1. /\ SameJobs(flushed, k) /\ k.connections[fd] = NewConnection
          /\ \A f \in Fd \ {fd} : k.connections[f] = flushed.connections[f]
      BY <1>5, <2>2, ConnectionShape
    <3> HIDE DEF k
    <3>2. QED
      BY <1>3, <2>2, <3>1, OneSound
  <2> HIDE DEF k
  <2>4. /\ SameJobs(k, t) /\ \A f \in Fd \ {fd} : t.connections[f] = k.connections[f]
        /\ t.connections[fd] \in {k.connections[fd], NoConnection}
    BY <2>1, <2>3, RearmShape DEF Sound
  <2>5. Sound(t, {fd} \ {fd}) /\ NoneStarted(k, t)
    BY <2>3, <2>4, QuietSound
  <2>6. QED
    BY <2>3, <2>5 DEF NoneStarted
<1>11. CASE JobsOf(flushed, fd) = {} /\ ~left /\ ~(~conn.halfClosed /\ w.keepAlive)
  <2>1. t = CloseClient(flushed, fd)
    BY <1>6, <1>11
  <2>2. Sound(t, {fd} \ {fd}) /\ NoneStarted(flushed, t)
    BY <1>3, <1>5, <2>1, CloseClientSound
  <2>3. QED
    BY <2>2
<1>12. QED
  BY <1>8, <1>9, <1>10, <1>11

\* EPOLLRDHUP.
LEMMA HangupSound ==
  ASSUME NEW s, NEW fd \in Fd, Sound(s, {})
  PROVE  Sound(HandleHangup(s, fd), {}) /\ NoneStarted(s, HandleHangup(s, fd))
<1> DEFINE conn == [s.connections[fd] EXCEPT !.halfClosed = TRUE]
           m    == [s EXCEPT !.connections = [s.connections EXCEPT ![fd] = conn]]
           t    == HandleHangup(s, fd)
<1>1. s \in Server /\ s.connections[fd] \in Connection
  BY DEF Sound, Server
<1>2. CASE t = CloseClient(s, fd)
  <2>1. Sound(CloseClient(s, fd), {} \ {fd}) /\ NoneStarted(s, CloseClient(s, fd))
    BY CloseClientSound
  <2>2. {} \ {fd} = {}
    OBVIOUS
  <2>3. QED
    BY <1>2, <2>1, <2>2
<1>3. CASE t = m
  <2>1. conn \in Connection /\ conn.state = s.connections[fd].state
          /\ conn.pending = s.connections[fd].pending
    BY <1>1 DEF Connection
  <2> HIDE DEF conn
  <2>2. /\ SameJobs(s, m) /\ m.connections[fd] = conn
        /\ \A f \in Fd \ {fd} : m.connections[f] = s.connections[f]
    BY <1>1, <2>1, ConnectionShape
  <2> HIDE DEF m, t
  <2>3. Sound(m, {}) /\ NoneStarted(s, m)
    BY <2>1, <2>2, QuietSound
  <2>4. QED
    BY <1>3, <2>3 DEF t
<1>4. t = CloseClient(s, fd) \/ t = m
  BY DEF HandleHangup
<1>5. QED
  BY <1>2, <1>3, <1>4

LEMMA TouchSound ==
  ASSUME NEW s, NEW fd \in Fd, Sound(s, {})
  PROVE  LET t == Touch(s, fd)
         IN  /\ Sound(t, {}) /\ NoneStarted(s, t) /\ SameJobs(s, t)
             /\ \A f \in Fd : /\ t.connections[f].state = s.connections[f].state
                              /\ t.connections[f].pending = s.connections[f].pending
<1> DEFINE conn == [s.connections[fd] EXCEPT !.idle = FALSE]
           t    == [s EXCEPT !.connections = [s.connections EXCEPT ![fd] = conn]]
<1>1. s \in Server /\ s.connections \in [Fd -> Connection]
  BY DEF Sound, Server
<1>2. /\ conn \in Connection /\ conn.state = s.connections[fd].state
      /\ conn.pending = s.connections[fd].pending
  BY <1>1 DEF Connection
<1>3. Touch(s, fd) = t
  BY DEF Touch
<1> HIDE DEF conn
<1>4. /\ SameJobs(s, t) /\ t.connections[fd] = conn
      /\ \A f \in Fd \ {fd} : t.connections[f] = s.connections[f]
  BY <1>1, <1>2, ConnectionShape
<1> HIDE DEF t
<1>5. \A f \in Fd : /\ t.connections[f].state = s.connections[f].state
                    /\ t.connections[f].pending = s.connections[f].pending
  BY <1>2, <1>4
<1>6. Sound(t, {}) /\ NoneStarted(s, t)
  BY <1>4, <1>5, QuietSound
<1>7. QED
  BY <1>3, <1>4, <1>5, <1>6

LEMMA ReadSound ==
  ASSUME NEW s, NEW fd \in Fd, Sound(s, {}), NEW o \in ReadOutcome
  PROVE  Sound(HandleRead(s, fd, o), {}) /\ NoneStarted(s, HandleRead(s, fd, o))
<1> DEFINE m == Touch(s, fd)
           t == HandleRead(s, fd, o)
<1>1. Sound(m, {}) /\ NoneStarted(s, m)
  BY TouchSound
<1> HIDE DEF m
<1>2. t \in {s, CloseClient(s, fd), m, Respond(m, fd)}
  BY DEF HandleRead, ReadOutcome, m
<1> HIDE DEF t
<1>3. CASE t = s \/ t = m
  BY <1>1, <1>3 DEF NoneStarted, t
<1>4. CASE t = CloseClient(s, fd)
  <2>1. Sound(t, {} \ {fd}) /\ NoneStarted(s, t)
    BY <1>4, CloseClientSound
  <2>2. {} \ {fd} = {}
    OBVIOUS
  <2>3. QED
    BY <2>1, <2>2 DEF t
<1>5. CASE t = Respond(m, fd)
  <2>1. Settled(m, t, fd)
    BY <1>1, <1>5, RespondShape DEF Sound
  <2>2. Sound(t, {} \ {fd}) /\ NoneStarted(m, t)
    BY <1>1, <2>1, SettledSound
  <2>3. {} \ {fd} = {}
    OBVIOUS
  <2>4. QED
    BY <1>1, <2>2, <2>3 DEF NoneStarted, t
<1>6. QED
  BY <1>2, <1>3, <1>4, <1>5

LEMMA RegisterShape ==
  ASSUME NEW s \in Server, NEW fd \in Fd, NEW ref \in Ref, NEW kind \in EventKind,
         NEW events \in SUBSET EventFlag, NEW added \in BOOLEAN
  PROVE  LET t == RegisterEventFd(s, fd, ref, kind, events, added)
         IN  SameJobs(s, t) /\ t.connections = s.connections
<1> DEFINE rf == [s.refs EXCEPT ![ref] = [kind |-> kind, fd |-> fd]]
           er == [s.eventRefs EXCEPT ![fd] = ref]
           i  == IF added THEN [ref |-> ref, events |-> events] ELSE s.interest[fd]
           it == [s.interest EXCEPT ![fd] = i]
           t  == [s EXCEPT !.refs = rf, !.eventRefs = er, !.interest = it]
<1>1. /\ fd \in AllFd /\ s.refs \in [Ref -> [kind : EventKind, fd : AllFd]]
      /\ s.eventRefs \in [AllFd -> Ref \cup {None}] /\ s.interest \in [AllFd -> Interest]
  BY DEF Server, AllFd
<1>2. rf \in [Ref -> [kind : EventKind, fd : AllFd]] /\ er \in [AllFd -> Ref \cup {None}]
  BY <1>1
<1>3. i \in Interest
  BY <1>1 DEF Interest
<1> HIDE DEF i
<1>4. it \in [AllFd -> Interest]
  BY <1>1, <1>3
<1>5. RegisterEventFd(s, fd, ref, kind, events, added) = t
  BY DEF RegisterEventFd, i
<1> HIDE DEF rf, er, it
<1>6. SameJobs(s, t) /\ t.connections = s.connections
  BY <1>2, <1>4 DEF SameJobs, Server
<1>7. QED
  BY <1>5, <1>6

\* A job's client changes and its pid does not, where there was no job.
LEMMA OpenedSound ==
  ASSUME NEW s, NEW fd \in Fd, NEW j \in Fd, NEW t, Sound(s, {}),
         t \in Server, s.cgiJobs[j].client = None,
         t.cgiJobs[j].client = fd, t.cgiJobs[j].pid = None,
         \A i \in Fd \ {j} : t.cgiJobs[i] = s.cgiJobs[i],
         t.connections = s.connections, t.child = s.child,
         t.pendingReap = s.pendingReap, t.overdue = s.overdue
  PROVE  Sound(t, {}) /\ NoneStarted(s, t)
<1>1. s.cgiJobs[j].pid = None
  BY DEF Sound, Children
<1>2. \A p \in Pid : Holders(t, p) = Holders(s, p)
  BY <1>1 DEF Holders
<1>3. None \notin Fd
  BY ConstantsDistinct
<1>4. Children(t)
  BY <1>2, <1>3 DEF Sound, Children
<1>5. Waiting(t, {})
  <2>1. SUFFICES ASSUME NEW f \in Fd, s.connections[f].state = "CGI_RUNNING"
                 PROVE  \E i \in Fd : t.cgiJobs[i].client = f
    BY DEF Sound, Waiting
  <2>2. PICK i \in Fd : s.cgiJobs[i].client = f
    BY <2>1 DEF Sound, Waiting
  <2>3. i # j
    BY <2>2, <1>3
  <2>4. QED
    BY <2>2, <2>3
<1>6. QED
  BY <1>4, <1>5 DEF Sound, NoneStarted

\* A script is started: the child is held by the job before anyone looks.
LEMMA StartSound ==
  ASSUME NEW s, NEW fd \in Fd, Sound(s, {}), s.connections[fd].state = "READING",
         NEW j \in FreeFd(s), NEW ref \in Ref, NEW pid \in FreePid(s) \cup {None}
  PROVE  Sound(ApiStartCgi(s, fd, j, ref, pid), {})
<1> DEFINE job    == [NoJob EXCEPT !.client = fd]
           g      == [s.cgiJobs EXCEPT ![j] = job]
           m      == [s EXCEPT !.cgiJobs = g]
           opened == RegisterEventFd(m, j, ref, "CGI", {"IN"}, TRUE)
           armed  == Enter(opened, fd, "CGI_RUNNING")
           t      == ApiStartCgi(s, fd, j, ref, pid)
<1>1. /\ s \in Server /\ s.cgiJobs \in [Fd -> CgiJob] /\ j \in Fd
      /\ s.cgiJobs[j].client = None
  BY DEF Sound, Server, FreeFd, IsJob
<1>2. job \in CgiJob /\ job.client = fd /\ job.pid = None
  BY DEF NoJob, CgiJob
<1>3. t = IF pid = None
            THEN Respond(CloseCgiJob(armed, j), fd)
            ELSE [armed EXCEPT !.cgiJobs[j].pid = pid, !.child[pid] = "RUNNING"]
  BY DEF ApiStartCgi
<1> HIDE DEF job, t
<1>4. g \in [Fd -> CgiJob] /\ g[j] = job /\ \A i \in Fd \ {j} : g[i] = s.cgiJobs[i]
  BY <1>1, <1>2
<1> HIDE DEF g
<1>5. /\ m \in Server /\ m.cgiJobs = g /\ m.connections = s.connections /\ m.child = s.child
      /\ m.pendingReap = s.pendingReap /\ m.overdue = s.overdue
  BY <1>1, <1>4 DEF Server
<1> HIDE DEF m
<1>6. Sound(m, {})
  BY <1>1, <1>2, <1>4, <1>5, OpenedSound
<1>7. SameJobs(m, opened) /\ opened.connections = m.connections
  <2>1. "CGI" \in EventKind /\ {"IN"} \in SUBSET EventFlag /\ TRUE \in BOOLEAN
    BY DEF EventKind, EventFlag
  <2>2. QED
    BY <1>1, <1>5, <2>1, RegisterShape
<1> HIDE DEF opened
<1>8. Sound(opened, {})
  BY <1>6, <1>7, QuietSound
<1>9. /\ SameJobs(opened, armed)
      /\ \A f \in Fd \ {fd} : armed.connections[f] = opened.connections[f]
      /\ armed.connections[fd] \in {[opened.connections[fd] EXCEPT !.state = "CGI_RUNNING"], NoConnection}
  <2>1. "CGI_RUNNING" \in ConnState
    BY DEF ConnState
  <2>2. QED
    BY <1>8, <2>1, EnterShape DEF Sound
<1> HIDE DEF armed
<1>10. armed.cgiJobs[j].client = fd /\ armed.cgiJobs[j].pid = None
  BY <1>2, <1>4, <1>5, <1>7, <1>9 DEF SameJobs
<1>11. Sound(armed, {fd})
  <2>1. Sound(armed, {} \cup {fd})
    BY <1>8, <1>9, OneSound
  <2>2. {} \cup {fd} = {fd}
    OBVIOUS
  <2>3. QED
    BY <2>1, <2>2
<1>12. Waiting(armed, {})
  <2>1. armed.connections[fd].pending => FALSE
    <3>1. s.connections[fd] \in Connection /\ ~s.connections[fd].pending
      BY <1>1 DEF Sound, Waiting, Server
    <3>2. opened.connections[fd] = s.connections[fd]
      BY <1>5, <1>7
    <3>3. [s.connections[fd] EXCEPT !.state = "CGI_RUNNING"].pending = s.connections[fd].pending
      BY <3>1 DEF Connection
    <3>4. CASE armed.connections[fd] = [s.connections[fd] EXCEPT !.state = "CGI_RUNNING"]
      BY <3>1, <3>3, <3>4
    <3>5. CASE armed.connections[fd] = NoConnection
      BY <3>5 DEF NoConnection
    <3>6. QED
      BY <1>9, <3>2, <3>4, <3>5
  <2>2. QED
    BY <1>1, <1>10, <1>11, <2>1 DEF Sound, Waiting
<1>13. CASE pid = None
  <2> DEFINE closed == CloseCgiJob(armed, j)
  <2>1. Sound(closed, {fd})
    BY <1>1, <1>10, <1>11, CloseJobSound
  <2>2. t = Respond(closed, fd)
    BY <1>3, <1>13
  <2> HIDE DEF closed
  <2>3. Settled(closed, t, fd)
    BY <2>1, <2>2, RespondShape DEF Sound
  <2>4. Sound(t, {fd} \ {fd})
    BY <2>1, <2>3, SettledSound
  <2>5. QED
    BY <2>4 DEF t
<1>14. CASE pid # None
  <2> DEFINE h == [armed.cgiJobs EXCEPT ![j].pid = pid]
             c == [armed.child EXCEPT ![pid] = "RUNNING"]
  <2>1. pid \in Pid /\ s.child[pid] = "NONE"
    BY <1>14 DEF FreePid
  <2>2. armed \in Server /\ armed.cgiJobs \in [Fd -> CgiJob]
          /\ armed.child \in [Pid -> {"NONE", "RUNNING", "ZOMBIE"}]
    BY <1>11 DEF Sound, Server
  <2>3. /\ h \in [Fd -> CgiJob] /\ h[j].pid = pid
        /\ \A i \in Fd : h[i].client = armed.cgiJobs[i].client
        /\ \A i \in Fd \ {j} : h[i] = armed.cgiJobs[i]
    BY <1>1, <2>1, <2>2 DEF CgiJob
  <2>4. /\ c \in [Pid -> {"NONE", "RUNNING", "ZOMBIE"}] /\ c[pid] = "RUNNING"
        /\ \A p \in Pid \ {pid} : c[p] = armed.child[p]
    BY <2>1, <2>2
  <2>5. t = [armed EXCEPT !.cgiJobs = h, !.child = c]
    BY <1>3, <1>14, <2>2 DEF Server
  <2> HIDE DEF h, c
  <2>6. /\ t \in Server /\ t.cgiJobs = h /\ t.child = c /\ t.connections = armed.connections
        /\ t.pendingReap = armed.pendingReap /\ t.overdue = armed.overdue
    BY <2>2, <2>3, <2>4, <2>5 DEF Server
  <2>7. armed.child[pid] = "NONE"
    BY <1>5, <1>7, <1>9, <2>1 DEF SameJobs
  <2>8. Holders(armed, pid) = {} /\ pid \notin armed.pendingReap
    BY <1>11, <2>1, <2>7 DEF Sound, Children
  <2>9. Holders(t, pid) = {j}
    BY <1>1, <2>3, <2>6, <2>8 DEF Holders
  <2>10. \A p \in Pid \ {pid} : Holders(t, p) = Holders(armed, p)
    BY <1>1, <1>10, <2>1, <2>3, <2>6, ConstantsDistinct DEF Holders
  <2>11. Children(t)
    <3>1. ASSUME NEW p \in Pid
          PROVE  /\ t.child[p] # "NONE" => Holders(t, p) # {} \/ p \in t.pendingReap \/ p \in t.overdue
                 /\ Holders(t, p) # {} \/ p \in t.pendingReap => t.child[p] # "NONE"
                 /\ \A x, y \in Holders(t, p) : x = y
                 /\ p \in t.pendingReap => Holders(t, p) = {}
      <4>1. CASE p = pid
        BY <4>1, <2>4, <2>6, <2>8, <2>9
      <4>2. CASE p # pid
        BY <4>2, <1>11, <2>4, <2>6, <2>10 DEF Sound, Children
      <4>3. QED
        BY <4>1, <4>2
    <3>2. \A i \in Fd : t.cgiJobs[i].client = None => t.cgiJobs[i].pid = None
      BY <1>10, <1>11, <2>3, <2>6, ConstantsDistinct DEF Sound, Children
    <3>3. QED
      BY <3>1, <3>2 DEF Children
  <2>12. Waiting(t, {})
    BY <1>12, <2>3, <2>6 DEF Waiting
  <2>13. QED
    BY <2>6, <2>11, <2>12 DEF Sound, t
<1>15. QED
  BY <1>13, <1>14

-----------------------------------------------------------------------------
(* Every step keeps the invariant, and starts no child after stop(). *)

\* What is shown of a step.
StepSound == Sound(srv', {}) /\ (srv.stopped => NoneStarted(srv, srv'))

\* Steps that leave jobs, children and connections alone.
LEMMA SameStep ==
  ASSUME Sound(srv, {}), srv' \in Server, srv'.connections = srv.connections,
         srv'.cgiJobs = srv.cgiJobs, srv'.child = srv.child,
         srv'.pendingReap = srv.pendingReap, srv'.overdue = srv.overdue
  PROVE  StepSound
BY DEF StepSound, Sound, Children, Holders, Waiting, NoneStarted

\* The events of one reference.
LEMMA DispatchStep ==
  ASSUME IInv, Sound(srv, {}), NEW ref \in Ref,
         \/ DispatchIgnored(ref)
         \/ DispatchServer(ref)
         \/ DispatchCgi(ref)
         \/ DispatchClientError(ref)
         \/ DispatchClientHangup(ref)
         \/ DispatchClientRead(ref)
         \/ DispatchClientWrite(ref)
  PROVE  StepSound
<1> DEFINE fd == srv.refs[ref].fd
<1>1. srv \in Server /\ batch \in [Ref -> SUBSET EventFlag]
  BY DEF IInv, TypeOK
<1>2. ASSUME Dispatching(ref, "CLIENT")
      PROVE  fd \in Fd /\ IsConnection(srv, fd)
  BY <1>1, <1>2, QuietOwn DEF IInv, Dispatching, KindOf
<1>3. CASE DispatchIgnored(ref) \/ DispatchServer(ref)
  BY <1>1, <1>3, SameStep DEF DispatchIgnored, DispatchServer
<1>4. CASE DispatchCgi(ref)
  <2>1. fd \in Fd
    BY <1>4 DEF IInv, DispatchCgi, Dispatching, Tables, BatchOK, Exists, KindOf
  <2>2. PICK o \in CgiOutcome : srv' = HandleCgiEvent(srv, fd, o)
    BY <1>4 DEF DispatchCgi
  <2> HIDE DEF fd
  <2>3. QED
    BY <2>1, <2>2, CgiEventSound DEF StepSound
<1>5. CASE DispatchClientError(ref)
  <2>1. Sound(srv', {} \ {fd}) /\ NoneStarted(srv, srv')
    BY <1>2, <1>5, CloseClientSound DEF DispatchClientError
  <2>2. {} \ {fd} = {}
    OBVIOUS
  <2>3. QED
    BY <2>1, <2>2 DEF StepSound
<1>6. CASE DispatchClientHangup(ref)
  BY <1>2, <1>6, HangupSound DEF DispatchClientHangup, StepSound
<1>7. CASE DispatchClientRead(ref)
  BY <1>2, <1>7, ReadSound DEF DispatchClientRead, StepSound
<1>8. CASE DispatchClientWrite(ref)
  <2>1. fd \in Fd /\ IsConnection(srv, fd)
    BY <1>2, <1>8 DEF DispatchClientWrite
  <2>2. PICK w \in WriteOutcome : srv' = HandleWrite(srv, fd, w)
    BY <1>8 DEF DispatchClientWrite
  <2>3. Sound(srv, {fd})
    BY SoundWider
  <2>4. \A j \in JobsOf(srv, fd) : j # fd
    BY <2>1, ConstantsDistinct DEF IInv, Tables, OwnersOK, JobsOf, IsJob
  <2> HIDE DEF fd
  <2>5. QED
    BY <2>1, <2>2, <2>3, <2>4, WriteSound DEF StepSound
<1>9. QED
  BY <1>3, <1>4, <1>5, <1>6, <1>7, <1>8

\* A request for a script, with an interest list that takes the pipe or not.
LEMMA StartStep ==
  ASSUME IInv, Sound(srv, {}), NEW ref \in Ref, NEW j \in Fd, NEW new \in Ref,
         NEW pid \in Pid \cup {None},
         DispatchClientCgi(ref, j, new, pid) \/ DispatchClientCgiThrows(ref, j, new)
  PROVE  StepSound
<1> DEFINE fd == srv.refs[ref].fd
           m  == Touch(srv, fd)
<1>1. Dispatching(ref, "CLIENT") /\ Readable(ref) /\ ~srv.stopped
  BY DEF DispatchClientCgi, DispatchClientCgiThrows, Dispatching
<1>2. fd \in Fd /\ srv.connections[fd].state = "READING"
  BY <1>1, ReadableReads
<1> HIDE DEF fd
<1>3. /\ Sound(m, {}) /\ SameJobs(srv, m) /\ m.connections[fd].state = "READING"
      /\ \A f \in Fd : m.connections[f].state = srv.connections[f].state
  BY <1>2, TouchSound
<1>4. CASE DispatchClientCgi(ref, j, new, pid)
  <2>1. srv' = ApiStartCgi(m, fd, j, new, pid) /\ j \in FreeFd(srv) /\ pid \in FreePid(srv) \cup {None}
    BY <1>4 DEF DispatchClientCgi, fd
  <2> HIDE DEF m
  <2>2. FreeFd(m) = FreeFd(srv) /\ FreePid(m) = FreePid(srv)
    BY <1>3 DEF SameJobs, FreeFd, FreePid, IsConnection, IsJob
  <2>3. QED
    BY <1>1, <1>2, <1>3, <2>1, <2>2, StartSound DEF StepSound
<1>5. CASE DispatchClientCgiThrows(ref, j, new)
  <2>1. srv' = RegisterEventFd(m, j, new, "CGI", {"IN"}, FALSE)
    BY <1>5 DEF DispatchClientCgiThrows, fd
  <2> HIDE DEF m
  <2>2. "CGI" \in EventKind /\ {"IN"} \in SUBSET EventFlag /\ FALSE \in BOOLEAN /\ m \in Server
    BY <1>3 DEF EventKind, EventFlag, Sound
  <2>3. SameJobs(m, srv') /\ srv'.connections = m.connections
    BY <2>1, <2>2, RegisterShape
  <2>4. Sound(srv', {})
    BY <1>3, <2>3, QuietSound
  <2>5. QED
    BY <1>1, <2>4 DEF StepSound
<1>6. QED
  BY <1>4, <1>5

LEMMA AcceptStep ==
  ASSUME Sound(srv, {}), NEW fd \in Fd, NEW ref \in Ref, NEW added \in BOOLEAN,
         AcceptOne(fd, ref, added)
  PROVE  StepSound
<1> DEFINE m == [srv EXCEPT !.connections[fd] = NewConnection]
           s == RegisterEventFd(m, fd, ref, "CLIENT", {"IN", "RDHUP"}, added)
           t == CloseConnection(s, fd)
<1>1. srv \in Server
  BY DEF Sound
<1>2. /\ NewConnection \in Connection /\ ~NewConnection.pending
      /\ NewConnection.state # "CGI_RUNNING"
  BY DEF NewConnection, NoConnection, Connection, ConnState
<1>3. srv' \in {s, t} /\ ~srv.stopped
  BY DEF AcceptOne
<1>4. /\ SameJobs(srv, m) /\ m.connections[fd] = NewConnection
      /\ \A f \in Fd \ {fd} : m.connections[f] = srv.connections[f]
  BY <1>1, <1>2, ConnectionShape
<1> HIDE DEF m
<1>5. Sound(m, {})
  <2>1. Sound(m, {} \ {fd})
    BY <1>2, <1>4, OneSound
  <2>2. {} \ {fd} = {}
    OBVIOUS
  <2>3. QED
    BY <2>1, <2>2
<1>6. SameJobs(m, s) /\ s.connections = m.connections
  <2>1. "CLIENT" \in EventKind /\ {"IN", "RDHUP"} \in SUBSET EventFlag
    BY DEF EventKind, EventFlag
  <2>2. QED
    BY <1>5, <2>1, RegisterShape DEF Sound
<1> HIDE DEF s
<1>7. Sound(s, {})
  BY <1>5, <1>6, QuietSound
<1>8. /\ SameJobs(s, t) /\ \A f \in Fd : t.connections[f] \in {s.connections[f], NoConnection}
  BY <1>7, CloseConnectionShape DEF Sound
<1> HIDE DEF t
<1>9. Sound(t, {})
  BY <1>7, <1>8, QuietSound
<1>10. QED
  BY <1>3, <1>7, <1>9 DEF StepSound

\* The sweeps and the reaping.
LEMMA SweepClientStep ==
  ASSUME IInv, Sound(srv, {}), NEW fd \in Fd, NEW w \in WriteOutcome, SweepClient(fd, w)
  PROVE  StepSound
<1> DEFINE conn == [srv.connections[fd] EXCEPT !.pending = TRUE]
           m    == [srv EXCEPT !.connections[fd] = conn]
           t    == HandleWrite(m, fd, w)
<1>1. srv \in Server /\ srv.connections \in [Fd -> Connection] /\ IsConnection(srv, fd)
  BY DEF IInv, TypeOK, Server, SweepClient, IsConnection
<1>2. conn \in Connection /\ conn.state = srv.connections[fd].state
  BY <1>1 DEF Connection
<1>3. srv' = CloseClient(t, fd)
  BY DEF SweepClient
<1> HIDE DEF conn
<1>4. /\ SameJobs(srv, m) /\ m.connections[fd] = conn
      /\ \A f \in Fd \ {fd} : m.connections[f] = srv.connections[f]
  BY <1>1, <1>2, ConnectionShape
<1> HIDE DEF m
<1>5. Sound(m, {} \cup {fd}) /\ NoneStarted(srv, m)
  BY <1>4, OneSound
<1>6. {} \cup {fd} = {fd} /\ {} \ {fd} = {}
  OBVIOUS
<1>7. IsConnection(m, fd) /\ \A j \in JobsOf(m, fd) : j # fd
  BY <1>1, <1>2, <1>4, ConstantsDistinct
     DEF IInv, Tables, OwnersOK, JobsOf, IsJob, IsConnection, SameJobs
<1>8. Sound(t, {}) /\ NoneStarted(m, t)
  BY <1>5, <1>6, <1>7, WriteSound
<1> HIDE DEF t
<1>9. Sound(srv', {} \ {fd}) /\ NoneStarted(t, srv')
  BY <1>3, <1>8, CloseClientSound
<1>10. QED
  BY <1>5, <1>6, <1>8, <1>9 DEF StepSound, NoneStarted

LEMMA SweepJobStep ==
  ASSUME Sound(srv, {}), NEW j \in Fd, SweepJob(j)
  PROVE  StepSound
<1>1. srv' = FailCgiJob(srv, j)
  BY DEF SweepJob
<1>2. CASE IsJob(srv, j)
  BY <1>1, <1>2, FailSound DEF ClientSound, StepSound
<1>3. CASE ~IsJob(srv, j)
  BY <1>1, <1>3 DEF FailCgiJob, StepSound, NoneStarted
<1>4. QED
  BY <1>2, <1>3

LEMMA ReapStep ==
  ASSUME Sound(srv, {}), srv' \in Server, JobsSwept
  PROVE  StepSound
<1> DEFINE c == [p \in Pid |-> IF p \in srv.pendingReap \ srv.overdue /\ srv.child[p] = "ZOMBIE"
                                 THEN "NONE" ELSE srv.child[p]]
           k == {p \in srv.pendingReap \ srv.overdue : srv.child[p] = "RUNNING"}
<1>1. srv \in Server /\ srv.child \in [Pid -> {"NONE", "RUNNING", "ZOMBIE"}]
  BY DEF Sound, Server
<1>2. /\ srv'.child = c /\ srv'.pendingReap = k /\ srv'.overdue = srv.overdue
      /\ srv'.connections = srv.connections /\ srv'.cgiJobs = srv.cgiJobs
  BY <1>1 DEF JobsSwept, ReapPending, Server
<1> HIDE DEF c, k
<1>3. \A p \in Pid : Holders(srv', p) = Holders(srv, p)
  BY <1>2 DEF Holders
<1>4. ASSUME NEW p \in Pid
      PROVE  /\ srv'.child[p] # "NONE" => \/ Holders(srv', p) # {} \/ p \in srv'.pendingReap
                                          \/ p \in srv'.overdue
             /\ Holders(srv', p) # {} \/ p \in srv'.pendingReap => srv'.child[p] # "NONE"
             /\ \A i, j \in Holders(srv', p) : i = j
             /\ p \in srv'.pendingReap => Holders(srv', p) = {}
  <2>1. /\ srv.child[p] # "NONE" => \/ Holders(srv, p) # {} \/ p \in srv.pendingReap
                                    \/ p \in srv.overdue
        /\ Holders(srv, p) # {} \/ p \in srv.pendingReap => srv.child[p] # "NONE"
        /\ \A i, j \in Holders(srv, p) : i = j
        /\ p \in srv.pendingReap => Holders(srv, p) = {}
    BY DEF Sound, Children
  <2>2. srv.child[p] \in {"NONE", "RUNNING", "ZOMBIE"}
    BY <1>1
  <2>3. CASE p \in srv.pendingReap \ srv.overdue
    BY <1>2, <1>3, <2>1, <2>2, <2>3 DEF c, k
  <2>4. CASE p \notin srv.pendingReap \ srv.overdue
    BY <1>2, <1>3, <2>1, <2>2, <2>4 DEF c, k
  <2>5. QED
    BY <2>3, <2>4
<1>5. Children(srv') /\ Waiting(srv', {})
  BY <1>2, <1>4 DEF Sound, Children, Waiting
<1>6. NoneStarted(srv, srv')
  BY <1>2 DEF NoneStarted, c
<1>7. QED
  BY <1>5, <1>6 DEF StepSound, Sound

\* What main leaves behind.
AllReaped(s) == \A p \in Pid : s.child[p] # "NONE" => p \in s.overdue

LEMMA ExitStep ==
  ASSUME Sound(srv, {}), srv' \in Server, Exit
  PROVE  StepSound /\ AllReaped(srv')
<1> DEFINE pids == ({srv.cgiJobs[j].pid : j \in Fd} \ {None}) \cup srv.pendingReap
           c    == [p \in Pid |-> IF p \in pids THEN "NONE" ELSE srv.child[p]]
<1>1. srv \in Server
  BY DEF Sound
<1>2. /\ srv'.child = c /\ srv'.pendingReap = {} /\ srv'.overdue = srv.overdue
      /\ srv'.connections = [f \in Fd |-> NoConnection] /\ srv'.cgiJobs = [f \in Fd |-> NoJob]
  BY <1>1 DEF Exit, Destroy, Server
<1>3. None \notin Pid
  BY ConstantsDistinct
<1>4. \A p \in Pid : p \in pids <=> Holders(srv, p) # {} \/ p \in srv.pendingReap
  BY <1>3 DEF Holders
<1>5. \A p \in Pid : c[p] = (IF p \in pids THEN "NONE" ELSE srv.child[p])
  OBVIOUS
<1> HIDE DEF pids, c
<1>6. AllReaped(srv') /\ NoneStarted(srv, srv')
  BY <1>2, <1>4, <1>5 DEF Sound, Children, AllReaped, NoneStarted
<1>7. \A p \in Pid : Holders(srv', p) = {}
  BY <1>2, <1>3 DEF Holders, NoJob
<1>8. Children(srv')
  BY <1>2, <1>6, <1>7 DEF Children, AllReaped, NoJob
<1>9. Waiting(srv', {})
  BY <1>2 DEF Waiting, NoConnection
<1>10. QED
  BY <1>6, <1>8, <1>9 DEF StepSound, Sound

\* A child exits, the clock passes a limit, a signal comes.
LEMMA EnvironmentStep ==
  ASSUME IInv, Sound(srv, {}), srv' \in Server, Environment
  PROVE  StepSound
<1>1. srv \in Server
  BY DEF Sound
<1>2. CASE Stop
  BY <1>1, <1>2, SameStep DEF Stop, Server
<1>3. ASSUME NEW p \in Pid, ChildExits(p)
      PROVE  StepSound
  <2> DEFINE c == [srv.child EXCEPT ![p] = "ZOMBIE"]
  <2>1. /\ c[p] = "ZOMBIE" /\ srv.child[p] = "RUNNING"
        /\ \A q \in Pid \ {p} : c[q] = srv.child[q]
    BY <1>1, <1>3 DEF ChildExits, Server
  <2>2. /\ srv'.child = c /\ srv'.pendingReap = srv.pendingReap
        /\ srv'.overdue = srv.overdue /\ srv'.cgiJobs = srv.cgiJobs
        /\ srv'.connections = srv.connections
    BY <1>1, <1>3 DEF ChildExits, Server
  <2> HIDE DEF c
  <2>3. \A q \in Pid : srv'.child[q] = "NONE" <=> srv.child[q] = "NONE"
    BY <2>1, <2>2
  <2>4. \A q \in Pid : Holders(srv', q) = Holders(srv, q)
    BY <2>2 DEF Holders
  <2>5. Children(srv') /\ Waiting(srv', {})
    BY <2>2, <2>3, <2>4 DEF Sound, Children, Waiting
  <2>6. QED
    BY <2>3, <2>5 DEF StepSound, Sound, NoneStarted
<1>4. ASSUME NEW fd \in Fd, ConnectionIdles(fd)
      PROVE  StepSound
  <2> DEFINE conn == [srv.connections[fd] EXCEPT !.idle = TRUE]
             m    == [srv EXCEPT !.connections[fd] = conn]
  <2>1. /\ conn \in Connection /\ conn.state = srv.connections[fd].state
        /\ conn.pending = srv.connections[fd].pending
    <3>1. srv.connections[fd] \in Connection
      BY <1>1 DEF Server
    <3>2. QED
      BY <3>1 DEF Connection
  <2>2. srv' = m
    BY <1>4 DEF ConnectionIdles
  <2> HIDE DEF conn
  <2>3. /\ SameJobs(srv, m) /\ m.connections[fd] = conn
        /\ \A f \in Fd \ {fd} : m.connections[f] = srv.connections[f]
    BY <1>1, <2>1, ConnectionShape
  <2> HIDE DEF m
  <2>4. QED
    BY <2>1, <2>2, <2>3, QuietSound DEF StepSound
<1>5. ASSUME NEW j \in Fd, JobExpires(j)
      PROVE  StepSound
  <2> DEFINE g == [srv.cgiJobs EXCEPT ![j].expired = TRUE]
  <2>1. \A i \in Fd : g[i].client = srv.cgiJobs[i].client /\ g[i].pid = srv.cgiJobs[i].pid
    BY <1>1 DEF Server, CgiJob
  <2>2. /\ srv'.cgiJobs = g /\ srv'.pendingReap = srv.pendingReap
        /\ srv'.overdue = srv.overdue /\ srv'.child = srv.child
        /\ srv'.connections = srv.connections
    BY <1>1, <1>5 DEF JobExpires, Server
  <2> HIDE DEF g
  <2>3. \A q \in Pid : Holders(srv', q) = Holders(srv, q)
    BY <2>1, <2>2 DEF Holders
  <2>4. Children(srv') /\ Waiting(srv', {})
    BY <2>1, <2>2, <2>3 DEF Sound, Children, Waiting
  <2>5. QED
    BY <2>2, <2>4 DEF StepSound, Sound, NoneStarted
<1>6. ASSUME NEW p \in Pid, ReapOverdue(p)
      PROVE  StepSound
  <2>1. /\ srv'.cgiJobs = srv.cgiJobs /\ srv'.pendingReap = srv.pendingReap
        /\ srv'.overdue = srv.overdue \cup {p} /\ srv'.child = srv.child
        /\ srv'.connections = srv.connections
    BY <1>1, <1>6 DEF ReapOverdue, Server
  <2>2. \A q \in Pid : Holders(srv', q) = Holders(srv, q)
    BY <2>1 DEF Holders
  <2>3. Children(srv') /\ Waiting(srv', {})
    BY <2>1, <2>2 DEF Sound, Children, Waiting
  <2>4. QED
    BY <2>1, <2>3 DEF StepSound, Sound, NoneStarted
<1>7. QED
  BY <1>2, <1>3, <1>4, <1>5, <1>6 DEF Environment

-----------------------------------------------------------------------------
(* The invariant, and what follows from it. *)

\* EventLoop's inductive invariant, with the children and those who wait.
ChildInv ==
  /\ IInv
  /\ Sound(srv, {})
  /\ phase = "exit" => AllReaped(srv)

LEMMA InitChildren == Init => ChildInv
<1>1. SUFFICES ASSUME Init PROVE ChildInv
  OBVIOUS
<1>2. IInv
  BY <1>1, InitInvariant
<1>3. /\ srv.connections = [f \in Fd |-> NoConnection] /\ srv.cgiJobs = [f \in Fd |-> NoJob]
      /\ srv.child = [p \in Pid |-> "NONE"] /\ srv.pendingReap = {} /\ phase = "wait"
  BY <1>1 DEF Init
<1>4. Children(srv)
  BY <1>3, ConstantsDistinct DEF Children, Holders, NoJob
<1>5. Waiting(srv, {})
  BY <1>3 DEF Waiting, NoConnection
<1>6. QED
  BY <1>2, <1>3, <1>4, <1>5 DEF ChildInv, Sound, IInv, TypeOK

\* The steps of the program and of its environment, one by one.
LEMMA ActionChildren ==
  ASSUME ChildInv, IInv', Loop \/ Environment
  PROVE  StepSound /\ (phase' = "exit" => AllReaped(srv'))
<1>1. Sound(srv, {}) /\ srv' \in Server /\ srv \in Server /\ IInv
  BY DEF ChildInv, IInv, TypeOK
<1>2. ASSUME Wait \/ AcceptDone \/ ClientsSwept
      PROVE  StepSound /\ phase' # "exit"
  BY <1>1, <1>2, SameStep DEF Wait, AcceptDone, ClientsSwept
<1>3. ASSUME NEW ref \in Ref,
             \/ DispatchIgnored(ref)
             \/ DispatchServer(ref)
             \/ DispatchCgi(ref)
             \/ DispatchClientError(ref)
             \/ DispatchClientHangup(ref)
             \/ DispatchClientRead(ref)
             \/ DispatchClientWrite(ref)
      PROVE  StepSound /\ phase' # "exit"
  <2>1. phase' # "exit"
    BY <1>3 DEF DispatchIgnored, DispatchServer, DispatchCgi, DispatchClientError,
                DispatchClientHangup, DispatchClientRead, DispatchClientWrite, Dispatching
  <2>2. QED
    BY <1>1, <1>3, <2>1, DispatchStep
<1>4. ASSUME NEW ref \in Ref, NEW j \in Fd, NEW new \in Ref, NEW pid \in Pid \cup {None},
             DispatchClientCgi(ref, j, new, pid) \/ DispatchClientCgiThrows(ref, j, new)
      PROVE  StepSound /\ phase' # "exit"
  <2>1. phase' # "exit"
    BY <1>4 DEF DispatchClientCgi, DispatchClientCgiThrows, Dispatching
  <2>2. QED
    BY <1>1, <1>4, <2>1, StartStep
<1>5. ASSUME NEW fd \in Fd, NEW ref \in Ref, NEW added \in BOOLEAN, AcceptOne(fd, ref, added)
      PROVE  StepSound /\ phase' # "exit"
  BY <1>1, <1>5, AcceptStep DEF AcceptOne
<1>6. ASSUME EndDispatch
      PROVE  StepSound /\ phase' # "exit"
  BY <1>1, <1>6, SameStep DEF EndDispatch, FreeStaleRefs, Server
<1>7. ASSUME NEW fd \in Fd, NEW w \in WriteOutcome, SweepClient(fd, w)
      PROVE  StepSound /\ phase' # "exit"
  BY <1>1, <1>7, SweepClientStep DEF SweepClient
<1>8. ASSUME NEW j \in Fd, SweepJob(j)
      PROVE  StepSound /\ phase' # "exit"
  BY <1>1, <1>8, SweepJobStep DEF SweepJob
<1>9. ASSUME JobsSwept
      PROVE  StepSound /\ phase' # "exit"
  BY <1>1, <1>9, ReapStep DEF JobsSwept
<1>10. CASE Exit
  BY <1>1, <1>10, ExitStep
<1>11. ASSUME Environment
       PROVE  StepSound /\ phase' # "exit"
  <2>1. phase' # "exit"
    BY <1>11 DEF Environment, Stop, ChildExits, ConnectionIdles, JobExpires, ReapOverdue, Running
  <2>2. QED
    BY <1>1, <1>11, <2>1, EnvironmentStep
<1>12. None \in Pid \cup {None}
  OBVIOUS
<1>13. QED
  BY <1>2, <1>3, <1>4, <1>5, <1>6, <1>7, <1>8, <1>9, <1>10, <1>11, <1>12 DEF Loop

LEMMA NextChildren == ChildInv /\ [Next]_vars => ChildInv'
<1>1. SUFFICES ASSUME ChildInv, [Next]_vars PROVE ChildInv'
  OBVIOUS
<1>2. IInv'
  BY <1>1, NextInvariant DEF ChildInv
<1>3. CASE Loop \/ Environment
  BY <1>1, <1>2, <1>3, ActionChildren DEF ChildInv, StepSound
<1>4. CASE UNCHANGED vars
  BY <1>1, <1>2, <1>4 DEF ChildInv, vars, Sound, Children, Holders, Waiting, AllReaped
<1>5. QED
  BY <1>1, <1>3, <1>4 DEF Next, Exited

\* The children of the server are accounted for, and whoever waits is armed
\* or has a job, in every state the server can reach.
THEOREM ChildrenAgree == Spec => []ChildInv
<1>1. Init => ChildInv
  BY InitChildren
<1>2. ChildInv /\ [Next]_vars => ChildInv'
  BY NextChildren
<1>3. QED
  BY <1>1, <1>2, PTL DEF Spec

\* Every child is waited for by one holder of its pid, and no pid is kept
\* past the wait: _finishCgiJob, _closeCgiJob, _reapPending and the
\* destructor never signal a process that is not the server's child.
THEOREM EveryChildAccounted == Spec => []ChildrenAccounted
<1>1. ChildInv => ChildrenAccounted
  BY DEF ChildInv, Sound, Children, Holders, ChildrenAccounted
<1>2. QED
  BY <1>1, ChildrenAgree, PTL

\* main leaves no child but those _reapPending has given up, whether run()
\* ends by a signal or by an exception.
THEOREM EveryChildReaped == Spec => []ExitReaps
<1>1. ChildInv => ExitReaps
  BY DEF ChildInv, AllReaped, ExitReaps
<1>2. QED
  BY <1>1, ChildrenAgree, PTL

\* Bytes never lie in a write buffer without EPOLLOUT being armed for them:
\* every path that fills one goes through setWriting() and _rearmClient, or
\* closes the connection.
THEOREM EveryByteArmed == Spec => []PendingIsWriting
<1>1. ChildInv => PendingIsWriting
  BY DEF ChildInv, Sound, Waiting, PendingIsWriting
<1>2. QED
  BY <1>1, ChildrenAgree, PTL

\* A connection that waits for a CGI has its job, also when the script could
\* not be started: it cannot wait beyond the time limit of a job.
THEOREM EveryWaitHasJob == Spec => []CgiRunningHasJob
<1>1. ChildInv => CgiRunningHasJob
  BY DEF ChildInv, Sound, Waiting, CgiRunningHasJob, JobsOf
<1>2. QED
  BY <1>1, ChildrenAgree, PTL

\* A step after stop() takes in no client and starts no child.
TakesNoWork ==
  srv.stopped => NoneTaken /\ NoneStarted(srv, srv')

LEMMA StoppedStep == ChildInv /\ IInv' /\ [Next]_vars => TakesNoWork
<1>1. SUFFICES ASSUME ChildInv, IInv', [Next]_vars, srv.stopped
               PROVE  NoneTaken /\ NoneStarted(srv, srv')
  BY DEF TakesNoWork
<1>2. IInv
  BY <1>1 DEF ChildInv
<1>3. CASE UNCHANGED vars
  BY <1>3 DEF vars, NoneTaken, NoneStarted
<1>4. CASE Loop \/ Environment
  <2>1. NoneStarted(srv, srv')
    BY <1>1, <1>4, ActionChildren DEF StepSound
  <2> SUFFICES NoneTaken
    BY <2>1
  <2>2. ASSUME srv'.connections = srv.connections
        PROVE  NoneTaken
    BY <2>2 DEF NoneTaken, IsConnection
  <2>3. srv \in Server /\ srv.connections \in [Fd -> Connection]
    BY <1>2 DEF IInv, TypeOK, Server
  <2>4. CASE \/ Wait \/ AcceptDone \/ ClientsSwept \/ EndDispatch
             \/ \E ref \in Ref : DispatchIgnored(ref) \/ DispatchServer(ref)
             \/ JobsSwept
    BY <2>2, <2>3, <2>4 DEF Wait, AcceptDone, ClientsSwept, EndDispatch, DispatchIgnored,
                            DispatchServer, JobsSwept, FreeStaleRefs, ReapPending, Server
  <2>5. CASE \E fd \in Fd, w \in WriteOutcome : SweepClient(fd, w)
    BY <1>2, <2>5, SweepClientKeeps
  <2>6. CASE \E j \in Fd : SweepJob(j)
    BY <1>2, <2>6, SweepJobKeeps
  <2>7. CASE Exit
    <3>1. srv'.connections = [f \in Fd |-> NoConnection]
      BY <2>3, <2>7 DEF Exit, Destroy, Server
    <3>2. QED
      BY <3>1 DEF NoneTaken, IsConnection, NoConnection
  <2>8. CASE \E fd \in Fd : ConnectionIdles(fd)
    BY <2>3, <2>8 DEF ConnectionIdles, NoneTaken, IsConnection, Server, Connection
  <2>9. CASE Stop \/ (\E p \in Pid : ChildExits(p) \/ ReapOverdue(p)) \/ (\E j \in Fd : JobExpires(j))
    BY <2>2, <2>3, <2>9 DEF Stop, ChildExits, ReapOverdue, JobExpires, Server
  <2>10. CASE \/ \E ref \in Ref :
                   \/ DispatchCgi(ref) \/ DispatchClientError(ref) \/ DispatchClientHangup(ref)
                   \/ DispatchClientRead(ref) \/ DispatchClientWrite(ref)
                   \/ \E j \in Fd, new \in Ref, pid \in Pid \cup {None} :
                        DispatchClientCgi(ref, j, new, pid)
                   \/ \E j \in Fd, new \in Ref : DispatchClientCgiThrows(ref, j, new)
              \/ \E fd \in Fd, ref \in Ref, added \in BOOLEAN : AcceptOne(fd, ref, added)
    BY <1>1, <2>10 DEF DispatchCgi, DispatchClientError, DispatchClientHangup,
         DispatchClientRead, DispatchClientWrite, DispatchClientCgi,
         DispatchClientCgiThrows, AcceptOne, Dispatching
  <2>11. QED
    BY <1>4, <2>4, <2>5, <2>6, <2>7, <2>8, <2>9, <2>10 DEF Loop, Environment
<1>5. QED
  BY <1>1, <1>3, <1>4 DEF Next, Exited

\* After the signal handler has run, whatever the loop was doing, no client
\* is accepted and no script is started.
THEOREM NoWorkAfterStop == Spec => StoppedTakesNoWork
<1>1. ChildInv /\ ChildInv' /\ [Next]_vars
        => [srv.stopped =>
              /\ \A fd \in Fd : ~IsConnection(srv, fd) => ~IsConnection(srv', fd)
              /\ \A p \in Pid : srv.child[p] = "NONE" => srv'.child[p] = "NONE"]_vars
  BY StoppedStep DEF ChildInv, TakesNoWork, NoneTaken, NoneStarted
<1>2. QED
  BY <1>1, ChildrenAgree, PTL DEF Spec, StoppedTakesNoWork

-----------------------------------------------------------------------------
(* What a handler leaves of the other clients. *)

\* From s to t no other connection than fd's has changed its state, and no
\* job has come; those that are gone were fd's.
Apart(s, t, fd) ==
  /\ t \in Server
  /\ \A f \in Fd \ {fd} : t.connections[f].state = s.connections[f].state
  /\ \A j \in Fd : \/ t.cgiJobs[j].client = s.cgiJobs[j].client
                   \/ s.cgiJobs[j].client = fd /\ t.cgiJobs[j].client = None

LEMMA ApartTwice ==
  ASSUME NEW s, NEW t, NEW u, NEW fd, Apart(s, t, fd), Apart(t, u, fd)
  PROVE  Apart(s, u, fd)
BY DEF Apart

LEMMA ApartJobs ==
  ASSUME NEW s, NEW t, NEW fd \in Fd, Apart(s, t, fd)
  PROVE  /\ JobsOf(t, fd) \subseteq JobsOf(s, fd)
         /\ \A f \in Fd \ {fd} : JobsOf(t, f) = JobsOf(s, f)
<1>1. None \notin Fd
  BY ConstantsDistinct
<1>2. QED
  BY <1>1 DEF Apart, JobsOf

\* The jobs and the other connections are the same.
LEMMA SameApart ==
  ASSUME NEW s, NEW t, NEW fd, SameJobs(s, t),
         \A f \in Fd \ {fd} : t.connections[f].state = s.connections[f].state
  PROVE  Apart(s, t, fd)
BY DEF Apart, SameJobs

LEMMA SettledApart ==
  ASSUME NEW s, NEW t, NEW fd, Settled(s, t, fd)
  PROVE  Apart(s, t, fd)
BY SameApart DEF Settled

LEMMA CloseJobsApart ==
  ASSUME NEW s \in Server, NEW fd \in Fd, NEW jobs \in SUBSET JobsOf(s, fd)
  PROVE  LET t == CloseCgiJobs(s, jobs)
         IN  /\ Apart(s, t, fd) /\ t.connections = s.connections
             /\ \A j \in jobs : t.cgiJobs[j].client = None
<1> DEFINE pids    == {s.cgiJobs[j].pid : j \in jobs} \ {None}
           running == {p \in pids : s.child[p] = "RUNNING"}
           ch      == [p \in Pid |-> IF p \in pids \ running THEN "NONE" ELSE s.child[p]]
           pr      == s.pendingReap \cup running
           jb      == [j \in Fd |-> IF j \in jobs THEN NoJob ELSE s.cgiJobs[j]]
           m       == [s EXCEPT !.child = ch, !.pendingReap = pr, !.cgiJobs = jb]
           t       == CloseCgiJobs(s, jobs)
<1>1. jobs \subseteq Fd /\ jobs \subseteq AllFd /\ s.cgiJobs \in [Fd -> CgiJob]
  BY DEF AllFd, Server, JobsOf
<1>2. pids \subseteq Pid
  BY <1>1 DEF CgiJob
<1>3. ch \in [Pid -> {"NONE", "RUNNING", "ZOMBIE"}] /\ pr \in SUBSET Pid
  BY <1>1, <1>2 DEF Server
<1>4. jb \in [Fd -> CgiJob]
  BY <1>1 DEF NoJob, CgiJob
<1>5. m \in Server /\ m.cgiJobs = jb /\ m.connections = s.connections
  BY <1>3, <1>4 DEF Server
<1>6. t = UnregisterEventFds(m, jobs)
  BY DEF CloseCgiJobs
<1> HIDE DEF m, t
<1>7. SameJobs(m, t) /\ t.connections = s.connections
  BY <1>1, <1>5, <1>6, UnregisterShape
<1>8. t \in Server /\ t.cgiJobs = jb
  BY <1>5, <1>7 DEF SameJobs
<1>9. \A j \in Fd : jb[j].client = (IF j \in jobs THEN None ELSE s.cgiJobs[j].client)
  BY DEF NoJob
<1>10. \A j \in jobs : s.cgiJobs[j].client = fd
  BY DEF JobsOf
<1> HIDE DEF jb
<1>11. Apart(s, t, fd)
  BY <1>7, <1>8, <1>9, <1>10 DEF Apart
<1>12. QED
  BY <1>1, <1>7, <1>8, <1>9, <1>11 DEF t

LEMMA CloseJobApart ==
  ASSUME NEW s \in Server, NEW fd \in Fd, NEW j \in JobsOf(s, fd)
  PROVE  LET t == CloseCgiJob(s, j)
         IN  Apart(s, t, fd) /\ t.connections = s.connections /\ t.cgiJobs[j].client = None
<1>1. CloseCgiJob(s, j) = CloseCgiJobs(s, {j})
  BY ConstantsDistinct DEF CloseCgiJob, IsJob, JobsOf
<1>2. {j} \in SUBSET JobsOf(s, fd) /\ j \in {j}
  OBVIOUS
<1> HIDE DEF CloseCgiJob
<1>3. QED
  BY <1>1, <1>2, CloseJobsApart

LEMMA CloseClientApart ==
  ASSUME NEW s \in Server, NEW fd \in Fd
  PROVE  Apart(s, CloseClient(s, fd), fd) /\ CloseClient(s, fd).connections[fd].state = "FREE"
<1> DEFINE u == CloseCgiJobs(s, JobsOf(s, fd))
           v == UnregisterEventFds(u, {fd})
           t == CloseConnection(v, fd)
<1>1. Apart(s, u, fd) /\ u \in Server
  BY CloseJobsApart DEF Apart
<1> HIDE DEF u
<1>2. {fd} \in SUBSET AllFd
  BY DEF AllFd
<1>3. SameJobs(u, v) /\ v.connections = u.connections
  BY <1>1, <1>2, UnregisterShape
<1> HIDE DEF v
<1>4. /\ SameJobs(v, t)
      /\ \A f \in Fd \ {fd} : t.connections[f] = v.connections[f]
      /\ t.connections[fd] = IF IsConnection(v, fd) THEN NoConnection ELSE v.connections[fd]
  BY <1>3, CloseConnectionShape DEF SameJobs
<1>5. CloseClient(s, fd) = t
  BY DEF CloseClient, CloseCgiJobsForClient, UnregisterEventFd, u, v
<1> HIDE DEF t
<1>6. SameJobs(u, t)
  BY <1>3, <1>4 DEF SameJobs
<1>7. Apart(u, t, fd)
  BY <1>3, <1>4, <1>6, SameApart
<1>8. t.connections[fd].state = "FREE"
  BY <1>4 DEF IsConnection, NoConnection
<1>9. QED
  BY <1>1, <1>5, <1>7, <1>8, ApartTwice

LEMMA FailApart ==
  ASSUME NEW s \in Server, NEW fd \in Fd, NEW j \in JobsOf(s, fd)
  PROVE  Apart(s, FailCgiJob(s, j), fd)
<1> DEFINE m == Respond(s, fd)
<1>1. j \in Fd /\ s.cgiJobs[j].client = fd /\ IsJob(s, j)
  BY ConstantsDistinct DEF JobsOf, IsJob
<1>2. FailCgiJob(s, j) = CloseCgiJob(IF IsConnection(s, fd) THEN m ELSE s, j)
  BY <1>1 DEF FailCgiJob
<1>3. Apart(s, m, fd) /\ m \in Server /\ j \in JobsOf(m, fd)
  <2>1. Settled(s, m, fd)
    BY RespondShape
  <2> HIDE DEF m
  <2>2. QED
    BY <1>1, <2>1, SettledApart DEF Settled, SameJobs, JobsOf
<1> HIDE DEF m
<1>4. Apart(m, CloseCgiJob(m, j), fd) /\ Apart(s, CloseCgiJob(s, j), fd)
  BY <1>3, CloseJobApart
<1>5. QED
  BY <1>2, <1>3, <1>4, ApartTwice

LEMMA FinishApart ==
  ASSUME NEW s \in Server, NEW fd \in Fd, NEW j \in JobsOf(s, fd), NEW head \in BOOLEAN
  PROVE  Apart(s, FinishCgiJob(s, j, head), fd)
<1> DEFINE conn   == [s.connections[fd] EXCEPT !.pending = TRUE]
           p      == [s EXCEPT !.connections[fd] = conn]
           m      == IF IsConnection(s, fd) /\ ~head THEN p ELSE s
           closed == CloseCgiJob(m, j)
           t      == Enter(closed, fd, "WRITING")
<1>1. j \in Fd /\ s.cgiJobs[j].client = fd /\ IsJob(s, j)
  BY ConstantsDistinct DEF JobsOf, IsJob
<1>2. CASE ~s.cgiJobs[j].headersSent
  BY <1>1, <1>2, FailApart DEF FinishCgiJob
<1>3. CASE s.cgiJobs[j].headersSent
  <2>1. FinishCgiJob(s, j, head) = IF IsConnection(closed, fd) THEN t ELSE closed
    <3>1. m = IF IsConnection(s, fd) /\ ~head THEN [s EXCEPT !.connections[fd].pending = TRUE] ELSE s
      OBVIOUS
    <3>2. QED
      BY <1>1, <1>3, <3>1 DEF FinishCgiJob
  <2>2. s.connections \in [Fd -> Connection]
    BY DEF Server
  <2>3. conn \in Connection
    BY <2>2 DEF Connection
  <2> HIDE DEF conn
  <2>4. SameJobs(s, p) /\ \A f \in Fd \ {fd} : p.connections[f] = s.connections[f]
    BY <2>3, ConnectionShape
  <2> HIDE DEF p
  <2>5. SameJobs(s, m) /\ \A f \in Fd \ {fd} : m.connections[f] = s.connections[f]
    BY <2>4 DEF SameJobs
  <2> HIDE DEF m
  <2>6. Apart(s, m, fd) /\ m \in Server /\ j \in JobsOf(m, fd)
    BY <1>1, <2>5, SameApart DEF SameJobs, JobsOf
  <2>7. Apart(m, closed, fd) /\ closed \in Server
    BY <2>6, CloseJobApart DEF Apart
  <2> HIDE DEF closed
  <2>8. Settled(closed, t, fd)
    BY <2>7, WritingShape
  <2> HIDE DEF t
  <2>9. Apart(closed, t, fd)
    BY <2>8, SettledApart
  <2>10. QED
    BY <2>1, <2>6, <2>7, <2>9, ApartTwice
<1>4. QED
  BY <1>2, <1>3

LEMMA CgiEventApart ==
  ASSUME NEW s \in Server, NEW fd \in Fd, NEW j \in JobsOf(s, fd), NEW o \in CgiOutcome
  PROVE  Apart(s, HandleCgiEvent(s, j, o), fd)
<1> DEFINE g == [s.cgiJobs EXCEPT ![j].headersSent = TRUE]
           m == [s EXCEPT !.cgiJobs = g]
           t == HandleCgiEvent(s, j, o)
<1>1. j \in Fd /\ s.cgiJobs[j].client = fd /\ IsJob(s, j) /\ s.cgiJobs \in [Fd -> CgiJob]
  BY ConstantsDistinct DEF JobsOf, IsJob, Server
<1>2. \/ t = s \/ t = FailCgiJob(s, j) \/ t = CloseCgiJob(s, j)
      \/ t = FinishCgiJob(s, j, TRUE) \/ t = FinishCgiJob(s, j, FALSE)
      \/ t = Respond(m, fd)
  BY <1>1 DEF HandleCgiEvent, CgiOutcome
<1> HIDE DEF t
<1>3. Apart(s, s, fd)
  BY DEF Apart
<1>4. Apart(s, Respond(m, fd), fd)
  <2>1. g \in [Fd -> CgiJob] /\ \A i \in Fd : g[i].client = s.cgiJobs[i].client
    BY <1>1 DEF CgiJob
  <2> HIDE DEF g
  <2>2. m \in Server /\ m.cgiJobs = g /\ m.connections = s.connections
    BY <2>1 DEF Server
  <2> HIDE DEF m
  <2>3. Apart(s, m, fd)
    BY <2>1, <2>2 DEF Apart
  <2>4. Settled(m, Respond(m, fd), fd)
    BY <2>2, RespondShape
  <2>5. QED
    BY <2>3, <2>4, SettledApart, ApartTwice
<1>5. QED
  BY <1>2, <1>3, <1>4, FailApart, CloseJobApart, FinishApart DEF t

\* _handleWrite goes on writing, or closes, or begins the next request; the
\* last only when no job of the connection is left.
LEMMA WriteApart ==
  ASSUME NEW s \in Server, NEW fd \in Fd, IsConnection(s, fd), NEW w \in WriteOutcome,
         \A j \in JobsOf(s, fd) : ~IsConnection(s, j)
  PROVE  LET t == HandleWrite(s, fd, w)
         IN  /\ Apart(s, t, fd)
             /\ \/ t.connections[fd].state \in {"FREE", "WRITING"}
                \/ t.connections[fd].state = "READING" /\ JobsOf(s, fd) = {}
<1> DEFINE conn    == s.connections[fd]
           tc      == [s.connections EXCEPT ![fd].idle = FALSE]
           fc      == [tc EXCEPT ![fd].pending = (w.sent # "all")]
           m       == [s EXCEPT !.connections = fc]
           flushed == IF conn.pending /\ w.sent # "none"
                        THEN [Touch(s, fd) EXCEPT !.connections[fd].pending = (w.sent # "all")]
                        ELSE s
           left    == flushed.connections[fd].pending
           t       == HandleWrite(s, fd, w)
<1>1. s.connections \in [Fd -> Connection]
  BY DEF Server
<1>2. fc \in [Fd -> Connection] /\ \A f \in Fd : fc[f].state = s.connections[f].state
  BY <1>1 DEF Connection
<1>3. /\ flushed \in Server /\ SameJobs(s, flushed)
      /\ \A f \in Fd : flushed.connections[f].state = s.connections[f].state
  <2>1. CASE conn.pending /\ w.sent # "none"
    <3>1. flushed = m
      BY <2>1 DEF Touch
    <3> HIDE DEF fc, flushed
    <3>2. SameJobs(s, m) /\ m.connections = fc
      BY <1>2 DEF SameJobs, Server
    <3>3. QED
      BY <1>2, <3>1, <3>2 DEF SameJobs
  <2>2. CASE ~(conn.pending /\ w.sent # "none")
    BY <2>2 DEF SameJobs
  <2>3. QED
    BY <2>1, <2>2
<1>4. t = IF JobsOf(flushed, fd) # {}
            THEN LET j      == CHOOSE x \in JobsOf(flushed, fd) : TRUE
                     pumped == IF w.low \/ ~left
                                 THEN HandleCgiEvent(ModifyEventFd(flushed, j, {"IN"}), j, w.pump)
                                 ELSE flushed
                 IN  IF IsConnection(pumped, fd) THEN Enter(pumped, fd, "WRITING") ELSE pumped
          ELSE IF left THEN Enter(flushed, fd, "WRITING")
          ELSE IF ~conn.halfClosed /\ w.keepAlive
            THEN RearmClient([flushed EXCEPT !.connections[fd] = NewConnection], fd)
          ELSE CloseClient(flushed, fd)
  BY DEF HandleWrite
<1> HIDE DEF flushed, t, left, conn
<1>5. JobsOf(flushed, fd) = JobsOf(s, fd) /\ Apart(s, flushed, fd)
  BY <1>3, SameApart DEF SameJobs, JobsOf
<1> DEFINE Moves == \/ t.connections[fd].state \in {"FREE", "WRITING"}
                    \/ t.connections[fd].state = "READING" /\ JobsOf(s, fd) = {}
<1> SUFFICES Apart(flushed, t, fd) /\ Moves
  BY <1>5, ApartTwice DEF t
<1>6. ASSUME NEW u, Apart(flushed, u, fd), t = Enter(u, fd, "WRITING")
      PROVE  Apart(flushed, t, fd) /\ Moves
  <2>1. Settled(u, t, fd)
    BY <1>6, WritingShape DEF Apart
  <2>2. Apart(flushed, t, fd)
    BY <1>6, <2>1, SettledApart, ApartTwice
  <2>3. Moves
    BY <2>1 DEF Settled, NoConnection
  <2>4. QED
    BY <2>2, <2>3
<1>7. Apart(flushed, flushed, fd)
  BY <1>3 DEF Apart
<1>8. CASE JobsOf(flushed, fd) # {}
  <2> DEFINE j      == CHOOSE x \in JobsOf(flushed, fd) : TRUE
             mod    == ModifyEventFd(flushed, j, {"IN"})
             event  == HandleCgiEvent(mod, j, w.pump)
             pumped == IF w.low \/ ~left THEN event ELSE flushed
  <2>1. j \in JobsOf(flushed, fd) /\ j \in Fd
    BY <1>8 DEF JobsOf
  <2>2. t = IF IsConnection(pumped, fd) THEN Enter(pumped, fd, "WRITING") ELSE pumped
    BY <1>4, <1>8
  <2> HIDE DEF j
  <2>3. flushed.connections[j].state = "FREE"
    BY <1>3, <1>5, <2>1 DEF IsConnection
  <2>4. /\ SameJobs(flushed, mod)
        /\ \A f \in Fd \ {j} : mod.connections[f] = flushed.connections[f]
        /\ mod.connections[j] \in {flushed.connections[j], NoConnection}
    <3>1. {"IN"} \in SUBSET EventFlag
      BY DEF EventFlag
    <3>2. QED
      BY <1>3, <2>1, <3>1, ModifyShape
  <2> HIDE DEF mod
  <2>5. \A f \in Fd : mod.connections[f].state = flushed.connections[f].state
    BY <2>3, <2>4 DEF NoConnection
  <2>6. Apart(flushed, mod, fd) /\ mod \in Server /\ j \in JobsOf(mod, fd)
    BY <2>1, <2>4, <2>5, SameApart DEF SameJobs, JobsOf
  <2>7. w.pump \in CgiOutcome
    BY DEF WriteOutcome
  <2>8. Apart(mod, event, fd)
    BY <2>6, <2>7, CgiEventApart
  <2> HIDE DEF event
  <2>9. Apart(flushed, pumped, fd)
    BY <1>7, <2>6, <2>8, ApartTwice
  <2>10. ~IsConnection(pumped, fd) => pumped.connections[fd].state = "FREE"
    BY DEF IsConnection
  <2> HIDE DEF pumped
  <2>11. QED
    BY <1>6, <2>2, <2>9, <2>10
<1>9. CASE JobsOf(flushed, fd) = {} /\ left
  BY <1>4, <1>6, <1>7, <1>9
<1>10. CASE JobsOf(flushed, fd) = {} /\ ~left /\ ~conn.halfClosed /\ w.keepAlive
  <2> DEFINE k == [flushed EXCEPT !.connections[fd] = NewConnection]
  <2>1. t = RearmClient(k, fd)
    BY <1>4, <1>10
  <2>2. NewConnection \in Connection /\ NewConnection.state = "READING"
    BY DEF NewConnection, NoConnection, Connection, ConnState
  <2>3. /\ SameJobs(flushed, k) /\ k.connections[fd] = NewConnection
        /\ \A f \in Fd \ {fd} : k.connections[f] = flushed.connections[f]
    BY <1>3, <2>2, ConnectionShape
  <2> HIDE DEF k
  <2>4. /\ SameJobs(k, t) /\ \A f \in Fd \ {fd} : t.connections[f] = k.connections[f]
        /\ t.connections[fd] \in {k.connections[fd], NoConnection}
    BY <2>1, <2>3, RearmShape DEF SameJobs
  <2>5. SameJobs(flushed, t)
    BY <2>3, <2>4 DEF SameJobs
  <2>6. Apart(flushed, t, fd)
    BY <2>3, <2>4, <2>5, SameApart
  <2>7. Moves
    BY <1>5, <1>10, <2>2, <2>3, <2>4 DEF NoConnection
  <2>8. QED
    BY <2>6, <2>7
<1>11. CASE JobsOf(flushed, fd) = {} /\ ~left /\ ~(~conn.halfClosed /\ w.keepAlive)
  BY <1>3, <1>4, <1>11, CloseClientApart
<1>12. QED
  BY <1>8, <1>9, <1>10, <1>11

\* A script is started for a connection that has no job.
LEMMA StartApart ==
  ASSUME NEW s \in Server, NEW fd \in Fd, JobsOf(s, fd) = {},
         NEW j \in FreeFd(s), NEW ref \in Ref, NEW pid \in FreePid(s) \cup {None}
  PROVE  LET t == ApiStartCgi(s, fd, j, ref, pid)
         IN  /\ \A f \in Fd \ {fd} : /\ t.connections[f].state = s.connections[f].state
                                     /\ JobsOf(t, f) = JobsOf(s, f)
             /\ \/ t.connections[fd].state \in {"FREE", "CGI_RUNNING"}
                \/ t.connections[fd].state = "WRITING" /\ JobsOf(t, fd) = {}
<1> DEFINE job    == [NoJob EXCEPT !.client = fd]
           g      == [s.cgiJobs EXCEPT ![j] = job]
           m      == [s EXCEPT !.cgiJobs = g]
           opened == RegisterEventFd(m, j, ref, "CGI", {"IN"}, TRUE)
           armed  == Enter(opened, fd, "CGI_RUNNING")
           t      == ApiStartCgi(s, fd, j, ref, pid)
<1>1. s.cgiJobs \in [Fd -> CgiJob] /\ j \in Fd /\ s.cgiJobs[j].client = None
  BY DEF Server, FreeFd, IsJob
<1>2. job \in CgiJob /\ job.client = fd
  BY DEF NoJob, CgiJob
<1>3. t = IF pid = None
            THEN Respond(CloseCgiJob(armed, j), fd)
            ELSE [armed EXCEPT !.cgiJobs[j].pid = pid, !.child[pid] = "RUNNING"]
  BY DEF ApiStartCgi
<1> HIDE DEF job, t
<1>4. g \in [Fd -> CgiJob] /\ g[j] = job /\ \A i \in Fd \ {j} : g[i] = s.cgiJobs[i]
  BY <1>1, <1>2
<1> HIDE DEF g
<1>5. m \in Server /\ m.cgiJobs = g /\ m.connections = s.connections
  BY <1>4 DEF Server
<1> HIDE DEF m
<1>6. SameJobs(m, opened) /\ opened.connections = m.connections
  <2>1. "CGI" \in EventKind /\ {"IN"} \in SUBSET EventFlag /\ TRUE \in BOOLEAN
    BY DEF EventKind, EventFlag
  <2>2. m \in Server /\ j \in Fd /\ ref \in Ref
    BY <1>1, <1>5
  <2>3. \A kind \in EventKind, events \in SUBSET EventFlag, added \in BOOLEAN :
          LET o == RegisterEventFd(m, j, ref, kind, events, added)
          IN  SameJobs(m, o) /\ o.connections = m.connections
    BY ONLY <2>2, RegisterShape
  <2>4. QED
    BY ONLY <2>1, <2>3
<1> HIDE DEF opened
<1>7. /\ SameJobs(opened, armed)
      /\ \A f \in Fd \ {fd} : armed.connections[f] = opened.connections[f]
      /\ armed.connections[fd] \in {[opened.connections[fd] EXCEPT !.state = "CGI_RUNNING"], NoConnection}
  <2>1. "CGI_RUNNING" \in ConnState
    BY DEF ConnState
  <2>2. QED
    BY <1>6, <2>1, EnterShape DEF SameJobs
<1> HIDE DEF armed
<1>8. /\ armed.cgiJobs = g /\ armed \in Server
      /\ \A f \in Fd \ {fd} : armed.connections[f] = s.connections[f]
  BY <1>5, <1>6, <1>7 DEF SameJobs
<1>9. JobsOf(armed, fd) = {j} /\ \A f \in Fd \ {fd} : JobsOf(armed, f) = JobsOf(s, f)
  BY <1>1, <1>2, <1>4, <1>8, ConstantsDistinct DEF JobsOf
<1>10. armed.connections[fd].state \in {"FREE", "CGI_RUNNING"}
  <2>1. opened.connections \in [Fd -> Connection]
    BY <1>6 DEF SameJobs, Server
  <2>2. opened.connections[fd] \in Connection
    BY <2>1
  <2>3. [opened.connections[fd] EXCEPT !.state = "CGI_RUNNING"].state = "CGI_RUNNING"
    BY <2>2 DEF Connection
  <2>4. CASE armed.connections[fd] = [opened.connections[fd] EXCEPT !.state = "CGI_RUNNING"]
    BY <2>3, <2>4
  <2>5. CASE armed.connections[fd] = NoConnection
    BY <2>5 DEF NoConnection
  <2>6. QED
    BY <1>7, <2>4, <2>5
<1>11. CASE pid = None
  <2> DEFINE closed == CloseCgiJob(armed, j)
  <2>1. Apart(armed, closed, fd) /\ closed.cgiJobs[j].client = None
    BY <1>8, <1>9, CloseJobApart
  <2>2. t = Respond(closed, fd)
    BY <1>3, <1>11
  <2> HIDE DEF closed
  <2>3. Settled(closed, t, fd)
    BY <2>1, <2>2, RespondShape DEF Apart
  <2>4. Apart(armed, t, fd) /\ t.cgiJobs = closed.cgiJobs
    BY <2>1, <2>3, SettledApart, ApartTwice DEF Settled, SameJobs
  <2>5. JobsOf(t, fd) \subseteq JobsOf(armed, fd) /\ \A f \in Fd \ {fd} : JobsOf(t, f) = JobsOf(armed, f)
    BY <2>4, ApartJobs
  <2>6. j \notin JobsOf(t, fd)
    BY <2>1, <2>4, ConstantsDistinct DEF JobsOf
  <2>7. JobsOf(t, fd) = {}
    BY <1>9, <2>5, <2>6
  <2>8. t.connections[fd].state \in {"FREE", "WRITING"}
    BY <2>3 DEF Settled, NoConnection
  <2>9. \A f \in Fd \ {fd} : t.connections[f].state = s.connections[f].state
    BY <1>8, <2>4 DEF Apart
  <2>10. QED
    BY <1>9, <2>5, <2>7, <2>8, <2>9 DEF t
<1>12. CASE pid # None
  <2> DEFINE h == [armed.cgiJobs EXCEPT ![j].pid = pid]
             c == [armed.child EXCEPT ![pid] = "RUNNING"]
  <2>1. t = [armed EXCEPT !.cgiJobs = h, !.child = c]
    BY <1>3, <1>8, <1>12 DEF Server
  <2>2. \A i \in Fd : h[i].client = armed.cgiJobs[i].client
    BY <1>1, <1>4, <1>8 DEF CgiJob
  <2> HIDE DEF h, c
  <2>3. t.cgiJobs = h /\ t.connections = armed.connections
    BY <1>8, <2>1 DEF Server
  <2>4. \A f \in Fd : JobsOf(t, f) = JobsOf(armed, f)
    BY <2>2, <2>3 DEF JobsOf
  <2>5. QED
    BY <1>8, <1>9, <1>10, <2>3, <2>4 DEF t
<1>13. QED
  BY <1>11, <1>12

-----------------------------------------------------------------------------
(* One step of one connection's life. *)

Cgi(s, f) == JobsOf(s, f) # {}

\* Where a job works for a connection, that connection waits for it or
\* relays its output; where a connection waits, there is a job.
Consistent(s) ==
  /\ s \in Server
  /\ \A f \in Fd : /\ Cgi(s, f) => s.connections[f].state \in {"CGI_RUNNING", "WRITING"}
                   /\ s.connections[f].state = "CGI_RUNNING" => Cgi(s, f)

LEMMA InvConsistent == IInv /\ Sound(srv, {}) => Consistent(srv)
<1>1. SUFFICES ASSUME IInv, Sound(srv, {}) PROVE Consistent(srv)
  OBVIOUS
<1>2. \A f, j \in Fd : j \in JobsOf(srv, f) => IsJob(srv, j) /\ srv.cgiJobs[j].client = f
  BY ConstantsDistinct DEF JobsOf, IsJob
<1>3. \A f \in Fd : Cgi(srv, f) => srv.connections[f].state \in {"CGI_RUNNING", "WRITING"}
  BY <1>1, <1>2 DEF Cgi, IInv, JobStates, JobsOf
<1>4. \A f \in Fd : srv.connections[f].state = "CGI_RUNNING" => Cgi(srv, f)
  BY <1>1 DEF Sound, Waiting, Cgi, JobsOf
<1>5. QED
  BY <1>1, <1>3, <1>4 DEF Consistent, Sound

\* The other clients and whether a job works for them.
OthersStay(s, t, fd) ==
  \A f \in Fd \ {fd} : /\ t.connections[f].state = s.connections[f].state
                       /\ Cgi(t, f) <=> Cgi(s, f)

\* What may become of the connection of fd.
Moves(s, t, fd) ==
  LET old == s.connections[fd].state
      new == t.connections[fd].state
  IN  /\ new = "READING" => old \in {"FREE", "READING"} \/ (old = "WRITING" /\ ~Cgi(s, fd))
      /\ new = "CGI_RUNNING" => old \in {"READING", "CGI_RUNNING"}
      /\ new = "WRITING" => /\ old # "FREE"
                            /\ old = "READING" => ~Cgi(t, fd)
                            /\ old = "WRITING" => (Cgi(t, fd) => Cgi(s, fd))

LEMMA ApartStays ==
  ASSUME NEW s, NEW t, NEW fd \in Fd, Apart(s, t, fd)
  PROVE  OthersStay(s, t, fd) /\ (Cgi(t, fd) => Cgi(s, fd))
BY ApartJobs DEF Apart, OthersStay, Cgi

LEMMA LifeStep ==
  ASSUME Consistent(srv), Consistent(srv'), NEW fd \in Fd,
         OthersStay(srv, srv', fd), Moves(srv, srv', fd)
  PROVE  [Lifecycle!LifeNext]_(Lifecycle!lifeVars)
<1> DEFINE old == srv.connections[fd].state
           new == srv'.connections[fd].state
           st  == [f \in Fd |-> srv.connections[f].state]
           cg  == [f \in Fd |-> JobsOf(srv, f) # {}]
           sn  == [f \in Fd |-> srv'.connections[f].state]
           cn  == [f \in Fd |-> JobsOf(srv', f) # {}]
<1>1. old \in ConnState /\ new \in ConnState
  BY DEF Consistent, Server, Connection
<1>2. sn = [st EXCEPT ![fd] = new] /\ cn = [cg EXCEPT ![fd] = Cgi(srv', fd)]
  BY DEF OthersStay, Cgi
<1>3. /\ Cgi(srv, fd) => old \in {"CGI_RUNNING", "WRITING"}
      /\ old = "CGI_RUNNING" => Cgi(srv, fd)
      /\ Cgi(srv', fd) => new \in {"CGI_RUNNING", "WRITING"}
      /\ new = "CGI_RUNNING" => Cgi(srv', fd)
  BY DEF Consistent
<1>4. st[fd] = old /\ cg[fd] = Cgi(srv, fd)
  BY DEF Cgi
<1>5. CASE new = old /\ (Cgi(srv', fd) <=> Cgi(srv, fd))
  <2>1. sn = st /\ cn = cg
    BY <1>2, <1>4, <1>5
  <2>2. QED
    BY <2>1 DEF Lifecycle!lifeVars
<1> DEFINE Step(a) == st[fd] = old /\ sn = [st EXCEPT ![fd] = new] /\ cn = [cg EXCEPT ![fd] = a]
<1>6. CASE ~(new = old /\ (Cgi(srv', fd) <=> Cgi(srv, fd)))
  <2>1. CASE new = "FREE"
    <3>1. Lifecycle!Close(fd)
      BY <1>2, <1>3, <1>4, <1>6, <2>1 DEF Lifecycle!Close, Lifecycle!Become
    <3>2. QED
      BY <3>1 DEF Lifecycle!LifeNext
  <2>2. CASE new = "READING"
    <3>1. Lifecycle!Accept(fd) \/ Lifecycle!NextRequest(fd)
      BY <1>2, <1>3, <1>4, <1>6, <2>2
         DEF Moves, Lifecycle!Accept, Lifecycle!NextRequest, Lifecycle!Become
    <3>2. QED
      BY <3>1 DEF Lifecycle!LifeNext
  <2>3. CASE new = "CGI_RUNNING"
    <3>1. Lifecycle!StartCgi(fd)
      BY <1>2, <1>3, <1>4, <1>6, <2>3 DEF Moves, Lifecycle!StartCgi, Lifecycle!Become
    <3>2. QED
      BY <3>1 DEF Lifecycle!LifeNext
  <2>4. CASE new = "WRITING"
    <3>1. Lifecycle!Answer(fd) \/ Lifecycle!StreamCgi(fd) \/ Lifecycle!EndCgi(fd)
      BY <1>1, <1>2, <1>3, <1>4, <1>6, <2>4
         DEF Moves, ConnState, Lifecycle!Answer, Lifecycle!StreamCgi, Lifecycle!EndCgi, Lifecycle!Become
    <3>2. QED
      BY <3>1 DEF Lifecycle!LifeNext
  <2>5. QED
    BY <1>1, <2>1, <2>2, <2>3, <2>4 DEF ConnState
<1>7. QED
  BY <1>5, <1>6

\* No connection changes its state, no job its client.
LEMMA LifeStutter ==
  ASSUME \A f \in Fd : srv'.connections[f].state = srv.connections[f].state,
         \A j \in Fd : srv'.cgiJobs[j].client = srv.cgiJobs[j].client
  PROVE  [Lifecycle!LifeNext]_(Lifecycle!lifeVars)
<1>1. \A f \in Fd : JobsOf(srv', f) = JobsOf(srv, f)
  BY DEF JobsOf
<1>2. QED
  BY <1>1 DEF Lifecycle!lifeVars

-----------------------------------------------------------------------------
(* The steps of the server. *)

\* One step of some connection's life, or none.
Lives == [Lifecycle!LifeNext]_(Lifecycle!lifeVars)

\* Whatever a handler does for a job is done for its client.
LEMMA JobLives ==
  ASSUME Consistent(srv), Consistent(srv'), NEW fd \in Fd, Apart(srv, srv', fd),
         Cgi(srv, fd), Moved(srv, srv')
  PROVE  Lives
<1>1. OthersStay(srv, srv', fd) /\ (Cgi(srv', fd) => Cgi(srv, fd))
  BY ApartStays
<1>2. srv.connections[fd].state \in {"CGI_RUNNING", "WRITING"}
  BY DEF Consistent
<1>3. srv'.connections[fd].state = srv.connections[fd].state \/ srv'.connections[fd].state = "WRITING"
  BY DEF Moved
<1>4. Moves(srv, srv', fd)
  BY <1>1, <1>2, <1>3 DEF Moves
<1>5. QED
  BY <1>1, <1>4, LifeStep DEF Lives

LEMMA CgiLives ==
  ASSUME IInv, Consistent(srv), Consistent(srv'), NEW ref \in Ref, DispatchCgi(ref)
  PROVE  Lives
<1> DEFINE j  == srv.refs[ref].fd
           fd == srv.cgiJobs[j].client
<1>1. PICK o \in CgiOutcome : srv' = HandleCgiEvent(srv, j, o)
  BY DEF DispatchCgi
<1>2. j \in Fd /\ IsJob(srv, j)
  BY DEF IInv, DispatchCgi, Dispatching, Tables, BatchOK, Exists, KindOf
<1>3. Tables(srv, batch, {}) /\ JobStates(srv) /\ srv \in Server
  BY DEF IInv, Consistent
<1>4. fd \in Fd /\ srv.connections[fd].state # "READING"
  BY <1>2, <1>3, JobClient DEF JobStates
<1>5. Tables(srv, [r \in Ref |-> {}], {<<fd, "IN">>})
  BY <1>3 DEF Tables, BatchOK
<1>6. j \in JobsOf(srv, fd) /\ Cgi(srv, fd)
  BY <1>2 DEF JobsOf, Cgi
<1>7. Moved(srv, srv')
  BY <1>1, <1>2, <1>3, <1>5, CgiEventTables
<1> HIDE DEF fd, j
<1>8. Apart(srv, srv', fd)
  BY <1>1, <1>3, <1>4, <1>6, CgiEventApart
<1>9. QED
  BY <1>4, <1>6, <1>7, <1>8, JobLives

LEMMA SweepJobLives ==
  ASSUME IInv, Consistent(srv), Consistent(srv'), NEW j \in Fd, SweepJob(j)
  PROVE  Lives
<1> DEFINE fd == srv.cgiJobs[j].client
<1>1. srv' = FailCgiJob(srv, j)
  BY DEF SweepJob
<1>2. Tables(srv, batch, {}) /\ JobStates(srv) /\ srv \in Server
  BY DEF IInv, Consistent
<1>3. CASE ~IsJob(srv, j)
  BY <1>1, <1>3, LifeStutter DEF FailCgiJob, Lives
<1>4. CASE IsJob(srv, j)
  <2>1. fd \in Fd
    BY <1>2, <1>4, JobClient
  <2>2. Tables(srv, [r \in Ref |-> {}], {<<fd, "IN">>})
    BY <1>2 DEF Tables, BatchOK
  <2>3. Moved(srv, srv')
    BY <1>1, <1>2, <1>4, <2>2, FailTables
  <2>4. j \in JobsOf(srv, fd) /\ Cgi(srv, fd)
    BY DEF JobsOf, Cgi
  <2> HIDE DEF fd
  <2>5. Apart(srv, srv', fd)
    BY <1>1, <1>2, <2>1, <2>4, FailApart
  <2>6. QED
    BY <2>1, <2>3, <2>4, <2>5, JobLives
<1>5. QED
  BY <1>3, <1>4

\* A connection that is closed in the end, whatever came before.
LEMMA CloseLives ==
  ASSUME Consistent(srv), Consistent(srv'), NEW fd \in Fd, Apart(srv, srv', fd),
         srv'.connections[fd].state = "FREE"
  PROVE  Lives
<1>1. OthersStay(srv, srv', fd)
  BY ApartStays
<1>2. Moves(srv, srv', fd)
  BY DEF Moves
<1>3. QED
  BY <1>1, <1>2, LifeStep DEF Lives

LEMMA HangupLives ==
  ASSUME IInv, Consistent(srv), Consistent(srv'), NEW ref \in Ref,
         DispatchClientError(ref) \/ DispatchClientHangup(ref)
  PROVE  Lives
<1> DEFINE fd   == srv.refs[ref].fd
           conn == [srv.connections[fd] EXCEPT !.halfClosed = TRUE]
           m    == [srv EXCEPT !.connections[fd] = conn]
<1>1. fd \in Fd /\ srv \in Server
  BY QuietOwn DEF IInv, TypeOK, DispatchClientError, DispatchClientHangup, Dispatching, KindOf
<1>2. srv' = CloseClient(srv, fd) \/ srv' = m
  BY DEF DispatchClientError, DispatchClientHangup, HandleHangup
<1>3. srv.connections \in [Fd -> Connection]
  BY <1>1 DEF Server
<1>4. conn \in Connection /\ conn.state = srv.connections[fd].state
  BY <1>1, <1>3 DEF Connection
<1> HIDE DEF fd, conn
<1>5. CASE srv' = CloseClient(srv, fd)
  BY <1>1, <1>5, CloseClientApart, CloseLives
<1>6. CASE srv' = m
  <2>1. /\ SameJobs(srv, m) /\ m.connections[fd] = conn
        /\ \A f \in Fd \ {fd} : m.connections[f] = srv.connections[f]
    BY <1>1, <1>4, ConnectionShape
  <2> HIDE DEF m
  <2>2. \A f \in Fd : srv'.connections[f].state = srv.connections[f].state
    BY <1>4, <1>6, <2>1
  <2>3. QED
    BY <1>6, <2>1, <2>2, LifeStutter DEF SameJobs, Lives
<1>7. QED
  BY <1>2, <1>5, <1>6

LEMMA ReadLives ==
  ASSUME IInv, Consistent(srv), Consistent(srv'), Sound(srv, {}),
         NEW ref \in Ref, DispatchClientRead(ref)
  PROVE  Lives
<1> DEFINE fd == srv.refs[ref].fd
           m  == Touch(srv, fd)
           t  == Respond(m, fd)
<1>1. PICK o \in ReadOutcome : srv' = HandleRead(srv, fd, o)
  BY DEF DispatchClientRead
<1>2. fd \in Fd /\ srv.connections[fd].state = "READING" /\ srv \in Server
  BY ReadableReads DEF DispatchClientRead, Consistent
<1>3. srv' \in {CloseClient(srv, fd), srv, m, t}
  BY <1>1, <1>2 DEF HandleRead, ReadOutcome
<1> HIDE DEF fd
<1>4. /\ m \in Server /\ SameJobs(srv, m)
      /\ \A f \in Fd : m.connections[f].state = srv.connections[f].state
  BY <1>2, TouchSound DEF Sound
<1> HIDE DEF m
<1>5. Settled(m, t, fd)
  BY <1>2, <1>4, RespondShape
<1> HIDE DEF t
<1>6. CASE srv' = CloseClient(srv, fd)
  BY <1>2, <1>6, CloseClientApart, CloseLives
<1>7. CASE srv' = srv \/ srv' = m
  BY <1>4, <1>7, LifeStutter DEF SameJobs, Lives
<1>8. CASE srv' = t
  <2>1. Apart(srv, srv', fd)
    BY <1>4, <1>5, <1>8, SameApart, SettledApart, ApartTwice
  <2>2. OthersStay(srv, srv', fd) /\ (Cgi(srv', fd) => Cgi(srv, fd))
    BY <1>2, <2>1, ApartStays
  <2>3. ~Cgi(srv, fd)
    BY <1>2 DEF Consistent
  <2>4. srv'.connections[fd].state \in {"FREE", "WRITING"}
    BY <1>5, <1>8 DEF Settled, NoConnection
  <2>5. Moves(srv, srv', fd)
    BY <1>2, <2>2, <2>3, <2>4 DEF Moves
  <2>6. QED
    BY <1>2, <2>2, <2>5, LifeStep DEF Lives
<1>9. QED
  BY <1>3, <1>6, <1>7, <1>8

\* A descriptor with a connection is no job's.
LEMMA JobsAreNoConnections ==
  ASSUME IInv, NEW fd \in Fd
  PROVE  \A j \in JobsOf(srv, fd) : ~IsConnection(srv, j)
BY ConstantsDistinct DEF IInv, Tables, OwnersOK, IsJob, JobsOf

LEMMA WriteLives ==
  ASSUME IInv, Consistent(srv), Consistent(srv'), NEW ref \in Ref, DispatchClientWrite(ref)
  PROVE  Lives
<1> DEFINE fd == srv.refs[ref].fd
<1>1. PICK w \in WriteOutcome : srv' = HandleWrite(srv, fd, w)
  BY DEF DispatchClientWrite
<1>2. fd \in Fd /\ srv.connections[fd].state = "WRITING" /\ srv \in Server
  BY QuietOwn DEF IInv, TypeOK, DispatchClientWrite, Dispatching, KindOf, Fits
<1> HIDE DEF fd
<1>3. IsConnection(srv, fd) /\ \A j \in JobsOf(srv, fd) : ~IsConnection(srv, j)
  BY <1>2, JobsAreNoConnections DEF IsConnection
<1>4. /\ Apart(srv, srv', fd)
      /\ \/ srv'.connections[fd].state \in {"FREE", "WRITING"}
         \/ srv'.connections[fd].state = "READING" /\ ~Cgi(srv, fd)
  BY <1>1, <1>2, <1>3, WriteApart DEF Cgi
<1>5. OthersStay(srv, srv', fd) /\ (Cgi(srv', fd) => Cgi(srv, fd))
  BY <1>2, <1>4, ApartStays
<1>6. Moves(srv, srv', fd)
  BY <1>2, <1>4, <1>5 DEF Moves
<1>7. QED
  BY <1>2, <1>5, <1>6, LifeStep DEF Lives

LEMMA StartLives ==
  ASSUME IInv, Consistent(srv), Consistent(srv'), Sound(srv, {}), NEW ref \in Ref,
         NEW j \in Fd, NEW new \in Ref, NEW pid \in Pid \cup {None},
         DispatchClientCgi(ref, j, new, pid) \/ DispatchClientCgiThrows(ref, j, new)
  PROVE  Lives
<1> DEFINE fd == srv.refs[ref].fd
           m  == Touch(srv, fd)
<1>1. Dispatching(ref, "CLIENT") /\ Readable(ref)
  BY DEF DispatchClientCgi, DispatchClientCgiThrows
<1>2. fd \in Fd /\ srv.connections[fd].state = "READING"
  BY <1>1, ReadableReads
<1> HIDE DEF fd
<1>3. /\ m \in Server /\ SameJobs(srv, m)
      /\ \A f \in Fd : m.connections[f].state = srv.connections[f].state
  BY <1>2, TouchSound DEF Sound
<1>4. CASE DispatchClientCgi(ref, j, new, pid)
  <2>1. srv' = ApiStartCgi(m, fd, j, new, pid) /\ j \in FreeFd(srv) /\ pid \in FreePid(srv) \cup {None}
    BY <1>4 DEF DispatchClientCgi, fd
  <2> HIDE DEF m
  <2>2. FreeFd(m) = FreeFd(srv) /\ FreePid(m) = FreePid(srv) /\ \A f \in Fd : JobsOf(m, f) = JobsOf(srv, f)
    BY <1>3 DEF SameJobs, FreeFd, FreePid, IsConnection, IsJob, JobsOf
  <2>3. ~Cgi(srv, fd) /\ JobsOf(m, fd) = {}
    BY <1>2, <2>2 DEF Consistent, Cgi
  <2>4. /\ \A f \in Fd \ {fd} : /\ srv'.connections[f].state = m.connections[f].state
                                /\ JobsOf(srv', f) = JobsOf(m, f)
        /\ \/ srv'.connections[fd].state \in {"FREE", "CGI_RUNNING"}
           \/ srv'.connections[fd].state = "WRITING" /\ JobsOf(srv', fd) = {}
    BY <1>2, <1>3, <2>1, <2>2, <2>3, StartApart
  <2>5. OthersStay(srv, srv', fd)
    BY <1>3, <2>2, <2>4 DEF OthersStay, Cgi
  <2>6. Moves(srv, srv', fd)
    BY <1>2, <2>4 DEF Moves, Cgi
  <2>7. QED
    BY <1>2, <2>5, <2>6, LifeStep DEF Lives
<1>5. CASE DispatchClientCgiThrows(ref, j, new)
  <2>1. srv' = RegisterEventFd(m, j, new, "CGI", {"IN"}, FALSE)
    BY <1>5 DEF DispatchClientCgiThrows, fd
  <2> HIDE DEF m
  <2>2. "CGI" \in EventKind /\ {"IN"} \in SUBSET EventFlag /\ FALSE \in BOOLEAN
    BY DEF EventKind, EventFlag
  <2>3. SameJobs(m, srv') /\ srv'.connections = m.connections
    BY <1>3, <2>1, <2>2, RegisterShape
  <2>4. QED
    BY <1>3, <2>3, LifeStutter DEF SameJobs, Lives
<1>6. QED
  BY <1>4, <1>5

LEMMA AcceptLives ==
  ASSUME Consistent(srv), Consistent(srv'), NEW fd \in Fd, NEW ref \in Ref,
         NEW added \in BOOLEAN, AcceptOne(fd, ref, added)
  PROVE  Lives
<1> DEFINE m == [srv EXCEPT !.connections[fd] = NewConnection]
           s == RegisterEventFd(m, fd, ref, "CLIENT", {"IN", "RDHUP"}, added)
           t == CloseConnection(s, fd)
<1>1. srv \in Server /\ srv.connections[fd].state = "FREE"
  BY DEF Consistent, AcceptOne, FreeFd, IsConnection
<1>2. NewConnection \in Connection /\ NewConnection.state = "READING"
  BY DEF NewConnection, NoConnection, Connection, ConnState
<1>3. srv' \in {s, t}
  BY DEF AcceptOne
<1>4. /\ SameJobs(srv, m) /\ m.connections[fd] = NewConnection
      /\ \A f \in Fd \ {fd} : m.connections[f] = srv.connections[f]
  BY <1>1, <1>2, ConnectionShape
<1> HIDE DEF m
<1>5. SameJobs(m, s) /\ s.connections = m.connections
  <2>1. "CLIENT" \in EventKind /\ {"IN", "RDHUP"} \in SUBSET EventFlag
    BY DEF EventKind, EventFlag
  <2>2. QED
    BY <1>4, <2>1, RegisterShape DEF SameJobs
<1> HIDE DEF s
<1>6. /\ SameJobs(s, t) /\ \A f \in Fd \ {fd} : t.connections[f] = s.connections[f]
      /\ t.connections[fd] \in {s.connections[fd], NoConnection}
  BY <1>5, CloseConnectionShape DEF SameJobs
<1> HIDE DEF t
<1>7. /\ SameJobs(srv, srv') /\ \A f \in Fd \ {fd} : srv'.connections[f] = srv.connections[f]
      /\ srv'.connections[fd] \in {NewConnection, NoConnection}
  BY <1>3, <1>4, <1>5, <1>6 DEF SameJobs
<1>8. Apart(srv, srv', fd)
  BY <1>7, SameApart
<1>9. OthersStay(srv, srv', fd)
  BY <1>8, ApartStays
<1>10. srv'.connections[fd].state \in {"FREE", "READING"}
  <2>1. CASE srv'.connections[fd] = NewConnection
    BY <1>2, <2>1
  <2>2. CASE srv'.connections[fd] = NoConnection
    BY <2>2 DEF NoConnection
  <2>3. QED
    BY <1>7, <2>1, <2>2
<1>11. Moves(srv, srv', fd)
  BY <1>1, <1>10 DEF Moves
<1>12. QED
  BY <1>9, <1>11, LifeStep DEF Lives

LEMMA SweepClientLives ==
  ASSUME IInv, Consistent(srv), Consistent(srv'), NEW fd \in Fd, NEW w \in WriteOutcome,
         SweepClient(fd, w)
  PROVE  Lives
<1> DEFINE conn == [srv.connections[fd] EXCEPT !.pending = TRUE]
           m    == [srv EXCEPT !.connections[fd] = conn]
           t    == HandleWrite(m, fd, w)
<1>1. srv \in Server /\ srv.connections \in [Fd -> Connection] /\ IsConnection(srv, fd)
  BY DEF IInv, TypeOK, Server, SweepClient, IsConnection
<1>2. conn \in Connection /\ conn.state = srv.connections[fd].state
  BY <1>1 DEF Connection
<1>3. srv' = CloseClient(t, fd)
  BY DEF SweepClient
<1> HIDE DEF conn
<1>4. /\ SameJobs(srv, m) /\ m.connections[fd] = conn
      /\ \A f \in Fd \ {fd} : m.connections[f] = srv.connections[f]
  BY <1>1, <1>2, ConnectionShape
<1> HIDE DEF m
<1>5. Apart(srv, m, fd) /\ m \in Server
  BY <1>4, SameApart DEF SameJobs
<1>6. IsConnection(m, fd) /\ \A j \in JobsOf(m, fd) : ~IsConnection(m, j)
  <2>1. \A f \in Fd : m.connections[f].state = srv.connections[f].state
    BY <1>2, <1>4
  <2>2. JobsOf(m, fd) = JobsOf(srv, fd) /\ JobsOf(srv, fd) \subseteq Fd
    BY <1>4 DEF SameJobs, JobsOf
  <2>3. QED
    BY <1>1, <2>1, <2>2, JobsAreNoConnections DEF IsConnection
<1>7. Apart(m, t, fd) /\ t \in Server
  BY <1>5, <1>6, WriteApart DEF Apart
<1> HIDE DEF t
<1>8. Apart(t, srv', fd) /\ srv'.connections[fd].state = "FREE"
  BY <1>3, <1>7, CloseClientApart
<1>9. Apart(srv, srv', fd)
  BY <1>5, <1>7, <1>8, ApartTwice
<1>10. QED
  BY <1>8, <1>9, CloseLives

LEMMA ExitLives ==
  ASSUME srv \in Server, Exit
  PROVE  Lives
<1>1. srv'.connections = [f \in Fd |-> NoConnection] /\ srv'.cgiJobs = [f \in Fd |-> NoJob]
  BY DEF Exit, Destroy, Server
<1>2. \A f \in Fd : srv'.connections[f].state = "FREE" /\ JobsOf(srv', f) = {}
  BY <1>1, ConstantsDistinct DEF JobsOf, NoConnection, NoJob
<1>3. Lifecycle!CloseAll
  BY <1>2 DEF Lifecycle!CloseAll, Lifecycle!LifeInit
<1>4. QED
  BY <1>3 DEF Lifecycle!LifeNext, Lives

\* The rest of the loop, and what happens around it.
LEMMA QuietLives ==
  ASSUME srv \in Server,
         \/ Wait \/ AcceptDone \/ ClientsSwept \/ EndDispatch \/ Environment
         \/ \E ref \in Ref : DispatchIgnored(ref) \/ DispatchServer(ref)
         \/ JobsSwept
  PROVE  Lives
<1>1. srv.connections \in [Fd -> Connection] /\ srv.cgiJobs \in [Fd -> CgiJob]
  BY DEF Server
<1>2. ASSUME srv'.connections = srv.connections, srv'.cgiJobs = srv.cgiJobs
      PROVE  Lives
  BY <1>2, LifeStutter DEF Lives
<1>3. CASE \/ Wait \/ AcceptDone \/ ClientsSwept \/ EndDispatch
           \/ \E ref \in Ref : DispatchIgnored(ref) \/ DispatchServer(ref)
           \/ JobsSwept
  BY <1>2, <1>3 DEF Wait, AcceptDone, ClientsSwept, EndDispatch, DispatchIgnored,
                    DispatchServer, JobsSwept, FreeStaleRefs, ReapPending, Server
<1>4. CASE Stop \/ \E p \in Pid : ChildExits(p) \/ ReapOverdue(p)
  BY <1>2, <1>4 DEF Stop, ChildExits, ReapOverdue, Server
<1>5. ASSUME NEW fd \in Fd, ConnectionIdles(fd)
      PROVE  Lives
  <2> DEFINE c == [srv.connections EXCEPT ![fd].idle = TRUE]
  <2>1. \A f \in Fd : c[f].state = srv.connections[f].state
    BY <1>1 DEF Connection
  <2>2. srv'.connections = c /\ srv'.cgiJobs = srv.cgiJobs
    BY <1>5 DEF ConnectionIdles, Server
  <2> HIDE DEF c
  <2>3. QED
    BY <2>1, <2>2, LifeStutter DEF Lives
<1>6. ASSUME NEW j \in Fd, JobExpires(j)
      PROVE  Lives
  <2> DEFINE g == [srv.cgiJobs EXCEPT ![j].expired = TRUE]
  <2>1. \A i \in Fd : g[i].client = srv.cgiJobs[i].client
    BY <1>1 DEF CgiJob
  <2>2. srv'.cgiJobs = g /\ srv'.connections = srv.connections
    BY <1>6 DEF JobExpires, Server
  <2> HIDE DEF g
  <2>3. QED
    BY <2>1, <2>2, LifeStutter DEF Lives
<1>7. QED
  BY <1>3, <1>4, <1>5, <1>6 DEF Environment

-----------------------------------------------------------------------------
(* The refinement. *)

LEMMA InitLives == Init => Lifecycle!LifeInit
<1>1. SUFFICES ASSUME Init PROVE Lifecycle!LifeInit
  OBVIOUS
<1>2. srv.connections = [f \in Fd |-> NoConnection] /\ srv.cgiJobs = [f \in Fd |-> NoJob]
  BY <1>1 DEF Init
<1>3. \A f \in Fd : srv.connections[f].state = "FREE" /\ JobsOf(srv, f) = {}
  BY <1>2, ConstantsDistinct DEF JobsOf, NoConnection, NoJob
<1>4. QED
  BY <1>3 DEF Lifecycle!LifeInit

LEMMA NextLives == ChildInv /\ ChildInv' /\ [Next]_vars => Lives
<1>1. SUFFICES ASSUME ChildInv, ChildInv', [Next]_vars PROVE Lives
  OBVIOUS
<1>2. IInv /\ Sound(srv, {}) /\ srv \in Server
  BY <1>1 DEF ChildInv, Sound
<1>3. Consistent(srv) /\ Consistent(srv')
  <2>1. Consistent(srv)
    BY <1>2, InvConsistent
  <2>2. (IInv /\ Sound(srv, {}) => Consistent(srv))'
    BY InvConsistent, PTL
  <2>3. QED
    BY <1>1, <2>1, <2>2 DEF ChildInv
<1>4. CASE UNCHANGED vars
  BY <1>4, LifeStutter DEF vars, Lives
<1>5. CASE Loop \/ Environment
  <2>1. ASSUME NEW ref \in Ref,
               \/ DispatchCgi(ref) \/ DispatchClientError(ref) \/ DispatchClientHangup(ref)
               \/ DispatchClientRead(ref) \/ DispatchClientWrite(ref)
        PROVE  Lives
    BY <1>2, <1>3, <2>1, CgiLives, HangupLives, ReadLives, WriteLives
  <2>2. ASSUME NEW ref \in Ref, NEW j \in Fd, NEW new \in Ref,
               \/ \E pid \in Pid \cup {None} : DispatchClientCgi(ref, j, new, pid)
               \/ DispatchClientCgiThrows(ref, j, new)
        PROVE  Lives
    <3>1. \E pid \in Pid \cup {None} : \/ DispatchClientCgi(ref, j, new, pid)
                                       \/ DispatchClientCgiThrows(ref, j, new)
      BY <2>2
    <3>2. QED
      BY <1>2, <1>3, <3>1, StartLives
  <2>3. CASE \E fd \in Fd, ref \in Ref, added \in BOOLEAN : AcceptOne(fd, ref, added)
    BY <1>3, <2>3, AcceptLives
  <2>4. CASE \E fd \in Fd, w \in WriteOutcome : SweepClient(fd, w)
    BY <1>2, <1>3, <2>4, SweepClientLives
  <2>5. CASE \E j \in Fd : SweepJob(j)
    BY <1>2, <1>3, <2>5, SweepJobLives
  <2>6. CASE Exit
    BY <1>2, <2>6, ExitLives
  <2>7. CASE \/ Wait \/ AcceptDone \/ ClientsSwept \/ EndDispatch \/ Environment
             \/ \E ref \in Ref : DispatchIgnored(ref) \/ DispatchServer(ref)
             \/ JobsSwept
    BY <1>2, <2>7, QuietLives
  <2>8. QED
    BY <1>5, <2>1, <2>2, <2>3, <2>4, <2>5, <2>6, <2>7 DEF Loop
<1>6. QED
  BY <1>1, <1>4, <1>5 DEF Next, Exited

\* Whatever the tables, the events and the signals do, each client
\* descriptor lives as ConnectionLifecycle says: no handler of one client
\* moves another, and no response of a CGI runs into the next request.
THEOREM LoopImplementsLifecycle == Spec => LifecycleRefined
<1>1. Init => Lifecycle!LifeInit
  BY InitLives
<1>2. ChildInv /\ ChildInv' /\ [Next]_vars => [Lifecycle!LifeNext]_(Lifecycle!lifeVars)
  BY NextLives DEF Lives
<1>3. QED
  BY <1>1, <1>2, ChildrenAgree, PTL DEF Spec, LifecycleRefined, Lifecycle!LifeSpec
=============================================================================
