--------------------------- MODULE RequestIntake ---------------------------
(***************************************************************************)
(* One connection from the first byte of a request to its answer: the      *)
(* client sends in pieces of any size, _handleRead reads, parses, spools a *)
(* body meant for a CGI script to a temporary file, and dispatches what is *)
(* complete; after the response the connection is used again or closed.    *)
(* The client may send while the handler is between two calls of recv().   *)
(***************************************************************************)
EXTENDS RequestParser

CONSTANTS
  Requests,     \* the requests a client may send: see Wire
  MaxRequests,  \* most of them on one connection
  RecvSize,     \* most items of one recv()
  SocketSize,   \* capacity of the socket
  PageSize,     \* size of a page, in items as its headers and an error page
  PieceSize,    \* most of it that one read() takes
  Pipelines,    \* whether the client may send a request before it is answered
  Faults,       \* calls that may fail: "open", "write", "reopen", "pipe"
  MayLeave      \* whether the client may close, or idle, in the middle

ASSUME Intake ==
  /\ MaxRequests \in Nat \ {0} /\ RecvSize \in Nat \ {0}
  /\ SocketSize \in Nat \ {0} /\ PageSize \in Nat /\ PieceSize \in Nat \ {0}
  /\ Faults \subseteq {"open", "write", "reopen", "pipe"}
  /\ MayLeave \in BOOLEAN /\ Pipelines \in BOOLEAN

VARIABLES
  sent,       \* the requests begun by the client, in order
  early,      \* those of them begun before the last one was answered
  toSend,     \* what is left to send of the last one
  socket,     \* sent, not yet received
  event,      \* epoll has EPOLLIN to report
  conn,       \* the parser's record: see Blank in RequestParser
  file,       \* the spool file: see NoFile
  phase,      \* what the server is doing: see Phases
  responses   \* what was answered: code, body and what was written before it

vars == <<sent, early, toSend, socket, event, conn, file, phase, responses>>

\* WAITING and HANDLING are both the state READING: HANDLING is inside
\* _handleRead.  HUNG: the process is in an endless loop.  DIED: it has ended.
Phases == {"WAITING", "HANDLING", "WRITING", "CLOSED", "HUNG", "DIED"}

\* opened, opened_file (fd) and tmp_body_path (path, which exists on disk
\* with that content) of the request, and body_file_written.
NoFile == [opened |-> FALSE, fd |-> "none", path |-> FALSE, content |-> <<>>, written |-> 0]

-----------------------------------------------------------------------------
(* What the client sends. *)

Crlf == <<CR, LF>>
Datas(n) == [i \in 1 .. n |-> Data(i)]
SumTo(s, n) ==
  LET sum[i \in 0 .. n] == IF i = 0 THEN 0 ELSE sum[i - 1] + s[i]
  IN  sum[n]

\* A request has a method, a target ("page", or "script" for a CGI), the
\* code its first line deserves, header fields, the chunks or the length of
\* its body (never both), and maybe an empty line after it.
Total(r) == SumTo(r.chunks, Len(r.chunks)) + r.length
InChunks(r) == Header("transfer-encoding", 1) \in ToSet(r.headers)
Chunk(r, k) ==
  <<Size(r.chunks[k])>> \o Crlf
    \o SubSeq(Datas(Total(r)), SumTo(r.chunks, k - 1) + 1, SumTo(r.chunks, k)) \o Crlf
Wire(r) ==
  <<Line(r.method, r.target, r.code)>> \o Crlf
    \o FlattenSeq([i \in 1 .. Len(r.headers) |-> <<r.headers[i]>> \o Crlf]) \o Crlf
    \o (IF InChunks(r)
          THEN FlattenSeq([k \in 1 .. Len(r.chunks) |-> Chunk(r, k)])
                 \o <<Size(0)>> \o Crlf \o Crlf
          ELSE Datas(r.length))
    \o (IF r.extra THEN Crlf ELSE <<>>)

\* The requests of a client that says how long a body is, of chunks or of the
\* length in the header, before it sends one.
ASSUME Asked ==
  /\ Requests \subseteq
       [method : STRING, target : STRING \ {""}, code : {200, 400, 404, 414, 501, 505},
        headers : Seq([kind : {"header"}, name : STRING, n : Nat]),
        chunks : Seq(Nat \ {0}), length : Nat, extra : BOOLEAN]
  /\ \A r \in Requests :
       /\ r.chunks # <<>> => InChunks(r)
       /\ r.length > 0 => "content-length" \in Names(r.headers)
       /\ \A i \in 1 .. Len(r.headers) : r.headers[i].name = "content-length"
            => r.headers[i].n = r.length \/ InChunks(r)

-----------------------------------------------------------------------------
(* The parts of _handleRead. *)

\* pathRequiresCgiBodySpool
Spools(c) == c.target = "script"

ExpectsBody(c) == c.length > 0 \/ c.chunked \/ c.method = "POST"

\* Variant: the announced length must be exceeded.
FullySpooledBeyond(c, f) ==
  \/ ~ExpectsBody(c)
  \/ IF Spools(c)
       THEN /\ c.body = <<>> /\ c.state = "COMPLETE"
            /\ f.written > 0 /\ f.written = c.written /\ f.written > c.length
     ELSE IF c.chunked THEN c.state = "COMPLETE"
     ELSE c.written >= c.length

\* isBodyFullySpooled
FullySpooled(c, f) ==
  \/ ~ExpectsBody(c)
  \/ IF Spools(c)
       THEN /\ c.body = <<>> /\ c.state = "COMPLETE"
            /\ f.written > 0 /\ f.written = c.written /\ f.written >= c.length
     ELSE IF c.chunked THEN c.state = "COMPLETE"
     ELSE c.written >= c.length

\* Variant: the file is opened afresh for each piece of the body.
FlushAnew(c, f, fault) ==
  IF c.body = <<>> THEN [c |-> c, f |-> f]
  ELSE [c |-> [c EXCEPT !.body = <<>>],
        f |-> [opened |-> TRUE, fd |-> "write", path |-> TRUE,
               content |-> c.body, written |-> f.written + Len(c.body)]]

\* flushRequestBodyToTmpFile.  After open() has failed the request counts as
\* opened and the write that follows fails as well.
Flush(c, f, fault) ==
  LET opened == IF f.opened THEN f
                ELSE IF fault = "open" THEN [f EXCEPT !.opened = TRUE]
                ELSE [f EXCEPT !.opened = TRUE, !.fd = "write", !.path = TRUE]
  IN  IF c.body = <<>> THEN [c |-> c, f |-> f]
      ELSE IF opened.fd = "none" \/ fault = "write"
        THEN [c |-> Fails(c, 503), f |-> opened]
      ELSE [c |-> [c EXCEPT !.body = <<>>],
            f |-> [opened EXCEPT !.content = @ \o c.body, !.written = @ + Len(c.body)]]

\* finalizeBodyTmpFile: the file is opened again for reading.
Finalize(f, fault) ==
  IF ~f.opened \/ f.fd = "none" \/ f.written = 0 THEN f
  ELSE [f EXCEPT !.fd = IF fault = "reopen" THEN "none" ELSE "read"]

\* Variant: the file is closed and stays.
DroppedClosed(f) == [f EXCEPT !.fd = "none"]

\* closeConnection() removes the file it finds open.
Dropped(f) == IF f.fd = "none" THEN f ELSE NoFile

\* headers["connection"] = "close"
CloseHeader(c) ==
  [c EXCEPT !.headers = SelectSeq(@, LAMBDA h : h.name # "connection")
                          \o <<Header("connection", 1)>>]

\* The faults a call may have.
May(calls) == (Faults \cap calls) \cup {"none"}

\* sendError, handle or a CGI's output into the write buffer, setWriting.
Answer(code, body) ==
  /\ responses' = Append(responses, [code |-> code, body |-> body, after |-> 0])
  /\ phase' = "WRITING"

\* A page as handle() writes it: its headers, then one piece after another.
\* The write buffer has the limit of request bodies, and _handleRead answers
\* what did not fit with a 413 behind what did, if there is room for it.
Page(c) ==
  LET fits == 1 + ((ServerLimit - 1) \div PieceSize) * PieceSize
  IN  IF c.method # "GET" \/ 1 + PageSize <= ServerLimit
        THEN Answer(200, c.body) /\ conn' = c
      ELSE /\ conn' = CloseHeader(c)
           /\ IF fits < ServerLimit
                THEN /\ responses' = Append(responses, [code |-> 413, body |-> <<>>,
                                                        after |-> fits])
                     /\ phase' = "WRITING"
                ELSE phase' = "DIED" /\ UNCHANGED responses

\* _tryDispatchComplete, when it goes through: a CGI gets the file, which
\* _ApiStartCgi closes and removes unless its pipe() fails; anything else is
\* answered from memory.
Dispatch(c, f, fault) ==
  LET final == IF Spools(c) THEN Finalize(f, fault) ELSE f
  IN  IF ~Spools(c) THEN Page(c) /\ file' = NoFile
      ELSE IF f.written > 0 /\ final.fd = "none"
        THEN /\ Answer(500, <<>>) /\ file' = final
             /\ conn' = Fails(c, 500)
      ELSE IF fault = "pipe"
        THEN /\ Answer(500, <<>>) /\ file' = [final EXCEPT !.opened = FALSE, !.fd = "none"]
             /\ conn' = c
      ELSE /\ Answer(200, final.content) /\ file' = [NoFile EXCEPT !.written = f.written]
           /\ conn' = c

\* The end of a round: dispatch, or go on as next.
DispatchOr(c, f, fault, next) ==
  IF c.state = "COMPLETE" /\ FullySpooled(c, f) THEN Dispatch(c, f, fault)
  ELSE /\ conn' = c /\ file' = f /\ phase' = next
       /\ UNCHANGED responses

-----------------------------------------------------------------------------
(* Steps. *)

Init ==
  /\ sent = <<>> /\ early = {} /\ toSend = <<>> /\ socket = <<>> /\ event = FALSE
  /\ conn = Blank /\ file = NoFile
  /\ phase = "WAITING" /\ responses = <<>>

Open == phase \notin {"CLOSED", "HUNG", "DIED"}

\* The client begins its next request when the last one is answered, or
\* earlier; unless the answer is an error: those say Connection: close.
Ask(r) ==
  /\ Open /\ toSend = <<>>
  /\ Len(sent) < MaxRequests
  /\ Pipelines \/ (Len(responses) = Len(sent) /\ phase # "WRITING")
  /\ \A i \in 1 .. Len(responses) : responses[i].code = 200
  /\ sent' = Append(sent, r)
  /\ early' = IF Len(responses) < Len(sent) THEN early \cup {Len(sent) + 1} ELSE early
  /\ toSend' = Wire(r)
  /\ UNCHANGED <<socket, event, conn, file, phase, responses>>

\* Some more of it arrives; each arrival is an edge.
Send(n) ==
  /\ Open
  /\ Len(socket) + n <= SocketSize
  /\ socket' = socket \o SubSeq(toSend, 1, n)
  /\ toSend' = SubSeq(toSend, n + 1, Len(toSend))
  /\ event' = TRUE
  /\ UNCHANGED <<sent, early, conn, file, phase, responses>>

\* EPOLLIN of a connection in READING.
DispatchRead ==
  /\ phase = "WAITING" /\ event
  /\ phase' = "HANDLING"
  /\ event' = FALSE
  /\ UNCHANGED <<sent, early, toSend, socket, conn, file, responses>>

\* recv() with something to read: append (which may exceed the buffer's
\* limit, or find it without storage), parse, spool, dispatch.
Read(fault) ==
  /\ phase = "HANDLING" /\ socket # <<>>
  /\ LET n     == Least(RecvSize, Len(socket))
         full  == [conn EXCEPT !.buffer = @ \o SubSeq(socket, 1, n)]
         fed   == Feed(full)
         flush == IF Spools(fed) /\ fed.state \in {"BODY", "COMPLETE"}
                    THEN Flush(fed, file, fault) ELSE [c |-> fed, f |-> file]
     IN  /\ socket' = SubSeq(socket, n + 1, Len(socket))
         /\ IF Len(full.buffer) > conn.limit
              THEN /\ conn' = CloseHeader(conn)
                   /\ Answer(413, <<>>) /\ file' = file
            ELSE IF conn.erased
              THEN phase' = "HUNG" /\ UNCHANGED <<conn, file, responses>>
            ELSE IF fed.state = "ERROR"
              THEN conn' = fed /\ Answer(fed.code, <<>>) /\ file' = file
            ELSE DispatchOr(flush.c, flush.f, fault, "HANDLING")
  /\ UNCHANGED <<sent, early, toSend, event>>

\* recv() would block: the handler ends, or what it spools completes.
ReadNothing(fault) ==
  /\ phase = "HANDLING" /\ socket = <<>>
  /\ LET flush == IF Spools(conn) THEN Flush(conn, file, fault) ELSE [c |-> conn, f |-> file]
     IN  DispatchOr(flush.c, flush.f, fault, "WAITING")
  /\ UNCHANGED <<sent, early, toSend, socket, event>>

\* The response is written.  A connection that is kept is reset, and re-armed
\* with whatever has arrived meanwhile.
ResponseWritten ==
  /\ phase = "WRITING"
  /\ IF KeepAlive(conn)
       THEN /\ phase' = "WAITING" /\ conn' = Blank /\ file' = NoFile
            /\ event' = (socket # <<>>)
       ELSE /\ phase' = "CLOSED" /\ conn' = conn /\ file' = Dropped(file)
            /\ event' = FALSE
  /\ UNCHANGED <<sent, early, toSend, socket, responses>>

\* The connection ends early: the client closes it, or is idle for too long
\* and gets a 408.
Leave(code) ==
  /\ MayLeave /\ sent # <<>>
  /\ phase = "WAITING" \/ (phase = "WRITING" /\ code = 0)
  /\ phase' = "CLOSED"
  /\ file' = Dropped(file)
  /\ responses' = IF code = 408 THEN Append(responses, [code |-> 408, body |-> <<>>, after |-> 0])
                                ELSE responses
  /\ event' = FALSE
  /\ UNCHANGED <<sent, early, toSend, socket, conn>>

\* Nothing more needs to come.
Rest ==
  /\ ~Open \/ (phase = "WAITING" /\ ~event /\ toSend = <<>>)
  /\ UNCHANGED vars

Next ==
  \/ \E r \in Requests : Ask(r)
  \/ \E n \in 1 .. Len(toSend) : Send(n)
  \/ DispatchRead
  \/ \E fault \in May({"open", "write", "reopen", "pipe"}) : Read(fault)
  \/ \E fault \in May({"open", "write", "reopen", "pipe"}) : ReadNothing(fault)
  \/ ResponseWritten
  \/ \E code \in {0, 408} : Leave(code)
  \/ Rest

Spec == Init /\ [][Next]_vars

-----------------------------------------------------------------------------
(* Properties. *)

Codes == {200, 400, 404, 408, 411, 413, 414, 431, 500, 501, 503, 505}

\* What is wrong with a request as a whole, by the code for it: nothing of
\* where its bytes were cut or in which order they were looked at.
Times(r, name) == Cardinality({i \in 1 .. Len(r.headers) : r.headers[i].name = name})
Reasons(r) ==
  IF r.code # 200 THEN {r.code}
  ELSE {code \in Codes :
    \/ code = 400 /\ (\/ Times(r, "host") # 1
                      \/ \E name \in Singletons : Times(r, name) > 1
                      \/ Times(r, "content-length") + Times(r, "transfer-encoding") > 1)
    \/ code = 431 /\ (\/ Times(r, "long") > 0
                      \/ Cardinality(Names(r.headers)) > MaxHeaders)
    \/ code = 411 /\ r.method = "POST" /\ Total(r) = 0
                  /\ ~InChunks(r)
    \/ code = 413 /\ (Total(r) > LimitOf(r.target) \/ r.length > ServerLimit)}

\* isBodyFullySpooled waits for body_file_written # 0: a chunked body of no
\* bytes for a script is waited for in vain.
NeverSpooled(r) ==
  r.target = "script" /\ InChunks(r) /\ Total(r) = 0

\* What the i-th request may be answered with for nothing that is wrong with
\* it: it was waited for in vain, or, for a script, a call failed.  While a
\* body that cannot be spooled is in the way the next request may overflow the
\* read buffer.
Excuses(i) ==
  LET failed == sent[i].target = "script" /\ Faults # {}
  IN  {code \in {408, 413, 500, 503} :
        \/ code = 408 /\ MayLeave
        \/ code \in {500, 503} /\ failed
        \/ code = 413 /\ i + 1 \in early /\ (failed \/ NeverSpooled(sent[i]))}

\* The i-th answer is to the i-th request, with its whole body, in order, or
\* with an error the request has earned, however the bytes were cut into
\* reads and whatever of the next request came with them.  After an error the
\* client's bytes are no requests any more; and of a request that begins
\* before the last one is answered, Connection::reset drops what was read.
AnswersRight ==
  \A i \in 1 .. Len(responses) :
    (\A j \in 1 .. i - 1 : responses[j].code = 200) /\ i \notin early =>
      LET x == responses[i]
      IN  IF i > Len(sent) THEN x.code = 408
          ELSE IF x.code = 200
            THEN Reasons(sent[i]) = {} /\ x.body = Datas(Total(sent[i]))
          ELSE x.code \in Reasons(sent[i]) \cup Excuses(i)

\* The body of a request that is coming in is once and in order in the file
\* and in memory, within the limit; and it has a length or chunks, so what
\* the source does for a POST without either never runs.
BodyAccounted ==
  conn.state \in {"BODY", "COMPLETE"} /\ phase \in {"WAITING", "HANDLING"} =>
    /\ file.content \o conn.body = Datas(conn.written)
    /\ file.written = Len(file.content)
    /\ conn.written <= conn.max
    /\ conn.state = "BODY" => conn.chunked \/ conn.length > 0

\* Spooling failed, which no one is told: see NoStall.
SpoolFailed == conn.state = "ERROR" /\ conn.code = 503

\* When all of a request is there and the handler has nothing to read, it has
\* been answered.  But a failure to spool is noticed only with the next
\* bytes, and may find the read buffer unusable then; a body of NeverSpooled
\* is waited for in vain; and an early request is lost.
NoStall ==
  /\ phase = "WAITING" /\ ~event /\ toSend = <<>> /\ Len(responses) < Len(sent)
       => SpoolFailed \/ NeverSpooled(Last(sent)) \/ early # {}
  /\ phase = "HUNG" => SpoolFailed

\* A spool file belongs to the request that is being read or answered; it is
\* left behind only when opening it again, or the pipe, failed.
SpoolRemoved ==
  file.path =>
    \/ Open /\ conn.state \in {"BODY", "COMPLETE", "ERROR"}
    \/ phase = "HUNG"
    \/ responses # <<>> /\ Last(responses).code = 500

\* README: sendError "always forces Connection: close": an error is the last
\* response of its connection.
ErrorIsLast == \A i \in 1 .. Len(responses) - 1 : responses[i].code = 200

\* README: client_max_body_size is the "Maximum allowed request body size", and
\* a static file is read "into the write Buffer" up to ALLOWEDSIZE: an answer is
\* the page or an error, whatever the size of the page.
PageOrError ==
  /\ phase # "DIED"
  /\ \A i \in 1 .. Len(responses) : responses[i].after = 0
=============================================================================
