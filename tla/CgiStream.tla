----------------------------- MODULE CgiStream -----------------------------
(***************************************************************************)
(* One CGI response on its way: script, pipe, job, write buffer, socket,   *)
(* client.  EventLoop says who owns what; this module says which bytes go  *)
(* where, and when epoll's edge-triggered events let them move.            *)
(*                                                                         *)
(* Everything that is stored or sent is a sequence of items of one unit    *)
(* each.  The script writes "part" (of its header block), "gap" (the empty *)
(* line that ends it) and numbered "data".  The server sends a "head", for *)
(* each chunk a "size", its data and an "end", the "last" chunk, or an     *)
(* "error" (a complete response of its own).                               *)
(***************************************************************************)
EXTENDS Naturals, Sequences, SequencesExt

CONSTANTS
  MaxParts,     \* most items of the header block the script writes
  MaxData,      \* most data items it writes
  PipeSize,     \* capacity of the pipe
  ReadSize,     \* most that one read of the pipe takes
  SocketSize,   \* capacity of the socket
  HeaderLimit,  \* FHLS: longest header block that is waited for
  HighWater,    \* CGI_STREAM_HWM
  LowWater,     \* CGI_STREAM_LWM
  ReadLimit,    \* LimitInternalRecursion: most reads of one job
  Limit,        \* client_max_body_size, which also bounds the write buffer
  Timeouts      \* which of the two time limits may pass: "job", "idle"

ASSUME Sizes ==
  /\ {MaxParts, MaxData, HeaderLimit, HighWater, LowWater, ReadLimit, Limit} \subseteq Nat
  /\ {PipeSize, ReadSize, SocketSize} \subseteq Nat \ {0}
  /\ LowWater \in 1 .. HighWater
  /\ Timeouts \subseteq {"job", "idle"}

VARIABLES
  request,    \* what the client asked for: see Request
  script,     \* what the script has done: parts, gap, data, exited
  pipe,       \* written by the script, not yet read
  cgiEvent,   \* epoll has an event for the pipe to report
  relay,      \* the job and the write buffer of its client: see Relay
  outEvent,   \* epoll has EPOLLOUT for the client to report
  socket,     \* sent, not yet received
  received    \* what the client has got

vars == <<request, script, pipe, cgiEvent, relay, outEvent, socket, received>>

-----------------------------------------------------------------------------
Item == [kind : {"part", "gap", "data", "head", "size", "end", "last", "error"}, n : Nat]
Mark(kind) == [kind |-> kind, n |-> 0]
DataItem(i) == [kind |-> "data", n |-> i]

Request == [head : BOOLEAN, keepAlive : BOOLEAN]
Script == [parts : 0 .. MaxParts, gap : BOOLEAN, data : 0 .. MaxData, exited : BOOLEAN]

\* client: the connection's state; READING is kept alive, CRASHED says that
\* an exception has left run().  job: "runs", or how it ended.  close: the
\* server means to close after the response.  thrown: a BodyLimitException
\* is on its way up.
Relay == [client : {"CGI_RUNNING", "WRITING", "READING", "CLOSED", "CRASHED"},
          job : {"runs", "finished", "failed"},
          headersSent : BOOLEAN,
          reads : 0 .. ReadLimit + 1,  \* parent_request
          header : Seq(Item),   \* result_buffer
          out : Seq(Item),      \* the write buffer
          close : BOOLEAN,
          thrown : BOOLEAN]

\* What is behind the empty line, which findHeaderEnd has found.
AfterGap(items) ==
  LET gap == CHOOSE i \in DOMAIN items : items[i] = Mark("gap")
  IN  SubSeq(items, gap + 1, Len(items))
Least(a, b) == IF a < b THEN a ELSE b

-----------------------------------------------------------------------------
(* The server's operations on the relay. *)

\* Variant: the limit is compared with the old size only.
AppendPastLimit(r, items) ==
  IF r.thrown THEN r
  ELSE IF Len(r.out) > Limit THEN [r EXCEPT !.thrown = TRUE]
  ELSE [r EXCEPT !.out = @ \o items]

\* Buffer::append to the write buffer; after an exception nothing more runs.
Append2Out(r, items) ==
  IF r.thrown THEN r
  ELSE IF Len(r.out) + Len(items) > Limit THEN [r EXCEPT !.thrown = TRUE]
  ELSE [r EXCEPT !.out = @ \o items]

\* Variant: the end of the chunk is only written when there is more to come.
WriteChunkUnended(r, items) ==
  IF items = <<>> THEN r
  ELSE Append2Out(Append2Out(r, <<[kind |-> "size", n |-> Len(items)]>>), items)

\* writeChunk: three appends, any of which may fail.
WriteChunk(r, items) ==
  IF items = <<>> THEN r
  ELSE Append2Out(Append2Out(Append2Out(r, <<[kind |-> "size", n |-> Len(items)]>>),
                             items),
                  <<Mark("end")>>)

\* Variant: the client is not told that the stream was cut short.
FailJobSilently(r) == [r EXCEPT !.client = "WRITING", !.job = "failed"]

\* _failCgiJob: an error response, or after the headers the last chunk.
FailJob(r) ==
  LET said == Append2Out(r, <<Mark(IF r.headersSent THEN "last" ELSE "error")>>)
  IN  IF said.thrown THEN said
      ELSE [said EXCEPT !.client = "WRITING", !.job = "failed",
                        !.close = @ \/ r.headersSent]

\* _finishCgiJob: the script's output has ended.
FinishJob(r) ==
  IF ~r.headersSent THEN FailJob(r)
  ELSE LET said == IF request.head THEN r ELSE Append2Out(r, <<Mark("last")>>)
       IN  IF said.thrown THEN said
           ELSE [said EXCEPT !.client = "WRITING", !.job = "finished"]

\* Variant: what was read together with the end of the headers is dropped.
DeliverHeadOnly(r, items) ==
  LET more   == [r EXCEPT !.reads = @ + 1]
      header == more.header \o items
  IN  IF more.headersSent THEN [WriteChunk(more, items) EXCEPT !.client = "WRITING"]
      ELSE IF ~Contains(header, Mark("gap")) THEN [more EXCEPT !.header = header]
      ELSE [Append2Out(more, <<Mark("head")>>)
              EXCEPT !.headersSent = TRUE, !.header = <<>>, !.client = "WRITING"]

\* What was read is collected until the header block is complete, and sent
\* as one chunk from then on.
Deliver(r, items) ==
  LET more   == [r EXCEPT !.reads = @ + 1]
      header == more.header \o items
  IN  IF more.headersSent THEN [WriteChunk(more, items) EXCEPT !.client = "WRITING"]
      ELSE IF ~Contains(header, Mark("gap"))
        THEN IF Len(header) > HeaderLimit THEN FailJob([more EXCEPT !.header = header])
                                          ELSE [more EXCEPT !.header = header]
      ELSE LET head == Append2Out(more, <<Mark("head")>>)
           IN  IF head.thrown THEN head
               ELSE [WriteChunk([head EXCEPT !.headersSent = TRUE], AfterGap(header))
                       EXCEPT !.header = <<>>, !.client = "WRITING"]

\* catch (const BodyLimitException&): the job fails, which may throw again.
Caught(r) == IF r.thrown THEN FailJob([r EXCEPT !.thrown = FALSE]) ELSE r

\* Variant: the high-water mark is not looked at.
ReadsWhateverIsQueued(r) == r.job = "runs" /\ r.reads <= ReadLimit

\* _handleCgiEvent goes on to read the pipe.
ReadsPipe(r) ==
  /\ r.job = "runs"
  /\ r.reads <= ReadLimit
  /\ ~(r.headersSent /\ Len(r.out) >= HighWater)

\* One read, whatever the pipe holds.
HandleCgiEvent(r) ==
  IF ReadsPipe(r)
    THEN IF pipe # <<>>
           THEN Caught(Deliver(r, SubSeq(pipe, 1, Least(ReadSize, Len(pipe)))))
         ELSE IF script.exited THEN Caught(FinishJob([r EXCEPT !.reads = 0]))
         ELSE r
  ELSE IF r.job = "runs" /\ r.reads > ReadLimit THEN FailJob(r)
  ELSE r

PipeAfter(r) == IF ReadsPipe(r) THEN SubSeq(pipe, ReadSize + 1, Len(pipe)) ELSE pipe

\* What the kernel takes of the write buffer.
Taken(r) == SubSeq(r.out, 1, Least(Len(r.out), SocketSize - Len(socket)))
Flushed(r) == [r EXCEPT !.out = SubSeq(@, Len(Taken(r)) + 1, Len(@))]

\* Variant: the low-water mark is compared the wrong way round.
PumpsAboveLow(r) == r.job = "runs" /\ Len(r.out) > LowWater

\* _handleWrite pumps the CGI of its client.
Pumps(r) == r.job = "runs" /\ Len(r.out) < LowWater

HandleWrite(r) ==
  LET flushed == Flushed(r)
  IN  IF Pumps(flushed) THEN HandleCgiEvent(flushed)
      ELSE IF flushed.job = "runs" \/ flushed.out # <<>> THEN flushed
      ELSE [flushed EXCEPT !.client =
              IF request.keepAlive /\ ~flushed.close THEN "READING" ELSE "CLOSED"]

-----------------------------------------------------------------------------
(* Steps. *)

Init ==
  /\ request \in Request
  /\ script = [parts |-> 0, gap |-> FALSE, data |-> 0, exited |-> FALSE]
  /\ pipe = <<>> /\ cgiEvent = FALSE
  /\ relay = [client |-> "CGI_RUNNING", job |-> "runs", headersSent |-> FALSE, reads |-> 0,
              header |-> <<>>, out |-> <<>>, close |-> FALSE, thrown |-> FALSE]
  /\ outEvent = FALSE
  /\ socket = <<>> /\ received = <<>>

Serving == relay.client \in {"CGI_RUNNING", "WRITING"}

\* The script writes into the pipe, or ends; either makes an event.
Write(item) ==
  /\ ~script.exited /\ relay.job = "runs" /\ Serving
  /\ Len(pipe) < PipeSize
  /\ pipe' = Append(pipe, item)
  /\ cgiEvent' = TRUE
  /\ UNCHANGED <<request, relay, outEvent, socket, received>>

WritePart ==
  /\ ~script.gap /\ script.parts < MaxParts
  /\ Write(Mark("part"))
  /\ script' = [script EXCEPT !.parts = @ + 1]

WriteGap ==
  /\ ~script.gap
  /\ Write(Mark("gap"))
  /\ script' = [script EXCEPT !.gap = TRUE]

WriteData ==
  /\ script.gap /\ script.data < MaxData
  /\ Write(DataItem(script.data + 1))
  /\ script' = [script EXCEPT !.data = @ + 1]

ScriptExits ==
  /\ ~script.exited /\ relay.job = "runs" /\ Serving
  /\ script' = [script EXCEPT !.exited = TRUE]
  /\ cgiEvent' = TRUE
  /\ UNCHANGED <<request, pipe, relay, outEvent, socket, received>>

\* The relay after a handler; an exception nobody caught ends run().
Becomes(r) ==
  relay' = IF r.thrown THEN [r EXCEPT !.client = "CRASHED", !.thrown = FALSE] ELSE r

\* EPOLL_CTL_MOD reports EPOLLOUT again if the socket has room.
Rearmed == relay'.client = "WRITING" /\ Len(socket') < SocketSize

DispatchCgi ==
  /\ Serving /\ cgiEvent
  /\ Becomes(HandleCgiEvent(relay))
  /\ pipe' = PipeAfter(relay)
  /\ cgiEvent' = FALSE
  /\ socket' = socket
  /\ outEvent' = IF relay' = relay THEN outEvent ELSE Rearmed
  /\ UNCHANGED <<request, script, received>>

\* EPOLLOUT.  The pump re-arms the pipe before it reads.
DispatchOut ==
  /\ Serving /\ outEvent
  /\ Becomes(HandleWrite(relay))
  /\ socket' = socket \o Taken(relay)
  /\ IF Pumps(Flushed(relay))
       THEN /\ pipe' = PipeAfter(Flushed(relay))
            /\ cgiEvent' = (relay'.job = "runs" /\ (cgiEvent \/ pipe # <<>> \/ script.exited))
       ELSE UNCHANGED <<pipe, cgiEvent>>
  /\ outEvent' = Rearmed
  /\ UNCHANGED <<request, script, received>>

\* _closeTimedOutCgiJobs.
JobTimeout ==
  /\ "job" \in Timeouts
  /\ Serving /\ relay.job = "runs"
  /\ Becomes(FailJob(relay))
  /\ cgiEvent' = FALSE
  /\ socket' = socket
  /\ outEvent' = Rearmed
  /\ UNCHANGED <<request, script, pipe, received>>

\* _closeTimedOutClients: an error, one attempt to write, the end.
IdleTimeout ==
  /\ "idle" \in Timeouts
  /\ relay.client = "WRITING"
  /\ LET said == Append2Out(relay, <<Mark("error")>>)
         done == HandleWrite(said)
     IN  /\ Becomes(IF said.thrown THEN said
                    ELSE IF done.thrown THEN done
                    ELSE [done EXCEPT !.client = "CLOSED", !.out = <<>>,
                                      !.job = IF @ = "runs" THEN "failed" ELSE @])
         /\ socket' = IF said.thrown THEN socket ELSE socket \o Taken(said)
  /\ cgiEvent' = FALSE /\ outEvent' = FALSE
  /\ UNCHANGED <<request, script, pipe, received>>

\* The client takes something out of the socket, which makes room.
ClientReads ==
  /\ socket # <<>>
  /\ received' = Append(received, Head(socket))
  /\ socket' = Tail(socket)
  /\ outEvent' = (outEvent \/ relay.client = "WRITING")
  /\ UNCHANGED <<request, script, pipe, cgiEvent, relay>>

\* The response is over.
Over == ~Serving /\ socket = <<>> /\ UNCHANGED vars

Next ==
  \/ WritePart \/ WriteGap \/ WriteData \/ ScriptExits
  \/ DispatchCgi \/ DispatchOut
  \/ JobTimeout \/ IdleTimeout
  \/ ClientReads \/ Over

Spec == Init /\ [][Next]_vars

\* The loop handles what epoll reports, and the client goes on reading.
FairSpec == Spec /\ WF_vars(DispatchCgi) /\ WF_vars(DispatchOut) /\ WF_vars(ClientReads)

-----------------------------------------------------------------------------
(* Properties. *)

TypeOK ==
  /\ request \in Request
  /\ script \in Script
  /\ pipe \in Seq(Item) /\ Len(pipe) <= PipeSize
  /\ cgiEvent \in BOOLEAN /\ outEvent \in BOOLEAN
  /\ relay \in Relay
  /\ socket \in Seq(Item) /\ Len(socket) <= SocketSize
  /\ received \in Seq(Item)

\* All that was ever meant for the client, in its order.
Stream == received \o socket \o relay.out

\* The parser of a client that reads chunked responses: where it stands
\* after an item, left being the data still missing from the chunk.
Expect == [at : {"start", "body", "data", "done", "bad"}, left : Nat]
Accept(item, e) ==
  CASE e.at = "start" /\ item.kind = "head"  -> [at |-> "body", left |-> 0]
    [] e.at = "start" /\ item.kind = "error" -> [at |-> "done", left |-> 0]
    [] e.at = "body" /\ item.kind = "size"   -> [at |-> "data", left |-> item.n]
    [] e.at = "data" /\ item.kind = "data" /\ e.left > 0 -> [e EXCEPT !.left = @ - 1]
    [] e.at = "data" /\ item.kind = "end" /\ e.left = 0  -> [at |-> "body", left |-> 0]
    [] e.at = "body" /\ item.kind = "last"   -> [at |-> "done", left |-> 0]
    [] OTHER -> [at |-> "bad", left |-> 0]
Parsed(items) ==
  LET after[i \in 0 .. Len(items)] ==
        IF i = 0 THEN [at |-> "start", left |-> 0] ELSE Accept(items[i], after[i - 1])
  IN  after[Len(items)]

\* What the client of an open connection gets is one well-formed response, as
\* far as it goes: no handler writes into a chunk or after the end.  (The
\* idle timeout does, with its error page, in the step that closes.)
Framed == relay.client # "CLOSED" => Parsed(Stream).at # "bad"

\* The data in items is that from first to last, once each and in order.
Carries(items, first, last) ==
  LET at == {i \in DOMAIN items : items[i].kind = "data"}
  IN  /\ {items[i].n : i \in at} = first .. last
      /\ \A i, j \in at : i < j => items[i].n < items[j].n

\* While the job runs, every item the script wrote is in one place and in
\* order: with the client, in a buffer, or in the pipe.
NothingLost ==
  relay.job = "runs" /\ relay.client # "CRASHED" =>
    Carries(Stream \o relay.header \o pipe, 1, script.data)

\* A response that ends as if complete is: a kept connection starts the next
\* request only after the whole response has been handed to the kernel.
KeptAfterWhole ==
  relay.client = "READING" =>
    /\ relay.out = <<>>
    /\ relay.job = "finished" =>
         /\ Carries(Stream, 1, script.data)
         /\ ~request.head => Parsed(Stream).at = "done"
    /\ relay.job = "failed" => Parsed(Stream).at = "done" /\ ~relay.headersSent

\* Backpressure: the high-water mark, one chunk and the end are the most
\* that is ever buffered, however slow the client is; so with a Limit above
\* that no append throws.  (With a smaller one the handler of the exception
\* appends to the full buffer again, and the server ends.)
OutBounded == Len(relay.out) <= HighWater + ReadSize + 2

\* Once the headers are out, the end of the script ends the response without
\* the job's time limit, though the pipe is read once per event only: the
\* pump of _handleWrite makes up for it.
StreamEnds ==
  (relay.job = "runs" /\ relay.headersSent /\ script.exited) ~> relay.job # "runs"

\* README: "getTimedOutFds() skips connections mid-CGI (a slow CGI must not
\* be killed by the client idle timeout)".
SlowCgiSurvives == [][relay.job = "runs" => relay'.client # "CLOSED"]_vars
=============================================================================
