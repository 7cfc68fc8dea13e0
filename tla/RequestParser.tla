--------------------------- MODULE RequestParser ---------------------------
(***************************************************************************)
(* HttpParser::feed: the resumable parser of one connection, as operators  *)
(* on a record.  RequestIntake drives it with whatever recv() returned.    *)
(*                                                                         *)
(* Input is a sequence of items.  CR and LF are items of their own, since  *)
(* a read may end between them; so is each unit of body data.  What else a *)
(* line holds is one item: the parser never takes part of a line.          *)
(***************************************************************************)
EXTENDS Naturals, Sequences, SequencesExt, FiniteSets

CONSTANTS
  ServerLimit,    \* client_max_body_size of the server
  LocationLimit,  \* client_max_body_size of the script's location, or 0
  MaxHeaders      \* most header fields of a request

ASSUME Limits == ServerLimit \in Nat \ {0} /\ LocationLimit \in Nat /\ MaxHeaders \in Nat

CR == [kind |-> "CR"]
LF == [kind |-> "LF"]
Data(i) == [kind |-> "data", n |-> i]
Size(k) == [kind |-> "size", n |-> k]
\* code: 200, or the error the line itself is answered with.
Line(method, target, code) ==
  [kind |-> "line", method |-> method, target |-> target, code |-> code]
\* n is the number of a content-length; 1 stands for transfer-encoding:
\* chunked and for connection: close, 0 for any other value of these.
Header(name, n) == [kind |-> "header", name |-> name, n |-> n]

Singletons == {"host", "content-length", "transfer-encoding"}

\* What feed() reads and writes of a Connection.
Blank == [
  buffer |-> <<>>, limit |-> ServerLimit, erased |-> FALSE,   \* the read buffer
  state |-> "IDLE", code |-> 0, method |-> "", target |-> "",
  headers |-> <<>>, length |-> 0, chunked |-> FALSE,
  size |-> 0, trailing |-> FALSE, done |-> FALSE,             \* _chunk_...
  max |-> 0, written |-> 0, body |-> <<>>]

Fails(c, code) == [c EXCEPT !.state = "ERROR", !.code = code]
Consume(c, n) == [c EXCEPT !.buffer = SubSeq(@, n + 1, Len(@))]

\* find_crlf: the position of the first CR LF, or 0.
CrlfIn(b) ==
  LET at == {i \in 1 .. Len(b) - 1 : b[i] = CR /\ b[i + 1] = LF}
  IN  IF at = {} THEN 0 ELSE CHOOSE i \in at : \A j \in at : i <= j

Names(headers) == {headers[i].name : i \in 1 .. Len(headers)}
ValueOf(headers, name) ==
  IF name \in Names(headers)
    THEN (CHOOSE h \in ToSet(headers) : h.name = name).n
    ELSE 0

-----------------------------------------------------------------------------
(* Request line. *)

\* The line is there: method, URI and path are looked at.
LineDone(c, line, n) ==
  CASE line.code \in {414, 501} -> Fails(c, line.code)
    [] line.code = 404 ->
         Fails(Consume([c EXCEPT !.method = line.method, !.target = line.target], n), 404)
    [] OTHER -> Consume([c EXCEPT !.method = line.method, !.target = line.target,
                                  !.state = "HEADERS"], n)

\* _parseRequestLine scans from the start of the buffer each time.  Empty
\* lines before it are skipped; a character out of place is an error at
\* once, whether the line is complete or not.
ParseRequestLine(c) ==
  LET eol  == {i \in 0 .. Len(c.buffer) : \A j \in 1 .. i : c.buffer[j] \in {CR, LF}}
      skip == CHOOSE i \in eol : \A j \in eol : j <= i
      rest == SubSeq(c.buffer, skip + 1, Len(c.buffer))
      line == Head(rest)
  IN  IF rest = <<>> THEN c
      ELSE IF line.kind # "line" THEN Fails(c, 400)
      ELSE IF line.code \in {400, 505} THEN Fails(c, line.code)
      ELSE IF Len(rest) = 1 \/ (Len(rest) = 2 /\ rest[2] = CR) THEN c
      ELSE IF rest[2] = LF THEN LineDone(c, line, skip + 2)
      ELSE IF rest[2] = CR /\ rest[3] = LF THEN LineDone(c, line, skip + 3)
      ELSE Fails(c, 400)

\* HttpRequest::keepAlive.  The version is known when the whole line is.
KeepAlive(c) == c.target # "" /\ ValueOf(c.headers, "connection") # 1

\* _applyLocationBodyLimit, once a path is known.
LimitOf(target) ==
  IF target = "script" /\ LocationLimit > 0 THEN LocationLimit ELSE ServerLimit
ApplyLimit(c) ==
  IF c.target = "" THEN c
  ELSE [c EXCEPT !.max = LimitOf(c.target), !.limit = LimitOf(c.target)]

-----------------------------------------------------------------------------
(* Header fields. *)

\* The empty line: the fields are checked together and decide the framing.
HeadersEnd(c) ==
  LET length  == ValueOf(c.headers, "content-length")
      chunked == ValueOf(c.headers, "transfer-encoding") = 1
  IN  IF "host" \notin Names(c.headers) THEN Fails(c, 400)
      ELSE IF {"content-length", "transfer-encoding"} \subseteq Names(c.headers)
        THEN Fails(c, 400)
      ELSE IF length > ServerLimit THEN Fails(c, 413)
      ELSE IF ~chunked /\ length = 0
        THEN IF c.method = "POST" THEN Fails(c, 411) ELSE [c EXCEPT !.state = "COMPLETE"]
      ELSE [c EXCEPT !.chunked = chunked, !.length = length, !.state = "BODY"]

\* A further field; the map has one entry per name, and a repeated value is
\* joined to the first, which makes it another one.
AddHeader(c, h) ==
  LET headers == IF h.name \notin Names(c.headers) THEN Append(c.headers, h)
                 ELSE [i \in 1 .. Len(c.headers) |->
                         IF c.headers[i].name = h.name THEN Header(h.name, 0)
                                                       ELSE c.headers[i]]
  IN  IF h.name = "long" THEN Fails(c, 431)
      ELSE IF h.name \in Singletons /\ h.name \in Names(c.headers) THEN Fails(c, 400)
      ELSE IF Len(headers) > MaxHeaders THEN Fails([c EXCEPT !.headers = headers], 431)
      ELSE [c EXCEPT !.headers = headers]

\* One round of the loop in _parseHeaders: a whole line or nothing.
HeaderStep(c) ==
  LET n == CrlfIn(c.buffer)
  IN  IF c.state # "HEADERS" \/ n = 0 THEN c
      ELSE IF n = 1 THEN HeadersEnd(Consume(c, 2))
      ELSE IF n # 2 \/ c.buffer[1].kind # "header" THEN Fails(Consume(c, n + 1), 400)
      ELSE AddHeader(Consume(c, n + 1), c.buffer[1])

-----------------------------------------------------------------------------
(* Body. *)

\* Data moves from the read buffer to the body, within max_body_size.
Take(c, n) ==
  IF c.written + n > c.max THEN Fails(c, 413)
  ELSE Consume([c EXCEPT !.body = @ \o SubSeq(c.buffer, 1, n), !.written = @ + n], n)

Least(a, b) == IF a < b THEN a ELSE b

\* _parseBody of a request with a length; the read buffer is thrown away at
\* the end of it.
ParseBody(c) ==
  LET taken == Take(c, Least(c.length - c.written, Len(c.buffer)))
  IN  IF c.buffer = <<>> \/ taken.state = "ERROR" THEN taken
      ELSE IF taken.written = taken.length
        THEN [taken EXCEPT !.buffer = <<>>, !.erased = TRUE, !.state = "COMPLETE"]
      ELSE taken

\* The CR LF after the data of a chunk, or after the last chunk; what the
\* two bytes are is not looked at.
ChunkTrailing(c) ==
  IF Len(c.buffer) < 2 THEN c
  ELSE [Consume(c, 2) EXCEPT !.trailing = FALSE, !.size = 0,
                             !.state = IF c.done THEN "COMPLETE" ELSE @]

\* The line with the size of a chunk.
ChunkSize(c) ==
  LET n == CrlfIn(c.buffer)
  IN  IF n = 0 THEN c
      ELSE IF n # 2 \/ c.buffer[1].kind # "size" THEN Fails(Consume(c, n + 1), 400)
      ELSE IF c.buffer[1].n = 0
        THEN [Consume(c, n + 1) EXCEPT !.done = TRUE, !.trailing = TRUE]
      ELSE [Consume(c, n + 1) EXCEPT !.size = c.buffer[1].n]

\* Variant: a chunk is complete with the read that brought its first data.
ChunkDataAtOnce(c) ==
  LET n     == Least(c.size, Len(c.buffer))
      taken == Take(c, n)
  IN  IF c.buffer = <<>> \/ taken.state = "ERROR" THEN taken
      ELSE [taken EXCEPT !.size = 0, !.trailing = TRUE]

\* The data of a chunk.
ChunkData(c) ==
  LET n     == Least(c.size, Len(c.buffer))
      taken == Take(c, n)
  IN  IF c.buffer = <<>> \/ taken.state = "ERROR" THEN taken
      ELSE [taken EXCEPT !.size = @ - n, !.trailing = (@ \/ c.size = n)]

\* One part of a round of the loop in _parseChunked.
ChunkStep(c) ==
  IF c.state # "BODY" THEN c
  ELSE IF c.trailing THEN ChunkTrailing(c)
  ELSE IF c.size = 0 THEN ChunkSize(c)
  ELSE ChunkData(c)

-----------------------------------------------------------------------------
\* A loop that ends when a round changes nothing, which it does after at
\* most as many rounds as there are items to consume.
Repeat(round(_), c) ==
  LET after[i \in 0 .. Len(c.buffer)] == IF i = 0 THEN c ELSE round(after[i - 1])
  IN  after[Len(c.buffer)]

\* feed().
Feed(c) ==
  IF c.state \in {"COMPLETE", "ERROR"} THEN c
  ELSE LET asked  == IF c.state \in {"IDLE", "REQUEST_LINE"}
                       THEN ParseRequestLine([c EXCEPT !.state = "REQUEST_LINE"])
                       ELSE c
           headed == ApplyLimit(Repeat(HeaderStep, ApplyLimit(asked)))
       IN  IF headed.state # "BODY" THEN headed
           ELSE IF headed.chunked THEN Repeat(ChunkStep, headed)
           ELSE ParseBody(headed)
=============================================================================
