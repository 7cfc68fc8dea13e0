------------------------ MODULE RequestIntakeStream ------------------------
(***************************************************************************)
(* The second part of the proofs about RequestIntake.                      *)
(*                                                                         *)
(* The stream: behind the last request that had its turn the client's      *)
(* requests lie in order, whole or from where the parser stands in the     *)
(* current one; what it has taken of a body is in the file and then in     *)
(* memory; and it waits only where it can do nothing with what it has.     *)
(*                                                                         *)
(* From it: the bytes of a body are accounted for, and no request that has *)
(* arrived whole is left without its answer.                               *)
(*                                                                         *)
(* The answers, on top of it: what a request is answered with is right,    *)
(* since every error of the parser and of the handlers has its cause in    *)
(* the request the stream says it is at.                                   *)
(***************************************************************************)
EXTENDS RequestIntakeProofs

-----------------------------------------------------------------------------
(* Where in what was sent the parser is. *)

\* Three pieces in a row, however they are joined: Together under a name.
Groups(s, t, u) == s \o (t \o u) = (s \o t) \o u
LEMMA Grouped ==
  ASSUME NEW s \in Seq(Item), NEW t \in Seq(Item), NEW u \in Seq(Item)
  PROVE  Groups(s, t, u)
BY Together DEF Groups

\* What is behind the first k chunks of r, with t behind the request.
Onwards(r, k, t) == FlattenSeq(From(Chunks(r), k + 1)) \o (LastChunk \o (End(r) \o t))

\* h holds the first j of the fields hs, one entry for each name.
Merged(h, hs, j) ==
  /\ \A a, b \in 1 .. Len(h) : h[a].name = h[b].name => a = b
  /\ Names(h) = {hs[i].name : i \in 1 .. j}
  /\ \A a \in 1 .. Len(h) : h[a].name \in Singletons => \E i \in 1 .. j : hs[i] = h[a]
  /\ \A a, b \in 1 .. j : hs[a].name = hs[b].name /\ hs[a].name \in Singletons => a = b
  /\ \A i \in 1 .. j : hs[i].name # "long"
  /\ Len(h) <= MaxHeaders

\* c is about r, whose line has been read.
Of(c, r) ==
  /\ c.method = r.method /\ c.target = r.target /\ r.code = 200
  /\ c.max = LimitOf(r.target) /\ c.limit = LimitOf(r.target)
  /\ c.erased => c.state = "COMPLETE" /\ ~c.chunked

\* The header fields have been found good but for the length of the body.
Accepted(c, r) ==
  /\ Reasons(r) \subseteq {413} /\ r.length <= ServerLimit
  /\ c.length = r.length /\ c.chunked = InChunks(r) /\ (c.chunked => r.length = 0)

\* x is what has not been parsed of r, and t behind it.
AtFields(c, x, r, t) ==
  /\ c.state = "HEADERS"
  /\ \E j \in 0 .. Len(r.headers) :
       /\ x = FlattenSeq(From(Fields(r), j + 1)) \o (Crlf \o (Body(r) \o (End(r) \o t)))
       /\ Merged(c.headers, r.headers, j)
AtLength(c, x, r, t) ==
  /\ c.state = "BODY" /\ ~c.chunked
  /\ c.written < r.length /\ x = Span(c.written, r.length) \o (End(r) \o t)
AtSize(c, x, r, t) ==
  /\ ~c.trailing /\ ~c.done /\ c.size = 0
  /\ \E k \in 0 .. Len(r.chunks) : c.written = SumTo(r.chunks, k) /\ x = Onwards(r, k, t)
AtData(c, x, r, t) ==
  /\ ~c.trailing /\ ~c.done /\ c.size > 0
  /\ \E k \in 1 .. Len(r.chunks) :
       /\ c.written + c.size = SumTo(r.chunks, k)
       /\ x = Span(c.written, SumTo(r.chunks, k)) \o (Crlf \o Onwards(r, k, t))
AtTrailing(c, x, r, t) ==
  /\ c.trailing /\ ~c.done /\ c.size = 0
  /\ \E k \in 1 .. Len(r.chunks) : c.written = SumTo(r.chunks, k) /\ x = Crlf \o Onwards(r, k, t)
AtLast(c, x, r, t) ==
  /\ c.trailing /\ c.done /\ c.written = Total(r)
  /\ x = Crlf \o (End(r) \o t)
AtChunk(c, x, r, t) ==
  /\ c.state = "BODY" /\ c.chunked
  /\ AtSize(c, x, r, t) \/ AtData(c, x, r, t) \/ AtTrailing(c, x, r, t) \/ AtLast(c, x, r, t)
AtEnd(c, x, r, t) ==
  /\ c.state = "COMPLETE" /\ c.written = Total(r) /\ c.written <= c.max
  /\ x \in Ending(End(r) \o t)
At(c, x, r, t) ==
  /\ Of(c, r)
  /\ \/ AtFields(c, x, r, t)
     \/ Accepted(c, r) /\ (AtLength(c, x, r, t) \/ AtChunk(c, x, r, t) \/ AtEnd(c, x, r, t))

\* What a request is refused for.
Refused(c, r) == c.state = "ERROR" /\ c.code \in Reasons(r)

\* q, which was moved out of memory, and what is there are the body so far.
Kept(c, q) == q \o c.body = Datas(c.written)

\* What parsing of r does not leave, with rest behind the read buffer.
Follows(rest, q, r, t) ==
  {c \in Connection : Sane(c) /\ (Refused(c, r) \/ (At(c, c.buffer \o rest, r, t) /\ Kept(c, q)))}

\* The pieces from the k-th on.
LEMMA FlatFrom ==
  ASSUME NEW s \in Seq(Seq(Item))
  PROVE  /\ \A k \in 1 .. Len(s) + 1 : FlattenSeq(From(s, k)) \in Seq(Item)
         /\ \A k \in 1 .. Len(s) : FlattenSeq(From(s, k)) = s[k] \o FlattenSeq(From(s, k + 1)) /\ s[k] \in Seq(Item)
         /\ FlattenSeq(From(s, Len(s) + 1)) = <<>>
<1>1. Len(s) \in Nat
  BY LenProperties
<1>2. ASSUME NEW n \in 0 .. Len(s)
      PROVE  /\ From(s, n + 1) \in Seq(Seq(Item)) /\ Len(From(s, n + 1)) = Len(s) - n
             /\ \A i \in 1 .. Len(s) - n : From(s, n + 1)[i] = s[n + i]
  BY FromIs
<1>3. ASSUME NEW k \in 1 .. Len(s) + 1
      PROVE  FlattenSeq(From(s, k)) \in Seq(Item)
  <2>1. k - 1 \in 0 .. Len(s) /\ (k - 1) + 1 = k
    BY <1>1
  <2>2. From(s, k) \in Seq(Seq(Item))
    BY <1>2, <2>1
  <2>3. QED
    BY <2>2, FlatTyped
<1>4. ASSUME NEW k \in 1 .. Len(s)
      PROVE  FlattenSeq(From(s, k)) = s[k] \o FlattenSeq(From(s, k + 1)) /\ s[k] \in Seq(Item)
  <2> DEFINE u == From(s, k)
             v == From(s, k + 1)
             w == From(u, 2)
  <2>1. k - 1 \in 0 .. Len(s) /\ (k - 1) + 1 = k /\ k \in 0 .. Len(s)
    BY <1>1
  <2>2. /\ u \in Seq(Seq(Item)) /\ Len(u) = Len(s) - k + 1
        /\ \A i \in 1 .. Len(s) - k + 1 : u[i] = s[k - 1 + i]
    <3> DEFINE m == k - 1
    <3>1. m \in 0 .. Len(s) /\ m + 1 = k /\ Len(s) - m = Len(s) - k + 1
      BY <1>1
    <3> HIDE DEF m
    <3>2. /\ From(s, m + 1) \in Seq(Seq(Item)) /\ Len(From(s, m + 1)) = Len(s) - m
          /\ \A i \in 1 .. Len(s) - m : From(s, m + 1)[i] = s[m + i]
      BY <1>2, <3>1
    <3>3. u \in Seq(Seq(Item)) /\ Len(u) = Len(s) - m /\ \A i \in 1 .. Len(s) - m : u[i] = s[m + i]
      BY <3>1, <3>2
    <3>4. QED
      BY <3>1, <3>3 DEF m
  <2>3. /\ v \in Seq(Seq(Item)) /\ Len(v) = Len(s) - k
        /\ \A i \in 1 .. Len(s) - k : v[i] = s[k + i]
    BY <1>2, <2>1
  <2> HIDE DEF u, v
  <2>4. 1 \in 0 .. Len(u) /\ 1 + 1 = 2
    BY <1>1, <2>2
  <2>5. /\ w \in Seq(Seq(Item)) /\ Len(w) = Len(u) - 1
        /\ \A i \in 1 .. Len(u) - 1 : w[i] = u[1 + i]
    <3>1. u \in Seq(Seq(Item))
      BY <2>2
    <3>2. /\ From(u, 1 + 1) \in Seq(Seq(Item)) /\ Len(From(u, 1 + 1)) = Len(u) - 1
          /\ \A i \in 1 .. Len(u) - 1 : From(u, 1 + 1)[i] = u[1 + i]
      BY ONLY <2>4, <3>1, FromIs
    <3>3. QED
      BY ONLY <2>4, <3>2
  <2> HIDE DEF w
  <2>6. Len(w) = Len(v) /\ \A i \in 1 .. Len(w) : w[i] = v[i]
    <3>1. ASSUME NEW i \in 1 .. Len(w) PROVE w[i] = v[i]
      <4>1. i \in 1 .. Len(u) - 1 /\ i \in 1 .. Len(s) - k /\ 1 + i \in 1 .. Len(s) - k + 1 /\ k - 1 + (1 + i) = k + i
        BY <1>1, <2>2, <2>5
      <4>2. w[i] = u[1 + i] /\ u[1 + i] = s[k - 1 + (1 + i)] /\ v[i] = s[k + i]
        BY <2>2, <2>3, <2>5, <4>1
      <4>3. QED
        BY <4>1, <4>2
    <3>2. QED
      BY <1>1, <2>2, <2>3, <2>5, <3>1
  <2>7. w = v
    BY ONLY <2>3, <2>5, <2>6, SeqEqual
  <2>8. FlattenSeq(u) = u[1] \o FlattenSeq(w)
    <3>1. u \in Seq(Seq(Item)) /\ Len(u) > 0
      BY <1>1, <2>2
    <3>2. QED
      BY <3>1, FlatFirst DEF w
  <2>9. u[1] = s[k] /\ s[k] \in Seq(Item)
    BY <1>1, <2>2, ElementOfSeq
  <2>10. QED
    BY <2>7, <2>8, <2>9 DEF u, v
<1>5. FlattenSeq(From(s, Len(s) + 1)) = <<>>
  <2>1. Len(s) \in 0 .. Len(s) /\ Len(s) - Len(s) = 0
    BY <1>1
  <2>2. From(s, Len(s) + 1) \in Seq(Seq(Item)) /\ Len(From(s, Len(s) + 1)) = 0
    BY <1>2, <2>1
  <2>3. From(s, Len(s) + 1) = <<>>
    BY <2>2, EmptySeq
  <2>4. QED
    BY <2>3, FlatNothing
<1>6. QED
  BY <1>3, <1>4, <1>5

\* b, and v behind it, begin with p and CR LF; y is behind them.
Begins(b, v, p, y) == b \o v = p \o (Crlf \o y)
\* Either less than that is in b, or b begins with it.
EndsIn(b, v, p, y) ==
  \/ CrlfIn(b) = 0 /\ Len(b) < Len(p) + 2
  \/ /\ CrlfIn(b) = Len(p) + 1 /\ Len(p) + 2 <= Len(b)
     /\ From(b, Len(p) + 3) \o v = y
     /\ \A i \in 1 .. Len(p) : b[i] = p[i]

\* find_crlf in what has arrived of a line and what follows it.
LEMMA CrlfPrefix ==
  ASSUME NEW b \in Seq(Item), NEW v \in Seq(Item), NEW p \in Seq(Item), NEW y \in Seq(Item),
         \A i \in 1 .. Len(p) : p[i] # CR,
         Begins(b, v, p, y)
  PROVE  EndsIn(b, v, p, y)
<1> DEFINE a == p \o Crlf
<1>1. Crlf \in Seq(Item) /\ Len(Crlf) = 2 /\ Crlf[1] = CR /\ Crlf[2] = LF
  BY Tokens
<1>2. /\ a \in Seq(Item) /\ Len(a) = Len(p) + 2 /\ Len(p) \in Nat /\ Len(b) \in Nat
      /\ \A i \in 1 .. Len(p) : a[i] = p[i]
      /\ a[Len(p) + 1] = CR /\ a[Len(p) + 2] = LF
  <2>1. /\ a \in Seq(Item) /\ Len(a) = Len(p) + 2 /\ Len(p) \in Nat
        /\ \A i \in 1 .. Len(p) : a[i] = p[i]
    <3>1. /\ a \in Seq(Item) /\ Len(a) = Len(p) + Len(Crlf) /\ Len(p) \in Nat
          /\ \A i \in 1 .. Len(p) : a[i] = p[i]
      BY ONLY <1>1, p \in Seq(Item), Joined
    <3>2. QED
      BY <1>1, <3>1
  <2>2. \A i \in 1 .. 2 : a[Len(p) + i] = Crlf[i]
    <3>1. \A i \in 1 .. Len(Crlf) : a[Len(p) + i] = Crlf[i]
      BY ONLY <1>1, p \in Seq(Item), Joined
    <3>2. QED
      BY <1>1, <3>1
  <2>3. Len(b) \in Nat
    BY LenProperties
  <2>4. QED
    BY <1>1, <2>1, <2>2, <2>3
<1>3. b \o v = a \o y
  <2>1. b \o v = p \o (Crlf \o y)
    BY DEF Begins
  <2>2. p \in Seq(Item) /\ Crlf \in Seq(Item) /\ y \in Seq(Item)
    BY <1>1
  <2>3. p \o (Crlf \o y) = (p \o Crlf) \o y
    BY ONLY <2>2, Together
  <2>4. QED
    BY <2>1, <2>3
<1> HIDE DEF a
<1>4. CASE Len(a) <= Len(b)
  <2>1. From(b, Len(a) + 1) \o v = y /\ \A i \in 1 .. Len(a) : b[i] = a[i]
    <3>1. From(b, Len(a) + 1) \o v = y
      BY ONLY <1>2, <1>3, <1>4, b \in Seq(Item), v \in Seq(Item), y \in Seq(Item), Behind
    <3>2. \A i \in 1 .. Len(a) : b[i] = a[i]
      BY ONLY <1>2, <1>3, <1>4, b \in Seq(Item), v \in Seq(Item), y \in Seq(Item), Behind
    <3>3. QED
      BY <3>1, <3>2
  <2>2. Len(a) + 1 = Len(p) + 3
    BY <1>2
  <2>3. b[Len(p) + 1] = CR /\ b[Len(p) + 2] = LF /\ \A i \in 1 .. Len(p) : b[i] = p[i] /\ b[i] # CR
    <3>1. Len(p) + 1 \in 1 .. Len(a) /\ Len(p) + 2 \in 1 .. Len(a) /\ \A i \in 1 .. Len(p) : i \in 1 .. Len(a)
      BY <1>2
    <3>2. QED
      BY <1>2, <2>1, <3>1
  <2>4. Len(p) + 1 \in 1 .. Len(b) - 1 /\ (Len(p) + 1) + 1 = Len(p) + 2
    BY <1>2, <1>4
  <2>5. CrlfIn(b) \in 1 .. Len(b) - 1 /\ b[CrlfIn(b)] = CR /\ ~(Len(p) + 1 \in 1 .. CrlfIn(b) - 1)
    BY <2>3, <2>4, CrlfFirst
  <2>6. CrlfIn(b) \notin 1 .. Len(p)
    BY <2>3, <2>5
  <2>7. CrlfIn(b) = Len(p) + 1
    BY <1>2, <2>4, <2>5, <2>6
  <2>8. QED
    BY <1>2, <1>4, <2>1, <2>2, <2>3, <2>7 DEF EndsIn
<1>5. CASE Len(b) < Len(a)
  <2>1. Len(b) <= Len(a)
    BY <1>2, <1>5
  <2>2. \A i \in 1 .. Len(b) : b[i] = a[i]
    BY <1>2, <1>3, <2>1, Ahead
  <2>3. ASSUME CrlfIn(b) \in 1 .. Len(b) - 1, b[CrlfIn(b)] = CR
        PROVE  FALSE
    <3> DEFINE m == CrlfIn(b)
    <3>1. m \in 1 .. Len(b) - 1 /\ b[m] = CR
      BY <2>3
    <3> HIDE DEF m
    <3>2. m \in 1 .. Len(p) /\ m \in 1 .. Len(b)
      BY <1>2, <1>5, <3>1
    <3>3. QED
      BY <1>2, <2>2, <3>1, <3>2
  <2>4. CrlfIn(b) = 0
    BY <2>3, CrlfFirst
  <2>5. QED
    BY <1>2, <1>5, <2>4 DEF EndsIn
<1>6. QED
  BY <1>2, <1>4, <1>5

LEMMA SpanMore ==
  ASSUME NEW a \in Nat, NEW b \in Nat, NEW e \in Nat, a <= b, b <= e
  PROVE  /\ Span(a, b) \o Span(b, e) = Span(a, e)
         /\ From(Span(a, e), (b - a) + 1) = Span(b, e)
         /\ Span(a, a) = <<>>
<1>1. /\ Span(a, b) \in Seq(Item) /\ Len(Span(a, b)) = b - a
      /\ \A i \in 1 .. b - a : Span(a, b)[i] = Data(a + i)
  BY SpanIs
<1>2. /\ Span(b, e) \in Seq(Item) /\ Len(Span(b, e)) = e - b
      /\ \A i \in 1 .. e - b : Span(b, e)[i] = Data(b + i)
  BY SpanIs
<1>3. a <= e
  BY ONLY a \in Nat, b \in Nat, e \in Nat, a <= b, b <= e
<1>4. /\ Span(a, e) \in Seq(Item) /\ Len(Span(a, e)) = e - a
      /\ \A i \in 1 .. e - a : Span(a, e)[i] = Data(a + i)
  BY <1>3, SpanIs
<1> DEFINE s == Span(a, b)
           t == Span(b, e)
           u == Span(a, e)
<1>5. s \o t = u
  <2> HIDE DEF s, t, u
  <2>1. /\ s \o t \in Seq(Item) /\ Len(s \o t) = (b - a) + (e - b)
        /\ \A i \in 1 .. b - a : (s \o t)[i] = s[i]
        /\ \A i \in 1 .. e - b : (s \o t)[(b - a) + i] = t[i]
    <3>1. s \in Seq(Item) /\ t \in Seq(Item) /\ Len(s) = b - a /\ Len(t) = e - b
      BY <1>1, <1>2 DEF s, t
    <3>2. /\ s \o t \in Seq(Item) /\ Len(s \o t) = Len(s) + Len(t)
          /\ \A i \in 1 .. Len(s) : (s \o t)[i] = s[i]
      BY ONLY <3>1, Joined
    <3>3. \A i \in 1 .. Len(t) : (s \o t)[Len(s) + i] = t[i]
      BY ONLY <3>1, Joined
    <3>4. QED
      BY <3>1, <3>2, <3>3
  <2>2. Len(s \o t) = Len(u)
    BY <1>4, <2>1 DEF u
  <2>3. ASSUME NEW i \in 1 .. Len(s \o t) PROVE (s \o t)[i] = u[i]
    <3>1. i \in 1 .. e - a
      BY <2>1
    <3>2. CASE i <= b - a
      <4>1. i \in 1 .. b - a
        BY <3>1, <3>2
      <4>2. QED
        BY <1>1, <1>4, <2>1, <3>1, <4>1 DEF s, u
    <3>3. CASE ~(i <= b - a)
      <4>1. i - (b - a) \in 1 .. e - b /\ (b - a) + (i - (b - a)) = i /\ b + (i - (b - a)) = a + i
        BY <3>1, <3>3
      <4>2. (s \o t)[(b - a) + (i - (b - a))] = t[i - (b - a)] /\ t[i - (b - a)] = Data(b + (i - (b - a)))
        BY <1>2, <2>1, <4>1 DEF t
      <4>3. QED
        BY <1>4, <3>1, <4>1, <4>2 DEF u
    <3>4. QED
      BY <3>2, <3>3
  <2>4. QED
    BY <1>4, <2>1, <2>2, <2>3, SameItems DEF u
<1>6. From(u, (b - a) + 1) = t
  <2> HIDE DEF s, t, u
  <2>1. From(s \o t, Len(s) + 1) = t
    BY <1>1, <1>2, FromEnd DEF s, t
  <2>2. QED
    BY <1>1, <1>5, <2>1 DEF s
<1>7. Span(a, a) = <<>>
  <2>1. Span(a, a) \in Seq(Item) /\ Len(Span(a, a)) = a - a
    BY SpanIs
  <2>2. QED
    BY <2>1, EmptySeq
<1>8. QED
  BY <1>5, <1>6, <1>7

\* b, and v behind it, begin with the data from a to e; y is behind them.
Brings(b, v, a, e, y) == b \o v = Span(a, e) \o y
\* The first n units of b are the next of that data.
Takes(b, n, v, a, e, y) ==
  SubSeq(b, 1, n) = Span(a, a + n) /\ Brings(From(b, n + 1), v, a + n, e, y)

\* What has arrived of the data up to e, and what follows it.
LEMMA DataPrefix ==
  ASSUME NEW b \in Seq(Item), NEW v \in Seq(Item), NEW y \in Seq(Item), NEW a \in Nat, NEW e \in Nat,
         NEW n \in Nat, n <= Len(b), a + n <= e, Brings(b, v, a, e, y)
  PROVE  Takes(b, n, v, a, e, y)
<1> DEFINE p == Span(a, a + n)
           q == Span(a + n, e)
           d == SubSeq(b, 1, n)
<1>1. a <= a + n /\ a + n \in Nat /\ (a + n) - a = n /\ Len(b) \in Nat
  BY LenProperties
<1>2. p \o q = Span(a, e)
  BY ONLY <1>1, a \in Nat, n \in Nat, e \in Nat, a + n <= e, SpanMore
<1>3. p \in Seq(Item) /\ Len(p) = n
  BY <1>1, SpanIs
<1>4. q \in Seq(Item)
  BY <1>1, SpanIs
<1> HIDE DEF p, q
<1>5. p \o (q \o y) = Span(a, e) \o y
  <2>1. p \in Seq(Item)
    BY <1>3
  <2>2. p \o (q \o y) = (p \o q) \o y
    <3>1. p \in Seq(Item) /\ q \in Seq(Item) /\ y \in Seq(Item)
      BY ONLY <1>4, <2>1, y \in Seq(Item)
    <3>2. QED
      BY ONLY <3>1, Together
  <2>3. QED
    BY <1>2, <2>2
<1>6. q \o y \in Seq(Item)
  BY <1>4, Joined
<1>7. b \o v = p \o (q \o y)
  BY <1>5 DEF Brings
<1>8. /\ From(b, n + 1) \o v = q \o y
      /\ \A i \in 1 .. n : b[i] = p[i]
  <2> DEFINE z == q \o y
  <2>1. /\ p \in Seq(Item) /\ z \in Seq(Item) /\ b \in Seq(Item) /\ v \in Seq(Item)
        /\ b \o v = p \o z /\ Len(p) <= Len(b)
    BY <1>3, <1>6, <1>7
  <2> HIDE DEF z
  <2>2. From(b, Len(p) + 1) \o v = z
    BY ONLY <2>1, Behind
  <2>3. \A i \in 1 .. Len(p) : b[i] = p[i]
    BY ONLY <2>1, Behind
  <2>4. Len(p) = n
    BY <1>3
  <2>5. QED
    BY ONLY <2>2, <2>3, <2>4 DEF z
<1>9. d = p
  <2>1. n \in 0 .. Len(b)
    BY <1>1
  <2>2. d \in Seq(Item) /\ Len(d) = n /\ \A i \in 1 .. n : d[i] = b[i]
    BY <2>1, FirstIs
  <2> HIDE DEF d
  <2>3. QED
    BY <1>3, <1>8, <2>2, SameItems
<1>10. QED
  BY <1>8, <1>9 DEF p, q, Brings, Takes

LEMMA Onward ==
  ASSUME NEW r \in Requests, NEW t \in Seq(Item)
  PROVE  /\ End(r) \o t \in Seq(Item) /\ LastChunk \o (End(r) \o t) \in Seq(Item)
         /\ \A k \in 0 .. Len(r.chunks) : Onwards(r, k, t) \in Seq(Item)
         /\ \A k \in 0 .. Len(r.chunks) - 1 :
              Onwards(r, k, t) =
                <<Size(r.chunks[k + 1])>> \o
                  (Crlf \o (Span(SumTo(r.chunks, k), SumTo(r.chunks, k + 1)) \o (Crlf \o Onwards(r, k + 1, t))))
         /\ Onwards(r, Len(r.chunks), t) = <<Size(0)>> \o (Crlf \o (Crlf \o (End(r) \o t)))
<1> DEFINE e == End(r) \o t
           z == LastChunk \o e
           F(k) == FlattenSeq(From(Chunks(r), k))
           n == Len(r.chunks)
<1>1. n \in Nat /\ Len(Chunks(r)) = n
  BY PiecesTyped
<1>2. Chunks(r) \in Seq(Seq(Item))
  <2>1. Chunks(r) \in Seq(Seq(Plain)) /\ Plain \in SUBSET Item
    BY PiecesTyped, PlainIs
  <2>2. QED
    BY ONLY <2>1, FlatPlain
<1>3. e \in Seq(Item)
  <2>1. End(r) \in Seq(Item)
    BY Tokens DEF End
  <2>2. QED
    BY <2>1, Joined
<1>4. LastChunk \in Seq(Item) /\ LastChunk = <<Size(0)>> \o (Crlf \o Crlf) /\ <<Size(0)>> \in Seq(Item)
      /\ Crlf \in Seq(Item) /\ Crlf \o Crlf \in Seq(Item)
  <2>1. 0 \in Nat /\ Size(0) \in Item
    BY ItemKinds
  <2>2. <<Size(0)>> \in Seq(Item) /\ Crlf \in Seq(Item)
    BY <2>1, Tokens
  <2>3. Crlf \o Crlf \in Seq(Item)
    BY <2>2, Joined
  <2>4. <<Size(0)>> \o (Crlf \o Crlf) \in Seq(Item)
    BY <2>2, <2>3, Joined
  <2>5. QED
    BY <2>2, <2>3, <2>4 DEF LastChunk
<1>5. z \in Seq(Item)
  BY <1>3, <1>4, Joined
<1>6. ASSUME NEW k \in 0 .. n PROVE F(k + 1) \in Seq(Item)
  <2>1. k + 1 \in 1 .. Len(Chunks(r)) + 1
    BY <1>1
  <2>2. QED
    BY ONLY <1>2, <2>1, FlatFrom
<1>7. ASSUME NEW k \in 0 .. n PROVE Onwards(r, k, t) = F(k + 1) \o z
  BY DEF Onwards
<1>8. ASSUME NEW k \in 0 .. n PROVE Onwards(r, k, t) \in Seq(Item)
  <2>1. F(k + 1) \in Seq(Item) /\ z \in Seq(Item)
    BY <1>5, <1>6
  <2>2. F(k + 1) \o z \in Seq(Item)
    BY ONLY <2>1, Joined
  <2>3. QED
    BY <1>7, <2>2
<1>9. ASSUME NEW k \in 0 .. n - 1
      PROVE  Onwards(r, k, t) =
                <<Size(r.chunks[k + 1])>> \o
                  (Crlf \o (Span(SumTo(r.chunks, k), SumTo(r.chunks, k + 1)) \o (Crlf \o Onwards(r, k + 1, t))))
  <2>1. k + 1 \in 1 .. n /\ k \in 0 .. n /\ k + 1 \in 0 .. n /\ (k + 1) - 1 = k
    BY <1>1
  <2> DEFINE j == k + 1
             h == <<Size(r.chunks[j])>>
             d == Span(SumTo(r.chunks, k), SumTo(r.chunks, j))
             o == Onwards(r, j, t)
             g == F(j + 1)
  <2>2. F(j) = Chunk(r, j) \o g /\ g \in Seq(Item)
    <3>1. j \in 1 .. Len(Chunks(r))
      BY <1>1, <2>1
    <3>2. FlattenSeq(From(Chunks(r), j)) = Chunks(r)[j] \o FlattenSeq(From(Chunks(r), j + 1))
      BY <1>2, <3>1, FlatFrom
    <3>3. Chunks(r)[j] = Chunk(r, j)
      BY <2>1, PiecesTyped
    <3>4. g \in Seq(Item)
      BY <1>6, <2>1
    <3>5. QED
      BY <3>2, <3>3, <3>4
  <2>3. o = g \o z
    BY <1>7, <2>1
  <2>4. /\ Chunk(r, j) = h \o (Crlf \o (d \o Crlf)) /\ d \in Seq(Item) /\ r.chunks[j] \in Nat
        /\ Chunk(r, j) \in Seq(Item)
    <3>1. SumTo(r.chunks, j - 1) = SumTo(r.chunks, k)
      BY <2>1
    <3>2. Chunk(r, j) = h \o (Crlf \o (Span(SumTo(r.chunks, j - 1), SumTo(r.chunks, j)) \o Crlf))
      BY <2>1, ChunkIs
    <3>3. Span(SumTo(r.chunks, j - 1), SumTo(r.chunks, j)) \in Seq(Item) /\ Chunk(r, j) \in Seq(Item)
      BY <2>1, ChunkIs
    <3>4. r.chunks[j] \in Nat
      BY <2>1, ChunkIs
    <3>5. QED
      BY <3>1, <3>2, <3>3, <3>4
  <2>5. h \in Seq(Item)
    <3>1. Size(r.chunks[j]) \in Item
      BY <2>4, ItemKinds
    <3>2. QED
      BY <3>1, Tokens
  <2>6. Onwards(r, k, t) = (Chunk(r, j) \o g) \o z
    BY <1>7, <2>1, <2>2
  <2> HIDE DEF h, d, o, g, z, j
  <2>7. /\ (Chunk(r, j) \o g) \o z = Chunk(r, j) \o o
    BY <1>5, <2>2, <2>3, <2>4, Together
  <2>8. o \in Seq(Item)
    BY <1>5, <2>2, <2>3, Joined
  <2>9. h \o (Crlf \o (d \o (Crlf \o o))) = (h \o (Crlf \o (d \o Crlf))) \o o
    <3>1. d \o Crlf \in Seq(Item)
      BY <1>4, <2>4, Joined
    <3>2. Crlf \o (d \o Crlf) \in Seq(Item)
      BY <1>4, <3>1, Joined
    <3>3. h \o ((Crlf \o (d \o Crlf)) \o o) = (h \o (Crlf \o (d \o Crlf))) \o o
      <4>1. h \in Seq(Item) /\ (Crlf \o (d \o Crlf)) \in Seq(Item) /\ o \in Seq(Item)
        BY <2>5, <2>8, <3>2
      <4>2. QED
        BY ONLY <4>1, Together
    <3>4. Crlf \o ((d \o Crlf) \o o) = (Crlf \o (d \o Crlf)) \o o
      <4>1. Crlf \in Seq(Item) /\ (d \o Crlf) \in Seq(Item) /\ o \in Seq(Item)
        BY <1>4, <2>8, <3>1
      <4>2. QED
        BY ONLY <4>1, Together
    <3>5. d \o (Crlf \o o) = (d \o Crlf) \o o
      <4>1. d \in Seq(Item) /\ Crlf \in Seq(Item) /\ o \in Seq(Item)
        BY <1>4, <2>4, <2>8
      <4>2. QED
        BY ONLY <4>1, Together
    <3>6. QED
      BY ONLY <3>3, <3>4, <3>5, Zenon
  <2>13. Onwards(r, k, t) = h \o (Crlf \o (d \o (Crlf \o o)))
    BY ONLY <2>4, <2>6, <2>7, <2>9, Zenon
  <2>14. QED
    BY <2>13 DEF h, d, o, j
<1>10. Onwards(r, n, t) = <<Size(0)>> \o (Crlf \o (Crlf \o e))
  <2>1. n \in 0 .. n
    BY <1>1
  <2>2. F(n + 1) = <<>>
    BY <1>1, <1>2, FlatFrom
  <2>3. Onwards(r, n, t) = <<>> \o z
    BY <1>7, <2>1, <2>2
  <2>4. <<>> \o z = z
    BY <1>5, ConcatEmptySeq
  <2>5. (<<Size(0)>> \o (Crlf \o Crlf)) \o e = <<Size(0)>> \o ((Crlf \o Crlf) \o e)
    <3>1. <<Size(0)>> \in Seq(Item) /\ (Crlf \o Crlf) \in Seq(Item) /\ e \in Seq(Item)
      BY <1>3, <1>4
    <3>2. QED
      BY ONLY <3>1, Together
  <2>6. (Crlf \o Crlf) \o e = Crlf \o (Crlf \o e)
    <3>1. Crlf \in Seq(Item) /\ Crlf \in Seq(Item) /\ e \in Seq(Item)
      BY <1>3, <1>4
    <3>2. QED
      BY ONLY <3>1, Together
  <2>7. z = (<<Size(0)>> \o (Crlf \o Crlf)) \o e
    BY <1>4
  <2> HIDE DEF z, e, n
  <2>8. QED
    BY <2>3, <2>4, <2>5, <2>6, <2>7
<1>11. QED
  BY <1>3, <1>5, <1>8, <1>9, <1>10

\* The reasons to refuse a request whose line is good.
LEMMA ReasonIs ==
  ASSUME NEW r \in Requests, r.code = 200
  PROVE  /\ Total(r) > LimitOf(r.target) => 413 \in Reasons(r)
         /\ r.length > ServerLimit => 413 \in Reasons(r)
         /\ Times(r, "long") > 0 => 431 \in Reasons(r)
         /\ Cardinality(Names(r.headers)) > MaxHeaders => 431 \in Reasons(r)
         /\ Times(r, "host") # 1 => 400 \in Reasons(r)
         /\ \A name \in Singletons : Times(r, name) > 1 => 400 \in Reasons(r)
         /\ Times(r, "content-length") + Times(r, "transfer-encoding") > 1 => 400 \in Reasons(r)
         /\ r.method = "POST" /\ Total(r) = 0 /\ ~InChunks(r) => 411 \in Reasons(r)
<1> DEFINE Bad == \/ Times(r, "host") # 1
                  \/ \E name \in Singletons : Times(r, name) > 1
                  \/ Times(r, "content-length") + Times(r, "transfer-encoding") > 1
           Many == Times(r, "long") > 0 \/ Cardinality(Names(r.headers)) > MaxHeaders
           None == r.method = "POST" /\ Total(r) = 0 /\ ~InChunks(r)
           Big == Total(r) > LimitOf(r.target) \/ r.length > ServerLimit
<1>2. 400 \in Codes /\ 431 \in Codes /\ 411 \in Codes /\ 413 \in Codes
  BY DEF Codes
<1>4. ASSUME Big PROVE 413 \in Reasons(r)
  BY <1>2, <1>4 DEF Reasons
<1>5. ASSUME Many PROVE 431 \in Reasons(r)
  BY <1>2, <1>5 DEF Reasons
<1>6. ASSUME None PROVE 411 \in Reasons(r)
  BY <1>2, <1>6 DEF Reasons
<1>7. ASSUME Bad PROVE 400 \in Reasons(r)
  <2>1. CASE Times(r, "host") # 1
    BY <1>2, <2>1 DEF Reasons
  <2>2. CASE \E name \in Singletons : Times(r, name) > 1
    BY <1>2, <2>2, Zenon DEF Reasons
  <2>3. CASE Times(r, "content-length") + Times(r, "transfer-encoding") > 1
    BY <1>2, <2>3 DEF Reasons
  <2>4. QED
    BY <1>7, <2>1, <2>2, <2>3
<1> HIDE DEF Bad, Many, None, Big
<1> DEFINE L == Total(r) > LimitOf(r.target)
           M == r.length > ServerLimit
           N == Times(r, "long") > 0
           O == Cardinality(Names(r.headers)) > MaxHeaders
           P == Times(r, "content-length") + Times(r, "transfer-encoding") > 1
           H == Times(r, "host") # 1
           S(name) == Times(r, name) > 1
           Q == r.method = "POST" /\ Total(r) = 0 /\ ~InChunks(r)
           X == 400 \in Reasons(r)
           Y == 413 \in Reasons(r)
           Z == 431 \in Reasons(r)
           W == 411 \in Reasons(r)
<1>8. (L \/ M => Y) /\ (N \/ O => Z) /\ (Q => W)
  BY ONLY <1>4, <1>5, <1>6 DEF Big, Many, None
<1>9. H \/ (\E name \in Singletons : S(name)) \/ P => X
  BY ONLY <1>7 DEF Bad
<1> HIDE DEF L, M, N, O, P, H, S, Q, X, Y, Z, W
<1>10. /\ L => Y
       /\ M => Y
       /\ N => Z
       /\ O => Z
       /\ H => X
       /\ \A name \in Singletons : S(name) => X
       /\ P => X
       /\ Q => W
  BY ONLY <1>8, <1>9
<1>11. QED
  BY ONLY <1>10, Zenon DEF L, M, N, O, P, H, S, Q, X, Y, Z, W

LEMMA ReasonOnly ==
  ASSUME NEW r \in Requests, r.code = 200,
         Times(r, "host") = 1, \A name \in Singletons : ~(Times(r, name) > 1),
         ~(Times(r, "content-length") + Times(r, "transfer-encoding") > 1),
         ~(Times(r, "long") > 0), ~(Cardinality(Names(r.headers)) > MaxHeaders),
         ~(r.method = "POST" /\ Total(r) = 0 /\ ~InChunks(r))
  PROVE  /\ Reasons(r) \subseteq {413}
         /\ 413 \in Reasons(r) => Total(r) > LimitOf(r.target) \/ r.length > ServerLimit
BY DEF Reasons

-----------------------------------------------------------------------------
(* Counting header fields. *)

LEMMA Occurs ==
  ASSUME NEW r \in Requests, NEW name
  PROVE  /\ Times(r, name) \in Nat
         /\ \A i \in 1 .. Len(r.headers) : r.headers[i].name = name => Times(r, name) > 0
         /\ \A i, j \in 1 .. Len(r.headers) :
              r.headers[i].name = name /\ r.headers[j].name = name /\ i # j => Times(r, name) > 1
         /\ Times(r, name) > 0 => \E i \in 1 .. Len(r.headers) : r.headers[i].name = name
         /\ Times(r, name) > 1 => \E i, j \in 1 .. Len(r.headers) :
              r.headers[i].name = name /\ r.headers[j].name = name /\ i # j
<1> DEFINE n == Len(r.headers)
           T == {i \in 1 .. n : r.headers[i].name = name}
<1>1. n \in Nat
  BY PiecesTyped
<1>2. IsFiniteSet(1 .. n)
  BY <1>1, FS_Interval
<1>3. T \in SUBSET (1 .. n)
  OBVIOUS
<1>4. Times(r, name) = Cardinality(T)
  BY DEF Times
<1>5. \A i \in 1 .. n : i \in T <=> r.headers[i].name = name
  OBVIOUS
<1> HIDE DEF T, n
<1>6. IsFiniteSet(T) /\ Cardinality(T) \in Nat
  BY ONLY <1>2, <1>3, FS_Subset, FS_CardinalityType
<1>7. ASSUME NEW i \in T PROVE Cardinality(T) > 0 /\ (Cardinality(T) > 1 <=> \E j \in T : i # j)
  <2> DEFINE U == T \ {i}
  <2>1. IsFiniteSet(U) /\ Cardinality(U) = Cardinality(T) - 1
    BY ONLY <1>6, <1>7, FS_RemoveElement
  <2>2. Cardinality(U) \in Nat /\ (Cardinality(U) = 0 <=> U = {})
    BY ONLY <2>1, FS_CardinalityType, FS_EmptySet
  <2>3. U = {} <=> ~\E j \in T : i # j
    OBVIOUS
  <2> HIDE DEF U
  <2>4. QED
    BY ONLY <1>6, <2>1, <2>2, <2>3
<1>8. Cardinality(T) > 0 => T # {}
  BY ONLY <1>6, FS_EmptySet
<1>9. \A i \in T : i \in 1 .. n
  BY <1>3
<1>10. /\ \A i \in 1 .. n : r.headers[i].name = name => Cardinality(T) > 0
       /\ \A i, j \in 1 .. n : r.headers[i].name = name /\ r.headers[j].name = name /\ i # j => Cardinality(T) > 1
  BY ONLY <1>5, <1>7
<1>11. Cardinality(T) > 0 => \E i \in 1 .. n : r.headers[i].name = name
  BY ONLY <1>5, <1>8, <1>9
<1>12. Cardinality(T) > 1 => \E i, j \in 1 .. n : r.headers[i].name = name /\ r.headers[j].name = name /\ i # j
  <2>1. SUFFICES ASSUME Cardinality(T) > 1
                 PROVE  \E i, j \in 1 .. n : r.headers[i].name = name /\ r.headers[j].name = name /\ i # j
    OBVIOUS
  <2>2. PICK i \in T : TRUE
    BY ONLY <1>6, <1>8, <2>1
  <2>3. PICK j \in T : i # j
    BY ONLY <1>7, <2>1, <2>2
  <2>4. QED
    BY ONLY <1>5, <1>9, <2>2, <2>3
<1>13. QED
  BY ONLY <1>4, <1>6, <1>10, <1>11, <1>12 DEF n

LEMMA NamesCount ==
  ASSUME NEW h \in Seq(HeaderField), \A a, b \in 1 .. Len(h) : h[a].name = h[b].name => a = b,
         NEW N, IsFiniteSet(N), Names(h) \subseteq N
  PROVE  Len(h) <= Cardinality(N) /\ (Names(h) = N => Cardinality(N) = Len(h))
<1> DEFINE n == Len(h)
           f == [a \in 1 .. n |-> h[a].name]
<1>1. n \in Nat
  BY LenProperties
<1>2. \A a \in 1 .. n : h[a].name \in N
  BY DEF Names
<1>3. f \in [1 .. n -> N] /\ \A a \in 1 .. n : f[a] = h[a].name
  BY <1>2
<1>4. \A a, b \in 1 .. n : f[a] = f[b] => a = b
  BY <1>3
<1>5. Names(h) = N => \A x \in N : \E a \in 1 .. n : f[a] = x
  BY <1>3 DEF Names
<1> HIDE DEF f
<1>6. f \in Injection(1 .. n, N)
  BY <1>3, <1>4 DEF Injection, IsInjective
<1>7. Names(h) = N => f \in Surjection(1 .. n, N)
  BY <1>3, <1>5 DEF Surjection
<1>8. Cardinality(1 .. n) <= Cardinality(N)
      /\ (Cardinality(1 .. n) = Cardinality(N) <=> f \in Surjection(1 .. n, N))
  BY ONLY <1>6, IsFiniteSet(N), FS_Injection
<1>9. Cardinality(1 .. n) = n
  <2>1. 1 \in Int /\ n \in Int /\ (IF 1 > n THEN 0 ELSE n - 1 + 1) = n
    BY <1>1
  <2>2. QED
    BY ONLY <2>1, FS_Interval
<1>10. QED
  BY <1>7, <1>8, <1>9

LEMMA NamesFinite ==
  ASSUME NEW h \in Seq(HeaderField)
  PROVE  IsFiniteSet(Names(h)) /\ Cardinality(Names(h)) \in Nat
<1> DEFINE n == Len(h)
           f == [a \in 1 .. n |-> h[a].name]
<1>1. n \in Nat /\ IsFiniteSet(1 .. n)
  BY LenProperties, FS_Interval
<1>2. f \in Surjection(1 .. n, Names(h))
  BY DEF Surjection, Names
<1>3. IsFiniteSet(Names(h))
  BY ONLY <1>1, <1>2, FS_Surjection
<1>4. QED
  BY <1>3, FS_CardinalityType

\* A field more: its entries and its names.
LEMMA MoreIs ==
  ASSUME NEW h \in Seq(HeaderField), NEW f \in HeaderField
  PROVE  LET m == More(h, f)
         IN  /\ f.name \notin Names(h) =>
                  /\ Len(m) = Len(h) + 1 /\ m[Len(h) + 1] = f
                  /\ \A a \in 1 .. Len(h) : m[a] = h[a]
             /\ f.name \in Names(h) =>
                  /\ Len(m) = Len(h)
                  /\ \A a \in 1 .. Len(h) : m[a].name = h[a].name /\ (h[a].name # f.name => m[a] = h[a])
<1> DEFINE m == More(h, f)
<1>1. Len(h) \in Nat /\ \A a \in 1 .. Len(h) : h[a] \in HeaderField
  BY LenProperties, ElementOfSeq
<1>2. ASSUME f.name \notin Names(h)
      PROVE  /\ Len(m) = Len(h) + 1 /\ m[Len(h) + 1] = f
             /\ \A a \in 1 .. Len(h) : m[a] = h[a]
  <2>1. m = Append(h, f)
    BY <1>2 DEF More
  <2>2. QED
    BY ONLY <1>1, <2>1, h \in Seq(HeaderField), f \in HeaderField, AppendProperties
<1>3. ASSUME f.name \in Names(h)
      PROVE  /\ Len(m) = Len(h)
             /\ \A a \in 1 .. Len(h) : m[a].name = h[a].name /\ (h[a].name # f.name => m[a] = h[a])
  <2>1. Len(m) = Len(h)
    BY <1>3, MoreTyped
  <2>2. m = [i \in 1 .. Len(h) |-> IF h[i].name = f.name THEN Header(f.name, 0) ELSE h[i]]
    BY <1>3 DEF More
  <2>3. Header(f.name, 0).name = f.name
    BY DEF Header
  <2> HIDE DEF m
  <2>4. \A a \in 1 .. Len(h) : m[a].name = h[a].name /\ (h[a].name # f.name => m[a] = h[a])
    BY ONLY <2>2, <2>3
  <2>5. QED
    BY <2>1, <2>4
<1>4. QED
  BY <1>2, <1>3

LEMMA MoreNames ==
  ASSUME NEW h \in Seq(HeaderField), NEW f \in HeaderField,
         \A a, b \in 1 .. Len(h) : h[a].name = h[b].name => a = b
  PROVE  LET m == More(h, f)
         IN  /\ Names(m) = Names(h) \cup {f.name}
             /\ \A a, b \in 1 .. Len(m) : m[a].name = m[b].name => a = b
             /\ \A a \in 1 .. Len(m) :
                  \/ m[a] = f /\ f.name \notin Names(h)
                  \/ m[a].name = f.name /\ f.name \in Names(h)
                  \/ \E b \in 1 .. Len(h) : m[a] = h[b]
<1> DEFINE m == More(h, f)
           n == Len(h)
<1>1. n \in Nat
  BY LenProperties
<1>2. /\ f.name \notin Names(h) => Len(m) = n + 1 /\ m[n + 1] = f /\ \A a \in 1 .. n : m[a] = h[a]
      /\ f.name \in Names(h) => Len(m) = n /\ \A a \in 1 .. n : m[a].name = h[a].name /\ (h[a].name # f.name => m[a] = h[a])
  BY MoreIs
<1>3. \A x : x \in Names(h) <=> \E a \in 1 .. n : h[a].name = x
  BY DEF Names
<1>4. \A x : x \in Names(m) <=> \E a \in 1 .. Len(m) : m[a].name = x
  BY DEF Names
<1> HIDE DEF m, n
<1>5. CASE f.name \notin Names(h)
  <2>1. \A a \in 1 .. Len(m) : a \in 1 .. n \/ a = n + 1
    BY <1>1, <1>2, <1>5
  <2>2. \A a \in 1 .. n : a \in 1 .. Len(m) /\ n + 1 \in 1 .. Len(m)
    BY <1>1, <1>2, <1>5
  <2>3. n + 1 \in 1 .. Len(m)
    BY <1>1, <1>2, <1>5
  <2>4. \A x : x \in Names(m) <=> x \in Names(h) \/ x = f.name
    BY ONLY <1>2, <1>3, <1>4, <1>5, <2>1, <2>2, <2>3
  <2>5. \A a, b \in 1 .. Len(m) : m[a].name = m[b].name => a = b
    <3>1. ASSUME NEW a \in 1 .. Len(m), NEW b \in 1 .. Len(m), m[a].name = m[b].name PROVE a = b
      <4>1. CASE a \in 1 .. n /\ b \in 1 .. n
        BY <1>2, <1>5, <3>1, <4>1 DEF n
      <4>2. CASE a = n + 1 /\ b = n + 1
        BY <4>2
      <4>3. CASE a \in 1 .. n /\ b = n + 1
        BY <1>2, <1>3, <1>5, <3>1, <4>3
      <4>4. CASE a = n + 1 /\ b \in 1 .. n
        BY <1>2, <1>3, <1>5, <3>1, <4>4
      <4>5. QED
        BY <2>1, <4>1, <4>2, <4>3, <4>4
    <3>2. QED
      BY <3>1
  <2>6. \A a \in 1 .. Len(m) : m[a] = f \/ \E b \in 1 .. n : m[a] = h[b]
    BY ONLY <1>2, <1>5, <2>1
  <2>7. Names(m) = Names(h) \cup {f.name}
    BY <2>4
  <2>8. QED
    BY <1>5, <2>5, <2>6, <2>7 DEF m, n
<1>6. CASE f.name \in Names(h)
  <2>1. \A x : x \in Names(m) <=> x \in Names(h)
    BY ONLY <1>2, <1>3, <1>4, <1>6
  <2>2. Names(m) = Names(h) \cup {f.name}
    BY <1>6, <2>1
  <2>3. \A a, b \in 1 .. Len(m) : m[a].name = m[b].name => a = b
    BY <1>2, <1>6 DEF n
  <2>4. \A a \in 1 .. Len(m) : m[a].name = f.name \/ \E b \in 1 .. n : m[a] = h[b]
    BY <1>2, <1>6
  <2>5. QED
    BY <1>6, <2>2, <2>3, <2>4 DEF m, n
<1>7. QED
  BY <1>5, <1>6

LEMMA MergedNext ==
  ASSUME NEW r \in Requests, r.code = 200, NEW h \in Seq(HeaderField), NEW j \in 0 .. Len(r.headers) - 1,
         Merged(h, r.headers, j), NEW f, f = r.headers[j + 1]
  PROVE  /\ f.name = "long" => 431 \in Reasons(r)
         /\ f.name \in Singletons \cap Names(h) => 400 \in Reasons(r)
         /\ Len(More(h, f)) > MaxHeaders => 431 \in Reasons(r)
         /\ f.name # "long" /\ f.name \notin Singletons \cap Names(h) /\ Len(More(h, f)) <= MaxHeaders
              => Merged(More(h, f), r.headers, j + 1)
<1> DEFINE hs == r.headers
           m == More(h, f)
           n == Len(hs)
<1>1. hs \in Seq(HeaderField) /\ n \in Nat
  BY AskedHeaders, PiecesTyped
<1>2. j \in Nat /\ j + 1 \in 1 .. n /\ j + 1 \notin 1 .. j /\ (\A i \in 1 .. j : i \in 1 .. n)
      /\ \A i \in 1 .. j + 1 : i \in 1 .. j \/ i = j + 1
  BY <1>1
<1>3. f \in HeaderField
  BY <1>1, <1>2, ElementOfSeq
<1>4. /\ \A a, b \in 1 .. Len(h) : h[a].name = h[b].name => a = b
      /\ Names(h) = {hs[i].name : i \in 1 .. j}
      /\ \A a \in 1 .. Len(h) : h[a].name \in Singletons => \E i \in 1 .. j : hs[i] = h[a]
      /\ \A a, b \in 1 .. j : hs[a].name = hs[b].name /\ hs[a].name \in Singletons => a = b
      /\ \A i \in 1 .. j : hs[i].name # "long"
  BY DEF Merged
<1>5. /\ Names(m) = Names(h) \cup {f.name}
      /\ \A a, b \in 1 .. Len(m) : m[a].name = m[b].name => a = b
      /\ \A a \in 1 .. Len(m) :
                  \/ m[a] = f /\ f.name \notin Names(h)
                  \/ m[a].name = f.name /\ f.name \in Names(h)
                  \/ \E b \in 1 .. Len(h) : m[a] = h[b]
  BY ONLY h \in Seq(HeaderField), <1>3, <1>4, MoreNames
<1>6. m \in Seq(HeaderField) /\ Len(m) \in Nat
  BY <1>3, MoreTyped, LenProperties
<1>7. f = hs[j + 1]
  OBVIOUS
<1>8. \A x : x \in Names(h) <=> \E i \in 1 .. j : hs[i].name = x
  BY ONLY <1>4
<1> HIDE DEF m
<1>9. f.name = "long" => 431 \in Reasons(r)
  BY <1>2, <1>7, Occurs, ReasonIs
<1>10. ASSUME f.name \in Singletons, f.name \in Names(h) PROVE 400 \in Reasons(r)
  <2>1. PICK i \in 1 .. j : hs[i].name = f.name
    BY ONLY <1>8, <1>10
  <2>2. i \in 1 .. n /\ i # j + 1
    BY ONLY <1>2, <2>1
  <2>3. Times(r, f.name) > 1
    BY <1>2, <1>7, <2>1, <2>2, Occurs
  <2>4. QED
    BY <1>10, <2>3, ReasonIs
<1>11. Names(m) \subseteq Names(hs)
  <2>1. ASSUME NEW x \in Names(m) PROVE \E i \in 1 .. n : hs[i].name = x
    BY ONLY <1>2, <1>5, <1>7, <1>8, <2>1
  <2>2. \A x : (\E i \in 1 .. n : hs[i].name = x) => x \in Names(hs)
    BY DEF Names
  <2>3. QED
    BY ONLY <2>1, <2>2
<1>12. Len(m) <= Cardinality(Names(hs)) /\ Cardinality(Names(hs)) \in Nat
  <2>1. IsFiniteSet(Names(hs)) /\ Cardinality(Names(hs)) \in Nat
    BY ONLY <1>1, NamesFinite
  <2>2. \A a, b \in 1 .. Len(m) : m[a].name = m[b].name => a = b
    BY ONLY <1>5
  <2>3. QED
    BY ONLY <1>6, <1>11, <2>1, <2>2, NamesCount
<1>13. Len(m) > MaxHeaders => 431 \in Reasons(r)
  BY <1>6, <1>12, ReasonIs, Sizes
<1>14. ASSUME f.name # "long", f.name \notin Singletons \/ f.name \notin Names(h), Len(m) <= MaxHeaders
       PROVE  Merged(m, hs, j + 1)
  <2>1. \A x : x \in Names(m) <=> \E i \in 1 .. j + 1 : hs[i].name = x
    <3>1. ASSUME NEW x, x \in Names(m) PROVE \E i \in 1 .. j + 1 : hs[i].name = x
      <4>1. CASE x = f.name
        BY <1>2, <1>7, <4>1
      <4>2. CASE x \in Names(h)
        BY <1>2, <1>8, <4>2
      <4>3. QED
        BY ONLY <1>5, <3>1, <4>1, <4>2
    <3>2. ASSUME NEW i \in 1 .. j + 1 PROVE hs[i].name \in Names(m)
      BY ONLY <1>2, <1>5, <1>7, <1>8, <3>2
    <3>3. QED
      BY <3>1, <3>2
  <2>2. Names(m) = {hs[i].name : i \in 1 .. j + 1}
    BY ONLY <2>1
  <2>3. ASSUME NEW a \in 1 .. Len(m), m[a].name \in Singletons PROVE \E i \in 1 .. j + 1 : hs[i] = m[a]
    <3>1. CASE m[a] = f
      BY <1>2, <1>7, <3>1
    <3>2. CASE m[a].name = f.name /\ f.name \in Names(h)
      BY <1>14, <2>3, <3>2
    <3>3. CASE \E b \in 1 .. Len(h) : m[a] = h[b]
      BY <1>2, <1>4, <2>3, <3>3
    <3>4. QED
      BY ONLY <1>5, <2>3, <3>1, <3>2, <3>3
  <2>4. ASSUME NEW a \in 1 .. j + 1, NEW b \in 1 .. j + 1, hs[a].name = hs[b].name, hs[a].name \in Singletons
        PROVE  a = b
    BY ONLY <1>2, <1>4, <1>7, <1>8, <1>14, <2>4
  <2>5. \A i \in 1 .. j + 1 : hs[i].name # "long"
    BY ONLY <1>2, <1>4, <1>7, <1>14
  <2>6. QED
    BY <1>5, <1>14, <2>2, <2>3, <2>4, <2>5 DEF Merged
<1>15. QED
  BY <1>9, <1>10, <1>13, <1>14 DEF m

\* A request without chunks has the length of its body.
LEMMA NoChunks ==
  ASSUME NEW r \in Requests
  PROVE  /\ ~InChunks(r) => Total(r) = r.length /\ r.chunks = <<>>
         /\ InChunks(r) => \E i \in 1 .. Len(r.headers) :
                             r.headers[i].name = "transfer-encoding" /\ r.headers[i].n = 1
         /\ \A i \in 1 .. Len(r.headers) :
              r.headers[i].name = "transfer-encoding" /\ r.headers[i].n = 1 => InChunks(r)
<1>1. ~InChunks(r) => Total(r) = r.length /\ r.chunks = <<>>
  <2>1. SUFFICES ASSUME ~InChunks(r) PROVE Total(r) = r.length /\ r.chunks = <<>>
    OBVIOUS
  <2>2. r.chunks = <<>>
    BY <2>1, AskedFraming
  <2>3. Len(r.chunks) = 0 /\ r.length \in Nat
    BY <2>2, AskedBody
  <2>4. SumTo(r.chunks, 0) = 0
    BY TotalIs
  <2>5. QED
    BY <2>2, <2>3, <2>4 DEF Total
<1>2. r.headers \in Seq(HeaderField) /\ \A i \in 1 .. Len(r.headers) : r.headers[i] \in HeaderField
  BY AskedHeaders, ElementOfSeq
<1> DEFINE H == Header("transfer-encoding", 1)
<1>3. InChunks(r) <=> \E i \in 1 .. Len(r.headers) : r.headers[i] = H
  <2>1. DOMAIN r.headers = 1 .. Len(r.headers)
    BY <1>2, LenProperties
  <2>2. InChunks(r) <=> H \in ToSet(r.headers)
    BY Zenon DEF InChunks
  <2>3. \A x : x \in ToSet(r.headers) <=> \E i \in 1 .. Len(r.headers) : r.headers[i] = x
    BY <2>1 DEF ToSet
  <2>4. QED
    BY <2>2, <2>3
<1>4. ASSUME NEW x \in HeaderField PROVE x = H <=> x.name = "transfer-encoding" /\ x.n = 1
  BY DEF HeaderField, Header
<1> HIDE DEF H
<1>5. \A i \in 1 .. Len(r.headers) :
        r.headers[i] = H <=> r.headers[i].name = "transfer-encoding" /\ r.headers[i].n = 1
  BY ONLY <1>2, <1>4
<1>6. QED
  BY ONLY <1>1, <1>3, <1>5

LEMMA HeadersGood ==
  ASSUME NEW r \in Requests, r.code = 200, NEW h \in Seq(HeaderField),
         Merged(h, r.headers, Len(r.headers))
  PROVE  /\ "host" \notin Names(h) \/ Unclear(h) => 400 \in Reasons(r)
         /\ ~Unclear(h) => /\ ValueOf(h, "content-length") = r.length
                           /\ IsChunked(h) <=> InChunks(r)
                           /\ InChunks(r) => r.length = 0
         /\ r.length > ServerLimit => 413 \in Reasons(r)
         /\ ~InChunks(r) /\ r.length = 0 /\ r.method = "POST" => 411 \in Reasons(r)
         /\ Sound(h) /\ (InChunks(r) \/ r.length > 0 \/ r.method # "POST") => Reasons(r) \subseteq {413}
<1> DEFINE hs == r.headers
           n == Len(hs)
           CL == "content-length"
           TE == "transfer-encoding"
<1>1. /\ \A a, b \in 1 .. Len(h) : h[a].name = h[b].name => a = b
      /\ Names(h) = {hs[i].name : i \in 1 .. n}
      /\ \A a \in 1 .. Len(h) : h[a].name \in Singletons => \E i \in 1 .. n : hs[i] = h[a]
      /\ \A a, b \in 1 .. n : hs[a].name = hs[b].name /\ hs[a].name \in Singletons => a = b
      /\ \A i \in 1 .. n : hs[i].name # "long"
      /\ Len(h) <= MaxHeaders
  BY DEF Merged
<1>2. \A x : x \in Names(h) <=> \E i \in 1 .. n : hs[i].name = x
  BY ONLY <1>1
<1>3. \A x : x \notin Names(h) => Times(r, x) = 0
  BY <1>2, Occurs
<1>4. \A x : x \in Names(h) => Times(r, x) \in Nat /\ Times(r, x) > 0
  BY <1>2, Occurs
<1>5. \A x : x \in Singletons => ~(Times(r, x) > 1)
  BY ONLY r \in Requests, <1>1, Occurs
<1>6. Times(r, "long") = 0
  BY <1>1, <1>2, <1>3
<1>7. "host" \notin Names(h) => 400 \in Reasons(r)
  BY <1>3, ReasonIs
<1>8. Unclear(h) => 400 \in Reasons(r)
  <2>1. SUFFICES ASSUME Unclear(h) PROVE 400 \in Reasons(r)
    OBVIOUS
  <2>2. CL \in Names(h) /\ TE \in Names(h)
    BY <2>1 DEF Unclear
  <2>3. Times(r, CL) + Times(r, TE) > 1
    BY <1>4, <2>2
  <2>4. QED
    BY <2>3, ReasonIs
<1>9. r.length \in Nat /\ ServerLimit \in Nat /\ MaxHeaders \in Nat
  BY AskedBody, Sizes
<1>10. CL \in Singletons /\ TE \in Singletons
  BY DEF Singletons
<1>11. ASSUME ~Unclear(h)
       PROVE  /\ ValueOf(h, CL) = r.length
              /\ IsChunked(h) <=> InChunks(r)
              /\ InChunks(r) => r.length = 0
  <2>1. ~(CL \in Names(h) /\ TE \in Names(h))
    BY <1>11 DEF Unclear
  <2>2. InChunks(r) => TE \in Names(h)
    BY <1>2, NoChunks
  <2>3. CL \in Names(h) => ValueOf(h, CL) = r.length
    <3>1. SUFFICES ASSUME CL \in Names(h) PROVE ValueOf(h, CL) = r.length
      OBVIOUS
    <3>2. PICK a \in 1 .. Len(h) : h[a].name = CL /\ ValueOf(h, CL) = h[a].n
      BY <3>1, ValueTyped
    <3>3. PICK i \in 1 .. n : hs[i] = h[a]
      BY <1>1, <1>10, <3>2
    <3>4. ~InChunks(r)
      BY <2>1, <2>2, <3>1
    <3>5. hs[i].n = r.length
      BY <3>2, <3>3, <3>4, AskedFraming
    <3>6. QED
      BY <3>2, <3>3, <3>5
  <2>4. CL \notin Names(h) => ValueOf(h, CL) = 0 /\ r.length = 0
    <3>1. SUFFICES ASSUME CL \notin Names(h) PROVE ValueOf(h, CL) = 0 /\ r.length = 0
      OBVIOUS
    <3>2. CL \notin Names(hs)
      <4>1. \A x : x \in Names(hs) => \E i \in 1 .. n : hs[i].name = x
        BY DEF Names
      <4>2. QED
        BY ONLY <1>2, <3>1, <4>1
    <3>3. ~(r.length > 0)
      BY <3>2, AskedFraming
    <3>4. QED
      BY <1>9, <3>1, <3>3 DEF ValueOf
  <2>5. InChunks(r) => r.length = 0
    BY <2>1, <2>2, <2>4
  <2>6. IsChunked(h) => InChunks(r)
    <3>1. SUFFICES ASSUME ValueOf(h, TE) = 1 PROVE InChunks(r)
      BY DEF IsChunked
    <3>2. TE \in Names(h)
      BY <3>1 DEF ValueOf
    <3>3. PICK a \in 1 .. Len(h) : h[a].name = TE /\ ValueOf(h, TE) = h[a].n
      BY <3>2, ValueTyped
    <3>4. PICK i \in 1 .. n : hs[i] = h[a]
      BY <1>1, <1>10, <3>3
    <3>5. QED
      BY <3>1, <3>3, <3>4, NoChunks
  <2>7. InChunks(r) => IsChunked(h)
    <3>1. SUFFICES ASSUME InChunks(r) PROVE ValueOf(h, TE) = 1
      BY DEF IsChunked
    <3>2. PICK i \in 1 .. n : hs[i].name = TE /\ hs[i].n = 1
      BY <3>1, NoChunks
    <3>3. PICK a \in 1 .. Len(h) : h[a].name = TE /\ ValueOf(h, TE) = h[a].n
      <4>1. TE \in Names(h)
        BY ONLY <1>2, <3>2
      <4>2. QED
        BY <4>1, ValueTyped
    <3>4. PICK k \in 1 .. n : hs[k] = h[a]
      BY <1>1, <1>10, <3>3
    <3>5. k = i
      BY <1>1, <1>10, <3>2, <3>3, <3>4
    <3>6. QED
      BY <3>2, <3>3, <3>4, <3>5
  <2>8. QED
    BY <2>3, <2>4, <2>5, <2>6, <2>7
<1>12. r.length > ServerLimit => 413 \in Reasons(r)
  BY ReasonIs
<1>13. ~InChunks(r) /\ r.length = 0 /\ r.method = "POST" => 411 \in Reasons(r)
  BY NoChunks, ReasonIs
<1>14. ASSUME Sound(h), InChunks(r) \/ r.length > 0 \/ r.method # "POST" PROVE Reasons(r) \subseteq {413}
  <2>1. "host" \in Names(h) /\ ~(CL \in Names(h) /\ TE \in Names(h))
    BY <1>14 DEF Sound, Unclear
  <2>2. Times(r, "host") = 1
    <3>1. "host" \in Singletons
      BY DEF Singletons
    <3>2. Times(r, "host") \in Nat /\ Times(r, "host") > 0 /\ ~(Times(r, "host") > 1)
      BY <1>4, <1>5, <2>1, <3>1
    <3>3. QED
      BY ONLY <3>2
  <2>3. ~(Times(r, CL) + Times(r, TE) > 1)
    <3>1. Times(r, CL) \in Nat /\ Times(r, TE) \in Nat /\ ~(Times(r, CL) > 1) /\ ~(Times(r, TE) > 1)
      BY <1>5, <1>10, Occurs
    <3>2. Times(r, CL) = 0 \/ Times(r, TE) = 0
      BY <1>3, <2>1
    <3>3. QED
      BY ONLY <3>1, <3>2
  <2>4. ~(Times(r, "long") > 0)
    BY <1>6
  <2>5. ~(Cardinality(Names(hs)) > MaxHeaders)
    <3>1. Names(hs) = Names(h)
      BY <1>1 DEF Names
    <3>2. IsFiniteSet(Names(h))
      BY NamesFinite
    <3>3. Cardinality(Names(h)) = Len(h) /\ Len(h) \in Nat
      BY ONLY h \in Seq(HeaderField), <1>1, <3>2, NamesCount, LenProperties
    <3>4. QED
      BY ONLY <1>1, <1>9, <3>1, <3>3
  <2>6. ~(r.method = "POST" /\ Total(r) = 0 /\ ~InChunks(r))
    BY <1>9, <1>14, NoChunks
  <2>7. QED
    BY <1>5, <2>2, <2>3, <2>4, <2>5, <2>6, ReasonOnly
<1>15. QED
  BY <1>7, <1>8, <1>11, <1>12, <1>13, <1>14

-----------------------------------------------------------------------------
(* The header fields of a request. *)

\* b, and v behind it, begin with all but the first j fields of r and the
\* empty line; z is behind them.
FieldsLeft(b, v, r, j, z) == Begins(b, v, FlattenSeq(From(Fields(r), j + 1)), z)

\* The next of the fields, and what is behind it.
LEMMA FieldAhead ==
  ASSUME NEW r \in Requests, NEW b \in Seq(Item), NEW v \in Seq(Item), NEW z \in Seq(Item),
         NEW j \in 0 .. Len(r.headers) - 1, FieldsLeft(b, v, r, j, z)
  PROVE  LET h == r.headers[j + 1]
             y == FlattenSeq(From(Fields(r), j + 2)) \o (Crlf \o z)
         IN  h \in HeaderField /\ h \in Item /\ h # CR /\ y \in Seq(Item) /\ Begins(b, v, <<h>>, y)
<1> DEFINE n == Len(r.headers)
           F(m) == FlattenSeq(From(Fields(r), m))
           w == Crlf \o z
           k == j + 1
           f == r.headers[k]
           p == <<f>>
           g == F(k + 1)
<1>1. n \in Nat /\ Len(Fields(r)) = n /\ Len(b) \in Nat
  BY PiecesTyped, LenProperties
<1>2. Fields(r) \in Seq(Seq(Item))
  <2>1. Fields(r) \in Seq(Seq(Plain)) /\ Plain \in SUBSET Item
    BY PiecesTyped, PlainIs
  <2>2. QED
    BY ONLY <2>1, FlatPlain
<1>3. Crlf \in Seq(Item) /\ w \in Seq(Item)
  BY Tokens, Joined
<1>4. b \o v = F(k) \o (Crlf \o z)
  BY DEF FieldsLeft, Begins
<1>5. k \in 1 .. n /\ k + 1 \in 1 .. n + 1 /\ k + 1 = j + 2
  BY <1>1
<1>6. f \in HeaderField /\ f \in Item /\ f # CR
  <2>1. f \in HeaderField
    BY <1>5, AskedHeaders, ElementOfSeq
  <2>2. f \in Item /\ f.kind = "header"
    BY <2>1, ItemKinds
  <2>3. QED
    BY <2>1, <2>2, KindsOfItem
<1>7. p \in Seq(Item) /\ Len(p) = 1 /\ p[1] = f
  BY <1>6, Tokens
<1>8. F(k) = (p \o Crlf) \o g /\ g \in Seq(Item)
  <2>1. Fields(r)[k] = p \o Crlf
    BY <1>5, PiecesTyped
  <2>2. F(k) = Fields(r)[k] \o g
    BY <1>1, <1>2, <1>5, FlatFrom
  <2>3. g \in Seq(Item)
    BY <1>1, <1>2, <1>5, FlatFrom
  <2>4. QED
    BY <2>1, <2>2, <2>3
<1>9. b \o v = ((p \o Crlf) \o g) \o w
  BY <1>4, <1>8
<1> HIDE DEF p, f, g, w
<1> DEFINE u == g \o w
           a == p \o Crlf
<1>10. a \in Seq(Item) /\ u \in Seq(Item)
  BY <1>3, <1>7, <1>8, Joined
<1> HIDE DEF a
<1>11. a \o (g \o w) = (a \o g) \o w
  <2>1. a \in Seq(Item) /\ g \in Seq(Item) /\ w \in Seq(Item)
    BY ONLY <1>3, <1>8, <1>10
  <2>2. Groups(a, g, w)
    BY ONLY <2>1, Grouped
  <2>3. QED
    BY <2>2 DEF Groups
<1>20. a \o u = (a \o g) \o w
  BY <1>11
<1> HIDE DEF u
<1> USE DEF a
<1>12. p \o (Crlf \o u) = (p \o Crlf) \o u
  <2>1. p \in Seq(Item) /\ Crlf \in Seq(Item) /\ u \in Seq(Item)
    BY <1>3, <1>7, <1>10
  <2>2. Groups(p, Crlf, u)
    BY ONLY <2>1, Grouped
  <2>3. QED
    BY <2>2 DEF Groups
<1>13. b \o v = p \o (Crlf \o u)
  BY ONLY <1>9, <1>20, <1>12, Zenon
<1>21. Begins(b, v, p, u)
  BY <1>13 DEF Begins
<1>22. (j + 1) + 1 = j + 2
  OBVIOUS
<1>23. QED
  BY <1>6, <1>10, <1>21, <1>22 DEF f, g, u, w, p

LEMMA FieldsAhead ==
  ASSUME NEW r \in Requests, NEW b \in Seq(Item), NEW v \in Seq(Item), NEW z \in Seq(Item),
         NEW j \in 0 .. Len(r.headers), CrlfIn(b) # 0, FieldsLeft(b, v, r, j, z)
  PROVE  /\ j = Len(r.headers) => CrlfIn(b) = 1 /\ 2 <= Len(b) /\ From(b, 3) \o v = z
         /\ j < Len(r.headers) =>
              /\ CrlfIn(b) = 2 /\ 3 <= Len(b) /\ b[1] = r.headers[j + 1] /\ r.headers[j + 1] \in HeaderField
              /\ FieldsLeft(From(b, 4), v, r, j + 1, z)
<1> DEFINE n == Len(r.headers)
           F(k) == FlattenSeq(From(Fields(r), k))
           w == Crlf \o z
<1>1. n \in Nat /\ Len(Fields(r)) = n /\ Len(b) \in Nat
  BY PiecesTyped, LenProperties
<1>2. Fields(r) \in Seq(Seq(Item))
  <2>1. Fields(r) \in Seq(Seq(Plain)) /\ Plain \in SUBSET Item
    BY PiecesTyped, PlainIs
  <2>2. QED
    BY ONLY <2>1, FlatPlain
<1>3. Crlf \in Seq(Item) /\ w \in Seq(Item)
  BY Tokens, Joined
<1>7. b \o v = F(j + 1) \o (Crlf \o z)
  BY DEF FieldsLeft, Begins
<1>4. ASSUME j = n PROVE CrlfIn(b) = 1 /\ 2 <= Len(b) /\ From(b, 3) \o v = z
  <2>1. F(n + 1) = <<>>
    BY <1>1, <1>2, FlatFrom
  <2>2. b \o v = <<>> \o (Crlf \o z)
    BY <1>4, <1>7, <2>1
  <2> DEFINE p == <<>>
  <2>3. p \in Seq(Item) /\ Len(p) = 0 /\ \A i \in 1 .. Len(p) : p[i] # CR
    BY Tokens
  <2>7. Begins(b, v, p, z)
    BY <2>2 DEF Begins
  <2> HIDE DEF p
  <2>4. EndsIn(b, v, p, z)
    BY ONLY b \in Seq(Item), v \in Seq(Item), z \in Seq(Item), <2>3, <2>7, CrlfPrefix
  <2>5. 0 + 1 = 1 /\ 0 + 2 = 2 /\ 0 + 3 = 3
    OBVIOUS
  <2>6. QED
    BY <2>3, <2>4, <2>5 DEF EndsIn
<1>5. ASSUME j < n
      PROVE  /\ CrlfIn(b) = 2 /\ 3 <= Len(b) /\ b[1] = r.headers[j + 1] /\ r.headers[j + 1] \in HeaderField
             /\ FieldsLeft(From(b, 4), v, r, j + 1, z)
  <2> DEFINE f == r.headers[j + 1]
             p == <<f>>
             y == FlattenSeq(From(Fields(r), j + 2)) \o (Crlf \o z)
  <2>1. j \in 0 .. Len(r.headers) - 1
    BY <1>1, <1>5
  <2>2. f \in HeaderField /\ f \in Item /\ f # CR /\ y \in Seq(Item) /\ Begins(b, v, p, y)
    BY <2>1, FieldAhead
  <2>3. p \in Seq(Item) /\ Len(p) = 1 /\ p[1] = f
    BY <2>2, Tokens
  <2> HIDE DEF p, f, y
  <2>4. \A i \in 1 .. Len(p) : p[i] # CR
    BY <2>2, <2>3
  <2>5. EndsIn(b, v, p, y)
    BY ONLY b \in Seq(Item), v \in Seq(Item), <2>2, <2>3, <2>4, CrlfPrefix
  <2>6. 1 + 1 = 2 /\ 1 + 2 = 3 /\ 1 + 3 = 4
    OBVIOUS
  <2>7. CrlfIn(b) = 2 /\ 3 <= Len(b) /\ From(b, 4) \o v = y
    BY <2>3, <2>5, <2>6 DEF EndsIn
  <2>8. b[1] = f
    BY <2>3, <2>5, <2>7 DEF EndsIn
  <2>9. (j + 1) + 1 = j + 2
    OBVIOUS
  <2>10. QED
    BY <2>2, <2>7, <2>8, <2>9 DEF f, y, FieldsLeft, Begins
<1>6. QED
  BY <1>4, <1>5

LEMMA OfSame ==
  ASSUME NEW c, NEW d, NEW r, Of(c, r), ~c.erased, SameLine(c, d), SameLimit(c, d)
  PROVE  Of(d, r) /\ ~d.erased
BY DEF Of, SameLine, SameLimit

LEMMA KeptSame ==
  ASSUME NEW c, NEW d, NEW q, Kept(c, q), SameBody(c, d)
  PROVE  Kept(d, q)
BY DEF Kept, SameBody

LEMMA FieldStep ==
  ASSUME NEW rest \in Seq(Item), NEW r \in Requests, r.code = 200, NEW z \in Seq(Item),
         NEW c \in Connection, c.state = "HEADERS", CrlfIn(c.buffer) # 0,
         NEW j \in 0 .. Len(r.headers) - 1,
         FieldsLeft(c.buffer, rest, r, j, z), Merged(c.headers, r.headers, j)
  PROVE  LET d == HeaderStep(c)
         IN  \/ Refused(d, r)
             \/ /\ d.state = "HEADERS" /\ Merged(d.headers, r.headers, j + 1)
                /\ FieldsLeft(d.buffer, rest, r, j + 1, z)
<1> DEFINE d == HeaderStep(c)
           e == Consume(c, 3)
           f == r.headers[j + 1]
           b == c.buffer
           m == More(c.headers, f)
<1>1. b \in Seq(Item) /\ c.headers \in Seq(HeaderField) /\ Len(r.headers) \in Nat /\ Len(b) \in Nat
  BY PiecesTyped, LenProperties DEF Connection
<1>2. j \in 0 .. Len(r.headers) /\ j < Len(r.headers)
  BY <1>1
<1>0. CrlfIn(b) # 0 /\ FieldsLeft(b, rest, r, j, z)
  OBVIOUS
<1> HIDE DEF b
<1>3. /\ CrlfIn(b) = 2 /\ 3 <= Len(b) /\ b[1] = f /\ f \in HeaderField
      /\ FieldsLeft(From(b, 4), rest, r, j + 1, z)
  BY ONLY r \in Requests, rest \in Seq(Item), z \in Seq(Item), <1>0, <1>1, <1>2, FieldsAhead
<1>4. f.kind = "header"
  BY <1>3, ItemKinds
<1>5. 2 # 0 /\ 2 # 1 /\ 2 + 1 = 3
  OBVIOUS
<1>6. d = AddHeader(e, f)
  BY <1>3, <1>4, <1>5 DEF HeaderStep, b
<1>7. 3 \in 0 .. Len(b) /\ 3 + 1 = 4
  BY <1>1, <1>3
<1>8. e \in Connection /\ e.buffer = From(b, 4) /\ e.headers = c.headers /\ SameState(c, e)
  BY <1>7, ConsumeIs DEF b
<1>15. f = r.headers[j + 1]
  OBVIOUS
<1> HIDE DEF d, e, f
<1>9. d.buffer = e.buffer
  BY <1>3, <1>6, <1>8, AddHeaderIs
<1>10. \/ d.state = "ERROR" /\ d.code = 431 /\ f.name = "long"
       \/ d.state = "ERROR" /\ d.code = 400 /\ f.name \in Singletons \cap Names(e.headers)
       \/ d.state = "ERROR" /\ d.code = 431 /\ Len(More(e.headers, f)) > MaxHeaders
       \/ /\ SameState(e, d) /\ d.headers = More(e.headers, f)
          /\ f.name # "long" /\ f.name \notin Singletons \cap Names(e.headers)
          /\ Len(More(e.headers, f)) <= MaxHeaders
  BY <1>3, <1>6, <1>8, AddHeaderIs
<1>11. /\ f.name = "long" => 431 \in Reasons(r)
       /\ f.name \in Singletons \cap Names(c.headers) => 400 \in Reasons(r)
       /\ Len(More(c.headers, f)) > MaxHeaders => 431 \in Reasons(r)
       /\ f.name # "long" /\ f.name \notin Singletons \cap Names(c.headers) /\ Len(More(c.headers, f)) <= MaxHeaders
            => Merged(More(c.headers, f), r.headers, j + 1)
  <2>1. Merged(c.headers, r.headers, j) /\ r.code = 200
    OBVIOUS
  <2>2. QED
    BY ONLY r \in Requests, j \in 0 .. Len(r.headers) - 1, <1>1, <1>15, <2>1, MergedNext
<1>12. ASSUME d.state = "ERROR", d.code \in Reasons(r) PROVE Refused(d, r)
  BY <1>12 DEF Refused
<1>13. SameState(e, d) => d.state = "HEADERS"
  BY <1>8 DEF SameState
<1>16. FieldsLeft(d.buffer, rest, r, j + 1, z)
  BY <1>3, <1>8, <1>9
<1>17. \/ Refused(d, r)
       \/ d.state = "HEADERS" /\ Merged(d.headers, r.headers, j + 1)
  BY ONLY <1>8, <1>10, <1>11, <1>12, <1>13
<1>14. QED
  BY ONLY <1>16, <1>17 DEF d

LEMMA SameTruth ==
  ASSUME NEW a \in BOOLEAN, NEW b \in BOOLEAN, a <=> b
  PROVE  a = b
OBVIOUS

LEMMA NoFieldAhead ==
  ASSUME NEW r \in Requests, NEW b \in Seq(Item), NEW v \in Seq(Item), NEW z \in Seq(Item),
         CrlfIn(b) # 0, FieldsLeft(b, v, r, Len(r.headers), z)
  PROVE  CrlfIn(b) = 1 /\ 2 <= Len(b) /\ From(b, 3) \o v = z
<1> DEFINE n == Len(r.headers)
<1>1. n \in Nat
  BY PiecesTyped
<1>2. n \in 0 .. Len(r.headers)
  BY <1>1
<1>3. n = Len(r.headers) /\ FieldsLeft(b, v, r, n, z)
  OBVIOUS
<1> HIDE DEF n
<1>4. QED
  BY <1>2, <1>3, FieldsAhead

LEMMA EndStep ==
  ASSUME NEW rest \in Seq(Item), NEW r \in Requests, r.code = 200, NEW t \in Seq(Item),
         NEW c \in Connection, c.state = "HEADERS", CrlfIn(c.buffer) # 0, NoBody(c), Of(c, r), ~c.erased,
         FieldsLeft(c.buffer, rest, r, Len(r.headers), Body(r) \o (End(r) \o t)),
         Merged(c.headers, r.headers, Len(r.headers))
  PROVE  LET d == HeaderStep(c)
         IN  Refused(d, r) \/ At(d, d.buffer \o rest, r, t)
<1> DEFINE d == HeaderStep(c)
           e == Consume(c, 2)
           b == c.buffer
           o == End(r) \o t
           z == Body(r) \o o
           h == c.headers
           n == Len(r.headers)
           CL == "content-length"
<1>1. b \in Seq(Item) /\ h \in Seq(HeaderField) /\ n \in Nat /\ Len(b) \in Nat /\ n \in 0 .. n
  BY PiecesTyped, LenProperties DEF Connection
<1>2. o \in Seq(Item) /\ Body(r) \in Seq(Item) /\ z \in Seq(Item)
  <2>1. Body(r) \in Seq(Plain) /\ End(r) \in Seq(Plain)
    BY PiecesTyped
  <2>2. Body(r) \in Seq(Item) /\ End(r) \in Seq(Item)
    BY ONLY <2>1, PlainIs, SeqMonotonic
  <2>3. o \in Seq(Item)
    BY <2>2, Joined
  <2>4. QED
    BY <2>2, <2>3, Joined
<1>0. CrlfIn(b) # 0 /\ FieldsLeft(b, rest, r, n, z)
  OBVIOUS
<1>20. n = Len(r.headers)
  OBVIOUS
<1> HIDE DEF b, z, n
<1>3. CrlfIn(b) = 1 /\ 2 <= Len(b) /\ From(b, 3) \o rest = z
  <2>1. b \in Seq(Item) /\ z \in Seq(Item)
    BY <1>1, <1>2
  <2>2. CrlfIn(b) # 0 /\ FieldsLeft(b, rest, r, Len(r.headers), z)
    BY <1>0, <1>20
  <2>3. QED
    BY ONLY r \in Requests, rest \in Seq(Item), <2>1, <2>2, NoFieldAhead
<1>4. d = HeadersEnd(e)
  BY <1>3 DEF HeaderStep, b
<1>5. 2 \in 0 .. Len(b) /\ 2 + 1 = 3
  BY <1>1, <1>3
<1>6. /\ e \in Connection /\ e.buffer = From(b, 3) /\ e.headers = h
      /\ SameState(c, e) /\ SameRequest(c, e) /\ SameChunk(c, e) /\ SameBody(c, e)
  BY <1>5, ConsumeIs DEF b
<1> HIDE DEF d, e
<1>7. d \in Connection /\ d.buffer = e.buffer /\ SameLine(e, d) /\ SameLimit(e, d) /\ SameChunk(e, d) /\ SameBody(e, d)
  BY ONLY <1>4, <1>6, HeadersEndIs
<1>8. \/ d.state = "ERROR" /\ d.code = 400
                     /\ ("host" \notin Names(e.headers) \/ Unclear(e.headers))
      \/ d.state = "ERROR" /\ d.code = 413 /\ ~Unclear(e.headers) /\ ValueOf(e.headers, CL) > ServerLimit
      \/ /\ d.state = "ERROR" /\ d.code = 411 /\ Sound(e.headers)
         /\ ~IsChunked(e.headers) /\ ValueOf(e.headers, CL) = 0 /\ e.method = "POST"
      \/ /\ d.state = "COMPLETE" /\ Sound(e.headers) /\ SameFraming(e, d)
         /\ ~IsChunked(e.headers) /\ ValueOf(e.headers, CL) = 0 /\ e.method # "POST"
      \/ /\ d.state = "BODY" /\ Sound(e.headers)
         /\ d.chunked = IsChunked(e.headers) /\ d.length = ValueOf(e.headers, CL)
         /\ d.chunked \/ d.length > 0
  BY ONLY <1>4, <1>6, HeadersEndIs
<1>9. /\ "host" \notin Names(h) \/ Unclear(h) => 400 \in Reasons(r)
      /\ ~Unclear(h) => /\ ValueOf(h, CL) = r.length
                        /\ IsChunked(h) <=> InChunks(r)
                        /\ InChunks(r) => r.length = 0
      /\ r.length > ServerLimit => 413 \in Reasons(r)
      /\ ~InChunks(r) /\ r.length = 0 /\ r.method = "POST" => 411 \in Reasons(r)
      /\ Sound(h) /\ (InChunks(r) \/ r.length > 0 \/ r.method # "POST") => Reasons(r) \subseteq {413}
  BY <1>1, HeadersGood
<1>10. Of(d, r) /\ ~d.erased
  BY <1>6, <1>7, OfSame DEF SameRequest
<1>11. e.method = r.method /\ e.headers = h
  BY <1>6 DEF Of, SameRequest, SameLine
<1>12. /\ d.written = 0 /\ ~d.trailing /\ ~d.done /\ d.size = 0 /\ ~e.chunked /\ e.length = 0
       /\ d.chunked \in BOOLEAN
  BY <1>6, <1>7 DEF NoBody, SameBody, SameChunk, SameRequest, SameFraming, Connection
<1>13. d.buffer \o rest = z
  BY <1>3, <1>6, <1>7
<1>14. r.length \in Nat /\ (~InChunks(r) => Total(r) = r.length)
  BY AskedBody, NoChunks
<1>15. Sound(h) => ~Unclear(h) /\ ValueOf(h, CL) <= ServerLimit
  BY DEF Sound
<1> HIDE DEF h
<1>16. CASE d.state = "ERROR"
  <2>1. d.code \in Reasons(r)
    BY <1>8, <1>9, <1>11, <1>15, <1>16
  <2>2. QED
    BY <1>16, <2>1 DEF Refused, d
<1>17. CASE d.state = "COMPLETE"
  <2>1. /\ Sound(h) /\ SameFraming(e, d) /\ ~IsChunked(h) /\ ValueOf(h, CL) = 0 /\ r.method # "POST"
    BY <1>8, <1>11, <1>17
  <2>2. ~InChunks(r) /\ r.length = 0 /\ Total(r) = 0 /\ Reasons(r) \subseteq {413}
    BY <1>9, <1>14, <1>15, <2>1
  <2>3. d.length = 0 /\ ~d.chunked
    BY <1>12, <2>1 DEF SameFraming
  <2>9. d.chunked = InChunks(r)
    BY <1>12, <2>2, <2>3, SameTruth DEF InChunks
  <2>4. Accepted(d, r)
    BY <2>2, <2>3, <2>9, Sizes DEF Accepted
  <2>5. z = o
    <3>1. Body(r) = <<>>
      <4>1. Datas(0) = Span(0, 0) /\ Span(0, 0) \in Seq(Item) /\ Len(Span(0, 0)) = 0
        <5>1. 0 \in Nat /\ 0 <= 0 /\ 0 - 0 = 0
          OBVIOUS
        <5>2. QED
          BY <5>1, SpanIs
      <4>2. Datas(0) = <<>>
        BY <4>1, FromStart
      <4>3. QED
        BY <2>2, <4>2 DEF Body
    <3>2. QED
      BY <1>2, <3>1, ConcatEmptySeq DEF z
  <2>6. d.buffer \o rest \in Ending(o)
    BY <1>2, <1>13, <2>5, EndingIs
  <2>10. d.written <= d.max
    BY <1>7, <1>12 DEF Connection
  <2>7. AtEnd(d, d.buffer \o rest, r, t)
    BY <1>12, <1>17, <2>2, <2>6, <2>10 DEF AtEnd
  <2>8. QED
    BY <1>10, <2>4, <2>7 DEF At, d
<1>18. CASE d.state = "BODY"
  <2>1. Sound(h) /\ d.chunked = IsChunked(h) /\ d.length = ValueOf(h, CL) /\ (d.chunked \/ d.length > 0)
    BY <1>8, <1>11, <1>18
  <2>2. /\ d.length = r.length /\ (d.chunked <=> InChunks(r)) /\ (InChunks(r) => r.length = 0)
        /\ r.length <= ServerLimit /\ Reasons(r) \subseteq {413}
    BY <1>9, <1>15, <2>1
  <2>3. d.chunked = InChunks(r)
    BY <1>12, <2>2, SameTruth DEF InChunks
  <2>4. Accepted(d, r)
    BY <2>2, <2>3 DEF Accepted
  <2>5. CASE InChunks(r)
    <3>1. z = Onwards(r, 0, t)
      <4>1. Body(r) = FlattenSeq(Chunks(r)) \o LastChunk
        BY <2>5 DEF Body
      <4>2. Chunks(r) \in Seq(Seq(Item)) /\ LastChunk \in Seq(Item)
        <5>1. Chunks(r) \in Seq(Seq(Plain)) /\ Plain \in SUBSET Item /\ LastChunk \in Seq(Plain)
          BY PiecesTyped, PlainIs
        <5>2. QED
          BY ONLY <5>1, FlatPlain, SeqMonotonic
      <4>3. FlattenSeq(Chunks(r)) \in Seq(Item)
        BY <4>2, FlatTyped
      <4>4. FlattenSeq(Chunks(r)) \o (LastChunk \o o) = (FlattenSeq(Chunks(r)) \o LastChunk) \o o
        <5>1. FlattenSeq(Chunks(r)) \in Seq(Item) /\ LastChunk \in Seq(Item) /\ o \in Seq(Item)
          BY <1>2, <4>2, <4>3
        <5>2. QED
          BY ONLY <5>1, Together
      <4>5. From(Chunks(r), 0 + 1) = Chunks(r)
        BY <4>2, SubSeqFull DEF From
      <4>6. QED
        BY <4>1, <4>4, <4>5 DEF Onwards, z
    <3>2. SumTo(r.chunks, 0) = 0 /\ 0 \in 0 .. Len(r.chunks)
      BY TotalIs, PiecesTyped
    <3>3. AtSize(d, d.buffer \o rest, r, t)
      BY <1>12, <1>13, <3>1, <3>2 DEF AtSize
    <3>4. d.chunked
      BY <2>2, <2>5
    <3>5. AtChunk(d, d.buffer \o rest, r, t)
      BY <1>18, <3>3, <3>4 DEF AtChunk
    <3>6. QED
      BY <1>10, <2>4, <3>5 DEF At, d
  <2>6. CASE ~InChunks(r)
    <3>1. r.length > 0 /\ ~d.chunked
      BY <2>1, <2>2, <2>6
    <3>2. Body(r) = Span(0, r.length)
      <4>1. 0 \in Nat /\ 0 <= r.length
        BY <1>14
      <4>2. Datas(r.length) = Span(0, r.length)
        BY <1>14, <4>1, SpanIs
      <4>3. QED
        BY <2>6, <4>2 DEF Body
    <3>3. AtLength(d, d.buffer \o rest, r, t)
      BY <1>12, <1>13, <1>18, <3>1, <3>2 DEF AtLength, z
    <3>4. QED
      BY <1>10, <2>4, <3>3 DEF At, d
  <2>7. QED
    BY <2>5, <2>6
<1>19. QED
  BY <1>8, <1>16, <1>17, <1>18

LEMMA FollowsHeader ==
  ASSUME NEW rest \in Seq(Item), NEW q, NEW r \in Requests, NEW t \in Seq(Item),
         NEW c \in Follows(rest, q, r, t)
  PROVE  HeaderStep(c) \in Follows(rest, q, r, t)
<1> DEFINE d == HeaderStep(c)
           n == Len(r.headers)
           z == Body(r) \o (End(r) \o t)
<1>1. /\ c \in Connection /\ Sane(c)
      /\ Refused(c, r) \/ (At(c, c.buffer \o rest, r, t) /\ Kept(c, q))
  BY DEF Follows
<1>2. CASE c.state # "HEADERS" \/ CrlfIn(c.buffer) = 0
  <2>1. HeaderStep(c) = c
    BY <1>2 DEF HeaderStep
  <2>2. QED
    BY <2>1
<1>3. CASE c.state = "HEADERS" /\ CrlfIn(c.buffer) # 0
  <2>1. /\ Of(c, r) /\ r.code = 200 /\ Kept(c, q) /\ ~c.erased
    BY <1>1, <1>3 DEF Refused, At, Of
  <2>2. AtFields(c, c.buffer \o rest, r, t)
    BY <1>1, <1>3 DEF Refused, At, AtLength, AtChunk, AtEnd
  <2>3. PICK j \in 0 .. n :
          FieldsLeft(c.buffer, rest, r, j, z) /\ Merged(c.headers, r.headers, j)
    BY <2>2 DEF AtFields, FieldsLeft, Begins
  <2>4. Sane(d) /\ SameLine(c, d) /\ SameLimit(c, d)
    BY <1>1, HeaderStepSane
  <2>5. d \in Connection /\ SameBody(c, d)
    BY <1>1, HeaderStepIs
  <2>6. NoBody(c)
    BY <1>1, <1>3 DEF Sane
  <2>7. Kept(d, q) /\ Of(d, r)
    BY <2>1, <2>4, <2>5, KeptSame, OfSame
  <2>8. z \in Seq(Item)
    <3>1. Body(r) \in Seq(Plain) /\ End(r) \in Seq(Plain)
      BY PiecesTyped
    <3>2. Body(r) \in Seq(Item) /\ End(r) \in Seq(Item)
      BY ONLY <3>1, PlainIs, SeqMonotonic
    <3>3. End(r) \o t \in Seq(Item)
      BY <3>2, Joined
    <3>4. QED
      BY <3>2, <3>3, Joined
  <2>9. n \in Nat
    BY PiecesTyped
  <2> HIDE DEF d
  <2>10. Refused(d, r) \/ At(d, d.buffer \o rest, r, t)
    <3>1. CASE j = n
      BY <1>1, <1>3, <2>1, <2>3, <2>6, <3>1, EndStep DEF d
    <3>2. CASE j # n
      <4> HIDE DEF z
      <4>1. j \in 0 .. n - 1
        BY <2>3, <2>9, <3>2
      <4>2. \/ Refused(d, r)
            \/ /\ d.state = "HEADERS" /\ Merged(d.headers, r.headers, j + 1)
               /\ FieldsLeft(d.buffer, rest, r, j + 1, z)
        BY ONLY rest \in Seq(Item), r \in Requests, <1>1, <1>3, <2>1, <2>3, <2>8, <4>1, FieldStep DEF d
      <4>3. j + 1 \in 0 .. n /\ (j + 1) + 1 = j + 2
        BY <2>9, <4>1
      <4>4. QED
        BY <2>7, <4>2, <4>3 DEF At, AtFields, FieldsLeft, Begins, z
    <3>3. QED
      BY <3>1, <3>2
  <2>11. QED
    BY <2>4, <2>5, <2>7, <2>10 DEF Follows, d
<1>4. QED
  BY <1>2, <1>3

-----------------------------------------------------------------------------
(* The body of a request that says its length. *)

LEMMA KeptTaken ==
  ASSUME NEW c \in Connection, NEW d, NEW q \in Seq(Item), NEW n \in Nat, Kept(c, q),
         d.written = c.written + n, d.body = c.body \o Span(c.written, c.written + n)
  PROVE  Kept(d, q)
<1> DEFINE a == c.written
           u == c.body
           s == Span(a, a + n)
<1>1. a \in Nat /\ u \in Seq(Item) /\ a + n \in Nat /\ a <= a + n /\ 0 \in Nat /\ 0 <= a /\ 0 <= a + n
  BY DEF Connection
<1>2. s \in Seq(Item)
  BY <1>1, SpanIs
<1>3. q \o u = Datas(a)
  BY DEF Kept
<1>4. Datas(a) = Span(0, a) /\ Datas(a + n) = Span(0, a + n)
  BY <1>1, SpanIs
<1>5. Span(0, a) \o s = Span(0, a + n)
  BY <1>1, SpanMore
<1> HIDE DEF s, a, u
<1>6. q \o (u \o s) = (q \o u) \o s
  BY <1>1, <1>2, Together
<1>7. d.written = a + n /\ d.body = u \o s
  BY DEF s, a, u
<1>8. q \o d.body = Datas(d.written)
  BY ONLY <1>3, <1>4, <1>5, <1>6, <1>7
<1>9. QED
  BY <1>8 DEF Kept

LEMMA FailsCode ==
  ASSUME NEW c \in Connection, NEW code \in Nat
  PROVE  Fails(c, code).state = "ERROR" /\ Fails(c, code).code = code /\ Fails(c, code).buffer = c.buffer
BY FailsIs

LEMMA FollowsBody ==
  ASSUME NEW rest \in Seq(Item), NEW q \in Seq(Item), NEW r \in Requests, NEW t \in Seq(Item),
         NEW c \in Follows(rest, q, r, t), c.state = "BODY", ~c.chunked
  PROVE  ParseBody(c) \in Follows(rest, q, r, t)
<1> DEFINE d == ParseBody(c)
           b == c.buffer
           o == End(r) \o t
           a == c.written
           e == c.length
           n == Least(e - a, Len(b))
<1>1. /\ c \in Connection /\ Sane(c)
      /\ Refused(c, r) \/ (At(c, b \o rest, r, t) /\ Kept(c, q))
  BY DEF Follows
<1>2. /\ Of(c, r) /\ Accepted(c, r) /\ AtLength(c, b \o rest, r, t) /\ Kept(c, q)
  BY <1>1 DEF Refused, At, AtFields, AtChunk, AtEnd
<1>3. /\ b \in Seq(Item) /\ Len(b) \in Nat /\ a \in Nat /\ e \in Nat /\ a < e /\ a <= e /\ e - a \in Nat
      /\ e = r.length /\ Brings(b, rest, a, e, o)
  <2>1. b \in Seq(Item) /\ Len(b) \in Nat /\ a \in Nat /\ e \in Nat
    BY LenProperties, <1>1 DEF Connection
  <2>2. e = r.length
    BY <1>2 DEF Accepted
  <2>3. a < e /\ Brings(b, rest, a, e, o)
    BY <1>2, <2>2 DEF AtLength, Brings
  <2>4. a <= e /\ e - a \in Nat
    BY ONLY <2>1, <2>3
  <2>5. QED
    BY <2>1, <2>2, <2>3, <2>4
<1>4. Total(r) = e
  <2>1. ~InChunks(r)
    BY <1>2 DEF Accepted
  <2>2. QED
    BY <1>3, <2>1, NoChunks
<1>5. n \in Nat /\ n <= e - a /\ n <= Len(b) /\ n \in {e - a, Len(b)}
  BY <1>3, LeastIs
<1>6. a + n <= e /\ a + n \in Nat
  BY ONLY <1>3, <1>5
<1>7. o \in Seq(Item)
  BY Onward
<1>8. c.max = LimitOf(r.target) /\ r.code = 200 /\ ~c.erased
  BY <1>2 DEF Of
<1>9. d \in Connection /\ Sane(d)
  BY <1>1, ParseBodySane DEF Sane
<1>10. \/ a + n > c.max /\ d = Fails(c, 413)
       \/ /\ b = <<>> \/ a + n < e
          /\ Taken(c, d, n) /\ SameState(c, d)
       \/ /\ a + n <= c.max /\ a + n = e /\ d.buffer = <<>> /\ d.state = "COMPLETE"
          /\ d.max = c.max /\ d.limit = c.limit
          /\ SameLine(c, d) /\ SameFraming(c, d)
          /\ d.written = a + n /\ d.body = c.body \o SubSeq(b, 1, n)
  <2> DEFINE P == a + n > c.max /\ d = Fails(c, 413)
  <2>1. \/ a + n > c.max /\ d = Fails(c, 413)
        \/ /\ a + n <= c.max /\ (b = <<>> \/ a + n < e)
           /\ Taken(c, d, n) /\ SameState(c, d) /\ SameChunk(c, d)
        \/ /\ a + n <= c.max /\ b # <<>> /\ a + n = e
           /\ d.buffer = <<>> /\ d.state = "COMPLETE" /\ d.headers = c.headers
           /\ d.max = c.max /\ d.limit = c.limit
           /\ SameLine(c, d) /\ SameFraming(c, d) /\ SameChunk(c, d)
           /\ d.written = a + n /\ d.body = c.body \o SubSeq(b, 1, n)
    BY <1>1, <1>3, ParseBodyIs
  <2> HIDE DEF d, n, a, e, b
  <2>2. QED
    BY ONLY <2>1
<1> HIDE DEF d
<1>11. SubSeq(b, 1, n) = Span(a, a + n) /\ Brings(From(b, n + 1), rest, a + n, e, o)
  <2>1. /\ b \in Seq(Item) /\ a \in Nat /\ e \in Nat /\ n \in Nat /\ n <= Len(b) /\ a + n <= e
        /\ Brings(b, rest, a, e, o)
    BY ONLY <1>3, <1>5, <1>6
  <2> HIDE DEF n, a, e, b, o
  <2>2. Takes(b, n, rest, a, e, o)
    BY ONLY <2>1, <1>7, rest \in Seq(Item), DataPrefix
  <2>3. QED
    BY <2>2 DEF Takes
<1>12. ASSUME d.written = a + n, d.body = c.body \o SubSeq(b, 1, n) PROVE Kept(d, q)
  <2>1. d.written = c.written + n /\ d.body = c.body \o Span(c.written, c.written + n)
    BY <1>11, <1>12
  <2>2. c \in Connection /\ n \in Nat /\ Kept(c, q)
    BY <1>1, <1>2, <1>5
  <2> HIDE DEF n
  <2>3. QED
    BY ONLY <2>1, <2>2, q \in Seq(Item), KeptTaken
<1>13. CASE a + n > c.max /\ d = Fails(c, 413)
  <2>1. c.max \in Nat
    BY <1>1 DEF Connection
  <2>2. Total(r) > LimitOf(r.target)
    BY <1>3, <1>4, <1>6, <1>8, <1>13, <2>1
  <2>3. 413 \in Reasons(r)
    BY <1>8, <2>2, ReasonIs
  <2>4. d.state = "ERROR" /\ d.code = 413
    <3>1. 413 \in Nat /\ c \in Connection
      BY <1>1
    <3>2. Fails(c, 413).state = "ERROR" /\ Fails(c, 413).code = 413
      BY ONLY <3>1, FailsCode
    <3>3. QED
      BY ONLY <1>13, <3>2
  <2>5. QED
    BY <1>9, <2>3, <2>4 DEF Follows, Refused, d
<1>14. CASE (b = <<>> \/ a + n < e) /\ Taken(c, d, n) /\ SameState(c, d)
  <2>1. /\ d.buffer = From(b, n + 1) /\ d.written = a + n /\ d.body = c.body \o SubSeq(b, 1, n)
        /\ SameLine(c, d) /\ SameLimit(c, d) /\ d.length = e /\ ~d.chunked /\ d.state = "BODY"
        /\ d.chunked = c.chunked
    BY <1>14 DEF Taken, SameRequest, SameFraming, SameState
  <2>2. a + n < e
    <3>1. b = <<>> => n = 0
      BY <1>5
    <3>2. QED
      BY <1>3, <1>14, <3>1
  <2>3. Of(d, r)
    BY <1>2, <1>8, <2>1, OfSame
  <2>4. Accepted(d, r)
    BY <1>2, <2>1 DEF Accepted
  <2>5. AtLength(d, d.buffer \o rest, r, t)
    BY <1>3, <1>11, <2>1, <2>2 DEF AtLength, Brings
  <2>6. Kept(d, q)
    BY <1>12, <2>1
  <2>7. At(d, d.buffer \o rest, r, t)
    BY <2>3, <2>4, <2>5 DEF At
  <2>8. QED
    BY <1>9, <2>6, <2>7 DEF Follows, d
<1>15. CASE /\ a + n <= c.max /\ a + n = e /\ d.buffer = <<>> /\ d.state = "COMPLETE"
            /\ d.max = c.max /\ d.limit = c.limit
            /\ SameLine(c, d) /\ SameFraming(c, d)
            /\ d.written = a + n /\ d.body = c.body \o SubSeq(b, 1, n)
  <2>1. d.length = e /\ ~d.chunked /\ d.chunked = c.chunked
    BY <1>15 DEF SameFraming
  <2>2. Of(d, r)
    BY <1>2, <1>15, <2>1 DEF Of, SameLine
  <2>3. Accepted(d, r)
    BY <1>2, <2>1 DEF Accepted
  <2>4. rest \in Ending(o)
    <3> DEFINE p == From(b, n + 1)
    <3>1. p \in Seq(Item)
      <4>1. n \in 0 .. Len(b)
        BY ONLY <1>3, <1>5
      <4> HIDE DEF n, b
      <4>2. QED
        BY <1>3, <4>1, FromIs
    <3>2. p \o rest = Span(e, e) \o o
      BY <1>11, <1>15 DEF Brings
    <3>3. Span(e, e) = <<>>
      <4>1. e \in Nat /\ e <= e
        BY <1>3
      <4> HIDE DEF e
      <4>2. QED
        BY ONLY <4>1, SpanMore
    <3>4. <<>> \o o = o
      BY <1>7, ConcatEmptySeq
    <3> HIDE DEF p, o
    <3>5. p \o rest = o
      BY ONLY <3>2, <3>3, <3>4
    <3>6. From(o, Len(p) + 1) = rest
      BY <3>1, <3>5, FromEnd
    <3>7. Len(p) \in 0 .. Len(o)
      <4>1. Len(p \o rest) = Len(p) + Len(rest) /\ Len(p) \in Nat /\ Len(rest) \in Nat
        BY <3>1, Joined
      <4>2. QED
        BY <3>5, <4>1
    <3>8. QED
      BY <1>7, <3>6, <3>7, FromEnding
  <2>5. d.buffer \o rest = rest
    BY <1>15, ConcatEmptySeq
  <2>6. AtEnd(d, d.buffer \o rest, r, t)
    BY <1>4, <1>15, <2>4, <2>5 DEF AtEnd
  <2>7. Kept(d, q)
    BY <1>12, <1>15
  <2>8. At(d, d.buffer \o rest, r, t)
    BY <2>2, <2>3, <2>6 DEF At
  <2>9. QED
    BY <1>9, <2>7, <2>8 DEF Follows, d
<1>16. QED
  BY <1>10, <1>13, <1>14, <1>15

-----------------------------------------------------------------------------
(* A body in chunks. *)

LEMMA ChunkStay ==
  ASSUME NEW c, NEW d, NEW r, Of(c, r), Accepted(c, r), c.chunked, ~c.erased, SameRequest(c, d)
  PROVE  Of(d, r) /\ Accepted(d, r) /\ d.chunked
<1>1. SameLine(c, d) /\ SameLimit(c, d) /\ d.length = c.length /\ d.chunked = c.chunked
  BY DEF SameRequest, SameFraming
<1>2. Of(d, r)
  BY <1>1, OfSame
<1>3. QED
  BY <1>1, <1>2 DEF Accepted

\* The line with the size of a chunk.
SizeLine(b, v, x, y) == Begins(b, v, <<Size(x)>>, y)

LEMMA SizeLineIs ==
  ASSUME NEW b \in Seq(Item), NEW v \in Seq(Item), NEW x \in Nat, NEW y \in Seq(Item), SizeLine(b, v, x, y)
  PROVE  \/ CrlfIn(b) = 0
         \/ CrlfIn(b) = 2 /\ b[1].kind = "size" /\ b[1].n = x /\ From(b, 4) \o v = y
<1> DEFINE p == <<Size(x)>>
<1>1. Size(x) \in Item /\ Size(x).kind = "size" /\ Size(x).n = x
  BY ItemKinds
<1>2. p \in Seq(Item) /\ Len(p) = 1 /\ p[1] = Size(x)
  BY <1>1, Tokens
<1>3. Size(x) # CR
  BY <1>1, KindsOfItem
<1>4. Begins(b, v, p, y)
  BY DEF SizeLine
<1> HIDE DEF p
<1>5. \A i \in 1 .. Len(p) : p[i] # CR
  BY <1>2, <1>3
<1>6. EndsIn(b, v, p, y)
  BY ONLY b \in Seq(Item), v \in Seq(Item), y \in Seq(Item), <1>2, <1>4, <1>5, CrlfPrefix
<1>7. 1 + 1 = 2 /\ 1 + 3 = 4 /\ 1 \in 1 .. 1
  OBVIOUS
<1>8. \/ CrlfIn(b) = 0
      \/ CrlfIn(b) = 2 /\ b[1] = p[1] /\ From(b, 4) \o v = y
  BY ONLY <1>2, <1>6, <1>7 DEF EndsIn
<1>9. QED
  BY ONLY <1>1, <1>2, <1>8

LEMMA SizeStep ==
  ASSUME NEW rest \in Seq(Item), NEW r \in Requests, NEW t \in Seq(Item),
         NEW c \in Connection, c.state = "BODY", r.length = 0, AtSize(c, c.buffer \o rest, r, t)
  PROVE  LET d == ChunkSize(c)
             x == d.buffer \o rest
         IN  /\ d.state = "BODY" /\ SameRequest(c, d) /\ SameBody(c, d)
             /\ AtSize(d, x, r, t) \/ AtData(d, x, r, t) \/ AtLast(d, x, r, t)
<1> DEFINE d == ChunkSize(c)
           b == c.buffer
           m == Len(r.chunks)
           S(k) == SumTo(r.chunks, k)
<1>1. b \in Seq(Item) /\ Len(b) \in Nat /\ c.written \in Nat /\ m \in Nat
  BY LenProperties, PiecesTyped DEF Connection
<1>2. PICK k \in 0 .. m : c.written = S(k) /\ b \o rest = Onwards(r, k, t)
  BY DEF AtSize
<1>3. ~c.trailing /\ ~c.done /\ c.size = 0
  BY DEF AtSize
<1>4. SameRequest(c, c) /\ SameBody(c, c) /\ c.state = "BODY"
  BY DEF SameRequest, SameLine, SameLimit, SameFraming, SameBody
<1>5. \/ CrlfIn(b) = 0 /\ d = c
      \/ /\ CrlfIn(b) \in 1 .. Len(b) - 1
         /\ d.buffer = From(b, CrlfIn(b) + 2) /\ SameRequest(c, d) /\ SameBody(c, d)
         /\ \/ (CrlfIn(b) # 2 \/ b[1].kind # "size") /\ d.state = "ERROR" /\ d.code = 400
            \/ /\ CrlfIn(b) = 2 /\ b[1].kind = "size" /\ b[1].n = 0 /\ SameState(c, d)
               /\ d.size = c.size /\ d.done /\ d.trailing
            \/ /\ CrlfIn(b) = 2 /\ b[1].kind = "size" /\ b[1].n > 0 /\ SameState(c, d)
               /\ d.size = b[1].n /\ d.done = c.done /\ d.trailing = c.trailing
  <2>1. \/ CrlfIn(b) = 0 /\ d = c
        \/ /\ CrlfIn(b) \in 1 .. Len(b) - 1
           /\ d.buffer = From(b, CrlfIn(b) + 2) /\ d.headers = c.headers
           /\ SameRequest(c, d) /\ SameBody(c, d)
           /\ \/ (CrlfIn(b) # 2 \/ b[1].kind # "size") /\ d.state = "ERROR" /\ d.code = 400
              \/ /\ CrlfIn(b) = 2 /\ b[1].kind = "size" /\ b[1].n = 0 /\ SameState(c, d)
                 /\ d.size = c.size /\ d.done /\ d.trailing
              \/ /\ CrlfIn(b) = 2 /\ b[1].kind = "size" /\ b[1].n > 0 /\ SameState(c, d)
                 /\ d.size = b[1].n /\ d.done = c.done /\ d.trailing = c.trailing
    BY ChunkSizeIs
  <2> HIDE DEF d, b
  <2>2. QED
    BY ONLY <2>1
<1> HIDE DEF d
<1>6. 2 + 2 = 4
  OBVIOUS
<1>7. CASE CrlfIn(b) = 0
  <2>1. d = c
    BY <1>5, <1>7
  <2>2. QED
    BY <1>4, <2>1 DEF d
<1>8. CASE CrlfIn(b) # 0 /\ k < m
  <2> DEFINE j == k + 1
             o == Onwards(r, j, t)
             y == Span(S(k), S(j)) \o (Crlf \o o)
             x == r.chunks[j]
  <2>1. k \in 0 .. m - 1 /\ j \in 1 .. m /\ j \in 0 .. m /\ j - 1 = k /\ k \in 0 .. m
    BY <1>1, <1>2, <1>8
  <2>2. S(k) \in Nat /\ S(j) \in Nat /\ S(j) = S(k) + x /\ S(k) <= S(j) /\ x \in Nat /\ x > 0
    <3>1. S(j) = S(j - 1) + r.chunks[j] /\ S(j - 1) < S(j) /\ S(k) \in Nat /\ S(j) \in Nat
      BY <2>1, TotalIs
    <3>2. x \in Nat /\ x > 0
      BY <2>1, AskedBody
    <3>3. QED
      BY <2>1, <3>1, <3>2
  <2>3. o \in Seq(Item) /\ Crlf \o o \in Seq(Item)
    <3>1. o \in Seq(Item)
      BY <2>1, Onward
    <3> HIDE DEF o
    <3>2. QED
      BY <3>1, Tokens, Joined
  <2>4. y \in Seq(Item)
    BY <2>2, <2>3, SpanIs, Joined
  <2>5. Onwards(r, k, t) = <<Size(x)>> \o (Crlf \o y)
    BY <2>1, Onward
  <2>6. SizeLine(b, rest, x, y)
    BY <1>2, <2>5 DEF SizeLine, Begins
  <2>7. CrlfIn(b) = 2 /\ b[1].kind = "size" /\ b[1].n = x /\ From(b, 4) \o rest = y
    <3> HIDE DEF b, x, y
    <3>1. QED
      BY ONLY <1>1, <1>8, <2>2, <2>4, <2>6, rest \in Seq(Item), SizeLineIs
  <2>8. /\ d.buffer = From(b, 4) /\ SameRequest(c, d) /\ SameBody(c, d)
        /\ SameState(c, d) /\ d.size = x /\ ~d.done /\ ~d.trailing
    <3> HIDE DEF b, x
    <3>1. QED
      BY ONLY <1>3, <1>5, <1>6, <2>2, <2>7
  <2>9. d.written = S(k) /\ d.state = "BODY"
    BY <1>2, <2>8 DEF SameBody, SameState
  <2>10. AtData(d, d.buffer \o rest, r, t)
    BY <2>1, <2>2, <2>7, <2>8, <2>9 DEF AtData
  <2>11. QED
    BY <2>8, <2>9, <2>10 DEF d
<1>9. CASE CrlfIn(b) # 0 /\ k = m
  <2> DEFINE y == Crlf \o (End(r) \o t)
  <2>1. y \in Seq(Item)
    <3>1. End(r) \o t \in Seq(Item)
      BY Onward
    <3>2. QED
      BY <3>1, Tokens, Joined
  <2>2. Onwards(r, k, t) = <<Size(0)>> \o (Crlf \o y)
    BY <1>9, Onward
  <2>3. SizeLine(b, rest, 0, y)
    BY <1>2, <2>2 DEF SizeLine, Begins
  <2>4. CrlfIn(b) = 2 /\ b[1].kind = "size" /\ b[1].n = 0 /\ From(b, 4) \o rest = y
    <3>1. 0 \in Nat
      OBVIOUS
    <3> HIDE DEF b, y
    <3>2. QED
      BY ONLY <1>1, <1>9, <2>1, <2>3, <3>1, rest \in Seq(Item), SizeLineIs
  <2>5. /\ d.buffer = From(b, 4) /\ SameRequest(c, d) /\ SameBody(c, d)
        /\ SameState(c, d) /\ d.done /\ d.trailing
    <3> HIDE DEF b
    <3>1. QED
      BY ONLY <1>5, <1>6, <2>4
  <2>6. d.written = S(m) /\ d.state = "BODY"
    BY <1>2, <1>9, <2>5 DEF SameBody, SameState
  <2>7. Total(r) = S(m)
    BY <1>1, TotalIs DEF Total
  <2>8. AtLast(d, d.buffer \o rest, r, t)
    BY <2>4, <2>5, <2>6, <2>7 DEF AtLast
  <2>9. QED
    BY <2>5, <2>6, <2>8 DEF d
<1>10. QED
  BY <1>1, <1>2, <1>7, <1>8, <1>9

\* The data of a chunk.
LEMMA DataStep ==
  ASSUME NEW rest \in Seq(Item), NEW q \in Seq(Item), NEW r \in Requests, NEW t \in Seq(Item),
         NEW c \in Connection, c.state = "BODY", Of(c, r), Kept(c, q), AtData(c, c.buffer \o rest, r, t)
  PROVE  LET d == ChunkData(c)
             x == d.buffer \o rest
         IN  \/ Refused(d, r)
             \/ /\ d.state = "BODY" /\ SameRequest(c, d) /\ Kept(d, q)
                /\ AtData(d, x, r, t) \/ AtTrailing(d, x, r, t)
<1> DEFINE d == ChunkData(c)
           b == c.buffer
           a == c.written
           n == Least(c.size, Len(b))
           S(k) == SumTo(r.chunks, k)
<1>1. b \in Seq(Item) /\ Len(b) \in Nat /\ a \in Nat /\ c.size \in Nat /\ Len(r.chunks) \in Nat /\ c.max \in Nat
  BY LenProperties, PiecesTyped DEF Connection
<1>2. ~c.trailing /\ ~c.done /\ c.size > 0
  BY DEF AtData
<1>3. PICK k \in 1 .. Len(r.chunks) :
        a + c.size = S(k) /\ b \o rest = Span(a, S(k)) \o (Crlf \o Onwards(r, k, t))
  BY DEF AtData
<1> DEFINE e == S(k)
           y == Crlf \o Onwards(r, k, t)
<1>4. k \in 0 .. Len(r.chunks)
  BY <1>1
<1>5. e \in Nat /\ e <= Total(r) /\ Total(r) \in Nat
  BY <1>4, TotalIs
<1>6. y \in Seq(Item)
  <2>1. Onwards(r, k, t) \in Seq(Item)
    BY <1>4, Onward
  <2>2. QED
    BY <2>1, Tokens, Joined
<1>7. Brings(b, rest, a, e, y) /\ a + c.size = e
  BY <1>3 DEF Brings
<1>8. n \in Nat /\ n <= c.size /\ n <= Len(b)
  BY <1>1, LeastIs
<1>9. /\ d \in Connection
      /\ \/ a + n > c.max /\ d = Fails(c, 413)
         \/ /\ a + n <= c.max /\ Taken(c, d, n) /\ SameState(c, d)
            /\ d.size = c.size - n /\ d.trailing = (c.size = n) /\ d.done = c.done
  BY <1>2, ChunkDataIs
<1> HIDE DEF d, n, e, y
<1>10. a + n <= e /\ a + n \in Nat /\ (c.size = n => a + n = e) /\ (a + n) + (c.size - n) = e
       /\ c.size - n \in Nat
  <2> DEFINE m == c.size
  <2>1. /\ a \in Nat /\ n \in Nat /\ e \in Nat /\ m \in Nat /\ n <= m /\ a + m = e
    BY <1>1, <1>5, <1>7, <1>8
  <2>2. a + n <= e /\ a + n \in Nat /\ (m = n => a + n = e) /\ (a + n) + (m - n) = e /\ m - n \in Nat
    <3> HIDE DEF a, m
    <3>1. QED
      BY ONLY <2>1
  <2>3. QED
    BY ONLY <2>2
<1>11. CASE a + n > c.max /\ d = Fails(c, 413)
  <2>1. c.max = LimitOf(r.target) /\ r.code = 200
    BY DEF Of
  <2>2. Total(r) > LimitOf(r.target)
    BY <1>1, <1>5, <1>10, <1>11, <2>1
  <2>3. 413 \in Reasons(r)
    BY <2>1, <2>2, ReasonIs
  <2>4. 413 \in Nat /\ c \in Connection
    OBVIOUS
  <2>5. Fails(c, 413).state = "ERROR" /\ Fails(c, 413).code = 413
    BY ONLY <2>4, FailsCode
  <2>6. QED
    BY <1>11, <2>3, <2>5 DEF Refused, d
<1>12. CASE /\ Taken(c, d, n) /\ SameState(c, d)
            /\ d.size = c.size - n /\ d.trailing = (c.size = n) /\ d.done = c.done
  <2>1. SubSeq(b, 1, n) = Span(a, a + n) /\ Brings(From(b, n + 1), rest, a + n, e, y)
    <3>1. /\ b \in Seq(Item) /\ a \in Nat /\ e \in Nat /\ n \in Nat /\ n <= Len(b) /\ a + n <= e
          /\ Brings(b, rest, a, e, y)
      BY ONLY <1>1, <1>5, <1>7, <1>8, <1>10
    <3>2. rest \in Seq(Item) /\ y \in Seq(Item)
      BY <1>6
    <3> HIDE DEF a, b
    <3>3. Takes(b, n, rest, a, e, y)
      BY ONLY <3>1, <3>2, DataPrefix
    <3>4. QED
      BY <3>3 DEF Takes
  <2>2. /\ d.buffer = From(b, n + 1) /\ SameRequest(c, d)
        /\ d.written = a + n /\ d.body = c.body \o SubSeq(b, 1, n)
        /\ d.state = "BODY"
    BY <1>12 DEF Taken, SameState
  <2>3. Kept(d, q)
    <3>1. d.written = c.written + n /\ d.body = c.body \o Span(c.written, c.written + n)
      BY <2>1, <2>2
    <3>2. QED
      BY ONLY <1>8, <3>1, c \in Connection, q \in Seq(Item), Kept(c, q), KeptTaken
  <2>4. CASE c.size = n
    <3>8. d.size = 0 /\ d.written = e
      BY ONLY <1>1, <1>10, <1>12, <2>2, <2>4
    <3>9. d.trailing /\ ~d.done
      BY ONLY <1>2, <1>12, <2>4
    <3>1. d.trailing /\ ~d.done /\ d.size = 0 /\ d.written = e
      BY <3>8, <3>9
    <3>2. Brings(d.buffer, rest, e, e, y)
      BY <1>10, <2>1, <2>2, <2>4
    <3>3. Span(e, e) = <<>>
      <4>1. e \in Nat /\ e <= e
        BY <1>5
      <4>2. QED
        BY ONLY <4>1, SpanMore
    <3>4. <<>> \o y = y
      BY <1>6, ConcatEmptySeq
    <3>5. d.buffer \o rest = y
      BY ONLY <3>2, <3>3, <3>4 DEF Brings
    <3>6. AtTrailing(d, d.buffer \o rest, r, t)
      BY <3>1, <3>5 DEF AtTrailing, e, y
    <3>7. QED
      BY <2>2, <2>3, <3>6 DEF d
  <2>5. CASE c.size # n
    <3>1. ~d.trailing /\ ~d.done
      BY <1>2, <1>12, <2>5
    <3>2. d.size > 0
      BY <1>1, <1>8, <1>12, <2>5
    <3>3. d.written + d.size = e
      BY <1>10, <1>12, <2>2
    <3>4. d.buffer \o rest = Span(d.written, e) \o y
      BY <2>1, <2>2 DEF Brings
    <3>5. AtData(d, d.buffer \o rest, r, t)
      BY <3>1, <3>2, <3>3, <3>4 DEF AtData, e, y
    <3>6. QED
      BY <2>2, <2>3, <3>5 DEF d
  <2>6. QED
    BY <2>4, <2>5
<1>13. QED
  BY <1>9, <1>11, <1>12

AfterCrlf(b, v, w) == b \o v = Crlf \o w

LEMMA CrlfGone ==
  ASSUME NEW b \in Seq(Item), NEW v \in Seq(Item), NEW w \in Seq(Item), Len(b) >= 2, AfterCrlf(b, v, w)
  PROVE  From(b, 3) \o v = w
<1> DEFINE a == Crlf
<1>0. a \in Seq(Item) /\ Len(a) = 2
  BY Tokens
<1>1. a \in Seq(Item) /\ Len(a) <= Len(b) /\ b \o v = a \o w
  BY Tokens DEF AfterCrlf
<1> HIDE DEF a
<1>2. b \in Seq(Item) /\ v \in Seq(Item) /\ w \in Seq(Item)
  OBVIOUS
<1>3. From(b, Len(a) + 1) \o v = w
  BY ONLY <1>1, <1>2, Behind
<1>4. 2 + 1 = 3
  OBVIOUS
<1>5. QED
  BY ONLY <1>0, <1>3, <1>4

\* The CR LF behind the data of a chunk, or behind the last chunk.
LEMMA TrailingStep ==
  ASSUME NEW rest \in Seq(Item), NEW r \in Requests, NEW t \in Seq(Item),
         NEW c \in Connection, c.state = "BODY", c.written <= c.max,
         AtTrailing(c, c.buffer \o rest, r, t) \/ AtLast(c, c.buffer \o rest, r, t)
  PROVE  LET d == ChunkTrailing(c)
             x == d.buffer \o rest
         IN  /\ SameRequest(c, d) /\ SameBody(c, d)
             /\ \/ /\ d.state = "BODY"
                   /\ AtTrailing(d, x, r, t) \/ AtLast(d, x, r, t) \/ AtSize(d, x, r, t)
                \/ AtEnd(d, x, r, t)
<1> DEFINE d == ChunkTrailing(c)
           b == c.buffer
<1>1. b \in Seq(Item) /\ Len(b) \in Nat
  BY LenProperties DEF Connection
<1>2. /\ d \in Connection
      /\ \/ Len(b) < 2 /\ d = c
         \/ /\ Len(b) >= 2 /\ d.buffer = From(b, 3) /\ d.headers = c.headers
            /\ SameRequest(c, d) /\ SameBody(c, d)
            /\ d.size = 0 /\ ~d.trailing /\ d.done = c.done
            /\ d.state = IF c.done THEN "COMPLETE" ELSE c.state
  BY ChunkTrailingIs
<1> HIDE DEF d
<1>3. ASSUME NEW w \in Seq(Item), b \o rest = Crlf \o w, Len(b) >= 2 PROVE From(b, 3) \o rest = w
  <2>1. AfterCrlf(b, rest, w)
    BY <1>3 DEF AfterCrlf
  <2>2. b \in Seq(Item) /\ rest \in Seq(Item) /\ w \in Seq(Item)
    BY <1>1
  <2>3. Len(b) >= 2
    BY <1>3
  <2> HIDE DEF b
  <2>4. QED
    BY ONLY <2>1, <2>2, <2>3, CrlfGone
<1>4. CASE Len(b) < 2
  <2>1. d = c
    BY <1>1, <1>2, <1>4
  <2>2. SameRequest(c, c) /\ SameBody(c, c)
    BY DEF SameRequest, SameLine, SameLimit, SameFraming, SameBody
  <2>3. QED
    BY <2>1, <2>2 DEF d
<1>5. CASE Len(b) >= 2 /\ AtTrailing(c, b \o rest, r, t)
  <2>1. PICK k \in 1 .. Len(r.chunks) : c.written = SumTo(r.chunks, k) /\ b \o rest = Crlf \o Onwards(r, k, t)
    BY <1>5 DEF AtTrailing
  <2>2. Len(r.chunks) \in Nat /\ k \in 0 .. Len(r.chunks)
    BY <2>1, PiecesTyped
  <2>3. Onwards(r, k, t) \in Seq(Item)
    BY <2>2, Onward
  <2>4. From(b, 3) \o rest = Onwards(r, k, t)
    BY <1>3, <1>5, <2>1, <2>3
  <2>5. /\ d.buffer = From(b, 3) /\ SameRequest(c, d) /\ SameBody(c, d)
        /\ d.size = 0 /\ ~d.trailing /\ ~d.done /\ d.state = "BODY"
    <3>1. ~c.done /\ Len(b) >= 2 /\ c.state = "BODY"
      BY <1>5 DEF AtTrailing
    <3>2. ~(Len(b) < 2)
      BY <1>1, <3>1
    <3> HIDE DEF b
    <3>3. QED
      BY ONLY <1>2, <3>1, <3>2
  <2>6. d.written = c.written
    BY <2>5 DEF SameBody
  <2>7. AtSize(d, d.buffer \o rest, r, t)
    BY <2>1, <2>2, <2>4, <2>5, <2>6 DEF AtSize
  <2>8. QED
    BY <2>5, <2>7 DEF d
<1>6. CASE Len(b) >= 2 /\ AtLast(c, b \o rest, r, t)
  <2> DEFINE o == End(r) \o t
  <2>1. c.done /\ c.written = Total(r) /\ b \o rest = Crlf \o o
    BY <1>6 DEF AtLast
  <2>2. o \in Seq(Item)
    BY Onward
  <2> HIDE DEF o
  <2>3. From(b, 3) \o rest = o
    BY <1>3, <1>6, <2>1, <2>2
  <2>4. /\ d.buffer = From(b, 3) /\ SameRequest(c, d) /\ SameBody(c, d) /\ d.state = "COMPLETE"
    <3>1. Len(b) >= 2 /\ ~(Len(b) < 2)
      BY <1>1, <1>6
    <3>2. c.done
      BY <2>1
    <3> HIDE DEF b
    <3>3. QED
      BY ONLY <1>2, <3>1, <3>2
  <2>5. d.written = Total(r) /\ d.written <= d.max
    BY <2>1, <2>4 DEF SameBody, SameRequest, SameLimit
  <2>6. o \in Ending(o)
    BY <2>2, EndingIs
  <2>7. AtEnd(d, d.buffer \o rest, r, t)
    BY <2>3, <2>4, <2>5, <2>6 DEF AtEnd, o
  <2>8. QED
    BY <2>4, <2>7 DEF d
<1>7. QED
  BY <1>1, <1>4, <1>5, <1>6

LEMMA FollowsChunk ==
  ASSUME NEW rest \in Seq(Item), NEW q \in Seq(Item), NEW r \in Requests, NEW t \in Seq(Item),
         NEW c \in Follows(rest, q, r, t), c.state = "BODY", c.chunked
  PROVE  ChunkStep(c) \in Follows(rest, q, r, t)
<1> DEFINE d == ChunkStep(c)
           x == c.buffer \o rest
           y == d.buffer \o rest
<1>1. /\ c \in Connection /\ Sane(c)
      /\ Refused(c, r) \/ (At(c, x, r, t) /\ Kept(c, q))
  BY DEF Follows
<1>2. /\ Of(c, r) /\ Accepted(c, r) /\ AtChunk(c, x, r, t) /\ Kept(c, q)
  BY <1>1 DEF Refused, At, AtFields, AtLength, AtEnd
<1>3. Sane(d) /\ d \in Connection
  <2>1. Sane(d)
    BY <1>1, ChunkStepSane
  <2>2. QED
    BY <2>1 DEF Sane
<1>4. ~c.erased /\ r.length = 0
  BY <1>2 DEF Of, Accepted
<1>5. AtSize(c, x, r, t) \/ AtData(c, x, r, t) \/ AtTrailing(c, x, r, t) \/ AtLast(c, x, r, t)
  BY <1>2 DEF AtChunk
<1>6. /\ AtSize(c, x, r, t) => d = ChunkSize(c)
      /\ AtData(c, x, r, t) => d = ChunkData(c)
      /\ AtTrailing(c, x, r, t) \/ AtLast(c, x, r, t) => d = ChunkTrailing(c)
  BY <1>1, ChunkStepIs DEF AtSize, AtData, AtTrailing, AtLast
<1> HIDE DEF d
<1>7. ASSUME SameRequest(c, d), Kept(d, q),
             \/ /\ d.state = "BODY"
                /\ AtSize(d, y, r, t) \/ AtData(d, y, r, t) \/ AtTrailing(d, y, r, t) \/ AtLast(d, y, r, t)
             \/ AtEnd(d, y, r, t)
      PROVE  d \in Follows(rest, q, r, t)
  <2>1. Of(d, r) /\ Accepted(d, r) /\ d.chunked
    BY <1>2, <1>4, <1>7, ChunkStay
  <2>2. At(d, y, r, t)
    BY <1>7, <2>1 DEF At, AtChunk
  <2>3. QED
    BY <1>3, <1>7, <2>2 DEF Follows
<1>8. CASE AtSize(c, x, r, t)
  <2>1. d = ChunkSize(c)
    BY <1>6, <1>8
  <2>2. /\ d.state = "BODY" /\ SameRequest(c, d) /\ SameBody(c, d)
        /\ AtSize(d, y, r, t) \/ AtData(d, y, r, t) \/ AtLast(d, y, r, t)
    BY <1>1, <1>4, <1>8, <2>1, SizeStep
  <2>3. Kept(d, q)
    BY <1>2, <2>2, KeptSame
  <2>4. QED
    BY <1>7, <2>2, <2>3 DEF d
<1>9. CASE AtData(c, x, r, t)
  <2>1. d = ChunkData(c)
    BY <1>6, <1>9
  <2>2. \/ Refused(d, r)
        \/ /\ d.state = "BODY" /\ SameRequest(c, d) /\ Kept(d, q)
           /\ AtData(d, y, r, t) \/ AtTrailing(d, y, r, t)
    BY <1>1, <1>2, <1>9, <2>1, DataStep
  <2>3. Refused(d, r) => d \in Follows(rest, q, r, t)
    BY <1>3 DEF Follows
  <2>4. QED
    BY <1>7, <2>2, <2>3 DEF d
<1>10. CASE AtTrailing(c, x, r, t) \/ AtLast(c, x, r, t)
  <2>1. d = ChunkTrailing(c)
    BY <1>6, <1>10
  <2>2. /\ SameRequest(c, d) /\ SameBody(c, d)
        /\ \/ /\ d.state = "BODY"
              /\ AtTrailing(d, y, r, t) \/ AtLast(d, y, r, t) \/ AtSize(d, y, r, t)
           \/ AtEnd(d, y, r, t)
    <3>1. c.written <= c.max
      BY <1>1 DEF Sane
    <3>2. QED
      BY <1>1, <1>10, <2>1, <3>1, TrailingStep
  <2>3. Kept(d, q)
    BY <1>2, <2>2, KeptSame
  <2>4. QED
    BY <1>7, <2>2, <2>3 DEF d
<1>11. QED
  BY <1>5, <1>8, <1>9, <1>10

-----------------------------------------------------------------------------
(* The request line. *)

\* Of what is to be parsed, the request after n items, none of them a line.
Begun(x, n, r, t) ==
  /\ n \in 0 .. Len(x) /\ \A i \in 1 .. n : x[i].kind # "line"
  /\ From(x, n + 1) = Wire(r) \o t
\* Item by item.
Starts(x, n, r, t) ==
  /\ n \in Nat /\ n + 3 <= Len(x) /\ Len(x) \in Nat
  /\ x[n + 1] = LineOf(r) /\ x[n + 2] = CR /\ x[n + 3] = LF
  /\ From(x, n + 4) = Remainder(r) \o t /\ Remainder(r) \o t \in Seq(Item)

LEMMA BegunIs ==
  ASSUME NEW x \in Seq(Item), NEW n, NEW r \in Requests, NEW t \in Seq(Item), Begun(x, n, r, t)
  PROVE  Starts(x, n, r, t)
<1> DEFINE l == <<LineOf(r)>>
           w == Remainder(r)
           y == From(x, n + 1)
           o == Crlf \o (w \o t)
<1>1. n \in 0 .. Len(x) /\ Len(x) \in Nat /\ n \in Nat
  BY LenProperties DEF Begun
<1>2. y \in Seq(Item) /\ Len(y) = Len(x) - n /\ \A i \in 1 .. Len(x) - n : y[i] = x[n + i]
  BY <1>1, FromIs
<1>3. l \in Seq(Item) /\ Len(l) = 1 /\ l[1] = LineOf(r)
  BY WireIs, Tokens
<1>4. w \in Seq(Item) /\ Crlf \in Seq(Item) /\ Len(Crlf) = 2 /\ Crlf[1] = CR /\ Crlf[2] = LF
  <2>1. w \in Seq(Plain)
    BY WireIs
  <2>2. w \in Seq(Item)
    BY ONLY <2>1, PlainIs, SeqMonotonic
  <2>3. QED
    BY <2>2, Tokens
<1>5. w \o t \in Seq(Item)
  BY <1>4, Joined
<1>6. y = (l \o (Crlf \o w)) \o t
  BY WireIs DEF Begun
<1> HIDE DEF l, w, y
<1>7. y = l \o o
  <2>1. Crlf \o w \in Seq(Item)
    BY <1>4, Joined
  <2>2. Groups(l, Crlf \o w, t)
    <3>1. l \in Seq(Item) /\ (Crlf \o w) \in Seq(Item) /\ t \in Seq(Item)
      BY <1>3, <2>1
    <3>2. QED
      BY ONLY <3>1, Grouped
  <2>3. Groups(Crlf, w, t)
    <3>1. Crlf \in Seq(Item) /\ w \in Seq(Item) /\ t \in Seq(Item)
      BY <1>4
    <3>2. QED
      BY ONLY <3>1, Grouped
  <2>4. l \o ((Crlf \o w) \o t) = (l \o (Crlf \o w)) \o t /\ Crlf \o (w \o t) = (Crlf \o w) \o t
    BY <2>2, <2>3 DEF Groups
  <2>5. QED
    BY <1>6, <2>4
<1>8. o \in Seq(Item) /\ Len(o) = 2 + Len(w \o t) /\ Len(w \o t) \in Nat /\ o[1] = CR /\ o[2] = LF
  <2>1. o \in Seq(Item) /\ Len(o) = Len(Crlf) + Len(w \o t) /\ Len(w \o t) \in Nat
    BY <1>4, <1>5, Joined
  <2>2. \A i \in 1 .. Len(Crlf) : o[i] = Crlf[i]
    BY <1>4, <1>5, Joined
  <2>3. QED
    BY <1>4, <2>1, <2>2
<1> HIDE DEF o
<1>9. Len(y) = 1 + Len(o) /\ y[1] = LineOf(r) /\ y[1 + 1] = CR /\ y[1 + 2] = LF
  <2>1. Len(y) = Len(l) + Len(o) /\ \A i \in 1 .. Len(l) : y[i] = l[i]
    BY <1>3, <1>7, <1>8, Joined
  <2>2. \A i \in 1 .. Len(o) : y[Len(l) + i] = o[i]
    BY <1>3, <1>7, <1>8, Joined
  <2>3. 1 \in 1 .. Len(l) /\ 1 \in 1 .. Len(o) /\ 2 \in 1 .. Len(o)
    BY <1>3, <1>8
  <2>4. QED
    BY <1>3, <1>8, <2>1, <2>2, <2>3
<1>10. n + 3 <= Len(x) /\ n + 3 \in 0 .. Len(x) /\ 1 \in 1 .. Len(x) - n /\ 2 \in 1 .. Len(x) - n /\ 3 \in 1 .. Len(x) - n
  BY ONLY <1>1, <1>2, <1>8, <1>9
<1>11. x[n + 1] = LineOf(r) /\ x[n + 2] = CR /\ x[n + 3] = LF
  BY <1>2, <1>9, <1>10
<1>12. From(x, n + 4) = w \o t
  <2> DEFINE z == SubSeq(x, 1, n)
             a == l \o Crlf
             b == z \o a
             u == w \o t
  <2>1. x = z \o y /\ z \in Seq(Item) /\ Len(z) = n
    BY <1>1, CutAt, FirstIs DEF y
  <2>2. a \in Seq(Item) /\ Len(a) = 3
    <3>1. a \in Seq(Item) /\ Len(a) = Len(l) + Len(Crlf)
      BY <1>3, <1>4, Joined
    <3>2. 1 + 2 = 3
      OBVIOUS
    <3>3. QED
      BY <1>3, <1>4, <3>1, <3>2
  <2>3. y = a \o u
    <3>1. l \o (Crlf \o u) = (l \o Crlf) \o u
      <4>1. l \in Seq(Item) /\ Crlf \in Seq(Item) /\ u \in Seq(Item)
        BY <1>3, <1>4, <1>5
      <4>2. Groups(l, Crlf, u)
        BY ONLY <4>1, Grouped
      <4>3. QED
        BY <4>2 DEF Groups
    <3>2. QED
      BY <1>7, <3>1 DEF o
  <2> HIDE DEF z, a, u
  <2>4. z \o (a \o u) = (z \o a) \o u
    <3>1. z \in Seq(Item) /\ a \in Seq(Item) /\ u \in Seq(Item)
      BY <1>5, <2>1, <2>2 DEF u
    <3>2. Groups(z, a, u)
      BY ONLY <3>1, Grouped
    <3>3. QED
      BY <3>2 DEF Groups
  <2>5. x = b \o u
    BY <2>1, <2>3, <2>4
  <2>6. b \in Seq(Item) /\ Len(b) = n + 3 /\ u \in Seq(Item)
    <3>1. b \in Seq(Item) /\ Len(b) = Len(z) + Len(a)
      BY <2>1, <2>2, Joined
    <3>2. QED
      BY <1>5, <2>1, <2>2, <3>1 DEF u
  <2> HIDE DEF b
  <2>7. From(x, Len(b) + 1) = u
    BY <2>5, <2>6, FromEnd
  <2>8. (n + 3) + 1 = n + 4
    BY <1>1
  <2>9. QED
    BY <2>6, <2>7, <2>8 DEF u
<1>13. QED
  BY <1>1, <1>5, <1>10, <1>11, <1>12 DEF w, Starts

LEMMA LineOfIs ==
  ASSUME NEW r \in Requests
  PROVE  /\ LineOf(r) \in Item /\ LineOf(r).kind = "line"
         /\ LineOf(r).method = r.method /\ LineOf(r).target = r.target /\ LineOf(r).code = r.code
<1>1. r.method \in Word /\ r.target \in Word /\ r.code \in Nat
  BY AskedTyped
<1>2. QED
  BY <1>1, ItemKinds DEF LineOf

\* What the items are that have been read is known from all of them.
LEMMA ReadSoFar ==
  ASSUME NEW b \in Seq(Item), NEW rest \in Seq(Item)
  PROVE  /\ b \o rest \in Seq(Item) /\ Len(b) \in Nat /\ Len(b) <= Len(b \o rest) /\ Len(b \o rest) \in Nat
         /\ \A i \in 1 .. Len(b) : (b \o rest)[i] = b[i] /\ b[i] \in Item
<1>1. Len(b \o rest) = Len(b) + Len(rest) /\ Len(b) \in Nat /\ Len(rest) \in Nat /\ b \o rest \in Seq(Item)
  BY Joined
<1>2. \A i \in 1 .. Len(b) : (b \o rest)[i] = b[i] /\ b[i] \in Item
  BY Joined, ElementOfSeq
<1>3. Len(b) <= Len(b \o rest) /\ Len(b \o rest) \in Nat
  BY ONLY <1>1
<1>4. QED
  BY <1>1, <1>2, <1>3

\* Where the line is: behind all that is skipped, or something else is in front of it.
LEMMA SkippedTo ==
  ASSUME NEW b \in Seq(Item), NEW rest \in Seq(Item), NEW r \in Requests, NEW t \in Seq(Item),
         NEW n, Begun(b \o rest, n, r, t), Skip(b) < Len(b)
  PROVE  \/ Skip(b) < n /\ b[Skip(b) + 1].kind # "line" /\ (b \o rest)[Skip(b) + 1] \notin {CR, LF}
         \/ Skip(b) = n /\ b[n + 1] = LineOf(r)
<1> DEFINE k == Skip(b)
           x == b \o rest
<1>1. k \in 0 .. Len(b) /\ (\A j \in 1 .. k : b[j] \in {CR, LF}) /\ b[k + 1] \notin {CR, LF}
  BY SkipIs
<1>2. x \in Seq(Item) /\ Len(b) \in Nat /\ Len(b) <= Len(x) /\ \A i \in 1 .. Len(b) : x[i] = b[i]
  BY ReadSoFar
<1>3. n \in Nat /\ x[n + 1] = LineOf(r)
  BY <1>2, BegunIs DEF Starts
<1>4. \A i \in 1 .. n : x[i].kind # "line"
  BY DEF Begun
<1>5. LineOf(r).kind = "line" /\ LineOf(r) \in Item
  BY LineOfIs
<1>6. LineOf(r) \notin {CR, LF}
  BY <1>5, KindsOfItem
<1>0. k < Len(b)
  OBVIOUS
<1> HIDE DEF k, x
<1>7. k + 1 \in 1 .. Len(b) /\ k \in Nat
  BY <1>0, <1>1, <1>2
<1>8. ~(n < k)
  <2>1. n < k => n + 1 \in 1 .. k /\ n + 1 \in 1 .. Len(b)
    BY <1>1, <1>2, <1>3
  <2>2. QED
    BY <1>1, <1>2, <1>3, <1>6, <2>1
<1>9. k < n => k + 1 \in 1 .. n
  BY <1>3, <1>7
<1>10. k < n \/ k = n
  BY <1>3, <1>7, <1>8
<1>11. QED
  BY <1>1, <1>2, <1>3, <1>4, <1>7, <1>9, <1>10 DEF k, x

\* Behind the line of r: nothing of its header fields has been parsed.
LEMMA FieldsBegin ==
  ASSUME NEW r \in Requests, NEW t \in Seq(Item)
  PROVE  /\ Remainder(r) \o t = FlattenSeq(From(Fields(r), 0 + 1)) \o (Crlf \o (Body(r) \o (End(r) \o t)))
         /\ Merged(<<>>, r.headers, 0)
<1> DEFINE f == FlattenSeq(Fields(r))
           b == Body(r)
           e == End(r)
<1>1. Fields(r) \in Seq(Seq(Item))
  <2>1. Fields(r) \in Seq(Seq(Plain)) /\ Plain \in SUBSET Item
    BY PiecesTyped, PlainIs
  <2>2. QED
    BY ONLY <2>1, FlatPlain
<1>2. f \in Seq(Item) /\ From(Fields(r), 0 + 1) = Fields(r)
  <2>1. f \in Seq(Item)
    BY <1>1, FlatTyped
  <2>2. From(Fields(r), 0 + 1) = Fields(r)
    BY <1>1, SubSeqFull DEF From
  <2>3. QED
    BY <2>1, <2>2
<1>3. b \in Seq(Item) /\ e \in Seq(Item) /\ Crlf \in Seq(Item)
  <2>1. b \in Seq(Plain) /\ e \in Seq(Plain)
    BY PiecesTyped
  <2>2. b \in Seq(Item) /\ e \in Seq(Item)
    BY ONLY <2>1, PlainIs, SeqMonotonic
  <2>3. QED
    BY <2>2, Tokens
<1>4. Remainder(r) = f \o (Crlf \o (b \o e))
  BY DEF Remainder
<1> HIDE DEF f, b, e
<1>5. (f \o (Crlf \o (b \o e))) \o t = f \o (Crlf \o (b \o (e \o t)))
  <2>1. b \o e \in Seq(Item)
    BY <1>3, Joined
  <2>2. Crlf \o (b \o e) \in Seq(Item)
    BY <1>3, <2>1, Joined
  <2>3. f \o ((Crlf \o (b \o e)) \o t) = (f \o (Crlf \o (b \o e))) \o t
    <3>1. f \in Seq(Item) /\ (Crlf \o (b \o e)) \in Seq(Item) /\ t \in Seq(Item)
      BY <1>2, <2>2
    <3>2. QED
      BY ONLY <3>1, Together
  <2>4. Crlf \o ((b \o e) \o t) = (Crlf \o (b \o e)) \o t
    <3>1. Crlf \in Seq(Item) /\ (b \o e) \in Seq(Item) /\ t \in Seq(Item)
      BY <1>3, <2>1
    <3>2. QED
      BY ONLY <3>1, Together
  <2>5. b \o (e \o t) = (b \o e) \o t
    BY <1>3, Together
  <2>6. QED
    BY ONLY <2>3, <2>4, <2>5, Zenon
<1>6. Merged(<<>>, r.headers, 0)
  <2>1. Len(<<>>) = 0 /\ 1 .. 0 = {}
    OBVIOUS
  <2>2. Names(<<>>) = {}
    BY <2>1 DEF Names
  <2>3. {r.headers[i].name : i \in 1 .. 0} = {}
    BY <2>1
  <2>4. 0 <= MaxHeaders
    BY Sizes
  <2>5. QED
    BY ONLY <2>1, <2>2, <2>3, <2>4, Zenon DEF Merged
<1>7. QED
  BY <1>2, <1>4, <1>5, <1>6 DEF f, b, e

\* The line of a good request, with all of it there.
LEMMA LineGood ==
  ASSUME NEW rest \in Seq(Item), NEW r \in Requests, r.code = 200, NEW t \in Seq(Item),
         NEW c \in Connection, Fresh(c), c.state = "REQUEST_LINE",
         NEW n \in 0 .. Len(c.buffer), From(c.buffer, n + 1) \o rest = Remainder(r) \o t,
         Sane(ApplyLimit(LineDone(c, LineOf(r), n)))
  PROVE  ApplyLimit(LineDone(c, LineOf(r), n)) \in Follows(rest, <<>>, r, t)
<1> DEFINE e == LineDone(c, LineOf(r), n)
           d == ApplyLimit(e)
<1>1. LineOf(r) \in Item /\ LineOf(r).kind = "line"
  BY LineOfIs
<1>2. LineOf(r).method = r.method /\ LineOf(r).target = r.target /\ LineOf(r).code \notin {404, 414, 501}
  BY LineOfIs
<1>3. /\ e \in Connection /\ SameRest(c, e) /\ e.state = "HEADERS"
      /\ e.buffer = From(c.buffer, n + 1) /\ e.method = r.method /\ e.target = r.target
  <2>1. /\ e \in Connection /\ SameRest(c, e)
        /\ \/ LineOf(r).code \in {404, 414, 501}
           \/ /\ e.state = "HEADERS"
              /\ e.buffer = From(c.buffer, n + 1) /\ e.method = LineOf(r).method /\ e.target = LineOf(r).target
    BY <1>1, LineDoneIs
  <2>2. QED
    BY <1>2, <2>1
<1>4. c.headers = <<>> /\ NoBody(c) /\ ~c.erased
  BY FreshFields
<1>5. e.headers = <<>> /\ e.written = 0 /\ e.body = <<>> /\ ~e.erased
  BY <1>3, <1>4 DEF SameRest, NoBody, SameBody, SameLimit
<1> HIDE DEF e
<1>6. r.target # ""
  BY ONLY r \in Requests, AskedParts DEF AskedTarget
<1>7. /\ d \in Connection /\ d.buffer = e.buffer /\ d.headers = e.headers /\ d.state = "HEADERS"
      /\ d.method = r.method /\ d.target = r.target /\ d.written = 0 /\ d.body = <<>> /\ ~d.erased
      /\ d.max = LimitOf(r.target) /\ d.limit = LimitOf(r.target)
  <2>1. /\ d \in Connection /\ d.buffer = e.buffer /\ d.headers = e.headers /\ SameState(e, d)
        /\ SameLine(e, d) /\ SameBody(e, d) /\ d.erased = e.erased
        /\ d.max = LimitOf(e.target) /\ d.limit = LimitOf(e.target)
    BY <1>3, <1>6, ApplyLimitIs
  <2> HIDE DEF d
  <2>2. QED
    BY <1>3, <1>5, <2>1 DEF SameState, SameLine, SameBody
<1>8. Sane(d)
  BY DEF e
<1> HIDE DEF d
<1>9. Of(d, r)
  BY <1>7 DEF Of
<1>10. AtFields(d, d.buffer \o rest, r, t)
  <2>1. 0 \in 0 .. Len(r.headers)
    BY PiecesTyped
  <2>2. d.buffer \o rest = Remainder(r) \o t
    BY <1>3, <1>7
  <2>3. Merged(d.headers, r.headers, 0)
    BY <1>5, <1>7, FieldsBegin
  <2>4. d.buffer \o rest = FlattenSeq(From(Fields(r), 0 + 1)) \o (Crlf \o (Body(r) \o (End(r) \o t)))
    BY <2>2, FieldsBegin
  <2>5. QED
    BY <1>7, <2>1, <2>3, <2>4 DEF AtFields
<1>11. Kept(d, <<>>)
  <2>1. Datas(0) = <<>>
    <3>1. 0 \in Nat /\ 0 <= 0
      OBVIOUS
    <3>2. Span(0, 0) = <<>> /\ Datas(0) = Span(0, 0)
      BY ONLY <3>1, SpanMore, SpanIs
    <3>3. QED
      BY <3>2
  <2>2. <<>> \o <<>> = <<>>
    OBVIOUS
  <2>3. QED
    BY <1>7, <2>1, <2>2 DEF Kept
<1>12. QED
  BY <1>7, <1>8, <1>9, <1>10, <1>11 DEF Follows, At, d, e

\* The line of a request that is refused for its line.
LEMMA LineBad ==
  ASSUME NEW r \in Requests, NEW c \in Connection, NEW n \in 0 .. Len(c.buffer), r.code \in {404, 414, 501}
  PROVE  LET d == ApplyLimit(LineDone(c, LineOf(r), n)) IN Refused(d, r)
<1> DEFINE e == LineDone(c, LineOf(r), n)
           d == ApplyLimit(e)
<1>1. LineOf(r) \in Item /\ LineOf(r).kind = "line" /\ LineOf(r).code = r.code
  BY LineOfIs
<1>2. e \in Connection /\ e.state = "ERROR" /\ e.code = r.code
  <2>1. /\ e \in Connection
        /\ \/ LineOf(r).code \in {414, 501} /\ e.state = "ERROR" /\ e.code = LineOf(r).code
           \/ LineOf(r).code = 404 /\ e.state = "ERROR" /\ e.code = 404
           \/ LineOf(r).code \notin {404, 414, 501}
    BY <1>1, LineDoneIs
  <2>2. QED
    BY <1>1, <2>1
<1> HIDE DEF e
<1>3. d.state = "ERROR" /\ d.code = r.code
  BY <1>2, ApplyLimitIs DEF SameState
<1>4. Reasons(r) = {r.code}
  BY DEF Reasons
<1>5. QED
  BY <1>3, <1>4 DEF Refused, d, e

LEMMA LineStep ==
  ASSUME NEW rest \in Seq(Item), NEW r \in Requests, NEW t \in Seq(Item),
         NEW c, Sane(c), c.state \in {"IDLE", "REQUEST_LINE"},
         NEW n, Begun(c.buffer \o rest, n, r, t)
  PROVE  LET d == ApplyLimit(ParseRequestLine(Lined(c)))
         IN  \/ d = Lined(c) /\ Len(c.buffer) < n + 3
             \/ d.state = "ERROR" /\ d.code = 400 /\ \E i \in 1 .. n : (c.buffer \o rest)[i] \notin {CR, LF}
             \/ d \in Follows(rest, <<>>, r, t)
<1> DEFINE e == Lined(c)
           b == c.buffer
           x == b \o rest
           l == LineOf(r)
           k == Skip(b)
           p == ParseRequestLine(e)
           d == ApplyLimit(p)
<1>1. e \in Connection /\ Fresh(e) /\ e.buffer = b /\ e.state = "REQUEST_LINE"
  BY LinedIs
<1>2. b \in Seq(Item)
  <2>1. c \in Connection
    BY DEF Sane
  <2>2. QED
    BY <2>1 DEF Connection
<1>3. x \in Seq(Item) /\ Len(b) \in Nat /\ \A i \in 1 .. Len(b) : x[i] = b[i] /\ b[i] \in Item
  BY <1>2, ReadSoFar
<1>4. /\ n \in Nat /\ x[n + 1] = l /\ x[n + 2] = CR /\ x[n + 3] = LF
      /\ From(x, n + 4) = Remainder(r) \o t
  <2>1. x \in Seq(Item) /\ Begun(x, n, r, t)
    BY <1>3
  <2> HIDE DEF x
  <2>2. QED
    <3>1. Starts(x, n, r, t)
      BY ONLY r \in Requests, t \in Seq(Item), <2>1, BegunIs
    <3>2. QED
      BY ONLY <3>1 DEF l, Starts
<1>5. k \in 0 .. Len(b)
  BY <1>2, SkipIs
<1>6. l.kind = "line" /\ l.code = r.code /\ l \in Item
  BY LineOfIs
<1>7. Sane(d) /\ d.state \in {"REQUEST_LINE", "HEADERS", "ERROR"}
  BY RequestLineSane
<1>8. \/ k = Len(b) /\ p = e
      \/ k < Len(b) /\ b[k + 1].kind # "line" /\ p = Fails(e, 400)
      \/ k < Len(b) /\ b[k + 1].kind = "line" /\ b[k + 1].code \in {400, 505} /\ p = Fails(e, b[k + 1].code)
      \/ /\ k < Len(b) /\ b[k + 1].kind = "line" /\ b[k + 1].code \notin {400, 505} /\ p = e
         /\ Len(b) = k + 1 \/ (Len(b) = k + 2 /\ b[k + 2] = CR)
      \/ /\ k + 2 <= Len(b) /\ b[k + 1].kind = "line" /\ b[k + 1].code \notin {400, 505}
         /\ b[k + 2] = LF /\ p = LineDone(e, b[k + 1], k + 2)
      \/ /\ k + 3 <= Len(b) /\ b[k + 1].kind = "line" /\ b[k + 1].code \notin {400, 505}
         /\ b[k + 2] = CR /\ b[k + 3] = LF /\ p = LineDone(e, b[k + 1], k + 3)
      \/ /\ k + 2 <= Len(b) /\ b[k + 1].kind = "line" /\ b[k + 1].code \notin {400, 505}
         /\ b[k + 2] # LF /\ (b[k + 2] = CR => k + 3 <= Len(b) /\ b[k + 3] # LF)
         /\ p = Fails(e, 400)
  <2>1. b = e.buffer
    BY <1>1
  <2> HIDE DEF b, e
  <2>2. QED
    BY ONLY <1>1, <2>1, ParseRequestLineIs
<1>9. p = e => d = e
  <2>1. Limited(e)
    BY <1>1, FreshFields
  <2>2. QED
    BY <1>1, <2>1, ApplyLimitSane
<1>10. CR # LF
  BY ItemKinds
<1>11. k < Len(b) => \/ k < n /\ b[k + 1].kind # "line" /\ x[k + 1] \notin {CR, LF}
                     \/ k = n /\ b[n + 1] = l
  <2>1. b \in Seq(Item) /\ Begun(b \o rest, n, r, t)
    BY <1>2
  <2> HIDE DEF b
  <2>2. Skip(b) < Len(b) => \/ Skip(b) < n /\ b[Skip(b) + 1].kind # "line" /\ (b \o rest)[Skip(b) + 1] \notin {CR, LF}
                            \/ Skip(b) = n /\ b[n + 1] = LineOf(r)
    BY ONLY r \in Requests, rest \in Seq(Item), t \in Seq(Item), <2>1, SkippedTo
  <2>3. QED
    BY <2>2
<1>12. ASSUME NEW code \in Nat, p = Fails(e, code) PROVE d.state = "ERROR" /\ d.code = code
  <2>1. p \in Connection /\ p.state = "ERROR" /\ p.code = code
    BY <1>1, <1>12, FailsIs
  <2> HIDE DEF p
  <2>2. QED
    BY <2>1, ApplyLimitIs DEF SameState
<1> HIDE DEF p, d, e, k, x, b, l
<1>13. CASE k = Len(b)
  <2>1. p = e
    BY <1>3, <1>5, <1>8, <1>13
  <2>2. d = e
    BY <1>9, <2>1
  <2>3. Len(b) < n + 3
    <3>1. \A j \in 1 .. k : b[j] \in {CR, LF}
      BY <1>2, SkipIs DEF k
    <3>2. Len(b) >= n + 3 => n + 1 \in 1 .. k /\ n + 1 \in 1 .. Len(b)
      BY <1>3, <1>4, <1>13
    <3>3. l # CR /\ l # LF
      BY <1>6, KindsOfItem
    <3>4. n + 1 \in 1 .. Len(b) => b[n + 1] = l
      <4>1. x[n + 1] = l /\ \A i \in 1 .. Len(b) : x[i] = b[i]
        BY <1>3, <1>4
      <4>2. QED
        BY ONLY <4>1
    <3>5. ~(Len(b) >= n + 3)
      BY ONLY <3>1, <3>2, <3>3, <3>4
    <3>6. QED
      BY ONLY <1>3, <1>4, <3>5
  <2>4. QED
    BY <2>2, <2>3 DEF d, e, p, b
<1>14. CASE k < Len(b) /\ k < n /\ b[k + 1].kind # "line" /\ x[k + 1] \notin {CR, LF}
  <2>1. p = Fails(e, 400)
    BY <1>3, <1>5, <1>8, <1>14
  <2>2. d.state = "ERROR" /\ d.code = 400
    BY <1>12, <2>1
  <2>3. k + 1 \in 1 .. n
    <3>1. n \in Nat /\ k \in 0 .. Len(b) /\ k < n
      BY <1>4, <1>5, <1>14
    <3>2. QED
      BY ONLY <3>1
  <2>4. \E i \in 1 .. n : x[i] \notin {CR, LF}
    BY ONLY <1>14, <2>3
  <2>5. QED
    BY <2>2, <2>4 DEF d, p, e, x, b
<1>15. CASE k < Len(b) /\ k = n /\ b[n + 1] = l
  <2>1. /\ n + 2 <= Len(b) => b[n + 2] = CR
        /\ n + 3 <= Len(b) => b[n + 3] = LF
    <3>1. /\ n + 2 <= Len(b) => n + 2 \in 1 .. Len(b)
          /\ n + 3 <= Len(b) => n + 3 \in 1 .. Len(b)
      BY <1>3, <1>4
    <3>2. QED
      BY <1>3, <1>4, <3>1
  <2>2. \/ r.code \in {400, 505} /\ p = Fails(e, r.code)
        \/ p = e /\ (Len(b) = n + 1 \/ Len(b) = n + 2)
        \/ n + 3 <= Len(b) /\ r.code \notin {400, 505} /\ p = LineDone(e, l, n + 3)
    <3>1. n + 3 <= Len(b) => n + 2 <= Len(b)
      BY <1>3, <1>4
    <3>2. ~(n = Len(b))
      BY <1>3, <1>15
    <3>3. b[n + 1] = l /\ k = n
      BY <1>15
    <3>4. QED
      BY ONLY <1>6, <1>8, <1>10, <2>1, <3>1, <3>2, <3>3
  <2>3. CASE r.code \in {400, 505} /\ p = Fails(e, r.code)
    <3>1. Reasons(r) = {r.code} /\ r.code \in Nat
      BY <2>3 DEF Reasons
    <3>2. Refused(d, r)
      BY <1>12, <2>3, <3>1 DEF Refused
    <3>3. d \in Connection
      BY <1>7 DEF Sane
    <3>4. QED
      BY <1>7, <3>2, <3>3 DEF Follows, d, p, e
  <2>4. CASE p = e /\ (Len(b) = n + 1 \/ Len(b) = n + 2)
    <3>1. d = e /\ Len(b) < n + 3
      BY <1>3, <1>4, <1>9, <2>4
    <3>2. QED
      BY <3>1 DEF d, p, e, b
  <2>5. CASE n + 3 <= Len(b) /\ r.code \notin {400, 505} /\ p = LineDone(e, l, n + 3)
    <3>1. n + 3 \in 0 .. Len(b) /\ (n + 3) + 1 = n + 4
      <4>1. n \in Nat /\ Len(b) \in Nat /\ n + 3 <= Len(b)
        BY <1>3, <1>4, <2>5
      <4>2. QED
        BY ONLY <4>1
    <3>2. d = ApplyLimit(LineDone(e, LineOf(r), n + 3)) /\ n + 3 \in 0 .. Len(e.buffer)
      BY <1>1, <2>5, <3>1 DEF d, l
    <3>3. CASE r.code \in {404, 414, 501}
      <4>1. Refused(d, r)
        BY <1>1, <3>2, <3>3, LineBad
      <4>2. d \in Connection
        BY <1>7 DEF Sane
      <4>3. QED
        BY <1>7, <4>1, <4>2 DEF Follows, d, p, e
    <3>4. CASE r.code = 200
      <4>1. From(b, n + 4) \o rest = Remainder(r) \o t
        <5>1. From(b \o rest, (n + 3) + 1) = From(b, (n + 3) + 1) \o rest
          BY ONLY <1>2, <3>1, rest \in Seq(Item), FromConcat
        <5>2. QED
          BY <1>4, <3>1, <5>1 DEF x
      <4>2. From(e.buffer, (n + 3) + 1) \o rest = Remainder(r) \o t
        BY <1>1, <3>1, <4>1
      <4>3. d \in Follows(rest, <<>>, r, t)
        <5> DEFINE m == n + 3
        <5>1. /\ e \in Connection /\ Fresh(e) /\ e.state = "REQUEST_LINE" /\ m \in 0 .. Len(e.buffer)
              /\ From(e.buffer, m + 1) \o rest = Remainder(r) \o t /\ r.code = 200
              /\ d = ApplyLimit(LineDone(e, LineOf(r), m)) /\ Sane(d)
          BY <1>1, <1>7, <3>2, <3>4, <4>2
        <5> HIDE DEF m
        <5>2. QED
          BY ONLY rest \in Seq(Item), r \in Requests, t \in Seq(Item), <5>1, LineGood
      <4>4. QED
        BY <4>3 DEF d, p, e
    <3>5. r.code \in {200, 400, 404, 414, 501, 505}
      BY ONLY r \in Requests, AskedParts DEF AskedCode
    <3>6. r.code \in {404, 414, 501} \/ r.code = 200
      BY ONLY <2>5, <3>5
    <3>7. QED
      BY ONLY <3>3, <3>4, <3>6
  <2>6. QED
    BY ONLY <2>2, <2>3, <2>4, <2>5
<1>16. \/ k = Len(b)
       \/ k < Len(b) /\ k < n /\ b[k + 1].kind # "line" /\ x[k + 1] \notin {CR, LF}
       \/ k < Len(b) /\ k = n /\ b[n + 1] = l
  <2>1. k = Len(b) \/ k < Len(b)
    BY <1>3, <1>5
  <2>2. QED
    BY ONLY <1>11, <2>1
<1>17. QED
  BY ONLY <1>13, <1>14, <1>15, <1>16, Zenon

\* Nothing but what is no line.
LEMMA NoLineStep ==
  ASSUME NEW rest \in Seq(Item), NEW c, Sane(c), c.state \in {"IDLE", "REQUEST_LINE"},
         \A i \in 1 .. Len(c.buffer \o rest) : (c.buffer \o rest)[i].kind # "line"
  PROVE  LET d == ApplyLimit(ParseRequestLine(Lined(c)))
         IN  \/ d = Lined(c)
             \/ /\ d.state = "ERROR" /\ d.code = 400 /\ Sane(d)
                /\ \E i \in 1 .. Len(c.buffer \o rest) : (c.buffer \o rest)[i] \notin {CR, LF}
<1> DEFINE e == Lined(c)
           b == c.buffer
           x == b \o rest
           k == Skip(b)
           p == ParseRequestLine(e)
           d == ApplyLimit(p)
<1>1. e \in Connection /\ Fresh(e) /\ e.buffer = b /\ e.state = "REQUEST_LINE"
  BY LinedIs
<1>2. b \in Seq(Item)
  <2>1. c \in Connection
    BY DEF Sane
  <2>2. QED
    BY <2>1 DEF Connection
<1>3. /\ Len(b) \in Nat /\ Len(b) <= Len(x) /\ Len(x) \in Nat
      /\ \A i \in 1 .. Len(b) : x[i] = b[i]
  BY <1>2, ReadSoFar
<1>4. k \in 0 .. Len(b) /\ (k < Len(b) => b[k + 1] \notin {CR, LF})
  BY <1>2, SkipIs
<1>5. k < Len(b) => k + 1 \in 1 .. Len(b) /\ k + 1 \in 1 .. Len(x)
  BY <1>3, <1>4
<1>6. Sane(d)
  BY RequestLineSane
<1>7. k < Len(b) => b[k + 1].kind # "line" /\ x[k + 1] \notin {CR, LF}
  BY <1>3, <1>4, <1>5
<1>8. \/ k = Len(b) /\ p = e
      \/ k < Len(b) /\ b[k + 1].kind # "line" /\ p = Fails(e, 400)
      \/ k < Len(b) /\ b[k + 1].kind = "line"
      \/ k + 2 <= Len(b) /\ b[k + 1].kind = "line"
      \/ k + 3 <= Len(b) /\ b[k + 1].kind = "line"
  <2>1. b = e.buffer
    BY <1>1
  <2> HIDE DEF b, e
  <2>2. QED
    BY ONLY <1>1, <2>1, ParseRequestLineIs
<1>9. p = e => d = e
  <2>1. Limited(e)
    BY <1>1, FreshFields
  <2>2. QED
    BY <1>1, <2>1, ApplyLimitSane
<1>10. 400 \in Nat /\ e \in Connection
  BY <1>1
<1>11. Fails(e, 400) \in Connection /\ Fails(e, 400).state = "ERROR" /\ Fails(e, 400).code = 400
  BY ONLY <1>10, FailsIs
<1>12. p = Fails(e, 400) => d.state = "ERROR" /\ d.code = 400
  <2> HIDE DEF p, e
  <2>1. ASSUME p = Fails(e, 400) PROVE d.state = "ERROR" /\ d.code = 400
    <3>1. p \in Connection /\ p.state = "ERROR" /\ p.code = 400
      BY <1>11, <2>1
    <3>2. QED
      BY <3>1, ApplyLimitIs DEF SameState
  <2>2. QED
    BY <2>1
<1> HIDE DEF p, e, k, d
<1>13. \/ p = e
       \/ p = Fails(e, 400) /\ k < Len(b)
  BY <1>3, <1>4, <1>7, <1>8
<1>14. CASE p = e
  BY <1>9, <1>14 DEF d, p, e
<1>15. CASE p = Fails(e, 400) /\ k < Len(b)
  <2>1. d.state = "ERROR" /\ d.code = 400 /\ Sane(d) /\ k + 1 \in 1 .. Len(x) /\ x[k + 1] \notin {CR, LF}
    BY <1>5, <1>6, <1>7, <1>12, <1>15
  <2>2. QED
    BY <2>1 DEF d, p, e
<1>16. QED
  BY <1>13, <1>14, <1>15

-----------------------------------------------------------------------------
(* feed. *)

LEMMA FeedOn ==
  ASSUME NEW rest \in Seq(Item), NEW q \in Seq(Item), NEW r \in Requests, NEW t \in Seq(Item),
         NEW c \in Follows(rest, q, r, t)
  PROVE  Feed(c) \in Follows(rest, q, r, t)
<1> DEFINE Y == Follows(rest, q, r, t)
<1>1. Sane(c) /\ c \in Connection
  BY DEF Follows
<1>2. c.state \notin {"IDLE", "REQUEST_LINE"}
  BY DEF Follows, Refused, At, AtFields, AtLength, AtChunk, AtEnd
<1>3. CASE c.state \in {"COMPLETE", "ERROR"}
  <2>1. Feed(c) = c
    BY <1>1, <1>3, FeedSane
  <2>2. QED
    BY <2>1
<1>4. CASE c.state \notin {"COMPLETE", "ERROR"}
  <2>1. \A y \in Y : Sane(y) /\ HeaderStep(y) \in Y
    <3>1. \A y \in Y : HeaderStep(y) \in Y
      BY FollowsHeader
    <3>2. QED
      BY <3>1 DEF Follows
  <2>2. \A y \in Y : y.state = "BODY" /\ y.chunked => ChunkStep(y) \in Y
    BY FollowsChunk
  <2>3. \A y \in Y : y.state = "BODY" /\ ~y.chunked => ParseBody(y) \in Y
    BY FollowsBody
  <2>4. c \in Y
    OBVIOUS
  <2> HIDE DEF Y
  <2>5. Feed(c) \in Y
    BY <1>1, <1>2, <1>4, <2>1, <2>2, <2>3, <2>4, FeedInto
  <2>6. QED
    BY <2>5 DEF Y
<1>5. QED
  BY <1>3, <1>4

\* Anything but what is skipped in front of a line.
Odd(x, n) == \E i \in 1 .. n : x[i] \notin {CR, LF}

LEMMA FeedBegin ==
  ASSUME NEW rest \in Seq(Item), NEW r \in Requests, NEW t \in Seq(Item),
         NEW c, Sane(c), c.state \in {"IDLE", "REQUEST_LINE"},
         NEW n, Begun(c.buffer \o rest, n, r, t)
  PROVE  \/ Feed(c) = Lined(c)
         \/ Feed(c).state = "ERROR" /\ Feed(c).code = 400 /\ Odd(c.buffer \o rest, n)
         \/ Feed(c) \in Follows(rest, <<>>, r, t)
<1> DEFINE x == c.buffer \o rest
           F == Follows(rest, <<>>, r, t)
           G(y) == Sane(y) /\ (y = Lined(c) \/ (y.state = "ERROR" /\ y.code = 400 /\ Odd(x, n)))
           Y == F \cup {y \in Connection : G(y)}
           d == ApplyLimit(ParseRequestLine(Lined(c)))
<1>1. <<>> \in Seq(Item)
  BY Tokens
<1>2. Lined(c) \in Connection /\ Lined(c).state = "REQUEST_LINE"
  BY LinedIs
<1>3. ASSUME NEW y, G(y) PROVE y.state \in {"REQUEST_LINE", "ERROR"} /\ HeaderStep(y) = y
  <2>1. y.state \in {"REQUEST_LINE", "ERROR"}
    BY <1>2, <1>3
  <2>2. Sane(y) /\ y.state # "HEADERS"
    BY <1>3, <2>1
  <2>3. QED
    BY <2>1, <2>2, HeaderStepSane
<1>4. \A y \in F : Sane(y) /\ HeaderStep(y) \in F
  <2>1. \A y \in F : HeaderStep(y) \in F
    BY FollowsHeader
  <2>2. QED
    BY <2>1 DEF Follows
<1>5. \A y \in F : y.state = "BODY" /\ y.chunked => ChunkStep(y) \in F
  BY <1>1, FollowsChunk
<1>6. \A y \in F : y.state = "BODY" /\ ~y.chunked => ParseBody(y) \in F
  BY <1>1, FollowsBody
<1>7. Sane(d) /\ d \in Connection
  <2>1. Sane(d)
    BY RequestLineSane
  <2>2. QED
    BY <2>1 DEF Sane
<1>8. \/ d = Lined(c)
      \/ d.state = "ERROR" /\ d.code = 400 /\ Odd(x, n)
      \/ d \in F
  BY LineStep DEF Odd
<1> HIDE DEF d, F, x
<1>9. d \in Y
  BY <1>7, <1>8
<1> HIDE DEF G
<1>10. \A y \in Y : (y \in F \/ (y \in Connection /\ G(y)))
  OBVIOUS
<1>11. \A y \in Y : Sane(y) /\ HeaderStep(y) \in Y
  <2>1. \A y : G(y) => Sane(y)
    BY DEF G
  <2>2. QED
    BY <1>3, <1>4, <1>10, <2>1
<1>12. \A y \in Y : y.state = "BODY" /\ y.chunked => ChunkStep(y) \in Y
  BY <1>3, <1>5, <1>10
<1>13. \A y \in Y : y.state = "BODY" /\ ~y.chunked => ParseBody(y) \in Y
  BY <1>3, <1>6, <1>10
<1>14. c.state \notin {"COMPLETE", "ERROR", "HEADERS", "BODY"}
  OBVIOUS
<1>18. d = ApplyLimit(ParseRequestLine([c EXCEPT !.state = "REQUEST_LINE"]))
  BY DEF d, Lined
<1> HIDE DEF Y
<1>15. Feed(c) \in Y
  BY ONLY Sane(c), <1>9, <1>11, <1>12, <1>13, <1>14, <1>18, FeedInto
<1>16. QED
  BY <1>15 DEF Y, G, F, x

LEMMA FeedNothing ==
  ASSUME NEW rest \in Seq(Item), NEW c, Sane(c), c.state \in {"IDLE", "REQUEST_LINE"},
         \A i \in 1 .. Len(c.buffer \o rest) : (c.buffer \o rest)[i].kind # "line"
  PROVE  \/ Feed(c) = Lined(c)
         \/ Feed(c).state = "ERROR" /\ Feed(c).code = 400 /\ Odd(c.buffer \o rest, Len(c.buffer \o rest))
<1> DEFINE x == c.buffer \o rest
           n == Len(x)
           G(y) == Sane(y) /\ (y = Lined(c) \/ (y.state = "ERROR" /\ y.code = 400 /\ Odd(x, n)))
           Y == {y \in Connection : G(y)}
           d == ApplyLimit(ParseRequestLine(Lined(c)))
<1>1. Lined(c) \in Connection /\ Lined(c).state = "REQUEST_LINE"
  BY LinedIs
<1>2. ASSUME NEW y, G(y) PROVE y.state \in {"REQUEST_LINE", "ERROR"} /\ HeaderStep(y) = y
  <2>1. y.state \in {"REQUEST_LINE", "ERROR"}
    BY <1>1, <1>2
  <2>2. Sane(y) /\ y.state # "HEADERS"
    BY <1>2, <2>1
  <2>3. QED
    BY <2>1, <2>2, HeaderStepSane
<1>3. Sane(d) /\ d \in Connection
  <2>1. Sane(d)
    BY RequestLineSane
  <2>2. QED
    BY <2>1 DEF Sane
<1>4. \/ d = Lined(c)
      \/ d.state = "ERROR" /\ d.code = 400 /\ Odd(x, n)
  BY NoLineStep DEF Odd
<1>5. d = ApplyLimit(ParseRequestLine([c EXCEPT !.state = "REQUEST_LINE"]))
  BY DEF Lined
<1> HIDE DEF d, x
<1>6. d \in Y
  BY <1>3, <1>4
<1>7. \A y : G(y) => Sane(y)
  OBVIOUS
<1> HIDE DEF G
<1>8. \A y \in Y : Sane(y) /\ HeaderStep(y) \in Y
  BY <1>2, <1>7
<1>9. \A y \in Y : y.state # "BODY"
  BY <1>2
<1>10. c.state \notin {"COMPLETE", "ERROR", "HEADERS", "BODY"}
  OBVIOUS
<1> HIDE DEF Y
<1>11. Feed(c) \in Y
  BY ONLY Sane(c), <1>5, <1>6, <1>8, <1>9, <1>10, FeedInto
<1>12. QED
  BY <1>11 DEF Y, G, x

-----------------------------------------------------------------------------
(* The requests from the k-th on. *)

WiresOf(s, k) == FlattenSeq(From([m \in 1 .. Len(s) |-> Wire(s[m])], k))

LEMMA WiresIs ==
  ASSUME NEW s \in Seq(Requests)
  PROVE  /\ Len(s) \in Nat
         /\ \A k \in 1 .. Len(s) + 1 : WiresOf(s, k) \in Seq(Item)
         /\ \A k \in 1 .. Len(s) : WiresOf(s, k) = Wire(s[k]) \o WiresOf(s, k + 1) /\ s[k] \in Requests
         /\ WiresOf(s, Len(s) + 1) = <<>>
<1> DEFINE n == Len(s)
           w == [m \in 1 .. n |-> Wire(s[m])]
<1>1. n \in Nat /\ \A k \in 1 .. n : s[k] \in Requests /\ Wire(s[k]) \in Seq(Item)
  BY LenProperties, ElementOfSeq, WireIs
<1>2. w \in Seq(Seq(Item)) /\ Len(w) = n /\ \A k \in 1 .. n : w[k] = Wire(s[k])
  <2>1. \A m \in 1 .. n : Wire(s[m]) \in Seq(Item)
    BY <1>1
  <2>2. w \in Seq(Seq(Item))
    BY <1>1, <2>1, IsASeq
  <2>3. QED
    BY <1>1, <2>2, LenProperties
<1>3. \A k : WiresOf(s, k) = FlattenSeq(From(w, k))
  BY DEF WiresOf
<1> HIDE DEF w, n
<1>4. /\ \A k \in 1 .. n + 1 : FlattenSeq(From(w, k)) \in Seq(Item)
      /\ \A k \in 1 .. n : FlattenSeq(From(w, k)) = w[k] \o FlattenSeq(From(w, k + 1))
      /\ FlattenSeq(From(w, n + 1)) = <<>>
  BY <1>2, FlatFrom
<1>5. QED
  BY <1>1, <1>2, <1>3, <1>4 DEF n

LEMMA WiresAppend ==
  ASSUME NEW s \in Seq(Requests), NEW r \in Requests, NEW k \in 1 .. Len(s) + 1
  PROVE  WiresOf(Append(s, r), k) = WiresOf(s, k) \o Wire(r)
<1> DEFINE n == Len(s)
           u == Append(s, r)
           w == [m \in 1 .. n |-> Wire(s[m])]
           v == [m \in 1 .. Len(u) |-> Wire(u[m])]
<1>1. n \in Nat /\ (\A m \in 1 .. n : s[m] \in Requests /\ Wire(s[m]) \in Seq(Item)) /\ Wire(r) \in Seq(Item)
  BY LenProperties, ElementOfSeq, WireIs
<1>2. Len(u) = n + 1 /\ (\A m \in 1 .. n : u[m] = s[m]) /\ u[n + 1] = r
  BY AppendProperties
<1>3. k - 1 \in 0 .. n /\ k - 1 \in 0 .. n + 1 /\ (k - 1) + 1 = k
  BY <1>1
<1> HIDE DEF n, u
<1>4. w \in Seq(Seq(Item)) /\ Len(w) = n /\ \A m \in 1 .. n : w[m] = Wire(s[m])
  <2>1. \A m \in 1 .. n : Wire(s[m]) \in Seq(Item)
    BY <1>1
  <2>2. w \in Seq(Seq(Item))
    BY <1>1, <2>1, IsASeq
  <2>3. QED
    BY <1>1, <2>2, LenProperties
<1>5. v \in Seq(Seq(Item)) /\ Len(v) = n + 1 /\ (\A m \in 1 .. n : v[m] = Wire(s[m])) /\ v[n + 1] = Wire(r)
  <2>1. \A m \in 1 .. n + 1 : m \in 1 .. n \/ m = n + 1
    BY <1>1
  <2>2. \A m \in 1 .. n + 1 : Wire(u[m]) \in Seq(Item)
    BY <1>1, <1>2, <2>1
  <2>3. v = [m \in 1 .. n + 1 |-> Wire(u[m])]
    BY <1>2
  <2>8. n + 1 \in Nat
    BY <1>1
  <2>4. n + 1 \in Nat /\ n + 1 \in 1 .. n + 1 /\ \A m \in 1 .. n : m \in 1 .. n + 1
    BY <1>1
  <2>5. v \in Seq(Seq(Item)) /\ Len(v) = n + 1
    <3> DEFINE y == [m \in 1 .. n + 1 |-> Wire(u[m])]
    <3>1. y \in Seq(Seq(Item))
      BY <2>2, <2>8, IsASeq
    <3>2. Len(y) = n + 1
      BY <2>8, <3>1, LenProperties
    <3> HIDE DEF v, y
    <3>3. v = y
      BY <2>3 DEF y
    <3>4. QED
      BY <3>1, <3>2, <3>3
  <2>6. \A m \in 1 .. n + 1 : v[m] = Wire(u[m])
    BY <1>2
  <2>7. QED
    BY <1>2, <2>4, <2>5, <2>6
<1>6. WiresOf(s, k) = FlattenSeq(From(w, k)) /\ WiresOf(u, k) = FlattenSeq(From(v, k))
  BY DEF WiresOf, n
<1> HIDE DEF w, v
<1> DEFINE a == From(w, k)
           b == From(v, k)
           j == k - 1
           x == Wire(r)
<1>7. a \in Seq(Seq(Item)) /\ Len(a) = n - j /\ \A i \in 1 .. n - j : a[i] = w[j + i]
  <2>1. j \in 0 .. Len(w) /\ j + 1 = k
    BY <1>3, <1>4
  <2> HIDE DEF j
  <2>2. From(w, j + 1) \in Seq(Seq(Item)) /\ Len(From(w, j + 1)) = Len(w) - j
        /\ \A i \in 1 .. Len(w) - j : From(w, j + 1)[i] = w[j + i]
    BY <1>4, <2>1, FromIs
  <2>3. QED
    BY <1>4, <2>1, <2>2
<1>8. b \in Seq(Seq(Item)) /\ Len(b) = (n + 1) - j /\ \A i \in 1 .. (n + 1) - j : b[i] = v[j + i]
  <2>1. j \in 0 .. Len(v) /\ j + 1 = k
    BY <1>3, <1>5
  <2> HIDE DEF j
  <2>2. From(v, j + 1) \in Seq(Seq(Item)) /\ Len(From(v, j + 1)) = Len(v) - j
        /\ \A i \in 1 .. Len(v) - j : From(v, j + 1)[i] = v[j + i]
    BY <1>5, <2>1, FromIs
  <2>3. QED
    BY <1>5, <2>1, <2>2
<1>12. j \in 0 .. n
  BY <1>3
<1> HIDE DEF a, b, j, x
<1>9. Append(a, x) \in Seq(Seq(Item)) /\ Len(Append(a, x)) = (n - j) + 1
      /\ (\A i \in 1 .. n - j : Append(a, x)[i] = a[i]) /\ Append(a, x)[(n - j) + 1] = x
  <2>1. x \in Seq(Item)
    BY <1>1 DEF x
  <2>2. QED
    BY <1>7, <2>1, AppendProperties
<1>10. b = Append(a, x)
  <2>1. Len(b) = Len(Append(a, x))
    BY ONLY <1>1, <1>8, <1>9, <1>12
  <2>2. ASSUME NEW i \in 1 .. Len(b) PROVE b[i] = Append(a, x)[i]
    <3>1. i \in 1 .. (n + 1) - j
      BY <1>8
    <3>2. CASE i \in 1 .. n - j
      <4>1. j + i \in 1 .. n
        BY ONLY <1>1, <1>12, <3>2
      <4>2. b[i] = v[j + i] /\ v[j + i] = Wire(s[j + i]) /\ w[j + i] = Wire(s[j + i])
        BY <1>4, <1>5, <1>8, <3>1, <4>1
      <4>3. a[i] = w[j + i]
        BY ONLY <1>7, <3>2
      <4>4. Append(a, x)[i] = a[i]
        BY ONLY <1>9, <3>2
      <4>5. QED
        BY ONLY <4>2, <4>3, <4>4
    <3>3. CASE i = (n - j) + 1
      <4>1. j + i = n + 1
        BY ONLY <1>1, <1>12, <3>3
      <4>2. b[i] = v[n + 1]
        BY <1>8, <3>1, <4>1
      <4>3. Append(a, x)[i] = x
        BY ONLY <1>9, <3>3
      <4>4. v[n + 1] = x
        BY <1>5 DEF x
      <4>5. QED
        BY ONLY <4>2, <4>3, <4>4
    <3>4. n \in Nat /\ j \in 0 .. n /\ i \in 1 .. (n + 1) - j
      BY <1>1, <1>12, <3>1
    <3>5. i \in 1 .. n - j \/ i = (n - j) + 1
      BY ONLY <3>4
    <3>6. QED
      BY ONLY <3>2, <3>3, <3>5, Zenon
  <2>3. QED
    BY ONLY <1>8, <1>9, <2>1, <2>2, SeqEqual
<1>11. FlattenSeq(Append(a, x)) = FlattenSeq(a) \o x
  <2>1. x \in Seq(Item) /\ a \in Seq(Seq(Item))
    BY <1>1, <1>7 DEF x
  <2>2. QED
    BY ONLY <2>1, FlatAppend
<1>13. QED
  BY <1>6, <1>10, <1>11 DEF a, b, x, u

\* Something without a line, and the requests from the k-th on behind it.
Trail(x, s, k, n) ==
  /\ n \in 0 .. Len(x) /\ \A i \in 1 .. n : x[i].kind # "line"
  /\ From(x, n + 1) = WiresOf(s, k)

\* The endings of two sequences, one behind the other.
LEMMA EndingOfBoth ==
  ASSUME NEW a \in Seq(Item), NEW b \in Seq(Item), NEW y \in Ending(a \o b)
  PROVE  y \in Ending(b) \/ \E m \in 0 .. Len(a) : y = From(a, m + 1) \o b
<1>1. Len(a \o b) = Len(a) + Len(b) /\ Len(a) \in Nat /\ Len(b) \in Nat
  BY Joined
<1>2. PICK m \in 0 .. Len(a \o b) : y = From(a \o b, m + 1)
  BY DEF Ending
<1>3. CASE m <= Len(a)
  <2>1. m \in 0 .. Len(a)
    BY <1>1, <1>2, <1>3
  <2>2. From(a \o b, m + 1) = From(a, m + 1) \o b
    BY <2>1, FromConcat
  <2>3. QED
    BY <1>2, <2>1, <2>2
<1>4. CASE m > Len(a)
  <2> DEFINE j == m - Len(a)
             p == SubSeq(b, 1, j)
             q == From(b, j + 1)
             c == a \o p
  <2>1. j \in 0 .. Len(b) /\ Len(a) + j = m
    BY <1>1, <1>2, <1>4
  <2> HIDE DEF j
  <2>2. b = p \o q /\ p \in Seq(Item) /\ Len(p) = j /\ q \in Seq(Item)
    BY <2>1, CutAt, FirstIs, FromIs
  <2>3. c \in Seq(Item) /\ Len(c) = m
    <3>1. c \in Seq(Item) /\ Len(c) = Len(a) + Len(p)
      BY <2>2, Joined
    <3>2. QED
      BY <2>1, <2>2, <3>1
  <2> HIDE DEF p, q
  <2>4. a \o (p \o q) = (a \o p) \o q
    <3>1. a \in Seq(Item) /\ p \in Seq(Item) /\ q \in Seq(Item)
      BY <2>2
    <3>2. QED
      BY ONLY <3>1, Together
  <2>5. a \o b = c \o q
    BY <2>2, <2>4
  <2> HIDE DEF c
  <2>6. From(c \o q, Len(c) + 1) = q
    BY <2>2, <2>3, FromEnd
  <2>7. y = q
    BY <1>2, <2>3, <2>5, <2>6
  <2>8. q \in Ending(b)
    BY <2>1, FromEnding DEF q
  <2>9. QED
    BY <2>7, <2>8
<1>5. m <= Len(a) \/ m > Len(a)
  BY <1>1, <1>2
<1>6. QED
  BY ONLY <1>3, <1>4, <1>5, Zenon

\* x and what is behind it.
LEMMA TrailMade ==
  ASSUME NEW s \in Seq(Requests), NEW k \in 1 .. Len(s) + 1, NEW a \in Seq(Item),
         \A i \in 1 .. Len(a) : a[i].kind # "line"
  PROVE  Trail(a \o WiresOf(s, k), s, k, Len(a))
<1> DEFINE w == WiresOf(s, k)
           x == a \o w
<1>1. w \in Seq(Item)
  BY WiresIs
<1> HIDE DEF w
<1>2. x \in Seq(Item) /\ Len(x) = Len(a) + Len(w) /\ Len(a) \in Nat /\ Len(w) \in Nat
      /\ \A i \in 1 .. Len(a) : x[i] = a[i]
  BY <1>1, Joined
<1>3. From(x, Len(a) + 1) = w
  BY <1>1, FromEnd
<1> HIDE DEF x
<1>4. Len(a) \in 0 .. Len(x)
  BY <1>2
<1>5. \A i \in 1 .. Len(a) : x[i].kind # "line"
  BY <1>2
<1>6. QED
  BY <1>3, <1>4, <1>5 DEF Trail, x, w

LEMMA WireEnds ==
  ASSUME NEW r \in Requests, NEW m \in 1 .. Len(Wire(r))
  PROVE  /\ Wire(r) \in Seq(Item) /\ m \in 0 .. Len(Wire(r)) /\ From(Wire(r), m + 1) \in Seq(Item)
         /\ \A i \in 1 .. Len(From(Wire(r), m + 1)) : From(Wire(r), m + 1)[i].kind # "line"
<1> DEFINE w == Wire(r)
           l == <<LineOf(r)>>
           p == Crlf \o Remainder(r)
           y == From(w, m + 1)
<1>1. w = l \o p /\ w \in Seq(Item) /\ p \in Seq(Plain) /\ Len(w) \in Nat
  BY WireIs, LenProperties
<1>2. l \in Seq(Item) /\ Len(l) = 1
  BY WireIs, Tokens
<1>3. p \in Seq(Item) /\ Len(p) \in Nat /\ \A i \in 1 .. Len(p) : p[i].kind # "line"
  <2>1. \A i \in 1 .. Len(p) : p[i] \in Plain
    BY <1>1, ElementOfSeq
  <2>2. \A i \in 1 .. Len(p) : p[i].kind # "line"
    BY <2>1 DEF Plain
  <2>3. p \in Seq(Item)
    BY ONLY <1>1, PlainIs, SeqMonotonic
  <2>4. QED
    BY <2>2, <2>3, LenProperties
<1> HIDE DEF w, l, p
<1>4. m \in 1 .. Len(w)
  BY DEF w
<1>5. m \in 0 .. Len(w)
  BY <1>1, <1>4
<1>6. y \in Seq(Item) /\ Len(y) = Len(w) - m /\ \A i \in 1 .. Len(w) - m : y[i] = w[m + i]
  BY <1>1, <1>5, FromIs
<1>7. Len(w) = 1 + Len(p) /\ \A i \in 1 .. Len(p) : w[1 + i] = p[i]
  <2>1. Len(w) = Len(l) + Len(p) /\ \A i \in 1 .. Len(p) : w[Len(l) + i] = p[i]
    BY <1>1, <1>2, <1>3, Joined
  <2>2. QED
    BY <1>2, <2>1
<1> HIDE DEF y
<1>8. ASSUME NEW i \in 1 .. Len(y) PROVE y[i].kind # "line"
  <2>1. i \in 1 .. Len(w) - m /\ (m - 1) + i \in 1 .. Len(p) /\ 1 + ((m - 1) + i) = m + i
    BY ONLY <1>3, <1>4, <1>6, <1>7, <1>8
  <2>2. y[i] = w[m + i] /\ w[1 + ((m - 1) + i)] = p[(m - 1) + i] /\ p[(m - 1) + i].kind # "line"
    BY <1>3, <1>6, <1>7, <2>1
  <2>3. QED
    BY <2>1, <2>2
<1>9. QED
  BY <1>1, <1>5, <1>6, <1>8 DEF w, y

\* Whatever of the requests is no longer there, the rest is whole requests
\* behind something without a line.
LEMMA WiresEnding ==
  ASSUME NEW s \in Seq(Requests), NEW k \in 1 .. Len(s) + 1, NEW y \in Ending(WiresOf(s, k))
  PROVE  \E j \in k .. Len(s) + 1, m \in Nat : Trail(y, s, j, m)
<1> DEFINE n == Len(s)
           Fine(i) == \A z \in Ending(WiresOf(s, (n + 1) - i)) :
                        \E j \in (n + 1) - i .. n + 1, m \in Nat : Trail(z, s, j, m)
           S == {i \in Nat : i <= n => Fine(i)}
<1>1. n \in Nat
  BY WiresIs
<1>2. 0 \in S
  <2>1. SUFFICES ASSUME NEW z \in Ending(WiresOf(s, (n + 1) - 0))
                 PROVE  \E j \in (n + 1) - 0 .. n + 1, m \in Nat : Trail(z, s, j, m)
    OBVIOUS
  <2>2. (n + 1) - 0 = n + 1 /\ n + 1 \in 1 .. n + 1 /\ n + 1 \in n + 1 .. n + 1
    BY <1>1
  <2>3. WiresOf(s, n + 1) = <<>> /\ <<>> \in Seq(Item) /\ Len(<<>>) = 0
    BY WiresIs, Tokens
  <2>4. z = <<>>
    <3>1. z \in Seq(Item) /\ Len(z) <= 0
      BY <2>2, <2>3, EndingIs
    <3>2. Len(z) = 0
      BY <3>1, LenProperties
    <3>3. QED
      BY <3>1, <3>2, EmptySeq
  <2>5. <<>> \o WiresOf(s, n + 1) = <<>>
    BY <2>3
  <2>6. Trail(<<>> \o WiresOf(s, n + 1), s, n + 1, Len(<<>>))
    <3>1. \A i \in 1 .. Len(<<>>) : (<<>>)[i].kind # "line"
      BY <2>3
    <3> DEFINE a == <<>>
    <3>2. a \in Seq(Item) /\ \A i \in 1 .. Len(a) : a[i].kind # "line"
      BY <2>3, <3>1
    <3> HIDE DEF a
    <3>3. Trail(a \o WiresOf(s, n + 1), s, n + 1, Len(a))
      BY <2>2, <3>2, TrailMade
    <3>4. QED
      BY <3>3 DEF a
  <2>7. QED
    BY <2>2, <2>3, <2>4, <2>5, <2>6
<1>3. ASSUME NEW i \in Nat, i \in S PROVE i + 1 \in S
  <2>1. CASE ~(i + 1 <= n)
    BY <2>1
  <2>2. CASE i + 1 <= n
    <3> DEFINE k1 == (n + 1) - (i + 1)
               k2 == k1 + 1
               w == Wire(s[k1])
               v == WiresOf(s, k2)
    <3>1. k1 \in 1 .. n /\ k1 \in 1 .. n + 1 /\ k2 \in 1 .. n + 1 /\ k2 = (n + 1) - i
      BY <1>1, <2>2
    <3>2. Fine(i)
      BY <1>1, <1>3, <2>2
    <3>3. WiresOf(s, k1) = w \o v /\ s[k1] \in Requests /\ v \in Seq(Item)
      BY <3>1, WiresIs
    <3>4. w \in Seq(Item)
      BY <3>3, WireIs
    <3>5. ASSUME NEW z \in Ending(w \o v) PROVE \E j \in k1 .. n + 1, m \in Nat : Trail(z, s, j, m)
      <4>1. z \in Ending(v) \/ \E m \in 0 .. Len(w) : z = From(w, m + 1) \o v
        <5> HIDE DEF w, v
        <5>1. QED
          BY <3>3, <3>4, <3>5, EndingOfBoth
      <4>2. CASE z \in Ending(v)
        <5>1. PICK j \in k2 .. n + 1, m \in Nat : Trail(z, s, j, m)
          <6>1. z \in Ending(WiresOf(s, (n + 1) - i))
            BY <3>1, <4>2
          <6>2. \E j \in (n + 1) - i .. n + 1, m \in Nat : Trail(z, s, j, m)
            BY <3>2, <6>1
          <6>3. QED
            BY <3>1, <6>2
        <5>2. j \in k1 .. n + 1
          BY <1>1, <3>1, <5>1
        <5>3. QED
          BY <5>1, <5>2
      <4>3. CASE \E m \in 0 .. Len(w) : z = From(w, m + 1) \o v
        <5>1. PICK m \in 0 .. Len(w) : z = From(w, m + 1) \o v
          BY <4>3
        <5>2. CASE m = 0
          <6>1. From(w, 0 + 1) = w
            BY <3>4, SubSeqFull DEF From
          <6>2. z = WiresOf(s, k1)
            BY <3>3, <5>1, <5>2, <6>1
          <6>3. WiresOf(s, k1) \in Seq(Item)
            BY <3>1, WiresIs
          <6> DEFINE a == <<>>
          <6>4. a \in Seq(Item) /\ Len(a) = 0 /\ \A q \in 1 .. Len(a) : a[q].kind # "line"
            BY Tokens
          <6>5. a \o WiresOf(s, k1) = WiresOf(s, k1)
            BY <6>3, ConcatEmptySeq
          <6> HIDE DEF a
          <6>6. Trail(a \o WiresOf(s, k1), s, k1, Len(a))
            BY <3>1, <6>4, TrailMade
          <6>7. k1 \in k1 .. n + 1 /\ 0 \in Nat
            BY <1>1, <3>1
          <6>8. Trail(z, s, k1, 0)
            BY <6>2, <6>4, <6>5, <6>6
          <6>9. QED
            BY <6>7, <6>8
        <5>3. CASE m # 0
          <6> DEFINE a == From(w, m + 1)
          <6>1. m \in 1 .. Len(w)
            BY <3>4, <5>1, <5>3, LenProperties
          <6>2. a \in Seq(Item) /\ \A q \in 1 .. Len(a) : a[q].kind # "line"
            BY <3>3, <6>1, WireEnds
          <6> HIDE DEF a
          <6>3. Trail(a \o WiresOf(s, k2), s, k2, Len(a))
            BY <3>1, <6>2, TrailMade
          <6>4. Len(a) \in Nat /\ k2 \in k1 .. n + 1
            BY <1>1, <3>1, <6>2, LenProperties
          <6>5. z = a \o WiresOf(s, k2)
            BY <5>1 DEF a
          <6>6. QED
            BY <6>3, <6>4, <6>5
        <5>4. QED
          BY <5>2, <5>3
      <4>4. QED
        BY <4>1, <4>2, <4>3
    <3>6. Fine(i + 1)
      BY <3>3, <3>5
    <3>7. QED
      BY <3>6
  <2>3. QED
    BY <2>1, <2>2
<1>4. \A i \in Nat : i \in S
  <2> HIDE DEF S
  <2>1. QED
    BY <1>2, <1>3, NatSet
<1>5. (n + 1) - k \in Nat /\ (n + 1) - k <= n /\ (n + 1) - ((n + 1) - k) = k
  BY <1>1
<1>6. Fine((n + 1) - k)
  BY <1>4, <1>5
<1>7. QED
  BY <1>5, <1>6

LEMMA TrailEnding ==
  ASSUME NEW s \in Seq(Requests), NEW x \in Seq(Item), NEW k \in 1 .. Len(s) + 1, NEW n, Trail(x, s, k, n),
         NEW y \in Ending(x)
  PROVE  \E j \in k .. Len(s) + 1, m \in Nat : Trail(y, s, j, m)
<1> DEFINE a == SubSeq(x, 1, n)
           w == WiresOf(s, k)
<1>1. n \in 0 .. Len(x) /\ Len(x) \in Nat /\ w = From(x, n + 1) /\ \A i \in 1 .. n : x[i].kind # "line"
  BY LenProperties DEF Trail
<1>2. a \in Seq(Item) /\ Len(a) = n /\ (\A i \in 1 .. n : a[i] = x[i]) /\ x = a \o w
  <2>1. x \in Seq(Item) /\ n \in 0 .. Len(x)
    BY <1>1
  <2>2. a \in Seq(Item) /\ Len(a) = n /\ \A i \in 1 .. n : a[i] = x[i]
    BY ONLY <2>1, FirstIs
  <2>3. x = a \o From(x, n + 1)
    BY ONLY <2>1, CutAt
  <2>4. QED
    BY <1>1, <2>2, <2>3
<1>3. w \in Seq(Item) /\ Len(s) \in Nat
  BY WiresIs
<1> HIDE DEF a, w
<1>4. y \in Ending(w) \/ \E m \in 0 .. Len(a) : y = From(a, m + 1) \o w
  <2>1. y \in Ending(a \o w)
    BY <1>2
  <2>2. QED
    BY <1>2, <1>3, <2>1, EndingOfBoth
<1>5. CASE y \in Ending(w)
  BY <1>5, WiresEnding DEF w
<1>6. CASE \E m \in 0 .. Len(a) : y = From(a, m + 1) \o w
  <2>1. PICK m \in 0 .. Len(a) : y = From(a, m + 1) \o w
    BY <1>6
  <2> DEFINE b == From(a, m + 1)
  <2>2. b \in Seq(Item) /\ Len(b) = Len(a) - m /\ \A i \in 1 .. Len(a) - m : b[i] = a[m + i]
    BY <1>2, <2>1, FromIs
  <2> HIDE DEF b
  <2>3. ASSUME NEW i \in 1 .. Len(b) PROVE b[i].kind # "line"
    <3>1. i \in 1 .. Len(a) - m /\ m + i \in 1 .. n
      BY <1>1, <1>2, <2>1, <2>2
    <3>2. QED
      BY <1>1, <1>2, <2>2, <3>1
  <2>4. Trail(b \o WiresOf(s, k), s, k, Len(b))
    BY <2>2, <2>3, TrailMade
  <2>5. Len(b) \in Nat /\ k \in k .. Len(s) + 1
    BY <1>3, <2>2, LenProperties
  <2>6. y = b \o WiresOf(s, k)
    BY <2>1 DEF b, w
  <2>7. QED
    BY <2>4, <2>5, <2>6
<1>7. QED
  BY ONLY <1>4, <1>5, <1>6, Zenon

\* One more request behind it.
LEMMA TrailMore ==
  ASSUME NEW s \in Seq(Requests), NEW r \in Requests, NEW x \in Seq(Item), NEW k \in 1 .. Len(s) + 1,
         NEW n, Trail(x, s, k, n)
  PROVE  /\ Trail(x \o Wire(r), Append(s, r), k, n)
         /\ \A i \in 1 .. n : (x \o Wire(r))[i] = x[i]
<1> DEFINE w == Wire(r)
           y == x \o w
<1>1. n \in 0 .. Len(x) /\ (\A i \in 1 .. n : x[i].kind # "line") /\ From(x, n + 1) = WiresOf(s, k)
  BY DEF Trail
<1>2. w \in Seq(Item)
  BY WireIs
<1> HIDE DEF w
<1>3. Len(x) \in Nat /\ Len(w) \in Nat /\ Len(y) = Len(x) + Len(w) /\ \A i \in 1 .. Len(x) : y[i] = x[i]
  BY <1>2, Joined
<1>4. From(y, n + 1) = From(x, n + 1) \o w
  BY <1>1, <1>2, FromConcat
<1> HIDE DEF y
<1>5. n \in 0 .. Len(y) /\ \A i \in 1 .. n : i \in 1 .. Len(x)
  BY <1>1, <1>3
<1>6. \A i \in 1 .. n : y[i] = x[i] /\ y[i].kind # "line"
  BY <1>1, <1>3, <1>5
<1>7. From(y, n + 1) = WiresOf(Append(s, r), k)
  <2>1. WiresOf(Append(s, r), k) = WiresOf(s, k) \o Wire(r)
    BY WiresAppend
  <2>2. QED
    BY <1>1, <1>4, <2>1 DEF w
<1>8. QED
  BY <1>5, <1>6, <1>7 DEF Trail, y, w

-----------------------------------------------------------------------------
(* The invariant. *)

\* x is something without a request line and then whole requests of s, none
\* of which has had its turn if ok; when one is due it is its turn, behind at
\* most an empty line.
Lying(x, s, turn, ok, due) ==
  \E k \in 1 .. Len(s) + 1, n \in Nat :
    /\ Trail(x, s, k, n)
    /\ ok => turn <= k
    /\ due => k = turn /\ n <= 2 /\ ~Odd(x, n)

\* c can do nothing with what it has read.
Stuck(c) ==
  IF c.trailing THEN Len(c.buffer) < 2
  ELSE IF c.size = 0 THEN CrlfIn(c.buffer) = 0
  ELSE c.buffer = <<>>
Waits(c) ==
  /\ c.state = "IDLE" => c.buffer = <<>>
  /\ c.state = "REQUEST_LINE" => ParseRequestLine(c) = c
  /\ c.state = "HEADERS" => CrlfIn(c.buffer) = 0
  /\ c.state = "BODY" => IF c.chunked THEN Stuck(c) ELSE c.buffer = <<>>

\* c, with the file f, is in r, of which x and t are left.
InRequest(c, f, x, r, t) ==
  /\ At(c, x, r, t) /\ Kept(c, f.content) /\ f.written = Len(f.content)
  /\ IF Spools(c) THEN c.body = <<>> ELSE f.content = <<>>
  /\ c.state = "COMPLETE" => NeverSpooled(r)

\* Where a connection that is reading is, with x left of the requests s:
\* before a request line, in a request, or behind a body not spooled.
Between(c, f, x, s, turn, ok, due) ==
  /\ c.state \in {"IDLE", "REQUEST_LINE"} /\ f.content = <<>> /\ f.written = 0
  /\ Lying(x, s, turn, ok, due)
Within(c, f, x, s, turn, ok, due) ==
  \E k \in 1 .. Len(s) :
    /\ ok => turn <= k
    /\ due => k = turn
    /\ InRequest(c, f, x, s[k], WiresOf(s, k + 1))
Unspooled(c, s, turn, due) ==
  /\ c.state = "ERROR" /\ c.code = 503
  /\ due => turn \in 1 .. Len(s) /\ s[turn].target = "script"
Parsed(c, f, x, s, turn, ok, due) ==
  /\ Waits(c) /\ Lying(x, s, turn, ok, FALSE)
  /\ \/ Between(c, f, x, s, turn, ok, due)
     \/ Within(c, f, x, s, turn, ok, due)
     \/ Unspooled(c, s, turn, due)

\* What has not been received, and what has not been parsed.
Coming == socket \o toSend
Left == conn.buffer \o Coming

\* Whether all answers so far were good, and which one is due if they were.
Ok == \A i \in 1 .. Len(responses) : responses[i].code = 200
Turn == Len(responses) + 1
Due == Ok /\ Turn \notin early

StreamInv ==
  /\ Reading => Parsed(conn, file, Left, sent, Turn, Ok, Due)
  /\ phase = "WRITING" => Lying(Coming, sent, Turn, Ok, Due)
  /\ phase = "HUNG" => SpoolFailed
  /\ phase = "WAITING" /\ ~event => socket = <<>>

\* What has been begun out of turn.
EarlyInv ==
  /\ early \subseteq 1 .. Len(sent)
  /\ \A m \in 1 .. Len(sent) : (IF Ok THEN Turn < m ELSE Turn <= m) => m \in early

-----------------------------------------------------------------------------
(* More behind what was sent. *)

\* What is behind some chunks, with more behind it.
LEMMA OnwardsMore ==
  ASSUME NEW r \in Requests, NEW t \in Seq(Item), NEW w \in Seq(Item), NEW k \in 0 .. Len(r.chunks)
  PROVE  Onwards(r, k, t) \o w = Onwards(r, k, t \o w)
<1> DEFINE a == FlattenSeq(From(Chunks(r), k + 1))
           b == LastChunk
           e == End(r)
<1>1. b \in Seq(Item) /\ e \in Seq(Item)
  <2>1. b \in Seq(Plain) /\ e \in Seq(Plain)
    BY PiecesTyped
  <2>2. QED
    BY ONLY <2>1, PlainIs, SeqMonotonic
<1>2. a \in Seq(Item)
  <2>1. Chunks(r) \in Seq(Seq(Plain)) /\ Len(Chunks(r)) = Len(r.chunks) /\ Len(r.chunks) \in Nat
    BY PiecesTyped
  <2>2. Chunks(r) \in Seq(Seq(Item))
    BY ONLY <2>1, PlainIs, FlatPlain
  <2>3. k + 1 \in 1 .. Len(Chunks(r)) + 1
    BY <2>1
  <2>4. QED
    BY <2>2, <2>3, FlatFrom
<1>3. Onwards(r, k, t) = a \o (b \o (e \o t)) /\ Onwards(r, k, t \o w) = a \o (b \o (e \o (t \o w)))
  BY DEF Onwards
<1> HIDE DEF a, b, e
<1>4. e \o t \in Seq(Item) /\ b \o (e \o t) \in Seq(Item)
  <2>1. e \o t \in Seq(Item)
    BY <1>1, Joined
  <2>2. QED
    BY <1>1, <2>1, Joined
<1>5. e \o (t \o w) = (e \o t) \o w
  <2>1. e \in Seq(Item) /\ t \in Seq(Item) /\ w \in Seq(Item)
    BY ONLY <1>1, t \in Seq(Item), w \in Seq(Item)
  <2>2. QED
    BY ONLY <2>1, Together
<1>6. b \o ((e \o t) \o w) = (b \o (e \o t)) \o w
  <2>1. b \in Seq(Item) /\ (e \o t) \in Seq(Item) /\ w \in Seq(Item)
    BY ONLY <1>1, <1>4, w \in Seq(Item)
  <2>2. QED
    BY ONLY <2>1, Together
<1>7. a \o ((b \o (e \o t)) \o w) = (a \o (b \o (e \o t))) \o w
  <2>1. a \in Seq(Item) /\ (b \o (e \o t)) \in Seq(Item) /\ w \in Seq(Item)
    BY ONLY <1>2, <1>4, w \in Seq(Item)
  <2>2. QED
    BY ONLY <2>1, Together
<1>8. QED
  BY <1>3, <1>5, <1>6, <1>7


\* So where c is in r stays, with more behind.
LEMMA EndMore ==
  ASSUME NEW r \in Requests, NEW t \in Seq(Item), NEW w \in Seq(Item)
  PROVE  /\ End(r) \in Seq(Item) /\ End(r) \o t \in Seq(Item) /\ t \o w \in Seq(Item)
         /\ (End(r) \o t) \o w = End(r) \o (t \o w)
<1> DEFINE e == End(r)
<1>1. e \in Seq(Item)
  <2>1. e \in Seq(Plain)
    BY PiecesTyped
  <2>2. QED
    BY ONLY <2>1, PlainIs, SeqMonotonic
<1> HIDE DEF e
<1>2. e \o t \in Seq(Item) /\ t \o w \in Seq(Item)
  BY <1>1, Joined
<1>3. e \o (t \o w) = (e \o t) \o w
  BY ONLY <1>1, t \in Seq(Item), w \in Seq(Item), Together
<1>4. QED
  BY <1>1, <1>2, <1>3 DEF e

LEMMA FieldsMore ==
  ASSUME NEW c, NEW x \in Seq(Item), NEW r \in Requests, NEW t \in Seq(Item), NEW w \in Seq(Item),
         AtFields(c, x, r, t)
  PROVE  AtFields(c, x \o w, r, t \o w)
<1>1. PICK j \in 0 .. Len(r.headers) :
        /\ x = FlattenSeq(From(Fields(r), j + 1)) \o (Crlf \o (Body(r) \o (End(r) \o t)))
        /\ Merged(c.headers, r.headers, j)
  BY DEF AtFields
<1> DEFINE a == FlattenSeq(From(Fields(r), j + 1))
           b == Body(r)
           o == End(r) \o t
           u == End(r) \o (t \o w)
<1>2. o \in Seq(Item) /\ u = o \o w
  BY EndMore
<1>3. a \in Seq(Item) /\ b \in Seq(Item) /\ Crlf \in Seq(Item)
  <2>1. /\ b \in Seq(Plain) /\ Fields(r) \in Seq(Seq(Plain)) /\ Len(Fields(r)) = Len(r.headers)
        /\ Len(r.headers) \in Nat
    BY PiecesTyped
  <2>2. b \in Seq(Item)
    BY ONLY <2>1, PlainIs, SeqMonotonic
  <2>3. Fields(r) \in Seq(Seq(Item))
    BY ONLY <2>1, PlainIs, FlatPlain
  <2>4. j + 1 \in 1 .. Len(Fields(r)) + 1
    BY <2>1
  <2>5. a \in Seq(Item)
    BY <2>3, <2>4, FlatFrom
  <2>6. QED
    BY <2>2, <2>5, Tokens
<1>4. x = a \o (Crlf \o (b \o o)) /\ w \in Seq(Item)
  BY <1>1
<1> HIDE DEF a, b, o, u
<1>15. o \in Seq(Item)
  BY <1>2
<1> DEFINE y == b \o o
           z == Crlf \o y
<1>5. y \in Seq(Item) /\ b \o (o \o w) = y \o w
  <2>1. y \in Seq(Item)
    BY ONLY <1>2, <1>3, Joined
  <2>2. b \o (o \o w) = (b \o o) \o w
    <3>1. b \in Seq(Item) /\ o \in Seq(Item) /\ w \in Seq(Item)
      BY ONLY <1>3, <1>15, w \in Seq(Item)
    <3>2. Groups(b, o, w)
      BY ONLY <3>1, Grouped
    <3>3. QED
      BY <3>2 DEF Groups
  <2>3. QED
    BY ONLY <2>1, <2>2
<1>11. x = a \o z
  BY <1>4
<1> HIDE DEF y
<1>6. z \in Seq(Item) /\ Crlf \o (y \o w) = z \o w
  <2>1. z \in Seq(Item)
    BY ONLY <1>3, <1>5, Joined
  <2>2. Crlf \o (y \o w) = (Crlf \o y) \o w
    <3>1. Crlf \in Seq(Item) /\ y \in Seq(Item) /\ w \in Seq(Item)
      BY ONLY <1>3, <1>5, w \in Seq(Item)
    <3>2. Groups(Crlf, y, w)
      BY ONLY <3>1, Grouped
    <3>3. QED
      BY <3>2 DEF Groups
  <2>3. QED
    BY ONLY <2>1, <2>2
<1> HIDE DEF z
<1>7. a \o (z \o w) = (a \o z) \o w
  <2>1. a \in Seq(Item) /\ z \in Seq(Item) /\ w \in Seq(Item)
    BY ONLY <1>3, <1>6, w \in Seq(Item)
  <2>2. Groups(a, z, w)
    BY ONLY <2>1, Grouped
  <2>3. QED
    BY <2>2 DEF Groups
<1>8. x \o w = a \o (Crlf \o (b \o u))
  BY <1>2, <1>11, <1>5, <1>6, <1>7
<1>9. c.state = "HEADERS"
  BY DEF AtFields
<1>10. QED
  BY <1>1, <1>8, <1>9 DEF AtFields, a, b, u

LEMMA LengthMore ==
  ASSUME NEW c \in Connection, NEW x \in Seq(Item), NEW r \in Requests, NEW t \in Seq(Item), NEW w \in Seq(Item),
         AtLength(c, x, r, t)
  PROVE  AtLength(c, x \o w, r, t \o w)
<1> DEFINE a == Span(c.written, r.length)
           o == End(r) \o t
<1>1. o \in Seq(Item) /\ End(r) \o (t \o w) = o \o w
  BY EndMore
<1>2. c.state = "BODY" /\ ~c.chunked /\ c.written < r.length /\ x = a \o o
  BY DEF AtLength
<1>3. a \in Seq(Item)
  <2>1. c.written \in Nat /\ r.length \in Nat /\ c.written <= r.length
    BY <1>2, AskedBody DEF Connection
  <2>2. QED
    BY <2>1, SpanIs
<1> HIDE DEF a, o
<1>4. a \o (o \o w) = (a \o o) \o w
  <2>1. a \in Seq(Item) /\ o \in Seq(Item) /\ w \in Seq(Item)
    BY <1>1, <1>3
  <2>2. QED
    BY ONLY <2>1, Together
<1>5. QED
  BY <1>1, <1>2, <1>4 DEF AtLength, a

LEMMA SizeMore ==
  ASSUME NEW c, NEW x \in Seq(Item), NEW r \in Requests, NEW t \in Seq(Item), NEW w \in Seq(Item),
         AtSize(c, x, r, t)
  PROVE  AtSize(c, x \o w, r, t \o w)
<1>1. ~c.trailing /\ ~c.done /\ c.size = 0
  BY DEF AtSize
<1>2. PICK k \in 0 .. Len(r.chunks) : c.written = SumTo(r.chunks, k) /\ x = Onwards(r, k, t)
  BY DEF AtSize
<1>3. x \o w = Onwards(r, k, t \o w)
  BY <1>2, OnwardsMore
<1>4. QED
  BY <1>1, <1>2, <1>3 DEF AtSize

LEMMA DataMore ==
  ASSUME NEW c \in Connection, NEW x \in Seq(Item), NEW r \in Requests, NEW t \in Seq(Item), NEW w \in Seq(Item),
         AtData(c, x, r, t)
  PROVE  AtData(c, x \o w, r, t \o w)
<1>1. ~c.trailing /\ ~c.done /\ c.size > 0
  BY DEF AtData
<1>2. PICK k \in 1 .. Len(r.chunks) :
        /\ c.written + c.size = SumTo(r.chunks, k)
        /\ x = Span(c.written, SumTo(r.chunks, k)) \o (Crlf \o Onwards(r, k, t))
  BY DEF AtData
<1> DEFINE a == Span(c.written, SumTo(r.chunks, k))
           o == Onwards(r, k, t)
           u == Onwards(r, k, t \o w)
<1>3. k \in 0 .. Len(r.chunks) /\ o \in Seq(Item) /\ o \o w = u
  <2>1. k \in 0 .. Len(r.chunks) /\ r \in Requests /\ t \in Seq(Item) /\ w \in Seq(Item)
    BY PiecesTyped
  <2>2. Onwards(r, k, t) \in Seq(Item)
    BY ONLY <2>1, Onward
  <2>3. Onwards(r, k, t) \o w = Onwards(r, k, t \o w)
    BY ONLY <2>1, OnwardsMore
  <2>4. QED
    BY <2>1, <2>2, <2>3
<1>4. a \in Seq(Item) /\ Crlf \in Seq(Item)
  <2>1. c.written \in Nat /\ c.size \in Nat /\ SumTo(r.chunks, k) \in Nat
    BY <1>3, TotalIs DEF Connection
  <2>2. c.written <= SumTo(r.chunks, k)
    BY <1>2, <2>1
  <2>3. QED
    BY <2>1, <2>2, SpanIs, Tokens
<1>5. x = a \o (Crlf \o o)
  BY <1>2
<1> HIDE DEF a, o, u
<1>6. Crlf \o o \in Seq(Item) /\ Crlf \o (o \o w) = (Crlf \o o) \o w
  <2>1. Crlf \o o \in Seq(Item)
    BY ONLY <1>3, <1>4, Joined
  <2>2. Crlf \o (o \o w) = (Crlf \o o) \o w
    <3>1. Crlf \in Seq(Item) /\ o \in Seq(Item) /\ w \in Seq(Item)
      BY ONLY <1>3, <1>4, w \in Seq(Item)
    <3>2. Groups(Crlf, o, w)
      BY ONLY <3>1, Grouped
    <3>3. QED
      BY <3>2 DEF Groups
  <2>3. QED
    BY <2>1, <2>2
<1>7. a \o ((Crlf \o o) \o w) = (a \o (Crlf \o o)) \o w
  <2>1. a \in Seq(Item) /\ (Crlf \o o) \in Seq(Item) /\ w \in Seq(Item)
    BY <1>4, <1>6
  <2>2. Groups(a, Crlf \o o, w)
    BY ONLY <2>1, Grouped
  <2>3. QED
    BY <2>2 DEF Groups
<1>8. x \o w = a \o (Crlf \o u)
  BY <1>3, <1>5, <1>6, <1>7
<1>9. QED
  BY <1>1, <1>2, <1>8 DEF AtData, a, u

LEMMA TrailingMore ==
  ASSUME NEW c, NEW x \in Seq(Item), NEW r \in Requests, NEW t \in Seq(Item), NEW w \in Seq(Item),
         AtTrailing(c, x, r, t)
  PROVE  AtTrailing(c, x \o w, r, t \o w)
<1>1. c.trailing /\ ~c.done /\ c.size = 0
  BY DEF AtTrailing
<1>2. PICK k \in 1 .. Len(r.chunks) : c.written = SumTo(r.chunks, k) /\ x = Crlf \o Onwards(r, k, t)
  BY DEF AtTrailing
<1> DEFINE o == Onwards(r, k, t)
<1>3. k \in 0 .. Len(r.chunks) /\ o \in Seq(Item) /\ o \o w = Onwards(r, k, t \o w)
  <2>1. k \in 0 .. Len(r.chunks) /\ r \in Requests /\ t \in Seq(Item) /\ w \in Seq(Item)
    BY PiecesTyped
  <2>2. Onwards(r, k, t) \in Seq(Item)
    BY ONLY <2>1, Onward
  <2>3. Onwards(r, k, t) \o w = Onwards(r, k, t \o w)
    BY ONLY <2>1, OnwardsMore
  <2>4. QED
    BY <2>1, <2>2, <2>3
<1> HIDE DEF o
<1>4. Crlf \o (o \o w) = (Crlf \o o) \o w
  <2>1. Crlf \in Seq(Item) /\ o \in Seq(Item) /\ w \in Seq(Item)
    BY <1>3, Tokens
  <2>2. Groups(Crlf, o, w)
    BY ONLY <2>1, Grouped
  <2>3. QED
    BY ONLY <2>2 DEF Groups
<1>5. x \o w = Crlf \o Onwards(r, k, t \o w)
  BY <1>2, <1>3, <1>4 DEF o
<1>6. QED
  BY <1>1, <1>2, <1>5 DEF AtTrailing

LEMMA LastMore ==
  ASSUME NEW c, NEW x \in Seq(Item), NEW r \in Requests, NEW t \in Seq(Item), NEW w \in Seq(Item),
         AtLast(c, x, r, t)
  PROVE  AtLast(c, x \o w, r, t \o w)
<1> DEFINE o == End(r) \o t
<1>1. o \in Seq(Item) /\ End(r) \o (t \o w) = o \o w
  BY EndMore
<1>2. c.trailing /\ c.done /\ c.written = Total(r) /\ x = Crlf \o o
  BY DEF AtLast
<1> HIDE DEF o
<1>3. Crlf \o (o \o w) = (Crlf \o o) \o w
  <2>1. Crlf \in Seq(Item) /\ o \in Seq(Item) /\ w \in Seq(Item)
    BY <1>1, Tokens
  <2>2. Groups(Crlf, o, w)
    BY ONLY <2>1, Grouped
  <2>3. QED
    BY ONLY <2>2 DEF Groups
<1>4. QED
  BY <1>1, <1>2, <1>3 DEF AtLast

LEMMA EndingMore ==
  ASSUME NEW x, NEW s \in Seq(Item), NEW w \in Seq(Item), x \in Ending(s)
  PROVE  x \o w \in Ending(s \o w)
<1>1. PICK n \in 0 .. Len(s) : x = From(s, n + 1)
  BY DEF Ending
<1>2. From(s \o w, n + 1) = x \o w
  BY <1>1, FromConcat
<1>3. n \in 0 .. Len(s \o w) /\ s \o w \in Seq(Item)
  BY Joined
<1>4. QED
  BY <1>2, <1>3, FromEnding

LEMMA AtMore ==
  ASSUME NEW c \in Connection, NEW x \in Seq(Item), NEW r \in Requests, NEW t \in Seq(Item), NEW w \in Seq(Item),
         At(c, x, r, t)
  PROVE  At(c, x \o w, r, t \o w)
<1>1. Of(c, r)
  BY DEF At
<1>2. \/ AtFields(c, x, r, t)
      \/ Accepted(c, r) /\ AtLength(c, x, r, t)
      \/ Accepted(c, r) /\ AtChunk(c, x, r, t)
      \/ Accepted(c, r) /\ AtEnd(c, x, r, t)
  BY DEF At
<1>3. CASE AtFields(c, x, r, t)
  BY <1>1, <1>3, FieldsMore DEF At
<1>4. CASE Accepted(c, r) /\ AtLength(c, x, r, t)
  BY <1>1, <1>4, LengthMore DEF At
<1>5. CASE Accepted(c, r) /\ AtChunk(c, x, r, t)
  <2>1. c.state = "BODY" /\ c.chunked
    BY <1>5 DEF AtChunk
  <2>2. AtSize(c, x, r, t) \/ AtData(c, x, r, t) \/ AtTrailing(c, x, r, t) \/ AtLast(c, x, r, t)
    BY <1>5 DEF AtChunk
  <2>3. \/ AtSize(c, x \o w, r, t \o w) \/ AtData(c, x \o w, r, t \o w)
        \/ AtTrailing(c, x \o w, r, t \o w) \/ AtLast(c, x \o w, r, t \o w)
    BY <2>2, SizeMore, DataMore, TrailingMore, LastMore
  <2>4. QED
    BY <1>1, <1>5, <2>1, <2>3 DEF At, AtChunk
<1>6. CASE Accepted(c, r) /\ AtEnd(c, x, r, t)
  <2>1. x \in Ending(End(r) \o t) /\ End(r) \o t \in Seq(Item) /\ (End(r) \o t) \o w = End(r) \o (t \o w)
    BY <1>6, EndMore DEF AtEnd
  <2>2. x \o w \in Ending(End(r) \o (t \o w))
    BY <2>1, EndingMore
  <2>3. AtEnd(c, x \o w, r, t \o w)
    BY <1>6, <2>2 DEF AtEnd
  <2>4. QED
    BY <1>1, <1>6, <2>3 DEF At
<1>7. QED
  BY <1>2, <1>3, <1>4, <1>5, <1>6

-----------------------------------------------------------------------------
(* What is left lies in order. *)

\* A trail is a sequence, and keeps its request or the nothing behind.
LEMMA TrailIs ==
  ASSUME NEW s \in Seq(Requests), NEW x \in Seq(Item), NEW k \in 1 .. Len(s) + 1, NEW n, Trail(x, s, k, n)
  PROVE  /\ k <= Len(s) => Begun(x, n, s[k], WiresOf(s, k + 1)) /\ WiresOf(s, k + 1) \in Seq(Item)
         /\ k = Len(s) + 1 => n = Len(x) /\ \A i \in 1 .. Len(x) : x[i].kind # "line"
<1>1. n \in 0 .. Len(x) /\ (\A i \in 1 .. n : x[i].kind # "line") /\ From(x, n + 1) = WiresOf(s, k)
  BY DEF Trail
<1>2. Len(s) \in Nat /\ Len(x) \in Nat
  BY LenProperties
<1>3. CASE k <= Len(s)
  <2>1. k \in 1 .. Len(s) /\ k + 1 \in 1 .. Len(s) + 1 /\ k # Len(s) + 1
    BY <1>2, <1>3
  <2>2. WiresOf(s, k) = Wire(s[k]) \o WiresOf(s, k + 1) /\ WiresOf(s, k + 1) \in Seq(Item)
    BY <2>1, WiresIs
  <2>3. QED
    BY <1>1, <2>1, <2>2 DEF Begun
<1>4. CASE k = Len(s) + 1
  <2>1. WiresOf(s, k) = <<>> /\ ~(k <= Len(s))
    BY <1>2, <1>4, WiresIs
  <2>2. Len(From(x, n + 1)) = Len(x) - n
    BY <1>1, FromIs
  <2>3. Len(x) - n = 0
    BY <1>1, <2>1, <2>2
  <2>4. n = Len(x)
    BY <1>1, <1>2, <2>3
  <2>5. QED
    BY <1>1, <2>1, <2>4
<1>5. QED
  BY <1>2, <1>3, <1>4

\* An end of what lies in order does.
LEMMA LyingEnding ==
  ASSUME NEW s \in Seq(Requests), NEW x \in Seq(Item), NEW y \in Ending(x), NEW turn \in Nat, NEW ok \in BOOLEAN,
         Lying(x, s, turn, ok, FALSE)
  PROVE  Lying(y, s, turn, ok, FALSE)
<1>1. PICK k \in 1 .. Len(s) + 1, n \in Nat : Trail(x, s, k, n) /\ (ok => turn <= k)
  BY DEF Lying
<1>2. PICK j \in k .. Len(s) + 1, m \in Nat : Trail(y, s, j, m)
  BY <1>1, TrailEnding
<1>3. Len(s) \in Nat
  BY LenProperties
<1>4. j \in 1 .. Len(s) + 1 /\ (ok => turn <= j)
  BY <1>1, <1>2, <1>3
<1>5. QED
  BY <1>2, <1>4 DEF Lying

\* It does with less asked of it.
LEMMA LyingLess ==
  ASSUME NEW x, NEW s, NEW turn, NEW ok \in BOOLEAN, NEW due \in BOOLEAN, NEW good \in BOOLEAN, NEW need \in BOOLEAN,
         NEW next, good => ok /\ next = turn, need => due /\ next = turn, Lying(x, s, turn, ok, due)
  PROVE  Lying(x, s, next, good, need)
<1>1. PICK k \in 1 .. Len(s) + 1, n \in Nat :
        Trail(x, s, k, n) /\ (ok => turn <= k) /\ (due => k = turn /\ n <= 2 /\ ~Odd(x, n))
  BY DEF Lying
<1>2. (good => next <= k) /\ (need => k = next /\ n <= 2 /\ ~Odd(x, n))
  BY <1>1
<1>3. QED
  BY <1>1, <1>2 DEF Lying

\* It does with a further request behind it.
LEMMA LyingMore ==
  ASSUME NEW s \in Seq(Requests), NEW r \in Requests, NEW x \in Seq(Item), NEW turn, NEW ok \in BOOLEAN,
         NEW due \in BOOLEAN, Lying(x, s, turn, ok, due)
  PROVE  Lying(x \o Wire(r), Append(s, r), turn, ok, due)
<1>1. PICK k \in 1 .. Len(s) + 1, n \in Nat :
        Trail(x, s, k, n) /\ (ok => turn <= k) /\ (due => k = turn /\ n <= 2 /\ ~Odd(x, n))
  BY DEF Lying
<1>2. Trail(x \o Wire(r), Append(s, r), k, n) /\ \A i \in 1 .. n : (x \o Wire(r))[i] = x[i]
  BY <1>1, TrailMore
<1>3. ~Odd(x, n) => ~Odd(x \o Wire(r), n)
  BY <1>2 DEF Odd
<1>4. k \in 1 .. Len(Append(s, r)) + 1
  <2>1. Len(Append(s, r)) = Len(s) + 1 /\ Len(s) \in Nat
    BY AppendProperties, LenProperties
  <2>2. QED
    BY <2>1
<1>5. QED
  BY <1>1, <1>2, <1>3, <1>4 DEF Lying

\* What is left behind the end of a request that has been answered: of the
\* next one, if that was not begun early, nothing has been sent.
LEMMA LyingBehind ==
  ASSUME NEW s \in Seq(Requests), NEW k \in 1 .. Len(s), NEW y \in Ending(End(s[k]) \o WiresOf(s, k + 1)),
         NEW turn \in Nat, NEW ok \in BOOLEAN, NEW due \in BOOLEAN,
         ok => turn <= k, due => ok /\ turn + 1 \notin 1 .. Len(s)
  PROVE  Lying(y, s, turn + 1, ok, due)
<1> DEFINE r == s[k]
           e == End(r)
           w == WiresOf(s, k + 1)
<1>1. /\ Len(s) \in Nat /\ k + 1 \in 1 .. Len(s) + 1 /\ r \in Requests /\ w \in Seq(Item)
      /\ k \in 1 .. Len(s) + 1 /\ k + 1 \in Nat
  <2>1. Len(s) \in Nat
    BY LenProperties
  <2>2. k + 1 \in 1 .. Len(s) + 1 /\ k \in 1 .. Len(s) + 1
    BY <2>1
  <2>3. QED
    BY <2>1, <2>2, WiresIs
<1>2. e \in Seq(Item) /\ Len(e) \in Nat /\ Len(e) <= 2 /\ \A i \in 1 .. Len(e) : e[i] \in {CR, LF}
  <2>1. e = <<>> \/ e = Crlf
    BY DEF End
  <2>2. Len(Crlf) = 2 /\ Crlf[1] = CR /\ Crlf[2] = LF /\ Crlf \in Seq(Item) /\ <<>> \in Seq(Item) /\ Len(<<>>) = 0
    BY Tokens
  <2>6. 0 <= 2 /\ 2 <= 2 /\ 0 \in Nat /\ 2 \in Nat
    OBVIOUS
  <2>3. CASE e = <<>>
    <3>1. Len(e) = 0 /\ e \in Seq(Item)
      BY <2>2, <2>3
    <3>2. QED
      BY <2>6, <3>1
  <2>4. CASE e = Crlf
    <3>1. Len(e) = 2 /\ e[1] = CR /\ e[2] = LF /\ e \in Seq(Item)
      BY <2>2, <2>4
    <3>2. QED
      BY <2>6, <3>1
  <2>5. QED
    BY <2>1, <2>3, <2>4
<1>3. \A x \in {CR, LF} : x \in Item /\ x.kind # "line"
  BY ItemKinds DEF CR, LF
<1>9. y \in Ending(e \o w)
  OBVIOUS
<1> HIDE DEF e, r
<1>4. \E j \in k + 1 .. Len(s) + 1, m \in Nat :
        Trail(y, s, j, m) /\ (j = Len(s) + 1 /\ k = Len(s) => m <= 2 /\ ~Odd(y, m))
  <2>1. CASE y \in Ending(w)
    <3>1. PICK j \in k + 1 .. Len(s) + 1, m \in Nat : Trail(y, s, j, m)
      BY <1>1, <2>1, WiresEnding
    <3>2. k = Len(s) => m = 0
      <4>1. SUFFICES ASSUME k = Len(s) PROVE m = 0
        OBVIOUS
      <4>2. w = <<>> /\ Len(w) = 0
        BY <4>1, WiresIs, Tokens
      <4>3. y \in Seq(Item) /\ Len(y) <= Len(w)
        BY <1>1, <2>1, EndingIs
      <4>4. Len(y) \in Nat /\ m \in 0 .. Len(y)
        BY <3>1, <4>3, LenProperties DEF Trail
      <4>5. QED
        BY <4>2, <4>3, <4>4
    <3>3. m = 0 => m <= 2 /\ ~Odd(y, m)
      BY DEF Odd
    <3>4. QED
      BY <3>1, <3>2, <3>3
  <2>2. CASE \E m \in 0 .. Len(e) : y = From(e, m + 1) \o w
    <3>1. PICK m \in 0 .. Len(e) : y = From(e, m + 1) \o w
      BY <2>2
    <3> DEFINE a == From(e, m + 1)
    <3>2. a \in Seq(Item) /\ Len(a) = Len(e) - m /\ \A i \in 1 .. Len(e) - m : a[i] = e[m + i]
      BY <1>2, FromIs
    <3>3. Len(a) \in Nat /\ Len(a) <= 2
      <4>1. Len(a) \in Nat
        BY <3>2, LenProperties
      <4>2. Len(a) = Len(e) - m /\ m \in Nat /\ Len(e) \in Nat /\ Len(e) <= 2
        BY <1>2, <3>2
      <4>3. QED
        BY ONLY <4>1, <4>2
    <3>4. \A i \in 1 .. Len(a) : a[i] \in {CR, LF}
      <4>1. \A i \in 1 .. Len(a) : m + i \in 1 .. Len(e) /\ i \in 1 .. Len(e) - m
        BY <1>2, <3>2
      <4>2. QED
        BY <1>2, <3>2, <4>1
    <3>5. y = a \o w
      BY <3>1
    <3> HIDE DEF a
    <3>6. Trail(y, s, k + 1, Len(a))
      BY <1>1, <1>3, <3>2, <3>4, <3>5, TrailMade
    <3>7. \A i \in 1 .. Len(a) : y[i] = a[i]
      BY <1>1, <3>2, <3>5, Joined
    <3>8. Len(a) <= 2 /\ Len(a) \in Nat
      BY <3>3
    <3>10. ~Odd(y, Len(a))
      BY <3>4, <3>7 DEF Odd
    <3>9. k + 1 \in k + 1 .. Len(s) + 1
      BY <1>1
    <3>11. QED
      BY <3>6, <3>8, <3>9, <3>10
  <2>3. QED
    BY <1>1, <1>2, <1>9, <2>1, <2>2, EndingOfBoth
<1>5. PICK j \in k + 1 .. Len(s) + 1, m \in Nat :
        Trail(y, s, j, m) /\ (j = Len(s) + 1 /\ k = Len(s) => m <= 2 /\ ~Odd(y, m))
  BY <1>4
<1>6. j \in 1 .. Len(s) + 1 /\ (ok => turn + 1 <= j)
  BY <1>1, <1>5
<1>7. due => j = turn + 1 /\ m <= 2 /\ ~Odd(y, m)
  <2>1. SUFFICES ASSUME due PROVE j = turn + 1 /\ m <= 2 /\ ~Odd(y, m)
    OBVIOUS
  <2>2. turn <= k /\ turn + 1 \notin 1 .. Len(s)
    BY <2>1
  <2>3. turn = Len(s) /\ k = Len(s) /\ j = Len(s) + 1
    BY <1>1, <1>5, <2>2
  <2>4. QED
    BY <1>5, <2>3
<1>8. QED
  BY <1>5, <1>6, <1>7 DEF Lying

-----------------------------------------------------------------------------
(* Answers, and what they change. *)

\* An answer with this code is appended.
Answers(code) ==
  \E body \in Seq(Item), after \in Nat :
    responses' = Append(responses, [code |-> code, body |-> body, after |-> after])

\* Only an answer of 200 leaves all of them good.
LEMMA AnswersIs ==
  ASSUME responses \in Seq(Response), NEW code \in Nat, Answers(code)
  PROVE  /\ Turn \in Nat /\ Turn' = Turn + 1
         /\ Ok' <=> Ok /\ code = 200
<1>1. PICK body \in Seq(Item), after \in Nat :
        responses' = Append(responses, [code |-> code, body |-> body, after |-> after])
  BY DEF Answers
<1> DEFINE n == Len(responses)
<1>2. /\ Len(responses') = n + 1 /\ n \in Nat
      /\ responses'[n + 1].code = code
      /\ \A i \in 1 .. n : responses'[i] = responses[i]
  <2>1. /\ Len(responses') = n + 1
        /\ responses'[n + 1] = [code |-> code, body |-> body, after |-> after]
        /\ \A i \in 1 .. n : responses'[i] = responses[i]
    BY <1>1, AnswerIs
  <2>2. n \in Nat
    BY LenProperties
  <2>3. QED
    BY <2>1, <2>2
<1>3. Ok' <=> \A i \in 1 .. n + 1 : responses'[i].code = 200
  BY <1>2 DEF Ok
<1>4. Ok <=> \A i \in 1 .. n : responses[i].code = 200
  BY DEF Ok
<1>5. Turn \in Nat /\ Turn' = Turn + 1
  BY <1>2 DEF Turn
<1> HIDE DEF n
<1>6. \A i \in 1 .. n + 1 : i \in 1 .. n \/ i = n + 1
  BY <1>2
<1>7. n + 1 \in 1 .. n + 1 /\ \A i \in 1 .. n : i \in 1 .. n + 1
  BY <1>2
<1>8. QED
  BY <1>2, <1>3, <1>4, <1>5, <1>6, <1>7

LEMMA AnswerMade ==
  ASSUME NEW code, NEW body \in Seq(Item), Answer(code, body)
  PROVE  phase' = "WRITING" /\ Answers(code)
BY DEF Answer, Answers

\* A dispatched request is answered, well or with an error of the server,
\* unless the process dies over a page.
LEMMA DispatchAnswers ==
  ASSUME responses \in Seq(Response), NEW c \in Connection, NEW f \in SpoolFile, NEW fault, Dispatch(c, f, fault)
  PROVE  \/ phase' = "DIED" /\ responses' = responses
         \/ phase' = "WRITING" /\ \E code \in {200, 413, 500} : Answers(code)
<1> DEFINE final == IF Spools(c) THEN Finalize(f, fault) ELSE f
<1>1. c.body \in Seq(Item) /\ <<>> \in Seq(Item)
  BY EmptySeq DEF Connection
<1>2. CASE ~Spools(c)
  <2>1. Page(c)
    BY <1>2 DEF Dispatch
  <2>2. \/ Answer(200, c.body)
        \/ phase' = "DIED" /\ responses' = responses
        \/ \E n \in Nat : phase' = "WRITING" /\
                       responses' = Append(responses, [code |-> 413, body |-> <<>>, after |-> n])
    BY <2>1, PageIs
  <2>3. CASE Answer(200, c.body)
    <3>1. phase' = "WRITING" /\ Answers(200)
      BY <1>1, <2>3, AnswerMade
    <3>2. QED
      BY <3>1
  <2>4. CASE \E n \in Nat : phase' = "WRITING" /\
                responses' = Append(responses, [code |-> 413, body |-> <<>>, after |-> n])
    <3>1. PICK n \in Nat : /\ phase' = "WRITING"
                          /\ responses' = Append(responses, [code |-> 413, body |-> <<>>, after |-> n])
      BY <2>4
    <3>2. Answers(413)
      BY <1>1, <3>1 DEF Answers
    <3>3. QED
      BY <3>1, <3>2
  <2>5. QED
    BY <2>2, <2>3, <2>4
<1>3. CASE Spools(c)
  <2>1. final.content \in Seq(Item)
    <3>1. final = Finalize(f, fault)
      BY <1>3
    <3>2. Finalize(f, fault).content = f.content
      BY FinalizeIs
    <3>3. QED
      BY <3>1, <3>2 DEF SpoolFile
  <2>2. Answer(500, <<>>) \/ Answer(200, final.content)
    BY <1>3 DEF Dispatch
  <2> HIDE DEF final
  <2>3. CASE Answer(500, <<>>)
    <3>1. phase' = "WRITING" /\ Answers(500)
      BY <1>1, <2>3, AnswerMade
    <3>2. QED
      BY <3>1
  <2>4. CASE Answer(200, final.content)
    <3>1. phase' = "WRITING" /\ Answers(200)
      BY <2>1, <2>4, AnswerMade
    <3>2. QED
      BY <3>1
  <2>5. QED
    BY <2>2, <2>3, <2>4
<1>4. QED
  BY <1>2, <1>3

\* What was begun early stays so, whatever is answered.
LEMMA EarlyKept ==
  ASSUME EarlyInv, responses \in Seq(Response), UNCHANGED <<sent, early>>,
         responses' = responses \/ \E code \in Nat : Answers(code)
  PROVE  EarlyInv'
<1>1. CASE responses' = responses
  BY <1>1 DEF EarlyInv, Ok, Turn
<1>2. CASE \E code \in Nat : Answers(code)
  <2>1. PICK code \in Nat : Answers(code)
    BY <1>2
  <2>2. Turn \in Nat /\ Turn' = Turn + 1 /\ (Ok' => Ok)
    BY <2>1, AnswersIs
  <2>3. ASSUME NEW m \in 1 .. Len(sent), IF Ok' THEN Turn' < m ELSE Turn' <= m
        PROVE  m \in early
    <3>1. m \in Nat /\ Turn < m
      BY <2>2, <2>3
    <3>2. IF Ok THEN Turn < m ELSE Turn <= m
      BY <2>2, <3>1
    <3>3. QED
      BY <3>2 DEF EarlyInv
  <2>4. QED
    BY <2>3 DEF EarlyInv
<1>3. QED
  BY <1>1, <1>2

\* Nothing can be done with what is there when parsing ends.
LEMMA SettledWaits ==
  ASSUME NEW c, Sane(c), Settled(c), c.state # "IDLE"
  PROVE  Waits(c)
<1> DEFINE b == c.buffer
<1>1. c \in Connection /\ b \in Seq(Item) /\ Len(b) \in Nat /\ c.size \in Nat
  BY LenProperties DEF Sane, Connection
<1>2. ASSUME c.state = "BODY", c.chunked
      PROVE  Stuck(c)
  <2>1. ChunkStep(c) = c /\ c.written <= c.max
    BY <1>2 DEF Settled, Sane
  <2>2. CASE c.trailing
    <3>1. ChunkTrailing(c) = c
      BY <1>1, <1>2, <2>1, <2>2, ChunkStepIs
    <3>2. Len(b) < 2 \/ (Len(b) >= 2 /\ b = From(b, 3))
      BY <1>1, <3>1, ChunkTrailingIs
    <3>3. Len(b) >= 2 => Len(From(b, 3)) = Len(b) - 2
      <4>1. Len(b) >= 2 => 2 \in 0 .. Len(b) /\ 2 + 1 = 3
        BY <1>1
      <4>2. QED
        BY <1>1, <4>1, FromIs
    <3>4. Len(b) < 2
      BY <1>1, <3>2, <3>3
    <3>5. QED
      BY <2>2, <3>4 DEF Stuck
  <2>3. CASE ~c.trailing /\ c.size = 0
    <3>1. ChunkSize(c) = c
      BY <1>1, <1>2, <2>1, <2>3, ChunkStepIs
    <3> DEFINE n == CrlfIn(b)
    <3>2. n = 0 \/ (n \in 1 .. Len(b) - 1 /\ b = From(b, n + 2))
      BY <1>1, <3>1, ChunkSizeIs
    <3> HIDE DEF n
    <3>3. n \in 1 .. Len(b) - 1 => n + 1 \in 0 .. Len(b) /\ (n + 1) + 1 = n + 2 /\ Len(b) - (n + 1) # Len(b)
      BY <1>1
    <3>4. n \in 1 .. Len(b) - 1 => Len(From(b, n + 2)) = Len(b) - (n + 1)
      BY <1>1, <3>3, FromIs
    <3>5. n = 0
      BY <3>2, <3>3, <3>4
    <3>6. QED
      BY <2>3, <3>5 DEF Stuck, n
  <2>4. CASE ~c.trailing /\ c.size > 0
    <3>1. ChunkData(c) = c
      BY <1>1, <1>2, <2>1, <2>4, ChunkStepIs
    <3> DEFINE n == Least(c.size, Len(b))
    <3>2. n \in 0 .. Len(b) /\ (c = Fails(c, 413) \/ Taken(c, c, n))
      BY <1>1, <1>2, <2>4, <3>1, ChunkDataIs
    <3>3. n \in {c.size, Len(b)}
      BY <1>1, LeastIs
    <3> HIDE DEF n
    <3>4. c # Fails(c, 413)
      <4>1. Fails(c, 413).state = "ERROR"
        BY <1>1, FailsCode
      <4>2. QED
        BY <1>2, <4>1
    <3>5. b = From(b, n + 1) /\ Len(From(b, n + 1)) = Len(b) - n
      BY <1>1, <3>2, <3>4, FromIs DEF Taken
    <3>6. n = 0
      BY <1>1, <3>2, <3>5
    <3>7. Len(b) = 0
      BY <2>4, <3>3, <3>6
    <3>8. b = <<>>
      BY <1>1, <3>7, FromStart
    <3>9. c.size # 0
      BY <2>4
    <3>10. QED
      BY <2>4, <3>8, <3>9 DEF Stuck
  <2>5. QED
    BY <1>1, <2>2, <2>3, <2>4
<1>3. QED
  BY <1>2 DEF Waits, Settled

\* Spooling changes nothing of that.
LEMMA WaitsFlushed ==
  ASSUME NEW c \in Connection, c.state \in {"BODY", "COMPLETE"}, Waits(c), NEW d, d = [c EXCEPT !.body = <<>>]
  PROVE  Waits(d)
<1>1. /\ d.state = c.state /\ d.buffer = c.buffer /\ d.chunked = c.chunked
      /\ d.trailing = c.trailing /\ d.size = c.size
  BY DEF Connection
<1>2. QED
  BY <1>1 DEF Waits, Stuck

-----------------------------------------------------------------------------
(* A round of the loop. *)

\* A request that is complete is spooled, but for a body of no bytes.
LEMMA NotSpooled ==
  ASSUME NEW c \in Connection, NEW f \in SpoolFile, NEW x, NEW r \in Requests, NEW t,
         At(c, x, r, t), Kept(c, f.content), f.written = Len(f.content),
         Spools(c) => c.body = <<>>, c.state = "COMPLETE", ~FullySpooled(c, f)
  PROVE  NeverSpooled(r)
<1>1. /\ c.method = r.method /\ c.target = r.target /\ r.code = 200
      /\ Reasons(r) \subseteq {413} /\ c.length = r.length /\ c.chunked = InChunks(r) /\ (c.chunked => r.length = 0)
      /\ c.written = Total(r)
  BY DEF At, Of, Accepted, AtFields, AtLength, AtChunk, AtEnd
<1>2. Total(r) \in Nat /\ r.length \in Nat /\ (~InChunks(r) => Total(r) = r.length)
  BY TotalIs, AskedBody, NoChunks
<1>3. r.method = "POST" /\ Total(r) = 0 => InChunks(r)
  <2>1. r.method = "POST" /\ Total(r) = 0 /\ ~InChunks(r) => 411 \in Reasons(r)
    BY <1>1, ReasonIs
  <2>2. 411 \notin Reasons(r)
    BY <1>1
  <2>3. QED
    BY <2>1, <2>2
<1>4. ExpectsBody(c)
  BY DEF FullySpooled
<1>5. CASE Spools(c)
  <2>1. c.body = <<>> /\ ~(f.written > 0 /\ f.written = c.written /\ f.written >= c.length)
    BY <1>5 DEF FullySpooled
  <2>2. f.content = Datas(c.written)
    <3>1. f.content \in Seq(Item) /\ f.content \o <<>> = Datas(c.written)
      BY <2>1 DEF Kept, SpoolFile
    <3>2. QED
      BY <3>1, ConcatEmptySeq
  <2>3. Len(Datas(c.written)) = c.written
    <3>1. c.written \in Nat /\ 0 \in Nat /\ 0 <= c.written /\ c.written - 0 = c.written
      BY DEF Connection
    <3>2. Datas(c.written) = Span(0, c.written) /\ Len(Span(0, c.written)) = c.written - 0
      BY <3>1, SpanIs
    <3>3. QED
      BY <3>1, <3>2
  <2>4. f.written = Total(r)
    BY <1>1, <2>2, <2>3
  <2>5. c.length <= Total(r)
    <3>1. CASE InChunks(r)
      BY <1>1, <1>2, <3>1
    <3>2. CASE ~InChunks(r)
      BY <1>1, <1>2, <3>2
    <3>3. QED
      BY <3>1, <3>2
  <2>6. Total(r) = 0
    BY <1>1, <1>2, <2>1, <2>4, <2>5
  <2>7. InChunks(r)
    <3>1. CASE c.length > 0
      BY <1>2, <2>5, <2>6, <1>1, <3>1
    <3>2. CASE c.chunked
      BY <1>1, <3>2
    <3>3. CASE c.method = "POST"
      BY <1>1, <1>3, <2>6, <3>3
    <3>4. QED
      BY <1>4, <3>1, <3>2, <3>3 DEF ExpectsBody
  <2>8. r.target = "script"
    BY <1>1, <1>5 DEF Spools
  <2>9. QED
    BY <2>6, <2>7, <2>8 DEF NeverSpooled
<1>6. CASE ~Spools(c)
  <2>1. ~c.chunked /\ ~(c.written >= c.length)
    BY <1>6 DEF FullySpooled
  <2>2. ~InChunks(r)
    BY <1>1, <2>1
  <2>3. QED
    BY <1>1, <1>2, <2>1, <2>2
<1>7. QED
  BY <1>5, <1>6

AnswersBad == \E code \in Nat : code # 200 /\ Answers(code)

\* After an error there is nothing that a request is due in.
LEMMA AfterError ==
  ASSUME TypeOK, EarlyInv, AnswersBad, phase' = "WRITING",
         UNCHANGED <<sent, early>>, NEW x \in Seq(Item), Lying(x, sent, Turn, Ok, FALSE), Coming' \in Ending(x)
  PROVE  StreamInv' /\ EarlyInv'
<1>1. responses \in Seq(Response) /\ sent \in Seq(Requests)
  BY DEF TypeOK
<1>0. PICK code \in Nat : code # 200 /\ Answers(code)
  BY DEF AnswersBad
<1>2. Turn \in Nat /\ ~Ok' /\ Ok \in BOOLEAN
  BY <1>0, <1>1, AnswersIs DEF Ok
<1>3. ~Due'
  BY <1>2 DEF Due
<1>4. Lying(Coming', sent, Turn, Ok, FALSE)
  BY <1>1, <1>2, LyingEnding
<1>5. Lying(Coming', sent, Turn', FALSE, FALSE)
  BY <1>2, <1>4, LyingLess
<1>6. Ok' = FALSE /\ Due' = FALSE
  <2>1. Ok' \in BOOLEAN /\ Due' \in BOOLEAN
    BY DEF Ok, Due
  <2>2. QED
    BY <1>2, <1>3, <2>1
<1>7. Lying(Coming', sent', Turn', Ok', Due')
  BY <1>5, <1>6
<1>8. StreamInv'
  BY <1>7 DEF StreamInv, Reading
<1>9. EarlyInv'
  BY <1>0, <1>1, EarlyKept
<1>10. QED
  BY <1>8, <1>9

\* The end of a round, before or in a request: nothing is done with what is
\* not complete or cannot be spooled; otherwise it is answered, and what is
\* left is behind it.
Ready(c, f, x, r, t) ==
  /\ At(c, x, r, t) /\ Kept(c, f.content) /\ f.written = Len(f.content)
  /\ IF Spools(c) THEN c.body = <<>> ELSE f.content = <<>>
Place(k) == (Ok => Turn <= k) /\ (Due => k = Turn)

LEMMA RoundEnds ==
  ASSUME TypeOK, EarlyInv, NEW k \in 1 .. Len(sent), Place(k),
         NEW c \in Connection, Waits(c), NEW f \in SpoolFile, NEW fault, NEW next \in {"WAITING", "HANDLING"},
         NEW x, x = c.buffer \o Coming', Coming' \in Seq(Item), Lying(x, sent, Turn, Ok, FALSE),
         Ready(c, f, x, sent[k], WiresOf(sent, k + 1)),
         DispatchOr(c, f, fault, next), UNCHANGED <<sent, early>>,
         next = "WAITING" => socket' = <<>>
  PROVE  StreamInv' /\ EarlyInv'
<1> DEFINE r == sent[k]
           t == WiresOf(sent, k + 1)
<1>1. /\ responses \in Seq(Response) /\ sent \in Seq(Requests) /\ Ok \in BOOLEAN /\ Turn \in Nat
      /\ r \in Requests
  <2>1. responses \in Seq(Response) /\ sent \in Seq(Requests)
    BY DEF TypeOK
  <2>2. Len(responses) \in Nat
    BY <2>1, LenProperties
  <2>3. QED
    BY <2>1, <2>2, WiresIs DEF Ok, Turn
<1>2. CASE ~(c.state = "COMPLETE" /\ FullySpooled(c, f))
  <2>1. conn' = c /\ file' = f /\ phase' = next /\ responses' = responses
    BY <1>2 DEF DispatchOr
  <2>2. c.state = "COMPLETE" => NeverSpooled(r)
    BY <1>1, <1>2, NotSpooled DEF Ready
  <2>3. InRequest(c, f, x, r, t)
    BY <2>2 DEF Ready, InRequest
  <2>4. Turn' = Turn /\ Ok' = Ok /\ Due' = Due
    BY <2>1 DEF Turn, Ok, Due
  <2>5. Within(c, f, x, sent, Turn, Ok, Due)
    BY <2>3 DEF Within, Place
  <2>6. Parsed(c, f, x, sent, Turn, Ok, Due)
    BY <2>5 DEF Parsed
  <2>7. Left' = x
    BY <2>1 DEF Left
  <2>8. Parsed(conn', file', Left', sent', Turn', Ok', Due')
    BY <2>1, <2>4, <2>6, <2>7
  <2>9. phase' \in {"WAITING", "HANDLING"} /\ (phase' = "WAITING" => socket' = <<>>)
    BY <2>1
  <2>10. StreamInv'
    BY <2>8, <2>9 DEF StreamInv
  <2>11. EarlyInv'
    BY <1>1, <2>1, EarlyKept
  <2>12. QED
    BY <2>10, <2>11
<1>3. CASE c.state = "COMPLETE" /\ FullySpooled(c, f)
  <2>1. Dispatch(c, f, fault)
    BY <1>3 DEF DispatchOr
  <2>2. \/ phase' = "DIED" /\ responses' = responses
        \/ phase' = "WRITING" /\ \E code \in {200, 413, 500} : Answers(code)
    BY <1>1, <2>1, DispatchAnswers
  <2>3. CASE phase' = "DIED" /\ responses' = responses
    <3>1. StreamInv'
      BY <2>3 DEF StreamInv, Reading
    <3>2. QED
      BY <1>1, <2>3, <3>1, EarlyKept
  <2>4. c.buffer \in Seq(Item) /\ x \in Seq(Item) /\ Coming' \in Ending(x)
    <3>1. c.buffer \in Seq(Item)
      BY DEF Connection
    <3>2. x \in Seq(Item) /\ Len(c.buffer) \in 0 .. Len(x)
      BY <3>1, Joined
    <3>3. From(x, Len(c.buffer) + 1) = Coming'
      BY <3>1, FromEnd
    <3>4. QED
      BY <3>1, <3>2, <3>3, FromEnding
  <2>5. CASE phase' = "WRITING" /\ \E code \in {413, 500} : Answers(code)
    <3>1. AnswersBad
      BY <2>5 DEF AnswersBad
    <3>2. phase' = "WRITING"
      BY <2>5
    <3>3. QED
      BY <2>4, <3>1, <3>2, AfterError
  <2>6. CASE phase' = "WRITING" /\ Answers(200)
    <3>1. Turn' = Turn + 1 /\ (Ok' <=> Ok)
      BY <1>1, <2>6, AnswersIs
    <3>2. x \in Ending(End(r) \o t)
      BY <1>3 DEF Ready, At, AtFields, AtLength, AtChunk, AtEnd
    <3>3. t \in Seq(Item) /\ End(r) \o t \in Seq(Item)
      <4>1. Len(sent) \in Nat
        BY <1>1, LenProperties
      <4>2. k + 1 \in 1 .. Len(sent) + 1
        BY <4>1
      <4>3. t \in Seq(Item)
        BY <1>1, <4>2, WiresIs
      <4>4. QED
        BY <1>1, <4>3, EndMore
    <3>4. Coming' \in Ending(End(r) \o t)
      BY <2>4, <3>2, <3>3, EndingIs
    <3>5. Due' => Ok' /\ Turn + 1 \notin 1 .. Len(sent)
      <4>1. SUFFICES ASSUME Due' PROVE Ok' /\ Turn + 1 \notin 1 .. Len(sent)
        OBVIOUS
      <4>2. Ok' /\ Turn + 1 \notin early
        BY <3>1, <4>1 DEF Due
      <4>3. Ok /\ Turn < Turn + 1
        BY <1>1, <3>1, <4>2
      <4>4. QED
        BY <4>2, <4>3 DEF EarlyInv
    <3>6. Ok' => Turn <= k
      BY <3>1 DEF Place
    <3>7. Ok' \in BOOLEAN /\ Due' \in BOOLEAN
      BY DEF Ok, Due
    <3>8. Lying(Coming', sent, Turn + 1, Ok', Due')
      BY <1>1, <3>4, <3>5, <3>6, <3>7, LyingBehind
    <3>9. StreamInv'
      BY <2>6, <3>1, <3>8 DEF StreamInv, Reading
    <3>10. 200 \in Nat
      OBVIOUS
    <3>11. QED
      BY <1>1, <2>6, <3>9, <3>10, EarlyKept
  <2>7. QED
    BY <2>2, <2>3, <2>5, <2>6
<1>4. QED
  BY <1>2, <1>3

-----------------------------------------------------------------------------
(* Reading. *)

\* No request is refused with a 200.
LEMMA ReasonsBad ==
  ASSUME NEW r
  PROVE  200 \notin Reasons(r)
<1>1. CASE r.code # 200
  BY <1>1 DEF Reasons
<1>2. CASE r.code = 200
  <2>1. \A code \in Reasons(r) : code = 400 \/ code = 431 \/ code = 411 \/ code = 413
    BY <1>2 DEF Reasons
  <2>2. QED
    BY <2>1
<1>3. QED
  BY <1>1, <1>2

\* Before a request line, feeding what was read leaves the connection there,
\* in the request that is next, or in error.
LEMMA FedBetween ==
  ASSUME NEW rest \in Seq(Item), NEW s \in Seq(Requests), NEW c, Sane(c), c.state \in {"IDLE", "REQUEST_LINE"},
         NEW x, x = c.buffer \o rest, NEW k \in 1 .. Len(s) + 1, NEW n, Trail(x, s, k, n)
  PROVE  \/ Feed(c) = Lined(c)
         \/ Feed(c).state = "ERROR" /\ Feed(c).code = 400 /\ Odd(x, n)
         \/ k \in 1 .. Len(s) /\ Feed(c) \in Follows(rest, <<>>, s[k], WiresOf(s, k + 1))
<1>1. c.buffer \in Seq(Item) /\ x \in Seq(Item)
  <2>1. c.buffer \in Seq(Item)
    BY DEF Sane, Connection
  <2>2. QED
    BY <2>1, Joined
<1>2. Len(s) \in Nat
  BY LenProperties
<1>3. CASE k <= Len(s)
  <2>1. k \in 1 .. Len(s)
    BY <1>2, <1>3
  <2>2. Begun(x, n, s[k], WiresOf(s, k + 1)) /\ WiresOf(s, k + 1) \in Seq(Item) /\ s[k] \in Requests
    BY <1>1, <1>3, <2>1, TrailIs, WiresIs
  <2>3. Begun(c.buffer \o rest, n, s[k], WiresOf(s, k + 1))
    BY <2>2
  <2>4. \/ Feed(c) = Lined(c)
        \/ Feed(c).state = "ERROR" /\ Feed(c).code = 400 /\ Odd(c.buffer \o rest, n)
        \/ Feed(c) \in Follows(rest, <<>>, s[k], WiresOf(s, k + 1))
    BY <2>2, <2>3, FeedBegin
  <2>5. QED
    BY <2>1, <2>4
<1>4. CASE k = Len(s) + 1
  <2>1. n = Len(x) /\ \A i \in 1 .. Len(x) : x[i].kind # "line"
    BY <1>1, <1>4, TrailIs
  <2>2. \A i \in 1 .. Len(c.buffer \o rest) : (c.buffer \o rest)[i].kind # "line"
    BY <2>1
  <2>3. \/ Feed(c) = Lined(c)
        \/ Feed(c).state = "ERROR" /\ Feed(c).code = 400 /\ Odd(c.buffer \o rest, Len(c.buffer \o rest))
    BY <2>2, FeedNothing
  <2>4. QED
    BY <2>1, <2>3
<1>5. QED
  BY <1>2, <1>3, <1>4

\* What follows a request is refused, or is in it.
LEMMA FollowsIs ==
  ASSUME NEW rest, NEW q, NEW r, NEW t, NEW c \in Follows(rest, q, r, t)
  PROVE  /\ c \in Connection /\ Sane(c)
         /\ \/ c.state = "ERROR" /\ c.code \in Reasons(r) /\ c.code # 200
            \/ /\ c.state \in {"HEADERS", "BODY", "COMPLETE"}
               /\ At(c, c.buffer \o rest, r, t) /\ Kept(c, q)
<1>1. Sane(c) /\ c \in Connection
  BY DEF Follows
<1>2. CASE Refused(c, r)
  BY <1>1, <1>2, ReasonsBad DEF Refused
<1>3. CASE At(c, c.buffer \o rest, r, t) /\ Kept(c, q)
  <2>1. c.state \in {"HEADERS", "BODY", "COMPLETE"}
    BY <1>3 DEF At, AtFields, AtLength, AtChunk, AtEnd
  <2>2. QED
    BY <1>1, <1>3, <2>1
<1>4. QED
  BY <1>2, <1>3 DEF Follows

\* Where c is does not depend on its read buffer and body.
LEMMA AtSame ==
  ASSUME NEW c, NEW d, NEW x, NEW r, NEW t, At(c, x, r, t), SameLine(c, d), SameLimit(c, d), SameFraming(c, d),
         SameChunk(c, d), d.state = c.state, d.written = c.written, d.headers = c.headers
  PROVE  At(d, x, r, t)
<1>1. /\ d.method = c.method /\ d.target = c.target /\ d.max = c.max /\ d.limit = c.limit /\ d.erased = c.erased
      /\ d.length = c.length /\ d.chunked = c.chunked /\ d.size = c.size /\ d.trailing = c.trailing /\ d.done = c.done
      /\ d.state = c.state /\ d.written = c.written /\ d.headers = c.headers
  BY DEF SameLine, SameLimit, SameFraming, SameChunk
<1>2. Of(d, r)
  BY <1>1 DEF At, Of
<1>3. AtFields(c, x, r, t) => AtFields(d, x, r, t)
  BY ONLY <1>1 DEF AtFields
<1>4. Accepted(c, r) => Accepted(d, r)
  BY ONLY <1>1 DEF Accepted
<1>5. AtLength(c, x, r, t) => AtLength(d, x, r, t)
  BY ONLY <1>1 DEF AtLength
<1>6. AtSize(c, x, r, t) => AtSize(d, x, r, t)
  BY ONLY <1>1 DEF AtSize
<1>7. AtData(c, x, r, t) => AtData(d, x, r, t)
  BY ONLY <1>1 DEF AtData
<1>8. AtTrailing(c, x, r, t) => AtTrailing(d, x, r, t)
  BY ONLY <1>1 DEF AtTrailing
<1>9. AtLast(c, x, r, t) => AtLast(d, x, r, t)
  BY ONLY <1>1 DEF AtLast
<1>10. AtChunk(c, x, r, t) => AtChunk(d, x, r, t)
  BY ONLY <1>1, <1>6, <1>7, <1>8, <1>9 DEF AtChunk
<1>11. AtEnd(c, x, r, t) => AtEnd(d, x, r, t)
  BY ONLY <1>1 DEF AtEnd
<1>12. QED
  BY <1>2, <1>3, <1>4, <1>5, <1>10, <1>11 DEF At

LEMMA FilledSame ==
  ASSUME NEW c \in Connection, NEW s
  PROVE  LET d == Filled(c, s)
         IN  /\ d.headers = c.headers /\ SameState(c, d) /\ SameRequest(c, d) /\ SameChunk(c, d) /\ SameBody(c, d)
BY DEF Filled, Connection, SameState, SameRequest, SameLine, SameLimit, SameFraming, SameChunk, SameBody

LEMMA MovedSame ==
  ASSUME NEW c \in Connection, NEW d, d = [c EXCEPT !.body = <<>>]
  PROVE  /\ d \in Connection /\ d.headers = c.headers /\ d.buffer = c.buffer /\ d.body = <<>>
         /\ d.written = c.written /\ SameState(c, d) /\ SameRequest(c, d) /\ SameChunk(c, d)
<1>1. <<>> \in Seq(Item)
  BY EmptySeq
<1>2. QED
  BY <1>1 DEF Connection, SameState, SameRequest, SameLine, SameLimit, SameFraming, SameChunk

\* A connection with more to parse, of which y is not read yet, ends parsing
\* refused, before a request line, or in a request.
Came(c, f, x, r, t) ==
  /\ At(c, x, r, t) /\ Kept(c, f.content) /\ f.written = Len(f.content)
  /\ ~Spools(c) => f.content = <<>>

\* What the request that is due is refused for: itself, or that its body was
\* not spooled.
Earned(was, code, s, turn) ==
  /\ turn \in 1 .. Len(s)
  /\ code \in Reasons(s[turn]) \/ (was = "ERROR" /\ code = 503 /\ s[turn].target = "script")

Gets(c, p, d) == d = Filled(c, p)
Splits(x, b, y) == x = b \o y

LEMMA FedIs ==
  ASSUME NEW s \in Seq(Requests), NEW f \in SpoolFile, NEW c \in Connection, NEW p \in Seq(Item),
         NEW d, Gets(c, p, d), Sane(d), NEW y \in Seq(Item), NEW x, Splits(x, d.buffer, y),
         NEW turn, NEW ok \in BOOLEAN, NEW due \in BOOLEAN, Parsed(c, f, x, s, turn, ok, due)
  PROVE  LET e == Feed(d)
         IN  \/ e.state = "ERROR" /\ e.code # 200 /\ (due => Earned(c.state, e.code, s, turn))
             \/ e.buffer \o y = x /\ Between(e, f, x, s, turn, ok, due)
             \/ \E k \in 1 .. Len(s) :
                  /\ ok => turn <= k
                  /\ due => k = turn
                  /\ Came(e, f, e.buffer \o y, s[k], WiresOf(s, k + 1))
<1> DEFINE e == Feed(d)
<1>0. x = d.buffer \o y
  BY DEF Splits
<1>1. d.headers = c.headers /\ SameState(c, d) /\ SameRequest(c, d) /\ SameChunk(c, d) /\ SameBody(c, d)
  BY FilledSame DEF Gets
<1>2. d \in Connection /\ d.buffer \in Seq(Item) /\ x \in Seq(Item) /\ f.content \in Seq(Item)
  <2>1. d \in Connection /\ d.buffer \in Seq(Item)
    BY DEF Sane, Connection
  <2>2. QED
    BY <1>0, <2>1, Joined DEF SpoolFile
<1>3. CASE Between(c, f, x, s, turn, ok, due)
  <2>1. d.state \in {"IDLE", "REQUEST_LINE"} /\ f.content = <<>> /\ f.written = 0
    BY <1>1, <1>3 DEF Between, SameState
  <2>2. PICK k \in 1 .. Len(s) + 1, n \in Nat :
          Trail(x, s, k, n) /\ (ok => turn <= k) /\ (due => k = turn /\ n <= 2 /\ ~Odd(x, n))
    BY <1>3 DEF Between, Lying
  <2>3. \/ e = Lined(d)
        \/ e.state = "ERROR" /\ e.code = 400 /\ Odd(x, n)
        \/ k \in 1 .. Len(s) /\ e \in Follows(y, <<>>, s[k], WiresOf(s, k + 1))
    BY <1>0, <2>1, <2>2, FedBetween
  <2>4. CASE e = Lined(d)
    <3>1. e.state = "REQUEST_LINE" /\ e.buffer = d.buffer
      BY <2>1, <2>4, LinedIs
    <3>2. Lying(x, s, turn, ok, due)
      BY <2>2 DEF Lying
    <3>3. QED
      BY <1>0, <2>1, <3>1, <3>2 DEF Between, e
  <2>5. CASE e.state = "ERROR" /\ e.code = 400 /\ Odd(x, n)
    <3>1. ~due /\ e.code # 200
      BY <2>2, <2>5
    <3> HIDE DEF e
    <3>2. QED
      BY <2>5, <3>1 DEF e
  <2>6. CASE k \in 1 .. Len(s) /\ e \in Follows(y, <<>>, s[k], WiresOf(s, k + 1))
    <3>1. \/ e.state = "ERROR" /\ e.code \in Reasons(s[k]) /\ e.code # 200
          \/ At(e, e.buffer \o y, s[k], WiresOf(s, k + 1)) /\ Kept(e, <<>>)
      BY <2>6, FollowsIs
    <3>2. f.written = Len(f.content)
      BY <2>1, EmptySeq
    <3> HIDE DEF e
    <3>3. CASE At(e, e.buffer \o y, s[k], WiresOf(s, k + 1)) /\ Kept(e, <<>>)
      <4>1. Came(e, f, e.buffer \o y, s[k], WiresOf(s, k + 1))
        BY <2>1, <3>2, <3>3 DEF Came
      <4>2. k \in 1 .. Len(s) /\ (ok => turn <= k) /\ (due => k = turn)
        BY <2>2, <2>6
      <4>3. QED
        BY <4>1, <4>2 DEF e
    <3>4. CASE e.state = "ERROR" /\ e.code \in Reasons(s[k]) /\ e.code # 200
      <4>1. due => Earned(c.state, e.code, s, turn)
        BY <2>2, <2>6, <3>4 DEF Earned
      <4>2. QED
        BY <3>4, <4>1 DEF e
    <3>5. QED
      BY <3>1, <3>3, <3>4
  <2>7. QED
    BY <2>3, <2>4, <2>5, <2>6
<1>4. CASE Within(c, f, x, s, turn, ok, due)
  <2>1. PICK k \in 1 .. Len(s) :
          (ok => turn <= k) /\ (due => k = turn) /\ InRequest(c, f, x, s[k], WiresOf(s, k + 1))
    BY <1>4 DEF Within
  <2> DEFINE r == s[k]
             t == WiresOf(s, k + 1)
  <2>2. /\ At(c, x, r, t) /\ Kept(c, f.content) /\ f.written = Len(f.content)
        /\ ~Spools(c) => f.content = <<>>
    BY <2>1 DEF InRequest
  <2>3. r \in Requests /\ t \in Seq(Item)
    <3>1. Len(s) \in Nat
      BY LenProperties
    <3>2. k \in 1 .. Len(s) /\ k + 1 \in 1 .. Len(s) + 1
      BY <3>1
    <3>3. QED
      BY <3>2, WiresIs
  <2> HIDE DEF r, t
  <2>4. At(d, x, r, t) /\ Kept(d, f.content)
    <3>1. At(d, x, r, t)
      BY <1>1, <2>2, AtSame DEF SameRequest, SameState, SameBody
    <3>2. Kept(d, f.content)
      BY <1>1, <2>2, KeptSame
    <3>3. QED
      BY <3>1, <3>2
  <2>5. d \in Follows(y, f.content, r, t)
    BY <1>0, <1>2, <2>4 DEF Follows
  <2>6. e \in Follows(y, f.content, r, t)
    BY <1>2, <2>3, <2>5, FeedOn
  <2> HIDE DEF e
  <2>7. \/ e.state = "ERROR" /\ e.code \in Reasons(r) /\ e.code # 200
        \/ At(e, e.buffer \o y, r, t) /\ Kept(e, f.content)
    BY <2>6, FollowsIs
  <2>8. CASE At(e, e.buffer \o y, r, t) /\ Kept(e, f.content)
    <3>1. e.target = r.target /\ c.target = r.target
      BY <2>2, <2>8 DEF At, Of
    <3>2. ~Spools(e) => f.content = <<>>
      BY <2>2, <3>1 DEF Spools
    <3>3. Came(e, f, e.buffer \o y, r, t)
      BY <2>2, <2>8, <3>2 DEF Came
    <3>4. QED
      BY <2>1, <3>3 DEF e, r, t
  <2>9. CASE e.state = "ERROR" /\ e.code \in Reasons(r) /\ e.code # 200
    <3>1. due => Earned(c.state, e.code, s, turn)
      BY <2>1, <2>9 DEF Earned, r
    <3>2. QED
      BY <2>9, <3>1 DEF e
  <2>10. QED
    BY <2>7, <2>8, <2>9
<1>5. CASE Unspooled(c, s, turn, due)
  <2>1. d.state = "ERROR" /\ d.code = 503
    BY <1>1, <1>5 DEF Unspooled, SameState
  <2>2. e = d
    BY <2>1, FeedSane
  <2>3. e.state = "ERROR" /\ e.code = 503 /\ e.code # 200
    BY <2>1, <2>2
  <2>4. due => Earned(c.state, e.code, s, turn)
    BY <1>5, <2>3 DEF Unspooled, Earned
  <2> HIDE DEF e
  <2>5. QED
    BY <2>3, <2>4 DEF e
<1>6. QED
  BY <1>3, <1>4, <1>5 DEF Parsed

\* What becomes of c: with its body spooled it is dispatched or goes on, or
\* the body could not be spooled.
Unable(c, fault, next) ==
  /\ Spools(c) /\ c.state \in {"BODY", "COMPLETE"} /\ Flush(c, file, fault).c.state = "ERROR"
  /\ conn'.state = "ERROR" /\ conn'.code = 503 /\ conn'.buffer = c.buffer
  /\ conn'.target = c.target /\ conn'.limit = c.limit
  /\ phase' = next /\ responses' = responses
Flushing(c, x, r, t, fault, next) ==
  \/ \E d \in Connection, g \in SpoolFile :
       /\ g \in {file, Flush(c, file, fault).f}
       /\ Ready(d, g, x, r, t) /\ Waits(d) /\ d.buffer = c.buffer /\ d.state = c.state
       /\ DispatchOr(d, g, fault, next)
  \/ Unable(c, fault, next)

\* The same under a name.
FedAs(c, e, f, y, x, s, turn, ok, due) ==
  \/ e.state = "ERROR" /\ e.code # 200 /\ (due => Earned(c.state, e.code, s, turn))
  \/ e.buffer \o y = x /\ Between(e, f, x, s, turn, ok, due)
  \/ \E k \in 1 .. Len(s) :
       /\ ok => turn <= k
       /\ due => k = turn
       /\ Came(e, f, e.buffer \o y, s[k], WiresOf(s, k + 1))
LEMMA FedNamed ==
  ASSUME NEW s \in Seq(Requests), NEW f \in SpoolFile, NEW c \in Connection, NEW p \in Seq(Item),
         NEW d, Gets(c, p, d), Sane(d), NEW y \in Seq(Item), NEW x, Splits(x, d.buffer, y),
         NEW turn, NEW ok \in BOOLEAN, NEW due \in BOOLEAN, Parsed(c, f, x, s, turn, ok, due)
  PROVE  FedAs(c, Feed(d), f, y, x, s, turn, ok, due)
BY FedIs DEF FedAs

\* What has been fed is spooled, if it is a body for a script, and then
\* dispatched when it is complete.
LEMMA Flushed ==
  ASSUME TypeOK, NEW k \in 1 .. Len(sent),
         NEW c, Sane(c), Waits(c), c.state # "ERROR", NEW fault, NEW next \in {"WAITING", "HANDLING"},
         NEW x, Came(c, file, x, sent[k], WiresOf(sent, k + 1)),
         \/ /\ Spools(c) /\ c.state \in {"BODY", "COMPLETE"}
            /\ DispatchOr(Flush(c, file, fault).c, Flush(c, file, fault).f, fault, next)
         \/ ~(Spools(c) /\ c.state \in {"BODY", "COMPLETE"}) /\ DispatchOr(c, file, fault, next)
  PROVE  Flushing(c, x, sent[k], WiresOf(sent, k + 1), fault, next)
<1> DEFINE f == file
           r == sent[k]
           t == WiresOf(sent, k + 1)
           d == Flush(c, f, fault).c
           g == Flush(c, f, fault).f
           Outcome(y, h) ==
             /\ h \in {file, Flush(c, file, fault).f}
             /\ Ready(y, h, x, r, t) /\ Waits(y) /\ y.buffer = c.buffer /\ y.state = c.state
             /\ DispatchOr(y, h, fault, next)
<1>1. c \in Connection /\ f \in SpoolFile /\ Sane(c) /\ responses \in Seq(Response)
  BY DEF Sane, TypeOK
<1>2. /\ At(c, x, r, t) /\ Kept(c, f.content) /\ f.written = Len(f.content)
      /\ ~Spools(c) => f.content = <<>>
  BY DEF Came
<1>3. CASE ~(Spools(c) /\ c.state \in {"BODY", "COMPLETE"}) /\ DispatchOr(c, file, fault, next)
  <2>1. Spools(c) => c.body = <<>>
    <3>1. c.state \in {"HEADERS", "BODY", "COMPLETE"}
      BY <1>2 DEF At, AtFields, AtLength, AtChunk, AtEnd
    <3>2. Spools(c) => c.state = "HEADERS"
      BY <1>3, <3>1
    <3>3. QED
      BY <1>1, <3>2 DEF Sane, NoBody
  <2>2. Ready(c, f, x, r, t)
    BY <1>2, <2>1 DEF Ready
  <2>3. Outcome(c, f)
    BY <1>1, <1>3, <2>2 DEF Outcome
  <2>4. QED
    BY <1>1, <2>3 DEF Flushing
<1>4. CASE /\ Spools(c) /\ c.state \in {"BODY", "COMPLETE"} /\ DispatchOr(d, g, fault, next)
  <2>1. g \in SpoolFile
    BY <1>1, FlushIs
  <2>2. \/ c.body = <<>> /\ d = c /\ g = f
        \/ c.body # <<>> /\ d = Fails(c, 503)
        \/ /\ d = [c EXCEPT !.body = <<>>]
           /\ g.content = f.content \o c.body /\ g.written = f.written + Len(c.body)
    <3>1. \/ c.body = <<>> /\ d = c /\ g = f
          \/ /\ c.body # <<>> /\ c.state \in Late /\ d = Fails(c, 503)
             /\ g.content = f.content /\ g.written = f.written
          \/ /\ c.body # <<>> /\ c.state \in Late /\ d = [c EXCEPT !.body = <<>>]
             /\ g.content = f.content \o c.body /\ g.written = f.written + Len(c.body)
      BY ONLY <1>1, FlushIs
    <3> HIDE DEF d, g
    <3>2. QED
      BY <3>1
  <2>3. CASE c.body = <<>> /\ d = c /\ g = f
    <3>1. Ready(c, f, x, r, t)
      BY <1>2, <1>4, <2>3 DEF Ready
    <3>2. DispatchOr(c, f, fault, next)
      BY <1>4, <2>3
    <3>3. Outcome(c, f)
      BY <1>1, <3>1, <3>2 DEF Outcome
    <3>4. QED
      BY <1>1, <3>3 DEF Flushing
  <2>4. CASE d = Fails(c, 503)
    <3>1. /\ d.state = "ERROR" /\ d.code = 503 /\ d.buffer = c.buffer
          /\ d.target = c.target /\ d.limit = c.limit
      <4>1. 503 \in Nat
        OBVIOUS
      <4>2. LET e == Fails(c, 503)
            IN  /\ e.state = "ERROR" /\ e.code = 503 /\ e.buffer = c.buffer
                /\ e.target = c.target /\ e.limit = c.limit
        <5>1. Fails(c, 503).target = c.target /\ Fails(c, 503).limit = c.limit
          BY ONLY <1>1 DEF Fails, Connection
        <5>2. QED
          BY ONLY <1>1, <4>1, <5>1, FailsCode
      <4> HIDE DEF d, g
      <4>3. QED
        BY ONLY <2>4, <4>2
    <3>2. Flush(c, file, fault).c.state = "ERROR"
      BY <3>1
    <3> HIDE DEF d, g
    <3>3. conn' = d /\ phase' = next /\ responses' = responses
      BY <1>4, <3>1 DEF DispatchOr
    <3>4. QED
      BY <1>4, <3>1, <3>2, <3>3 DEF Flushing, Unable
  <2>5. CASE /\ d = [c EXCEPT !.body = <<>>]
             /\ g.content = f.content \o c.body /\ g.written = f.written + Len(c.body)
    <3>1. /\ d \in Connection /\ d.headers = c.headers /\ d.buffer = c.buffer /\ d.body = <<>>
          /\ d.written = c.written /\ SameState(c, d) /\ SameRequest(c, d) /\ SameChunk(c, d)
      BY <1>1, <2>5, MovedSame
    <3>2. Waits(d)
      BY <1>1, <1>4, <2>5, WaitsFlushed
    <3> HIDE DEF d, g
    <3>3. At(d, x, r, t)
      BY <1>2, <3>1, AtSame DEF SameRequest, SameState
    <3>4. f.content \in Seq(Item) /\ c.body \in Seq(Item)
      BY <1>1 DEF SpoolFile, Connection
    <3>5. g.content \o <<>> = g.content /\ g.written = Len(g.content)
      <4>1. /\ f.content \o c.body \in Seq(Item)
            /\ Len(f.content \o c.body) = Len(f.content) + Len(c.body)
        BY <3>4, Joined
      <4>2. QED
        BY <1>2, <2>5, <4>1, ConcatEmptySeq
    <3>6. Kept(d, g.content)
      BY <1>2, <2>5, <3>1, <3>5 DEF Kept
    <3>7. Spools(d)
      BY <1>4, <3>1 DEF Spools, SameRequest, SameLine
    <3>8. Ready(d, g, x, r, t)
      BY <3>1, <3>3, <3>5, <3>6, <3>7 DEF Ready
    <3>9. DispatchOr(d, g, fault, next) /\ d.state = c.state
      BY <1>4, <3>1 DEF SameState
    <3>10. Outcome(d, g)
      <4>1. g \in {file, Flush(c, file, fault).f}
        BY DEF g, f
      <4>2. QED
        BY <3>1, <3>2, <3>8, <3>9, <4>1 DEF Outcome
    <3>11. QED
      BY <2>1, <3>1, <3>10 DEF Flushing
  <2>6. QED
    BY <2>2, <2>3, <2>4, <2>5
<1>5. QED
  BY <1>3, <1>4

LEMMA Dispatched ==
  ASSUME TypeOK, EarlyInv, NEW k \in 1 .. Len(sent), Place(k),
         NEW c, Sane(c), c.state # "ERROR", NEW fault, NEW next \in {"WAITING", "HANDLING"},
         NEW x, x = c.buffer \o Coming', Coming' \in Seq(Item), Lying(x, sent, Turn, Ok, FALSE),
         Came(c, file, x, sent[k], WiresOf(sent, k + 1)),
         Flushing(c, x, sent[k], WiresOf(sent, k + 1), fault, next),
         UNCHANGED <<sent, early>>, next = "WAITING" => socket' = <<>>
  PROVE  StreamInv' /\ EarlyInv'
<1> DEFINE r == sent[k]
           t == WiresOf(sent, k + 1)
<1>1. responses \in Seq(Response)
  BY DEF TypeOK
<1>2. CASE \E d \in Connection, g \in SpoolFile :
             /\ Ready(d, g, x, r, t) /\ Waits(d) /\ d.buffer = c.buffer /\ d.state = c.state
             /\ DispatchOr(d, g, fault, next)
  <2>1. PICK d \in Connection, g \in SpoolFile :
             /\ Ready(d, g, x, r, t) /\ Waits(d) /\ d.buffer = c.buffer /\ d.state = c.state
             /\ DispatchOr(d, g, fault, next)
    BY <1>2
  <2>2. x = d.buffer \o Coming'
    BY <2>1
  <2>3. QED
    BY <2>1, <2>2, RoundEnds
<1>3. CASE Unable(c, fault, next)
  <2>1. /\ Spools(c) /\ conn'.state = "ERROR" /\ conn'.code = 503 /\ conn'.buffer = c.buffer
        /\ phase' = next /\ responses' = responses
    BY <1>3 DEF Unable
  <2>2. Due => Turn \in 1 .. Len(sent) /\ sent[Turn].target = "script"
    <3>1. c.target = "script" /\ c.target = r.target
      BY <2>1 DEF Came, Spools, At, Of
    <3>2. QED
      BY <3>1 DEF Place
  <2>3. Unspooled(conn', sent, Turn, Due)
    BY <2>1, <2>2 DEF Unspooled
  <2>4. Waits(conn')
    BY <2>1 DEF Waits
  <2>5. Left' = x
    BY <2>1 DEF Left
  <2>6. Turn' = Turn /\ Ok' = Ok /\ Due' = Due
    BY <2>1 DEF Turn, Ok, Due
  <2>7. Parsed(conn', file', x, sent, Turn, Ok, Due)
    BY <2>3, <2>4 DEF Parsed
  <2>8. Parsed(conn', file', Left', sent', Turn', Ok', Due')
    BY <2>5, <2>6, <2>7
  <2>9. phase' \in {"WAITING", "HANDLING"} /\ (phase' = "WAITING" => socket' = <<>>)
    BY <2>1
  <2>10. StreamInv'
    BY <2>8, <2>9 DEF StreamInv
  <2>11. EarlyInv'
    BY <1>1, <2>1, EarlyKept
  <2>12. QED
    BY <2>10, <2>11
<1>4. QED
  BY <1>2, <1>3 DEF Flushing

-----------------------------------------------------------------------------
(* The steps. *)

LEMMA StreamTyped ==
  ASSUME TypeOK
  PROVE  /\ sent \in Seq(Requests) /\ responses \in Seq(Response) /\ file \in SpoolFile
         /\ socket \in Seq(Item) /\ toSend \in Seq(Item) /\ Coming \in Seq(Item)
         /\ Len(sent) \in Nat /\ Turn \in Nat /\ Ok \in BOOLEAN /\ Due \in BOOLEAN /\ (Due => Ok)
         /\ Reading => conn \in Connection /\ Sane(conn) /\ conn.buffer \in Seq(Item) /\ Left \in Seq(Item)
<1>1. /\ sent \in Seq(Requests) /\ responses \in Seq(Response) /\ file \in SpoolFile
      /\ socket \in Seq(Item) /\ toSend \in Seq(Item)
      /\ Reading => Sane(conn)
  BY DEF TypeOK
<1>2. Coming \in Seq(Item)
  BY <1>1, Joined DEF Coming
<1>3. Len(sent) \in Nat /\ Len(responses) \in Nat
  BY <1>1, LenProperties
<1>4. Turn \in Nat /\ Ok \in BOOLEAN /\ Due \in BOOLEAN /\ (Due => Ok)
  BY <1>3 DEF Turn, Ok, Due
<1>5. Reading => conn \in Connection /\ conn.buffer \in Seq(Item)
  BY <1>1 DEF Sane, Connection
<1>6. Reading => Left \in Seq(Item)
  BY <1>2, <1>5, Joined DEF Left
<1>7. QED
  BY <1>1, <1>2, <1>3, <1>4, <1>5, <1>6

\* What is behind a piece of it is an end of it.
LEMMA EndOf ==
  ASSUME NEW s \in Seq(Item), NEW t \in Seq(Item)
  PROVE  t \in Ending(s \o t)
<1>1. s \o t \in Seq(Item) /\ Len(s) \in 0 .. Len(s \o t)
  BY Joined
<1>2. From(s \o t, Len(s) + 1) = t
  BY FromEnd
<1>3. QED
  BY <1>1, <1>2, FromEnding

\* A connection before a request line has the limit of the server.
LEMMA FreshIs ==
  ASSUME NEW c \in Connection, Fresh(c)
  PROVE  ~c.erased /\ c.limit = ServerLimit
BY FreshFields, Zenon

\* What is there after the next read, parsed.
Fed == Feed(FullOf(conn, socket))

LEMMA ReadFed ==
  ASSUME TypeOK, StreamInv, NEW fault, Read(fault)
  PROVE  /\ phase = "HANDLING" /\ UNCHANGED <<sent, early>> /\ Coming' \in Seq(Item)
         /\ Sane(Fed) /\ Waits(Fed) /\ Fed.state # "IDLE"
         /\ Coming' \in Ending(Left) /\ Fed.buffer \o Coming' \in Ending(Left)
         /\ Parsed(conn, file, Left, sent, Turn, Ok, Due)
         /\ \/ Fed.state = "ERROR" /\ Fed.code # 200 /\ (Due => Earned(conn.state, Fed.code, sent, Turn))
            \/ Fed.buffer \o Coming' = Left /\ Between(Fed, file, Left, sent, Turn, Ok, Due)
            \/ \E k \in 1 .. Len(sent) :
                 Place(k) /\ Came(Fed, file, Fed.buffer \o Coming', sent[k], WiresOf(sent, k + 1))
<1> DEFINE n == Least(RecvSize, Len(socket))
           p == SubSeq(socket, 1, n)
           d == FullOf(conn, socket)
           e == Feed(d)
           x == Left
<1>1. /\ phase = "HANDLING" /\ socket # <<>> /\ Sane(conn)
      /\ socket' = From(socket, n + 1) /\ socket' \in Seq(Item)
      /\ UNCHANGED <<sent, early, toSend, event>>
      /\ Sane(d) /\ Sane(e) /\ Settled(e)
  BY ReadIs
<1>3. Reading /\ Parsed(conn, file, x, sent, Turn, Ok, Due)
  BY <1>1 DEF StreamInv, Reading
<1>4. /\ sent \in Seq(Requests) /\ responses \in Seq(Response) /\ file \in SpoolFile
      /\ socket \in Seq(Item) /\ toSend \in Seq(Item)
      /\ Turn \in Nat /\ Ok \in BOOLEAN /\ Due \in BOOLEAN
      /\ conn \in Connection /\ conn.buffer \in Seq(Item) /\ x \in Seq(Item)
  BY <1>3, StreamTyped
<1>5. p \in Seq(Item) /\ socket = p \o socket'
  BY <1>1, <1>4, PieceIs
<1>6. d = Filled(conn, p) /\ d.buffer = conn.buffer \o p /\ d.buffer \in Seq(Item)
  <2>1. d = Filled(conn, p)
    BY DEF FullOf
  <2>2. d.buffer = conn.buffer \o p
    BY <1>1, <1>5, <2>1, FilledSane
  <2>3. conn.buffer \in Seq(Item) /\ p \in Seq(Item)
    BY <1>4, <1>5
  <2>4. conn.buffer \o p \in Seq(Item)
    BY ONLY <2>3, Joined
  <2>5. QED
    BY <2>1, <2>2, <2>4
<1>7. Coming' = socket' \o toSend /\ Coming' \in Seq(Item)
  <2>1. Coming' = socket' \o toSend
    BY <1>1 DEF Coming
  <2>2. QED
    BY <1>1, <1>4, <2>1, Joined
<1>8. x = d.buffer \o Coming'
  <2>1. x = conn.buffer \o (socket \o toSend)
    BY DEF Left, Coming
  <2>2. conn.buffer \o ((p \o socket') \o toSend) = (conn.buffer \o p) \o (socket' \o toSend)
    <3> DEFINE b == conn.buffer
               q == socket'
               u == toSend
    <3>1. b \in Seq(Item) /\ p \in Seq(Item) /\ q \in Seq(Item) /\ u \in Seq(Item)
      BY <1>1, <1>4, <1>5
    <3> HIDE DEF b, p, q, u
    <3>2. b \o ((p \o q) \o u) = (b \o p) \o (q \o u)
      <4>1. p \o (q \o u) = (p \o q) \o u
        <5>1. p \in Seq(Item) /\ q \in Seq(Item) /\ u \in Seq(Item)
          BY ONLY <3>1
        <5>2. QED
          BY ONLY <5>1, Together
      <4>2. q \o u \in Seq(Item)
        BY ONLY <3>1, Joined
      <4>3. b \o (p \o (q \o u)) = (b \o p) \o (q \o u)
        <5>1. b \in Seq(Item) /\ p \in Seq(Item) /\ (q \o u) \in Seq(Item)
          BY ONLY <3>1, <4>2
        <5>2. QED
          BY ONLY <5>1, Together
      <4>4. QED
        BY ONLY <4>1, <4>3
    <3>3. QED
      BY <3>2 DEF b, q, u
  <2>3. QED
    BY <1>5, <1>6, <1>7, <2>1, <2>2
<1>9. Coming' \in Ending(x) /\ Lying(x, sent, Turn, Ok, FALSE)
  <2>1. Coming' \in Ending(d.buffer \o Coming')
    BY <1>6, <1>7, EndOf
  <2>2. QED
    BY <1>3, <1>8, <2>1 DEF Parsed
<1>10. \/ e.state = "ERROR" /\ e.code # 200 /\ (Due => Earned(conn.state, e.code, sent, Turn))
       \/ e.buffer \o Coming' = x /\ Between(e, file, x, sent, Turn, Ok, Due)
       \/ \E k \in 1 .. Len(sent) :
            Place(k) /\ Came(e, file, e.buffer \o Coming', sent[k], WiresOf(sent, k + 1))
  <2>1. FedAs(conn, Feed(d), file, Coming', x, sent, Turn, Ok, Due)
    <3>1. /\ sent \in Seq(Requests) /\ file \in SpoolFile /\ conn \in Connection /\ p \in Seq(Item)
          /\ Gets(conn, p, d) /\ Sane(d) /\ Coming' \in Seq(Item) /\ Splits(x, d.buffer, Coming')
          /\ Ok \in BOOLEAN /\ Due \in BOOLEAN /\ Parsed(conn, file, x, sent, Turn, Ok, Due)
      BY <1>1, <1>3, <1>4, <1>5, <1>6, <1>7, <1>8 DEF Gets, Splits
    <3> HIDE DEF d, p, x
    <3>2. QED
      BY ONLY <3>1, FedNamed
  <2>2. QED
    BY <2>1 DEF FedAs, Place
<1>11. /\ e \in Connection /\ Waits(e) /\ e.state # "IDLE" /\ e.buffer \in Seq(Item) /\ e.code \in Nat
       /\ e.buffer \in Ending(d.buffer)
  <2>1. e.state # "IDLE" /\ e.buffer \in Ending(d.buffer)
    BY <1>1, FeedSane
  <2>2. Waits(e)
    BY <1>1, <2>1, SettledWaits
  <2>3. QED
    BY <1>1, <2>1, <2>2 DEF Sane, Connection
<1>12. UNCHANGED <<sent, early>> /\ <<>> \in Seq(Item)
  BY <1>1, EmptySeq
<1>13. e.buffer \o Coming' \in Ending(x)
  <2>1. e.buffer \o Coming' \in Ending(d.buffer \o Coming')
    BY <1>6, <1>7, <1>11, EndingMore
  <2>2. QED
    BY <1>8, <2>1
<1>14. e = Fed /\ x = Left
  BY DEF Fed
<1> HIDE DEF d, e, x, n, p
<1>15. QED
  BY <1>1, <1>3, <1>7, <1>9, <1>10, <1>11, <1>12, <1>13, <1>14

LEMMA StreamRead ==
  ASSUME TypeOK, StreamInv, EarlyInv, NEW fault, Read(fault)
  PROVE  StreamInv' /\ EarlyInv'
<1> DEFINE e == Fed
           flush == Flush(e, file, fault)
           spools == Spools(e) /\ e.state \in {"BODY", "COMPLETE"}
           x == Left
<1>1. /\ phase = "HANDLING" /\ UNCHANGED <<sent, early>> /\ Coming' \in Seq(Item)
      /\ Sane(e) /\ Waits(e) /\ e.state # "IDLE"
      /\ Coming' \in Ending(x) /\ e.buffer \o Coming' \in Ending(x)
      /\ Parsed(conn, file, x, sent, Turn, Ok, Due)
  BY ReadFed
<1>2. /\ Sane(conn)
      /\ \/ conn' = CloseHeader(conn) /\ Answer(413, <<>>)
         \/ /\ conn.erased /\ phase' = "HUNG" /\ UNCHANGED <<conn, file, responses>>
         \/ e.state = "ERROR" /\ Answer(e.code, <<>>)
         \/ e.state # "ERROR" /\ spools /\ DispatchOr(flush.c, flush.f, fault, "HANDLING")
         \/ e.state # "ERROR" /\ ~spools /\ DispatchOr(e, file, fault, "HANDLING")
  BY ReadIs DEF Fed
<1>3. Reading /\ Parsed(conn, file, x, sent, Turn, Ok, Due)
  BY <1>1 DEF Reading
<1>4. /\ sent \in Seq(Requests) /\ responses \in Seq(Response) /\ file \in SpoolFile
      /\ Turn \in Nat /\ Ok \in BOOLEAN /\ Due \in BOOLEAN
      /\ conn \in Connection /\ x \in Seq(Item)
  BY <1>3, StreamTyped
<1>9. Coming' \in Ending(x) /\ Lying(x, sent, Turn, Ok, FALSE)
  BY <1>1, <1>3 DEF Parsed
<1>10. \/ e.state = "ERROR" /\ e.code # 200
       \/ e.buffer \o Coming' = x /\ Between(e, file, x, sent, Turn, Ok, Due)
       \/ \E k \in 1 .. Len(sent) :
            Place(k) /\ Came(e, file, e.buffer \o Coming', sent[k], WiresOf(sent, k + 1))
  BY ReadFed
<1>11. /\ e \in Connection /\ Waits(e) /\ e.state # "IDLE" /\ e.code \in Nat
  BY <1>1 DEF Sane, Connection
<1>12. UNCHANGED <<sent, early>> /\ <<>> \in Seq(Item)
  BY <1>1, EmptySeq
<1> HIDE DEF e, x
<1>13. CASE conn' = CloseHeader(conn) /\ Answer(413, <<>>)
  <2>1. phase' = "WRITING" /\ Answers(413)
    BY <1>12, <1>13, AnswerMade
  <2>2. 413 \in Nat /\ 413 # 200
    OBVIOUS
  <2>3. AnswersBad
    BY <2>1, <2>2 DEF AnswersBad
  <2>4. QED
    BY <1>4, <1>9, <1>12, <2>1, <2>3, AfterError
<1>14. CASE conn.erased /\ phase' = "HUNG" /\ UNCHANGED <<conn, file, responses>>
  <2>1. ~Between(conn, file, x, sent, Turn, Ok, Due)
    <3>1. SUFFICES ASSUME Between(conn, file, x, sent, Turn, Ok, Due) PROVE FALSE
      OBVIOUS
    <3>2. Fresh(conn)
      BY <1>2, <3>1 DEF Between, Sane
    <3>3. conn \in Connection
      BY <1>4
    <3>4. ~conn.erased
      BY ONLY <3>2, <3>3, FreshIs
    <3>5. QED
      BY <1>14, <3>4
  <2>2. ~Within(conn, file, x, sent, Turn, Ok, Due)
    <3>1. SUFFICES ASSUME NEW k \in 1 .. Len(sent), InRequest(conn, file, x, sent[k], WiresOf(sent, k + 1))
                   PROVE  FALSE
      BY DEF Within
    <3>2. conn.state = "COMPLETE" /\ ~conn.chunked /\ InChunks(sent[k])
      BY <1>14, <3>1 DEF InRequest, At, Of, NeverSpooled
    <3>3. conn.chunked = InChunks(sent[k])
      BY <3>1, <3>2 DEF InRequest, At, AtFields, Accepted
    <3>4. QED
      BY <3>2, <3>3
  <2>3. Unspooled(conn, sent, Turn, Due)
    BY <1>3, <2>1, <2>2 DEF Parsed
  <2>4. SpoolFailed'
    BY <1>14, <2>3 DEF Unspooled, SpoolFailed
  <2>5. StreamInv'
    BY <1>14, <2>4 DEF StreamInv, Reading
  <2>6. EarlyInv'
    BY <1>4, <1>12, <1>14, EarlyKept
  <2>7. QED
    BY <2>5, <2>6
<1>15. CASE e.state = "ERROR" /\ Answer(e.code, <<>>)
  <2>1. phase' = "WRITING" /\ Answers(e.code)
    BY <1>12, <1>15, AnswerMade
  <2>2. e.code # 200
    <3>1. ~Between(e, file, x, sent, Turn, Ok, Due)
      BY <1>15 DEF Between
    <3>2. \A k \in 1 .. Len(sent) : ~Came(e, file, e.buffer \o Coming', sent[k], WiresOf(sent, k + 1))
      BY <1>15 DEF Came, At, AtFields, AtLength, AtChunk, AtEnd
    <3>3. QED
      BY <1>10, <3>1, <3>2
  <2>3. AnswersBad
    BY <1>11, <2>1, <2>2 DEF AnswersBad
  <2>4. QED
    BY <1>4, <1>9, <1>12, <2>1, <2>3, AfterError
<1>16. CASE /\ e.state # "ERROR"
            /\ \/ spools /\ DispatchOr(flush.c, flush.f, fault, "HANDLING")
               \/ ~spools /\ DispatchOr(e, file, fault, "HANDLING")
  <2>1. CASE e.buffer \o Coming' = x /\ Between(e, file, x, sent, Turn, Ok, Due)
    <3>1. e.state = "REQUEST_LINE"
      BY <1>11, <2>1 DEF Between
    <3>2. DispatchOr(e, file, fault, "HANDLING")
      BY <1>16, <3>1
    <3>3. conn' = e /\ file' = file /\ phase' = "HANDLING" /\ responses' = responses
      BY <3>1, <3>2 DEF DispatchOr
    <3>4. Parsed(e, file, x, sent, Turn, Ok, Due)
      BY <1>9, <1>11, <2>1 DEF Parsed
    <3>5. Left' = x /\ Turn' = Turn /\ Ok' = Ok /\ Due' = Due
      BY <1>12, <2>1, <3>3 DEF Left, Turn, Ok, Due
    <3>6. Parsed(conn', file', Left', sent', Turn', Ok', Due')
      BY <1>12, <3>3, <3>4, <3>5
    <3>7. StreamInv'
      BY <3>3, <3>6 DEF StreamInv
    <3>8. EarlyInv'
      BY <1>4, <1>12, <3>3, EarlyKept
    <3>9. QED
      BY <3>7, <3>8
  <2>2. CASE \E k \in 1 .. Len(sent) :
               Place(k) /\ Came(e, file, e.buffer \o Coming', sent[k], WiresOf(sent, k + 1))
    <3>1. PICK k \in 1 .. Len(sent) :
               Place(k) /\ Came(e, file, e.buffer \o Coming', sent[k], WiresOf(sent, k + 1))
      BY <2>2
    <3> DEFINE z == e.buffer \o Coming'
    <3>2. z \in Ending(x)
      BY <1>1
    <3>3. z = e.buffer \o Coming' /\ Came(e, file, z, sent[k], WiresOf(sent, k + 1))
      BY <3>1
    <3> HIDE DEF z
    <3>4. Lying(z, sent, Turn, Ok, FALSE)
      <4>1. /\ sent \in Seq(Requests) /\ x \in Seq(Item) /\ z \in Ending(x) /\ Turn \in Nat /\ Ok \in BOOLEAN
            /\ Lying(x, sent, Turn, Ok, FALSE)
        BY <1>4, <1>9, <3>2
      <4>2. QED
        BY ONLY <4>1, LyingEnding
    <3>5. "HANDLING" \in {"WAITING", "HANDLING"} /\ "HANDLING" # "WAITING" /\ Sane(e)
      BY <1>1
    <3>6. Flushing(e, z, sent[k], WiresOf(sent, k + 1), fault, "HANDLING")
      <4>1. \/ spools /\ DispatchOr(flush.c, flush.f, fault, "HANDLING")
            \/ ~spools /\ DispatchOr(e, file, fault, "HANDLING")
        BY <1>16
      <4>2. Sane(e) /\ Waits(e) /\ e.state # "ERROR"
        BY <1>1, <1>16
      <4>3. QED
        BY <3>1, <3>3, <4>1, <4>2, Flushed
    <3>7. QED
      BY <1>1, <1>11, <1>12, <1>16, <3>1, <3>3, <3>4, <3>5, <3>6, Dispatched
  <2>3. QED
    BY <1>10, <1>16, <2>1, <2>2
<1>17. QED
  BY <1>2, <1>13, <1>14, <1>15, <1>16

LEMMA StreamReadNothing ==
  ASSUME TypeOK, StreamInv, EarlyInv, NEW fault, ReadNothing(fault)
  PROVE  StreamInv' /\ EarlyInv'
<1> DEFINE flush == Flush(conn, file, fault)
           x == Left
<1>1. /\ phase = "HANDLING" /\ socket = <<>> /\ UNCHANGED <<sent, early, toSend, socket, event>>
      /\ Spools(conn) => DispatchOr(flush.c, flush.f, fault, "WAITING")
      /\ ~Spools(conn) => DispatchOr(conn, file, fault, "WAITING")
  BY DEF ReadNothing
<1>2. Reading /\ Parsed(conn, file, x, sent, Turn, Ok, Due)
  BY <1>1 DEF StreamInv, Reading
<1>3. /\ sent \in Seq(Requests) /\ responses \in Seq(Response) /\ file \in SpoolFile
      /\ Turn \in Nat /\ Ok \in BOOLEAN /\ Due \in BOOLEAN
      /\ conn \in Connection /\ Sane(conn) /\ Coming \in Seq(Item)
  BY <1>2, StreamTyped
<1>4. Coming' = Coming /\ UNCHANGED <<sent, early>> /\ socket' = <<>>
  BY <1>1 DEF Coming
<1>5. Waits(conn) /\ Lying(x, sent, Turn, Ok, FALSE)
  BY <1>2 DEF Parsed
<1>6. x = conn.buffer \o Coming'
  BY <1>4 DEF Left
\* A round that changes nothing the parser looks at.
<1>7. ASSUME NEW c, NEW f, conn' = c, file' = f, phase' = "WAITING", responses' = responses,
             c.buffer = conn.buffer, Parsed(c, f, x, sent, Turn, Ok, Due)
      PROVE  StreamInv' /\ EarlyInv'
  <2>1. Left' = x /\ Turn' = Turn /\ Ok' = Ok /\ Due' = Due
    BY <1>4, <1>7 DEF Left, Turn, Ok, Due
  <2>2. Parsed(conn', file', Left', sent', Turn', Ok', Due')
    BY <1>4, <1>7, <2>1
  <2>3. StreamInv'
    BY <1>4, <1>7, <2>2 DEF StreamInv
  <2>4. EarlyInv'
    BY <1>3, <1>4, <1>7, EarlyKept
  <2>5. QED
    BY <2>3, <2>4
<1>8. CASE Between(conn, file, x, sent, Turn, Ok, Due)
  <2>1. conn.state # "COMPLETE" /\ conn.target = ""
    <3>1. conn.state \in {"IDLE", "REQUEST_LINE"}
      BY <1>8 DEF Between
    <3>2. Fresh(conn)
      BY <1>3, <3>1 DEF Sane
    <3>3. QED
      BY <1>3, <3>1, <3>2, FreshFields
  <2>2. DispatchOr(conn, file, fault, "WAITING")
    BY <1>1, <2>1 DEF Spools
  <2>3. conn' = conn /\ file' = file /\ phase' = "WAITING" /\ responses' = responses
    BY <2>1, <2>2 DEF DispatchOr
  <2>4. QED
    BY <1>2, <1>7, <2>3
<1>9. CASE Within(conn, file, x, sent, Turn, Ok, Due)
  <2>1. PICK k \in 1 .. Len(sent) :
          /\ Ok => Turn <= k
          /\ Due => k = Turn
          /\ InRequest(conn, file, x, sent[k], WiresOf(sent, k + 1))
    BY <1>9 DEF Within
  <2>2. Ready(conn, file, x, sent[k], WiresOf(sent, k + 1)) /\ Place(k)
    BY <2>1 DEF Ready, Place, InRequest
  <2>3. DispatchOr(conn, file, fault, "WAITING")
    <3>1. CASE Spools(conn)
      <4>1. conn.body = <<>>
        BY <2>2, <3>1 DEF Ready
      <4>2. flush.c = conn /\ flush.f = file
        BY <4>1 DEF Flush
      <4>3. QED
        BY <1>1, <3>1, <4>2
    <3>2. CASE ~Spools(conn)
      BY <1>1, <3>2
    <3>3. QED
      BY <3>1, <3>2
  <2>4. "WAITING" \in {"WAITING", "HANDLING"}
    OBVIOUS
  <2> HIDE DEF x
  <2>5. QED
    BY <1>3, <1>4, <1>5, <1>6, <2>2, <2>3, <2>4, RoundEnds
<1>10. CASE Unspooled(conn, sent, Turn, Due)
  <2>1. conn.state = "ERROR" /\ conn.code = 503
    BY <1>10 DEF Unspooled
  <2>2. ASSUME NEW c, NEW f, DispatchOr(c, f, fault, "WAITING"), c.state = "ERROR", c.code = 503,
               c.buffer = conn.buffer
        PROVE  StreamInv' /\ EarlyInv'
    <3>1. conn' = c /\ file' = f /\ phase' = "WAITING" /\ responses' = responses
      BY <2>2 DEF DispatchOr
    <3>2. Unspooled(c, sent, Turn, Due)
      BY <1>10, <2>2 DEF Unspooled
    <3>3. Waits(c)
      BY <2>2 DEF Waits
    <3>4. Parsed(c, f, x, sent, Turn, Ok, Due)
      BY <1>5, <3>2, <3>3 DEF Parsed
    <3>5. QED
      BY <1>7, <2>2, <3>1, <3>4
  <2>3. flush.c.state = "ERROR" /\ flush.c.code = 503 /\ flush.c.buffer = conn.buffer
    <3>1. flush.c = conn \/ flush.c = Fails(conn, 503) \/ flush.c = [conn EXCEPT !.body = <<>>]
      <4>1. LET z == Flush(conn, file, fault)
            IN  \/ conn.body = <<>> /\ z.c = conn /\ z.f = file
                \/ /\ conn.body # <<>> /\ conn.state \in Late /\ z.c = Fails(conn, 503)
                   /\ z.f.content = file.content /\ z.f.written = file.written
                \/ /\ conn.body # <<>> /\ conn.state \in Late /\ z.c = [conn EXCEPT !.body = <<>>]
                   /\ z.f.content = file.content \o conn.body
                   /\ z.f.written = file.written + Len(conn.body)
        BY ONLY <1>3, FlushIs
      <4>2. QED
        BY <4>1
    <3>2. LET d == Fails(conn, 503) IN d.state = "ERROR" /\ d.code = 503 /\ d.buffer = conn.buffer
      <4>1. 503 \in Nat
        OBVIOUS
      <4>2. QED
        BY ONLY <1>3, <4>1, FailsCode
    <3>3. LET d == [conn EXCEPT !.body = <<>>]
          IN  d.state = conn.state /\ d.code = conn.code /\ d.buffer = conn.buffer
      BY <1>3 DEF Connection
    <3>4. conn.state = "ERROR" /\ conn.code = 503
      BY <2>1
    <3> DEFINE d == flush.c
    <3> HIDE DEF d
    <3>5. CASE d = conn
      BY ONLY <3>4, <3>5 DEF d
    <3>6. CASE d = Fails(conn, 503)
      BY ONLY <3>2, <3>6 DEF d
    <3>7. CASE d = [conn EXCEPT !.body = <<>>]
      BY ONLY <3>3, <3>4, <3>7 DEF d
    <3>8. QED
      BY <3>1, <3>5, <3>6, <3>7 DEF d
  <2> HIDE DEF flush
  <2>4. CASE Spools(conn)
    BY <1>1, <2>2, <2>3, <2>4
  <2>5. CASE ~Spools(conn)
    BY <1>1, <2>1, <2>2, <2>5
  <2>6. QED
    BY <2>4, <2>5
<1>11. QED
  BY <1>2, <1>8, <1>9, <1>10 DEF Parsed

\* A further request changes nothing for those before it.
LEMMA ParsedMore ==
  ASSUME NEW s \in Seq(Requests), NEW r \in Requests, NEW c \in Connection, NEW f, NEW x \in Seq(Item),
         NEW turn, NEW ok \in BOOLEAN, NEW due \in BOOLEAN, NEW need \in BOOLEAN, need => due,
         Parsed(c, f, x, s, turn, ok, due)
  PROVE  Parsed(c, f, x \o Wire(r), Append(s, r), turn, ok, need)
<1> DEFINE w == Wire(r)
           u == Append(s, r)
<1>1. Waits(c) /\ Lying(x, s, turn, ok, FALSE)
  BY DEF Parsed
<1>2. Lying(x \o w, u, turn, ok, FALSE)
  BY <1>1, LyingMore
<1>3. w \in Seq(Item)
  BY WireIs
<1>4. Len(s) \in Nat /\ Len(u) = Len(s) + 1 /\ \A k \in 1 .. Len(s) : k \in 1 .. Len(u) /\ u[k] = s[k]
  <2>1. Len(s) \in Nat /\ Len(u) = Len(s) + 1 /\ \A k \in 1 .. Len(s) : u[k] = s[k]
    BY LenProperties, AppendProperties
  <2>2. QED
    BY <2>1
<1>5. CASE Between(c, f, x, s, turn, ok, due)
  <2>1. Lying(x, s, turn, ok, need)
    BY <1>5, LyingLess DEF Between
  <2>2. Lying(x \o w, u, turn, ok, need)
    BY <2>1, LyingMore
  <2>3. Between(c, f, x \o w, u, turn, ok, need)
    BY <1>5, <2>2 DEF Between
  <2>4. QED
    BY <1>1, <1>2, <2>3 DEF Parsed
<1>6. CASE Within(c, f, x, s, turn, ok, due)
  <2>1. PICK k \in 1 .. Len(s) :
          (ok => turn <= k) /\ (due => k = turn) /\ InRequest(c, f, x, s[k], WiresOf(s, k + 1))
    BY <1>6 DEF Within
  <2> DEFINE t == WiresOf(s, k + 1)
  <2>2. k + 1 \in 1 .. Len(s) + 1 /\ k \in 1 .. Len(s)
    BY <1>4
  <2>3. s[k] \in Requests /\ t \in Seq(Item) /\ WiresOf(u, k + 1) = t \o w
    BY <2>2, WiresIs, WiresAppend
  <2>4. At(c, x \o w, s[k], t \o w)
    <3>1. At(c, x, s[k], t)
      BY <2>1 DEF InRequest
    <3> HIDE DEF t, w
    <3>2. QED
      BY <1>3, <2>3, <3>1, AtMore
  <2>5. InRequest(c, f, x \o w, u[k], WiresOf(u, k + 1))
    <3>1. u[k] = s[k]
      BY <1>4
    <3>2. InRequest(c, f, x \o w, s[k], t \o w)
      BY <2>1, <2>4 DEF InRequest
    <3>3. QED
      BY <2>3, <3>1, <3>2
  <2>6. k \in 1 .. Len(u) /\ (need => k = turn)
    BY <1>4, <2>1
  <2>7. Within(c, f, x \o w, u, turn, ok, need)
    BY <2>1, <2>5, <2>6 DEF Within
  <2>8. QED
    BY <1>1, <1>2, <2>7 DEF Parsed
<1>7. CASE Unspooled(c, s, turn, due)
  <2>1. Unspooled(c, u, turn, need)
    BY <1>4, <1>7 DEF Unspooled
  <2>2. QED
    BY <1>1, <1>2, <2>1 DEF Parsed
<1>8. QED
  BY <1>5, <1>6, <1>7 DEF Parsed

LEMMA StreamAsk ==
  ASSUME TypeOK, StreamInv, EarlyInv, NEW r \in Requests, Ask(r)
  PROVE  StreamInv' /\ EarlyInv'
<1>1. /\ toSend = <<>> /\ sent' = Append(sent, r)
      /\ early' = IF Len(responses) < Len(sent) THEN early \cup {Len(sent) + 1} ELSE early
      /\ toSend' = Wire(r)
      /\ UNCHANGED <<socket, event, conn, file, phase, responses>>
      /\ Open /\ Ok
  BY DEF Ask, Ok
<1>2. /\ sent \in Seq(Requests) /\ socket \in Seq(Item) /\ Coming \in Seq(Item)
      /\ Turn \in Nat /\ Ok \in BOOLEAN /\ Due \in BOOLEAN /\ Len(sent) \in Nat
      /\ Reading => conn \in Connection /\ conn.buffer \in Seq(Item) /\ Left \in Seq(Item)
  BY StreamTyped
<1>3. Len(sent') = Len(sent) + 1 /\ \A k \in 1 .. Len(sent) : sent'[k] = sent[k]
  BY <1>1, <1>2, AppendProperties
<1>4. Turn' = Turn /\ Ok' = Ok /\ Due' \in BOOLEAN /\ (Due' => Due)
  <2>1. Turn' = Turn /\ Ok' = Ok
    BY <1>1 DEF Turn, Ok
  <2>2. early \subseteq early'
    BY <1>1
  <2>3. QED
    BY <2>1, <2>2 DEF Due
<1>5. Coming = socket /\ Coming' = Coming \o Wire(r)
  <2>1. Coming = socket
    BY <1>1, <1>2, ConcatEmptySeq DEF Coming
  <2>2. QED
    BY <1>1, <2>1 DEF Coming
<1>6. Reading => Left' = Left \o Wire(r)
  <2>1. SUFFICES ASSUME Reading PROVE Left' = Left \o Wire(r)
    OBVIOUS
  <2>2. Left' = conn.buffer \o (Coming \o Wire(r))
    BY <1>1, <1>5 DEF Left
  <2>3. Left = conn.buffer \o Coming
    BY DEF Left
  <2>4. conn.buffer \in Seq(Item) /\ Coming \in Seq(Item) /\ Wire(r) \in Seq(Item)
    BY <1>2, <2>1, WireIs
  <2>5. conn.buffer \o (Coming \o Wire(r)) = (conn.buffer \o Coming) \o Wire(r)
    BY ONLY <2>4, Together
  <2>6. QED
    BY <2>2, <2>3, <2>5
<1>7. Reading' => Parsed(conn', file', Left', sent', Turn', Ok', Due')
  <2>1. SUFFICES ASSUME Reading PROVE Parsed(conn, file, Left \o Wire(r), Append(sent, r), Turn, Ok, Due')
    BY <1>1, <1>4, <1>6 DEF Reading
  <2>2. Parsed(conn, file, Left, sent, Turn, Ok, Due)
    BY <2>1 DEF StreamInv
  <2>3. /\ sent \in Seq(Requests) /\ r \in Requests /\ conn \in Connection /\ Left \in Seq(Item)
        /\ Ok \in BOOLEAN /\ Due \in BOOLEAN /\ Due' \in BOOLEAN /\ (Due' => Due)
    BY <1>2, <1>4, <2>1
  <2>4. QED
    BY ONLY <2>2, <2>3, ParsedMore
<1>8. phase' = "WRITING" => Lying(Coming', sent', Turn', Ok', Due')
  <2>1. SUFFICES ASSUME phase = "WRITING" PROVE Lying(Coming \o Wire(r), Append(sent, r), Turn, Ok, Due')
    BY <1>1, <1>4, <1>5
  <2>2. Lying(Coming, sent, Turn, Ok, Due)
    BY <2>1 DEF StreamInv
  <2>3. Lying(Coming, sent, Turn, Ok, Due')
    BY <1>2, <1>4, <2>2, LyingLess
  <2>4. QED
    BY <1>2, <1>4, <2>3, LyingMore
<1>9. StreamInv'
  <2>1. phase' # "HUNG"
    BY <1>1 DEF Open
  <2>2. phase' = "WAITING" /\ ~event' => socket' = <<>>
    BY <1>1 DEF StreamInv
  <2>3. QED
    BY <1>7, <1>8, <2>1, <2>2 DEF StreamInv
<1>10. EarlyInv'
  <2>1. early' \subseteq 1 .. Len(sent')
    <3>1. early \subseteq 1 .. Len(sent)
      BY DEF EarlyInv
    <3>2. 1 .. Len(sent) \subseteq 1 .. Len(sent') /\ Len(sent) + 1 \in 1 .. Len(sent')
      BY <1>2, <1>3
    <3>3. early' \subseteq early \cup {Len(sent) + 1}
      BY <1>1
    <3>4. QED
      BY <3>1, <3>2, <3>3
  <2>2. ASSUME NEW m \in 1 .. Len(sent'), Turn < m
        PROVE  m \in early'
    <3>1. CASE m \in 1 .. Len(sent)
      BY <1>1, <2>2, <3>1 DEF EarlyInv
    <3>2. CASE m = Len(sent) + 1
      <4>1. Len(responses) < Len(sent)
        <5>1. Len(responses) \in Nat
          BY LenProperties DEF TypeOK
        <5>2. QED
          BY <1>2, <2>2, <3>2, <5>1 DEF Turn
      <4>2. QED
        BY <1>1, <3>2, <4>1
    <3>3. QED
      BY <1>2, <1>3, <3>1, <3>2
  <2>3. QED
    BY <1>1, <1>4, <2>1, <2>2 DEF EarlyInv
<1>11. QED
  BY <1>9, <1>10

LEMMA StreamSend ==
  ASSUME TypeOK, StreamInv, EarlyInv, NEW n \in 1 .. Len(toSend), Send(n)
  PROVE  StreamInv' /\ EarlyInv'
<1>1. /\ Open /\ socket' = socket \o SubSeq(toSend, 1, n)
      /\ toSend' = SubSeq(toSend, n + 1, Len(toSend))
      /\ event' = TRUE /\ UNCHANGED <<sent, early, conn, file, phase, responses>>
  BY DEF Send
<1>2. socket \in Seq(Item) /\ toSend \in Seq(Item)
  BY StreamTyped
<1>3. Coming' = Coming
  <2> DEFINE p == SubSeq(toSend, 1, n)
             q == From(toSend, n + 1)
  <2>1. n \in 0 .. Len(toSend)
    BY <1>2, LenProperties
  <2>2. p \in Seq(Item) /\ q \in Seq(Item) /\ toSend = p \o q
    BY <1>2, <2>1, FirstIs, FromIs, CutAt
  <2>3. Coming' = (socket \o p) \o q /\ Coming = socket \o toSend
    BY <1>1 DEF Coming, From
  <2> HIDE DEF p, q
  <2>4. socket \o (p \o q) = (socket \o p) \o q
    <3>1. socket \in Seq(Item) /\ p \in Seq(Item) /\ q \in Seq(Item)
      BY <1>2, <2>2
    <3>2. QED
      BY ONLY <3>1, Together
  <2>5. QED
    BY <2>2, <2>3, <2>4
<1>4. Left' = Left /\ Turn' = Turn /\ Ok' = Ok /\ Due' = Due
  BY <1>1, <1>3 DEF Left, Turn, Ok, Due
<1>5. Reading' => Parsed(conn', file', Left', sent', Turn', Ok', Due')
  BY <1>1, <1>4 DEF StreamInv, Reading
<1>6. phase' = "WRITING" => Lying(Coming', sent', Turn', Ok', Due')
  BY <1>1, <1>3, <1>4 DEF StreamInv
<1>7. phase' # "HUNG"
  BY <1>1 DEF Open
<1>8. StreamInv'
  BY <1>1, <1>5, <1>6, <1>7 DEF StreamInv
<1>9. EarlyInv'
  BY <1>1, <1>4 DEF EarlyInv
<1>10. QED
  BY <1>8, <1>9

LEMMA StreamStart ==
  ASSUME TypeOK, StreamInv, EarlyInv, DispatchRead
  PROVE  StreamInv' /\ EarlyInv'
<1>1. /\ phase = "WAITING" /\ phase' = "HANDLING"
      /\ UNCHANGED <<sent, early, toSend, socket, conn, file, responses>>
  BY DEF DispatchRead
<1>2. Left' = Left /\ Turn' = Turn /\ Ok' = Ok /\ Due' = Due
  BY <1>1 DEF Left, Coming, Turn, Ok, Due
<1>3. Parsed(conn', file', Left', sent', Turn', Ok', Due')
  BY <1>1, <1>2 DEF StreamInv, Reading
<1>4. StreamInv'
  BY <1>1, <1>3 DEF StreamInv
<1>5. EarlyInv'
  BY <1>1, <1>2 DEF EarlyInv
<1>6. QED
  BY <1>4, <1>5

\* Nothing of a request is there.
LEMMA Anew ==
  ASSUME NEW x \in Seq(Item), NEW s, NEW turn, NEW ok \in BOOLEAN, NEW due \in BOOLEAN, Lying(x, s, turn, ok, due)
  PROVE  Parsed(Blank, NoFile, Blank.buffer \o x, s, turn, ok, due)
<1>1. Blank.buffer \o x = x
  BY BlankIs, ConcatEmptySeq
<1>2. Lying(x, s, turn, ok, FALSE)
  <2>1. PICK k \in 1 .. Len(s) + 1, n \in Nat : Trail(x, s, k, n) /\ (ok => turn <= k)
    BY DEF Lying
  <2>2. QED
    BY <2>1 DEF Lying
<1>3. Waits(Blank) /\ Blank.state = "IDLE"
  BY BlankIs DEF Waits
<1>4. NoFile.content = <<>> /\ NoFile.written = 0
  BY NoFileIs
<1>5. Between(Blank, NoFile, x, s, turn, ok, due)
  BY <1>3, <1>4 DEF Between
<1>6. QED
  BY <1>1, <1>2, <1>3, <1>5 DEF Parsed

LEMMA StreamAnswered ==
  ASSUME TypeOK, StreamInv, EarlyInv, ResponseWritten
  PROVE  StreamInv' /\ EarlyInv'
<1>1. /\ phase = "WRITING" /\ UNCHANGED <<sent, early, toSend, socket, responses>>
      /\ \/ /\ phase' = "WAITING" /\ conn' = Blank /\ file' = NoFile /\ event' = (socket # <<>>)
         \/ phase' = "CLOSED"
  BY DEF ResponseWritten
<1>2. Coming' = Coming /\ Turn' = Turn /\ Ok' = Ok /\ Due' = Due
  BY <1>1 DEF Coming, Turn, Ok, Due
<1>3. Lying(Coming, sent, Turn, Ok, Due) /\ Coming \in Seq(Item) /\ Ok \in BOOLEAN /\ Due \in BOOLEAN
  BY <1>1, StreamTyped DEF StreamInv
<1>4. EarlyInv'
  BY <1>1, <1>2 DEF EarlyInv
<1>5. CASE phase' = "WAITING" /\ conn' = Blank /\ file' = NoFile /\ event' = (socket # <<>>)
  <2>1. Parsed(Blank, NoFile, Blank.buffer \o Coming, sent, Turn, Ok, Due)
    BY <1>3, Anew
  <2>2. Left' = Blank.buffer \o Coming
    BY <1>2, <1>5 DEF Left
  <2>3. Parsed(conn', file', Left', sent', Turn', Ok', Due')
    BY <1>1, <1>2, <1>5, <2>1, <2>2
  <2>4. phase' = "WAITING" /\ (~event' => socket' = <<>>)
    BY <1>1, <1>5
  <2>5. QED
    BY <1>4, <2>3, <2>4 DEF StreamInv
<1>6. CASE phase' = "CLOSED"
  BY <1>4, <1>6 DEF StreamInv, Reading
<1>7. QED
  BY <1>1, <1>5, <1>6

LEMMA StreamLeave ==
  ASSUME TypeOK, StreamInv, EarlyInv, NEW code \in {0, 408}, Leave(code)
  PROVE  StreamInv' /\ EarlyInv'
<1>1. /\ phase' = "CLOSED" /\ UNCHANGED <<sent, early, toSend, socket, conn>>
      /\ \/ responses' = Append(responses, [code |-> 408, body |-> <<>>, after |-> 0])
         \/ responses' = responses
  BY DEF Leave
<1>2. StreamInv'
  BY <1>1 DEF StreamInv, Reading
<1>3. UNCHANGED <<sent, early>> /\ responses \in Seq(Response)
  BY <1>1, StreamTyped
<1>4. CASE responses' = responses
  BY <1>2, <1>3, <1>4, EarlyKept, Zenon
<1>5. CASE responses' = Append(responses, [code |-> 408, body |-> <<>>, after |-> 0])
  <2>1. <<>> \in Seq(Item) /\ 0 \in Nat /\ 408 \in Nat
    BY EmptySeq
  <2>2. Answers(408)
    BY <1>5, <2>1 DEF Answers
  <2>3. \E x \in Nat : Answers(x)
    BY <2>1, <2>2
  <2>4. EarlyInv'
    BY <1>3, <2>3, EarlyKept, Zenon
  <2>5. QED
    BY <1>2, <2>4
<1>6. QED
  BY <1>1, <1>4, <1>5

LEMMA StreamInit ==
  ASSUME Init
  PROVE  StreamInv /\ EarlyInv
<1>1. /\ sent = <<>> /\ early = {} /\ toSend = <<>> /\ socket = <<>> /\ ~event
      /\ conn = Blank /\ file = NoFile /\ phase = "WAITING" /\ responses = <<>>
  BY DEF Init
<1>2. <<>> \in Seq(Item) /\ <<>> \in Seq(Requests) /\ Len(<<>>) = 0
  BY EmptySeq
<1>3. Coming = <<>> /\ Coming \in Seq(Item)
  BY <1>1, <1>2, ConcatEmptySeq DEF Coming
<1>4. Turn = 1 /\ Ok /\ Due /\ Len(sent) = 0 /\ sent \in Seq(Requests)
  BY <1>1, <1>2 DEF Turn, Ok, Due
<1>5. Trail(Coming, sent, 1, 0)
  <2>1. 1 \in 1 .. Len(sent) + 1 /\ \A i \in 1 .. 0 : Coming[i].kind # "line"
    BY <1>4
  <2>2. WiresOf(sent, 1) = <<>>
    <3>1. WiresOf(sent, Len(sent) + 1) = <<>>
      BY ONLY <1>4, WiresIs
    <3>2. Len(sent) + 1 = 1
      BY ONLY <1>4
    <3>3. QED
      BY <3>1, <3>2
  <2>3. Len(Coming) = 0 /\ 1 \in 1 .. Len(Coming) + 1
    BY <1>2, <1>3
  <2>4. From(Coming, 0 + 1) = <<>>
    BY <1>2, <1>3 DEF From
  <2>5. 0 \in 0 .. Len(Coming)
    BY <2>3
  <2>6. QED
    BY <2>1, <2>2, <2>4, <2>5 DEF Trail
<1>6. Lying(Coming, sent, Turn, Ok, Due)
  <2>1. 1 \in 1 .. Len(sent) + 1 /\ 0 \in Nat /\ 0 <= 2
    BY <1>4
  <2>2. ~Odd(Coming, 0)
    BY DEF Odd
  <2>3. \E k \in 1 .. Len(sent) + 1, n \in Nat :
          Trail(Coming, sent, k, n) /\ (Ok => Turn <= k) /\ (Due => k = Turn /\ n <= 2 /\ ~Odd(Coming, n))
    BY <1>4, <1>5, <2>1, <2>2
  <2>4. QED
    BY <2>3 DEF Lying
<1>7. Parsed(conn, file, Left, sent, Turn, Ok, Due)
  <2>1. Parsed(Blank, NoFile, Blank.buffer \o Coming, sent, Turn, Ok, Due)
    BY <1>3, <1>4, <1>6, Anew
  <2>2. QED
    BY <1>1, <2>1 DEF Left
<1>8. StreamInv
  BY <1>1, <1>7 DEF StreamInv
<1>9. EarlyInv
  BY <1>1, <1>4 DEF EarlyInv
<1>10. QED
  BY <1>8, <1>9

\* The invariant of all that RequestIntake's properties are about.
IntakeInv == ControlInv /\ StreamInv /\ EarlyInv

LEMMA IntakeStep ==
  ASSUME IntakeInv, [Next]_vars
  PROVE  IntakeInv'
<1>1. TypeOK /\ StreamInv /\ EarlyInv
  BY DEF IntakeInv, ControlInv
<1>2. ControlInv'
  BY ControlStep DEF IntakeInv
<1>3. SUFFICES StreamInv' /\ EarlyInv'
  BY <1>2 DEF IntakeInv
<1>4. CASE UNCHANGED vars
  <2>1. /\ UNCHANGED <<sent, early, toSend, socket, event, conn, file, phase, responses>>
    BY <1>4 DEF vars
  <2>2. Turn' = Turn /\ Ok' = Ok /\ Due' = Due /\ Coming' = Coming /\ Left' = Left
    BY <2>1 DEF Turn, Ok, Due, Coming, Left
  <2>3. StreamInv'
    BY <1>1, <2>1, <2>2 DEF StreamInv, Reading, SpoolFailed
  <2>4. EarlyInv'
    BY <1>1, <2>1, <2>2 DEF EarlyInv
  <2>5. QED
    BY <2>3, <2>4
<1>5. ASSUME NEW r \in Requests, Ask(r) PROVE StreamInv' /\ EarlyInv'
  BY <1>1, <1>5, StreamAsk
<1>6. ASSUME NEW n \in 1 .. Len(toSend), Send(n) PROVE StreamInv' /\ EarlyInv'
  BY <1>1, <1>6, StreamSend
<1>7. CASE DispatchRead
  BY <1>1, <1>7, StreamStart
<1>8. ASSUME NEW fault, Read(fault) PROVE StreamInv' /\ EarlyInv'
  BY <1>1, <1>8, StreamRead
<1>9. ASSUME NEW fault, ReadNothing(fault) PROVE StreamInv' /\ EarlyInv'
  BY <1>1, <1>9, StreamReadNothing
<1>10. CASE ResponseWritten
  BY <1>1, <1>10, StreamAnswered
<1>11. ASSUME NEW code \in {0, 408}, Leave(code) PROVE StreamInv' /\ EarlyInv'
  BY <1>1, <1>11, StreamLeave
<1>12. CASE Rest
  BY <1>4, <1>12 DEF Rest
<1>13. QED
  BY <1>4, <1>5, <1>6, <1>7, <1>8, <1>9, <1>10, <1>11, <1>12 DEF Next

LEMMA IntakeAlways == Spec => []IntakeInv
<1>1. Init => IntakeInv
  BY ControlInit, StreamInit DEF IntakeInv
<1>2. IntakeInv /\ [Next]_vars => IntakeInv'
  BY IntakeStep
<1>3. QED
  BY <1>1, <1>2, PTL DEF Spec

\* The body of a request that is coming in is in the file and then in memory,
\* once and in order, and no longer than the limit of its target; only a
\* request with a length or chunks ever waits for one.  Spooling moves it from
\* one to the other in flushRequestBodyToTmpFile, whichever pieces recv() made.
THEOREM BodiesAccounted == Spec => []BodyAccounted
<1>1. IntakeInv => BodyAccounted
  <2> SUFFICES ASSUME IntakeInv, conn.state \in {"BODY", "COMPLETE"}, Reading
               PROVE  /\ file.content \o conn.body = Datas(conn.written)
                      /\ file.written = Len(file.content)
                      /\ conn.written <= conn.max
                      /\ conn.state = "BODY" => conn.chunked \/ conn.length > 0
    BY DEF BodyAccounted, Reading
  <2>1. Parsed(conn, file, Left, sent, Turn, Ok, Due) /\ Sane(conn)
    BY DEF IntakeInv, ControlInv, TypeOK, StreamInv
  <2>2. Within(conn, file, Left, sent, Turn, Ok, Due)
    BY <2>1 DEF Parsed, Between, Unspooled
  <2>3. PICK k \in 1 .. Len(sent) : InRequest(conn, file, Left, sent[k], WiresOf(sent, k + 1))
    BY <2>2 DEF Within
  <2>4. /\ At(conn, Left, sent[k], WiresOf(sent, k + 1)) /\ Kept(conn, file.content)
        /\ file.written = Len(file.content)
    BY <2>3 DEF InRequest
  <2>5. conn.written <= conn.max /\ (conn.state = "BODY" => conn.chunked \/ conn.length > 0)
    <3>1. CASE conn.state = "BODY"
      BY <2>1, <3>1 DEF Sane
    <3>2. CASE conn.state = "COMPLETE"
      BY <2>4, <3>2 DEF At, AtFields, AtLength, AtChunk, AtEnd
    <3>3. QED
      BY <3>1, <3>2
  <2>6. QED
    BY <2>4, <2>5 DEF Kept
<1>2. QED
  BY <1>1, IntakeAlways, PTL

-----------------------------------------------------------------------------
(* Nothing is left lying. *)

LEMMA CrlfAhead ==
  ASSUME NEW p \in Seq(Item), NEW y \in Seq(Item)
  PROVE  CrlfIn(p \o (Crlf \o y)) # 0
<1> DEFINE z == Crlf \o y
           b == p \o z
           i == Len(p) + 1
<1>1. z \in Seq(Item) /\ Len(z) >= 2 /\ z[1] = CR /\ z[2] = LF
  <2>1. /\ z \in Seq(Item) /\ Len(z) = Len(Crlf) + Len(y) /\ Len(y) \in Nat
        /\ \A k \in 1 .. Len(Crlf) : z[k] = Crlf[k]
    <3>1. Crlf \in Seq(Item)
      BY Tokens
    <3>2. QED
      BY ONLY <3>1, y \in Seq(Item), Joined
  <2>2. Len(Crlf) = 2 /\ Crlf[1] = CR /\ Crlf[2] = LF
    BY Tokens
  <2>3. 1 \in 1 .. 2 /\ 2 \in 1 .. 2
    OBVIOUS
  <2> HIDE DEF z
  <2>4. z[1] = CR /\ z[2] = LF
    BY ONLY <2>1, <2>2, <2>3
  <2>5. Len(z) >= 2
    BY ONLY <2>1, <2>2
  <2>6. QED
    BY <2>1, <2>4, <2>5
<1> HIDE DEF z
<1>2. /\ b \in Seq(Item) /\ Len(b) = Len(p) + Len(z) /\ Len(p) \in Nat /\ Len(z) \in Nat
      /\ \A k \in 1 .. Len(z) : b[Len(p) + k] = z[k]
  BY <1>1, Joined
<1> HIDE DEF b
<1>3. b[i] = CR /\ b[i + 1] = LF /\ i \in 1 .. Len(b) - 1
  <2>1. 1 \in 1 .. Len(z) /\ 2 \in 1 .. Len(z)
    BY <1>1, <1>2
  <2>2. b[Len(p) + 1] = CR /\ b[Len(p) + 2] = LF
    BY <1>1, <1>2, <2>1
  <2>3. i = Len(p) + 1 /\ i + 1 = Len(p) + 2 /\ i \in 1 .. Len(b) - 1
    BY <1>1, <1>2
  <2>4. QED
    BY ONLY <2>2, <2>3
<1>4. b \in Seq(Item)
  BY <1>2
<1> HIDE DEF i
<1>5. CrlfIn(b) # 0
  BY ONLY <1>3, <1>4, CrlfFirst
<1>6. QED
  BY <1>5 DEF b, z

\* A parser that has all of a request and can do nothing has completed it.
LEMMA FieldsEnd ==
  ASSUME NEW c, NEW b \in Seq(Item), NEW r \in Requests, NEW t \in Seq(Item), AtFields(c, b, r, t)
  PROVE  CrlfIn(b) # 0
<1>1. PICK j \in 0 .. Len(r.headers) :
        b = FlattenSeq(From(Fields(r), j + 1)) \o (Crlf \o (Body(r) \o (End(r) \o t)))
  BY DEF AtFields
<1> DEFINE a == FlattenSeq(From(Fields(r), j + 1))
           o == End(r) \o t
           y == Body(r) \o o
<1>2. /\ Body(r) \in Seq(Plain) /\ Fields(r) \in Seq(Seq(Plain)) /\ Len(Fields(r)) = Len(r.headers)
      /\ Len(r.headers) \in Nat
  BY PiecesTyped
<1>3. Body(r) \in Seq(Item)
  BY ONLY <1>2, PlainIs, SeqMonotonic
<1>4. Fields(r) \in Seq(Seq(Item))
  BY ONLY <1>2, PlainIs, FlatPlain
<1>5. j + 1 \in 1 .. Len(Fields(r)) + 1
  BY <1>2
<1>6. a \in Seq(Item)
  BY <1>4, <1>5, FlatFrom
<1>7. o \in Seq(Item)
  BY EndMore
<1> HIDE DEF o
<1>8. y \in Seq(Item)
  BY <1>3, <1>7, Joined
<1>9. b = a \o (Crlf \o y)
  BY <1>1 DEF o
<1> HIDE DEF a, y
<1>10. QED
  BY <1>6, <1>8, <1>9, CrlfAhead

LEMMA SizeEnd ==
  ASSUME NEW c, NEW b \in Seq(Item), NEW r \in Requests, NEW t \in Seq(Item), AtSize(c, b, r, t)
  PROVE  CrlfIn(b) # 0
<1>1. PICK k \in 0 .. Len(r.chunks) : b = Onwards(r, k, t)
  BY DEF AtSize
<1> DEFINE n == Len(r.chunks)
<1>2. n \in Nat /\ r.chunks \in Seq(Nat)
  BY AskedBody, LenProperties
<1>3. CASE k = n
  <2> DEFINE o == End(r) \o t
             y == Crlf \o o
  <2>1. o \in Seq(Item) /\ b = <<Size(0)>> \o (Crlf \o y)
    BY <1>1, <1>3, Onward
  <2> HIDE DEF o
  <2>2. y \in Seq(Item)
    BY <2>1, Tokens, Joined
  <2>3. <<Size(0)>> \in Seq(Item)
    BY ItemKinds, Tokens
  <2> HIDE DEF y
  <2>4. QED
    BY <2>1, <2>2, <2>3, CrlfAhead
<1>4. CASE k < n
  <2> DEFINE d == Span(SumTo(r.chunks, k), SumTo(r.chunks, k + 1))
             o == Onwards(r, k + 1, t)
             z == Crlf \o o
             y == d \o z
  <2>1. k \in 0 .. n - 1 /\ k + 1 \in 0 .. n /\ k + 1 \in 1 .. n
    BY <1>2, <1>4
  <2>2. o \in Seq(Item) /\ b = <<Size(r.chunks[k + 1])>> \o (Crlf \o y)
    BY <1>1, <2>1, Onward
  <2>3. d \in Seq(Item)
    <3>1. SumTo(r.chunks, k) \in Nat /\ SumTo(r.chunks, k + 1) \in Nat /\ SumTo(r.chunks, k) <= SumTo(r.chunks, k + 1)
      <4> DEFINE j == k + 1
      <4>1. j \in 0 .. n /\ j \in 1 .. n /\ k \in 0 .. n /\ j - 1 = k
        BY <1>2, <2>1
      <4> HIDE DEF j
      <4>2. /\ \A i \in 0 .. n : SumTo(r.chunks, i) \in Nat
            /\ \A i \in 1 .. n : SumTo(r.chunks, i - 1) < SumTo(r.chunks, i)
        BY ONLY r \in Requests, TotalIs
      <4>3. SumTo(r.chunks, k) \in Nat /\ SumTo(r.chunks, j) \in Nat /\ SumTo(r.chunks, k) < SumTo(r.chunks, j)
        BY ONLY <4>1, <4>2
      <4>4. QED
        BY ONLY <4>3 DEF j
    <3>2. QED
      BY <3>1, SpanIs
  <2> HIDE DEF o, d
  <2>4. z \in Seq(Item)
    BY <2>2, Tokens, Joined
  <2> HIDE DEF z
  <2>5. y \in Seq(Item)
    BY <2>3, <2>4, Joined
  <2> HIDE DEF y
  <2>6. <<Size(r.chunks[k + 1])>> \in Seq(Item)
    <3>1. r.chunks[k + 1] \in Nat
      BY <1>2, <2>1, ElementOfSeq
    <3>2. QED
      BY <3>1, ItemKinds, Tokens
  <2>7. QED
    BY <2>2, <2>5, <2>6, CrlfAhead
<1>5. QED
  BY <1>2, <1>3, <1>4

LEMMA ChunkEnd ==
  ASSUME NEW c \in Connection, NEW b \in Seq(Item), NEW r \in Requests, NEW t \in Seq(Item), b = c.buffer,
         AtChunk(c, b, r, t), Stuck(c)
  PROVE  FALSE
<1>1. AtSize(c, b, r, t) \/ AtData(c, b, r, t) \/ AtTrailing(c, b, r, t) \/ AtLast(c, b, r, t)
  BY DEF AtChunk
<1>2. /\ c.trailing => Len(b) < 2
      /\ ~c.trailing /\ c.size = 0 => CrlfIn(b) = 0
      /\ ~c.trailing /\ c.size # 0 => b = <<>>
  BY DEF Stuck
<1>3. CASE AtSize(c, b, r, t)
  <2>1. ~c.trailing /\ c.size = 0
    BY <1>3 DEF AtSize
  <2>2. CrlfIn(b) # 0
    BY <1>3, SizeEnd
  <2>3. QED
    BY <1>2, <2>1, <2>2
<1>4. CASE AtData(c, b, r, t)
  <2>1. ~c.trailing /\ c.size > 0 /\ c.size \in Nat /\ c.written \in Nat
    BY <1>4 DEF AtData, Connection
  <2>2. PICK k \in 1 .. Len(r.chunks) :
          /\ c.written + c.size = SumTo(r.chunks, k)
          /\ b = Span(c.written, SumTo(r.chunks, k)) \o (Crlf \o Onwards(r, k, t))
    BY <1>4 DEF AtData
  <2> DEFINE d == Span(c.written, SumTo(r.chunks, k))
             z == Crlf \o Onwards(r, k, t)
  <2>3. k \in 0 .. Len(r.chunks)
    BY PiecesTyped
  <2>4. z \in Seq(Item)
    <3>1. Onwards(r, k, t) \in Seq(Item)
      BY <2>3, Onward
    <3>2. QED
      BY <3>1, Tokens, Joined
  <2>5. d \in Seq(Item) /\ Len(d) = c.size
    <3>1. SumTo(r.chunks, k) \in Nat
      BY <2>3, TotalIs
    <3>2. c.written <= SumTo(r.chunks, k) /\ SumTo(r.chunks, k) - c.written = c.size
      BY <2>1, <2>2, <3>1
    <3>3. QED
      BY <2>1, <3>1, <3>2, SpanIs
  <2>6. b = d \o z
    BY <2>2
  <2> HIDE DEF d, z
  <2>7. Len(b) = Len(d) + Len(z) /\ Len(z) \in Nat
    <3>1. Len(d \o z) = Len(d) + Len(z) /\ Len(z) \in Nat
      BY ONLY <2>4, <2>5, Joined
    <3>2. QED
      BY ONLY <2>6, <3>1
  <2>8. Len(b) # 0
    BY ONLY <2>1, <2>5, <2>7
  <2>9. b # <<>>
    BY <2>8, Tokens
  <2>10. QED
    BY <1>2, <2>1, <2>9
<1>5. ASSUME c.trailing, NEW y \in Seq(Item), b = Crlf \o y
      PROVE  FALSE
  <2>1. Len(b) = Len(Crlf) + Len(y) /\ Len(y) \in Nat /\ Len(Crlf) = 2
    <3>1. Crlf \in Seq(Item) /\ Len(Crlf) = 2
      BY Tokens
    <3>2. Len(Crlf \o y) = Len(Crlf) + Len(y) /\ Len(y) \in Nat
      BY ONLY <3>1, y \in Seq(Item), Joined
    <3>3. QED
      BY ONLY <1>5, <3>1, <3>2
  <2>2. Len(b) < 2
    BY <1>2, <1>5
  <2>3. QED
    BY ONLY <2>1, <2>2
<1>6. CASE AtTrailing(c, b, r, t)
  <2>1. PICK k \in 1 .. Len(r.chunks) : b = Crlf \o Onwards(r, k, t)
    BY <1>6 DEF AtTrailing
  <2>2. k \in 0 .. Len(r.chunks)
    BY PiecesTyped
  <2>3. Onwards(r, k, t) \in Seq(Item) /\ c.trailing
    BY <1>6, <2>2, Onward DEF AtTrailing
  <2>4. QED
    BY <1>5, <2>1, <2>3
<1>7. CASE AtLast(c, b, r, t)
  <2>1. c.trailing /\ b = Crlf \o (End(r) \o t) /\ End(r) \o t \in Seq(Item)
    BY <1>7, EndMore DEF AtLast
  <2>2. QED
    BY <1>5, <2>1
<1>8. QED
  BY <1>1, <1>3, <1>4, <1>6, <1>7

LEMMA RequestEnd ==
  ASSUME NEW c \in Connection, NEW b \in Seq(Item), NEW r \in Requests, NEW t \in Seq(Item), b = c.buffer,
         At(c, b, r, t), Waits(c)
  PROVE  c.state = "COMPLETE"
<1>1. \/ AtFields(c, b, r, t)
      \/ AtLength(c, b, r, t)
      \/ AtChunk(c, b, r, t)
      \/ AtEnd(c, b, r, t)
  BY DEF At
<1>2. CASE AtFields(c, b, r, t)
  <2>1. CrlfIn(b) # 0 /\ c.state = "HEADERS"
    BY <1>2, FieldsEnd DEF AtFields
  <2>2. QED
    BY <2>1 DEF Waits
<1>3. CASE AtLength(c, b, r, t)
  <2> DEFINE d == Span(c.written, r.length)
             z == End(r) \o t
  <2>1. c.state = "BODY" /\ ~c.chunked /\ c.written < r.length /\ b = d \o z
    BY <1>3 DEF AtLength
  <2>2. c.written \in Nat /\ r.length \in Nat /\ c.written <= r.length
    BY <2>1, AskedBody DEF Connection
  <2>3. d \in Seq(Item) /\ Len(d) = r.length - c.written
    BY <2>2, SpanIs
  <2>4. z \in Seq(Item)
    BY EndMore
  <2> HIDE DEF d, z
  <2>5. Len(b) = Len(d) + Len(z) /\ Len(z) \in Nat /\ c.written < r.length
    <3>1. Len(d \o z) = Len(d) + Len(z) /\ Len(z) \in Nat
      BY ONLY <2>3, <2>4, Joined
    <3>2. b = d \o z /\ c.written < r.length
      BY <2>1
    <3>3. QED
      BY ONLY <3>1, <3>2
  <2>6. Len(b) # 0
    <3>1. Len(d) = r.length - c.written
      BY <2>3
    <3>2. QED
      BY ONLY <2>2, <2>5, <3>1
  <2>7. b # <<>>
    BY <2>6, Tokens
  <2>8. QED
    BY <2>1, <2>7 DEF Waits
<1>4. CASE AtChunk(c, b, r, t)
  <2>1. c.state = "BODY" /\ c.chunked
    BY <1>4 DEF AtChunk
  <2>2. Stuck(c)
    BY <2>1 DEF Waits
  <2>3. QED
    BY <1>4, <2>2, ChunkEnd
<1>5. CASE AtEnd(c, b, r, t)
  BY <1>5 DEF AtEnd
<1>6. QED
  BY <1>1, <1>2, <1>3, <1>4, <1>5

LEMMA LineEnd ==
  ASSUME NEW c, Sane(c), c.state \in {"IDLE", "REQUEST_LINE"}, Waits(c),
         NEW b \in Seq(Item), b = c.buffer, NEW r \in Requests, NEW t \in Seq(Item),
         NEW n, Begun(b, n, r, t), ~Odd(b, n)
  PROVE  FALSE
<1>1. n \in Nat /\ n + 3 <= Len(b) /\ Len(b) \in Nat
  BY BegunIs DEF Starts
<1>2. c \in Connection /\ Limited(c)
  BY DEF Sane
<1>3. CASE c.state = "IDLE"
  <2>1. b = <<>>
    BY <1>3 DEF Waits
  <2>2. Len(b) = 0
    BY <2>1, Tokens
  <2>3. QED
    BY ONLY <1>1, <2>2
<1>4. CASE c.state = "REQUEST_LINE"
  <2>1. Lined(c) = c
    BY <1>2, <1>4 DEF Lined, Connection
  <2>2. ParseRequestLine(c) = c
    BY <1>4 DEF Waits
  <2>3. ApplyLimit(c) = c
    BY <1>2, ApplyLimitSane
  <2>4. ApplyLimit(ParseRequestLine(Lined(c))) = c
    BY <2>1, <2>2, <2>3
  <2>5. c.buffer \o <<>> = b /\ <<>> \in Seq(Item)
    BY ConcatEmptySeq, Tokens
  <2>6. Begun(c.buffer \o <<>>, n, r, t)
    BY <2>5
  <2>7. \/ Len(c.buffer) < n + 3
        \/ c.state = "ERROR"
        \/ c \in Follows(<<>>, <<>>, r, t)
    BY <2>4, <2>5, <2>6, LineStep
  <2>8. ~(Len(c.buffer) < n + 3)
    BY <1>1
  <2>9. c \notin Follows(<<>>, <<>>, r, t)
    BY <1>4, FollowsIs
  <2>10. QED
    BY <1>4, <2>7, <2>8, <2>9
<1>5. QED
  BY <1>3, <1>4

\* What has been sent and not been answered is never left lying: when the
\* client has sent it all and epoll has nothing to report, the last request has
\* been answered, or spooling it failed, or it is one of the bodies that
\* isBodyFullySpooled waits for in vain, or one came before its turn; and no
\* round of _handleRead is endless but after a failure to spool.
THEOREM NothingStalls == Spec => []NoStall
<1>1. IntakeInv => NoStall
  <2> SUFFICES ASSUME IntakeInv PROVE NoStall
    OBVIOUS
  <2>1. TypeOK /\ StreamInv /\ EarlyInv
    BY DEF IntakeInv, ControlInv
  <2>2. phase = "HUNG" => SpoolFailed
    BY <2>1 DEF StreamInv
  <2>3. ASSUME phase = "WAITING", ~event, toSend = <<>>, Len(responses) < Len(sent), early = {}
        PROVE  SpoolFailed \/ NeverSpooled(Last(sent))
    <3> DEFINE s == sent
               m == Len(s)
    <3>1. /\ s \in Seq(Requests) /\ m \in Nat /\ Len(responses) \in Nat /\ Reading /\ Sane(conn)
          /\ conn \in Connection /\ conn.buffer \in Seq(Item)
      BY <2>1, <2>3, StreamTyped, LenProperties DEF Reading
    <3>2. Left = conn.buffer
      <4>1. socket = <<>>
        BY <2>1, <2>3 DEF StreamInv
      <4>2. Coming = <<>>
        BY <2>3, <4>1, Tokens, ConcatEmptySeq DEF Coming
      <4>3. QED
        BY <3>1, <4>2, ConcatEmptySeq DEF Left
    <3>3. Ok /\ Turn = m /\ Due
      <4>1. Turn \in Nat /\ Turn = Len(responses) + 1
        BY <3>1 DEF Turn
      <4>2. Turn <= m /\ m \in 1 .. m
        BY <2>3, <3>1, <4>1
      <4>3. ~(IF Ok THEN Turn < m ELSE Turn <= m)
        BY <2>1, <2>3, <4>2 DEF EarlyInv
      <4>4. Ok
        BY <4>2, <4>3
      <4>5. ~(Turn < m)
        BY <4>3, <4>4
      <4>6. Turn = m
        BY <3>1, <4>1, <4>2, <4>5
      <4>7. QED
        BY <2>3, <4>4, <4>6 DEF Due
    <3>4. m \in 1 .. m /\ s[m] = Last(s) /\ s[m] \in Requests
      <4>1. m \in 1 .. m
        BY <2>3, <3>1
      <4>2. QED
        BY <3>1, <4>1, ElementOfSeq DEF Last
    <3>5. WiresOf(s, m + 1) = <<>> /\ <<>> \in Seq(Item)
      BY <3>1, WiresIs, Tokens
    <3>6. Parsed(conn, file, conn.buffer, s, m, TRUE, TRUE)
      <4>1. Parsed(conn, file, Left, sent, Turn, Ok, Due)
        BY <2>1, <3>1 DEF StreamInv
      <4>2. Ok = TRUE /\ Due = TRUE
        BY <2>1, <3>3, StreamTyped
      <4>3. QED
        BY ONLY <3>2, <3>3, <4>1, <4>2
    <3>7. CASE Between(conn, file, conn.buffer, s, m, TRUE, TRUE)
      <4>1. conn.state \in {"IDLE", "REQUEST_LINE"} /\ Lying(conn.buffer, s, m, TRUE, TRUE)
        BY <3>7 DEF Between
      <4>2. PICK n \in Nat : Trail(conn.buffer, s, m, n) /\ ~Odd(conn.buffer, n)
        BY <4>1 DEF Lying
      <4>3. m \in 1 .. m + 1 /\ m <= m
        BY <3>1, <3>4
      <4>4. Begun(conn.buffer, n, s[m], <<>>)
        BY <3>1, <3>5, <4>2, <4>3, TrailIs
      <4>5. Waits(conn)
        BY <3>6 DEF Parsed
      <4>6. QED
        BY <3>1, <3>4, <3>5, <4>1, <4>2, <4>4, <4>5, LineEnd
    <3>8. CASE Within(conn, file, conn.buffer, s, m, TRUE, TRUE)
      <4>1. InRequest(conn, file, conn.buffer, s[m], WiresOf(s, m + 1))
        BY <3>8 DEF Within
      <4>2. At(conn, conn.buffer, s[m], <<>>) /\ (conn.state = "COMPLETE" => NeverSpooled(s[m]))
        BY <3>5, <4>1 DEF InRequest
      <4>3. Waits(conn)
        BY <3>6 DEF Parsed
      <4>4. conn.state = "COMPLETE"
        BY <3>1, <3>4, <3>5, <4>2, <4>3, RequestEnd
      <4>5. QED
        BY <3>4, <4>2, <4>4
    <3>9. CASE Unspooled(conn, s, m, TRUE)
      BY <3>9 DEF Unspooled, SpoolFailed
    <3>10. QED
      BY <3>6, <3>7, <3>8, <3>9 DEF Parsed
  <2>4. QED
    BY <2>2, <2>3 DEF NoStall
<1>2. QED
  BY <1>1, IntakeAlways, PTL

-----------------------------------------------------------------------------
(* What a request is answered with. *)

\* The read buffers have room for a read behind what is never taken from them
\* alone, an empty line and a request line without its end, or the end of a
\* line in a body; and a page fits into the write buffer.
Roomy ==
  /\ RecvSize + 4 <= ServerLimit /\ PageSize < ServerLimit
  /\ LocationLimit > 0 => RecvSize + 2 <= LocationLimit

\* x is a right answer to the i-th of the requests s, some of them begun early.
Excused(s, e, i, code) ==
  \/ code = 408 /\ MayLeave
  \/ code \in {500, 503} /\ s[i].target = "script" /\ Faults # {}
  \/ /\ code = 413 /\ i + 1 \in e
     /\ (s[i].target = "script" /\ Faults # {}) \/ NeverSpooled(s[i])
Fits(s, e, i, x) ==
  IF i > Len(s) THEN x.code = 408
  ELSE IF x.code = 200
    THEN Reasons(s[i]) = {} /\ x.body = Datas(Total(s[i]))
  ELSE x.code \in Reasons(s[i]) \/ Excused(s, e, i, x.code)
Right(s, e, a) ==
  \A i \in 1 .. Len(a) :
    (\A j \in 1 .. i - 1 : a[j].code = 200) /\ i \notin e => Fits(s, e, i, a[i])

\* The file of the request was opened, or written, and is not open any more.
Broken(f) == (f.opened \/ f.written > 0) /\ f.fd = "none"

\* Nothing but a fault makes spooling fail.
FaultInv == Reading /\ (conn.state = "ERROR" \/ Broken(file)) => Faults # {}

\* A failure to spool leaves next to nothing in the read buffer, unless the
\* next request has been begun.
SpoolRoom ==
  Reading /\ SpoolFailed /\ Due /\ Turn + 1 \notin early
    => Len(conn.buffer) <= 2 /\ conn.limit = LimitOf(conn.target)

RightInv == AnswersRight /\ SpoolRoom /\ FaultInv

LEMMA LimitRoom ==
  ASSUME Roomy, NEW target
  PROVE  RecvSize + 2 <= LimitOf(target) /\ LimitOf(target) \in Nat
BY Sizes DEF Roomy, LimitOf

\* That is what AnswersRight says, before a step and after it.
LEMMA RightIs ==
  /\ AnswersRight <=> Right(sent, early, responses)
  /\ AnswersRight' <=> Right(sent', early', responses')
<1>1. \A i, code : code \in Excuses(i) <=> Excused(sent, early, i, code)
  BY DEF Excuses, Excused
<1>2. \A i, code : code \in Excuses(i)' <=> Excused(sent', early', i, code)
  BY DEF Excuses, Excused
<1> DEFINE Shown(s, i, y, excuses) ==
             IF i > Len(s) THEN y.code = 408
             ELSE IF y.code = 200
               THEN Reasons(s[i]) = {} /\ y.body = Datas(Total(s[i]))
             ELSE y.code \in Reasons(s[i]) \cup excuses
<1>3. ASSUME NEW s, NEW e, NEW i, NEW y, NEW excuses, \A code : code \in excuses <=> Excused(s, e, i, code)
      PROVE  Shown(s, i, y, excuses) <=> Fits(s, e, i, y)
  BY <1>3 DEF Fits
<1>4. AnswersRight <=>
        \A i \in 1 .. Len(responses) :
          (\A j \in 1 .. i - 1 : responses[j].code = 200) /\ i \notin early
            => Shown(sent, i, responses[i], Excuses(i))
  BY Zenon DEF AnswersRight
<1>5. AnswersRight' <=>
        \A i \in 1 .. Len(responses') :
          (\A j \in 1 .. i - 1 : responses'[j].code = 200) /\ i \notin early'
            => Shown(sent', i, responses'[i], Excuses(i)')
  BY Zenon DEF AnswersRight
<1> HIDE DEF Shown
<1>6. \A i, y : Shown(sent, i, y, Excuses(i)) <=> Fits(sent, early, i, y)
  BY <1>1, <1>3
<1>7. \A i, y : Shown(sent', i, y, Excuses(i)') <=> Fits(sent', early', i, y)
  BY <1>2, <1>3
<1>8. AnswersRight <=> Right(sent, early, responses)
  BY <1>4, <1>6 DEF Right
<1>9. AnswersRight' <=> Right(sent', early', responses')
  BY <1>5, <1>7 DEF Right
<1>10. QED
  BY <1>8, <1>9

\* One more answer, which is right if one was due.
LEMMA AnswersMore ==
  ASSUME TypeOK, AnswersRight, UNCHANGED <<sent, early>>,
         NEW x, responses' = Append(responses, x), Due => Fits(sent, early, Turn, x)
  PROVE  AnswersRight'
<1>1. responses \in Seq(Response) /\ Len(responses) \in Nat
  BY StreamTyped, LenProperties
<1> DEFINE a == responses'
<1>2. /\ Len(a) = Len(responses) + 1
      /\ \A i \in 1 .. Len(responses) : a[i] = responses[i]
      /\ a[Len(responses) + 1] = x
  BY <1>1
<1>3. Right(sent, early, responses)
  BY RightIs
<1> HIDE DEF a
<1>4. ASSUME NEW i \in 1 .. Len(a), \A j \in 1 .. i - 1 : a[j].code = 200, i \notin early
      PROVE  Fits(sent, early, i, a[i])
  <2>1. CASE i \in 1 .. Len(responses)
    <3>1. \A j \in 1 .. i - 1 : j \in 1 .. Len(responses)
      BY <1>1, <2>1
    <3>2. \A j \in 1 .. i - 1 : responses[j].code = 200
      BY <1>2, <1>4, <3>1
    <3>3. Fits(sent, early, i, responses[i])
      BY <1>3, <1>4, <2>1, <3>2 DEF Right
    <3>4. QED
      BY <1>2, <2>1, <3>3
  <2>2. CASE i = Len(responses) + 1
    <3>1. \A j \in 1 .. Len(responses) : j \in 1 .. i - 1
      BY <1>1, <2>2
    <3>2. Ok
      BY <1>2, <1>4, <3>1 DEF Ok
    <3>3. Due /\ i = Turn
      BY <1>4, <2>2, <3>2 DEF Due, Turn
    <3>4. QED
      BY <1>2, <2>2, <3>3
  <2>3. QED
    BY <1>1, <1>2, <1>4, <2>1, <2>2
<1>5. Right(sent, early, a)
  BY <1>4 DEF Right
<1>6. sent' = sent /\ early' = early
  OBVIOUS
<1>7. Right(sent', early', responses')
  BY <1>5, <1>6 DEF a
<1>8. QED
  BY ONLY <1>7, RightIs

LEMMA AnswersSame ==
  ASSUME AnswersRight, UNCHANGED <<sent, early, responses>>
  PROVE  AnswersRight'
<1>1. Right(sent, early, responses) /\ sent' = sent /\ early' = early /\ responses' = responses
  BY RightIs
<1>2. Right(sent', early', responses')
  BY <1>1
<1>3. QED
  BY ONLY <1>2, RightIs

-----------------------------------------------------------------------------
(* Faults. *)

LEMMA Faulty ==
  ASSUME NEW calls, NEW fault \in May(calls), fault # "none"
  PROVE  Faults # {}
BY DEF May

\* Spooling breaks a file, or fails, by nothing but a fault.
LEMMA FlushFault ==
  ASSUME NEW c \in Connection, c.state # "ERROR", NEW f \in SpoolFile, NEW calls, NEW fault \in May(calls),
         Broken(f) => Faults # {}
  PROVE  /\ Broken(Flush(c, f, fault).f) => Faults # {}
         /\ Flush(c, f, fault).c.state = "ERROR" => Faults # {}
<1> DEFINE opened == IF f.opened THEN f
                     ELSE IF fault = "open" THEN [f EXCEPT !.opened = TRUE]
                     ELSE [f EXCEPT !.opened = TRUE, !.fd = "write", !.path = TRUE]
           moved == [opened EXCEPT !.content = @ \o c.body, !.written = @ + Len(c.body)]
<1>1. fault # "none" => Faults # {}
  BY Faulty
<1>2. opened \in SpoolFile /\ (opened.fd = "none" => Faults # {})
  <2>1. CASE f.opened
    BY <2>1 DEF Broken
  <2>2. CASE ~f.opened /\ fault = "open"
    <3>1. Faults # {}
      BY <1>1, <2>2
    <3>2. QED
      BY <2>2, <3>1 DEF SpoolFile
  <2>3. CASE ~f.opened /\ fault # "open"
    BY <2>3 DEF SpoolFile
  <2>4. QED
    BY <2>1, <2>2, <2>3
<1>3. LET z == Flush(c, f, fault)
      IN  \/ z = [c |-> c, f |-> f]
          \/ z = [c |-> Fails(c, 503), f |-> opened] /\ (opened.fd = "none" \/ fault = "write")
          \/ /\ z = [c |-> [c EXCEPT !.body = <<>>], f |-> moved]
             /\ ~(opened.fd = "none" \/ fault = "write")
  BY DEF Flush
<1> HIDE DEF opened
<1>4. moved.fd = opened.fd
  BY <1>2 DEF SpoolFile
<1>5. [c EXCEPT !.body = <<>>].state = c.state
  BY DEF Connection
<1> HIDE DEF moved
<1>6. CASE Flush(c, f, fault) = [c |-> c, f |-> f]
  BY <1>6
<1>7. CASE /\ Flush(c, f, fault) = [c |-> Fails(c, 503), f |-> opened]
           /\ opened.fd = "none" \/ fault = "write"
  <2>1. Faults # {}
    BY <1>1, <1>2, <1>7
  <2>2. QED
    BY <2>1
<1>8. CASE /\ Flush(c, f, fault) = [c |-> [c EXCEPT !.body = <<>>], f |-> moved]
           /\ ~(opened.fd = "none" \/ fault = "write")
  <2>1. Flush(c, f, fault).f = moved /\ Flush(c, f, fault).c = [c EXCEPT !.body = <<>>]
    BY <1>8
  <2>2. moved.fd # "none"
    BY <1>4, <1>8
  <2>3. QED
    BY <1>5, <2>1, <2>2 DEF Broken
<1>9. QED
  BY <1>3, <1>6, <1>7, <1>8

\* A request that is complete has nothing wrong with it.
LEMMA ReasonNone ==
  ASSUME NEW r \in Requests, NEW c \in Connection, NEW x, NEW t, At(c, x, r, t), c.state = "COMPLETE"
  PROVE  Reasons(r) = {} /\ c.written = Total(r) /\ c.target = r.target
<1>1. /\ Of(c, r) /\ Accepted(c, r) /\ AtEnd(c, x, r, t)
  BY DEF At, AtFields, AtLength, AtChunk
<1>2. /\ Reasons(r) \subseteq {413} /\ r.length <= ServerLimit /\ r.code = 200
      /\ c.written = Total(r) /\ c.written <= c.max /\ c.max = LimitOf(r.target) /\ c.target = r.target
  BY <1>1 DEF Of, Accepted, AtEnd
<1>3. ~(Total(r) > LimitOf(r.target) \/ r.length > ServerLimit)
  <2>1. Total(r) \in Nat /\ r.length \in Nat /\ LimitOf(r.target) \in Nat /\ ServerLimit \in Nat
    BY TotalIs, AskedBody, Sizes DEF LimitOf
  <2>2. QED
    BY <1>2, <2>1
<1>4. 413 \notin Reasons(r)
  BY <1>2, <1>3 DEF Reasons
<1>5. QED
  BY <1>2, <1>4

\* What is dispatched is answered with all of its body, or its file or the
\* pipe failed.
Served(r, y) ==
  \/ y.code = 200 /\ Reasons(r) = {} /\ y.body = Datas(Total(r))
  \/ y.code = 500 /\ r.target = "script" /\ Faults # {}

LEMMA DispatchRight ==
  ASSUME Roomy, NEW r \in Requests, NEW c \in Connection, NEW f \in SpoolFile, NEW x, NEW t,
         Ready(c, f, x, r, t), c.state = "COMPLETE", NEW calls, NEW fault \in May(calls),
         Broken(f) => Faults # {}, Dispatch(c, f, fault)
  PROVE  \E y : responses' = Append(responses, y) /\ Served(r, y)
<1>1. Reasons(r) = {} /\ c.written = Total(r) /\ c.target = r.target
  BY ReasonNone DEF Ready
<1>2. f.content \o c.body = Datas(Total(r)) /\ (IF Spools(c) THEN c.body = <<>> ELSE f.content = <<>>)
  BY <1>1 DEF Ready, Kept
<1>3. f.content \in Seq(Item) /\ c.body \in Seq(Item) /\ f.written \in Nat
  BY DEF SpoolFile, Connection
<1> DEFINE y200(body) == [code |-> 200, body |-> body, after |-> 0]
           y500 == [code |-> 500, body |-> <<>>, after |-> 0]
<1>4. CASE ~Spools(c)
  <2>1. Page(c)
    BY <1>4 DEF Dispatch
  <2>2. 1 + PageSize <= ServerLimit
    BY Sizes DEF Roomy
  <2>3. responses' = Append(responses, y200(c.body))
    BY <2>1, <2>2 DEF Page, Answer
  <2>4. c.body = Datas(Total(r))
    BY <1>2, <1>3, <1>4, ConcatEmptySeq
  <2>5. Served(r, y200(c.body))
    BY <1>1, <2>4 DEF Served
  <2>6. QED
    BY <2>3, <2>5
<1>5. CASE Spools(c)
  <2> DEFINE g == Finalize(f, fault)
  <2>1. r.target = "script"
    BY <1>1, <1>5 DEF Spools
  <2>2. g.content = Datas(Total(r))
    <3>1. g.content = f.content
      BY FinalizeIs
    <3>2. f.content = Datas(Total(r))
      BY <1>2, <1>3, <1>5, ConcatEmptySeq
    <3>3. QED
      BY <3>1, <3>2
  <2>3. fault # "none" => Faults # {}
    BY Faulty
  <2>4. f.written > 0 /\ g.fd = "none" => Faults # {}
    <3>1. SUFFICES ASSUME f.written > 0, g.fd = "none", f.fd # "none" PROVE fault = "reopen"
      BY <2>3 DEF Broken
    <3>2. QED
      BY <3>1 DEF Finalize, SpoolFile
  <2>5. \/ Answer(500, <<>>) /\ ((f.written > 0 /\ g.fd = "none") \/ fault = "pipe")
        \/ Answer(200, g.content)
    BY <1>5 DEF Dispatch
  <2> HIDE DEF g
  <2>6. CASE Answer(500, <<>>) /\ ((f.written > 0 /\ g.fd = "none") \/ fault = "pipe")
    <3>1. responses' = Append(responses, y500)
      BY <2>6 DEF Answer
    <3>2. Served(r, y500)
      BY <2>1, <2>3, <2>4, <2>6 DEF Served
    <3>3. QED
      BY <3>1, <3>2
  <2>7. CASE Answer(200, g.content)
    <3>1. responses' = Append(responses, y200(g.content))
      BY <2>7 DEF Answer
    <3>2. Served(r, y200(g.content))
      BY <1>1, <2>2 DEF Served
    <3>3. QED
      BY <3>1, <3>2
  <2>8. QED
    BY <2>5, <2>6, <2>7
<1>6. QED
  BY <1>4, <1>5

-----------------------------------------------------------------------------
(* How much may be in the read buffer when nothing can be done with it. *)

\* Of a line and its CR LF at most all but the LF.
LEMMA NoEnd ==
  ASSUME NEW b \in Seq(Item), NEW v \in Seq(Item), NEW y \in Seq(Item), NEW x \in Item, x # CR,
         Begins(b, v, <<x>>, y), CrlfIn(b) = 0
  PROVE  Len(b) <= 2
<1> DEFINE p == <<x>>
<1>1. p \in Seq(Item) /\ Len(p) = 1 /\ p[1] = x
  BY Tokens
<1>2. Begins(b, v, p, y) /\ Len(b) \in Nat
  BY LenProperties
<1> HIDE DEF p
<1>3. \A i \in 1 .. Len(p) : p[i] # CR
  BY <1>1
<1>4. EndsIn(b, v, p, y)
  BY ONLY b \in Seq(Item), v \in Seq(Item), y \in Seq(Item), <1>1, <1>2, <1>3, CrlfPrefix
<1>5. 1 + 1 = 2 /\ 1 + 2 = 3
  OBVIOUS
<1>6. Len(b) < 3
  BY ONLY <1>1, <1>4, <1>5, CrlfIn(b) = 0 DEF EndsIn
<1>7. QED
  BY ONLY <1>2, <1>6

\* Of an empty line at most the CR.
LEMMA NoEmptyLine ==
  ASSUME NEW b \in Seq(Item), NEW v \in Seq(Item), NEW y \in Seq(Item),
         Begins(b, v, <<>>, y), CrlfIn(b) = 0
  PROVE  Len(b) <= 2
<1> DEFINE p == <<>>
<1>1. p \in Seq(Item) /\ Len(p) = 0 /\ Len(b) \in Nat
  BY Tokens, LenProperties
<1>2. Begins(b, v, p, y)
  OBVIOUS
<1> HIDE DEF p
<1>3. \A i \in 1 .. Len(p) : p[i] # CR
  BY <1>1
<1>4. EndsIn(b, v, p, y)
  BY ONLY b \in Seq(Item), v \in Seq(Item), y \in Seq(Item), <1>1, <1>2, <1>3, CrlfPrefix
<1>5. 0 + 1 = 1 /\ 0 + 2 = 2
  OBVIOUS
<1>6. Len(b) < 2
  BY ONLY <1>1, <1>4, <1>5, CrlfIn(b) = 0 DEF EndsIn
<1>7. QED
  BY ONLY <1>1, <1>6

\* Among the header fields.
LEMMA FieldsShort ==
  ASSUME NEW c, NEW b \in Seq(Item), NEW v \in Seq(Item), NEW r \in Requests, NEW t \in Seq(Item),
         AtFields(c, b \o v, r, t), CrlfIn(b) = 0
  PROVE  Len(b) <= 2
<1> DEFINE n == Len(r.headers)
           z == Body(r) \o (End(r) \o t)
<1>1. PICK j \in 0 .. n : FieldsLeft(b, v, r, j, z)
  BY DEF AtFields, FieldsLeft, Begins
<1>2. n \in Nat /\ Len(Fields(r)) = n /\ Fields(r) \in Seq(Seq(Item)) /\ Body(r) \in Seq(Item)
  <2>1. /\ Fields(r) \in Seq(Seq(Plain)) /\ Body(r) \in Seq(Plain) /\ Plain \in SUBSET Item
        /\ n \in Nat /\ Len(Fields(r)) = n
    BY PiecesTyped, PlainIs
  <2>2. Fields(r) \in Seq(Seq(Item))
    BY ONLY <2>1, FlatPlain
  <2>3. Body(r) \in Seq(Item)
    BY ONLY <2>1, SeqMonotonic
  <2>4. QED
    BY <2>1, <2>2, <2>3
<1>3. z \in Seq(Item)
  <2>1. End(r) \o t \in Seq(Item)
    BY EndMore
  <2>2. QED
    BY <1>2, <2>1, Joined
<1> HIDE DEF z
<1>4. CASE j = n
  <2>1. FlattenSeq(From(Fields(r), n + 1)) = <<>>
    BY <1>2, FlatFrom
  <2>2. Begins(b, v, <<>>, z)
    BY <1>1, <1>4, <2>1 DEF FieldsLeft
  <2>3. QED
    BY ONLY b \in Seq(Item), v \in Seq(Item), <1>3, <2>2, CrlfIn(b) = 0, NoEmptyLine
<1>5. CASE j # n
  <2> DEFINE h == r.headers[j + 1]
             y == FlattenSeq(From(Fields(r), j + 2)) \o (Crlf \o z)
  <2>1. j \in 0 .. n - 1
    BY <1>1, <1>2, <1>5
  <2>2. h \in Item /\ h # CR /\ y \in Seq(Item) /\ Begins(b, v, <<h>>, y)
    BY <1>1, <1>3, <2>1, FieldAhead
  <2> HIDE DEF h, y
  <2>3. QED
    BY ONLY b \in Seq(Item), v \in Seq(Item), <2>2, CrlfIn(b) = 0, NoEnd
<1>6. QED
  BY <1>4, <1>5

\* In front of the size of a chunk.
LEMMA SizeShort ==
  ASSUME NEW c, NEW b \in Seq(Item), NEW v \in Seq(Item), NEW r \in Requests, NEW t \in Seq(Item),
         AtSize(c, b \o v, r, t), CrlfIn(b) = 0
  PROVE  Len(b) <= 2
<1>1. PICK k \in 0 .. Len(r.chunks) : b \o v = Onwards(r, k, t)
  BY DEF AtSize
<1> DEFINE n == Len(r.chunks)
<1>2. n \in Nat /\ r.chunks \in Seq(Nat)
  BY AskedBody, LenProperties
<1>3. \E i \in Nat, y \in Seq(Item) : b \o v = <<Size(i)>> \o (Crlf \o y)
  <2>1. CASE k = n
    <3> DEFINE o == End(r) \o t
               y == Crlf \o o
    <3>1. o \in Seq(Item) /\ b \o v = <<Size(0)>> \o (Crlf \o y)
      BY <1>1, <2>1, Onward
    <3> HIDE DEF o
    <3>2. y \in Seq(Item)
      BY <3>1, Tokens, Joined
    <3> HIDE DEF y
    <3>3. 0 \in Nat
      OBVIOUS
    <3>4. QED
      BY ONLY <3>1, <3>2, <3>3
  <2>2. CASE k # n
    <3> DEFINE d == Span(SumTo(r.chunks, k), SumTo(r.chunks, k + 1))
               o == Onwards(r, k + 1, t)
               z == Crlf \o o
               y == d \o z
               j == k + 1
    <3>1. /\ k \in 0 .. n - 1 /\ j \in 0 .. n /\ j \in 1 .. n /\ k \in 0 .. n /\ j - 1 = k
      BY <1>2, <2>2
    <3>2. o \in Seq(Item) /\ b \o v = <<Size(r.chunks[k + 1])>> \o (Crlf \o y)
      <4>1. Onwards(r, j, t) \in Seq(Item)
        BY ONLY r \in Requests, t \in Seq(Item), <3>1, Onward
      <4>2. Onwards(r, k, t) = <<Size(r.chunks[k + 1])>> \o (Crlf \o y)
        BY ONLY r \in Requests, t \in Seq(Item), <3>1, Onward
      <4>3. QED
        BY <1>1, <4>1, <4>2
    <3>3. d \in Seq(Item) /\ r.chunks[j] \in Nat
      <4>1. \A i \in 1 .. n :
              LET a == SumTo(r.chunks, i - 1) IN Span(a, SumTo(r.chunks, i)) \in Seq(Item) /\ r.chunks[i] \in Nat \ {0}
        BY ONLY r \in Requests, ChunkIs
      <4> HIDE DEF j
      <4>2. Span(SumTo(r.chunks, k), SumTo(r.chunks, j)) \in Seq(Item) /\ r.chunks[j] \in Nat
        BY ONLY <3>1, <4>1
      <4>3. QED
        BY ONLY <4>2 DEF d, j
    <3> HIDE DEF o, d
    <3>4. z \in Seq(Item)
      BY <3>2, Tokens, Joined
    <3> HIDE DEF z
    <3>5. y \in Seq(Item)
      BY <3>3, <3>4, Joined
    <3>6. QED
      BY <3>2, <3>3, <3>5
  <2>3. QED
    BY <2>1, <2>2
<1>4. PICK i \in Nat, y \in Seq(Item) : b \o v = <<Size(i)>> \o (Crlf \o y)
  BY <1>3
<1>5. Size(i) \in Item /\ Size(i) # CR
  BY ItemKinds, KindsOfItem
<1>6. Begins(b, v, <<Size(i)>>, y)
  BY <1>4 DEF Begins
<1>7. QED
  BY ONLY b \in Seq(Item), v \in Seq(Item), <1>4, <1>5, <1>6, CrlfIn(b) = 0, NoEnd

\* In a request.
LEMMA RequestShort ==
  ASSUME NEW c \in Connection, NEW v \in Seq(Item), NEW r \in Requests, NEW t \in Seq(Item),
         At(c, c.buffer \o v, r, t), Waits(c), c.state # "COMPLETE"
  PROVE  Len(c.buffer) <= 2
<1> DEFINE b == c.buffer
           x == b \o v
<1>1. b \in Seq(Item) /\ Len(b) \in Nat /\ (b = <<>> => Len(b) = 0)
  BY LenProperties, Tokens DEF Connection
<1>2. AtFields(c, x, r, t) \/ AtLength(c, x, r, t) \/ AtChunk(c, x, r, t)
  BY DEF At, AtEnd
<1>3. CASE AtFields(c, x, r, t)
  <2>1. CrlfIn(b) = 0
    BY <1>3 DEF AtFields, Waits
  <2>2. QED
    BY <1>1, <1>3, <2>1, FieldsShort
<1>4. CASE AtLength(c, x, r, t)
  <2>1. b = <<>>
    BY <1>4 DEF AtLength, Waits
  <2>2. QED
    BY <1>1, <2>1
<1>5. CASE AtChunk(c, x, r, t)
  <2>1. Stuck(c)
    BY <1>5 DEF AtChunk, Waits
  <2>2. \/ Len(b) < 2
        \/ b = <<>>
        \/ ~c.trailing /\ c.size = 0 /\ CrlfIn(b) = 0
    BY <2>1 DEF Stuck
  <2>3. CASE ~c.trailing /\ c.size = 0 /\ CrlfIn(b) = 0
    <3>1. AtSize(c, x, r, t)
      <4>1. AtSize(c, x, r, t) \/ AtData(c, x, r, t) \/ AtTrailing(c, x, r, t) \/ AtLast(c, x, r, t)
        BY <1>5 DEF AtChunk
      <4>2. ~AtData(c, x, r, t)
        BY <2>3 DEF AtData
      <4>3. ~AtTrailing(c, x, r, t) /\ ~AtLast(c, x, r, t)
        BY <2>3 DEF AtTrailing, AtLast
      <4>4. QED
        BY <4>1, <4>2, <4>3
    <3>2. QED
      BY <1>1, <2>3, <3>1, SizeShort
  <2>4. QED
    BY <1>1, <2>2, <2>3
<1>6. QED
  BY <1>2, <1>3, <1>4, <1>5

\* Behind a request that is the last one sent, an empty line.
LEMMA EndShort ==
  ASSUME NEW c \in Connection, NEW v \in Seq(Item), NEW r \in Requests,
         At(c, c.buffer \o v, r, <<>>), c.state = "COMPLETE"
  PROVE  Len(c.buffer) <= 2
<1> DEFINE b == c.buffer
           x == b \o v
           o == End(r) \o <<>>
<1>1. b \in Seq(Item) /\ <<>> \in Seq(Item)
  BY Tokens DEF Connection
<1>2. Len(x) = Len(b) + Len(v) /\ Len(b) \in Nat /\ Len(v) \in Nat
  BY <1>1, Joined
<1>3. x \in Ending(o)
  BY DEF At, AtFields, AtLength, AtChunk, AtEnd
<1>4. End(r) \in Seq(Item) /\ o = End(r)
  BY <1>1, EndMore, ConcatEmptySeq
<1>5. Len(End(r)) <= 2
  <2>1. End(r) = Crlf \/ End(r) = <<>>
    BY DEF End
  <2>2. Len(Crlf) = 2 /\ Len(<<>>) = 0
    BY Tokens
  <2>3. Len(End(r)) = 2 \/ Len(End(r)) = 0
    BY ONLY <2>1, <2>2, Zenon
  <2>4. 2 <= 2 /\ 0 <= 2
    OBVIOUS
  <2>5. QED
    BY ONLY <2>3, <2>4, Zenon
<1>6. Len(x) <= Len(End(r)) /\ Len(End(r)) \in Nat
  <2>1. x \in Ending(End(r))
    BY <1>3, <1>4
  <2> HIDE DEF x
  <2>2. QED
    BY <1>4, <2>1, EndingIs, LenProperties
<1> HIDE DEF x, b
<1>7. Len(b) <= 2
  BY ONLY <1>2, <1>5, <1>6
<1>8. QED
  BY <1>7 DEF b

\* In front of a request: an empty line and its line with the CR.
LEMMA LineShort ==
  ASSUME NEW c, Sane(c), c.state \in {"IDLE", "REQUEST_LINE"}, Waits(c),
         NEW v \in Seq(Item), NEW r \in Requests, NEW t \in Seq(Item),
         NEW n \in Nat, n <= 2, Begun(c.buffer \o v, n, r, t), ~Odd(c.buffer \o v, n)
  PROVE  Len(c.buffer) <= 4
<1>1. c \in Connection /\ Limited(c) /\ c.buffer \in Seq(Item) /\ Len(c.buffer) \in Nat
  BY LenProperties DEF Sane, Connection
<1>2. CASE c.state = "IDLE"
  <2>1. c.buffer = <<>>
    BY <1>2 DEF Waits
  <2>2. QED
    BY <2>1, Tokens
<1>3. CASE c.state = "REQUEST_LINE"
  <2>1. Lined(c) = c
    BY <1>1, <1>3 DEF Lined, Connection
  <2>2. ParseRequestLine(c) = c
    BY <1>3 DEF Waits
  <2>3. ApplyLimit(c) = c
    BY <1>1, ApplyLimitSane
  <2>4. ApplyLimit(ParseRequestLine(Lined(c))) = c
    BY <2>1, <2>2, <2>3
  <2>5. \/ Len(c.buffer) < n + 3
        \/ c.state = "ERROR"
        \/ c \in Follows(v, <<>>, r, t)
    BY <2>4, LineStep
  <2>6. c \notin Follows(v, <<>>, r, t)
    BY <1>3, FollowsIs
  <2>7. Len(c.buffer) < n + 3
    BY <1>3, <2>5, <2>6
  <2>8. QED
    BY <1>1, <2>7
<1>4. QED
  BY <1>2, <1>3

\* The request whose turn it is is the last one, unless the next has been begun early.
LEMMA LastOne ==
  ASSUME TypeOK, EarlyInv, Due, Turn + 1 \notin early, Turn \in 1 .. Len(sent)
  PROVE  WiresOf(sent, Turn + 1) = <<>>
<1>1. sent \in Seq(Requests) /\ Len(sent) \in Nat /\ Turn \in Nat /\ Ok
  BY StreamTyped
<1>2. Turn + 1 \notin 1 .. Len(sent)
  <2>1. Turn + 1 \in 1 .. Len(sent) => Turn < Turn + 1
    BY <1>1
  <2>2. QED
    BY <1>1, <2>1 DEF EarlyInv
<1>3. Turn = Len(sent)
  BY <1>1, <1>2
<1>4. WiresOf(sent, Len(sent) + 1) = <<>>
  BY ONLY <1>1, WiresIs
<1>5. QED
  BY <1>3, <1>4

\* There is room for a read, unless a request has been begun early behind one
\* that cannot be spooled.
LEMMA Room ==
  ASSUME TypeOK, StreamInv, EarlyInv, SpoolRoom, FaultInv, Roomy, Reading, Due
  PROVE  \/ Len(conn.buffer) + RecvSize <= conn.limit
         \/ Turn \in 1 .. Len(sent) /\ Excused(sent, early, Turn, 413)
<1> DEFINE m == Len(conn.buffer)
           x == conn.buffer \o Coming
<1>1. /\ sent \in Seq(Requests) /\ Len(sent) \in Nat /\ Turn \in Nat /\ Coming \in Seq(Item)
      /\ conn \in Connection /\ Sane(conn) /\ conn.buffer \in Seq(Item) /\ m \in Nat
      /\ conn.limit \in Nat /\ RecvSize \in Nat /\ ServerLimit \in Nat
  BY StreamTyped, LenProperties, Sizes DEF Connection
<1>2. Parsed(conn, file, x, sent, Turn, Ok, Due) /\ x = Left
  BY DEF StreamInv, Left
<1>3. Waits(conn)
  BY <1>2 DEF Parsed
<1>4. \A target : RecvSize + 2 <= LimitOf(target) /\ LimitOf(target) \in Nat
  BY LimitRoom
<1>5. \A r \in {sent[i] : i \in 1 .. Len(sent)} : r \in Requests
  BY <1>1, ElementOfSeq
<1>6. <<>> \in Seq(Item) /\ \A k \in 1 .. Len(sent) + 1 : WiresOf(sent, k) \in Seq(Item)
  BY ONLY <1>1, WiresIs, Tokens
<1> HIDE DEF x
<1>7. CASE Between(conn, file, x, sent, Turn, Ok, Due)
  <2>1. conn.state \in {"IDLE", "REQUEST_LINE"} /\ Lying(x, sent, Turn, Ok, Due)
    BY <1>7 DEF Between
  <2>2. conn.limit = ServerLimit
    <3>1. Fresh(conn)
      BY <1>1, <2>1 DEF Sane
    <3>2. QED
      BY ONLY <1>1, <3>1, FreshIs
  <2>3. PICK n \in Nat : Trail(x, sent, Turn, n) /\ n <= 2 /\ ~Odd(x, n) /\ Turn \in 1 .. Len(sent) + 1
    BY <2>1 DEF Lying
  <2>4. m <= 4
    <3>1. x \in Seq(Item) /\ Len(x) = m + Len(Coming) /\ Len(Coming) \in Nat
      BY <1>1, Joined DEF x
    <3>2. CASE Turn = Len(sent) + 1
      <4>1. n = Len(x)
        BY ONLY <1>1, <2>3, <3>1, <3>2, TrailIs
      <4>2. QED
        BY ONLY <1>1, <2>3, <3>1, <4>1
    <3>3. CASE Turn \in 1 .. Len(sent)
      <4>1. Begun(x, n, sent[Turn], WiresOf(sent, Turn + 1)) /\ WiresOf(sent, Turn + 1) \in Seq(Item)
        BY ONLY <1>1, <2>3, <3>1, <3>3, TrailIs
      <4>2. sent[Turn] \in Requests
        BY <1>1, <3>3, ElementOfSeq
      <4>3. Begun(conn.buffer \o Coming, n, sent[Turn], WiresOf(sent, Turn + 1)) /\ ~Odd(conn.buffer \o Coming, n)
        BY <2>3, <4>1 DEF x
      <4>4. QED
        BY <1>1, <1>3, <2>1, <2>3, <4>1, <4>2, <4>3, LineShort
    <3>4. QED
      BY <1>1, <2>3, <3>2, <3>3
  <2>5. RecvSize + 4 <= ServerLimit
    BY DEF Roomy
  <2>6. QED
    BY ONLY <1>1, <2>2, <2>4, <2>5
<1>8. CASE Within(conn, file, x, sent, Turn, Ok, Due)
  <2> DEFINE r == sent[Turn]
             t == WiresOf(sent, Turn + 1)
  <2>1. Turn \in 1 .. Len(sent) /\ InRequest(conn, file, x, r, t)
    BY <1>8 DEF Within
  <2>2. At(conn, conn.buffer \o Coming, r, t) /\ (conn.state = "COMPLETE" => NeverSpooled(r))
    BY <2>1 DEF InRequest, x
  <2>3. r \in Requests /\ t \in Seq(Item)
    <3>1. Turn + 1 \in 1 .. Len(sent) + 1
      BY <1>1, <2>1
    <3>2. QED
      BY <1>1, <1>6, <2>1, <3>1, ElementOfSeq
  <2>4. conn.limit = LimitOf(r.target)
    BY <2>2 DEF At, Of
  <2>5. CASE conn.state = "COMPLETE" /\ Turn + 1 \in early
    BY <2>1, <2>2, <2>5 DEF Excused
  <2>6. CASE conn.state = "COMPLETE" /\ Turn + 1 \notin early
    <3>1. t = <<>>
      BY <2>1, <2>6, LastOne
    <3>2. At(conn, conn.buffer \o Coming, r, <<>>)
      BY <2>2, <3>1
    <3>3. m <= 2
      BY <1>1, <2>3, <2>6, <3>2, EndShort
    <3>4. QED
      BY ONLY <1>1, <1>4, <2>4, <3>3
  <2>7. CASE conn.state # "COMPLETE"
    <3>1. m <= 2
      BY <1>1, <1>3, <2>2, <2>3, <2>7, RequestShort
    <3>2. QED
      BY ONLY <1>1, <1>4, <2>4, <3>1
  <2>8. QED
    BY <2>5, <2>6, <2>7
<1>9. CASE Unspooled(conn, sent, Turn, Due)
  <2>1. conn.state = "ERROR" /\ conn.code = 503 /\ Turn \in 1 .. Len(sent) /\ sent[Turn].target = "script"
    BY <1>9 DEF Unspooled
  <2>2. Faults # {}
    BY <2>1 DEF FaultInv
  <2>3. CASE Turn + 1 \in early
    BY <2>1, <2>2, <2>3 DEF Excused
  <2>4. CASE Turn + 1 \notin early
    <3>1. m <= 2 /\ conn.limit = LimitOf(conn.target)
      BY <2>1, <2>4 DEF SpoolRoom, SpoolFailed
    <3>2. QED
      BY ONLY <1>1, <1>4, <3>1
  <2>5. QED
    BY <2>3, <2>4
<1>10. QED
  BY <1>2, <1>7, <1>8, <1>9 DEF Parsed

-----------------------------------------------------------------------------
(* The steps, with the answers. *)

\* Without reading there is nothing to know but the answers.
LEMMA RightAway ==
  ASSUME AnswersRight', phase' \notin {"WAITING", "HANDLING"}
  PROVE  RightInv'
BY DEF RightInv, SpoolRoom, FaultInv, Reading

\* A step that leaves the request alone.
LEMMA RightKept ==
  ASSUME RightInv, UNCHANGED <<sent, early, conn, file, responses>>, Reading' => Reading
  PROVE  RightInv'
<1>1. AnswersRight'
  BY AnswersSame DEF RightInv
<1>2. SpoolRoom'
  BY DEF RightInv, SpoolRoom, SpoolFailed, Due, Ok, Turn
<1>3. FaultInv'
  BY DEF RightInv, FaultInv
<1>4. QED
  BY <1>1, <1>2, <1>3 DEF RightInv

\* The request that is due is answered with an error.
LEMMA RightError ==
  ASSUME TypeOK, AnswersRight, UNCHANGED <<sent, early>>, NEW code, code # 200, Answer(code, <<>>),
         Due => /\ Turn \in 1 .. Len(sent)
                /\ code \in Reasons(sent[Turn]) \/ Excused(sent, early, Turn, code)
  PROVE  RightInv'
<1> DEFINE y == [code |-> code, body |-> <<>>, after |-> 0]
<1>1. responses' = Append(responses, y) /\ phase' = "WRITING"
  BY DEF Answer
<1>2. y.code = code
  OBVIOUS
<1>3. Turn \in Nat /\ Len(sent) \in Nat
  BY StreamTyped
<1> HIDE DEF y
<1>4. Due => Fits(sent, early, Turn, y)
  <2>1. Due => ~(Turn > Len(sent))
    BY <1>3
  <2>2. QED
    BY <1>2, <2>1 DEF Fits
<1>5. AnswersRight'
  BY <1>1, <1>4, AnswersMore
<1>6. QED
  BY <1>1, <1>5, RightAway

\* The end of a round in the k-th request.
LEMMA RoundRight ==
  ASSUME TypeOK, AnswersRight, Roomy, NEW k \in 1 .. Len(sent), Place(k), UNCHANGED <<sent, early>>,
         NEW c \in Connection, c.state # "ERROR", NEW f \in SpoolFile, Broken(f) => Faults # {},
         NEW calls, NEW fault \in May(calls), NEW next, NEW x, NEW t, Ready(c, f, x, sent[k], t),
         DispatchOr(c, f, fault, next)
  PROVE  RightInv'
<1>1. /\ sent \in Seq(Requests) /\ Len(sent) \in Nat /\ Turn \in Nat /\ responses \in Seq(Response)
      /\ sent[k] \in Requests
  BY StreamTyped, ElementOfSeq
<1>2. CASE c.state = "COMPLETE" /\ FullySpooled(c, f)
  <2>1. Dispatch(c, f, fault)
    BY <1>2 DEF DispatchOr
  <2>2. PICK y : responses' = Append(responses, y) /\ Served(sent[k], y)
    BY <1>1, <1>2, <2>1, DispatchRight
  <2>3. Due => Fits(sent, early, Turn, y)
    <3>1. SUFFICES ASSUME Due PROVE Fits(sent, early, Turn, y)
      OBVIOUS
    <3>2. Turn = k /\ ~(Turn > Len(sent))
      BY <1>1, <3>1 DEF Place
    <3>3. Served(sent[Turn], y)
      BY <2>2, <3>2
    <3>4. CASE y.code = 200 /\ Reasons(sent[Turn]) = {} /\ y.body = Datas(Total(sent[Turn]))
      BY <3>2, <3>4 DEF Fits
    <3>5. CASE y.code = 500 /\ sent[Turn].target = "script" /\ Faults # {}
      <4>1. Excused(sent, early, Turn, y.code) /\ y.code # 200
        BY <3>5 DEF Excused
      <4>2. QED
        BY <3>2, <4>1 DEF Fits
    <3>6. QED
      BY <3>3, <3>4, <3>5 DEF Served
  <2>4. AnswersRight'
    BY <2>2, <2>3, AnswersMore
  <2>5. phase' \in {"DIED", "WRITING"}
    BY <1>1, <2>1, DispatchAnswers
  <2>6. QED
    BY <2>4, <2>5, RightAway
<1>3. CASE ~(c.state = "COMPLETE" /\ FullySpooled(c, f))
  <2>1. conn' = c /\ file' = f /\ responses' = responses
    BY <1>3 DEF DispatchOr
  <2>2. AnswersRight'
    BY <2>1, AnswersSame
  <2>3. SpoolRoom' /\ FaultInv'
    BY <2>1 DEF SpoolRoom, SpoolFailed, FaultInv, Broken
  <2>4. QED
    BY <2>2, <2>3 DEF RightInv
<1>4. QED
  BY <1>2, <1>3

\* A failure to spool.
LEMMA UnableRight ==
  ASSUME TypeOK, EarlyInv, AnswersRight, NEW k \in 1 .. Len(sent), Place(k), UNCHANGED <<sent, early>>,
         NEW c, Sane(c), Waits(c), c.state # "ERROR", Broken(file) => Faults # {},
         NEW calls, NEW fault \in May(calls), NEW next, NEW v \in Seq(Item),
         At(c, c.buffer \o v, sent[k], WiresOf(sent, k + 1)), Unable(c, fault, next)
  PROVE  RightInv'
<1> DEFINE r == sent[k]
           t == WiresOf(sent, k + 1)
<1>1. /\ sent \in Seq(Requests) /\ Len(sent) \in Nat /\ Turn \in Nat /\ file \in SpoolFile
      /\ r \in Requests /\ c \in Connection
  BY StreamTyped, ElementOfSeq DEF Sane
<1>2. /\ Flush(c, file, fault).c.state = "ERROR" /\ conn'.buffer = c.buffer
      /\ conn'.target = c.target /\ conn'.limit = c.limit /\ responses' = responses
  BY DEF Unable
<1>3. Faults # {}
  BY <1>1, <1>2, FlushFault
<1>4. AnswersRight'
  BY <1>2, AnswersSame
<1>5. Turn' = Turn /\ Ok' = Ok /\ Due' = Due
  BY <1>2 DEF Turn, Ok, Due
<1>6. c.limit = LimitOf(c.target)
  BY DEF At, Of
<1>7. ASSUME Due, Turn + 1 \notin early PROVE Len(c.buffer) <= 2
  <2>1. k = Turn
    BY <1>7 DEF Place
  <2>2. t = <<>>
    BY <1>7, <2>1, LastOne
  <2>3. At(c, c.buffer \o v, r, <<>>) /\ <<>> \in Seq(Item)
    BY <2>2, Tokens
  <2> HIDE DEF r, t
  <2>4. CASE c.state = "COMPLETE"
    BY <1>1, <2>3, <2>4, EndShort
  <2>5. CASE c.state # "COMPLETE"
    BY <1>1, <2>3, <2>5, RequestShort
  <2>6. QED
    BY <2>4, <2>5
<1>8. SpoolRoom'
  BY <1>2, <1>5, <1>6, <1>7 DEF SpoolRoom
<1>9. QED
  BY <1>3, <1>4, <1>8 DEF RightInv, FaultInv

LEMMA RightRead ==
  ASSUME IntakeInv, RightInv, Roomy, NEW calls, NEW fault \in May(calls), Read(fault)
  PROVE  RightInv'
<1> DEFINE e == Fed
           flush == Flush(e, file, fault)
           spools == Spools(e) /\ e.state \in {"BODY", "COMPLETE"}
           full == FullOf(conn, socket)
<1>1. TypeOK /\ StreamInv /\ EarlyInv /\ AnswersRight /\ SpoolRoom /\ FaultInv
  BY DEF IntakeInv, ControlInv, RightInv
<1>2. /\ phase = "HANDLING" /\ UNCHANGED <<sent, early>> /\ Coming' \in Seq(Item)
      /\ Sane(e) /\ Waits(e) /\ e.state # "IDLE"
      /\ \/ e.state = "ERROR" /\ e.code # 200 /\ (Due => Earned(conn.state, e.code, sent, Turn))
         \/ Between(e, file, Left, sent, Turn, Ok, Due)
         \/ \E k \in 1 .. Len(sent) :
              Place(k) /\ Came(e, file, e.buffer \o Coming', sent[k], WiresOf(sent, k + 1))
  BY <1>1, ReadFed
<1>3. /\ socket # <<>>
      /\ \/ Len(full.buffer) > conn.limit /\ Answer(413, <<>>)
         \/ phase' = "HUNG" /\ responses' = responses
         \/ e.state = "ERROR" /\ Answer(e.code, <<>>)
         \/ e.state # "ERROR" /\ spools /\ DispatchOr(flush.c, flush.f, fault, "HANDLING")
         \/ e.state # "ERROR" /\ ~spools /\ DispatchOr(e, file, fault, "HANDLING")
  BY <1>1, ReadIs DEF Fed
<1>4. Reading /\ (Broken(file) => Faults # {})
  BY <1>1, <1>2 DEF Reading, FaultInv
<1>5. /\ sent \in Seq(Requests) /\ file \in SpoolFile /\ socket \in Seq(Item) /\ conn \in Connection
      /\ conn.buffer \in Seq(Item) /\ conn.limit \in Nat /\ RecvSize \in Nat /\ Len(conn.buffer) \in Nat
  BY <1>1, <1>4, StreamTyped, LenProperties, Sizes DEF Connection
<1>6. Len(full.buffer) <= Len(conn.buffer) + RecvSize /\ Len(full.buffer) \in Nat
  <2> DEFINE n == Least(RecvSize, Len(socket))
             p == SubSeq(socket, 1, n)
  <2>1. p \in Seq(Item) /\ n \in 1 .. Len(socket) /\ n <= RecvSize /\ Len(p) = n
    BY <1>3, <1>5, PieceIs
  <2>2. full.buffer = conn.buffer \o p
    BY <1>5 DEF FullOf, Filled, Connection
  <2> HIDE DEF p, full, n
  <2>3. Len(full.buffer) = Len(conn.buffer) + n /\ n \in Nat
    BY <1>5, <2>1, <2>2, Joined
  <2>4. QED
    BY ONLY <1>5, <2>1, <2>3
<1> HIDE DEF e, full
<1>7. CASE Len(full.buffer) > conn.limit /\ Answer(413, <<>>)
  <2>1. Due => Turn \in 1 .. Len(sent) /\ Excused(sent, early, Turn, 413)
    <3>1. SUFFICES ASSUME Due PROVE Turn \in 1 .. Len(sent) /\ Excused(sent, early, Turn, 413)
      OBVIOUS
    <3>2. ~(Len(conn.buffer) + RecvSize <= conn.limit)
      BY ONLY <1>5, <1>6, <1>7
    <3>3. QED
      BY <1>1, <1>4, <3>1, <3>2, Room
  <2>2. 413 # 200
    OBVIOUS
  <2>3. QED
    BY <1>1, <1>2, <1>7, <2>1, <2>2, RightError
<1>8. CASE phase' = "HUNG" /\ responses' = responses
  <2>1. AnswersRight'
    BY <1>1, <1>2, <1>8, AnswersSame
  <2>2. QED
    BY <1>8, <2>1, RightAway
<1>9. CASE e.state = "ERROR" /\ Answer(e.code, <<>>)
  <2>1. e.code # 200 /\ (Due => Earned(conn.state, e.code, sent, Turn))
    <3>1. ~Between(e, file, Left, sent, Turn, Ok, Due)
      BY <1>9 DEF Between
    <3>2. \A k \in 1 .. Len(sent) : ~Came(e, file, e.buffer \o Coming', sent[k], WiresOf(sent, k + 1))
      BY <1>9 DEF Came, At, AtFields, AtLength, AtChunk, AtEnd
    <3>3. QED
      BY <1>2, <3>1, <3>2
  <2>2. Due => /\ Turn \in 1 .. Len(sent)
               /\ e.code \in Reasons(sent[Turn]) \/ Excused(sent, early, Turn, e.code)
    BY <1>1, <1>4, <2>1 DEF Earned, Excused, FaultInv
  <2>3. QED
    BY <1>1, <1>2, <1>9, <2>1, <2>2, RightError
<1>10. CASE /\ e.state # "ERROR"
            /\ \/ spools /\ DispatchOr(flush.c, flush.f, fault, "HANDLING")
               \/ ~spools /\ DispatchOr(e, file, fault, "HANDLING")
  <2>1. CASE Between(e, file, Left, sent, Turn, Ok, Due)
    <3>1. e.state = "REQUEST_LINE"
      BY <1>2, <2>1 DEF Between
    <3>2. DispatchOr(e, file, fault, "HANDLING")
      BY <1>10, <3>1
    <3>3. conn' = e /\ file' = file /\ phase' = "HANDLING" /\ responses' = responses
      BY <3>1, <3>2 DEF DispatchOr
    <3>4. AnswersRight'
      BY <1>1, <1>2, <3>3, AnswersSame
    <3>5. SpoolRoom' /\ FaultInv'
      BY <1>4, <3>1, <3>3 DEF SpoolRoom, SpoolFailed, FaultInv, Broken
    <3>6. QED
      BY <3>4, <3>5 DEF RightInv
  <2>2. CASE \E k \in 1 .. Len(sent) :
               Place(k) /\ Came(e, file, e.buffer \o Coming', sent[k], WiresOf(sent, k + 1))
    <3>1. PICK k \in 1 .. Len(sent) :
               Place(k) /\ Came(e, file, e.buffer \o Coming', sent[k], WiresOf(sent, k + 1))
      BY <2>2
    <3> DEFINE z == e.buffer \o Coming'
               t == WiresOf(sent, k + 1)
    <3>2. Came(e, file, z, sent[k], t)
      BY <3>1
    <3>3. At(e, z, sent[k], t)
      BY <3>2 DEF Came
    <3>4. Flushing(e, z, sent[k], t, fault, "HANDLING")
      <4>1. \/ spools /\ DispatchOr(flush.c, flush.f, fault, "HANDLING")
            \/ ~spools /\ DispatchOr(e, file, fault, "HANDLING")
        BY <1>10
      <4>2. "HANDLING" \in {"WAITING", "HANDLING"}
        OBVIOUS
      <4> HIDE DEF z
      <4>3. QED
        BY <1>1, <1>2, <1>10, <3>1, <3>2, <4>1, <4>2, Flushed
    <3>5. CASE Unable(e, fault, "HANDLING")
      BY <1>1, <1>2, <1>4, <1>10, <3>1, <3>3, <3>5, UnableRight
    <3>6. CASE \E d \in Connection, g \in SpoolFile :
                 /\ g \in {file, Flush(e, file, fault).f}
                 /\ Ready(d, g, z, sent[k], t) /\ Waits(d) /\ d.buffer = e.buffer /\ d.state = e.state
                 /\ DispatchOr(d, g, fault, "HANDLING")
      <4> HIDE DEF z, t, flush
      <4>1. PICK d \in Connection, g \in SpoolFile :
                 /\ g \in {file, Flush(e, file, fault).f}
                 /\ Ready(d, g, z, sent[k], t) /\ d.state = e.state
                 /\ DispatchOr(d, g, fault, "HANDLING")
        BY <3>6
      <4>2. Broken(g) => Faults # {}
        <5>1. Broken(Flush(e, file, fault).f) => Faults # {}
          BY <1>2, <1>4, <1>5, <1>10, FlushFault DEF Sane
        <5>2. QED
          BY <1>4, <4>1, <5>1
      <4>3. d.state # "ERROR"
        BY <1>10, <4>1
      <4>4. QED
        BY <1>1, <1>2, <3>1, <4>1, <4>2, <4>3, RoundRight
    <3>7. QED
      BY <3>4, <3>5, <3>6 DEF Flushing
  <2>3. QED
    BY <1>2, <1>10, <2>1, <2>2
<1>11. QED
  BY <1>3, <1>7, <1>8, <1>9, <1>10

LEMMA RightReadNothing ==
  ASSUME IntakeInv, RightInv, Roomy, NEW calls, NEW fault \in May(calls), ReadNothing(fault)
  PROVE  RightInv'
<1> DEFINE flush == Flush(conn, file, fault)
           x == Left
<1>1. TypeOK /\ StreamInv /\ EarlyInv /\ AnswersRight /\ SpoolRoom /\ FaultInv
  BY DEF IntakeInv, ControlInv, RightInv
<1>2. /\ phase = "HANDLING" /\ socket = <<>> /\ UNCHANGED <<sent, early, toSend, socket, event>>
      /\ Spools(conn) => DispatchOr(flush.c, flush.f, fault, "WAITING")
      /\ ~Spools(conn) => DispatchOr(conn, file, fault, "WAITING")
  BY DEF ReadNothing
<1>3. Reading /\ Parsed(conn, file, x, sent, Turn, Ok, Due) /\ UNCHANGED <<sent, early>>
  BY <1>1, <1>2 DEF StreamInv, Reading
<1>4. conn \in Connection /\ Sane(conn) /\ file \in SpoolFile /\ (Broken(file) => Faults # {})
  BY <1>1, <1>3, StreamTyped DEF FaultInv
<1>5. CASE Between(conn, file, x, sent, Turn, Ok, Due)
  <2>1. conn.state \in {"IDLE", "REQUEST_LINE"}
    BY <1>5 DEF Between
  <2>2. conn.target = ""
    <3>1. Fresh(conn)
      BY <1>4, <2>1 DEF Sane
    <3>2. QED
      BY <1>4, <3>1, FreshFields, Zenon
  <2>3. DispatchOr(conn, file, fault, "WAITING")
    BY <1>2, <2>2, Zenon DEF Spools
  <2>4. conn' = conn /\ file' = file /\ responses' = responses
    BY <2>1, <2>3 DEF DispatchOr
  <2>5. QED
    BY <1>3, <2>4, RightKept
<1>6. CASE Within(conn, file, x, sent, Turn, Ok, Due)
  <2>1. PICK k \in 1 .. Len(sent) :
          /\ Ok => Turn <= k
          /\ Due => k = Turn
          /\ InRequest(conn, file, x, sent[k], WiresOf(sent, k + 1))
    BY <1>6 DEF Within
  <2>2. Ready(conn, file, x, sent[k], WiresOf(sent, k + 1)) /\ Place(k)
    BY <2>1 DEF Ready, Place, InRequest
  <2>3. DispatchOr(conn, file, fault, "WAITING")
    <3>1. CASE Spools(conn)
      <4>1. conn.body = <<>>
        BY <2>2, <3>1 DEF Ready
      <4>2. flush.c = conn /\ flush.f = file
        BY <4>1 DEF Flush
      <4>3. QED
        BY <1>2, <3>1, <4>2
    <3>2. CASE ~Spools(conn)
      BY <1>2, <3>2
    <3>3. QED
      BY <3>1, <3>2
  <2>4. conn.state # "ERROR"
    BY <2>1 DEF InRequest, At, AtFields, AtLength, AtChunk, AtEnd
  <2> HIDE DEF x
  <2>5. QED
    BY <1>1, <1>3, <1>4, <2>2, <2>3, <2>4, RoundRight
<1>7. CASE Unspooled(conn, sent, Turn, Due)
  <2>1. conn.state = "ERROR" /\ conn.code = 503
    BY <1>7 DEF Unspooled
  <2>2. Faults # {}
    BY <1>1, <1>3, <2>1 DEF FaultInv
  <2>3. PICK d, g : /\ DispatchOr(d, g, fault, "WAITING") /\ d.state = "ERROR"
                    /\ d.buffer = conn.buffer /\ d.target = conn.target /\ d.limit = conn.limit
    <3>1. CASE ~Spools(conn)
      BY <1>2, <2>1, <3>1
    <3>2. CASE Spools(conn)
      <4>1. \/ flush.c = conn
            \/ flush.c = Fails(conn, 503)
            \/ flush.c = [conn EXCEPT !.body = <<>>]
        BY DEF Flush
      <4>2. LET d == flush.c
            IN  d.state = "ERROR" /\ d.buffer = conn.buffer /\ d.target = conn.target /\ d.limit = conn.limit
        <5>1. LET d == Fails(conn, 503)
              IN  d.state = "ERROR" /\ d.buffer = conn.buffer /\ d.target = conn.target /\ d.limit = conn.limit
          BY ONLY <1>4 DEF Fails, Connection
        <5>2. LET d == [conn EXCEPT !.body = <<>>]
              IN  d.state = conn.state /\ d.buffer = conn.buffer /\ d.target = conn.target /\ d.limit = conn.limit
          BY ONLY <1>4 DEF Connection
        <5> DEFINE d == flush.c
        <5> HIDE DEF d
        <5>3. CASE d = conn
          BY ONLY <2>1, <5>3 DEF d
        <5>4. CASE d = Fails(conn, 503)
          BY ONLY <5>1, <5>4 DEF d
        <5>5. CASE d = [conn EXCEPT !.body = <<>>]
          BY ONLY <2>1, <5>2, <5>5 DEF d
        <5>6. QED
          BY <4>1, <5>3, <5>4, <5>5 DEF d
      <4>3. QED
        BY <1>2, <3>2, <4>2
    <3>3. QED
      BY <3>1, <3>2
  <2>4. conn' = d /\ responses' = responses
    BY <2>3 DEF DispatchOr
  <2>5. AnswersRight'
    BY <1>1, <1>3, <2>4, AnswersSame
  <2>6. Turn' = Turn /\ Due' = Due
    BY <1>3, <2>4 DEF Turn, Ok, Due
  <2>7. SpoolRoom'
    BY <1>1, <1>3, <2>1, <2>3, <2>4, <2>6 DEF SpoolRoom, SpoolFailed
  <2>8. QED
    BY <2>2, <2>5, <2>7 DEF RightInv, FaultInv
<1>8. QED
  BY <1>3, <1>5, <1>6, <1>7 DEF Parsed

LEMMA RightAsk ==
  ASSUME IntakeInv, RightInv, NEW r \in Requests, Ask(r)
  PROVE  RightInv'
<1> DEFINE a == responses
<1>1. TypeOK /\ AnswersRight /\ SpoolRoom /\ FaultInv
  BY DEF IntakeInv, ControlInv, RightInv
<1>2. /\ \A i \in 1 .. Len(a) : a[i].code = 200
      /\ sent' = Append(sent, r) /\ early \subseteq early'
      /\ UNCHANGED <<conn, file, phase, responses>>
  BY DEF Ask
<1>3. /\ sent \in Seq(Requests) /\ Len(sent) \in Nat /\ Right(sent, early, a)
      /\ Len(a) \in Nat
  BY <1>1, StreamTyped, RightIs, LenProperties
<1>4. Len(sent') = Len(sent) + 1 /\ \A i \in 1 .. Len(sent) : sent'[i] = sent[i]
  BY <1>2, <1>3
<1>5. ASSUME NEW i \in 1 .. Len(a), \A j \in 1 .. i - 1 : a[j].code = 200, i \notin early'
      PROVE  Fits(sent', early', i, a[i])
  <2>1. Fits(sent, early, i, a[i])
    BY <1>2, <1>3, <1>5 DEF Right
  <2>2. a[i].code = 200
    BY <1>2
  <2>3. i \in 1 .. Len(sent) /\ Reasons(sent[i]) = {} /\ a[i].body = Datas(Total(sent[i]))
    <3>1. ~(i > Len(sent))
      BY <2>1, <2>2 DEF Fits
    <3>2. i \in 1 .. Len(sent)
      BY <1>3, <3>1
    <3>3. QED
      BY <2>1, <2>2, <3>1, <3>2 DEF Fits
  <2>4. sent'[i] = sent[i] /\ ~(i > Len(sent'))
    BY <1>3, <1>4, <2>3
  <2>5. QED
    BY <2>2, <2>3, <2>4 DEF Fits
<1>6. Right(sent', early', responses')
  BY <1>2, <1>5 DEF Right
<1>7. AnswersRight'
  BY ONLY <1>6, RightIs
<1>8. Turn' = Turn /\ (Due' => Due) /\ (Turn + 1 \notin early' => Turn + 1 \notin early)
  BY <1>2 DEF Turn, Ok, Due
<1>9. SpoolRoom' /\ FaultInv'
  BY <1>1, <1>2, <1>8 DEF SpoolRoom, SpoolFailed, FaultInv, Reading, Broken
<1>10. QED
  BY <1>7, <1>9 DEF RightInv

LEMMA RightAnswered ==
  ASSUME RightInv, ResponseWritten
  PROVE  RightInv'
<1>1. /\ UNCHANGED <<sent, early, responses>>
      /\ \/ phase' = "WAITING" /\ conn' = Blank /\ file' = NoFile
         \/ phase' = "CLOSED"
  BY DEF ResponseWritten
<1>2. AnswersRight'
  BY <1>1, AnswersSame DEF RightInv
<1>3. CASE phase' = "WAITING" /\ conn' = Blank /\ file' = NoFile
  <2>1. conn'.state # "ERROR"
    BY <1>3, BlankIs, Zenon
  <2>2. ~Broken(file')
    BY <1>3 DEF NoFile, Broken
  <2>3. QED
    BY <1>2, <2>1, <2>2 DEF RightInv, SpoolRoom, SpoolFailed, FaultInv, Broken
<1>4. CASE phase' = "CLOSED"
  BY <1>2, <1>4, RightAway
<1>5. QED
  BY <1>1, <1>3, <1>4

LEMMA RightLeave ==
  ASSUME IntakeInv, RightInv, NEW code \in {0, 408}, Leave(code)
  PROVE  RightInv'
<1> DEFINE y == [code |-> 408, body |-> <<>>, after |-> 0]
<1>1. /\ phase' = "CLOSED" /\ UNCHANGED <<sent, early>> /\ MayLeave
      /\ responses' = Append(responses, y) \/ responses' = responses
  BY DEF Leave
<1>2. TypeOK /\ AnswersRight
  BY DEF IntakeInv, ControlInv, RightInv
<1>3. Fits(sent, early, Turn, y)
  BY <1>1 DEF Fits, Excused
<1> HIDE DEF y
<1>4. AnswersRight'
  BY <1>1, <1>2, <1>3, AnswersSame, AnswersMore
<1>5. QED
  BY <1>1, <1>4, RightAway

LEMMA RightInit ==
  ASSUME Init
  PROVE  RightInv
<1>1. conn = Blank /\ file = NoFile /\ responses = <<>>
  BY DEF Init
<1>2. AnswersRight
  BY <1>1 DEF AnswersRight
<1>3. conn.state # "ERROR"
  BY <1>1, BlankIs, Zenon
<1>4. ~Broken(file)
  BY <1>1 DEF NoFile, Broken
<1>5. QED
  BY <1>2, <1>3, <1>4 DEF RightInv, SpoolRoom, SpoolFailed, FaultInv

LEMMA RightStep ==
  ASSUME Roomy, IntakeInv, RightInv, [Next]_vars
  PROVE  RightInv'
<1>1. CASE UNCHANGED vars
  <2>1. UNCHANGED <<sent, early, conn, file, phase, responses>>
    BY <1>1 DEF vars
  <2>2. QED
    BY <2>1, RightKept DEF Reading
<1>2. ASSUME NEW r \in Requests, Ask(r) PROVE RightInv'
  BY <1>2, RightAsk
<1>3. ASSUME NEW n \in 1 .. Len(toSend), Send(n) PROVE RightInv'
  <2>1. UNCHANGED <<sent, early, conn, file, phase, responses>>
    BY <1>3 DEF Send
  <2>2. QED
    BY <2>1, RightKept DEF Reading
<1>4. CASE DispatchRead
  <2>1. UNCHANGED <<sent, early, conn, file, responses>> /\ phase = "WAITING"
    BY <1>4 DEF DispatchRead
  <2>2. QED
    BY <2>1, RightKept DEF Reading
<1>5. ASSUME NEW fault \in May({"open", "write", "reopen", "pipe"}), Read(fault) PROVE RightInv'
  BY <1>5, RightRead
<1>6. ASSUME NEW fault \in May({"open", "write", "reopen", "pipe"}), ReadNothing(fault) PROVE RightInv'
  BY <1>6, RightReadNothing
<1>7. CASE ResponseWritten
  BY <1>7, RightAnswered
<1>8. ASSUME NEW code \in {0, 408}, Leave(code) PROVE RightInv'
  BY <1>8, RightLeave
<1>9. CASE Rest
  BY <1>1, <1>9 DEF Rest
<1>10. QED
  BY <1>1, <1>2, <1>3, <1>4, <1>5, <1>6, <1>7, <1>8, <1>9 DEF Next

\* Every answer is to the request whose turn it is, with its whole body, in
\* order, or with an error that request has earned, however recv() cut the
\* bytes and whatever of the next request came with them: under Roomy, which is
\* about the constants alone, a request that is not refused overflows no
\* buffer.
THEOREM AnsweredRight ==
  ASSUME Roomy
  PROVE  Spec => []AnswersRight
<1>1. Init => IntakeInv /\ RightInv
  BY ControlInit, StreamInit, RightInit DEF IntakeInv
<1>2. IntakeInv /\ RightInv /\ [Next]_vars => (IntakeInv /\ RightInv)'
  BY IntakeStep, RightStep
<1>3. IntakeInv /\ RightInv => AnswersRight
  BY DEF RightInv
<1>4. QED
  BY <1>1, <1>2, <1>3, PTL DEF Spec

=============================================================================
