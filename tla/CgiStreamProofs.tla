-------------------------- MODULE CgiStreamProofs --------------------------
(***************************************************************************)
(* CgiStream for any sizes: no byte of a CGI response is lost, the client  *)
(* gets well-formed chunks, a connection is kept only after a whole        *)
(* response, and the write buffer is bounded.                              *)
(***************************************************************************)
EXTENDS CgiStream, SequenceTheorems, WellFoundedInduction, TLAPS

-----------------------------------------------------------------------------
(* Natural numbers. *)

\* Every non-empty set of natural numbers has a least element.
LEMMA LeastNat ==
  ASSUME NEW T \in SUBSET Nat, T # {}
  PROVE  \E n \in T : \A m \in T : n <= m
<1> DEFINE less == OpToRel(<, Nat)
<1>1. \A m, n \in Nat : m < n => <<m, n>> \in less
  BY DEF OpToRel
<1>2. IsWellFoundedOn(less, Nat)
  BY NatLessThanWellFounded
<1> HIDE DEF less
<1>3. PICK n \in T : \A m \in T : <<m, n>> \notin less
  BY <1>2, WFMin
<1>4. \A m \in T : n \in Nat /\ m \in Nat /\ ~(m < n)
  BY <1>1, <1>3
<1>5. \A m \in T : n <= m
  BY <1>4
<1>6. QED
  BY <1>5

\* Induction over the natural numbers, for a set of those that it holds of.
LEMMA NatSet ==
  ASSUME NEW S, 0 \in S, \A n \in Nat : n \in S => n + 1 \in S
  PROVE  \A n \in Nat : n \in S
<1>1. SUFFICES ASSUME Nat \ S # {} PROVE FALSE
  OBVIOUS
<1>2. PICK n \in Nat \ S : \A m \in Nat \ S : n <= m
  BY <1>1, LeastNat
<1>3. n # 0 /\ n - 1 \in Nat
  BY <1>2
<1>4. n - 1 \in S
  BY <1>2, <1>3
<1>5. QED
  BY <1>2, <1>3, <1>4

-----------------------------------------------------------------------------
(* The invariant. *)

\* A chunk and the end of the response fit over the high-water mark, and an
\* error behind them.
Roomy == HighWater + ReadSize + 2 < Limit

Start == [at |-> "start", left |-> 0]
Body == [at |-> "body", left |-> 0]
Done == [at |-> "done", left |-> 0]

AllOf(items, kind) == \A i \in DOMAIN items : items[i].kind = kind

\* What the script writes: parts of its header block, the gap, and data.
Parted(items) ==
  \E g \in DOMAIN items : /\ items[g] = Mark("gap")
                          /\ \A i \in 1 .. g - 1 : items[i].kind = "part"
                          /\ \A i \in g + 1 .. Len(items) : items[i].kind = "data"
Output(items) == IF script.gap THEN Parted(items) ELSE AllOf(items, "part")

\* The stages of relay r with p handed to the kernel and q in the pipe.  The
\* header block is not complete:
Collecting(p, r, q) ==
  /\ r.job = "runs" /\ ~r.headersSent /\ r.client = "CGI_RUNNING"
  /\ p = <<>> /\ r.out = <<>> /\ AllOf(r.header, "part")
  /\ Output(q) /\ Carries(q, 1, script.data)

\* Whole chunks go out; c is the last item that did:
Streaming(p, r, q) ==
  /\ r.job = "runs" /\ r.headersSent /\ r.client = "WRITING"
  /\ r.header = <<>> /\ script.gap /\ AllOf(q, "data")
  /\ Parsed(p \o r.out) = Body
  /\ \E c \in 0 .. script.data : Carries(p \o r.out, 1, c) /\ Carries(q, c + 1, script.data)
  /\ Len(r.out) <= HighWater + ReadSize + 1

\* All of it has gone out:
Finished(p, r) ==
  /\ r.job = "finished" /\ r.headersSent
  /\ Carries(p \o r.out, 1, script.data)
  /\ Parsed(p \o r.out) = IF request.head THEN Body ELSE Done

\* The client knows that there is no more, by an error or by the last chunk
\* and the end of the connection:
Failed(p, r) ==
  /\ r.job = "failed"
  /\ r.headersSent => r.close /\ r.client = "WRITING"
  /\ ~r.headersSent \/ Roomy => Parsed(p \o r.out) = Done

Stage(p, r, q) ==
  \/ Collecting(p, r, q)
  \/ Streaming(p, r, q)
  \/ /\ Finished(p, r) \/ Failed(p, r)
     /\ r.client = "WRITING" \/ (r.client = "READING" /\ r.out = <<>>)

IInv ==
  /\ TypeOK
  /\ OutBounded
  /\ ~relay.thrown
  /\ Roomy => relay.client # "CRASHED"
  /\ relay.client = "CLOSED" => relay.job # "runs"
  /\ relay.client \notin {"CLOSED", "CRASHED"} => Stage(received \o socket, relay, pipe)

-----------------------------------------------------------------------------
(* The client's parser. *)

\* The states of the parser after each of the first n items.
Parses(items, n, after) ==
  after = [i \in 0 .. n |-> IF i = 0 THEN Start ELSE Accept(items[i], after[i - 1])]

\* There are such states, whatever the items.
LEMMA ParsesExists ==
  ASSUME NEW items, NEW n \in Nat
  PROVE  \E after : Parses(items, n, after)
<1> DEFINE S == {m \in Nat : \E after : Parses(items, m, after)}
<1>1. 0 \in S
  <2>1. Parses(items, 0, [i \in 0 .. 0 |-> Start])
    BY DEF Parses
  <2>2. QED
    BY <2>1
<1>2. ASSUME NEW m \in Nat, m \in S
      PROVE  m + 1 \in S
  <2>1. PICK f : Parses(items, m, f)
    BY <1>2
  <2> DEFINE g == [i \in 0 .. m + 1 |-> IF i <= m THEN f[i] ELSE Accept(items[m + 1], f[m])]
             h == [i \in 0 .. m + 1 |-> IF i = 0 THEN Start ELSE Accept(items[i], g[i - 1])]
  <2>2. \A i \in 0 .. m : f[i] = IF i = 0 THEN Start ELSE Accept(items[i], f[i - 1])
    BY <2>1 DEF Parses
  <2>3. \A i \in 0 .. m + 1 : g[i] = h[i]
    <3>1. TAKE i \in 0 .. m + 1
    <3>2. CASE i = m + 1
      BY <3>2
    <3>3. CASE i \in 1 .. m
      BY <3>3, <2>2
    <3>4. CASE i = 0
      BY <3>4, <2>2
    <3>5. QED
      BY <3>2, <3>3, <3>4
  <2>4. g = h
    BY <2>3
  <2>5. Parses(items, m + 1, g)
    BY <2>4 DEF Parses
  <2>6. QED
    BY <2>5
<1> HIDE DEF S
<1>3. n \in S
  BY <1>1, <1>2, NatSet
<1>4. QED
  BY <1>3 DEF S

\* Two such sequences of states are the same, as far as both go.
LEMMA ParsesAgree ==
  ASSUME NEW s, NEW t, NEW m \in Nat, NEW n \in Nat, NEW f, NEW g,
         Parses(s, m, f), Parses(t, n, g), m <= n, \A i \in 1 .. m : s[i] = t[i]
  PROVE  f[m] = g[m]
<1> DEFINE S == {k \in Nat : k <= m => f[k] = g[k]}
<1>1. /\ \A i \in 0 .. m : f[i] = IF i = 0 THEN Start ELSE Accept(s[i], f[i - 1])
      /\ \A i \in 0 .. n : g[i] = IF i = 0 THEN Start ELSE Accept(t[i], g[i - 1])
  BY DEF Parses
<1>2. 0 \in S
  BY <1>1
<1>3. ASSUME NEW k \in Nat, k \in S
      PROVE  k + 1 \in S
  <2>1. SUFFICES ASSUME k + 1 <= m PROVE f[k + 1] = g[k + 1]
    OBVIOUS
  <2>2. f[k] = g[k] /\ k + 1 \in 1 .. m /\ k + 1 \in 1 .. n
    BY <1>3, <2>1
  <2>3. f[k + 1] = Accept(s[k + 1], f[k]) /\ g[k + 1] = Accept(t[k + 1], g[k])
    BY <1>1, <2>2
  <2>4. QED
    BY <2>2, <2>3
<1> HIDE DEF S
<1>4. m \in S
  BY <1>2, <1>3, NatSet
<1>5. QED
  BY <1>4 DEF S

LEMMA ParsedIs ==
  ASSUME NEW items \in Seq(Item)
  PROVE  \E after : Parses(items, Len(items), after) /\ Parsed(items) = after[Len(items)]
<1>1. \E after : Parses(items, Len(items), after)
  BY ParsesExists
<1>2. QED
  BY <1>1 DEF Parses, Parsed, Start

\* Nothing has been parsed of nothing, and an item changes what was parsed
\* before it as Accept says.
LEMMA ParsedNothing == Parsed(<<>>) = Start
<1>1. <<>> \in Seq(Item) /\ Len(<<>>) = 0
  OBVIOUS
<1>2. PICK f : Parses(<<>>, 0, f) /\ Parsed(<<>>) = f[0]
  BY <1>1, ParsedIs
<1>3. QED
  BY <1>2 DEF Parses

LEMMA ParsedAppend ==
  ASSUME NEW items \in Seq(Item), NEW x \in Item
  PROVE  Parsed(Append(items, x)) = Accept(x, Parsed(items))
<1> DEFINE n == Len(items)
           t == Append(items, x)
<1>1. n \in Nat /\ t \in Seq(Item) /\ Len(t) = n + 1 /\ t[n + 1] = x /\ \A i \in 1 .. n : t[i] = items[i]
  BY AppendProperties
<1> HIDE DEF t
<1>2. PICK f : Parses(items, n, f) /\ Parsed(items) = f[n]
  BY ParsedIs
<1>3. PICK g : Parses(t, n + 1, g) /\ Parsed(t) = g[n + 1]
  BY <1>1, ParsedIs
<1> HIDE DEF n
<1>4. f[n] = g[n]
  BY <1>1, <1>2, <1>3, ParsesAgree
<1>5. g[n + 1] = Accept(t[n + 1], g[n])
  BY <1>1, <1>3 DEF Parses
<1>6. QED
  BY <1>1, <1>2, <1>3, <1>4, <1>5 DEF t

LEMMA Together ==
  ASSUME NEW s \in Seq(Item), NEW t \in Seq(Item), NEW u \in Seq(Item)
  PROVE  s \o (t \o u) = (s \o t) \o u
BY ConcatAssociative

LEMMA ConcatAppend ==
  ASSUME NEW s \in Seq(Item), NEW t \in Seq(Item), NEW x \in Item
  PROVE  s \o Append(t, x) = Append(s \o t, x)
<1>1. <<x>> \in Seq(Item) /\ s \o t \in Seq(Item)
  BY ConcatProperties
<1>2. Append(t, x) = t \o <<x>> /\ Append(s \o t, x) = (s \o t) \o <<x>>
  BY <1>1, AppendIsConcat
<1>3. QED
  BY <1>1, <1>2, Together

\* The data of a chunk, as much as its size has announced.
LEMMA ParsedData ==
  ASSUME NEW s \in Seq(Item), NEW t \in Seq(Item), AllOf(t, "data"),
         Parsed(s) = [at |-> "data", left |-> Len(t)]
  PROVE  Parsed(s \o t) = [at |-> "data", left |-> 0]
<1> DEFINE S == {k \in Nat : k <= Len(t) =>
                   Parsed(s \o SubSeq(t, 1, k)) = [at |-> "data", left |-> Len(t) - k]}
<1>1. 0 \in S
  <2>1. SubSeq(t, 1, 0) = <<>> /\ s \o <<>> = s
    BY SubSeqEmpty, ConcatEmptySeq
  <2>2. Len(t) - 0 = Len(t)
    BY LenProperties
  <2>3. Parsed(s \o SubSeq(t, 1, 0)) = [at |-> "data", left |-> Len(t) - 0]
    BY <2>1, <2>2
  <2>4. QED
    BY <2>3
<1>2. ASSUME NEW k \in Nat, k \in S
      PROVE  k + 1 \in S
  <2>1. SUFFICES ASSUME k + 1 <= Len(t)
                 PROVE  Parsed(s \o SubSeq(t, 1, k + 1)) = [at |-> "data", left |-> Len(t) - (k + 1)]
    OBVIOUS
  <2> DEFINE u == SubSeq(t, 1, k)
             x == t[k + 1]
  <2>2. Len(t) \in Nat /\ k + 1 \in 1 .. Len(t) /\ x \in Item /\ x.kind = "data"
    BY <2>1, LenProperties DEF AllOf
  <2>3. u \in Seq(Item) /\ s \o u \in Seq(Item)
    BY <2>2, SubSeqProperties, ConcatProperties
  <2>4. SubSeq(t, 1, k + 1) = u \o <<x>>
    BY <2>2, SubSeqRecursiveSecond
  <2>5. SubSeq(t, 1, k + 1) = Append(u, x)
    BY <2>2, <2>3, <2>4, AppendIsConcat
  <2>6. Parsed(s \o u) = [at |-> "data", left |-> Len(t) - k]
    BY <1>2, <2>2
  <2> HIDE DEF u, x
  <2>7. Parsed(s \o SubSeq(t, 1, k + 1)) = Accept(x, Parsed(s \o u))
    <3> DEFINE w == s \o u
    <3>1. s \o Append(u, x) = Append(w, x)
      BY <2>2, <2>3, ConcatAppend
    <3>2. w \in Seq(Item)
      BY <2>3
    <3> HIDE DEF w
    <3>3. Parsed(Append(w, x)) = Accept(x, Parsed(w))
      BY ONLY <2>2, <3>2, ParsedAppend
    <3>4. QED
      BY ONLY <2>5, <3>1, <3>3 DEF w
  <2>8. Len(t) - k \in Nat /\ Len(t) - k > 0 /\ (Len(t) - k) - 1 = Len(t) - (k + 1)
    BY <2>2
  <2>9. QED
    BY <2>2, <2>6, <2>7, <2>8 DEF Accept
<1> HIDE DEF S
<1>3. Len(t) \in S /\ SubSeq(t, 1, Len(t)) = t /\ Len(t) - Len(t) = 0
  BY <1>1, <1>2, NatSet, LenProperties, SubSeqFull
<1>4. Parsed(s \o SubSeq(t, 1, Len(t))) = [at |-> "data", left |-> Len(t) - Len(t)]
  BY <1>3, LenProperties DEF S
<1>5. QED
  BY <1>3, <1>4

\* A chunk as writeChunk writes it.
Chunk(items) == <<[kind |-> "size", n |-> Len(items)]>> \o items \o <<Mark("end")>>

LEMMA MarkTyped ==
  ASSUME NEW kind \in {"part", "gap", "data", "head", "size", "end", "last", "error"}
  PROVE  Mark(kind) \in Item /\ Mark(kind).kind = kind
BY DEF Mark, Item

LEMMA ChunkIs ==
  ASSUME NEW s \in Seq(Item), NEW t \in Seq(Item)
  PROVE  /\ [kind |-> "size", n |-> Len(t)] \in Item
         /\ Chunk(t) \in Seq(Item) /\ Len(Chunk(t)) = Len(t) + 2
         /\ s \o Chunk(t) \in Seq(Item) /\ Len(s \o Chunk(t)) = Len(s) + Len(t) + 2
         /\ s \o Chunk(t) = Append(Append(s, [kind |-> "size", n |-> Len(t)]) \o t, Mark("end"))
<1> DEFINE x == [kind |-> "size", n |-> Len(t)]
<1>1. x \in Item /\ Mark("end") \in Item /\ Len(t) \in Nat
  BY LenProperties, MarkTyped DEF Item
<1> HIDE DEF x
<1>2. <<x>> \in Seq(Item) /\ <<Mark("end")>> \in Seq(Item) /\ Len(<<x>>) = 1 /\ Len(<<Mark("end")>>) = 1
  BY <1>1
<1>3. <<x>> \o t \in Seq(Item) /\ Len(<<x>> \o t) = Len(t) + 1
  BY <1>1, <1>2, ConcatProperties
<1>4. Chunk(t) = (<<x>> \o t) \o <<Mark("end")>>
  BY DEF Chunk, x
<1>5. Chunk(t) \in Seq(Item) /\ Len(Chunk(t)) = Len(t) + 2
  BY <1>1, <1>2, <1>3, <1>4, ConcatProperties
<1>6. s \o Chunk(t) = (s \o (<<x>> \o t)) \o <<Mark("end")>>
  BY <1>2, <1>3, <1>4, Together
<1>7. s \o (<<x>> \o t) = (s \o <<x>>) \o t
  BY <1>2, Together
<1>8. s \o <<x>> = Append(s, x) /\ Append(s, x) \in Seq(Item)
  BY <1>1, AppendIsConcat, AppendProperties
<1>9. Append(s, x) \o t \in Seq(Item)
  BY <1>8, ConcatProperties
<1>10. (Append(s, x) \o t) \o <<Mark("end")>> = Append(Append(s, x) \o t, Mark("end"))
  BY <1>1, <1>9, AppendIsConcat
<1> DEFINE c == Chunk(t)
<1> HIDE DEF c
<1>11. s \o c \in Seq(Item) /\ Len(s \o c) = Len(s) + Len(c)
  BY <1>5, ConcatProperties DEF c
<1>12. s \o Chunk(t) \in Seq(Item) /\ Len(s \o Chunk(t)) = Len(s) + Len(t) + 2
  <2>1. Len(s) \in Nat /\ Len(c) = Len(t) + 2
    BY <1>5, LenProperties DEF c
  <2>2. Len(s \o c) = Len(s) + Len(t) + 2
    BY ONLY <1>1, <1>11, <2>1
  <2>3. QED
    BY ONLY <1>11, <2>2 DEF c
<1>13. QED
  BY <1>1, <1>5, <1>6, <1>7, <1>8, <1>10, <1>12 DEF x

LEMMA ParsedChunk ==
  ASSUME NEW s \in Seq(Item), NEW t \in Seq(Item), AllOf(t, "data"), Parsed(s) = Body
  PROVE  Parsed(s \o Chunk(t)) = Body
<1> DEFINE x == [kind |-> "size", n |-> Len(t)]
           u == Append(s, x)
<1>1. x \in Item /\ u \in Seq(Item) /\ s \o Chunk(t) = Append(u \o t, Mark("end"))
  BY ChunkIs, AppendProperties
<1>2. Parsed(u) = [at |-> "data", left |-> Len(t)]
  BY <1>1, ParsedAppend DEF Accept, Body
<1> HIDE DEF u, x
<1>3. Parsed(u \o t) = [at |-> "data", left |-> 0] /\ u \o t \in Seq(Item)
  BY <1>1, <1>2, ParsedData, ConcatProperties
<1>4. Parsed(s \o Chunk(t)) = Accept(Mark("end"), Parsed(u \o t))
  BY <1>1, <1>3, MarkTyped, ParsedAppend
<1>5. QED
  BY <1>3, <1>4, MarkTyped DEF Accept, Body

-----------------------------------------------------------------------------
(* Where the data is. *)

\* Items that are no data carry none.
LEMMA CarriesNone ==
  ASSUME NEW s \in Seq(Item), \A i \in DOMAIN s : s[i].kind # "data", NEW k \in Nat
  PROVE  Carries(s, k + 1, k)
BY DEF Carries

\* What is carried where there is no data.
LEMMA CarriesNothing ==
  ASSUME NEW s \in Seq(Item), \A i \in DOMAIN s : s[i].kind # "data",
         NEW a \in Nat, NEW b \in Nat, Carries(s, a, b)
  PROVE  b < a
<1>1. a .. b = {}
  BY DEF Carries
<1>2. QED
  BY <1>1

\* Two pieces, one after the other.
LEMMA CarriesJoin ==
  ASSUME NEW s \in Seq(Item), NEW t \in Seq(Item),
         NEW a \in Nat, NEW m \in Nat, NEW b \in Nat, a <= m + 1, m <= b,
         Carries(s, a, m), Carries(t, m + 1, b)
  PROVE  Carries(s \o t, a, b)
<1> DEFINE u == s \o t
           S == {i \in DOMAIN s : s[i].kind = "data"}
           T == {i \in DOMAIN t : t[i].kind = "data"}
           U == {i \in DOMAIN u : u[i].kind = "data"}
<1>1. /\ Len(s) \in Nat /\ Len(t) \in Nat /\ DOMAIN s = 1 .. Len(s) /\ DOMAIN t = 1 .. Len(t)
      /\ DOMAIN u = 1 .. Len(s) + Len(t)
      /\ \A i \in 1 .. Len(s) + Len(t) : u[i] = IF i <= Len(s) THEN s[i] ELSE t[i - Len(s)]
  BY ConcatProperties, LenProperties
<1>2. /\ {s[i].n : i \in S} = a .. m /\ \A i, j \in S : i < j => s[i].n < s[j].n
      /\ {t[i].n : i \in T} = m + 1 .. b /\ \A i, j \in T : i < j => t[i].n < t[j].n
  BY DEF Carries
<1> HIDE DEF u
<1>3. \A i \in 1 .. Len(s) : u[i] = s[i] /\ (i \in U <=> i \in S)
  BY <1>1
<1>4. \A i \in 1 .. Len(t) : u[Len(s) + i] = t[i] /\ (Len(s) + i \in U <=> i \in T)
  BY <1>1
<1>5. \A i \in U : i \in S \/ (i - Len(s) \in T /\ u[i] = t[i - Len(s)])
  BY <1>1
<1> HIDE DEF S, T
<1>6. S \subseteq 1 .. Len(s) /\ T \subseteq 1 .. Len(t) /\ U \subseteq 1 .. Len(s) + Len(t)
  BY <1>1 DEF S, T
<1> HIDE DEF U
<1>7. {u[i].n : i \in U} = a .. b
  <2>1. ASSUME NEW i \in U PROVE u[i].n \in a .. b
    <3>1. CASE i \in S
      <4>1. u[i].n \in a .. m
        BY <3>1, <1>2, <1>3, <1>6
      <4>2. QED
        BY <4>1
    <3>2. CASE i - Len(s) \in T /\ u[i] = t[i - Len(s)]
      <4>1. u[i].n \in m + 1 .. b
        BY <3>2, <1>2
      <4>2. QED
        BY <4>1
    <3>3. QED
      BY <3>1, <3>2, <1>5
  <2>2. ASSUME NEW x \in a .. b PROVE \E i \in U : u[i].n = x
    <3>1. CASE x <= m
      <4>1. x \in a .. m
        BY <3>1
      <4>2. PICK i \in S : s[i].n = x
        BY <4>1, <1>2
      <4>3. QED
        BY <4>2, <1>3, <1>6
    <3>2. CASE x > m
      <4>1. x \in m + 1 .. b
        BY <3>2
      <4>2. PICK i \in T : t[i].n = x
        BY <4>1, <1>2
      <4>3. QED
        BY <4>2, <1>4, <1>6
    <3>3. QED
      BY <3>1, <3>2
  <2>3. QED
    BY <2>1, <2>2
<1>8. ASSUME NEW i \in U, NEW j \in U, i < j PROVE u[i].n < u[j].n
  <2>1. CASE j \in S
    <3>1. i \in 1 .. Len(s) /\ i \in S /\ u[i] = s[i] /\ u[j] = s[j]
      BY <2>1, <1>1, <1>3, <1>6, <1>8
    <3>2. QED
      BY <2>1, <3>1, <1>2, <1>8
  <2>2. CASE i \in S /\ j - Len(s) \in T /\ u[j] = t[j - Len(s)]
    <3>1. u[i] = s[i]
      BY <2>2, <1>3, <1>6
    <3>2. u[i].n \in a .. m /\ u[j].n \in m + 1 .. b
      BY <2>2, <3>1, <1>2
    <3>3. QED
      BY <3>2
  <2>3. CASE i - Len(s) \in T /\ u[i] = t[i - Len(s)] /\ j - Len(s) \in T /\ u[j] = t[j - Len(s)]
    <3>1. i - Len(s) < j - Len(s)
      BY <1>1, <1>6, <1>8
    <3>2. QED
      BY <3>1, <2>3, <1>2
  <2>4. QED
    BY <2>1, <2>2, <2>3, <1>5
<1>9. QED
  BY <1>7, <1>8 DEF Carries, U, u

\* What is behind the first k items.
LEMMA TailItems ==
  ASSUME NEW s \in Seq(Item), NEW k \in 0 .. Len(s)
  PROVE  LET q == SubSeq(s, k + 1, Len(s))
         IN  q \in Seq(Item) /\ Len(q) = Len(s) - k /\ \A i \in 1 .. Len(s) - k : q[i] = s[k + i]
<1> DEFINE q == SubSeq(s, k + 1, Len(s))
<1>1. Len(s) \in Nat /\ k \in Nat /\ \A i \in k + 1 .. Len(s) : s[i] \in Item
  BY LenProperties, ElementOfSeq
<1>2. /\ q \in Seq(Item)
      /\ Len(q) = IF k + 1 <= Len(s) THEN Len(s) - (k + 1) + 1 ELSE 0
      /\ \A i \in 1 .. Len(s) - (k + 1) + 1 : q[i] = s[(k + 1) + i - 1]
  BY <1>1, SubSeqProperties
<1> HIDE DEF q
<1>3. Len(q) = Len(s) - k
  BY <1>1, <1>2
<1>4. \A i \in 1 .. Len(s) - k : q[i] = s[k + i]
  <2>1. TAKE i \in 1 .. Len(s) - k
  <2>2. i \in 1 .. Len(s) - (k + 1) + 1 /\ (k + 1) + i - 1 = k + i
    BY <1>1
  <2>3. QED
    BY <2>2, <1>2
<1>5. QED
  BY <1>2, <1>3, <1>4 DEF q

\* A piece cut in two.
LEMMA CarriesSplit ==
  ASSUME NEW s \in Seq(Item), NEW k \in 0 .. Len(s),
         NEW a \in Nat \ {0}, NEW b \in Nat, a <= b + 1, Carries(s, a, b)
  PROVE  \E m \in a - 1 .. b : /\ Carries(SubSeq(s, 1, k), a, m)
                               /\ Carries(SubSeq(s, k + 1, Len(s)), m + 1, b)
<1> DEFINE p == SubSeq(s, 1, k)
           q == SubSeq(s, k + 1, Len(s))
           S == {i \in DOMAIN s : s[i].kind = "data"}
           P == {i \in DOMAIN p : p[i].kind = "data"}
           Q == {i \in DOMAIN q : q[i].kind = "data"}
           T == {x \in a .. b + 1 : \A i \in P : p[i].n # x}
<1>1. Len(s) \in Nat /\ DOMAIN s = 1 .. Len(s)
  BY LenProperties
<1>2. /\ p \in Seq(Item) /\ Len(p) = k /\ DOMAIN p = 1 .. k /\ \A i \in 1 .. k : p[i] = s[i]
      /\ q \in Seq(Item) /\ Len(q) = Len(s) - k /\ DOMAIN q = 1 .. Len(s) - k
      /\ \A i \in 1 .. Len(s) - k : q[i] = s[k + i]
  <2>1. /\ \A i \in 1 .. k : s[i] \in Item
        /\ \A i \in k + 1 .. Len(s) : s[i] \in Item
    BY <1>1, ElementOfSeq
  <2>2. /\ p \in Seq(Item) /\ Len(p) = k /\ \A i \in 1 .. k : p[i] = s[i]
    BY <1>1, <2>1, SubSeqProperties
  <2>3. q \in Seq(Item) /\ Len(q) = Len(s) - k /\ \A i \in 1 .. Len(s) - k : q[i] = s[k + i]
    BY TailItems
  <2>4. QED
    BY <1>1, <2>2, <2>3, LenProperties
<1>3. {s[i].n : i \in S} = a .. b /\ \A i, j \in S : i < j => s[i].n < s[j].n
  BY DEF Carries
<1> HIDE DEF p, q
<1>4. P = {i \in S : i <= k} /\ P \subseteq 1 .. k
  BY <1>1, <1>2
<1>5. \A i \in Q : k + i \in S /\ q[i] = s[k + i] /\ i \in 1 .. Len(s) - k
  BY <1>1, <1>2
<1>6. \A i \in S : i > k => i - k \in Q /\ q[i - k] = s[i]
  <2>1. SUFFICES ASSUME NEW i \in S, i > k PROVE i - k \in Q /\ q[i - k] = s[i]
    OBVIOUS
  <2>2. i - k \in 1 .. Len(s) - k /\ k + (i - k) = i
    BY <1>1, <2>1
  <2>3. q[i - k] = s[i]
    BY <1>2, <2>2
  <2>4. QED
    BY <1>2, <2>2, <2>3
<1>7. S \subseteq 1 .. Len(s) /\ Q \subseteq 1 .. Len(s) - k
  BY <1>1, <1>2
<1>8. \A i \in P : p[i] = s[i] /\ i \in S /\ i <= k
  BY <1>2, <1>4
<1> HIDE DEF S, P, Q
<1>9. b + 1 \in T
  <2>1. \A i \in P : p[i].n \in a .. b
    BY <1>3, <1>8
  <2>2. QED
    BY <2>1
<1>10. T \in SUBSET Nat /\ T # {}
  <2>1. a .. b + 1 \subseteq Nat
    OBVIOUS
  <2>2. QED
    BY <1>9, <2>1
<1>11. PICK x \in T : \A y \in T : x <= y
  BY <1>10, LeastNat
<1> DEFINE m == x - 1
<1>12. x \in a .. b + 1 /\ (\A i \in P : p[i].n # x) /\ m \in a - 1 .. b /\ m + 1 = x
  BY <1>11
<1>13. \A y \in a .. m : \E i \in P : p[i].n = y
  <2>1. SUFFICES ASSUME NEW y \in a .. m, \A i \in P : p[i].n # y PROVE FALSE
    OBVIOUS
  <2>2. y \in T /\ y < x
    BY <2>1, <1>12
  <2>3. QED
    BY <2>2, <1>11, <1>12
<1> HIDE DEF T, m
<1>14. \A i \in P : p[i].n \in a .. m
  <2>1. SUFFICES ASSUME NEW i \in P, p[i].n \notin a .. m PROVE FALSE
    OBVIOUS
  <2>2. i \in S /\ i <= k /\ p[i] = s[i] /\ p[i].n \in a .. b /\ p[i].n # x
    BY <2>1, <1>3, <1>8, <1>12
  <2>3. x < p[i].n /\ x \in a .. b
    BY <2>1, <2>2, <1>12
  <2>4. PICK j \in S : s[j].n = x
    BY <2>3, <1>3
  <2>5. j > k
    <3>1. ASSUME j <= k PROVE FALSE
      <4>1. j \in P
        BY <1>4, <3>1
      <4>2. p[j].n = x
        BY <2>4, <1>8, <4>1
      <4>3. QED
        BY <1>12, <4>1, <4>2
    <3>2. j \in Nat
      BY <1>7
    <3>3. QED
      BY <3>1, <3>2
  <2>6. i < j /\ s[i].n < s[j].n
    BY <2>2, <2>5, <1>3, <1>7
  <2>7. QED
    BY <2>2, <2>3, <2>4, <2>6, <1>12
<1>15. Carries(p, a, m)
  <2>1. {p[i].n : i \in P} = a .. m
    BY <1>13, <1>14
  <2>2. \A i, j \in P : i < j => p[i].n < p[j].n
    BY <1>3, <1>8
  <2>3. QED
    BY <2>1, <2>2 DEF Carries, P
<1>16. \A i \in Q : q[i].n \in m + 1 .. b
  <2>1. SUFFICES ASSUME NEW i \in Q PROVE q[i].n \in m + 1 .. b
    OBVIOUS
  <2>2. k + i \in S /\ q[i] = s[k + i] /\ q[i].n \in a .. b /\ i > 0
    BY <1>3, <1>5
  <2>3. CASE q[i].n \in a .. m
    <3>1. PICK j \in P : p[j].n = q[i].n
      BY <2>3, <1>13
    <3>2. j \in S /\ j < k + i /\ s[j] = p[j]
      BY <2>2, <1>4, <1>7, <1>8
    <3>3. s[j].n < s[k + i].n
      BY <2>2, <3>2, <1>3
    <3>4. QED
      BY <2>2, <3>1, <3>2, <3>3
  <2>4. QED
    BY <2>2, <2>3, <1>12
<1>17. \A y \in m + 1 .. b : \E i \in Q : q[i].n = y
  <2>1. SUFFICES ASSUME NEW y \in m + 1 .. b PROVE \E i \in Q : q[i].n = y
    OBVIOUS
  <2>2. y \in a .. b /\ y \notin a .. m
    BY <2>1, <1>12
  <2>3. PICK i \in S : s[i].n = y
    BY <2>2, <1>3
  <2>4. i > k
    <3>1. CASE i <= k
      <4>1. i \in P /\ p[i] = s[i]
        BY <3>1, <1>4, <1>8
      <4>2. QED
        BY <4>1, <2>2, <2>3, <1>14
    <3>2. QED
      BY <3>1, <1>7
  <2>5. QED
    BY <2>3, <2>4, <1>6
<1>18. \A i, j \in Q : i < j => q[i].n < q[j].n
  <2>1. SUFFICES ASSUME NEW i \in Q, NEW j \in Q, i < j PROVE q[i].n < q[j].n
    OBVIOUS
  <2>2. k + i < k + j /\ k + i \in S /\ k + j \in S
    BY <2>1, <1>5, <1>7
  <2>3. QED
    BY <2>2, <1>3, <1>5
<1>19. Carries(q, m + 1, b)
  <2>1. {q[i].n : i \in Q} = m + 1 .. b
    BY <1>16, <1>17
  <2>2. QED
    BY <2>1, <1>18 DEF Carries, Q
<1>20. QED
  BY <1>12, <1>15, <1>19 DEF p, q

\* A chunk carries the data in it.
LEMMA CarriesChunk ==
  ASSUME NEW s \in Seq(Item), NEW a \in Nat \ {0}, NEW b \in Nat, a <= b + 1, Carries(s, a, b)
  PROVE  Carries(Chunk(s), a, b)
<1> DEFINE x == [kind |-> "size", n |-> Len(s)]
<1>1. x \in Item /\ Mark("end") \in Item /\ x.kind # "data" /\ Mark("end").kind # "data"
  BY ChunkIs, MarkTyped
<1> HIDE DEF x
<1>2. <<x>> \in Seq(Item) /\ <<Mark("end")>> \in Seq(Item)
  BY <1>1
<1>3. /\ \A i \in DOMAIN <<x>> : <<x>>[i].kind # "data"
      /\ \A i \in DOMAIN <<Mark("end")>> : <<Mark("end")>>[i].kind # "data"
  BY <1>1
<1>4. Carries(<<x>>, a, a - 1) /\ Carries(<<Mark("end")>>, b + 1, b)
  <2>1. a - 1 \in Nat /\ (a - 1) + 1 = a
    OBVIOUS
  <2>2. QED
    BY <1>2, <1>3, <2>1, CarriesNone
<1>5. <<x>> \o s \in Seq(Item)
  BY <1>2, ConcatProperties
<1>6. Carries(<<x>> \o s, a, b)
  <2>1. a - 1 \in Nat /\ a \in Nat /\ a <= (a - 1) + 1 /\ a - 1 <= b /\ Carries(s, (a - 1) + 1, b)
    OBVIOUS
  <2>2. QED
    BY ONLY <1>2, <1>4, <2>1, CarriesJoin
<1>7. Carries((<<x>> \o s) \o <<Mark("end")>>, a, b)
  <2> DEFINE u == <<x>> \o s
             e == <<Mark("end")>>
  <2>1. u \in Seq(Item) /\ e \in Seq(Item) /\ Carries(u, a, b) /\ Carries(e, b + 1, b)
    BY <1>2, <1>4, <1>5, <1>6
  <2> HIDE DEF u, e
  <2>2. Carries(u \o e, a, b)
    BY <2>1, CarriesJoin
  <2>3. QED
    BY <2>2 DEF u, e
<1>8. QED
  BY <1>7 DEF Chunk, x

\* Data may be dropped from behind other items.
LEMMA CarriesBehind ==
  ASSUME NEW s \in Seq(Item), NEW g \in 0 .. Len(s), \A i \in 1 .. g : s[i].kind # "data",
         NEW b \in Nat, Carries(s, 1, b)
  PROVE  Carries(SubSeq(s, g + 1, Len(s)), 1, b)
<1> DEFINE p == SubSeq(s, 1, g)
<1>1. PICK m \in 0 .. b : /\ Carries(p, 1, m)
                          /\ Carries(SubSeq(s, g + 1, Len(s)), m + 1, b)
  BY CarriesSplit
<1>2. p \in Seq(Item) /\ \A i \in DOMAIN p : p[i].kind # "data"
  <2>1. Len(s) \in Nat /\ \A i \in 1 .. g : s[i] \in Item
    BY LenProperties, ElementOfSeq
  <2>2. p \in Seq(Item) /\ Len(p) = g /\ \A i \in 1 .. g : p[i] = s[i]
    BY <2>1, SubSeqProperties
  <2>3. QED
    BY <2>2, LenProperties
<1> HIDE DEF p
<1>3. m < 1
  <2>1. m \in Nat /\ 1 \in Nat
    OBVIOUS
  <2>2. QED
    BY ONLY <1>1, <1>2, <2>1, CarriesNothing
<1>4. QED
  BY <1>1, <1>3

-----------------------------------------------------------------------------
(* What the operations on the relay do. *)

\* x is r but for its write buffer, and for an exception.
Keeps(r, x) ==
  /\ x \in Relay
  /\ x.client = r.client /\ x.job = r.job /\ x.headersSent = r.headersSent
  /\ x.reads = r.reads /\ x.header = r.header /\ x.close = r.close

LEMMA AppendRelay ==
  ASSUME NEW r \in Relay, ~r.thrown, NEW items \in Seq(Item)
  PROVE  LET x == Append2Out(r, items)
         IN  /\ Keeps(r, x)
             /\ x.thrown => x.out = r.out /\ Limit < Len(r.out) + Len(items)
             /\ ~x.thrown => x.out = r.out \o items
<1> DEFINE x == Append2Out(r, items)
<1>1. r.out \in Seq(Item) /\ r.out \o items \in Seq(Item)
  BY ConcatProperties DEF Relay
<1>2. CASE Len(r.out) + Len(items) > Limit
  <2>1. x = [r EXCEPT !.thrown = TRUE]
    BY <1>2 DEF Append2Out
  <2>2. QED
    BY <1>1, <1>2, <2>1 DEF Keeps, Relay, Sizes
<1>3. CASE ~(Len(r.out) + Len(items) > Limit)
  <2>1. x = [r EXCEPT !.out = r.out \o items]
    BY <1>3 DEF Append2Out
  <2>2. QED
    BY <1>1, <2>1 DEF Keeps, Relay
<1>4. QED
  BY <1>2, <1>3

LEMMA ChunkRelay ==
  ASSUME NEW r \in Relay, ~r.thrown, NEW t \in Seq(Item), t # <<>>
  PROVE  LET x == WriteChunk(r, t)
         IN  /\ Keeps(r, x)
             /\ x.thrown => /\ Limit < Len(r.out) + Len(t) + 2
                            /\ Len(x.out) <= Len(r.out) + Len(t) + 1
             /\ ~x.thrown => x.out = r.out \o Chunk(t)
<1> DEFINE s  == [kind |-> "size", n |-> Len(t)]
           r1 == Append2Out(r, <<s>>)
           r2 == Append2Out(r1, t)
           x  == Append2Out(r2, <<Mark("end")>>)
<1>1. x = WriteChunk(r, t)
  BY DEF WriteChunk
<1>2. s \in Item /\ Mark("end") \in Item /\ Len(t) \in Nat /\ Limit \in Nat
  <2>1. Limit \in Nat
    BY Sizes
  <2>2. s \in Item /\ Len(t) \in Nat
    BY LenProperties DEF Item
  <2>3. QED
    BY <2>1, <2>2, MarkTyped
<1> HIDE DEF s
<1>3. /\ <<s>> \in Seq(Item) /\ Len(<<s>>) = 1
      /\ <<Mark("end")>> \in Seq(Item) /\ Len(<<Mark("end")>>) = 1
  BY <1>2
<1>4. r.out \in Seq(Item) /\ Len(r.out) \in Nat
  BY LenProperties DEF Relay
<1>5. /\ Keeps(r, r1)
      /\ r1.thrown => r1.out = r.out /\ Limit < Len(r.out) + 1
      /\ ~r1.thrown => r1.out = r.out \o <<s>>
  BY <1>3, AppendRelay
<1> HIDE DEF r1
<1>6. CASE r1.thrown
  <2>1. x = r1
    BY <1>6 DEF Append2Out
  <2>2. QED
    BY <1>1, <1>2, <1>4, <1>5, <1>6, <2>1
<1>7. CASE ~r1.thrown
  <2>1. r1 \in Relay /\ r1.out = r.out \o <<s>> /\ r1.out \in Seq(Item) /\ Len(r1.out) = Len(r.out) + 1
    <3>1. r.out \o <<s>> \in Seq(Item) /\ Len(r.out \o <<s>>) = Len(r.out) + 1
      BY <1>3, <1>4, ConcatProperties
    <3>2. QED
      BY <3>1, <1>5, <1>7 DEF Keeps
  <2>2. /\ Keeps(r1, r2)
        /\ r2.thrown => r2.out = r1.out /\ Limit < Len(r1.out) + Len(t)
        /\ ~r2.thrown => r2.out = r1.out \o t
    BY <1>7, <2>1, AppendRelay
  <2> HIDE DEF r2
  <2>3. CASE r2.thrown
    <3>1. x = r2
      BY <2>3 DEF Append2Out
    <3>2. QED
      BY <1>1, <1>2, <1>4, <1>5, <2>1, <2>2, <2>3, <3>1 DEF Keeps
  <2>4. CASE ~r2.thrown
    <3>1. /\ r2 \in Relay /\ r2.out = r1.out \o t
          /\ r2.out \in Seq(Item) /\ Len(r2.out) = Len(r.out) + 1 + Len(t)
      <4>1. r1.out \o t \in Seq(Item) /\ Len(r1.out \o t) = Len(r1.out) + Len(t)
        BY <2>1, ConcatProperties
      <4>2. QED
        BY <4>1, <2>1, <2>2, <2>4 DEF Keeps
    <3>2. /\ Keeps(r2, x)
          /\ x.thrown => x.out = r2.out /\ Limit < Len(r2.out) + 1
          /\ ~x.thrown => x.out = r2.out \o <<Mark("end")>>
      BY <1>3, <2>4, <3>1, AppendRelay
    <3> HIDE DEF x
    <3>3. Append(Append(r.out, s) \o t, Mark("end")) = r2.out \o <<Mark("end")>>
      <4>1. Append(r.out, s) = r1.out
        BY <1>2, <1>4, <2>1, AppendIsConcat
      <4>2. QED
        BY <4>1, <1>2, <3>1, AppendIsConcat
    <3>4. r.out \o Chunk(t) = r2.out \o <<Mark("end")>>
      BY <3>3, <1>4, ChunkIs DEF s
    <3>5. Keeps(r, x)
      BY ONLY <1>5, <2>2, <3>2 DEF Keeps
    <3>6. x.thrown => Limit < Len(r.out) + Len(t) + 2 /\ Len(x.out) <= Len(r.out) + Len(t) + 1
      BY ONLY <1>2, <1>4, <3>1, <3>2
    <3>7. ~x.thrown => x.out = r.out \o Chunk(t)
      BY ONLY <3>2, <3>4
    <3>8. QED
      BY ONLY <1>1, <3>5, <3>6, <3>7 DEF x
  <2>5. QED
    BY <2>3, <2>4
<1>8. QED
  BY <1>6, <1>7

\* The job has failed, and the client is told.
LEMMA FailRelay ==
  ASSUME NEW r \in Relay, ~r.thrown
  PROVE  LET x == FailJob(r)
         IN  /\ x \in Relay /\ x.headersSent = r.headersSent
             /\ x.thrown => x.out = r.out /\ Limit < Len(r.out) + 1
             /\ ~x.thrown =>
                  /\ x.job = "failed" /\ x.client = "WRITING"
                  /\ x.close = (r.close \/ r.headersSent)
                  /\ x.out = Append(r.out, Mark(IF r.headersSent THEN "last" ELSE "error"))
<1> DEFINE m == Mark(IF r.headersSent THEN "last" ELSE "error")
           s == Append2Out(r, <<m>>)
           x == FailJob(r)
<1>1. m \in Item
  BY MarkTyped
<1>2. x = IF s.thrown THEN s
          ELSE [s EXCEPT !.client = "WRITING", !.job = "failed", !.close = s.close \/ r.headersSent]
  BY DEF FailJob
<1> HIDE DEF m, x
<1>3. <<m>> \in Seq(Item) /\ Len(<<m>>) = 1
  BY <1>1
<1>4. /\ Keeps(r, s)
      /\ s.thrown => s.out = r.out /\ Limit < Len(r.out) + 1
      /\ ~s.thrown => s.out = r.out \o <<m>>
  BY <1>3, AppendRelay
<1>5. r.out \o <<m>> = Append(r.out, m)
  BY <1>1, AppendIsConcat DEF Relay
<1> HIDE DEF s
<1>6. CASE s.thrown
  BY <1>2, <1>4, <1>6 DEF Keeps, x
<1>7. CASE ~s.thrown
  <2>1. s.close \/ r.headersSent \in BOOLEAN
    BY <1>4 DEF Keeps, Relay
  <2>2. x = [s EXCEPT !.client = "WRITING", !.job = "failed", !.close = s.close \/ r.headersSent]
    BY <1>2, <1>7
  <2>3. /\ x \in Relay /\ x.headersSent = s.headersSent /\ x.thrown = s.thrown /\ x.out = s.out
        /\ x.client = "WRITING" /\ x.job = "failed" /\ x.close = (s.close \/ r.headersSent)
    BY <1>4, <2>1, <2>2 DEF Keeps, Relay
  <2>4. QED
    BY <1>4, <1>5, <1>7, <2>3 DEF Keeps, x, m
<1>8. QED
  BY <1>6, <1>7

-----------------------------------------------------------------------------
(* One event of the pipe. *)

\* What one read takes, and what it leaves.
LEMMA PipeCut ==
  ASSUME NEW q \in Seq(Item), q # <<>>
  PROVE  \E k \in 1 .. Len(q) :
           /\ k <= ReadSize
           /\ SubSeq(q, 1, Least(ReadSize, Len(q))) = SubSeq(q, 1, k)
           /\ SubSeq(q, 1, k) \in Seq(Item) /\ Len(SubSeq(q, 1, k)) = k
           /\ \A i \in 1 .. k : SubSeq(q, 1, k)[i] = q[i]
           /\ SubSeq(q, ReadSize + 1, Len(q)) = SubSeq(q, k + 1, Len(q))
<1> DEFINE k == Least(ReadSize, Len(q))
<1>1. ReadSize \in Nat \ {0} /\ Len(q) \in Nat \ {0}
  BY Sizes, EmptySeq
<1>2. k \in 1 .. Len(q) /\ k <= ReadSize
  BY <1>1 DEF Least
<1>3. SubSeq(q, ReadSize + 1, Len(q)) = SubSeq(q, k + 1, Len(q))
  <2>1. CASE ReadSize <= Len(q)
    <3>1. k = ReadSize
      BY <2>1, <1>1 DEF Least
    <3>2. QED
      BY <3>1
  <2>2. CASE Len(q) < ReadSize
    <3>1. k = Len(q) /\ Len(q) < k + 1 /\ Len(q) < ReadSize + 1 /\ k + 1 \in Int /\ ReadSize + 1 \in Int
      BY <2>2, <1>1 DEF Least
    <3> HIDE DEF k
    <3>2. SubSeq(q, k + 1, Len(q)) = <<>>
      BY <3>1, <1>1, SubSeqEmpty
    <3>3. SubSeq(q, ReadSize + 1, Len(q)) = <<>>
      BY <3>1, <1>1, SubSeqEmpty
    <3>4. QED
      BY ONLY <3>2, <3>3
  <2>3. ReadSize <= Len(q) \/ Len(q) < ReadSize
    BY ONLY <1>1
  <2>4. QED
    BY ONLY <2>1, <2>2, <2>3
<1> HIDE DEF k
<1>4. /\ SubSeq(q, 1, k) \in Seq(Item) /\ Len(SubSeq(q, 1, k)) = k
      /\ \A i \in 1 .. k : SubSeq(q, 1, k)[i] = q[i]
  <2>1. \A i \in 1 .. k : q[i] \in Item
    BY <1>2, ElementOfSeq
  <2>2. QED
    BY <1>1, <1>2, <2>1, SubSeqProperties
<1>5. QED
  BY <1>2, <1>3, <1>4 DEF k

\* The ways in which an event of the pipe may end.
Most == HighWater + ReadSize + 2

Relays(r, x, q) ==
  /\ x \in Relay /\ ~x.thrown /\ Len(x.out) < Most
  /\ x.client = "WRITING" /\ x.job = "runs" /\ x.headersSent /\ x.header = r.header
  /\ \E k \in 1 .. Len(pipe) : /\ q = SubSeq(pipe, k + 1, Len(pipe))
                               /\ x.out = r.out \o Chunk(SubSeq(pipe, 1, k))

Fails(r, x) ==
  /\ x \in Relay /\ ~x.thrown /\ Len(x.out) <= Most
  /\ x.client = "WRITING" /\ x.job = "failed" /\ x.headersSent /\ x.close
  /\ Roomy => x.out = Append(r.out, Mark("last"))

Finishes(r, x) ==
  /\ x \in Relay /\ ~x.thrown /\ Len(x.out) <= Most
  /\ x.client = "WRITING" /\ x.job = "finished" /\ x.headersSent
  /\ x.out = IF request.head THEN r.out ELSE Append(r.out, Mark("last"))

Throws(x) == x \in Relay /\ x.thrown /\ Len(x.out) <= Most /\ ~Roomy

LEMMA MostIs ==
  /\ HighWater \in Nat \ {0} /\ LowWater \in Nat /\ ReadSize \in Nat \ {0} /\ Limit \in Nat
  /\ ReadLimit \in Nat /\ SocketSize \in Nat \ {0} /\ LowWater <= HighWater
  /\ Most \in Nat /\ Most = HighWater + ReadSize + 2 /\ (Roomy <=> Most < Limit)
<1>1. /\ HighWater \in Nat /\ ReadSize \in Nat \ {0} /\ Limit \in Nat /\ LowWater \in 1 .. HighWater
      /\ ReadLimit \in Nat /\ SocketSize \in Nat \ {0} /\ LowWater \in Nat
  BY Sizes
<1>2. QED
  BY <1>1 DEF Most, Roomy

\* A failure of a job whose headers are out.
LEMMA FailsLate ==
  ASSUME NEW r, NEW y \in Relay, ~y.thrown, y.headersSent, Len(y.out) < Most, ~Roomy \/ y.out = r.out
  PROVE  Fails(r, FailJob(y)) \/ Throws(FailJob(y))
<1> DEFINE x == FailJob(y)
<1>1. /\ x \in Relay /\ x.headersSent = y.headersSent
      /\ x.thrown => x.out = y.out /\ Limit < Len(y.out) + 1
      /\ ~x.thrown =>
           /\ x.job = "failed" /\ x.client = "WRITING"
           /\ x.close = (y.close \/ y.headersSent)
           /\ x.out = Append(y.out, Mark(IF y.headersSent THEN "last" ELSE "error"))
  BY FailRelay
<1> HIDE DEF x
<1>2. Len(y.out) \in Nat /\ Mark("last") \in Item /\ y.out \in Seq(Item)
  BY LenProperties, MarkTyped DEF Relay
<1>3. CASE x.thrown
  <2>1. ~Roomy /\ Len(x.out) <= Most
    BY <1>1, <1>2, <1>3, MostIs
  <2>2. QED
    BY <2>1, <1>1, <1>3 DEF Throws, x
<1>4. CASE ~x.thrown
  <2>1. Append(y.out, Mark("last")) \in Seq(Item) /\ Len(Append(y.out, Mark("last"))) = Len(y.out) + 1
    BY <1>2, AppendProperties
  <2>2. x.out = Append(y.out, Mark("last")) /\ x.close /\ x.headersSent
    BY <1>1, <1>4
  <2>3. Len(x.out) <= Most
    BY <1>2, <2>1, <2>2, MostIs
  <2>4. QED
    BY <1>1, <1>4, <2>2, <2>3 DEF Fails, x
<1>5. QED
  BY <1>3, <1>4

\* The event of a job whose headers are out.
LEMMA StreamEvent ==
  ASSUME TypeOK, NEW r \in Relay, ~r.thrown, r.job = "runs", r.headersSent, Len(r.out) < Most
  PROVE  LET x == HandleCgiEvent(r)
             q == PipeAfter(r)
         IN  \/ x = r /\ q = pipe
             \/ Relays(r, x, q)
             \/ Fails(r, x)
             \/ Finishes(r, x) /\ pipe = <<>>
             \/ Throws(x)
<1> DEFINE x == HandleCgiEvent(r)
           q == PipeAfter(r)
<1>1. pipe \in Seq(Item) /\ Len(r.out) \in Nat /\ r.out \in Seq(Item) /\ r.reads \in 0 .. ReadLimit + 1
  BY LenProperties DEF TypeOK, Relay
<1>2. CASE ~ReadsPipe(r)
  <2>1. q = pipe
    BY <1>2 DEF PipeAfter
  <2>2. CASE r.reads > ReadLimit
    <3>1. x = FailJob(r)
      BY <1>2, <2>2 DEF HandleCgiEvent
    <3>2. QED
      BY <3>1, FailsLate
  <2>3. CASE ~(r.reads > ReadLimit)
    <3>1. x = r
      BY <1>2, <2>3 DEF HandleCgiEvent
    <3>2. QED
      BY <2>1, <3>1
  <2>4. QED
    BY <2>2, <2>3
<1>3. CASE ReadsPipe(r) /\ pipe # <<>>
  <2>1. PICK k \in 1 .. Len(pipe) :
           /\ k <= ReadSize
           /\ SubSeq(pipe, 1, Least(ReadSize, Len(pipe))) = SubSeq(pipe, 1, k)
           /\ SubSeq(pipe, 1, k) \in Seq(Item) /\ Len(SubSeq(pipe, 1, k)) = k
           /\ SubSeq(pipe, ReadSize + 1, Len(pipe)) = SubSeq(pipe, k + 1, Len(pipe))
    BY <1>1, <1>3, PipeCut
  <2> DEFINE t    == SubSeq(pipe, 1, k)
             more == [r EXCEPT !.reads = r.reads + 1]
             w    == WriteChunk(more, t)
             d    == [w EXCEPT !.client = "WRITING"]
  <2>2. x = Caught(Deliver(r, t)) /\ q = SubSeq(pipe, k + 1, Len(pipe))
    BY <1>3, <2>1 DEF HandleCgiEvent, PipeAfter
  <2>3. Deliver(r, t) = d
    BY DEF Deliver
  <2>4. r.reads <= ReadLimit /\ Len(r.out) < HighWater
    BY <1>1, <1>3, MostIs DEF ReadsPipe
  <2>5. /\ more \in Relay /\ more.out = r.out /\ ~more.thrown /\ more.headersSent
        /\ more.job = "runs" /\ more.header = r.header
    <3>1. r.reads + 1 \in 0 .. ReadLimit + 1
      BY <1>1, <2>4, MostIs
    <3>2. QED
      BY <3>1 DEF Relay
  <2> HIDE DEF x, q, more, t
  <2>6. t \in Seq(Item) /\ Len(t) = k /\ t # <<>> /\ k \in Nat \ {0}
    <3>1. t \in Seq(Item) /\ Len(t) = k /\ k \in Nat \ {0}
      BY <2>1, <1>1, LenProperties DEF t
    <3>2. QED
      BY <3>1, EmptySeq
  <2>7. /\ Keeps(more, w)
        /\ w.thrown => Limit < Len(r.out) + k + 2 /\ Len(w.out) <= Len(r.out) + k + 1
        /\ ~w.thrown => w.out = r.out \o Chunk(t)
    BY <2>5, <2>6, ChunkRelay
  <2> HIDE DEF w
  <2>8. /\ d \in Relay /\ d.client = "WRITING" /\ d.thrown = w.thrown /\ d.out = w.out
        /\ d.job = "runs" /\ d.headersSent /\ d.header = r.header
    BY <2>5, <2>7 DEF Keeps, Relay
  <2> HIDE DEF d
  <2>9. CASE ~d.thrown
    <3>1. x = d
      BY <2>2, <2>3, <2>9 DEF Caught
    <3>2. Len(d.out) = Len(r.out) + k + 2
      <4>1. Len(r.out \o Chunk(t)) = Len(r.out) + Len(t) + 2
        BY <1>1, <2>6, ChunkIs
      <4>2. d.out = r.out \o Chunk(t)
        BY ONLY <2>7, <2>8, <2>9
      <4>3. Len(d.out) = Len(r.out) + Len(t) + 2
        BY ONLY <4>1, <4>2
      <4>4. Len(t) = k
        BY <2>6
      <4>5. QED
        BY ONLY <4>3, <4>4
    <3>3. Len(d.out) < Most
      BY <1>1, <2>1, <2>4, <2>6, <3>2, MostIs
    <3>4. Relays(r, x, q)
      BY <2>2, <2>7, <2>8, <2>9, <3>1, <3>3 DEF Relays, t
    <3>5. QED
      BY <3>4 DEF x, q
  <2>10. CASE d.thrown
    <3> DEFINE y == [d EXCEPT !.thrown = FALSE]
    <3>1. x = FailJob(y)
      BY <2>2, <2>3, <2>10 DEF Caught
    <3>2. y \in Relay /\ ~y.thrown /\ y.headersSent /\ y.out = d.out
      BY <2>8 DEF Relay
    <3> HIDE DEF y
    <3>3. Len(d.out) \in Nat
      BY <2>8, LenProperties DEF Relay
    <3>4. Len(y.out) < Most /\ ~Roomy
      BY <1>1, <2>1, <2>4, <2>6, <2>7, <2>8, <2>10, <3>2, <3>3, MostIs
    <3>5. Fails(r, x) \/ Throws(x)
      BY <3>1, <3>2, <3>4, FailsLate
    <3>6. QED
      BY <3>5 DEF x
  <2>11. QED
    BY <2>9, <2>10
<1>4. CASE ReadsPipe(r) /\ pipe = <<>> /\ ~script.exited
  <2>1. x = r
    BY <1>4 DEF HandleCgiEvent
  <2>2. q = pipe
    <3>1. ReadSize + 1 \in Int /\ Len(pipe) \in Int /\ Len(pipe) < ReadSize + 1
      BY <1>4, MostIs
    <3>2. QED
      BY <1>4, <3>1, SubSeqEmpty DEF PipeAfter
  <2>3. QED
    BY <2>1, <2>2
<1>5. CASE ReadsPipe(r) /\ pipe = <<>> /\ script.exited
  <2> DEFINE z    == [r EXCEPT !.reads = 0]
             last == <<Mark("last")>>
             a    == Append2Out(z, last)
             said == IF request.head THEN z ELSE a
             f    == IF said.thrown THEN said ELSE [said EXCEPT !.client = "WRITING", !.job = "finished"]
  <2>1. z \in Relay /\ z.out = r.out /\ ~z.thrown /\ z.headersSent
    <3>1. 0 \in 0 .. ReadLimit + 1
      BY MostIs
    <3>2. QED
      BY <3>1 DEF Relay
  <2>2. x = Caught(FinishJob(z)) /\ FinishJob(z) = f
    BY <1>5, <2>1 DEF HandleCgiEvent, FinishJob
  <2> HIDE DEF x, z
  <2>3. last \in Seq(Item) /\ Len(last) = 1 /\ Mark("last") \in Item
    BY MarkTyped
  <2>4. /\ Keeps(z, a)
        /\ a.thrown => a.out = r.out /\ Limit < Len(r.out) + 1
        /\ ~a.thrown => a.out = r.out \o last
    BY <2>1, <2>3, AppendRelay
  <2>5. r.out \o last = Append(r.out, Mark("last")) /\ Len(Append(r.out, Mark("last"))) = Len(r.out) + 1
    BY <1>1, <2>3, AppendIsConcat, AppendProperties
  <2> HIDE DEF a, last
  <2>6. /\ said \in Relay /\ said.headersSent
        /\ said.thrown => said.out = r.out /\ Limit < Len(r.out) + 1
        /\ ~said.thrown => said.out = IF request.head THEN r.out ELSE Append(r.out, Mark("last"))
    BY <2>1, <2>4, <2>5 DEF Keeps
  <2> HIDE DEF said
  <2>7. CASE ~said.thrown
    <3>1. f = [said EXCEPT !.client = "WRITING", !.job = "finished"]
      BY <2>7
    <3>2. /\ f \in Relay /\ ~f.thrown /\ f.headersSent /\ f.client = "WRITING"
          /\ f.job = "finished" /\ f.out = said.out
      BY <2>6, <2>7, <3>1 DEF Relay
    <3> HIDE DEF f
    <3>3. x = f
      BY <2>2, <3>2 DEF Caught
    <3>4. Len(f.out) <= Most
      <4>1. f.out = r.out \/ f.out = Append(r.out, Mark("last"))
        BY <2>6, <2>7, <3>2
      <4>2. Len(f.out) <= Len(r.out) + 1
        BY <1>1, <2>5, <4>1
      <4>3. Len(f.out) \in Nat
        BY <3>2, LenProperties DEF Relay
      <4>4. QED
        BY <1>1, <4>2, <4>3, MostIs
    <3>5. Finishes(r, x)
      BY <2>6, <2>7, <3>2, <3>3, <3>4 DEF Finishes
    <3>6. QED
      BY <3>5, <1>5 DEF x
  <2>8. CASE said.thrown
    <3> DEFINE y == [said EXCEPT !.thrown = FALSE]
    <3>1. x = FailJob(y)
      BY <2>2, <2>8 DEF Caught
    <3>2. y \in Relay /\ ~y.thrown /\ y.headersSent /\ y.out = r.out
      BY <2>6, <2>8 DEF Relay
    <3> HIDE DEF y
    <3>3. Fails(r, x) \/ Throws(x)
      BY <3>1, <3>2, FailsLate
    <3>4. QED
      BY <3>3 DEF x
  <2>9. QED
    BY <2>7, <2>8
<1>6. QED
  BY <1>2, <1>3, <1>4, <1>5


\* While the header block is collected nothing has been sent, and an event
\* of the pipe may end in these ways too.
Unsent(r) == r \in Relay /\ ~r.thrown /\ r.client = "CGI_RUNNING" /\ r.job = "runs"
             /\ ~r.headersSent /\ r.out = <<>>

Collects(r, x, q) ==
  /\ Unsent(x)
  /\ \E k \in 1 .. Len(pipe) : /\ q = SubSeq(pipe, k + 1, Len(pipe))
                               /\ x.header = r.header \o SubSeq(pipe, 1, k)
                               /\ \A i \in DOMAIN x.header : x.header[i] # Mark("gap")

Refuses(x) ==
  /\ x \in Relay /\ ~x.thrown /\ x.client = "WRITING" /\ x.job = "failed" /\ ~x.headersSent
  /\ x.out = <<Mark("error")>>

\* What goes out first is the head, and what was read behind the gap, if any.
Opening(items) == IF items = <<>> THEN <<Mark("head")>> ELSE <<Mark("head")>> \o Chunk(items)

Begins(r, x, q) ==
  /\ x \in Relay /\ ~x.thrown /\ Len(x.out) < Most
  /\ x.client = "WRITING" /\ x.job = "runs" /\ x.headersSent /\ x.header = <<>>
  /\ \E k \in 1 .. Len(pipe) :
       LET u == r.header \o SubSeq(pipe, 1, k)
       IN  /\ q = SubSeq(pipe, k + 1, Len(pipe))
           /\ \E g \in DOMAIN u : /\ u[g] = Mark("gap")
                                  /\ x.out = Opening(SubSeq(u, g + 1, Len(u)))

Breaks(r, x) == ~Roomy /\ Fails(r, x)

\* A failure of a job whose headers are not out.
LEMMA FailsSoon ==
  ASSUME NEW y \in Relay, ~y.thrown, ~y.headersSent, y.out = <<>>
  PROVE  /\ Refuses(FailJob(y)) \/ Throws(FailJob(y))
         /\ Refuses(Caught(FailJob(y))) \/ Throws(Caught(FailJob(y)))
<1>1. \A z \in Relay :
        ~z.thrown /\ ~z.headersSent /\ z.out = <<>> =>
          \/ Refuses(FailJob(z))
          \/ Throws(FailJob(z)) /\ ~FailJob(z).headersSent /\ FailJob(z).out = <<>>
  <2>1. SUFFICES ASSUME NEW z \in Relay, ~z.thrown, ~z.headersSent, z.out = <<>>
                 PROVE  \/ Refuses(FailJob(z))
                        \/ Throws(FailJob(z)) /\ ~FailJob(z).headersSent /\ FailJob(z).out = <<>>
    OBVIOUS
  <2> DEFINE x == FailJob(z)
  <2>2. /\ x \in Relay /\ x.headersSent = z.headersSent
        /\ x.thrown => x.out = z.out /\ Limit < Len(z.out) + 1
        /\ ~x.thrown => /\ x.job = "failed" /\ x.client = "WRITING"
                        /\ x.out = Append(z.out, Mark(IF z.headersSent THEN "last" ELSE "error"))
    BY <2>1, FailRelay
  <2> HIDE DEF x
  <2>3. CASE x.thrown
    <3>1. ~Roomy /\ Len(x.out) <= Most
      <4>1. Len(x.out) = 0 /\ Limit < 1
        BY <2>1, <2>2, <2>3
      <4>2. QED
        BY <4>1, MostIs
    <3>2. QED
      BY <2>1, <2>2, <2>3, <3>1 DEF Throws, x
  <2>4. CASE ~x.thrown
    <3>1. x.out = <<Mark("error")>>
      BY <2>1, <2>2, <2>4
    <3>2. QED
      BY <2>1, <2>2, <2>4, <3>1 DEF Refuses, x
  <2>5. QED
    BY <2>3, <2>4
<1> DEFINE x == FailJob(y)
<1>2. Refuses(x) \/ (Throws(x) /\ ~x.headersSent /\ x.out = <<>>)
  BY <1>1
<1> HIDE DEF x
<1>3. CASE Refuses(x)
  <2>1. Caught(x) = x
    BY <1>3 DEF Caught, Refuses
  <2>2. QED
    BY <1>3, <2>1 DEF x
<1>4. CASE Throws(x) /\ ~x.headersSent /\ x.out = <<>>
  <2> DEFINE z == [x EXCEPT !.thrown = FALSE]
  <2>1. Caught(x) = FailJob(z)
    BY <1>4 DEF Caught, Throws
  <2>2. z \in Relay /\ ~z.thrown /\ ~z.headersSent /\ z.out = <<>>
    BY <1>4 DEF Throws, Relay
  <2> HIDE DEF z
  <2>3. Refuses(FailJob(z)) \/ Throws(FailJob(z))
    BY <1>1, <2>2
  <2>4. QED
    BY <1>4, <2>1, <2>3 DEF x
<1>5. QED
  BY <1>2, <1>3, <1>4

Opened(more, u) ==
  LET h == Append2Out(more, <<Mark("head")>>)
  IN  IF h.thrown THEN h
      ELSE [WriteChunk([h EXCEPT !.headersSent = TRUE], AfterGap(u))
              EXCEPT !.header = <<>>, !.client = "WRITING"]

Counted(r) == [r EXCEPT !.reads = @ + 1]

LEMMA DeliversHead ==
  ASSUME NEW r, NEW t, ~Counted(r).headersSent, Contains(Counted(r).header \o t, Mark("gap"))
  PROVE  Deliver(r, t) = Opened(Counted(r), Counted(r).header \o t)
BY DEF Deliver, Opened, Counted

\* The read that completes the header block.
LEMMA BeginEvent ==
  ASSUME TypeOK, NEW r, Unsent(r), NEW k \in 1 .. Len(pipe), k <= ReadSize, r.reads <= ReadLimit,
         AllOf(r.header, "part"),
         LET u == r.header \o SubSeq(pipe, 1, k) IN \E i \in DOMAIN u : u[i] = Mark("gap")
  PROVE  LET x == Caught(Deliver(r, SubSeq(pipe, 1, k)))
         IN  \/ Begins(r, x, SubSeq(pipe, k + 1, Len(pipe)))
             \/ Refuses(x) \/ Breaks(r, x) \/ Throws(x)
<1> DEFINE t    == SubSeq(pipe, 1, k)
           u    == r.header \o t
           g    == CHOOSE i \in DOMAIN u : u[i] = Mark("gap")
           v    == SubSeq(u, g + 1, Len(u))
           more == [r EXCEPT !.reads = r.reads + 1]
           h    == Append2Out(more, <<Mark("head")>>)
           y    == [h EXCEPT !.headersSent = TRUE]
           w    == WriteChunk(y, v)
           d    == [w EXCEPT !.header = <<>>, !.client = "WRITING"]
           x    == Caught(Deliver(r, t))
<1>1. /\ pipe \in Seq(Item) /\ Len(pipe) \in Nat /\ k \in Nat \ {0}
      /\ r.header \in Seq(Item) /\ r.out \in Seq(Item) /\ Len(r.header) \in Nat
  BY LenProperties DEF TypeOK, Relay, Unsent
<1>2. t \in Seq(Item) /\ Len(t) = k
  <2>1. \A i \in 1 .. k : pipe[i] \in Item
    BY <1>1, ElementOfSeq
  <2>2. QED
    BY <1>1, <2>1, SubSeqProperties
<1>3. \E i \in DOMAIN u : u[i] = Mark("gap")
  OBVIOUS
<1>4. more \in Relay /\ ~more.thrown /\ ~more.headersSent /\ more.out = <<>> /\ more.header = r.header
      /\ more.job = "runs"
  <2>1. r.reads \in 0 .. ReadLimit + 1
    BY DEF Unsent, Relay
  <2>2. r.reads + 1 \in 0 .. ReadLimit + 1
    BY <2>1, MostIs
  <2>3. QED
    BY <2>2 DEF Relay, Unsent
<1>5. Deliver(r, t) = IF h.thrown THEN h ELSE d
  <2>1. Contains(u, Mark("gap"))
    BY <1>1, <1>2, <1>3 DEF Contains
  <2>2. u = more.header \o t /\ ~more.headersSent /\ more = Counted(r)
    BY <1>4 DEF Counted
  <2>3. AfterGap(u) = v
    BY DEF AfterGap
  <2> HIDE DEF u, t, v, more
  <2>4. Deliver(r, t) = Opened(Counted(r), Counted(r).header \o t)
    BY ONLY <2>1, <2>2, DeliversHead
  <2>5. Deliver(r, t) = Opened(more, u)
    BY ONLY <2>2, <2>4
  <2>6. Opened(more, u) = IF h.thrown THEN h ELSE d
    BY <2>3 DEF Opened
  <2>7. QED
    BY ONLY <2>5, <2>6
<1> HIDE DEF t
<1>6. /\ u \in Seq(Item) /\ Len(u) = Len(r.header) + k /\ DOMAIN u = 1 .. Len(r.header) + k
      /\ \A i \in 1 .. Len(r.header) : u[i] = r.header[i]
  <2> DEFINE s == r.header
  <2>1. s \in Seq(Item) /\ t \in Seq(Item)
    BY <1>1, <1>2
  <2> HIDE DEF s
  <2>2. /\ s \o t \in Seq(Item) /\ Len(s \o t) = Len(s) + Len(t)
        /\ \A i \in 1 .. Len(s) + Len(t) : (s \o t)[i] = IF i <= Len(s) THEN s[i] ELSE t[i - Len(s)]
    BY ONLY <2>1, ConcatProperties
  <2>3. u = s \o t
    BY DEF s
  <2> HIDE DEF u
  <2>4. Len(s) \in Nat /\ Len(t) = k
    BY <1>1, <1>2 DEF s
  <2>5. u \in Seq(Item) /\ Len(u) = Len(s) + k
    BY ONLY <2>2, <2>3, <2>4
  <2>6. \A i \in 1 .. Len(s) : u[i] = s[i]
    BY <2>2, <2>3, <2>4, <1>1
  <2>7. DOMAIN u = 1 .. Len(u)
    BY <2>5
  <2>8. QED
    BY <2>5, <2>6, <2>7 DEF s
<1> HIDE DEF u, more, x
<1>7. g \in DOMAIN u /\ u[g] = Mark("gap")
  BY <1>3
<1> HIDE DEF g
<1>8. g \in Len(r.header) + 1 .. Len(u)
  <2>1. Mark("gap").kind = "gap"
    BY MarkTyped
  <2>2. ~(g \in 1 .. Len(r.header))
    <3>1. ASSUME g \in 1 .. Len(r.header) PROVE FALSE
      <4>1. u[g] = r.header[g] /\ g \in DOMAIN r.header
        BY <1>1, <1>6, <3>1
      <4>2. r.header[g].kind = "part"
        BY <4>1 DEF AllOf
      <4>3. QED
        BY ONLY <1>7, <2>1, <4>1, <4>2
    <3>2. QED
      BY <3>1
  <2>3. QED
    BY <1>1, <1>6, <1>7, <2>2
<1>9. v \in Seq(Item) /\ Len(v) \in Nat /\ Len(v) < k
  <2>1. g \in 0 .. Len(u) /\ Len(u) \in Nat
    BY <1>1, <1>6, <1>8
  <2>2. v \in Seq(Item) /\ Len(v) = Len(u) - g
    BY <1>6, <2>1, TailItems
  <2>3. QED
    BY <1>1, <1>6, <1>8, <2>2
<1> HIDE DEF v
<1>10. /\ Keeps(more, h)
       /\ h.thrown => h.out = <<>> /\ Limit < 1
       /\ ~h.thrown => h.out = <<Mark("head")>>
  <2> DEFINE head == <<Mark("head")>>
  <2>1. head \in Seq(Item) /\ Len(head) = 1 /\ Len(<<>>) = 0 /\ <<>> \o head = head
    BY MarkTyped
  <2> HIDE DEF head
  <2>2. /\ Keeps(more, h)
        /\ h.thrown => h.out = more.out /\ Limit < Len(more.out) + Len(head)
        /\ ~h.thrown => h.out = more.out \o head
    BY <1>4, <2>1, AppendRelay DEF head
  <2>3. QED
    BY <1>4, <2>1, <2>2 DEF head
<1> HIDE DEF h
<1>11. CASE h.thrown
  <2> DEFINE z == [h EXCEPT !.thrown = FALSE]
  <2>1. x = FailJob(z)
    BY <1>5, <1>11 DEF Caught, x
  <2>2. z \in Relay /\ ~z.thrown /\ ~z.headersSent /\ z.out = <<>>
    BY <1>4, <1>10, <1>11 DEF Keeps, Relay
  <2> HIDE DEF z
  <2>3. Refuses(x) \/ Throws(x)
    BY <2>1, <2>2, FailsSoon
  <2>4. QED
    BY <2>3 DEF x, t
<1>12. CASE ~h.thrown
  <2>1. /\ y \in Relay /\ ~y.thrown /\ y.headersSent /\ y.out = <<Mark("head")>> /\ y.job = "runs"
    BY <1>4, <1>10, <1>12 DEF Keeps, Relay
  <2> HIDE DEF y
  <2>2. <<Mark("head")>> \in Seq(Item) /\ Len(<<Mark("head")>>) = 1
    BY MarkTyped
  <2>3. /\ w \in Relay /\ w.headersSent /\ w.job = "runs"
        /\ w.thrown => ~Roomy /\ Len(w.out) < Most
        /\ ~w.thrown => w.out = Opening(v) /\ Len(w.out) < Most
    <3>1. CASE v = <<>>
      <4>1. w = y
        BY <3>1 DEF WriteChunk
      <4>2. Len(w.out) < Most
        <5>1. w.out = <<Mark("head")>>
          BY ONLY <2>1, <4>1
        <5>2. Len(w.out) = 1
          BY ONLY <2>2, <5>1
        <5>3. QED
          BY <5>2, MostIs
      <4>3. QED
        BY <2>1, <3>1, <4>1, <4>2 DEF Opening
    <3>2. CASE v # <<>>
      <4>1. /\ Keeps(y, w)
            /\ w.thrown => Limit < 1 + Len(v) + 2 /\ Len(w.out) <= 1 + Len(v) + 1
            /\ ~w.thrown => w.out = <<Mark("head")>> \o Chunk(v)
        BY <1>9, <2>1, <2>2, <3>2, ChunkRelay
      <4>2. Len(<<Mark("head")>> \o Chunk(v)) = 1 + Len(v) + 2
        BY <1>9, <2>2, ChunkIs
      <4>3. Len(w.out) \in Nat /\ w \in Relay
        BY <4>1, LenProperties DEF Keeps, Relay
      <4>4. 1 + Len(v) + 2 < Most /\ 1 + Len(v) + 1 < Most
        BY <1>1, <1>9, MostIs
      <4>5. w.thrown => ~Roomy /\ Len(w.out) < Most
        BY <1>9, <4>1, <4>3, <4>4, MostIs
      <4>6. ~w.thrown => Len(w.out) < Most
        BY <4>1, <4>2, <4>4
      <4>7. QED
        BY <2>1, <3>2, <4>1, <4>3, <4>5, <4>6 DEF Keeps, Opening
    <3>3. QED
      BY <3>1, <3>2
  <2> HIDE DEF w
  <2>4. /\ d \in Relay /\ d.client = "WRITING" /\ d.thrown = w.thrown /\ d.out = w.out
        /\ d.job = "runs" /\ d.headersSent /\ d.header = <<>>
    <3>1. <<>> \in Seq(Item)
      OBVIOUS
    <3>2. QED
      BY <2>3, <3>1 DEF Relay
  <2> HIDE DEF d
  <2>5. CASE ~d.thrown
    <3>1. x = d
      BY <1>5, <1>12, <2>5 DEF Caught, x
    <3>2. Begins(r, x, SubSeq(pipe, k + 1, Len(pipe)))
      BY <1>7, <2>3, <2>4, <2>5, <3>1 DEF Begins, u, t, v
    <3>3. QED
      BY <3>2 DEF x, t
  <2>6. CASE d.thrown
    <3> DEFINE z == [d EXCEPT !.thrown = FALSE]
    <3>1. x = FailJob(z)
      BY <1>5, <1>12, <2>6 DEF Caught, x
    <3>2. z \in Relay /\ ~z.thrown /\ z.headersSent /\ z.out = d.out
      BY <2>4 DEF Relay
    <3> HIDE DEF z
    <3>3. Fails(r, x) \/ Throws(x)
      BY <2>3, <2>4, <2>6, <3>1, <3>2, FailsLate
    <3>4. QED
      BY <2>3, <2>4, <2>6, <3>3 DEF Breaks, x, t
  <2>7. QED
    BY <2>5, <2>6
<1>13. QED
  BY <1>11, <1>12

LEMMA CollectEvent ==
  ASSUME TypeOK, NEW r, Unsent(r), AllOf(r.header, "part")
  PROVE  LET x == HandleCgiEvent(r)
             q == PipeAfter(r)
         IN  \/ x = r /\ q = pipe
             \/ Collects(r, x, q) \/ Refuses(x) \/ Begins(r, x, q) \/ Breaks(r, x) \/ Throws(x)
<1> DEFINE x == HandleCgiEvent(r)
           q == PipeAfter(r)
<1>1. /\ pipe \in Seq(Item) /\ r \in Relay /\ r.header \in Seq(Item) /\ r.out = <<>> /\ ~r.thrown
      /\ ~r.headersSent /\ r.job = "runs" /\ r.reads \in 0 .. ReadLimit + 1
  BY DEF TypeOK, Relay, Unsent
<1>2. CASE r.reads > ReadLimit
  <2>1. x = FailJob(r)
    BY <1>1, <1>2, MostIs DEF HandleCgiEvent, ReadsPipe
  <2>2. QED
    BY <1>1, <2>1, FailsSoon
<1>3. CASE r.reads <= ReadLimit /\ pipe = <<>> /\ ~script.exited
  <2>1. ReadsPipe(r)
    BY <1>1, <1>3 DEF ReadsPipe
  <2>2. x = r
    BY <1>3, <2>1 DEF HandleCgiEvent
  <2>3. q = pipe
    <3>1. ReadSize + 1 \in Int /\ Len(pipe) \in Int /\ Len(pipe) < ReadSize + 1
      BY <1>3, MostIs
    <3>2. QED
      BY <1>3, <2>1, <3>1, SubSeqEmpty DEF PipeAfter
  <2>4. QED
    BY <2>2, <2>3
<1>4. CASE r.reads <= ReadLimit /\ pipe = <<>> /\ script.exited
  <2> DEFINE z == [r EXCEPT !.reads = 0]
  <2>1. z \in Relay /\ ~z.thrown /\ ~z.headersSent /\ z.out = <<>>
    <3>1. 0 \in 0 .. ReadLimit + 1
      BY MostIs
    <3>2. QED
      BY <1>1, <3>1 DEF Relay
  <2>2. x = Caught(FailJob(z))
    BY <1>1, <1>4, <2>1 DEF HandleCgiEvent, ReadsPipe, FinishJob
  <2> HIDE DEF x, z
  <2>3. Refuses(x) \/ Throws(x)
    BY <2>1, <2>2, FailsSoon
  <2>4. QED
    BY <2>3 DEF x
<1>5. CASE r.reads <= ReadLimit /\ pipe # <<>>
  <2>1. ReadsPipe(r)
    BY <1>1, <1>5 DEF ReadsPipe
  <2>2. PICK k \in 1 .. Len(pipe) :
           /\ k <= ReadSize
           /\ SubSeq(pipe, 1, Least(ReadSize, Len(pipe))) = SubSeq(pipe, 1, k)
           /\ SubSeq(pipe, 1, k) \in Seq(Item) /\ Len(SubSeq(pipe, 1, k)) = k
           /\ SubSeq(pipe, ReadSize + 1, Len(pipe)) = SubSeq(pipe, k + 1, Len(pipe))
    BY <1>1, <1>5, PipeCut
  <2> DEFINE t == SubSeq(pipe, 1, k)
             u == r.header \o t
  <2>3. x = Caught(Deliver(r, t)) /\ q = SubSeq(pipe, k + 1, Len(pipe))
    BY <1>5, <2>1, <2>2 DEF HandleCgiEvent, PipeAfter
  <2>4. CASE \E i \in DOMAIN u : u[i] = Mark("gap")
    <3>1. \/ Begins(r, Caught(Deliver(r, t)), SubSeq(pipe, k + 1, Len(pipe)))
          \/ Refuses(Caught(Deliver(r, t))) \/ Breaks(r, Caught(Deliver(r, t)))
          \/ Throws(Caught(Deliver(r, t)))
      BY <1>5, <2>2, <2>4, BeginEvent
    <3> HIDE DEF t
    <3>2. QED
      BY <2>3, <3>1
  <2>5. CASE ~(\E i \in DOMAIN u : u[i] = Mark("gap"))
    <3> DEFINE more == [r EXCEPT !.reads = r.reads + 1]
               y    == [more EXCEPT !.header = u]
    <3> HIDE DEF x, q, t
    <3>1. u \in Seq(Item)
      BY <1>1, <2>2, ConcatProperties DEF t
    <3>2. ~Contains(u, Mark("gap"))
      BY <2>5, <3>1 DEF Contains
    <3> HIDE DEF u
    <3>3. Unsent(y) /\ y.header = u /\ y \in Relay /\ ~y.thrown /\ ~y.headersSent /\ y.out = <<>>
      <4>1. r.reads + 1 \in 0 .. ReadLimit + 1
        BY <1>1, <1>5, MostIs
      <4>2. QED
        BY <3>1, <4>1 DEF Relay, Unsent
    <3>4. Deliver(r, t) = IF Len(u) > HeaderLimit THEN FailJob(y) ELSE y
      BY <1>1, <3>2 DEF Deliver, u
    <3> HIDE DEF y
    <3>5. CASE Len(u) > HeaderLimit
      <4>1. Refuses(x) \/ Throws(x)
        BY <2>3, <3>3, <3>4, <3>5, FailsSoon
      <4>2. QED
        BY <4>1 DEF x
    <3>6. CASE ~(Len(u) > HeaderLimit)
      <4>1. x = y
        BY <2>3, <3>3, <3>4, <3>6 DEF Caught
      <4>2. Collects(r, x, q)
        BY <2>3, <2>5, <3>3, <4>1 DEF Collects, u, t
      <4>3. QED
        BY <4>2 DEF x, q
    <3>7. QED
      BY <3>5, <3>6
  <2>6. QED
    BY <2>4, <2>5
<1>6. QED
  BY <1>1, <1>2, <1>3, <1>4, <1>5, MostIs

-----------------------------------------------------------------------------
(* An event of the pipe keeps the stage. *)

\* What a read takes of the script's output, and what it leaves.
LEMMA OutputCut ==
  ASSUME NEW s \in Seq(Item), Output(s), NEW k \in 0 .. Len(s), NEW t \in Seq(Item), Len(t) = k,
         \A i \in 1 .. k : t[i] = s[i]
  PROVE  LET q == SubSeq(s, k + 1, Len(s))
         IN  \/ AllOf(t, "part") /\ Output(q)
             \/ script.gap /\ AllOf(q, "data") /\ Parted(t)
<1> DEFINE q == SubSeq(s, k + 1, Len(s))
<1>1. q \in Seq(Item) /\ Len(q) = Len(s) - k /\ \A i \in 1 .. Len(s) - k : q[i] = s[k + i]
  BY TailItems
<1> HIDE DEF q
<1>2. /\ Len(s) \in Nat /\ k \in Nat /\ DOMAIN s = 1 .. Len(s) /\ DOMAIN t = 1 .. k
      /\ DOMAIN q = 1 .. Len(s) - k
  BY <1>1, LenProperties
<1>3. CASE ~script.gap
  <2>1. \A i \in 1 .. Len(s) : s[i].kind = "part"
    BY <1>2, <1>3 DEF Output, AllOf
  <2>2. AllOf(t, "part")
    <3>1. \A i \in 1 .. k : t[i].kind = "part"
      BY <1>2, <2>1
    <3>2. QED
      BY <1>2, <3>1 DEF AllOf
  <2>3. AllOf(q, "part")
    <3>1. \A i \in 1 .. Len(s) - k : q[i].kind = "part"
      BY <1>1, <1>2, <2>1
    <3>2. QED
      BY <1>2, <3>1 DEF AllOf
  <2>4. QED
    BY <1>3, <2>2, <2>3 DEF Output, q
<1>4. CASE script.gap
  <2>1. PICK g \in 1 .. Len(s) : /\ s[g] = Mark("gap")
                                 /\ \A i \in 1 .. g - 1 : s[i].kind = "part"
                                 /\ \A i \in g + 1 .. Len(s) : s[i].kind = "data"
    BY <1>2, <1>4 DEF Output, Parted
  <2>2. CASE k < g
    <3>1. AllOf(t, "part")
      <4>1. \A i \in 1 .. k : t[i].kind = "part"
        BY <1>2, <2>1, <2>2
      <4>2. QED
        BY <1>2, <4>1 DEF AllOf
    <3>2. g - k \in DOMAIN q /\ q[g - k] = Mark("gap")
      <4>1. g - k \in 1 .. Len(s) - k /\ k + (g - k) = g
        BY <1>2, <2>2
      <4>2. QED
        BY <1>1, <1>2, <2>1, <4>1
    <3>3. \A i \in 1 .. (g - k) - 1 : q[i].kind = "part"
      BY <1>1, <1>2, <2>1, <2>2
    <3>4. \A i \in (g - k) + 1 .. Len(q) : q[i].kind = "data"
      BY <1>1, <1>2, <2>1, <2>2
    <3>5. Output(q)
      BY <1>4, <3>2, <3>3, <3>4 DEF Output, Parted
    <3>6. QED
      BY <3>1, <3>5 DEF q
  <2>3. CASE ~(k < g)
    <3>1. AllOf(q, "data")
      <4>1. \A i \in 1 .. Len(s) - k : q[i].kind = "data"
        <5>1. SUFFICES ASSUME NEW i \in 1 .. Len(s) - k PROVE q[i].kind = "data"
          OBVIOUS
        <5>2. k + i \in g + 1 .. Len(s)
          BY <1>2, <2>3
        <5>3. QED
          BY <1>1, <2>1, <5>2
      <4>2. QED
        BY <1>2, <4>1 DEF AllOf
    <3>2. g \in 1 .. k /\ t[g] = Mark("gap")
      BY <1>2, <2>1, <2>3
    <3>3. \A i \in 1 .. g - 1 : t[i].kind = "part"
      BY <1>2, <2>1, <3>2
    <3>4. \A i \in g + 1 .. k : t[i].kind = "data"
      BY <1>2, <2>1, <3>2
    <3>5. Parted(t)
      BY <1>2, <3>2, <3>3, <3>4 DEF Parted
    <3>6. QED
      BY <1>4, <3>1, <3>5 DEF q
  <2>4. QED
    BY <2>2, <2>3
<1>5. QED
  BY <1>3, <1>4

\* One marker carries no data.
LEMMA CarriesMark ==
  ASSUME NEW s \in Seq(Item), NEW k \in Nat, Carries(s, 1, k),
         NEW kind \in {"part", "gap", "head", "size", "end", "last", "error"}
  PROVE  /\ Append(s, Mark(kind)) \in Seq(Item)
         /\ Carries(Append(s, Mark(kind)), 1, k)
<1> DEFINE t == <<Mark(kind)>>
<1>1. Mark(kind) \in Item /\ Mark(kind).kind # "data"
  BY DEF Mark, Item
<1>2. t \in Seq(Item) /\ \A i \in DOMAIN t : t[i].kind # "data"
  BY <1>1
<1>3. Append(s, Mark(kind)) = s \o t /\ Append(s, Mark(kind)) \in Seq(Item)
  BY <1>1, AppendIsConcat, AppendProperties
<1> HIDE DEF t
<1>4. Carries(t, k + 1, k)
  BY <1>2, CarriesNone
<1>5. Carries(s \o t, 1, k)
  <2>1. 1 \in Nat /\ 1 <= k + 1 /\ k <= k
    OBVIOUS
  <2>2. QED
    BY <1>2, <1>4, <2>1, CarriesJoin
<1>6. QED
  BY <1>3, <1>5

\* The head and the first chunk.
LEMMA OpeningIs ==
  ASSUME NEW v \in Seq(Item), AllOf(v, "data"), NEW m \in Nat, Carries(v, 1, m)
  PROVE  Opening(v) \in Seq(Item) /\ Parsed(Opening(v)) = Body /\ Carries(Opening(v), 1, m)
<1> DEFINE head == <<Mark("head")>>
<1>1. Mark("head") \in Item /\ Mark("head").kind = "head" /\ head = Append(<<>>, Mark("head"))
      /\ <<>> \in Seq(Item)
  BY MarkTyped
<1>2. head \in Seq(Item) /\ \A i \in DOMAIN head : head[i].kind # "data"
  BY <1>1
<1>3. Parsed(head) = Body
  <2>1. Parsed(head) = Accept(Mark("head"), Start)
    BY <1>1, ParsedAppend, ParsedNothing
  <2>2. QED
    BY <1>1, <2>1 DEF Accept, Start, Body
<1> HIDE DEF head
<1>4. Carries(head, 1, 0)
  <2>1. Carries(head, 0 + 1, 0)
    BY <1>2, CarriesNone
  <2>2. QED
    BY <2>1
<1>5. CASE v = <<>>
  <2>1. m < 1
    <3>1. \A i \in DOMAIN v : v[i].kind # "data"
      BY <1>5
    <3>2. 1 \in Nat
      OBVIOUS
    <3>3. QED
      BY ONLY v \in Seq(Item), m \in Nat, Carries(v, 1, m), <3>1, <3>2, CarriesNothing
  <2>2. m = 0
    BY <2>1
  <2>3. QED
    BY <1>2, <1>3, <1>4, <1>5, <2>2 DEF Opening, head
<1>6. CASE v # <<>>
  <2>1. Carries(Chunk(v), 1, m)
    BY CarriesChunk
  <2>2. Carries(Chunk(v), 0 + 1, m)
    BY <2>1
  <2>3. Chunk(v) \in Seq(Item)
    BY <1>2, ChunkIs
  <2>4. head \o Chunk(v) \in Seq(Item)
    BY <1>2, <2>3, ConcatProperties
  <2>5. Carries(head \o Chunk(v), 1, m)
    <3>1. 1 \in Nat /\ 0 \in Nat /\ 1 <= 0 + 1 /\ 0 <= m
      OBVIOUS
    <3>2. QED
      BY <1>2, <1>4, <2>2, <2>3, <3>1, CarriesJoin
  <2>6. Parsed(head \o Chunk(v)) = Body
    BY <1>2, <1>3, ParsedChunk
  <2>7. QED
    BY <1>6, <2>4, <2>5, <2>6 DEF Opening, head
<1>7. QED
  BY <1>5, <1>6

\* What a handler leaves, x, with p handed to the kernel and q in the pipe,
\* unless an exception is on its way.
Fine(p, x, q) ==
  /\ x \in Relay /\ Len(x.out) <= Most
  /\ Roomy => ~x.thrown
  /\ x.thrown \/ Stage(p, x, q) \/ (x.client = "CLOSED" /\ x.job # "runs")

LEMMA ThrowsFine ==
  ASSUME NEW p, NEW x, NEW q, Throws(x)
  PROVE  Fine(p, x, q)
BY DEF Throws, Fine

LEMMA RefusesFine ==
  ASSUME NEW x, NEW q, Refuses(x)
  PROVE  Fine(<<>>, x, q)
<1> DEFINE error == <<Mark("error")>>
<1>1. /\ Mark("error") \in Item /\ Mark("error").kind = "error" /\ error = Append(<<>>, Mark("error"))
      /\ <<>> \in Seq(Item) /\ <<>> \o error = error /\ Len(error) = 1
  BY MarkTyped
<1>2. Parsed(error) = Done
  <2>1. Parsed(error) = Accept(Mark("error"), Start)
    BY <1>1, ParsedAppend, ParsedNothing
  <2>2. QED
    BY <1>1, <2>1 DEF Accept, Start, Done
<1> HIDE DEF error
<1>3. Refuses(x) => x.out = error
  BY DEF Refuses, error
<1>4. Parsed(<<>> \o x.out) = Done /\ Len(x.out) = 1
  BY ONLY <1>1, <1>2, <1>3, Refuses(x)
<1>5. Len(x.out) <= Most
  BY <1>4, MostIs
<1>6. Failed(<<>>, x)
  BY <1>4 DEF Refuses, Failed
<1>7. QED
  BY <1>5, <1>6 DEF Refuses, Fine, Stage

\* r stands where chunks go out, or everything has.
LEMMA FailsFine ==
  ASSUME NEW p \in Seq(Item), NEW r, r.out \in Seq(Item), NEW x, NEW q, Fails(r, x),
         Roomy => Parsed(p \o r.out) = Body
  PROVE  Fine(p, x, q)
<1>1. Roomy => Parsed(p \o x.out) = Done
  <2>1. SUFFICES ASSUME Roomy PROVE Parsed(p \o x.out) = Done
    OBVIOUS
  <2>2. x.out = Append(r.out, Mark("last"))
    BY <2>1 DEF Fails
  <2>3. Mark("last") \in Item /\ Mark("last").kind = "last"
    BY MarkTyped
  <2> DEFINE P == p \o r.out
  <2>4. P \in Seq(Item) /\ p \o x.out = Append(P, Mark("last"))
    BY <2>2, <2>3, ConcatAppend, ConcatProperties
  <2>5. Parsed(P) = Body
    BY <2>1
  <2> HIDE DEF P
  <2>6. Parsed(p \o x.out) = Accept(Mark("last"), Body)
    BY <2>3, <2>4, <2>5, ParsedAppend
  <2>7. QED
    BY <2>3, <2>6 DEF Accept, Body, Done
<1>2. Failed(p, x)
  BY <1>1 DEF Fails, Failed
<1>3. QED
  BY <1>2 DEF Fails, Fine, Stage

\* While the header block is collected.
LEMMA CollectFine ==
  ASSUME TypeOK, NEW p, NEW r \in Relay, ~r.thrown, Collecting(p, r, pipe)
  PROVE  Fine(p, HandleCgiEvent(r), PipeAfter(r))
<1> DEFINE x == HandleCgiEvent(r)
           q == PipeAfter(r)
<1>1. /\ Unsent(r) /\ AllOf(r.header, "part") /\ p = <<>> /\ Output(pipe)
      /\ Carries(pipe, 1, script.data)
  BY DEF Collecting, Unsent
<1>2. \/ x = r /\ q = pipe
      \/ Collects(r, x, q) \/ Refuses(x) \/ Begins(r, x, q) \/ Breaks(r, x) \/ Throws(x)
  BY <1>1, CollectEvent
<1>3. /\ pipe \in Seq(Item) /\ Len(pipe) \in Nat /\ r.header \in Seq(Item) /\ Len(r.header) \in Nat
      /\ script.data \in Nat /\ <<>> \in Seq(Item) /\ DOMAIN r.header = 1 .. Len(r.header)
  BY Sizes, LenProperties DEF TypeOK, Relay, Script
<1> HIDE DEF x, q
<1>4. CASE x = r /\ q = pipe
  <2>1. Len(r.out) <= Most
    BY <1>1, MostIs DEF Unsent
  <2>2. QED
    BY <1>4, <2>1 DEF Fine, Stage, x, q
<1>5. CASE Throws(x)
  BY <1>5, ThrowsFine DEF x, q
<1>6. CASE Refuses(x)
  BY <1>1, <1>6, RefusesFine DEF x, q
<1>7. CASE Breaks(r, x)
  <2>1. r.out \in Seq(Item) /\ ~Roomy /\ Fails(r, x)
    BY <1>7 DEF Relay, Breaks
  <2>2. QED
    BY <1>1, <1>3, <2>1, FailsFine DEF x, q
\* The first k items of the pipe, taken.
<1>8. \A k \in 1 .. Len(pipe) :
        LET t == SubSeq(pipe, 1, k)
        IN  /\ t \in Seq(Item) /\ Len(t) = k /\ \A i \in 1 .. k : t[i] = pipe[i]
            /\ r.header \o t \in Seq(Item) /\ Len(r.header \o t) = Len(r.header) + k
            /\ \A i \in 1 .. Len(r.header) : (r.header \o t)[i] = r.header[i]
            /\ \A i \in 1 .. k : (r.header \o t)[Len(r.header) + i] = t[i]
  <2>1. SUFFICES ASSUME NEW k \in 1 .. Len(pipe)
                 PROVE  LET t == SubSeq(pipe, 1, k)
                        IN  /\ t \in Seq(Item) /\ Len(t) = k /\ \A i \in 1 .. k : t[i] = pipe[i]
                            /\ r.header \o t \in Seq(Item) /\ Len(r.header \o t) = Len(r.header) + k
                            /\ \A i \in 1 .. Len(r.header) : (r.header \o t)[i] = r.header[i]
                            /\ \A i \in 1 .. k : (r.header \o t)[Len(r.header) + i] = t[i]
    OBVIOUS
  <2> DEFINE t == SubSeq(pipe, 1, k)
             s == r.header
             u == s \o t
  <2>2. t \in Seq(Item) /\ Len(t) = k /\ \A i \in 1 .. k : t[i] = pipe[i]
    <3>1. \A i \in 1 .. k : pipe[i] \in Item
      BY <1>3, ElementOfSeq
    <3>2. QED
      BY <1>3, <3>1, SubSeqProperties
  <2>3. s \in Seq(Item) /\ Len(s) \in Nat /\ k \in Nat
    BY <1>3
  <2> HIDE DEF t, s
  <2>4. /\ s \o t \in Seq(Item) /\ Len(s \o t) = Len(s) + Len(t)
        /\ \A i \in 1 .. Len(s) + Len(t) : (s \o t)[i] = IF i <= Len(s) THEN s[i] ELSE t[i - Len(s)]
    BY ONLY <2>2, <2>3, ConcatProperties
  <2> HIDE DEF u
  <2>5. /\ u \in Seq(Item) /\ Len(u) = Len(s) + k
        /\ \A i \in 1 .. Len(s) + k : u[i] = IF i <= Len(s) THEN s[i] ELSE t[i - Len(s)]
    BY ONLY <2>2, <2>4 DEF u
  <2>6. \A i \in 1 .. Len(s) : u[i] = s[i]
    BY ONLY <2>3, <2>5
  <2>7. \A i \in 1 .. k : u[Len(s) + i] = t[i]
    BY ONLY <2>3, <2>5
  <2>8. QED
    BY <2>2, <2>5, <2>6, <2>7 DEF t, s, u
<1>9. CASE Collects(r, x, q)
  <2>1. PICK k \in 1 .. Len(pipe) : /\ q = SubSeq(pipe, k + 1, Len(pipe))
                                    /\ x.header = r.header \o SubSeq(pipe, 1, k)
                                    /\ \A i \in DOMAIN x.header : x.header[i] # Mark("gap")
    BY <1>9 DEF Collects
  <2> DEFINE t == SubSeq(pipe, 1, k)
             u == r.header \o t
  <2>2. /\ t \in Seq(Item) /\ Len(t) = k /\ \A i \in 1 .. k : t[i] = pipe[i]
        /\ u \in Seq(Item) /\ Len(u) = Len(r.header) + k
        /\ \A i \in 1 .. Len(r.header) : u[i] = r.header[i]
        /\ \A i \in 1 .. k : u[Len(r.header) + i] = t[i]
    BY <1>8
  <2>3. x.header = u
    BY <2>1
  <2> HIDE DEF t, u
  <2>4. k \in Nat /\ DOMAIN u = 1 .. Len(r.header) + k
    BY <1>3, <2>2
  <2>5. \A i \in 1 .. k : t[i] # Mark("gap")
    <3>1. SUFFICES ASSUME NEW i \in 1 .. k PROVE t[i] # Mark("gap")
      OBVIOUS
    <3>2. Len(r.header) + i \in DOMAIN u
      BY <1>3, <2>4
    <3>3. QED
      BY <2>1, <2>2, <2>3, <3>2
  <2>6. AllOf(t, "part") /\ Output(q)
    <3>1. k \in 0 .. Len(pipe)
      BY <1>3
    <3>2. LET rest == SubSeq(pipe, k + 1, Len(pipe))
          IN  \/ AllOf(t, "part") /\ Output(rest)
              \/ Parted(t)
      BY <1>1, <1>3, <2>2, <3>1, OutputCut
    <3>3. ~Parted(t)
      BY <2>2, <2>5 DEF Parted
    <3>4. QED
      BY <2>1, <3>2, <3>3
  <2>7. Carries(q, 1, script.data)
    <3>1. k \in 0 .. Len(pipe) /\ DOMAIN t = 1 .. k
      BY <1>3, <2>2
    <3>2. \A i \in 1 .. k : pipe[i].kind # "data"
      BY <2>2, <2>6, <3>1 DEF AllOf
    <3>3. QED
      BY <1>1, <1>3, <2>1, <3>1, <3>2, CarriesBehind
  <2>8. AllOf(x.header, "part")
    <3>1. DOMAIN t = 1 .. k
      BY <2>2
    <3>2. \A i \in 1 .. Len(r.header) : u[i].kind = "part"
      BY <1>1, <1>3, <2>2 DEF AllOf
    <3>3. \A i \in 1 .. k : u[Len(r.header) + i].kind = "part"
      <4>1. \A i \in 1 .. k : t[i].kind = "part"
        BY <2>6, <3>1 DEF AllOf
      <4>2. QED
        BY ONLY <2>2, <4>1
    <3>4. \A j \in 1 .. Len(r.header) + k : u[j].kind = "part"
      <4>1. SUFFICES ASSUME NEW j \in 1 .. Len(r.header) + k PROVE u[j].kind = "part"
        OBVIOUS
      <4>2. CASE j <= Len(r.header)
        BY <1>3, <3>2, <4>2
      <4>3. CASE ~(j <= Len(r.header))
        <5>1. j - Len(r.header) \in 1 .. k /\ Len(r.header) + (j - Len(r.header)) = j
          BY <1>3, <2>4, <4>3
        <5>2. QED
          BY <3>3, <5>1
      <4>4. QED
        BY <4>2, <4>3
    <3>5. QED
      BY <2>3, <2>4, <3>4 DEF AllOf
  <2>9. Collecting(p, x, q)
    BY <1>1, <1>9, <2>6, <2>7, <2>8 DEF Collects, Unsent, Collecting
  <2>10. Len(x.out) <= Most
    BY <1>9, MostIs DEF Collects, Unsent
  <2>11. QED
    BY <1>9, <2>9, <2>10 DEF Collects, Unsent, Fine, Stage, x, q
<1>10. CASE Begins(r, x, q)
  <2>1. PICK k \in 1 .. Len(pipe) :
          LET u == r.header \o SubSeq(pipe, 1, k)
          IN  /\ q = SubSeq(pipe, k + 1, Len(pipe))
              /\ \E g \in DOMAIN u : /\ u[g] = Mark("gap")
                                     /\ x.out = Opening(SubSeq(u, g + 1, Len(u)))
    BY <1>10 DEF Begins
  <2> DEFINE t == SubSeq(pipe, 1, k)
             h == Len(r.header)
             u == r.header \o t
  <2>2. /\ t \in Seq(Item) /\ Len(t) = k /\ \A i \in 1 .. k : t[i] = pipe[i]
        /\ u \in Seq(Item) /\ Len(u) = h + k
        /\ \A i \in 1 .. h : u[i] = r.header[i]
        /\ \A i \in 1 .. k : u[h + i] = t[i]
    BY <1>8
  <2>3. PICK g \in DOMAIN u : u[g] = Mark("gap") /\ x.out = Opening(SubSeq(u, g + 1, Len(u)))
    BY <2>1
  <2>4. h \in Nat /\ k \in Nat /\ k \in 0 .. Len(pipe) /\ \A i \in 1 .. h : r.header[i].kind = "part"
    BY <1>1, <1>3 DEF AllOf
  <2> DEFINE v == SubSeq(u, g + 1, Len(u))
  <2>5. Carries(r.header, 1, 0)
    <3>1. \A i \in DOMAIN r.header : r.header[i].kind # "data"
      BY <1>1 DEF AllOf
    <3>2. Carries(r.header, 0 + 1, 0)
      BY <1>3, <3>1, CarriesNone
    <3>3. QED
      BY <3>2
  <2>6. \/ AllOf(t, "part") /\ Output(q)
        \/ script.gap /\ AllOf(q, "data") /\ Parted(t)
    <3> HIDE DEF t
    <3>1. LET rest == SubSeq(pipe, k + 1, Len(pipe))
          IN  \/ AllOf(t, "part") /\ Output(rest)
              \/ script.gap /\ AllOf(rest, "data") /\ Parted(t)
      BY <1>1, <1>3, <2>2, <2>4, OutputCut
    <3>2. QED
      BY <2>1, <3>1
  <2>7. PICK m \in 1 - 1 .. script.data : Carries(t, 1, m) /\ Carries(q, m + 1, script.data)
    <3>1. 1 \in Nat \ {0} /\ 1 <= script.data + 1
      BY <1>3
    <3>2. QED
      BY <1>1, <1>3, <2>1, <2>4, <3>1, CarriesSplit
  <2>8. m \in 0 .. script.data /\ m \in Nat
    BY <1>3, <2>7
  <2>9. Carries(u, 1, m)
    <3>1. 1 \in Nat /\ 0 \in Nat /\ 1 <= 0 + 1 /\ 0 <= m /\ Carries(t, 0 + 1, m)
      BY <2>7, <2>8
    <3>2. QED
      BY <1>3, <2>2, <2>5, <2>8, <3>1, CarriesJoin
  <2> HIDE DEF t, u, v, h
  <2>10. g \in 1 .. h + k /\ u[g].kind = "gap" /\ DOMAIN u = 1 .. h + k
    BY <2>2, <2>3, <2>4, MarkTyped
  <2>11. g \in h + 1 .. h + k
    <3>1. ASSUME g \in 1 .. h PROVE FALSE
      BY <2>2, <2>4, <2>10, <3>1
    <3>2. QED
      BY <2>4, <2>10, <3>1
  <2>12. g - h \in 1 .. k /\ t[g - h] = Mark("gap") /\ t[g - h].kind = "gap"
    <3>1. g - h \in 1 .. k /\ h + (g - h) = g
      BY <2>4, <2>11
    <3>2. QED
      BY <2>2, <2>3, <2>10, <3>1
  <2>13. ~AllOf(t, "part")
    <3>1. g - h \in DOMAIN t
      BY <2>2, <2>12
    <3>2. QED
      BY <2>12, <3>1 DEF AllOf
  <2>14. PICK e \in 1 .. k : /\ t[e] = Mark("gap")
                             /\ \A i \in 1 .. e - 1 : t[i].kind = "part"
                             /\ \A i \in e + 1 .. k : t[i].kind = "data"
    BY <2>2, <2>6, <2>13 DEF Parted
  <2>15. g = h + e
    BY <2>4, <2>10, <2>11, <2>12, <2>14
  <2>16. \A i \in 1 .. g : u[i].kind # "data"
    <3>1. SUFFICES ASSUME NEW i \in 1 .. g PROVE u[i].kind # "data"
      OBVIOUS
    <3>2. CASE i <= h
      <4>1. i \in 1 .. h
        BY <2>4, <3>2
      <4>2. QED
        BY <2>2, <2>4, <4>1
    <3>3. CASE i = g
      BY <2>10, <3>3
    <3>4. CASE ~(i <= h) /\ i # g
      <4>1. i - h \in 1 .. e - 1 /\ i - h \in 1 .. k /\ h + (i - h) = i
        BY <2>4, <2>15, <3>4
      <4>2. QED
        BY <2>2, <2>14, <4>1
    <3>5. QED
      BY <3>2, <3>3, <3>4
  <2>17. g \in 0 .. Len(u) /\ Len(u) \in Nat
    BY <2>2, <2>4, <2>10
  <2>18. v \in Seq(Item) /\ Len(v) = (h + k) - g /\ \A i \in 1 .. (h + k) - g : v[i] = u[g + i]
    BY <2>2, <2>17, TailItems DEF v
  <2>19. Carries(v, 1, m)
    BY <2>2, <2>8, <2>9, <2>16, <2>17, CarriesBehind DEF v
  <2>20. AllOf(v, "data")
    <3>1. \A i \in 1 .. (h + k) - g : v[i].kind = "data"
      <4>1. SUFFICES ASSUME NEW i \in 1 .. (h + k) - g PROVE v[i].kind = "data"
        OBVIOUS
      <4>2. g + i = h + (e + i) /\ e + i \in e + 1 .. k /\ e + i \in 1 .. k
        BY <2>4, <2>11, <2>15
      <4>3. v[i] = t[e + i]
        BY <2>2, <2>18, <4>2
      <4>4. QED
        BY <2>14, <4>2, <4>3
    <3>2. DOMAIN v = 1 .. (h + k) - g
      BY <2>18
    <3>3. QED
      BY <3>1, <3>2 DEF AllOf
  <2>21. x.out \in Seq(Item) /\ Parsed(x.out) = Body /\ Carries(x.out, 1, m)
    BY <2>3, <2>8, <2>18, <2>19, <2>20, OpeningIs DEF v
  <2>22. p \o x.out = x.out
    BY <1>1, <2>21, ConcatEmptySeq
  <2>23. Len(x.out) \in Nat /\ Len(x.out) <= Most /\ Len(x.out) <= HighWater + ReadSize + 1
    BY <1>10, <2>21, LenProperties, MostIs DEF Begins
  <2>24. Streaming(p, x, q)
    BY <1>10, <2>6, <2>7, <2>8, <2>13, <2>21, <2>22, <2>23 DEF Begins, Streaming
  <2>25. QED
    BY <1>10, <2>23, <2>24 DEF Begins, Fine, Stage, x, q
<1>11. QED
  BY <1>2, <1>4, <1>5, <1>6, <1>7, <1>9, <1>10 DEF x, q

\* While chunks go out.
LEMMA StreamFine ==
  ASSUME TypeOK, NEW p \in Seq(Item), NEW r \in Relay, ~r.thrown, Streaming(p, r, pipe)
  PROVE  Fine(p, HandleCgiEvent(r), PipeAfter(r))
<1> DEFINE x == HandleCgiEvent(r)
           q == PipeAfter(r)
           P == p \o r.out
<1>1. /\ r.job = "runs" /\ r.headersSent /\ r.client = "WRITING" /\ r.header = <<>> /\ script.gap
      /\ AllOf(pipe, "data") /\ Parsed(P) = Body /\ Len(r.out) <= HighWater + ReadSize + 1
  BY DEF Streaming
<1>2. PICK c \in 0 .. script.data : Carries(P, 1, c) /\ Carries(pipe, c + 1, script.data)
  BY DEF Streaming
<1>3. /\ pipe \in Seq(Item) /\ Len(pipe) \in Nat /\ r.out \in Seq(Item) /\ Len(r.out) \in Nat
      /\ script.data \in Nat /\ c \in Nat /\ c <= script.data
  BY Sizes, LenProperties DEF TypeOK, Relay, Script
<1>4. Len(r.out) < Most
  BY <1>1, <1>3, MostIs
<1>5. \/ x = r /\ q = pipe
      \/ Relays(r, x, q)
      \/ Fails(r, x)
      \/ Finishes(r, x) /\ pipe = <<>>
      \/ Throws(x)
  BY <1>1, <1>4, StreamEvent
<1>6. P \in Seq(Item)
  BY <1>3, ConcatProperties
<1> HIDE DEF x, q
<1>7. CASE x = r /\ q = pipe
  <2>1. Len(r.out) <= Most
    BY <1>3, <1>4, MostIs
  <2>2. QED
    BY <1>7, <2>1 DEF Fine, Stage, x, q
<1>8. CASE Relays(r, x, q)
  <2>1. PICK k \in 1 .. Len(pipe) : /\ q = SubSeq(pipe, k + 1, Len(pipe))
                                    /\ x.out = r.out \o Chunk(SubSeq(pipe, 1, k))
    BY <1>8 DEF Relays
  <2> DEFINE t == SubSeq(pipe, 1, k)
  <2>2. /\ t \in Seq(Item) /\ Len(t) = k /\ k \in 0 .. Len(pipe) /\ k \in Nat
        /\ \A i \in 1 .. k : t[i] = pipe[i]
    <3>1. \A i \in 1 .. k : pipe[i] \in Item
      BY <1>3, ElementOfSeq
    <3>2. QED
      BY <1>3, <3>1, SubSeqProperties
  <2>3. AllOf(t, "data")
    <3>1. DOMAIN t = 1 .. k /\ DOMAIN pipe = 1 .. Len(pipe)
      BY <1>3, <2>2
    <3>2. \A i \in 1 .. k : t[i].kind = "data"
      BY <1>1, <2>2, <3>1 DEF AllOf
    <3>3. QED
      BY <3>1, <3>2 DEF AllOf
  <2>4. AllOf(q, "data")
    <3> DEFINE rest == SubSeq(pipe, k + 1, Len(pipe))
    <3>1. /\ rest \in Seq(Item) /\ Len(rest) = Len(pipe) - k
          /\ \A i \in 1 .. Len(pipe) - k : rest[i] = pipe[k + i]
      BY <1>3, <2>2, TailItems
    <3> HIDE DEF rest
    <3>2. \A i \in 1 .. Len(pipe) - k : rest[i].kind = "data"
      <4>1. SUFFICES ASSUME NEW i \in 1 .. Len(pipe) - k PROVE rest[i].kind = "data"
        OBVIOUS
      <4>2. k + i \in DOMAIN pipe
        BY <1>3, <2>2
      <4>3. pipe[k + i].kind = "data"
        BY <1>1, <4>2 DEF AllOf
      <4>4. QED
        BY <3>1, <4>3
    <3>3. DOMAIN rest = 1 .. Len(pipe) - k
      BY <3>1
    <3>4. QED
      BY <2>1, <3>2, <3>3 DEF AllOf, rest
  <2>5. PICK m \in (c + 1) - 1 .. script.data :
          Carries(t, c + 1, m) /\ Carries(q, m + 1, script.data)
    <3>1. c + 1 \in Nat \ {0} /\ c + 1 <= script.data + 1
      BY <1>3
    <3>2. QED
      BY <1>2, <1>3, <2>1, <2>2, <3>1, CarriesSplit
  <2>6. m \in 0 .. script.data /\ m \in Nat /\ c <= m /\ c + 1 <= m + 1 /\ c + 1 \in Nat \ {0}
    BY <1>3, <2>5
  <2> HIDE DEF t, P
  <2>7. Chunk(t) \in Seq(Item) /\ Carries(Chunk(t), c + 1, m)
    BY <2>2, <2>5, <2>6, ChunkIs, CarriesChunk
  <2>8. p \o x.out = P \o Chunk(t)
    <3>1. x.out = r.out \o Chunk(t)
      BY <2>1 DEF t
    <3>2. p \o (r.out \o Chunk(t)) = (p \o r.out) \o Chunk(t)
      <4>1. r.out \in Seq(Item) /\ Chunk(t) \in Seq(Item)
        BY <1>3, <2>7
      <4>2. QED
        BY <4>1, Together
    <3>3. QED
      BY <3>1, <3>2 DEF P
  <2>9. Carries(P \o Chunk(t), 1, m)
    <3>1. 1 \in Nat /\ 1 <= c + 1
      BY <1>3
    <3>2. QED
      BY <1>2, <1>3, <1>6, <2>6, <2>7, <3>1, CarriesJoin
  <2>10. Parsed(P \o Chunk(t)) = Body
    BY <1>1, <1>6, <2>2, <2>3, ParsedChunk
  <2>11. Len(x.out) \in Nat /\ Len(x.out) <= Most /\ Len(x.out) <= HighWater + ReadSize + 1
    <3>1. Len(x.out) \in Nat /\ Len(x.out) < Most
      BY <1>8, LenProperties DEF Relays, Relay
    <3>2. QED
      BY <3>1, MostIs
  <2>12. Streaming(p, x, q)
    BY <1>1, <1>8, <2>4, <2>5, <2>6, <2>8, <2>9, <2>10, <2>11 DEF Relays, Streaming
  <2>13. QED
    BY <1>8, <2>11, <2>12 DEF Relays, Fine, Stage, x, q
<1>9. CASE Fails(r, x)
  BY <1>1, <1>3, <1>9, FailsFine DEF x, q
<1>10. CASE Finishes(r, x) /\ pipe = <<>>
  <2>1. c = script.data
    <3>1. \A i \in DOMAIN pipe : pipe[i].kind # "data"
      BY <1>10
    <3>2. script.data < c + 1
      <4>1. c + 1 \in Nat
        BY <1>3
      <4>2. QED
        BY <1>2, <1>3, <3>1, <4>1, CarriesNothing
    <3>3. QED
      BY <1>3, <3>2
  <2>2. CASE request.head
    <3>1. Carries(p \o x.out, 1, script.data) /\ Parsed(p \o x.out) = Body
      BY <1>1, <1>2, <1>10, <2>1, <2>2 DEF Finishes
    <3>2. Finished(p, x)
      BY <1>10, <2>2, <3>1 DEF Finishes, Finished
    <3>3. QED
      BY <1>10, <3>2 DEF Finishes, Fine, Stage, x, q
  <2>3. CASE ~request.head
    <3>1. Mark("last") \in Item /\ Mark("last").kind = "last"
      BY MarkTyped
    <3>2. p \o x.out = Append(P, Mark("last"))
      BY <1>3, <1>10, <2>3, <3>1, ConcatAppend DEF Finishes
    <3> HIDE DEF P
    <3>3. Carries(Append(P, Mark("last")), 1, script.data)
      BY <1>2, <1>3, <1>6, <2>1, CarriesMark
    <3>4. Parsed(Append(P, Mark("last"))) = Done
      <4>1. Parsed(Append(P, Mark("last"))) = Accept(Mark("last"), Body)
        BY <1>1, <1>6, <3>1, ParsedAppend
      <4>2. QED
        BY <3>1, <4>1 DEF Accept, Body, Done
    <3>5. Finished(p, x)
      BY <1>10, <2>3, <3>2, <3>3, <3>4 DEF Finishes, Finished
    <3>6. QED
      BY <1>10, <3>5 DEF Finishes, Fine, Stage, x, q
  <2>4. QED
    BY <2>2, <2>3
<1>11. CASE Throws(x)
  BY <1>11, ThrowsFine DEF x, q
<1>12. QED
  BY <1>5, <1>7, <1>8, <1>9, <1>10, <1>11 DEF x, q

\* Whatever the stage.
LEMMA EventFine ==
  ASSUME TypeOK, NEW p \in Seq(Item), NEW r \in Relay, ~r.thrown, Len(r.out) <= Most,
         Stage(p, r, pipe)
  PROVE  Fine(p, HandleCgiEvent(r), PipeAfter(r))
<1>1. CASE Collecting(p, r, pipe)
  BY <1>1, CollectFine
<1>2. CASE Streaming(p, r, pipe)
  BY <1>2, StreamFine
<1>3. CASE r.job # "runs"
  <2>1. HandleCgiEvent(r) = r /\ PipeAfter(r) = pipe
    BY <1>3 DEF HandleCgiEvent, PipeAfter, ReadsPipe
  <2>2. QED
    BY <2>1 DEF Fine
<1>4. QED
  BY <1>1, <1>2, <1>3 DEF Stage, Finished, Failed

-----------------------------------------------------------------------------
(* Writing keeps the stage. *)

LEMMA FlushedIs ==
  ASSUME TypeOK, NEW p \in Seq(Item), NEW r \in Relay
  PROVE  LET f == Flushed(r)
         IN  /\ f \in Relay /\ Len(f.out) \in Nat /\ Len(f.out) <= Len(r.out)
             /\ f.client = r.client /\ f.job = r.job /\ f.headersSent = r.headersSent
             /\ f.header = r.header /\ f.close = r.close /\ f.thrown = r.thrown
             /\ Taken(r) \in Seq(Item) /\ Len(socket \o Taken(r)) <= SocketSize
             /\ socket \o Taken(r) \in Seq(Item)
             /\ p \o Taken(r) \in Seq(Item)
             /\ (p \o Taken(r)) \o f.out = p \o r.out
             /\ r.out = <<>> => Taken(r) = <<>> /\ f.out = <<>>
<1> DEFINE out == r.out
           n   == Least(Len(out), SocketSize - Len(socket))
           t   == SubSeq(out, 1, n)
           b   == SubSeq(out, n + 1, Len(out))
<1>1. /\ out \in Seq(Item) /\ Len(out) \in Nat /\ socket \in Seq(Item) /\ Len(socket) \in Nat
      /\ Len(socket) <= SocketSize /\ SocketSize \in Nat
  BY MostIs, LenProperties DEF TypeOK, Relay
<1> HIDE DEF out
<1>2. n \in 0 .. Len(out) /\ n \in Nat /\ Len(socket) + n <= SocketSize
  BY <1>1 DEF Least
<1> HIDE DEF n
<1>3. t \in Seq(Item) /\ Len(t) = n /\ \A i \in 1 .. n : t[i] = out[i]
  <2>1. CASE n = 0
    <3>1. t = <<>>
      <4>1. 1 \in Int /\ n \in Int /\ n < 1
        BY <2>1
      <4>2. QED
        BY <4>1, SubSeqEmpty
    <3>2. QED
      BY <2>1, <3>1
  <2>2. CASE n # 0
    <3>1. \A i \in 1 .. n : out[i] \in Item
      BY <1>1, <1>2, ElementOfSeq
    <3>2. QED
      BY <1>1, <1>2, <2>2, <3>1, SubSeqProperties
  <2>3. QED
    BY <2>1, <2>2
<1>4. b \in Seq(Item) /\ Len(b) = Len(out) - n /\ \A i \in 1 .. Len(out) - n : b[i] = out[n + i]
  BY <1>1, <1>2, TailItems
<1>5. Taken(r) = t
  BY DEF Taken, n, out
<1> HIDE DEF t
<1>6. Flushed(r) = [r EXCEPT !.out = b]
  BY <1>3, <1>5 DEF Flushed, out
<1> HIDE DEF b
<1> DEFINE f == Flushed(r)
<1>7. /\ f \in Relay /\ f.out = b
      /\ f.client = r.client /\ f.job = r.job /\ f.headersSent = r.headersSent
      /\ f.header = r.header /\ f.close = r.close /\ f.thrown = r.thrown
  BY <1>4, <1>6 DEF Relay
<1> HIDE DEF f
<1>8. t \o b = out
  <2>1. /\ t \o b \in Seq(Item) /\ Len(t \o b) = Len(t) + Len(b)
        /\ \A i \in 1 .. Len(t) + Len(b) : (t \o b)[i] = IF i <= Len(t) THEN t[i] ELSE b[i - Len(t)]
    BY ONLY <1>3, <1>4, ConcatProperties
  <2> DEFINE u == t \o b
  <2>2. /\ u \in Seq(Item) /\ Len(u) = Len(out)
        /\ \A i \in 1 .. Len(out) : u[i] = IF i <= n THEN t[i] ELSE b[i - n]
    BY <1>1, <1>2, <1>3, <1>4, <2>1
  <2> HIDE DEF u
  <2>3. \A i \in 1 .. Len(out) : u[i] = out[i]
    <3>1. SUFFICES ASSUME NEW i \in 1 .. Len(out) PROVE u[i] = out[i]
      OBVIOUS
    <3>2. CASE i <= n
      <4>1. i \in 1 .. n
        BY <1>2, <3>2
      <4>2. QED
        BY <1>3, <2>2, <3>2, <4>1
    <3>3. CASE ~(i <= n)
      <4>1. i - n \in 1 .. Len(out) - n /\ n + (i - n) = i
        BY <1>1, <1>2, <3>3
      <4>2. QED
        BY <1>4, <2>2, <3>3, <4>1
    <3>4. QED
      BY <3>2, <3>3
  <2>4. u = out
    BY <1>1, <2>2, <2>3, SeqEqual
  <2>5. QED
    BY <2>4 DEF u
<1>9. p \o t \in Seq(Item) /\ socket \o t \in Seq(Item) /\ Len(socket \o t) = Len(socket) + Len(t)
  BY <1>1, <1>3, ConcatProperties
<1>10. (p \o t) \o b = p \o out
  <2>1. p \o (t \o b) = (p \o t) \o b
    BY <1>3, <1>4, Together
  <2>2. QED
    BY <1>8, <2>1
<1>11. out = <<>> => t = <<>> /\ b = <<>>
  <2>1. SUFFICES ASSUME out = <<>> PROVE t = <<>> /\ b = <<>>
    OBVIOUS
  <2>2. Len(out) = 0 /\ n = 0
    BY <1>2, <2>1
  <2>3. Len(t) = 0 /\ Len(b) = 0
    BY <1>3, <1>4, <2>2
  <2>4. QED
    BY <1>3, <1>4, <2>3, EmptySeq
<1>12. Len(f.out) \in Nat /\ Len(f.out) <= Len(r.out)
  BY <1>1, <1>2, <1>4, <1>7 DEF out
<1>13. Len(socket \o t) <= SocketSize
  BY <1>2, <1>3, <1>9
<1>14. QED
  BY <1>3, <1>5, <1>7, <1>9, <1>10, <1>11, <1>12, <1>13 DEF f, out

\* A flush moves items from the buffer to the socket, and that is all.
LEMMA FlushStage ==
  ASSUME TypeOK, NEW p \in Seq(Item), NEW r \in Relay, Stage(p, r, pipe)
  PROVE  Stage(p \o Taken(r), Flushed(r), pipe)
<1> DEFINE f == Flushed(r)
           t == Taken(r)
           w == p \o t
<1>1. /\ f \in Relay /\ Len(f.out) \in Nat /\ Len(f.out) <= Len(r.out)
      /\ f.client = r.client /\ f.job = r.job /\ f.headersSent = r.headersSent
      /\ f.header = r.header /\ f.close = r.close
      /\ w \o f.out = p \o r.out
      /\ r.out = <<>> => t = <<>> /\ f.out = <<>>
  BY FlushedIs
<1> HIDE DEF f, t
<1>2. Len(r.out) \in Nat
  BY LenProperties DEF Relay
<1>3. CASE Collecting(p, r, pipe)
  <2>1. t = <<>> /\ f.out = <<>> /\ p = <<>>
    BY <1>1, <1>3 DEF Collecting
  <2>2. w = <<>>
    BY <2>1
  <2> HIDE DEF w
  <2>3. Collecting(w, f, pipe)
    BY <1>1, <1>3, <2>1, <2>2 DEF Collecting
  <2>4. QED
    BY <2>3 DEF Stage, f, t, w
<1> HIDE DEF w
<1>4. CASE Streaming(p, r, pipe)
  <2>1. Len(f.out) <= HighWater + ReadSize + 1
    BY <1>1, <1>2, <1>4, MostIs DEF Streaming
  <2>2. Streaming(w, f, pipe)
    BY <1>1, <1>4, <2>1 DEF Streaming
  <2>3. QED
    BY <2>2 DEF Stage, f, t, w
<1>5. CASE /\ Finished(p, r) \/ Failed(p, r)
           /\ r.client = "WRITING" \/ (r.client = "READING" /\ r.out = <<>>)
  <2>1. Finished(p, r) => Finished(w, f)
    BY <1>1 DEF Finished
  <2>2. Failed(p, r) => Failed(w, f)
    BY <1>1 DEF Failed
  <2>3. f.client = "WRITING" \/ (f.client = "READING" /\ f.out = <<>>)
    BY <1>1, <1>5
  <2>4. QED
    BY <1>5, <2>1, <2>2, <2>3 DEF Stage, f, t, w
<1>6. QED
  BY <1>3, <1>4, <1>5 DEF Stage

LEMMA WriteFine ==
  ASSUME TypeOK, NEW p \in Seq(Item), NEW r \in Relay, ~r.thrown, Len(r.out) <= Most,
         Stage(p, r, pipe)
  PROVE  Fine(p \o Taken(r), HandleWrite(r),
              IF Pumps(Flushed(r)) THEN PipeAfter(Flushed(r)) ELSE pipe)
<1> DEFINE f == Flushed(r)
           w == p \o Taken(r)
           q == IF Pumps(f) THEN PipeAfter(f) ELSE pipe
           x == HandleWrite(r)
<1>1. /\ f \in Relay /\ Len(f.out) \in Nat /\ Len(f.out) <= Len(r.out) /\ ~f.thrown
      /\ w \in Seq(Item) /\ Len(r.out) \in Nat
  BY FlushedIs, LenProperties DEF Relay
<1>2. Stage(w, f, pipe)
  BY FlushStage
<1>3. Len(f.out) <= Most
  BY <1>1, MostIs
<1> SUFFICES Fine(w, x, q)
  OBVIOUS
<1> HIDE DEF w
<1>4. CASE Pumps(f)
  <2>1. x = HandleCgiEvent(f) /\ q = PipeAfter(f)
    BY <1>4 DEF HandleWrite
  <2> HIDE DEF f, x, q
  <2>2. QED
    BY <1>1, <1>2, <1>3, <2>1, EventFine
<1>5. CASE ~Pumps(f) /\ (f.job = "runs" \/ f.out # <<>>)
  <2>1. x = f /\ q = pipe
    BY <1>5 DEF HandleWrite
  <2> HIDE DEF f, x, q
  <2>2. QED
    BY <1>1, <1>2, <1>3, <2>1 DEF Fine
<1>6. CASE ~Pumps(f) /\ f.job # "runs" /\ f.out = <<>>
  <2> DEFINE c == IF request.keepAlive /\ ~f.close THEN "READING" ELSE "CLOSED"
             y == [f EXCEPT !.client = c]
  <2>1. x = y /\ q = pipe
    BY <1>6 DEF HandleWrite
  <2> HIDE DEF f, x, q
  <2>2. /\ y \in Relay /\ y.client = c /\ y.out = f.out /\ y.job = f.job /\ ~y.thrown
        /\ y.headersSent = f.headersSent /\ y.close = f.close
    BY <1>1 DEF Relay
  <2> HIDE DEF y
  <2>3. CASE c = "CLOSED"
    BY <1>3, <1>6, <2>1, <2>2, <2>3 DEF Fine
  <2>4. CASE c = "READING"
    <3>1. ~f.close
      BY <2>4
    <3>2. Finished(w, f) \/ Failed(w, f)
      BY <1>2, <1>6 DEF Stage, Collecting, Streaming
    <3>3. Finished(w, f) => Finished(w, y)
      BY <2>2 DEF Finished
    <3>4. Failed(w, f) => Failed(w, y)
      BY <2>2, <3>1 DEF Failed
    <3>5. Stage(w, y, pipe)
      BY <1>6, <2>2, <2>4, <3>2, <3>3, <3>4 DEF Stage
    <3>6. QED
      BY <1>3, <2>1, <2>2, <3>5 DEF Fine
  <2>5. QED
    BY <2>3, <2>4
<1>7. QED
  BY <1>4, <1>5, <1>6

-----------------------------------------------------------------------------
(* The steps. *)

Where == received \o socket

LEMMA Placed ==
  ASSUME IInv
  PROVE  /\ Where \in Seq(Item) /\ relay \in Relay /\ ~relay.thrown /\ Len(relay.out) <= Most
         /\ Serving => Stage(Where, relay, pipe)
BY ConcatProperties DEF IInv, TypeOK, OutBounded, Most, Where, Serving

\* What a handler left becomes the relay.
LEMMA BecomesInv ==
  ASSUME NEW p, NEW x, NEW q, Fine(p, x, q), Becomes(x), UNCHANGED <<request, script>>,
         p = received' \o socket', ~x.thrown => q = pipe' \/ x.client = "CLOSED",
         request' \in Request, script' \in Script, pipe' \in Seq(Item), Len(pipe') <= PipeSize,
         cgiEvent' \in BOOLEAN, outEvent' \in BOOLEAN,
         socket' \in Seq(Item), Len(socket') <= SocketSize, received' \in Seq(Item)
  PROVE  IInv'
<1>1. CASE x.thrown
  <2>1. relay' = [x EXCEPT !.client = "CRASHED", !.thrown = FALSE]
    BY <1>1 DEF Becomes
  <2>2. /\ relay' \in Relay /\ relay'.client = "CRASHED" /\ ~relay'.thrown /\ relay'.out = x.out
    BY <2>1 DEF Fine, Relay
  <2>3. ~Roomy /\ Len(relay'.out) <= Most
    BY <1>1, <2>2 DEF Fine
  <2>4. TypeOK'
    BY <2>2 DEF TypeOK
  <2>5. QED
    BY <2>2, <2>3, <2>4 DEF IInv, OutBounded, Most
<1>2. CASE ~x.thrown
  <2>1. relay' = x
    BY <1>2 DEF Becomes
  <2>2. TypeOK'
    BY <2>1 DEF TypeOK, Fine
  <2>3. OutBounded'
    BY <2>1 DEF OutBounded, Most, Fine
  <2>4. Stage(p, x, q) => x.client \in {"CGI_RUNNING", "WRITING", "READING"}
    BY DEF Stage, Collecting, Streaming
  <2>5. x.client \notin {"CLOSED", "CRASHED"} => Stage(p, x, pipe')
    BY <1>2 DEF Fine
  <2>6. Stage(p, x, pipe') => Stage(received \o socket, relay, pipe)'
    BY <2>1 DEF Stage, Collecting, Streaming, Finished, Failed, Output, Parted
  <2>7. x.client = "CLOSED" => x.job # "runs"
    BY <1>2, <2>4 DEF Fine
  <2>8. QED
    BY <1>2, <2>1, <2>2, <2>3, <2>4, <2>5, <2>6, <2>7 DEF IInv, Fine
<1>3. QED
  BY <1>1, <1>2

LEMMA PipeAfterTyped ==
  ASSUME TypeOK, NEW r
  PROVE  PipeAfter(r) \in Seq(Item) /\ Len(PipeAfter(r)) <= PipeSize
<1>1. pipe \in Seq(Item) /\ Len(pipe) \in Nat /\ Len(pipe) <= PipeSize /\ PipeSize \in Nat
  BY Sizes, LenProperties DEF TypeOK
<1>2. CASE ~ReadsPipe(r) \/ pipe = <<>>
  <2>1. PipeAfter(r) = pipe
    <3>1. CASE pipe = <<>> /\ ReadsPipe(r)
      <4>1. ReadSize + 1 \in Int /\ Len(pipe) \in Int /\ Len(pipe) < ReadSize + 1
        BY <3>1, MostIs
      <4>2. QED
        BY <3>1, <4>1, SubSeqEmpty DEF PipeAfter
    <3>2. QED
      BY <1>2, <3>1 DEF PipeAfter
  <2>2. QED
    BY <1>1, <2>1
<1>3. CASE ReadsPipe(r) /\ pipe # <<>>
  <2>1. PICK k \in 1 .. Len(pipe) : SubSeq(pipe, ReadSize + 1, Len(pipe)) = SubSeq(pipe, k + 1, Len(pipe))
    BY <1>1, <1>3, PipeCut
  <2>2. k \in 0 .. Len(pipe) /\ k \in Nat
    BY <1>1
  <2> DEFINE q == SubSeq(pipe, k + 1, Len(pipe))
  <2>3. q \in Seq(Item) /\ Len(q) = Len(pipe) - k
    BY <1>1, <2>2, TailItems
  <2>4. PipeAfter(r) = q
    BY <1>3, <2>1 DEF PipeAfter
  <2> HIDE DEF q
  <2>5. QED
    BY <1>1, <2>2, <2>3, <2>4
<1>4. QED
  BY <1>2, <1>3

LEMMA DispatchCgiInv ==
  ASSUME IInv, DispatchCgi
  PROVE  IInv'
<1> DEFINE x == HandleCgiEvent(relay)
<1>1. TypeOK /\ Where \in Seq(Item) /\ Fine(Where, x, PipeAfter(relay))
  BY Placed, EventFine DEF IInv, DispatchCgi
<1>2. /\ Becomes(x) /\ pipe' = PipeAfter(relay) /\ cgiEvent' = FALSE /\ socket' = socket
      /\ outEvent' = IF relay' = relay THEN outEvent ELSE Rearmed
      /\ UNCHANGED <<request, script, received>>
  BY DEF DispatchCgi
<1> HIDE DEF x
<1>3. Rearmed \in BOOLEAN
  BY DEF Rearmed
<1>4. PipeAfter(relay) \in Seq(Item) /\ Len(PipeAfter(relay)) <= PipeSize
  BY <1>1, PipeAfterTyped
<1>5. /\ request' \in Request /\ script' \in Script /\ pipe' \in Seq(Item) /\ Len(pipe') <= PipeSize
      /\ cgiEvent' \in BOOLEAN
      /\ socket' \in Seq(Item) /\ Len(socket') <= SocketSize /\ received' \in Seq(Item)
  BY <1>1, <1>2, <1>4 DEF TypeOK
<1>6. outEvent' \in BOOLEAN
  BY <1>1, <1>2, <1>3 DEF TypeOK
<1>7. Where = received' \o socket'
  BY <1>2 DEF Where
<1>8. QED
  BY <1>1, <1>2, <1>5, <1>6, <1>7, BecomesInv

LEMMA DispatchOutInv ==
  ASSUME IInv, DispatchOut
  PROVE  IInv'
<1> DEFINE x == HandleWrite(relay)
           t == Taken(relay)
           f == Flushed(relay)
           q == IF Pumps(f) THEN PipeAfter(f) ELSE pipe
<1>1. TypeOK /\ Where \in Seq(Item) /\ relay \in Relay /\ Fine(Where \o t, x, q)
  BY Placed, WriteFine DEF IInv, DispatchOut
<1>2. /\ Becomes(x) /\ socket' = socket \o t
      /\ pipe' = q /\ outEvent' = Rearmed /\ UNCHANGED <<request, script, received>>
      /\ \/ cgiEvent' = cgiEvent
         \/ cgiEvent' = (relay'.job = "runs" /\ (cgiEvent \/ pipe # <<>> \/ script.exited))
  BY DEF DispatchOut
<1>3. t \in Seq(Item) /\ socket \o t \in Seq(Item) /\ Len(socket \o t) <= SocketSize
  BY <1>1, FlushedIs
<1>4. q \in Seq(Item) /\ Len(q) <= PipeSize
  BY <1>1, PipeAfterTyped DEF TypeOK
<1> HIDE DEF x, t, q, f
<1>5. outEvent' \in BOOLEAN /\ cgiEvent' \in BOOLEAN
  BY <1>1, <1>2 DEF Rearmed, TypeOK
<1>6. /\ request' \in Request /\ script' \in Script /\ pipe' \in Seq(Item) /\ Len(pipe') <= PipeSize
      /\ socket' \in Seq(Item) /\ Len(socket') <= SocketSize /\ received' \in Seq(Item)
  BY <1>1, <1>2, <1>3, <1>4 DEF TypeOK
<1>7. Where \o t = received' \o socket'
  <2>1. received \in Seq(Item) /\ socket \in Seq(Item)
    BY <1>1 DEF TypeOK
  <2>2. (received \o socket) \o t = received \o (socket \o t)
    BY ONLY <1>3, <2>1, Together
  <2>3. QED
    BY <1>2, <2>2 DEF Where
<1>8. QED
  BY <1>1, <1>2, <1>5, <1>6, <1>7, BecomesInv

LEMMA JobTimeoutInv ==
  ASSUME IInv, JobTimeout
  PROVE  IInv'
<1> DEFINE x == FailJob(relay)
<1>1. /\ TypeOK /\ Where \in Seq(Item) /\ relay \in Relay /\ ~relay.thrown /\ relay.job = "runs"
      /\ Stage(Where, relay, pipe) /\ relay.out \in Seq(Item) /\ Len(relay.out) \in Nat
  BY Placed, LenProperties DEF IInv, JobTimeout, Relay
<1>2. /\ Becomes(x) /\ cgiEvent' = FALSE /\ socket' = socket /\ outEvent' = Rearmed
      /\ UNCHANGED <<request, script, pipe, received>>
  BY DEF JobTimeout
<1> HIDE DEF x
<1>3. Fine(Where, x, pipe)
  <2>1. CASE Collecting(Where, relay, pipe)
    <3>1. Where = <<>> /\ ~relay.headersSent /\ relay.out = <<>>
      BY <2>1 DEF Collecting
    <3>2. Refuses(x) \/ Throws(x)
      BY <1>1, <3>1, FailsSoon DEF x
    <3>3. QED
      BY <3>1, <3>2, RefusesFine, ThrowsFine
  <2>2. CASE Streaming(Where, relay, pipe)
    <3>1. relay.headersSent /\ Parsed(Where \o relay.out) = Body /\ Len(relay.out) < Most
      BY <1>1, <2>2, MostIs DEF Streaming
    <3>2. Fails(relay, x) \/ Throws(x)
      BY <1>1, <3>1, FailsLate DEF x
    <3>3. QED
      BY <1>1, <3>1, <3>2, FailsFine, ThrowsFine
  <2>3. QED
    BY <1>1, <2>1, <2>2 DEF Stage, Finished, Failed
<1>4. /\ request' \in Request /\ script' \in Script /\ pipe' \in Seq(Item) /\ Len(pipe') <= PipeSize
      /\ cgiEvent' \in BOOLEAN /\ outEvent' \in BOOLEAN
      /\ socket' \in Seq(Item) /\ Len(socket') <= SocketSize /\ received' \in Seq(Item)
  BY <1>1, <1>2 DEF TypeOK, Rearmed
<1>5. Where = received' \o socket'
  BY <1>2 DEF Where
<1>6. QED
  BY <1>2, <1>3, <1>4, <1>5, BecomesInv

\* Pumping in the last attempt to write can only throw like any other.
LEMMA LastWrite ==
  ASSUME TypeOK, NEW r \in Relay, ~r.thrown, r.job = "runs" => r.headersSent
  PROVE  LET x == HandleWrite(r)
         IN  x \in Relay /\ (x.thrown => Throws(x))
<1> DEFINE f == Flushed(r)
           x == HandleWrite(r)
<1>1. /\ f \in Relay /\ ~f.thrown /\ Len(f.out) \in Nat /\ f.job = r.job
      /\ f.headersSent = r.headersSent /\ <<>> \in Seq(Item)
  <2>1. <<>> \in Seq(Item)
    OBVIOUS
  <2>2. QED
    BY <2>1, FlushedIs
<1>2. CASE Pumps(f)
  <2>1. x = HandleCgiEvent(f)
    BY <1>2 DEF HandleWrite
  <2>2. f.job = "runs" /\ Len(f.out) < Most /\ f.headersSent
    BY <1>1, <1>2, MostIs DEF Pumps
  <2> HIDE DEF f, x
  <2>3. LET q == PipeAfter(f)
        IN  \/ x = f /\ q = pipe
            \/ Relays(f, x, q)
            \/ Fails(f, x)
            \/ Finishes(f, x) /\ pipe = <<>>
            \/ Throws(x)
    BY <1>1, <2>1, <2>2, StreamEvent
  <2>4. QED
    BY <1>1, <2>3 DEF Relays, Fails, Finishes, Throws, x
<1>3. CASE ~Pumps(f)
  <2> DEFINE y == [f EXCEPT !.client = IF request.keepAlive /\ ~f.close THEN "READING" ELSE "CLOSED"]
  <2>1. x = f \/ x = y
    BY <1>3 DEF HandleWrite
  <2> HIDE DEF x, f
  <2>2. y \in Relay /\ ~y.thrown
    BY <1>1 DEF Relay
  <2>3. QED
    BY <1>1, <2>1, <2>2 DEF x
<1>4. QED
  BY <1>2, <1>3

LEMMA IdleTimeoutInv ==
  ASSUME IInv, IdleTimeout
  PROVE  IInv'
<1> DEFINE error == <<Mark("error")>>
           said  == Append2Out(relay, error)
           done  == HandleWrite(said)
           last  == [done EXCEPT !.client = "CLOSED", !.out = <<>>,
                                 !.job = IF done.job = "runs" THEN "failed" ELSE done.job]
           x     == IF said.thrown THEN said ELSE IF done.thrown THEN done ELSE last
<1>1. /\ TypeOK /\ Where \in Seq(Item) /\ relay \in Relay /\ ~relay.thrown
      /\ Len(relay.out) <= Most /\ relay.client = "WRITING"
      /\ Stage(Where, relay, pipe) /\ relay.out \in Seq(Item) /\ Len(relay.out) \in Nat
  BY Placed, LenProperties DEF IInv, IdleTimeout, Serving, Relay
<1>2. /\ Becomes(x) /\ socket' = IF said.thrown THEN socket ELSE socket \o Taken(said)
      /\ cgiEvent' = FALSE /\ outEvent' = FALSE /\ UNCHANGED <<request, script, pipe, received>>
  BY DEF IdleTimeout
<1>3. error \in Seq(Item) /\ Len(error) = 1
  BY MarkTyped
<1> HIDE DEF error
<1>4. /\ Keeps(relay, said)
      /\ said.thrown => said.out = relay.out /\ Limit < Len(relay.out) + Len(error)
  BY <1>1, <1>3, AppendRelay
<1> HIDE DEF said
<1>5. said \in Relay
  BY <1>4 DEF Keeps
<1>6. said.thrown => Throws(said)
  BY <1>1, <1>3, <1>4, <1>5, MostIs DEF Throws
<1>7. said.job = "runs" => said.headersSent
  BY <1>1, <1>4 DEF Keeps, Stage, Collecting, Streaming, Finished, Failed
<1>8. ~said.thrown => done \in Relay /\ (done.thrown => Throws(done))
  BY <1>1, <1>5, <1>7, LastWrite
<1> HIDE DEF done
<1>9. done \in Relay => last \in Relay /\ last.client = "CLOSED" /\ last.out = <<>> /\ last.job # "runs"
                        /\ last.thrown = done.thrown
  <2>1. <<>> \in Seq(Item)
    OBVIOUS
  <2>2. QED
    BY <2>1 DEF Relay
<1> HIDE DEF last
<1>10. Throws(x) \/ (x = last /\ last \in Relay /\ ~last.thrown)
  BY <1>6, <1>8, <1>9
<1>11. Fine(received' \o socket', x, pipe)
  <2>1. CASE Throws(x)
    BY <2>1, ThrowsFine
  <2>2. CASE x = last /\ last \in Relay /\ ~last.thrown
    <3>1. done \in Relay /\ Len(<<>>) = 0
      BY <1>8, <1>6, <2>2 DEF last, Throws
    <3>2. QED
      BY <1>9, <2>2, <3>1, MostIs DEF Fine
  <2>3. QED
    BY <1>10, <2>1, <2>2
<1>12. socket' \in Seq(Item) /\ Len(socket') <= SocketSize
  <2>1. <<>> \in Seq(Item)
    OBVIOUS
  <2>2. socket \o Taken(said) \in Seq(Item) /\ Len(socket \o Taken(said)) <= SocketSize
    BY <1>1, <1>5, <2>1, FlushedIs
  <2>3. QED
    BY <1>1, <1>2, <2>2 DEF TypeOK
<1>13. /\ request' \in Request /\ script' \in Script /\ pipe' \in Seq(Item) /\ Len(pipe') <= PipeSize
       /\ cgiEvent' \in BOOLEAN /\ outEvent' \in BOOLEAN /\ received' \in Seq(Item)
  BY <1>1, <1>2 DEF TypeOK
<1> HIDE DEF x
<1>14. QED
  BY <1>2, <1>11, <1>12, <1>13, BecomesInv

\* The script's steps.
LEMMA WritesTyped ==
  ASSUME IInv, NEW item \in Item, Write(item)
  PROVE  /\ pipe' = Append(pipe, item) /\ pipe \in Seq(Item) /\ Len(pipe) \in Nat
         /\ pipe' \in Seq(Item) /\ Len(pipe') = Len(pipe) + 1 /\ Len(pipe') <= PipeSize
         /\ \A i \in 1 .. Len(pipe) : pipe'[i] = pipe[i]
         /\ pipe'[Len(pipe) + 1] = item
         /\ UNCHANGED <<request, relay, outEvent, socket, received>> /\ cgiEvent' = TRUE
         /\ relay.job = "runs"
         /\ Collecting(Where, relay, pipe) \/ Streaming(Where, relay, pipe)
<1>1. TypeOK /\ Stage(Where, relay, pipe) /\ relay.job = "runs" /\ Len(pipe) < PipeSize
  BY Placed DEF IInv, Write
<1>2. pipe \in Seq(Item) /\ Len(pipe) \in Nat /\ PipeSize \in Nat
  BY <1>1, Sizes, LenProperties DEF TypeOK
<1>3. /\ pipe' = Append(pipe, item) /\ UNCHANGED <<request, relay, outEvent, socket, received>>
      /\ cgiEvent' = TRUE
  BY DEF Write
<1>4. /\ Append(pipe, item) \in Seq(Item) /\ Len(Append(pipe, item)) = Len(pipe) + 1
      /\ \A i \in 1 .. Len(pipe) : Append(pipe, item)[i] = pipe[i]
      /\ Append(pipe, item)[Len(pipe) + 1] = item
  BY <1>2, AppendProperties
<1>5. Collecting(Where, relay, pipe) \/ Streaming(Where, relay, pipe)
  BY <1>1 DEF Stage, Finished, Failed
<1>6. QED
  BY <1>1, <1>2, <1>3, <1>4, <1>5

\* What such a step has to show.
LEMMA WritesInv ==
  ASSUME IInv, UNCHANGED <<request, relay, outEvent, socket, received>>, cgiEvent' = TRUE,
         pipe' \in Seq(Item), Len(pipe') <= PipeSize, script' \in Script,
         (Collecting(Where, relay, pipe) \/ Streaming(Where, relay, pipe))'
  PROVE  IInv'
<1>1. TypeOK'
  BY DEF IInv, TypeOK
<1>2. Stage(received \o socket, relay, pipe)'
  BY DEF Stage, Where
<1>3. QED
  BY <1>1, <1>2 DEF IInv, OutBounded

LEMMA WritePartInv ==
  ASSUME IInv, WritePart
  PROVE  IInv'
<1>1. Mark("part") \in Item /\ Mark("part").kind = "part"
  BY MarkTyped
<1> DEFINE item == Mark("part")
<1>2. ~script.gap /\ script.parts < MaxParts /\ Write(item) /\ script' = [script EXCEPT !.parts = @ + 1]
  BY DEF WritePart
<1> HIDE DEF item
<1>3. /\ pipe' = Append(pipe, item) /\ pipe \in Seq(Item) /\ Len(pipe) \in Nat
      /\ pipe' \in Seq(Item) /\ Len(pipe') = Len(pipe) + 1 /\ Len(pipe') <= PipeSize
      /\ \A i \in 1 .. Len(pipe) : pipe'[i] = pipe[i]
      /\ pipe'[Len(pipe) + 1] = item
      /\ UNCHANGED <<request, relay, outEvent, socket, received>> /\ cgiEvent' = TRUE
      /\ Collecting(Where, relay, pipe) \/ Streaming(Where, relay, pipe)
  BY <1>1, <1>2, WritesTyped DEF item
<1>4. script' \in Script /\ script'.gap = script.gap /\ script'.data = script.data
  <2>1. script \in Script /\ MaxParts \in Nat
    BY Sizes DEF IInv, TypeOK
  <2>2. script.parts + 1 \in 0 .. MaxParts
    BY <1>2, <2>1 DEF Script
  <2>3. QED
    BY <1>2, <2>1, <2>2 DEF Script
<1>5. Collecting(Where, relay, pipe) /\ Output(pipe) /\ Carries(pipe, 1, script.data)
  BY <1>2, <1>3 DEF Streaming, Collecting
<1>6. \A i \in DOMAIN pipe' : pipe'[i].kind = "part"
  <2>1. \A i \in 1 .. Len(pipe) : pipe[i].kind = "part"
    BY <1>2, <1>3, <1>5 DEF Output, Parted, AllOf
  <2>2. \A i \in 1 .. Len(pipe) + 1 : pipe'[i].kind = "part"
    BY <1>1, <1>3, <2>1 DEF item
  <2>3. DOMAIN pipe' = 1 .. Len(pipe) + 1
    BY <1>3
  <2>4. QED
    BY <2>2, <2>3
<1>7. Output(pipe)'
  BY <1>2, <1>4, <1>6 DEF Output, Parted, AllOf
<1>8. Carries(pipe, 1, script.data)'
  <2>1. script.data \in Nat
    BY Sizes DEF IInv, TypeOK, Script
  <2>2. Carries(Append(pipe, item), 1, script.data)
    BY <1>3, <1>5, <2>1, CarriesMark DEF item
  <2>3. QED
    BY <1>3, <1>4, <2>2
<1>9. Collecting(Where, relay, pipe)'
  BY <1>3, <1>5, <1>7, <1>8 DEF Collecting, Where
<1>10. QED
  BY <1>3, <1>4, <1>9, WritesInv

LEMMA WriteGapInv ==
  ASSUME IInv, WriteGap
  PROVE  IInv'
<1>1. Mark("gap") \in Item /\ Mark("gap").kind = "gap"
  BY MarkTyped
<1> DEFINE item == Mark("gap")
<1>2. ~script.gap /\ Write(item) /\ script' = [script EXCEPT !.gap = TRUE]
  BY DEF WriteGap
<1> HIDE DEF item
<1>3. /\ pipe' = Append(pipe, item) /\ pipe \in Seq(Item) /\ Len(pipe) \in Nat
      /\ pipe' \in Seq(Item) /\ Len(pipe') = Len(pipe) + 1 /\ Len(pipe') <= PipeSize
      /\ \A i \in 1 .. Len(pipe) : pipe'[i] = pipe[i]
      /\ pipe'[Len(pipe) + 1] = item
      /\ UNCHANGED <<request, relay, outEvent, socket, received>> /\ cgiEvent' = TRUE
      /\ Collecting(Where, relay, pipe) \/ Streaming(Where, relay, pipe)
  BY <1>1, <1>2, WritesTyped DEF item
<1>4. script' \in Script /\ script'.gap /\ script'.data = script.data
  BY <1>2 DEF IInv, TypeOK, Script
<1>5. Collecting(Where, relay, pipe) /\ Output(pipe) /\ Carries(pipe, 1, script.data)
  BY <1>2, <1>3 DEF Streaming, Collecting
<1>6. Output(pipe)'
  <2> DEFINE g == Len(pipe) + 1
  <2>1. \A i \in 1 .. Len(pipe) : pipe[i].kind = "part"
    BY <1>2, <1>3, <1>5 DEF Output, Parted, AllOf
  <2>2. DOMAIN pipe' = 1 .. g /\ g - 1 = Len(pipe) /\ g \in 1 .. g /\ Len(pipe') = g
    BY <1>3
  <2>3. \A i \in 1 .. g - 1 : pipe'[i].kind = "part"
    BY <1>3, <2>1, <2>2
  <2>4. \A i \in g + 1 .. Len(pipe') : pipe'[i].kind = "data"
    BY <1>3, <2>2
  <2>5. g \in DOMAIN pipe' /\ pipe'[g] = Mark("gap")
    BY <1>3, <2>2 DEF item
  <2> HIDE DEF g
  <2>6. QED
    BY <1>4, <2>3, <2>4, <2>5 DEF Output, Parted
<1>7. Carries(pipe, 1, script.data)'
  <2>1. script.data \in Nat
    BY Sizes DEF IInv, TypeOK, Script
  <2>2. Carries(Append(pipe, item), 1, script.data)
    BY <1>3, <1>5, <2>1, CarriesMark DEF item
  <2>3. QED
    BY <1>3, <1>4, <2>2
<1>8. Collecting(Where, relay, pipe)'
  BY <1>3, <1>5, <1>6, <1>7 DEF Collecting, Where
<1>9. QED
  BY <1>3, <1>4, <1>8, WritesInv

\* One more item of data.
LEMMA CarriesMore ==
  ASSUME NEW s \in Seq(Item), NEW a \in Nat, NEW b \in Nat, a <= b + 1, Carries(s, a, b)
  PROVE  /\ DataItem(b + 1) \in Item /\ DataItem(b + 1).kind = "data"
         /\ Carries(Append(s, DataItem(b + 1)), a, b + 1)
<1> DEFINE x == DataItem(b + 1)
           t == <<x>>
<1>1. x \in Item /\ x.kind = "data" /\ x.n = b + 1 /\ b + 1 \in Nat
  BY DEF DataItem, Item
<1> HIDE DEF x
<1>2. t \in Seq(Item) /\ DOMAIN t = {1} /\ t[1] = x
  BY <1>1
<1>3. Append(s, x) = s \o t
  BY <1>1, AppendIsConcat
<1> HIDE DEF t
<1>4. Carries(t, b + 1, b + 1)
  <2>1. {i \in DOMAIN t : t[i].kind = "data"} = {1}
    BY <1>1, <1>2
  <2>2. {t[i].n : i \in {1}} = {b + 1}
    BY <1>1, <1>2
  <2>3. b + 1 .. b + 1 = {b + 1}
    BY <1>1
  <2>4. \A i, j \in {1} : i < j => t[i].n < t[j].n
    OBVIOUS
  <2>5. QED
    BY <2>1, <2>2, <2>3, <2>4 DEF Carries
<1>5. Carries(s \o t, a, b + 1)
  <2>1. b <= b + 1
    OBVIOUS
  <2>2. QED
    BY <1>1, <1>2, <1>4, <2>1, CarriesJoin
<1>6. QED
  BY <1>1, <1>3, <1>5 DEF x

LEMMA WriteDataInv ==
  ASSUME IInv, WriteData
  PROVE  IInv'
<1> DEFINE d    == script.data
           item == DataItem(d + 1)
<1>1. d \in Nat /\ script \in Script /\ MaxData \in Nat
  BY Sizes DEF IInv, TypeOK, Script
<1>2. script.gap /\ d < MaxData /\ Write(item) /\ script' = [script EXCEPT !.data = d + 1]
  BY DEF WriteData
<1>3. item \in Item /\ item.kind = "data"
  BY <1>1 DEF DataItem, Item
<1> HIDE DEF item
<1>4. /\ pipe' = Append(pipe, item) /\ pipe \in Seq(Item) /\ Len(pipe) \in Nat
      /\ pipe' \in Seq(Item) /\ Len(pipe') = Len(pipe) + 1 /\ Len(pipe') <= PipeSize
      /\ \A i \in 1 .. Len(pipe) : pipe'[i] = pipe[i]
      /\ pipe'[Len(pipe) + 1] = item
      /\ UNCHANGED <<request, relay, outEvent, socket, received>> /\ cgiEvent' = TRUE
      /\ Collecting(Where, relay, pipe) \/ Streaming(Where, relay, pipe)
  BY <1>2, <1>3, WritesTyped
<1>5. script' \in Script /\ script'.gap /\ script'.data = d + 1
  <2>1. d + 1 \in 0 .. MaxData
    BY <1>1, <1>2
  <2>2. QED
    BY <1>1, <1>2, <2>1 DEF Script
<1>6. DOMAIN pipe' = 1 .. Len(pipe) + 1 /\ DOMAIN pipe = 1 .. Len(pipe)
  BY <1>4
<1>7. \A a \in Nat : a <= d + 1 /\ Carries(pipe, a, d) => Carries(pipe', a, d + 1)
  BY <1>1, <1>4, CarriesMore DEF item
<1> HIDE DEF d
<1>8. CASE Collecting(Where, relay, pipe)
  <2>1. Output(pipe) /\ Carries(pipe, 1, d)
    BY <1>8 DEF Collecting, d
  <2>2. PICK g \in 1 .. Len(pipe) : /\ pipe[g] = Mark("gap")
                                    /\ \A i \in 1 .. g - 1 : pipe[i].kind = "part"
                                    /\ \A i \in g + 1 .. Len(pipe) : pipe[i].kind = "data"
    BY <1>2, <1>6, <2>1 DEF Output, Parted
  <2>3. g \in DOMAIN pipe' /\ pipe'[g] = Mark("gap")
    BY <1>4, <1>6, <2>2
  <2>4. \A i \in 1 .. g - 1 : pipe'[i].kind = "part"
    BY <1>4, <2>2
  <2>5. \A i \in g + 1 .. Len(pipe') : pipe'[i].kind = "data"
    <3>1. SUFFICES ASSUME NEW i \in g + 1 .. Len(pipe') PROVE pipe'[i].kind = "data"
      OBVIOUS
    <3>2. CASE i = Len(pipe) + 1
      BY <1>3, <1>4, <3>2
    <3>3. CASE i # Len(pipe) + 1
      <4>1. i \in g + 1 .. Len(pipe) /\ i \in 1 .. Len(pipe)
        BY <1>4, <3>3
      <4>2. QED
        BY <1>4, <2>2, <4>1
    <3>4. QED
      BY <3>2, <3>3
  <2>6. Output(pipe)'
    BY <1>5, <2>3, <2>4, <2>5 DEF Output, Parted
  <2>7. Carries(pipe, 1, script.data)'
    <3>1. 1 \in Nat /\ 1 <= d + 1
      BY <1>1
    <3>2. QED
      BY <1>5, <1>7, <2>1, <3>1
  <2>8. Collecting(Where, relay, pipe)'
    BY <1>4, <1>8, <2>6, <2>7 DEF Collecting, Where
  <2>9. QED
    BY <1>4, <1>5, <2>8, WritesInv
<1>9. CASE Streaming(Where, relay, pipe)
  <2>1. AllOf(pipe', "data")
    <3>1. \A i \in 1 .. Len(pipe) : pipe[i].kind = "data"
      BY <1>6, <1>9 DEF Streaming, AllOf
    <3>2. \A i \in 1 .. Len(pipe) + 1 : pipe'[i].kind = "data"
      BY <1>3, <1>4, <3>1
    <3>3. QED
      BY <1>6, <3>2 DEF AllOf
  <2>2. PICK c \in 0 .. d : Carries(Where \o relay.out, 1, c) /\ Carries(pipe, c + 1, d)
    BY <1>9 DEF Streaming, d
  <2>3. c \in 0 .. d + 1 /\ Carries(pipe', c + 1, d + 1)
    <3>1. c + 1 \in Nat /\ c + 1 <= d + 1 /\ c \in 0 .. d + 1
      BY <1>1
    <3>2. QED
      BY <1>7, <2>2, <3>1
  <2>4. Streaming(Where, relay, pipe)'
    BY <1>4, <1>5, <1>9, <2>1, <2>2, <2>3 DEF Streaming, Where
  <2>5. QED
    BY <1>4, <1>5, <2>4, WritesInv
<1>10. QED
  BY <1>4, <1>8, <1>9

LEMMA ScriptExitsInv ==
  ASSUME IInv, ScriptExits
  PROVE  IInv'
<1>1. /\ UNCHANGED <<request, pipe, relay, outEvent, socket, received>> /\ cgiEvent' = TRUE
      /\ script' = [script EXCEPT !.exited = TRUE] /\ relay.job = "runs" /\ Serving
  BY DEF ScriptExits
<1>2. script' \in Script /\ script'.gap = script.gap /\ script'.data = script.data
  BY <1>1 DEF IInv, TypeOK, Script
<1>3. Collecting(Where, relay, pipe) \/ Streaming(Where, relay, pipe)
  BY <1>1, Placed DEF Stage, Finished, Failed
<1>4. Collecting(Where, relay, pipe) => Collecting(Where, relay, pipe)'
  BY <1>1, <1>2 DEF Collecting, Output, Parted, Where
<1>5. Streaming(Where, relay, pipe) => Streaming(Where, relay, pipe)'
  BY <1>1, <1>2 DEF Streaming, Where
<1>6. pipe' \in Seq(Item) /\ Len(pipe') <= PipeSize
  BY <1>1 DEF IInv, TypeOK
<1>7. QED
  BY <1>1, <1>2, <1>3, <1>4, <1>5, <1>6, WritesInv

LEMMA ClientReadsInv ==
  ASSUME IInv, ClientReads
  PROVE  IInv'
<1>1. /\ received \in Seq(Item) /\ socket \in Seq(Item) /\ Len(socket) <= SocketSize
      /\ SocketSize \in Nat /\ Len(socket) \in Nat
  BY MostIs, LenProperties DEF IInv, TypeOK
<1>2. /\ socket # <<>> /\ received' = Append(received, Head(socket)) /\ socket' = Tail(socket)
      /\ outEvent' = (outEvent \/ relay.client = "WRITING")
      /\ UNCHANGED <<request, script, pipe, cgiEvent, relay>>
  BY DEF ClientReads
<1>3. /\ Head(socket) \in Item /\ Tail(socket) \in Seq(Item) /\ Len(Tail(socket)) = Len(socket) - 1
      /\ socket = <<Head(socket)>> \o Tail(socket)
  BY <1>1, <1>2, HeadTailProperties, ConcatSimplifications
<1> DEFINE a == Head(socket)
           b == Tail(socket)
<1> HIDE DEF a, b
<1>4. received' \in Seq(Item) /\ socket' \in Seq(Item) /\ Len(socket') <= SocketSize
  BY <1>1, <1>2, <1>3, AppendProperties
<1>5. received' \o socket' = received \o socket
  <2>1. a \in Item /\ b \in Seq(Item) /\ <<a>> \in Seq(Item)
    BY <1>3 DEF a, b
  <2>2. Append(received, a) = received \o <<a>>
    BY <1>1, <2>1, AppendIsConcat
  <2>3. (received \o <<a>>) \o b = received \o (<<a>> \o b)
    BY ONLY <1>1, <2>1, Together
  <2>4. socket = <<a>> \o b
    BY <1>3 DEF a, b
  <2>5. QED
    BY <1>2, <2>2, <2>3, <2>4 DEF a, b
<1>6. TypeOK'
  BY <1>2, <1>4 DEF IInv, TypeOK
<1>7. Stage(received \o socket, relay, pipe) => Stage(received \o socket, relay, pipe)'
  BY <1>2, <1>5 DEF Stage, Collecting, Streaming, Finished, Failed, Output, Parted
<1>8. QED
  BY <1>2, <1>6, <1>7 DEF IInv, OutBounded

-----------------------------------------------------------------------------
(* The invariant. *)

LEMMA InitInv == Init => IInv
<1>1. SUFFICES ASSUME Init PROVE IInv
  OBVIOUS
<1>2. <<>> \in Seq(Item) /\ Len(<<>>) = 0 /\ 0 \in 0 .. ReadLimit + 1 /\ SocketSize \in Nat
      /\ PipeSize \in Nat /\ 0 \in 0 .. MaxParts /\ 0 \in 0 .. MaxData
  <2>1. MaxParts \in Nat /\ MaxData \in Nat /\ PipeSize \in Nat
    BY Sizes
  <2>2. QED
    BY <2>1, MostIs
<1>3. /\ script \in Script /\ ~script.gap /\ script.data = 0
      /\ relay \in Relay /\ relay.client = "CGI_RUNNING" /\ relay.job = "runs" /\ ~relay.headersSent
      /\ relay.out = <<>> /\ relay.header = <<>> /\ ~relay.thrown
  BY <1>1, <1>2 DEF Init, Script, Relay
<1>4. TypeOK
  <2>1. /\ request \in Request /\ pipe = <<>> /\ cgiEvent = FALSE /\ outEvent = FALSE
        /\ socket = <<>> /\ received = <<>>
    BY <1>1 DEF Init
  <2>2. 0 <= PipeSize /\ 0 <= SocketSize
    BY <1>2
  <2>3. pipe \in Seq(Item) /\ socket \in Seq(Item) /\ received \in Seq(Item)
    BY <1>2, <2>1
  <2>4. Len(pipe) <= PipeSize /\ Len(socket) <= SocketSize
    BY <1>2, <2>1, <2>2
  <2>5. QED
    BY <1>3, <2>1, <2>3, <2>4 DEF TypeOK
<1>5. AllOf(<<>>, "part")
  BY DEF AllOf
<1>6. Carries(<<>>, 1, 0)
  <2>1. 0 \in Nat /\ \A i \in DOMAIN <<>> : <<>>[i].kind # "data"
    OBVIOUS
  <2> DEFINE s == <<>>
  <2>2. s \in Seq(Item) /\ \A i \in DOMAIN s : s[i].kind # "data"
    BY <1>2, <2>1
  <2> HIDE DEF s
  <2>3. Carries(s, 0 + 1, 0)
    BY <2>1, <2>2, CarriesNone
  <2>4. QED
    BY <2>3 DEF s
<1>7. Collecting(received \o socket, relay, pipe)
  <2>1. received \o socket = <<>> /\ pipe = <<>>
    BY <1>1 DEF Init
  <2>2. QED
    BY <1>3, <1>5, <1>6, <2>1 DEF Collecting, Output, Parted
<1>8. OutBounded
  BY <1>2, <1>3, MostIs DEF OutBounded
<1>9. QED
  BY <1>3, <1>4, <1>7, <1>8 DEF IInv, Stage

LEMMA StepInv == IInv /\ [Next]_vars => IInv'
<1>1. SUFFICES ASSUME IInv, [Next]_vars PROVE IInv'
  OBVIOUS
<1>2. CASE UNCHANGED vars
  BY <1>1, <1>2 DEF vars, IInv, TypeOK, OutBounded, Stage, Collecting, Streaming, Finished, Failed,
                    Output, Parted
<1>3. CASE WritePart
  BY <1>1, <1>3, WritePartInv
<1>4. CASE WriteGap
  BY <1>1, <1>4, WriteGapInv
<1>5. CASE WriteData
  BY <1>1, <1>5, WriteDataInv
<1>6. CASE ScriptExits
  BY <1>1, <1>6, ScriptExitsInv
<1>7. CASE DispatchCgi
  BY <1>1, <1>7, DispatchCgiInv
<1>8. CASE DispatchOut
  BY <1>1, <1>8, DispatchOutInv
<1>9. CASE JobTimeout
  BY <1>1, <1>9, JobTimeoutInv
<1>10. CASE IdleTimeout
  BY <1>1, <1>10, IdleTimeoutInv
<1>11. CASE ClientReads
  BY <1>1, <1>11, ClientReadsInv
<1>12. QED
  BY <1>1, <1>2, <1>3, <1>4, <1>5, <1>6, <1>7, <1>8, <1>9, <1>10, <1>11 DEF Next, Over

\* The relay is always at one of its stages: the header block is collected,
\* whole chunks go out, everything has gone out, or the client knows that
\* there is no more.
THEOREM StagesKept == Spec => []IInv
<1>1. QED
  BY InitInv, StepInv, PTL DEF Spec

\* The buffers hold items, within the capacities that the kernel gives them.
THEOREM StreamTyped == Spec => []TypeOK
<1>1. IInv => TypeOK
  BY DEF IInv
<1>2. QED
  BY <1>1, StagesKept, PTL

\* Whatever client_max_body_size is, the write buffer of a CGI response never
\* holds more than the high-water mark, one chunk and the end.
THEOREM OutIsBounded == Spec => []OutBounded
<1>1. IInv => OutBounded
  BY DEF IInv
<1>2. QED
  BY <1>1, StagesKept, PTL

\* No byte of a running script's data is lost, doubled or reordered between
\* the pipe, the header buffer, the write buffer, the socket and the client.
THEOREM DataIsKept == Spec => []NothingLost
<1>1. ASSUME IInv PROVE NothingLost
  <2>1. SUFFICES ASSUME relay.job = "runs", relay.client # "CRASHED"
                 PROVE  Carries(Stream \o relay.header \o pipe, 1, script.data)
    BY DEF NothingLost
  <2> DEFINE sent == Where \o relay.out
  <2>2. /\ Stage(Where, relay, pipe) /\ pipe \in Seq(Item) /\ relay.header \in Seq(Item)
        /\ relay.out \in Seq(Item) /\ Where \in Seq(Item) /\ script.data \in Nat
        /\ <<>> \in Seq(Item) /\ sent \in Seq(Item) /\ Stream = sent
    <3>1. TypeOK /\ Stage(Where, relay, pipe)
      BY <1>1, <2>1 DEF IInv, Where
    <3>2. /\ pipe \in Seq(Item) /\ relay.header \in Seq(Item) /\ relay.out \in Seq(Item)
          /\ script.data \in Nat /\ Where \in Seq(Item)
      BY <1>1, <3>1, Sizes, Placed DEF TypeOK, Relay, Script
    <3>3. sent \in Seq(Item)
      BY <3>2, ConcatProperties
    <3>4. QED
      BY <3>1, <3>2, <3>3 DEF Stream, Where
  <2> HIDE DEF sent
  <2>3. CASE Collecting(Where, relay, pipe)
    <3>1. sent = <<>>
      BY <2>2, <2>3, ConcatEmptySeq DEF Collecting, sent
    <3>2. \A i \in DOMAIN relay.header : relay.header[i].kind # "data"
      BY <2>3 DEF Collecting, AllOf
    <3>3. Carries(relay.header, 0 + 1, 0) /\ Carries(pipe, 1, script.data)
      BY <2>2, <2>3, <3>2, CarriesNone DEF Collecting
    <3>4. Carries(relay.header \o pipe, 1, script.data)
      <4>1. 1 \in Nat /\ 0 \in Nat /\ 1 <= 0 + 1 /\ 0 <= script.data /\ Carries(relay.header, 1, 0)
            /\ Carries(pipe, 0 + 1, script.data)
        BY <2>2, <3>3
      <4>2. QED
        BY <2>2, <4>1, CarriesJoin
    <3>5. Stream \o relay.header = relay.header
      BY <2>2, <3>1, ConcatEmptySeq
    <3>6. QED
      BY <3>4, <3>5
  <2>4. CASE Streaming(Where, relay, pipe)
    <3>1. relay.header = <<>> /\ sent \o relay.header = sent
      BY <2>2, <2>4, ConcatEmptySeq DEF Streaming
    <3>2. PICK c \in 0 .. script.data : Carries(sent, 1, c) /\ Carries(pipe, c + 1, script.data)
      BY <2>4 DEF Streaming, sent
    <3>3. Carries(sent \o pipe, 1, script.data)
      <4>1. 1 \in Nat /\ c \in Nat /\ 1 <= c + 1 /\ c <= script.data
        BY <2>2
      <4>2. QED
        BY <2>2, <3>2, <4>1, CarriesJoin
    <3>4. QED
      BY <2>2, <3>1, <3>3
  <2>5. QED
    BY <2>1, <2>2, <2>3, <2>4 DEF Stage, Finished, Failed
<1>2. QED
  BY <1>1, StagesKept, PTL

\* A connection is kept alive only after a whole response has been handed to
\* the kernel: all the data and the last chunk, or an error response.
THEOREM KeptIsWhole == Spec => []KeptAfterWhole
<1>1. ASSUME IInv PROVE KeptAfterWhole
  <2>1. SUFFICES ASSUME relay.client = "READING" PROVE KeptAfterWhole
    BY DEF KeptAfterWhole
  <2>2. Stage(Where, relay, pipe) /\ Stream = Where \o relay.out
    BY <1>1, <2>1 DEF IInv, Where, Stream
  <2>3. (Finished(Where, relay) \/ Failed(Where, relay)) /\ relay.out = <<>>
    BY <2>1, <2>2 DEF Stage, Collecting, Streaming
  <2>4. QED
    BY <2>1, <2>2, <2>3 DEF KeptAfterWhole, Finished, Failed, Done
<1>2. QED
  BY <1>1, StagesKept, PTL

\* With a client_max_body_size above the high-water mark, one chunk and the
\* end, what an open connection gets is one well-formed chunked response as
\* far as it goes, whichever handlers wrote it.
THEOREM StreamIsFramed ==
  ASSUME Roomy
  PROVE  Spec => []Framed
<1>1. ASSUME IInv PROVE Framed
  <2>1. SUFFICES ASSUME relay.client # "CLOSED" PROVE Parsed(Stream).at # "bad"
    BY DEF Framed
  <2>2. /\ Stage(Where, relay, pipe) /\ Stream = Where \o relay.out
    BY <1>1, <2>1, Roomy DEF IInv, Where, Stream
  <2>3. Parsed(Stream) \in {Start, Body, Done}
    <3>1. CASE Collecting(Where, relay, pipe)
      <4>1. Stream = <<>>
        BY <2>2, <3>1 DEF Collecting
      <4>2. QED
        BY <4>1, ParsedNothing
    <3>2. CASE Streaming(Where, relay, pipe)
      BY <2>2, <3>2 DEF Streaming
    <3>3. CASE Finished(Where, relay)
      BY <2>2, <3>3 DEF Finished
    <3>4. CASE Failed(Where, relay)
      BY <2>2, <3>4, Roomy DEF Failed
    <3>5. QED
      BY <2>2, <3>1, <3>2, <3>3, <3>4 DEF Stage
  <2>4. QED
    BY <2>3 DEF Start, Body, Done
<1>2. QED
  BY <1>1, StagesKept, PTL

\* With such a client_max_body_size no exception of the write buffer leaves
\* the event loop, however slow the client and however much the script writes.
THEOREM NeverCrashes ==
  ASSUME Roomy
  PROVE  Spec => [](relay.client # "CRASHED")
<1>1. IInv => relay.client # "CRASHED"
  BY Roomy DEF IInv
<1>2. QED
  BY <1>1, StagesKept, PTL
=============================================================================
