--------------------------- MODULE RoutingProofs ---------------------------
(***************************************************************************)
(* Proofs about Routing, for any configuration, any paths and names and    *)
(* any files: which server block and which location answer, which limit    *)
(* holds for what is uploaded, which files change, and that normalizePath  *)
(* is right.                                                               *)
(***************************************************************************)
EXTENDS Routing, SequenceTheorems, FiniteSetTheorems, WellFoundedInduction, TLAPS

-----------------------------------------------------------------------------
(* The invariant. *)

\* A complete body has passed the limit of its location, by the path as it was
\* sent, and, unless it is chunked, that of its block, once Host was known.
WithinLimits ==
  phase = "COMPLETE" =>
    /\ request.chunked \/ ~(request.length > servers[block].max)
    /\ ~(request.length > LimitOf(block, request.path))

\* The configuration is one of those assumed; a new connection has no answer
\* of the last one.  Host, once it is known, has
\* chosen the block; before, no block has the name that stands for none.
Chosen ==
  /\ servers \in Configurations
  /\ request = [path |-> request.path, method |-> request.method,
                host |-> request.host, chunked |-> request.chunked, length |-> request.length]
  /\ phase = "ANSWERED" \/ phase = "COMPLETE" \/ request.host = "none"
  /\ phase = "CLOSED" => answer.code = 0
  /\ NamedServerAnswers

RouteInv == Chosen /\ WithinLimits

\* No block has the name that stands for an unknown Host.
LEMMA NobodyIsNone ==
  ASSUME servers \in Configurations
  PROVE  Named("none") = {}
BY NoneIsNoName DEF Named

\* Before the first connection there is no request and no answer.
LEMMA InitRoute == Init => RouteInv
<1>1. SUFFICES ASSUME Init PROVE RouteInv
  OBVIOUS
<1>2. /\ servers \in Configurations /\ phase = "CLOSED"
      /\ request = NoRequest /\ answer = NoAnswer
  BY <1>1 DEF Init
<1>3. /\ request.host = "none" /\ answer.code = 0
      /\ request = [path |-> request.path, method |-> request.method,
                    host |-> request.host, chunked |-> request.chunked,
                    length |-> request.length]
  BY <1>2 DEF NoRequest, NoAnswer
<1>4. QED
  BY <1>2, <1>3 DEF RouteInv, Chosen, WithinLimits, NamedServerAnswers

\* The request line leaves Host unknown, also where it is answered at once.
LEMMA RequestLineRoute ==
  ASSUME RouteInv, NEW uri \in Uris, NEW method \in Methods, RequestLine(uri, method)
  PROVE  RouteInv'
<1> DEFINE path == CleanPath(IF uri = <<>> THEN <<"/">> ELSE uri)
<1>1. /\ servers' = servers /\ servers \in Configurations
      /\ request' = [NoRequest EXCEPT !.path = path, !.method = method]
      /\ phase' \in {"ANSWERED", "HEADERS"}
  BY DEF RequestLine, RouteInv, Chosen
<1> HIDE DEF path
<1>2. /\ request' = [path |-> path, method |-> method, host |-> "none",
                     chunked |-> FALSE, length |-> 0]
      /\ request'.host = "none"
  BY <1>1 DEF NoRequest
<1>3. Named("none")' = {}
  BY <1>1, NobodyIsNone DEF Named
<1>4. QED
  BY <1>1, <1>2, <1>3 DEF RouteInv, Chosen, WithinLimits, NamedServerAnswers

\* Host chooses the block, and both limits are looked at after that.
LEMMA HeadersRoute ==
  ASSUME RouteInv, NEW host \in Hosts, NEW chunked \in BOOLEAN, NEW length \in Lengths,
         Headers(host, chunked, length)
  PROVE  RouteInv'
<1> DEFINE new == OverrideHost(host)
<1>1. /\ servers' = servers /\ block' = new /\ phase = "HEADERS"
      /\ request' = [request EXCEPT !.host = host, !.chunked = chunked, !.length = length]
      /\ \/ phase' = "ANSWERED"
         \/ /\ phase' = "COMPLETE"
            /\ chunked \/ ~(length > servers[block'].max)
            /\ ~(length > LimitOf(block', request.path))
  BY DEF Headers
<1>2. request' = [path |-> request.path, method |-> request.method,
                  host |-> host, chunked |-> chunked, length |-> length]
  BY <1>1 DEF RouteInv, Chosen
<1>3. Named(host)' = Named(host)
  BY <1>1 DEF Named
<1>5. Named(host) # {} => new = Min(Named(host))
  BY DEF OverrideHost
<1> HIDE DEF new
<1>6. /\ request'.path = request.path /\ request'.host = host
      /\ request'.chunked = chunked /\ request'.length = length
  BY <1>2
<1>7. WithinLimits'
  <2>1. LimitOf(block, request.path)' = LimitOf(block', request.path)
    BY <1>1, <1>6 DEF LimitOf, LocationIn
  <2>2. QED
    BY <1>1, <1>6, <2>1 DEF WithinLimits
<1>8. NamedServerAnswers'
  BY <1>1, <1>3, <1>5, <1>6 DEF NamedServerAnswers
<1>9. QED
  BY <1>1, <1>2, <1>6, <1>7, <1>8 DEF RouteInv, Chosen

\* The path is normalised; Host and block stay.
LEMMA HandleRoute ==
  ASSUME RouteInv, Handle
  PROVE  RouteInv'
<1> DEFINE path == NormalizePath(request.path)
<1>1. /\ servers' = servers /\ block' = block /\ phase = "COMPLETE" /\ phase' = "ANSWERED"
      /\ request' = [request EXCEPT !.path = path]
  BY DEF Handle
<1> HIDE DEF path
<1>2. request' = [path |-> path, method |-> request.method,
                  host |-> request.host, chunked |-> request.chunked,
                  length |-> request.length]
  BY <1>1 DEF RouteInv, Chosen
<1>3. Named(request.host)' = Named(request.host)
  BY <1>1, <1>2 DEF Named
<1>4. QED
  BY <1>1, <1>2, <1>3 DEF RouteInv, Chosen, WithinLimits, NamedServerAnswers

\* Every other step keeps the block that was chosen.
LEMMA NextRoute == RouteInv /\ [Next]_vars => RouteInv'
<1>1. SUFFICES ASSUME RouteInv, [Next]_vars PROVE RouteInv'
  OBVIOUS
<1>2. CASE (\E i \in DOMAIN servers : Accept(i)) \/ NextRequest \/ Close
  <2>1. /\ servers' = servers /\ phase' \in {"READING", "CLOSED"}
        /\ request' = request \/ request' = NoRequest
        /\ request'.host = "none" /\ (phase' = "CLOSED" => answer' = NoAnswer)
    BY <1>1, <1>2 DEF Accept, NextRequest, Close, NoRequest, RouteInv, Chosen
  <2>2. request' = [path |-> request'.path, method |-> request'.method,
                    host |-> request'.host, chunked |-> request'.chunked,
                    length |-> request'.length]
    BY <1>1, <2>1 DEF RouteInv, Chosen, NoRequest
  <2>3. QED
    BY <1>1, <2>1, <2>2 DEF RouteInv, Chosen, WithinLimits, NamedServerAnswers, NoAnswer
<1>3. CASE UNCHANGED vars
  BY <1>1, <1>3 DEF vars, RouteInv, Chosen, WithinLimits, LimitOf, LocationIn, NamedServerAnswers, Named
<1>4. QED
  BY <1>1, <1>2, <1>3, RequestLineRoute, HeadersRoute, HandleRoute DEF Next

\* The block in use, kept from one request of a connection to the next, is always
\* one that the listener or the Host of the request chose.
THEOREM RouteAgrees == Spec => []RouteInv
<1>1. Init => RouteInv
  BY InitRoute
<1>2. RouteInv /\ [Next]_vars => RouteInv'
  BY NextRoute
<1>3. QED
  BY <1>1, <1>2, PTL DEF Spec

\* On a later request of a connection as on the first, the block that Host
\* names answers: override_host looks through all blocks, not from the one
\* that is in use.
THEOREM NamedBlockAnswers == Spec => []NamedServerAnswers
<1>1. RouteInv => NamedServerAnswers
  BY DEF RouteInv, Chosen
<1>2. QED
  BY <1>1, RouteAgrees, PTL

-----------------------------------------------------------------------------
(* What is uploaded. *)

\* Only _handlePost answers 201, for the location it was given.
LEMMA CreatedByUpload ==
  ASSUME NEW path, NEW l, NEW kind, NEW at, NEW o \in Outcomes(path, l, kind, at),
         o.answer.code = 201
  PROVE  l # NoLocation /\ o.answer.location = l
<1>1. ASSUME NEW codes \in SUBSET {301, 400, 403, 404, 405, 500}, o \in Reply(codes)
      PROVE  FALSE
  BY <1>1 DEF Reply, Code, NoAnswer
<1>2. ASSUME NEW place, NEW m, o \in Static(place, m) \/ o \in Listing(place, m)
      PROVE  FALSE
  BY <1>1, <1>2 DEF Static, Listing, Served
<1>3. ASSUME o \in Deletions(at, l)
      PROVE  FALSE
  BY <1>1, <1>3 DEF Deletions
<1>4. ASSUME NEW code \in {403, 404}, o \in Directory(at, l, code)
      PROVE  FALSE
  BY <1>1, <1>2, <1>4 DEF Directory
<1>5. ASSUME o \in Uploads(l)
      PROVE  o.answer.location = l
  BY <1>1, <1>5 DEF Uploads
<1>6. o \in Uploads(l) /\ l # NoLocation
  BY <1>1, <1>2, <1>3, <1>4 DEF Outcomes
<1>7. QED
  BY <1>5, <1>6

\* An upload is never larger than its location allows, nor, unless it is
\* chunked, than its block does: what a
\* connection carries over from its last request, the block and so the limit
\* that the parser starts with, is put right once Host is known.
THEOREM UploadsWithinLimits == Spec => LimitsHold
<1> DEFINE Bounded == answer'.code = 201 /\ request.path = request'.path =>
                        /\ ~(request.length > answer'.location.max)
                        /\ request.chunked \/ ~(request.length > servers[block].max)
<1>1. ASSUME RouteInv, Next, answer'.code = 201, request.path = request'.path
      PROVE  /\ ~(request.length > answer'.location.max)
             /\ request.chunked \/ ~(request.length > servers[block].max)
  <2>1. CASE Handle
    <3> DEFINE path == NormalizePath(request.path)
               l    == LocationIn(block, path)
    <3>1. PICK kind, at : \E o \in Outcomes(path, l, kind, at) : answer' = o.answer
      BY <2>1 DEF Handle
    <3>2. phase = "COMPLETE" /\ request' = [request EXCEPT !.path = path]
      BY <2>1 DEF Handle
    <3>3. l # NoLocation /\ answer'.location = l
      BY <1>1, <3>1, CreatedByUpload
    <3> HIDE DEF path
    <3>4. request'.path = path
      BY <1>1, <3>2 DEF RouteInv, Chosen
    <3>5. LimitOf(block, request.path) = l.max
      BY <1>1, <3>3, <3>4 DEF LimitOf
    <3> HIDE DEF l
    <3>6. /\ request.chunked \/ ~(request.length > servers[block].max)
          /\ ~(request.length > LimitOf(block, request.path))
      BY <1>1, <3>2 DEF RouteInv, WithinLimits
    <3>7. answer'.location.max = LimitOf(block, request.path)
      BY <3>3, <3>5
    <3>8. QED
      BY <3>6, <3>7
  <2>2. CASE \E i \in DOMAIN servers : Accept(i)
    BY <1>1, <2>2 DEF Accept, RouteInv, Chosen
  <2>3. CASE \/ NextRequest \/ Close
             \/ \E uri \in Uris, method \in Methods : RequestLine(uri, method)
             \/ \E host \in Hosts, chunked \in BOOLEAN, length \in Lengths : Headers(host, chunked, length)
    <3>1. answer' \in {NoAnswer, Code(404), Code(411), Code(413)}
      BY <2>3 DEF NextRequest, Close, RequestLine, Headers
    <3>2. NoAnswer.code = 0 /\ \A c : Code(c).code = c
      BY DEF NoAnswer, Code
    <3> HIDE DEF NoAnswer, Code
    <3>3. answer'.code # 201
      BY <3>1, <3>2
    <3>4. QED
      BY <1>1, <3>3
  <2>4. QED
    BY <1>1, <2>1, <2>2, <2>3 DEF Next
<1>2. RouteInv /\ [Next]_vars => [Bounded]_vars
  BY <1>1
<1>3. QED
  BY <1>2, RouteAgrees, PTL DEF Spec, LimitsHold

-----------------------------------------------------------------------------
(* What is changed. *)

\* ChangesAllowed, but for where a location applies: a file is made by a POST,
\* one that is answered 201 or that fails with 500 while it writes, or removed by
\* a DELETE; a location takes the method and does not redirect, and it is that
\* file alone.
ChangesByMethod ==
  files' # files =>
    LET l == answer'.location
    IN  /\ l # NoLocation /\ ~l.redirect
        /\ l.methods = {} \/ request.method \in l.methods
        /\ \/ /\ request.method = "POST" /\ answer'.code \in {201, 500} /\ l.upload # NoPlace
              /\ files' = files \cup {answer'.place}
           \/ /\ request.method = "DELETE" /\ answer'.code = 204
              /\ files' = files \ {answer'.place}

\* What an outcome says of the method and the location, where files change.
LEMMA OutcomeByMethod ==
  ASSUME NEW path, NEW l, NEW kind, NEW at, NEW o \in Outcomes(path, l, kind, at),
         o.files # files
  PROVE  /\ l # NoLocation /\ ~l.redirect
         /\ l.methods = {} \/ request.method \in l.methods
         /\ o.answer.location = l
         /\ \/ /\ request.method = "POST" /\ o.answer.code \in {201, 500} /\ l.upload # NoPlace
               /\ o.files = files \cup {o.answer.place}
            \/ /\ request.method = "DELETE" /\ o.answer.code = 204
               /\ o.files = files \ {o.answer.place}
<1>1. ASSUME NEW codes, o \in Reply(codes)
      PROVE  FALSE
  BY <1>1 DEF Reply
<1>2. ASSUME NEW place, NEW m, o \in Static(place, m) \/ o \in Listing(place, m)
      PROVE  FALSE
  BY <1>1, <1>2 DEF Static, Listing, Served
<1>3. ASSUME NEW code, o \in Directory(at, l, code)
      PROVE  FALSE
  BY <1>1, <1>2, <1>3 DEF Directory
<1>4. /\ request.method # "HEAD" /\ May(l, request.method)
      /\ ~(l # NoLocation /\ l.redirect)
      /\ \/ request.method = "POST" /\ l # NoLocation /\ l.upload # NoPlace /\ o \in Uploads(l)
         \/ request.method = "DELETE" /\ o \in Deletions(at, l)
  BY <1>1, <1>2, <1>3 DEF Outcomes
<1>5. /\ l # NoLocation /\ ~l.redirect
      /\ l.methods = {} \/ request.method \in l.methods
  BY <1>4 DEF May
<1>6. ASSUME o \in Uploads(l)
      PROVE  /\ o.answer.location = l /\ o.answer.code \in {201, 500}
             /\ o.files = files \cup {o.answer.place}
  BY <1>1, <1>6 DEF Uploads
<1>7. ASSUME o \in Deletions(at, l)
      PROVE  /\ o.answer.location = l /\ o.answer.code = 204
             /\ o.files = files \ {o.answer.place}
  BY <1>1, <1>7 DEF Deletions
<1>8. QED
  BY <1>4, <1>5, <1>6, <1>7

\* No request makes or removes a file but by a method its location takes: not
\* one that is redirected, and none outside of the locations.
THEOREM FilesChangeByMethod == Spec => [][ChangesByMethod]_vars
<1>1. ASSUME Next
      PROVE  ChangesByMethod
  <2>1. CASE Handle
    <3> DEFINE path == NormalizePath(request.path)
               l    == LocationIn(block, path)
    <3>1. PICK kind, at : \E o \in Outcomes(path, l, kind, at) : answer' = o.answer /\ files' = o.files
      BY <2>1 DEF Handle
    <3> HIDE DEF l
    <3>2. QED
      BY <3>1, OutcomeByMethod DEF ChangesByMethod
  <2>2. CASE \/ NextRequest \/ Close \/ \E i \in DOMAIN servers : Accept(i)
             \/ \E uri \in Uris, method \in Methods : RequestLine(uri, method)
             \/ \E host \in Hosts, chunked \in BOOLEAN, length \in Lengths : Headers(host, chunked, length)
    BY <2>2 DEF NextRequest, Close, Accept, RequestLine, Headers, ChangesByMethod
  <2>3. QED
    BY <1>1, <2>1, <2>2 DEF Next
<1>2. [Next]_vars => [ChangesByMethod]_vars
  BY <1>1
<1>3. QED
  BY <1>2, PTL DEF Spec

-----------------------------------------------------------------------------
(* Natural numbers. *)

\* Every non-empty set of natural numbers has a least element.
LEMMA LeastNat ==
  ASSUME NEW T \in SUBSET Nat, T # {}
  PROVE  \E n \in T : \A m \in T : n <= m
<1> DEFINE less == OpToRel(<, Nat)
<1>1. \A m, n \in Nat : m < n => <<m, n>> \in less
  BY DEF OpToRel
<1>2. IsWellFoundedOn(less, Nat)
  BY NatLessThanWellFounded
<1> HIDE DEF less
<1>3. PICK n \in T : \A m \in T : <<m, n>> \notin less
  BY <1>2, WFMin
<1>4. \A m \in T : n \in Nat /\ m \in Nat /\ ~(m < n)
  BY <1>1, <1>3
<1>5. \A m \in T : n <= m
  BY <1>4
<1>6. QED
  BY <1>5

\* Induction over the natural numbers, for a set of those that it holds of.
LEMMA NatSet ==
  ASSUME NEW S, 0 \in S, \A n \in Nat : n \in S => n + 1 \in S
  PROVE  \A n \in Nat : n \in S
<1>1. SUFFICES ASSUME Nat \ S # {} PROVE FALSE
  OBVIOUS
<1>2. PICK n \in Nat \ S : \A m \in Nat \ S : n <= m
  BY <1>1, LeastNat
<1>3. n # 0 /\ n - 1 \in Nat
  BY <1>2
<1>4. n - 1 \in S
  BY <1>2, <1>3
<1>5. QED
  BY <1>2, <1>3, <1>4

\* A set of indices has a greatest one, which Max gives.
LEMMA MaxIs ==
  ASSUME NEW n \in Nat, NEW s \in SUBSET (1 .. n), s # {}
  PROVE  Max(s) \in s /\ \A j \in s : j <= Max(s)
<1> DEFINE T == {k \in Nat : n - k \in s}
<1>1. PICK j \in s : TRUE
  OBVIOUS
<1>2. n - j \in Nat /\ n - (n - j) = j
  BY <1>1
<1>3. T \in SUBSET Nat /\ T # {}
  BY <1>1, <1>2
<1>4. PICK k \in T : \A m \in T : k <= m
  BY <1>3, LeastNat
<1>5. n - k \in s /\ k \in Nat
  BY <1>4
<1>6. ASSUME NEW m \in s PROVE m <= n - k
  <2>1. m \in 1 .. n /\ n - m \in Nat /\ n - (n - m) = m
    BY <1>6
  <2>2. n - m \in T
    BY <2>1
  <2>3. k <= n - m
    BY <1>4, <2>2
  <2>4. QED
    BY <1>5, <2>1, <2>3
<1>7. \E x \in s : \A y \in s : x >= y
  <2>1. \A y \in s : n - k >= y
    BY <1>5, <1>6
  <2>2. QED
    BY <1>5, <2>1
<1>8. Max(s) \in s /\ \A y \in s : Max(s) >= y
  BY <1>7 DEF Max
<1>9. QED
  BY <1>8

\* Of the numbers up to i the greatest is i; without it they are those before i.
LEMMA Initial ==
  ASSUME NEW n \in Nat, NEW i \in 1 .. n
  PROVE  /\ 1 .. i \in SUBSET (1 .. n) /\ 1 .. i # {}
         /\ Max(1 .. i) = i /\ (1 .. i) \ {i} = 1 .. (i - 1)
<1>1. 1 .. i \in SUBSET (1 .. n) /\ i \in 1 .. i
  OBVIOUS
<1>2. Max(1 .. i) \in 1 .. i /\ \A j \in 1 .. i : j <= Max(1 .. i)
  BY <1>1, MaxIs
<1>3. Max(1 .. i) = i
  BY <1>1, <1>2
<1>4. QED
  BY <1>1, <1>3

-----------------------------------------------------------------------------
(* Folds: FoldLeft is a choice among functions of the sets of indices that  *)
(* take their greatest one last. There is such a function.                  *)

\* Its steps, one for each index, stay in X.
Steps(X, step, n) == \A i \in 1 .. n : \A x \in X : step[i][x] \in X
Folds(base, step, n, h) ==
  h = [s \in SUBSET (1 .. n) |-> IF s = {} THEN base ELSE step[Max(s)][h[s \ {Max(s)}]]]

\* The function that a fold over a sequence chooses exists.
LEMMA FoldExists ==
  ASSUME NEW X, NEW base \in X, NEW n \in Nat, NEW step, Steps(X, step, n)
  PROVE  \E h : Folds(base, step, n, h) /\ \A s \in SUBSET (1 .. n) : h[s] \in X
<1> DEFINE Does(m, h) == Folds(base, step, m, h) /\ \A s \in SUBSET (1 .. m) : h[s] \in X
           S == {m \in Nat : m <= n => \E h : Does(m, h)}
<1>1. 0 \in S
  <2> DEFINE h == [s \in SUBSET (1 .. 0) |-> base]
  <2>1. \A s \in SUBSET (1 .. 0) : s = {}
    OBVIOUS
  <2>2. Does(0, h)
    BY <2>1 DEF Folds
  <2>3. QED
    BY <2>2
<1>2. ASSUME NEW m \in Nat, m \in S
      PROVE  m + 1 \in S
  <2>1. SUFFICES ASSUME m + 1 <= n PROVE \E h : Does(m + 1, h)
    OBVIOUS
  <2>2. PICK f : Does(m, f)
    BY <1>2, <2>1
  <2>20. \A s \in SUBSET (1 .. m) : s # {} => f[s] = step[Max(s)][f[s \ {Max(s)}]]
    BY <2>2 DEF Folds
  <2> DEFINE k == m + 1
             h == [s \in SUBSET (1 .. k) |-> IF k \in s THEN step[k][f[s \ {k}]] ELSE f[s]]
  <2>3. \A s \in SUBSET (1 .. k) : s \ {k} \in SUBSET (1 .. m) /\ (k \notin s => s \in SUBSET (1 .. m))
    OBVIOUS
  <2>4. k \in 1 .. n /\ k \in Nat
    BY <2>1
  <2> HIDE DEF k
  <2>5. ASSUME NEW s \in SUBSET (1 .. k) PROVE h[s] \in X
    <3>1. f[s \ {k}] \in X /\ (k \notin s => f[s] \in X)
      BY <2>2, <2>3
    <3>2. QED
      BY <2>4, <3>1 DEF Steps
  <2>6. ASSUME NEW s \in SUBSET (1 .. k), s # {}
        PROVE  h[s] = step[Max(s)][h[s \ {Max(s)}]]
    <3>1. Max(s) \in s /\ (\A j \in s : j <= Max(s)) /\ s \ {Max(s)} \in SUBSET (1 .. k)
      BY <2>4, <2>6, MaxIs
    <3>2. CASE k \in s
      <4>1. Max(s) \in 1 .. k /\ k <= Max(s)
        BY <3>1, <3>2
      <4>2. Max(s) = k
        BY ONLY <2>4, <4>1
      <4>3. h[s] = step[k][f[s \ {k}]] /\ h[s \ {k}] = f[s \ {k}]
        BY <3>1, <3>2, <4>2
      <4>4. QED
        BY <4>2, <4>3
    <3>3. CASE k \notin s
      <4>1. s \in SUBSET (1 .. m) /\ h[s] = f[s] /\ h[s \ {Max(s)}] = f[s \ {Max(s)}]
        BY <2>3, <3>1, <3>3
      <4>2. f[s] = step[Max(s)][f[s \ {Max(s)}]]
        BY ONLY <2>6, <2>20, <4>1
      <4>3. QED
        BY <4>1, <4>2
    <3>4. QED
      BY <3>2, <3>3
  <2>7. h[{}] = base
    <3>1. {} \in SUBSET (1 .. m) /\ {} \in SUBSET (1 .. k)
      OBVIOUS
    <3>2. QED
      BY <2>2, <3>1 DEF Folds
  <2>8. ASSUME NEW s \in SUBSET (1 .. k)
        PROVE  h[s] = IF s = {} THEN base ELSE step[Max(s)][h[s \ {Max(s)}]]
    BY <2>6, <2>7
  <2>9. h = [s \in SUBSET (1 .. k) |-> h[s]]
    OBVIOUS
  <2> HIDE DEF h
  <2>10. h = [s \in SUBSET (1 .. k) |-> IF s = {} THEN base ELSE step[Max(s)][h[s \ {Max(s)}]]]
    BY <2>8, <2>9
  <2>11. Does(k, h)
    BY <2>5, <2>10 DEF Folds
  <2>12. QED
    BY <2>11 DEF k
<1> HIDE DEF S
<1>3. n \in S
  BY <1>1, <1>2, NatSet
<1>4. QED
  BY <1>3 DEF S

\* Front takes the last element away.
LEMMA FrontTyped ==
  ASSUME NEW S, NEW s \in Seq(S)
  PROVE  /\ Front(s) \in Seq(S)
         /\ s # <<>> => Len(Front(s)) = Len(s) - 1 /\ \A i \in 1 .. Len(s) - 1 : Front(s)[i] = s[i]
         /\ s = <<>> => Front(s) = <<>>
<1>1. Len(s) \in Nat /\ \A i \in 1 .. Len(s) : s[i] \in S
  BY LenProperties, ElementOfSeq
<1>2. Len(s) - 1 \in Int /\ \A i \in 1 .. Len(s) - 1 : s[i] \in S
  BY <1>1
<1>3. /\ Front(s) \in Seq(S)
      /\ Len(Front(s)) = IF 1 <= Len(s) - 1 THEN (Len(s) - 1) - 1 + 1 ELSE 0
      /\ \A i \in 1 .. (Len(s) - 1) - 1 + 1 : Front(s)[i] = s[1 + i - 1]
  BY <1>2, SubSeqProperties DEF Front
<1>4. s # <<>> => Len(s) # 0
  BY EmptySeq
<1>5. s = <<>> => Front(s) = <<>>
  BY <1>1, SubSeqEmpty DEF Front
<1>6. ASSUME s # <<>> PROVE Len(Front(s)) = Len(s) - 1
  <2> DEFINE n == Len(s)
             m == Len(Front(s))
  <2>1. n # 0 /\ n \in Nat /\ m = IF 1 <= n - 1 THEN (n - 1) - 1 + 1 ELSE 0
    BY ONLY <1>1, <1>3, <1>4, <1>6
  <2> HIDE DEF n, m
  <2>2. m = n - 1
    BY <2>1
  <2>3. QED
    BY <2>2 DEF n, m
<1>7. ASSUME NEW i \in 1 .. Len(s) - 1 PROVE Front(s)[i] = s[i]
  <2>1. i \in 1 .. (Len(s) - 1) - 1 + 1 /\ 1 + i - 1 = i
    BY <1>1
  <2>2. QED
    BY <1>3, <2>1
<1>8. QED
  BY <1>3, <1>5, <1>6, <1>7

\* The names between the slashes, one after the other.
SegmentsBy(p, g) ==
  /\ g[0] = <<>> /\ SegmentsOf(p) = g[Len(p)]
  /\ \A i \in 1 .. Len(p) : g[i] = IF p[i] = "/" THEN g[i - 1] ELSE Append(g[i - 1], p[i])
  /\ \A i \in 0 .. Len(p) : g[i] \in Seq(STRING)

\* SegmentsOf, name by name.
LEMMA SegmentsRun ==
  ASSUME NEW p \in Seq(STRING)
  PROVE  \E g : SegmentsBy(p, g)
<1> DEFINE n == Len(p)
           X == Seq(STRING)
           base == <<>>
           One(x, t) == IF t = "/" THEN x ELSE Append(x, t)
           step == [i \in 1 .. n |-> [x \in X |-> One(x, p[i])]]
           Eq(h) == h = [d \in SUBSET (1 .. n) |-> IF d = {} THEN base ELSE One(h[d \ {Max(d)}], p[Max(d)])]
           h == CHOOSE h : Eq(h)
<1>1. n \in Nat /\ DOMAIN p = 1 .. n /\ \A i \in 1 .. n : p[i] \in STRING
  BY LenProperties, ElementOfSeq
<1>2. SegmentsOf(p) = h[1 .. n]
  BY <1>1 DEF SegmentsOf, FoldLeft, MapThenFoldSet
<1> HIDE DEF n
<1>3. \A x \in X, t \in STRING : One(x, t) \in X
  BY AppendProperties
<1>5. base \in X
  BY EmptySeq
<1> HIDE DEF One, X, base
<1>4. Steps(X, step, n)
  BY <1>1, <1>3 DEF Steps
<1>6. PICK f : Folds(base, step, n, f) /\ \A d \in SUBSET (1 .. n) : f[d] \in X
  BY <1>1, <1>4, <1>5, FoldExists
<1>7. ASSUME NEW d \in SUBSET (1 .. n)
      PROVE  f[d] = IF d = {} THEN base ELSE One(f[d \ {Max(d)}], p[Max(d)])
  <2>1. CASE d = {}
    BY <1>6, <2>1 DEF Folds
  <2>2. CASE d # {}
    <3>1. Max(d) \in 1 .. n /\ d \ {Max(d)} \in SUBSET (1 .. n)
      BY <1>1, <2>2, MaxIs
    <3>2. step[Max(d)][f[d \ {Max(d)}]] = One(f[d \ {Max(d)}], p[Max(d)])
      BY <1>6, <3>1
    <3>3. QED
      BY <1>6, <2>2, <3>2 DEF Folds
  <2>3. QED
    BY <2>1, <2>2
<1>8. f = [d \in SUBSET (1 .. n) |-> f[d]]
  BY <1>6 DEF Folds
<1>9. Eq(f)
  BY <1>7, <1>8
<1>10. Eq(h)
  BY <1>9
<1> HIDE DEF h
<1> DEFINE g == [i \in 0 .. n |-> h[1 .. i]]
<1>11. g[0] = base /\ g[n] = h[1 .. n]
  <2>1. h[{}] = base /\ 1 .. 0 = {} /\ 0 \in 0 .. n /\ n \in 0 .. n
    BY <1>1, <1>10
  <2>2. QED
    BY <2>1
<1>12. ASSUME NEW i \in 1 .. n PROVE g[i] = One(g[i - 1], p[i])
  <2>1. /\ 1 .. i \in SUBSET (1 .. n) /\ 1 .. i # {}
        /\ Max(1 .. i) = i /\ (1 .. i) \ {i} = 1 .. (i - 1)
    BY <1>1, Initial
  <2>2. h[1 .. i] = One(h[1 .. (i - 1)], p[i])
    BY <1>10, <2>1
  <2>3. i \in 0 .. n /\ i - 1 \in 0 .. n
    BY <1>1
  <2>4. QED
    BY <2>2, <2>3
<1> HIDE DEF g
<1>13. \A i \in 0 .. n : g[i] \in X
  <2> DEFINE S == {i \in Nat : i <= n => g[i] \in X}
  <2>1. 0 \in S
    BY <1>5, <1>11
  <2>2. ASSUME NEW i \in Nat, i \in S PROVE i + 1 \in S
    <3>1. SUFFICES ASSUME i + 1 <= n PROVE g[i + 1] \in X
      OBVIOUS
    <3>2. i + 1 \in 1 .. n /\ (i + 1) - 1 = i /\ g[i] \in X
      BY <1>1, <2>2, <3>1
    <3>3. g[i + 1] = One(g[i], p[i + 1]) /\ p[i + 1] \in STRING
      BY <1>1, <1>12, <3>2
    <3>4. QED
      BY <1>3, <3>2, <3>3
  <2> HIDE DEF S
  <2>3. \A i \in Nat : i \in S
    BY <2>1, <2>2, NatSet
  <2>4. QED
    BY <1>1, <2>3 DEF S
<1>14. SegmentsBy(p, g)
  BY <1>2, <1>11, <1>12, <1>13 DEF SegmentsBy, One, X, base, n
<1>15. QED
  BY <1>14

\* The slashes that are kept of several.
CleanBy(p, g) ==
  /\ g[0] = <<>> /\ CleanPath(p) = WithoutSlash(g[Len(p)])
  /\ \A i \in 1 .. Len(p) : g[i] = IF p[i] = "/" /\ g[i - 1] # <<>> /\ Last(g[i - 1]) = "/" THEN g[i - 1]
                                       ELSE Append(g[i - 1], p[i])
  /\ \A i \in 0 .. Len(p) : g[i] \in Seq(STRING)

\* cleanPath's loop, name by name.
LEMMA CleanRun ==
  ASSUME NEW p \in Seq(STRING)
  PROVE  \E g : CleanBy(p, g)
<1> DEFINE n == Len(p)
           X == Seq(STRING)
           base == <<>>
           One(x, t) == IF t = "/" /\ x # <<>> /\ Last(x) = "/" THEN x ELSE Append(x, t)
           step == [i \in 1 .. n |-> [x \in X |-> One(x, p[i])]]
           Eq(h) == h = [d \in SUBSET (1 .. n) |-> IF d = {} THEN base ELSE One(h[d \ {Max(d)}], p[Max(d)])]
           h == CHOOSE h : Eq(h)
<1>1. n \in Nat /\ DOMAIN p = 1 .. n /\ \A i \in 1 .. n : p[i] \in STRING
  BY LenProperties, ElementOfSeq
<1>2. CleanPath(p) = WithoutSlash(h[1 .. n])
  BY <1>1 DEF CleanPath, FoldLeft, MapThenFoldSet
<1> HIDE DEF n
<1>3. \A x \in X, t \in STRING : One(x, t) \in X
  BY AppendProperties
<1>5. base \in X
  BY EmptySeq
<1> HIDE DEF One, X, base
<1>4. Steps(X, step, n)
  BY <1>1, <1>3 DEF Steps
<1>6. PICK f : Folds(base, step, n, f) /\ \A d \in SUBSET (1 .. n) : f[d] \in X
  BY <1>1, <1>4, <1>5, FoldExists
<1>7. ASSUME NEW d \in SUBSET (1 .. n)
      PROVE  f[d] = IF d = {} THEN base ELSE One(f[d \ {Max(d)}], p[Max(d)])
  <2>1. CASE d = {}
    BY <1>6, <2>1 DEF Folds
  <2>2. CASE d # {}
    <3>1. Max(d) \in 1 .. n /\ d \ {Max(d)} \in SUBSET (1 .. n)
      BY <1>1, <2>2, MaxIs
    <3>2. step[Max(d)][f[d \ {Max(d)}]] = One(f[d \ {Max(d)}], p[Max(d)])
      BY <1>6, <3>1
    <3>3. QED
      BY <1>6, <2>2, <3>2 DEF Folds
  <2>3. QED
    BY <2>1, <2>2
<1>8. f = [d \in SUBSET (1 .. n) |-> f[d]]
  BY <1>6 DEF Folds
<1>9. Eq(f)
  BY <1>7, <1>8
<1>10. Eq(h)
  BY <1>9
<1> HIDE DEF h
<1> DEFINE g == [i \in 0 .. n |-> h[1 .. i]]
<1>11. g[0] = base /\ g[n] = h[1 .. n]
  <2>1. h[{}] = base /\ 1 .. 0 = {} /\ 0 \in 0 .. n /\ n \in 0 .. n
    BY <1>1, <1>10
  <2>2. QED
    BY <2>1
<1>12. ASSUME NEW i \in 1 .. n PROVE g[i] = One(g[i - 1], p[i])
  <2>1. /\ 1 .. i \in SUBSET (1 .. n) /\ 1 .. i # {}
        /\ Max(1 .. i) = i /\ (1 .. i) \ {i} = 1 .. (i - 1)
    BY <1>1, Initial
  <2>2. h[1 .. i] = One(h[1 .. (i - 1)], p[i])
    BY <1>10, <2>1
  <2>3. i \in 0 .. n /\ i - 1 \in 0 .. n
    BY <1>1
  <2>4. QED
    BY <2>2, <2>3
<1> HIDE DEF g
<1>13. \A i \in 0 .. n : g[i] \in X
  <2> DEFINE S == {i \in Nat : i <= n => g[i] \in X}
  <2>1. 0 \in S
    BY <1>5, <1>11
  <2>2. ASSUME NEW i \in Nat, i \in S PROVE i + 1 \in S
    <3>1. SUFFICES ASSUME i + 1 <= n PROVE g[i + 1] \in X
      OBVIOUS
    <3>2. i + 1 \in 1 .. n /\ (i + 1) - 1 = i /\ g[i] \in X
      BY <1>1, <2>2, <3>1
    <3>3. g[i + 1] = One(g[i], p[i + 1]) /\ p[i + 1] \in STRING
      BY <1>1, <1>12, <3>2
    <3>4. QED
      BY <1>3, <3>2, <3>3
  <2> HIDE DEF S
  <2>3. \A i \in Nat : i \in S
    BY <2>1, <2>2, NatSet
  <2>4. QED
    BY <1>1, <2>3 DEF S
<1>14. CleanBy(p, g)
  BY <1>2, <1>11, <1>12, <1>13 DEF CleanBy, One, X, base, n
<1>15. QED
  BY <1>14

\* What normalizePath has of a path: names that are neither "." nor "..".
Names == STRING \ {"/", ".", ".."}
Walks == [ok : BOOLEAN, segments : Seq(Names)]
Start == [ok |-> TRUE, segments |-> <<>>]

\* The walk never has a dot, two dots or a slash among its names.
LEMMA WalkTyped ==
  /\ Start \in Walks
  /\ \A x \in Walks, t \in STRING \ {"/"} : Walk(x, t) \in Walks
<1>1. Start \in Walks
  BY EmptySeq DEF Start, Walks
<1>2. ASSUME NEW x \in Walks, NEW t \in STRING \ {"/"} PROVE Walk(x, t) \in Walks
  <2>1. x.segments \in Seq(Names) /\ x = [ok |-> x.ok, segments |-> x.segments] /\ x.ok \in BOOLEAN
    BY DEF Walks
  <2>2. t \notin {".", ".."} => Append(x.segments, t) \in Seq(Names)
    BY <2>1, AppendProperties DEF Names
  <2>3. Front(x.segments) \in Seq(Names)
    BY <2>1, FrontTyped
  <2>4. QED
    BY <2>1, <2>2, <2>3 DEF Walk, Walks
<1>3. QED
  BY <1>1, <1>2

\* The walk along the names of a path.
WalkBy(s, g) ==
  /\ g[0] = Start /\ FoldLeft(Walk, Start, s) = g[Len(s)]
  /\ \A i \in 1 .. Len(s) : g[i] = Walk(g[i - 1], s[i])
  /\ \A i \in 0 .. Len(s) : g[i] \in Walks

\* normalizePath's loop, segment by segment.
LEMMA WalkRun ==
  ASSUME NEW s \in Seq(STRING \ {"/"})
  PROVE  \E g : WalkBy(s, g)
<1> DEFINE n == Len(s)
           X == Walks
           base == Start
           One(x, t) == Walk(x, t)
           step == [i \in 1 .. n |-> [x \in X |-> One(x, s[i])]]
           Eq(h) == h = [d \in SUBSET (1 .. n) |-> IF d = {} THEN base ELSE One(h[d \ {Max(d)}], s[Max(d)])]
           h == CHOOSE h : Eq(h)
<1>1. n \in Nat /\ DOMAIN s = 1 .. n /\ \A i \in 1 .. n : s[i] \in STRING \ {"/"}
  BY LenProperties, ElementOfSeq
<1>2. FoldLeft(Walk, Start, s) = h[1 .. n]
  BY <1>1 DEF FoldLeft, MapThenFoldSet
<1> HIDE DEF n
<1>3. \A x \in X, t \in STRING \ {"/"} : One(x, t) \in X
  BY WalkTyped
<1>5. base \in X
  BY WalkTyped
<1> HIDE DEF One, X, base
<1>4. Steps(X, step, n)
  BY <1>1, <1>3 DEF Steps
<1>6. PICK f : Folds(base, step, n, f) /\ \A d \in SUBSET (1 .. n) : f[d] \in X
  BY <1>1, <1>4, <1>5, FoldExists
<1>7. ASSUME NEW d \in SUBSET (1 .. n)
      PROVE  f[d] = IF d = {} THEN base ELSE One(f[d \ {Max(d)}], s[Max(d)])
  <2>1. CASE d = {}
    BY <1>6, <2>1 DEF Folds
  <2>2. CASE d # {}
    <3>1. Max(d) \in 1 .. n /\ d \ {Max(d)} \in SUBSET (1 .. n)
      BY <1>1, <2>2, MaxIs
    <3>2. step[Max(d)][f[d \ {Max(d)}]] = One(f[d \ {Max(d)}], s[Max(d)])
      BY <1>6, <3>1
    <3>3. QED
      BY <1>6, <2>2, <3>2 DEF Folds
  <2>3. QED
    BY <2>1, <2>2
<1>8. f = [d \in SUBSET (1 .. n) |-> f[d]]
  BY <1>6 DEF Folds
<1>9. Eq(f)
  BY <1>7, <1>8
<1>10. Eq(h)
  BY <1>9
<1> HIDE DEF h
<1> DEFINE g == [i \in 0 .. n |-> h[1 .. i]]
<1>11. g[0] = base /\ g[n] = h[1 .. n]
  <2>1. h[{}] = base /\ 1 .. 0 = {} /\ 0 \in 0 .. n /\ n \in 0 .. n
    BY <1>1, <1>10
  <2>2. QED
    BY <2>1
<1>12. ASSUME NEW i \in 1 .. n PROVE g[i] = One(g[i - 1], s[i])
  <2>1. /\ 1 .. i \in SUBSET (1 .. n) /\ 1 .. i # {}
        /\ Max(1 .. i) = i /\ (1 .. i) \ {i} = 1 .. (i - 1)
    BY <1>1, Initial
  <2>2. h[1 .. i] = One(h[1 .. (i - 1)], s[i])
    BY <1>10, <2>1
  <2>3. i \in 0 .. n /\ i - 1 \in 0 .. n
    BY <1>1
  <2>4. QED
    BY <2>2, <2>3
<1> HIDE DEF g
<1>13. \A i \in 0 .. n : g[i] \in X
  <2> DEFINE S == {i \in Nat : i <= n => g[i] \in X}
  <2>1. 0 \in S
    BY <1>5, <1>11
  <2>2. ASSUME NEW i \in Nat, i \in S PROVE i + 1 \in S
    <3>1. SUFFICES ASSUME i + 1 <= n PROVE g[i + 1] \in X
      OBVIOUS
    <3>2. i + 1 \in 1 .. n /\ (i + 1) - 1 = i /\ g[i] \in X
      BY <1>1, <2>2, <3>1
    <3>3. g[i + 1] = One(g[i], s[i + 1]) /\ s[i + 1] \in STRING \ {"/"}
      BY <1>1, <1>12, <3>2
    <3>4. QED
      BY <1>3, <3>2, <3>3
  <2> HIDE DEF S
  <2>3. \A i \in Nat : i \in S
    BY <2>1, <2>2, NatSet
  <2>4. QED
    BY <1>1, <2>3 DEF S
<1>14. WalkBy(s, g)
  BY <1>2, <1>11, <1>12, <1>13 DEF WalkBy, One, X, base, n
<1>15. QED
  BY <1>14

\* The best location so far.
MatchBy(ls, p, g) ==
  /\ g[0] = NoLocation /\ MatchLocation(ls, p) = g[Len(ls)]
  /\ \A i \in 1 .. Len(ls) : g[i] = IF Serves(ls[i].path, p) /\ Len(ls[i].path) > Len(g[i - 1].path) THEN ls[i]
                                        ELSE g[i - 1]
  /\ \A i \in 0 .. Len(ls) : g[i] \in LocationBlock \cup {NoLocation}

\* matchLocation's loop, location by location.
LEMMA MatchRun ==
  ASSUME NEW ls \in Seq(LocationBlock), NEW p
  PROVE  \E g : MatchBy(ls, p, g)
<1> DEFINE n == Len(ls)
           X == LocationBlock \cup {NoLocation}
           base == NoLocation
           One(x, t) == IF Serves(t.path, p) /\ Len(t.path) > Len(x.path) THEN t ELSE x
           step == [i \in 1 .. n |-> [x \in X |-> One(x, ls[i])]]
           Eq(h) == h = [d \in SUBSET (1 .. n) |-> IF d = {} THEN base ELSE One(h[d \ {Max(d)}], ls[Max(d)])]
           h == CHOOSE h : Eq(h)
<1>1. n \in Nat /\ DOMAIN ls = 1 .. n /\ \A i \in 1 .. n : ls[i] \in LocationBlock
  BY LenProperties, ElementOfSeq
<1>2. MatchLocation(ls, p) = h[1 .. n]
  BY <1>1 DEF MatchLocation, FoldLeft, MapThenFoldSet
<1> HIDE DEF n
<1>3. \A x \in X, t \in LocationBlock : One(x, t) \in X
  OBVIOUS
<1>5. base \in X
  OBVIOUS
<1> HIDE DEF One, X, base
<1>4. Steps(X, step, n)
  BY <1>1, <1>3 DEF Steps
<1>6. PICK f : Folds(base, step, n, f) /\ \A d \in SUBSET (1 .. n) : f[d] \in X
  BY <1>1, <1>4, <1>5, FoldExists
<1>7. ASSUME NEW d \in SUBSET (1 .. n)
      PROVE  f[d] = IF d = {} THEN base ELSE One(f[d \ {Max(d)}], ls[Max(d)])
  <2>1. CASE d = {}
    BY <1>6, <2>1 DEF Folds
  <2>2. CASE d # {}
    <3>1. Max(d) \in 1 .. n /\ d \ {Max(d)} \in SUBSET (1 .. n)
      BY <1>1, <2>2, MaxIs
    <3>2. step[Max(d)][f[d \ {Max(d)}]] = One(f[d \ {Max(d)}], ls[Max(d)])
      BY <1>6, <3>1
    <3>3. QED
      BY <1>6, <2>2, <3>2 DEF Folds
  <2>3. QED
    BY <2>1, <2>2
<1>8. f = [d \in SUBSET (1 .. n) |-> f[d]]
  BY <1>6 DEF Folds
<1>9. Eq(f)
  BY <1>7, <1>8
<1>10. Eq(h)
  BY <1>9
<1> HIDE DEF h
<1> DEFINE g == [i \in 0 .. n |-> h[1 .. i]]
<1>11. g[0] = base /\ g[n] = h[1 .. n]
  <2>1. h[{}] = base /\ 1 .. 0 = {} /\ 0 \in 0 .. n /\ n \in 0 .. n
    BY <1>1, <1>10
  <2>2. QED
    BY <2>1
<1>12. ASSUME NEW i \in 1 .. n PROVE g[i] = One(g[i - 1], ls[i])
  <2>1. /\ 1 .. i \in SUBSET (1 .. n) /\ 1 .. i # {}
        /\ Max(1 .. i) = i /\ (1 .. i) \ {i} = 1 .. (i - 1)
    BY <1>1, Initial
  <2>2. h[1 .. i] = One(h[1 .. (i - 1)], ls[i])
    BY <1>10, <2>1
  <2>3. i \in 0 .. n /\ i - 1 \in 0 .. n
    BY <1>1
  <2>4. QED
    BY <2>2, <2>3
<1> HIDE DEF g
<1>13. \A i \in 0 .. n : g[i] \in X
  <2> DEFINE S == {i \in Nat : i <= n => g[i] \in X}
  <2>1. 0 \in S
    BY <1>5, <1>11
  <2>2. ASSUME NEW i \in Nat, i \in S PROVE i + 1 \in S
    <3>1. SUFFICES ASSUME i + 1 <= n PROVE g[i + 1] \in X
      OBVIOUS
    <3>2. i + 1 \in 1 .. n /\ (i + 1) - 1 = i /\ g[i] \in X
      BY <1>1, <2>2, <3>1
    <3>3. g[i + 1] = One(g[i], ls[i + 1]) /\ ls[i + 1] \in LocationBlock
      BY <1>1, <1>12, <3>2
    <3>4. QED
      BY <1>3, <3>2, <3>3
  <2> HIDE DEF S
  <2>3. \A i \in Nat : i \in S
    BY <2>1, <2>2, NatSet
  <2>4. QED
    BY <1>1, <2>3 DEF S
<1>14. MatchBy(ls, p, g)
  BY <1>2, <1>11, <1>12, <1>13 DEF MatchBy, One, X, base, n
<1>15. QED
  BY <1>14

\* A step in the file system leads to a place, above the root or nowhere.
LEMMA StepTyped ==
  ASSUME NEW x \in Place \cup {Above, Nowhere}, NEW t \in STRING
  PROVE  Step(x, t) \in Place \cup {Above, Nowhere}
<1>1. ASSUME NEW y \in Place
      PROVE  /\ [y EXCEPT !.names = Append(@, t)] \in Place
             /\ [y EXCEPT !.names = Front(@)] \in Place
  <2>1. y.names \in Seq(STRING) /\ y.root \in STRING \ {"none"}
    BY DEF Place
  <2>2. Append(y.names, t) \in Seq(STRING) /\ Front(y.names) \in Seq(STRING)
    BY <2>1, AppendProperties, FrontTyped
  <2>3. QED
    BY <2>1, <2>2 DEF Place
<1>2. x \in Dirs => x \in Place
  BY Inputs
<1>3. QED
  BY <1>1, <1>2 DEF Step

\* The places on the way of stat().
PlaceBy(root, s, g) ==
  /\ g[0] = [root |-> root, names |-> <<>>] /\ FoldLeft(Step, [root |-> root, names |-> <<>>], s) = g[Len(s)]
  /\ \A i \in 1 .. Len(s) : g[i] = Step(g[i - 1], s[i])
  /\ \A i \in 0 .. Len(s) : g[i] \in Place \cup {Above, Nowhere}

\* stat(), component by component.
LEMMA PlaceRun ==
  ASSUME NEW root \in STRING \ {"none"}, NEW s \in Seq(STRING)
  PROVE  \E g : PlaceBy(root, s, g)
<1> DEFINE n == Len(s)
           X == Place \cup {Above, Nowhere}
           base == [root |-> root, names |-> <<>>]
           One(x, t) == Step(x, t)
           step == [i \in 1 .. n |-> [x \in X |-> One(x, s[i])]]
           Eq(h) == h = [d \in SUBSET (1 .. n) |-> IF d = {} THEN base ELSE One(h[d \ {Max(d)}], s[Max(d)])]
           h == CHOOSE h : Eq(h)
<1>1. n \in Nat /\ DOMAIN s = 1 .. n /\ \A i \in 1 .. n : s[i] \in STRING
  BY LenProperties, ElementOfSeq
<1>2. FoldLeft(Step, [root |-> root, names |-> <<>>], s) = h[1 .. n]
  BY <1>1 DEF FoldLeft, MapThenFoldSet
<1> HIDE DEF n
<1>3. \A x \in X, t \in STRING : One(x, t) \in X
  BY StepTyped
<1>5. base \in X
  BY EmptySeq DEF Place
<1> HIDE DEF One, X, base
<1>4. Steps(X, step, n)
  BY <1>1, <1>3 DEF Steps
<1>6. PICK f : Folds(base, step, n, f) /\ \A d \in SUBSET (1 .. n) : f[d] \in X
  BY <1>1, <1>4, <1>5, FoldExists
<1>7. ASSUME NEW d \in SUBSET (1 .. n)
      PROVE  f[d] = IF d = {} THEN base ELSE One(f[d \ {Max(d)}], s[Max(d)])
  <2>1. CASE d = {}
    BY <1>6, <2>1 DEF Folds
  <2>2. CASE d # {}
    <3>1. Max(d) \in 1 .. n /\ d \ {Max(d)} \in SUBSET (1 .. n)
      BY <1>1, <2>2, MaxIs
    <3>2. step[Max(d)][f[d \ {Max(d)}]] = One(f[d \ {Max(d)}], s[Max(d)])
      BY <1>6, <3>1
    <3>3. QED
      BY <1>6, <2>2, <3>2 DEF Folds
  <2>3. QED
    BY <2>1, <2>2
<1>8. f = [d \in SUBSET (1 .. n) |-> f[d]]
  BY <1>6 DEF Folds
<1>9. Eq(f)
  BY <1>7, <1>8
<1>10. Eq(h)
  BY <1>9
<1> HIDE DEF h
<1> DEFINE g == [i \in 0 .. n |-> h[1 .. i]]
<1>11. g[0] = base /\ g[n] = h[1 .. n]
  <2>1. h[{}] = base /\ 1 .. 0 = {} /\ 0 \in 0 .. n /\ n \in 0 .. n
    BY <1>1, <1>10
  <2>2. QED
    BY <2>1
<1>12. ASSUME NEW i \in 1 .. n PROVE g[i] = One(g[i - 1], s[i])
  <2>1. /\ 1 .. i \in SUBSET (1 .. n) /\ 1 .. i # {}
        /\ Max(1 .. i) = i /\ (1 .. i) \ {i} = 1 .. (i - 1)
    BY <1>1, Initial
  <2>2. h[1 .. i] = One(h[1 .. (i - 1)], s[i])
    BY <1>10, <2>1
  <2>3. i \in 0 .. n /\ i - 1 \in 0 .. n
    BY <1>1
  <2>4. QED
    BY <2>2, <2>3
<1> HIDE DEF g
<1>13. \A i \in 0 .. n : g[i] \in X
  <2> DEFINE S == {i \in Nat : i <= n => g[i] \in X}
  <2>1. 0 \in S
    BY <1>5, <1>11
  <2>2. ASSUME NEW i \in Nat, i \in S PROVE i + 1 \in S
    <3>1. SUFFICES ASSUME i + 1 <= n PROVE g[i + 1] \in X
      OBVIOUS
    <3>2. i + 1 \in 1 .. n /\ (i + 1) - 1 = i /\ g[i] \in X
      BY <1>1, <2>2, <3>1
    <3>3. g[i + 1] = One(g[i], s[i + 1]) /\ s[i + 1] \in STRING
      BY <1>1, <1>12, <3>2
    <3>4. QED
      BY <1>3, <3>2, <3>3
  <2> HIDE DEF S
  <2>3. \A i \in Nat : i \in S
    BY <2>1, <2>2, NatSet
  <2>4. QED
    BY <1>1, <2>3 DEF S
<1>14. PlaceBy(root, s, g)
  BY <1>2, <1>11, <1>12, <1>13 DEF PlaceBy, One, X, base, n
<1>15. QED
  BY <1>14

-----------------------------------------------------------------------------
(* Paths in which a slash and a name take turns. *)

Regular(p) ==
  /\ p \in Seq(STRING) /\ p # <<>>
  /\ \A i \in 1 .. Len(p) : p[i] = "/" <=> i % 2 = 1
Clean(p) == Regular(p) /\ (Len(p) = 1 \/ Len(p) % 2 = 0)

\* n pairs of a slash and a name fit into i.
Half(i, n) == n \in Nat /\ (i = 2 * n \/ i = 2 * n + 1)

\* A number has one half, and is even or odd by it.
LEMMA HalfOf ==
  ASSUME NEW i \in Nat
  PROVE  /\ \E n \in Nat : Half(i, n)
         /\ \A n, m \in Nat : Half(i, n) /\ Half(i, m) => n = m
         /\ \A n \in Nat : Half(i, n) => (i % 2 = 0 <=> i = 2 * n) /\ (i % 2 = 1 <=> i = 2 * n + 1)
<1>1. i \div 2 \in Nat /\ (i = 2 * (i \div 2) \/ i = 2 * (i \div 2) + 1)
  OBVIOUS
<1>2. \E n \in Nat : Half(i, n)
  BY <1>1 DEF Half
<1>3. \A n, m \in Nat : Half(i, n) /\ Half(i, m) => n = m
  BY DEF Half
<1>4. \A n \in Nat : Half(i, n) => (i % 2 = 0 <=> i = 2 * n) /\ (i % 2 = 1 <=> i = 2 * n + 1)
  BY DEF Half
<1>5. QED
  BY <1>2, <1>3, <1>4

\* The segments of such a path are the names at its even places.
LEMMA RegularSegments ==
  ASSUME NEW p, Regular(p)
  PROVE  /\ SegmentsOf(p) \in Seq(STRING \ {"/"})
         /\ \A n \in Nat : Half(Len(p), n) =>
              Len(SegmentsOf(p)) = n /\ \A k \in 1 .. n : SegmentsOf(p)[k] = p[2 * k]
<1>1. p \in Seq(STRING) /\ Len(p) \in Nat /\ \A i \in 1 .. Len(p) : p[i] \in STRING
  BY LenProperties, ElementOfSeq DEF Regular
<1>2. PICK g : SegmentsBy(p, g)
  BY <1>1, SegmentsRun
<1> DEFINE N == STRING \ {"/"}
           len == Len(p)
           Good(i) == /\ g[i] \in Seq(N)
                      /\ \A n \in Nat : Half(i, n) =>
                           Len(g[i]) = n /\ \A k \in 1 .. n : g[i][k] = p[2 * k]
           S == {i \in Nat : i <= len => Good(i)}
<1>3. \A i \in 1 .. len : p[i] = "/" <=> i % 2 = 1
  BY DEF Regular
<1>4. len \in Nat /\ \A i \in 1 .. len : p[i] \in STRING
  BY <1>1
<1>5. \A i \in 1 .. len : g[i] = IF p[i] = "/" THEN g[i - 1] ELSE Append(g[i - 1], p[i])
  BY <1>2 DEF SegmentsBy
<1> HIDE DEF len
<1>6. 0 \in S
  <2>1. g[0] = <<>> /\ g[0] \in Seq(N) /\ Len(g[0]) = 0
    BY <1>2, EmptySeq DEF SegmentsBy
  <2>2. \A n \in Nat : Half(0, n) => n = 0
    BY DEF Half
  <2>3. Good(0)
    BY <2>1, <2>2
  <2>4. QED
    BY <2>3
<1>7. ASSUME NEW i \in Nat, i \in S PROVE i + 1 \in S
  <2>1. SUFFICES ASSUME i + 1 <= len PROVE Good(i + 1)
    OBVIOUS
  <2>2. Good(i) /\ i + 1 \in 1 .. len /\ (i + 1) - 1 = i
    BY <1>4, <1>7, <2>1
  <2>3. g[i + 1] = IF p[i + 1] = "/" THEN g[i] ELSE Append(g[i], p[i + 1])
    BY <1>5, <2>2
  <2>4. p[i + 1] = "/" <=> (i + 1) % 2 = 1
    BY <1>3, <2>2
  <2>5. CASE (i + 1) % 2 = 1
    <3>1. \A n \in Nat : Half(i + 1, n) => Half(i, n)
      BY <2>5 DEF Half
    <3>2. g[i + 1] = g[i]
      BY <2>3, <2>4, <2>5
    <3>3. QED
      BY <2>2, <3>1, <3>2
  <2>6. CASE (i + 1) % 2 # 1
    <3>1. p[i + 1] \in N /\ g[i + 1] = Append(g[i], p[i + 1]) /\ g[i] \in Seq(N)
      BY <1>4, <2>2, <2>3, <2>4, <2>6
    <3>2. /\ g[i + 1] \in Seq(N) /\ Len(g[i + 1]) = Len(g[i]) + 1
          /\ (\A k \in 1 .. Len(g[i]) : g[i + 1][k] = g[i][k])
          /\ g[i + 1][Len(g[i]) + 1] = p[i + 1]
      BY <3>1, AppendProperties
    <3>3. ASSUME NEW n \in Nat, Half(i + 1, n)
          PROVE  Len(g[i + 1]) = n /\ \A k \in 1 .. n : g[i + 1][k] = p[2 * k]
      <4>1. n - 1 \in Nat /\ Half(i, n - 1) /\ i + 1 = 2 * n /\ (n - 1) + 1 = n
        BY <2>6, <3>3 DEF Half
      <4>2. Len(g[i]) = n - 1 /\ \A k \in 1 .. n - 1 : g[i][k] = p[2 * k]
        BY <2>2, <4>1
      <4>3. Len(g[i + 1]) = n /\ g[i + 1][n] = p[2 * n]
        BY <3>2, <4>1, <4>2
      <4>4. \A k \in 1 .. n - 1 : g[i + 1][k] = p[2 * k]
        BY <3>2, <4>2
      <4>5. QED
        BY <4>1, <4>3, <4>4
    <3>4. QED
      BY <3>2, <3>3
  <2>7. QED
    BY <2>5, <2>6
<1> HIDE DEF S
<1>8. \A i \in Nat : i \in S
  BY <1>6, <1>7, NatSet
<1>9. Good(len)
  BY <1>4, <1>8 DEF S
<1>10. SegmentsOf(p) = g[len]
  BY <1>2 DEF SegmentsBy, len
<1>11. QED
  BY <1>9, <1>10 DEF len

\* cleanPath makes such a path of one that begins with a slash, and removes
\* the slash at its end.
LEMMA WithoutSlashIs ==
  ASSUME NEW p \in Seq(STRING), p # <<>>
  PROVE  /\ WithoutSlash(p) \in Seq(STRING) /\ WithoutSlash(p) # <<>>
         /\ Len(WithoutSlash(p)) <= Len(p)
         /\ \A i \in 1 .. Len(WithoutSlash(p)) : WithoutSlash(p)[i] = p[i]
         /\ \/ WithoutSlash(p) = p /\ ~EndsWithSlash(p)
            \/ /\ Len(p) = Len(WithoutSlash(p)) + 1 /\ p[Len(p)] = "/" /\ Len(p) > 1
<1> DEFINE n == Len(p)
           a == WithoutSlash(p)
           m == Len(a)
<1>1. n \in Nat /\ n # 0
  BY LenProperties, EmptySeq
<1>2. CASE ~EndsWithSlash(p)
  BY <1>1, <1>2 DEF WithoutSlash
<1>3. CASE EndsWithSlash(p)
  <2>1. a = Front(p) /\ n > 1 /\ p[n] = "/"
    BY <1>3 DEF WithoutSlash, EndsWithSlash, Last
  <2>2. a \in Seq(STRING) /\ m = n - 1 /\ \A i \in 1 .. n - 1 : a[i] = p[i]
    BY <2>1, FrontTyped
  <2>3. m # 0 => a # <<>>
    BY EmptySeq
  <2> HIDE DEF n, m
  <2>4. m # 0 /\ m <= n /\ n = m + 1
    BY <1>1, <2>1, <2>2
  <2>5. \A i \in 1 .. m : a[i] = p[i]
    BY <2>2
  <2>6. QED
    BY <2>1, <2>2, <2>3, <2>4, <2>5 DEF n, m
<1>4. QED
  BY <1>2, <1>3

\* A regular path without the slash at its end is clean, with the same names.
LEMMA CleanWithoutSlash ==
  ASSUME NEW p, Regular(p)
  PROVE  Clean(WithoutSlash(p)) /\ SegmentsOf(WithoutSlash(p)) = SegmentsOf(p)
<1> DEFINE a == WithoutSlash(p)
           n == Len(p)
           m == Len(a)
<1>1. p \in Seq(STRING) /\ p # <<>> /\ n \in Nat /\ \A i \in 1 .. n : p[i] = "/" <=> i % 2 = 1
  BY LenProperties DEF Regular
<1>2. /\ a \in Seq(STRING) /\ a # <<>> /\ m <= n /\ \A i \in 1 .. m : a[i] = p[i]
      /\ \/ a = p /\ ~EndsWithSlash(p)
         \/ n = m + 1 /\ p[n] = "/" /\ n > 1
  BY <1>1, WithoutSlashIs
<1>3. m \in Nat /\ m # 0 /\ n # 0
  BY <1>1, <1>2, LenProperties, EmptySeq
<1>4. ~EndsWithSlash(p) => ~(n > 1) \/ p[n] # "/"
  BY DEF EndsWithSlash, Last
<1>5. a = p => m = n
  OBVIOUS
<1> HIDE DEF a, n, m
<1>6. Regular(a)
  <2>1. \A i \in 1 .. m : i \in 1 .. n
    BY ONLY <1>1, <1>2, <1>3
  <2>2. \A i \in 1 .. m : a[i] = "/" <=> i % 2 = 1
    BY ONLY <1>1, <1>2, <2>1
  <2>3. QED
    BY <1>2, <2>2 DEF Regular, m
<1>7. m = 1 \/ m % 2 = 0
  <2>1. CASE a = p /\ ~EndsWithSlash(p)
    BY <1>1, <1>3, <1>4, <1>5, <2>1
  <2>2. CASE n = m + 1 /\ p[n] = "/" /\ n > 1
    <3>1. n % 2 = 1
      BY <1>1, <2>2
    <3>2. QED
      BY <1>3, <2>2, <3>1
  <2>3. QED
    BY <1>2, <2>1, <2>2
<1>8. Clean(a)
  BY <1>6, <1>7 DEF Clean, m
<1>9. SegmentsOf(a) = SegmentsOf(p)
  <2>1. PICK k \in Nat : Half(n, k)
    BY <1>1, HalfOf
  <2>2. CASE a = p
    BY <2>2
  <2>3. CASE n = m + 1 /\ p[n] = "/" /\ n > 1
    <3>1. n % 2 = 1
      BY <1>1, <2>3
    <3>2. Half(m, k) /\ m = 2 * k
      BY <1>3, <2>1, <2>3, <3>1 DEF Half
    <3>3. /\ SegmentsOf(a) \in Seq(STRING \ {"/"}) /\ SegmentsOf(p) \in Seq(STRING \ {"/"})
          /\ Len(SegmentsOf(a)) = k /\ Len(SegmentsOf(p)) = k
          /\ \A i \in 1 .. k : SegmentsOf(a)[i] = a[2 * i] /\ SegmentsOf(p)[i] = p[2 * i]
      BY <1>6, <2>1, <3>2, RegularSegments DEF m, n
    <3>4. \A i \in 1 .. k : a[2 * i] = p[2 * i]
      BY <1>2, <3>2
    <3>5. QED
      BY <3>3, <3>4, SeqEqual
  <2>4. QED
    BY <1>2, <2>2, <2>3
<1>10. QED
  BY <1>8, <1>9 DEF a

\* A path of the model: no two names follow each other.
LEMMA PathIs ==
  ASSUME NEW p \in Path
  PROVE  /\ p \in Seq(STRING) /\ Len(p) \in Nat
         /\ \A i \in 1 .. Len(p) : p[i] \in STRING
         /\ \A i \in 1 .. Len(p) : i + 1 <= Len(p) => p[i] = "/" \/ p[i + 1] = "/"
<1>1. p \in Seq(STRING) /\ \A i \in 1 .. Len(p) - 1 : p[i] = "/" \/ p[i + 1] = "/"
  BY DEF Path
<1>2. Len(p) \in Nat /\ \A i \in 1 .. Len(p) : p[i] \in STRING
  BY <1>1, LenProperties, ElementOfSeq
<1> DEFINE n == Len(p)
<1> HIDE DEF n
<1>3. \A i \in 1 .. n : i + 1 <= n => i \in 1 .. n - 1
  BY <1>2 DEF n
<1>4. QED
  BY <1>1, <1>2, <1>3 DEF n

\* cleanPath keeps the first of what it has, and makes clean what begins with a slash.
LEMMA CleanPathIs ==
  ASSUME NEW p \in Path, p # <<>>
  PROVE  /\ p[1] = "/" => Clean(CleanPath(p))
         /\ CleanPath(p) \in Seq(STRING) /\ CleanPath(p) # <<>> /\ CleanPath(p)[1] = p[1]
<1>1. PICK g : CleanBy(p, g)
  BY PathIs, CleanRun
<1> DEFINE n == Len(p)
           Good(i) ==
             LET c == g[i] IN
             /\ c \in Seq(STRING) /\ c # <<>> /\ c[1] = p[1] /\ c[Len(c)] = p[i]
             /\ p[1] = "/" => Regular(c)
           S == {i \in Nat : i + 1 <= n => Good(i + 1)}
<1>2. n \in Nat /\ n # 0 /\ p \in Seq(STRING)
  BY PathIs, EmptySeq
<1>3. /\ \A i \in 1 .. n : p[i] \in STRING
      /\ \A i \in 1 .. n : i + 1 <= n => p[i] = "/" \/ p[i + 1] = "/"
  BY PathIs
<1>4. /\ g[0] = <<>> /\ CleanPath(p) = WithoutSlash(g[n])
      /\ \A i \in 1 .. n : g[i] = IF p[i] = "/" /\ g[i - 1] # <<>> /\ Last(g[i - 1]) = "/" THEN g[i - 1]
                                  ELSE Append(g[i - 1], p[i])
      /\ \A i \in 0 .. n : g[i] \in Seq(STRING)
  BY <1>1 DEF CleanBy
<1> HIDE DEF n
<1>5. 0 \in S
  <2>1. 1 \in 1 .. n /\ 1 - 1 = 0 /\ 1 \in 0 .. n
    BY <1>2
  <2>2. g[1] = Append(g[0], p[1]) /\ g[0] \in Seq(STRING) /\ p[1] \in STRING /\ Len(g[0]) = 0
    BY <1>3, <1>4, <2>1, EmptySeq
  <2>3. /\ g[1] \in Seq(STRING) /\ g[1] # <<>> /\ Len(g[1]) = 0 + 1 /\ g[1][0 + 1] = p[1]
    BY <2>2, AppendProperties
  <2>4. p[1] = "/" => Regular(g[1])
    BY <2>3 DEF Regular
  <2>5. Good(1)
    BY <2>3, <2>4
  <2>6. QED
    BY <2>5
<1>6. ASSUME NEW i \in Nat, i \in S PROVE i + 1 \in S
  <2> DEFINE k == i + 1
             c == g[k]
             d == g[k + 1]
             m == Len(c)
             t == p[k + 1]
  <2>1. SUFFICES ASSUME k + 1 <= n PROVE Good(k + 1)
    OBVIOUS
  <2>2. Good(k) /\ k \in 1 .. n /\ k + 1 \in 1 .. n /\ (k + 1) - 1 = k
    BY <1>2, <1>6, <2>1
  <2>3. d = IF t = "/" /\ c # <<>> /\ Last(c) = "/" THEN c ELSE Append(c, t)
    BY <1>4, <2>2
  <2>4. t \in STRING /\ (p[k] = "/" \/ t = "/")
    BY <1>3, <2>1, <2>2
  <2> HIDE DEF k, t
  <2>5. CASE t = "/" /\ p[k] = "/"
    <3>1. d = c
      BY <2>2, <2>3, <2>5 DEF Last
    <3>2. QED
      BY <2>2, <2>5, <3>1 DEF t
  <2>6. CASE ~(t = "/" /\ p[k] = "/")
    <3>1. d = Append(c, t) /\ c \in Seq(STRING) /\ c # <<>>
      BY <2>2, <2>3, <2>6 DEF Last
    <3>2. m \in Nat /\ m # 0
      BY <3>1, LenProperties, EmptySeq
    <3>3. /\ d \in Seq(STRING) /\ d # <<>> /\ Len(d) = m + 1 /\ d[m + 1] = t
          /\ \A j \in 1 .. m : d[j] = c[j]
      BY <2>4, <3>1, AppendProperties
    <3>4. c[m] = p[k] /\ c[1] = p[1]
      BY <2>2
    <3>5. ASSUME p[1] = "/" PROVE Regular(d)
      <4>1. \A j \in 1 .. m : c[j] = "/" <=> j % 2 = 1
        BY <2>2, <3>5 DEF Regular
      <4> HIDE DEF m, c, d
      <4>2. m \in 1 .. m
        BY <3>2
      <4>3. p[k] = "/" <=> m % 2 = 1
        BY <3>4, <4>1, <4>2
      <4>4. t = "/" <=> p[k] # "/"
        BY <2>4, <2>6
      <4>5. m % 2 # 1 <=> (m + 1) % 2 = 1
        BY <3>2
      <4>6. t = "/" <=> (m + 1) % 2 = 1
        BY <4>3, <4>4, <4>5
      <4>7. ASSUME NEW j \in 1 .. m + 1 PROVE d[j] = "/" <=> j % 2 = 1
        <5>1. CASE j = m + 1
          BY <3>3, <4>6, <5>1
        <5>2. CASE j \in 1 .. m
          BY <3>3, <4>1, <5>2
        <5>3. QED
          BY <3>2, <5>1, <5>2
      <4>8. QED
        BY <3>3, <4>7 DEF Regular
    <3>6. d[1] = p[1]
      BY <3>2, <3>3, <3>4
    <3>7. QED
      BY <3>3, <3>5, <3>6 DEF t
  <2>7. QED
    BY <2>5, <2>6
<1> HIDE DEF S
<1>7. n - 1 \in S
  BY <1>2, <1>5, <1>6, NatSet
<1>8. Good(n)
  BY <1>2, <1>7 DEF S
<1>9. g[n] \in Seq(STRING) /\ g[n] # <<>> /\ g[n][1] = p[1]
  BY <1>8
<1>10. /\ CleanPath(p) \in Seq(STRING) /\ CleanPath(p) # <<>>
       /\ \A i \in 1 .. Len(CleanPath(p)) : CleanPath(p)[i] = g[n][i]
  BY <1>4, <1>9, WithoutSlashIs
<1>11. Len(CleanPath(p)) \in Nat /\ Len(CleanPath(p)) # 0
  BY <1>10, LenProperties, EmptySeq
<1>12. 1 \in 1 .. Len(CleanPath(p))
  BY ONLY <1>11
<1>13. CleanPath(p)[1] = p[1]
  BY <1>9, <1>10, <1>12
<1>14. p[1] = "/" => Clean(CleanPath(p))
  BY <1>4, <1>8, CleanWithoutSlash
<1>15. QED
  BY <1>10, <1>13, <1>14

\* It changes nothing in a path that is clean.
LEMMA CleanSame ==
  ASSUME NEW p, Clean(p)
  PROVE  CleanPath(p) = p
<1>1. PICK g : CleanBy(p, g)
  BY CleanRun DEF Clean, Regular
<1> DEFINE n == Len(p)
           Good(i) == g[i] \in Seq(STRING) /\ Len(g[i]) = i /\ \A j \in 1 .. i : g[i][j] = p[j]
           S == {i \in Nat : i <= n => Good(i)}
<1>2. /\ p \in Seq(STRING) /\ n \in Nat /\ n # 0 /\ (n = 1 \/ n % 2 = 0)
      /\ \A i \in 1 .. n : p[i] \in STRING /\ (p[i] = "/" <=> i % 2 = 1)
  BY LenProperties, EmptySeq, ElementOfSeq DEF Clean, Regular
<1>3. /\ g[0] = <<>> /\ CleanPath(p) = WithoutSlash(g[n])
      /\ \A i \in 1 .. n : g[i] = IF p[i] = "/" /\ g[i - 1] # <<>> /\ Last(g[i - 1]) = "/" THEN g[i - 1]
                                  ELSE Append(g[i - 1], p[i])
  BY <1>1 DEF CleanBy
<1> HIDE DEF n
<1>4. 0 \in S
  <2>1. g[0] \in Seq(STRING) /\ Len(g[0]) = 0
    BY <1>3, EmptySeq
  <2>2. Good(0)
    BY <2>1
  <2>3. QED
    BY <2>2
<1>5. ASSUME NEW i \in Nat, i \in S PROVE i + 1 \in S
  <2>1. SUFFICES ASSUME i + 1 <= n PROVE Good(i + 1)
    OBVIOUS
  <2>2. Good(i) /\ i + 1 \in 1 .. n /\ (i + 1) - 1 = i
    BY <1>2, <1>5, <2>1
  <2>3. g[i + 1] = IF p[i + 1] = "/" /\ g[i] # <<>> /\ Last(g[i]) = "/" THEN g[i] ELSE Append(g[i], p[i + 1])
    BY <1>3, <2>2
  <2>4. ~(p[i + 1] = "/" /\ g[i] # <<>> /\ Last(g[i]) = "/")
    <3>1. SUFFICES ASSUME p[i + 1] = "/", g[i] # <<>>, Last(g[i]) = "/" PROVE FALSE
      OBVIOUS
    <3>2. i # 0
      BY <2>2, <3>1, EmptySeq
    <3>3. g[i][i] = "/" /\ i \in 1 .. i /\ i \in 1 .. n
      BY <1>2, <2>1, <2>2, <3>1, <3>2 DEF Last
    <3>4. p[i] = "/"
      BY <2>2, <3>3
    <3>5. i % 2 = 1 /\ (i + 1) % 2 = 1
      BY <1>2, <2>2, <3>1, <3>3, <3>4
    <3>6. QED
      BY <3>5
  <2>5. g[i + 1] = Append(g[i], p[i + 1]) /\ p[i + 1] \in STRING /\ g[i] \in Seq(STRING) /\ Len(g[i]) = i
    BY <1>2, <2>2, <2>3, <2>4
  <2>6. /\ g[i + 1] \in Seq(STRING) /\ Len(g[i + 1]) = i + 1 /\ g[i + 1][i + 1] = p[i + 1]
        /\ \A j \in 1 .. i : g[i + 1][j] = g[i][j]
    BY <2>5, AppendProperties
  <2>7. ASSUME NEW j \in 1 .. i + 1 PROVE g[i + 1][j] = p[j]
    <3>1. CASE j = i + 1
      BY <2>6, <3>1
    <3>2. CASE j \in 1 .. i
      BY <2>2, <2>6, <3>2
    <3>3. QED
      BY <3>1, <3>2
  <2>8. QED
    BY <2>6, <2>7
<1> HIDE DEF S
<1>10. \A i \in Nat : i \in S
  BY <1>4, <1>5, NatSet
<1>6. Good(n)
  BY <1>2, <1>10 DEF S
<1>7. g[n] = p
  BY <1>2, <1>6, SeqEqual DEF n
<1>8. ~EndsWithSlash(p)
  <2>1. SUFFICES ASSUME n > 1, p[n] = "/" PROVE FALSE
    BY DEF EndsWithSlash, Last, n
  <2>2. QED
    BY <1>2, <2>1
<1>9. QED
  BY <1>3, <1>7, <1>8 DEF WithoutSlash

\* A clean path is its names with a slash before each.
LEMMA CleanNames ==
  ASSUME NEW p, Clean(p), NEW n \in Nat, Half(Len(p), n)
  PROVE  /\ Len(p) = IF n = 0 THEN 1 ELSE 2 * n
         /\ SegmentsOf(p) \in Seq(STRING \ {"/"}) /\ Len(SegmentsOf(p)) = n
         /\ \A k \in 1 .. n : SegmentsOf(p)[k] = p[2 * k]
         /\ \A i \in 1 .. Len(p) : \/ p[i] = "/" /\ i % 2 = 1
                                   \/ \E k \in 1 .. n : i = 2 * k /\ p[i] = SegmentsOf(p)[k]
<1>1. /\ SegmentsOf(p) \in Seq(STRING \ {"/"}) /\ Len(SegmentsOf(p)) = n
      /\ \A k \in 1 .. n : SegmentsOf(p)[k] = p[2 * k]
  BY RegularSegments DEF Clean
<1> DEFINE len == Len(p)
<1>2. len \in Nat /\ len # 0 /\ (len = 1 \/ len % 2 = 0) /\ \A i \in 1 .. len : p[i] = "/" <=> i % 2 = 1
  BY LenProperties, EmptySeq DEF Clean, Regular
<1>3. Half(len, n)
  OBVIOUS
<1> HIDE DEF len
<1>4. len = IF n = 0 THEN 1 ELSE 2 * n
  BY <1>2, <1>3 DEF Half
<1>5. ASSUME NEW i \in 1 .. len, i % 2 # 1
      PROVE  \E k \in 1 .. n : i = 2 * k /\ p[i] = SegmentsOf(p)[k]
  <2>1. PICK k \in Nat : Half(i, k)
    BY <1>2, HalfOf
  <2>2. i = 2 * k
    BY <1>5, <2>1 DEF Half
  <2>3. k \in 1 .. n
    BY <1>3, <2>2 DEF Half
  <2>4. QED
    BY <1>1, <2>2, <2>3
<1>6. QED
  BY <1>1, <1>2, <1>4, <1>5 DEF len

\* Clean paths with the same names are the same.
LEMMA CleanEqual ==
  ASSUME NEW p, NEW q, Clean(p), Clean(q), SegmentsOf(p) = SegmentsOf(q)
  PROVE  p = q
<1>1. p \in Seq(STRING) /\ q \in Seq(STRING) /\ Len(p) \in Nat /\ Len(q) \in Nat
  BY LenProperties DEF Clean, Regular
<1>2. PICK n \in Nat : Half(Len(p), n)
  BY <1>1, HalfOf
<1>3. PICK m \in Nat : Half(Len(q), m)
  BY <1>1, HalfOf
<1>4. /\ Len(p) = (IF n = 0 THEN 1 ELSE 2 * n) /\ Len(SegmentsOf(p)) = n
      /\ \A i \in 1 .. Len(p) : \/ p[i] = "/" /\ i % 2 = 1
                                \/ \E k \in 1 .. n : i = 2 * k /\ p[i] = SegmentsOf(p)[k]
  BY <1>2, CleanNames
<1>5. /\ Len(q) = (IF m = 0 THEN 1 ELSE 2 * m) /\ Len(SegmentsOf(q)) = m
      /\ \A i \in 1 .. Len(q) : \/ q[i] = "/" /\ i % 2 = 1
                                \/ \E k \in 1 .. m : i = 2 * k /\ q[i] = SegmentsOf(q)[k]
  BY <1>3, CleanNames
<1>6. n = m /\ Len(p) = Len(q)
  BY <1>4, <1>5
<1>7. ASSUME NEW i \in 1 .. Len(p) PROVE p[i] = q[i]
  <2>1. i \in 1 .. Len(q)
    BY <1>6
  <2>2. CASE i % 2 = 1
    <3>1. \A k \in Nat : i # 2 * k
      BY <1>1, <2>2
    <3>2. p[i] = "/" /\ q[i] = "/"
      BY <1>4, <1>5, <2>1, <3>1
    <3>3. QED
      BY <3>2
  <2>3. CASE i % 2 # 1
    <3>1. PICK k \in 1 .. n : i = 2 * k /\ p[i] = SegmentsOf(p)[k]
      BY <1>4, <2>3
    <3>2. PICK j \in 1 .. m : i = 2 * j /\ q[i] = SegmentsOf(q)[j]
      BY <1>5, <2>1, <2>3
    <3>3. j = k
      BY <3>1, <3>2
    <3>4. QED
      BY <3>1, <3>2, <3>3
  <2>4. QED
    BY <2>2, <2>3
<1>8. QED
  BY <1>1, <1>6, <1>7, SeqEqual

\* A prefix, element by element.
LEMMA PrefixIs ==
  ASSUME NEW S, NEW s \in Seq(S), NEW t \in Seq(S)
  PROVE  IsPrefix(s, t) <=> Len(s) <= Len(t) /\ \A i \in 1 .. Len(s) : s[i] = t[i]
<1> DEFINE n == Len(s)
           u == SubSeq(t, 1, n)
<1>1. n \in Nat /\ Len(t) \in Nat /\ \A i \in 1 .. Len(t) : t[i] \in S
  BY LenProperties, ElementOfSeq
<1>2. SubSeq(s, 1, n) = s
  BY SubSeqFull
<1>3. SUFFICES ASSUME n <= Len(t) PROVE s = u <=> \A i \in 1 .. n : s[i] = t[i]
  BY <1>2 DEF IsPrefix
<1>4. \A i \in 1 .. n : t[i] \in S
  BY <1>1, <1>3
<1> HIDE DEF n
<1>5. /\ u \in Seq(S) /\ Len(u) = (IF 1 <= n THEN n - 1 + 1 ELSE 0)
      /\ \A i \in 1 .. n - 1 + 1 : u[i] = t[1 + i - 1]
  BY <1>1, <1>4, SubSeqProperties
<1>6. Len(u) = n
  BY <1>1, <1>5
<1>7. \A i \in 1 .. n : i \in 1 .. n - 1 + 1 /\ 1 + i - 1 = i
  BY <1>1
<1>8. \A i \in 1 .. n : u[i] = t[i]
  BY <1>5, <1>7
<1> HIDE DEF u
<1>9. (\A i \in 1 .. n : s[i] = t[i]) => s = u
  BY <1>5, <1>6, <1>8, SeqEqual DEF n
<1>10. QED
  BY <1>8, <1>9

\* A slash at the end adds no name.
LEMMA SegmentsWithoutSlash ==
  ASSUME NEW p \in Seq(STRING), p # <<>>
  PROVE  SegmentsOf(WithoutSlash(p)) = SegmentsOf(p)
<1> DEFINE a == WithoutSlash(p)
           n == Len(p)
           m == Len(a)
<1>1. /\ a \in Seq(STRING) /\ m <= n /\ \A i \in 1 .. m : a[i] = p[i]
      /\ a = p \/ (n = m + 1 /\ p[n] = "/")
  BY WithoutSlashIs
<1>2. n \in Nat /\ m \in Nat
  BY <1>1, LenProperties
<1>3. PICK g : SegmentsBy(p, g)
  BY SegmentsRun
<1>4. PICK f : SegmentsBy(a, f)
  BY <1>1, SegmentsRun
<1>5. /\ SegmentsOf(p) = g[n] /\ g[0] = <<>>
      /\ \A i \in 1 .. n : g[i] = IF p[i] = "/" THEN g[i - 1] ELSE Append(g[i - 1], p[i])
  BY <1>3 DEF SegmentsBy
<1>6. /\ SegmentsOf(a) = f[m] /\ f[0] = <<>>
      /\ \A i \in 1 .. m : f[i] = IF a[i] = "/" THEN f[i - 1] ELSE Append(f[i - 1], a[i])
  BY <1>4 DEF SegmentsBy
<1> HIDE DEF a, n, m
<1> DEFINE S == {i \in Nat : i <= m => f[i] = g[i]}
<1>7. 0 \in S
  BY <1>5, <1>6
<1>8. ASSUME NEW i \in Nat, i \in S PROVE i + 1 \in S
  <2>1. SUFFICES ASSUME i + 1 <= m PROVE f[i + 1] = g[i + 1]
    OBVIOUS
  <2>2. f[i] = g[i] /\ i + 1 \in 1 .. m /\ i + 1 \in 1 .. n /\ (i + 1) - 1 = i
    BY <1>1, <1>2, <1>8, <2>1
  <2>3. QED
    BY <1>1, <1>5, <1>6, <2>2
<1> HIDE DEF S
<1>9. \A i \in Nat : i \in S
  BY <1>7, <1>8, NatSet
<1>10. f[m] = g[m]
  BY <1>2, <1>9 DEF S
<1>11. CASE n = m + 1 /\ p[n] = "/"
  <2>1. n \in 1 .. n /\ n - 1 = m
    BY <1>2, <1>11
  <2>2. g[n] = g[m]
    BY <1>5, <1>11, <2>1
  <2>3. QED
    BY <1>5, <1>6, <1>10, <2>2 DEF a
<1>12. QED
  BY <1>1, <1>11 DEF a

\* matchLocation compares characters: what it finds is what serves the path
\* name by name.
LEMMA ServesCovers ==
  ASSUME NEW l \in Path, l # <<>>, l[1] = "/", NEW p, Regular(p)
  PROVE  Serves(l, p) <=> Covers(l, p)
<1> DEFINE a == WithoutSlash(l)
           q == WithoutSlash(p)
           b == a \o <<"/">>
           s == SegmentsOf(p)
           r == SegmentsOf(l)
           N == STRING \ {"/"}
<1>1. /\ l \in Seq(STRING) /\ Len(l) \in Nat
      /\ \A i \in 1 .. Len(l) : i + 1 <= Len(l) => l[i] = "/" \/ l[i + 1] = "/"
  BY PathIs
<1>2. /\ a \in Seq(STRING) /\ a # <<>> /\ Len(a) <= Len(l)
      /\ \A i \in 1 .. Len(a) : a[i] = l[i]
      /\ \/ a = l
         \/ Len(l) = Len(a) + 1 /\ l[Len(l)] = "/"
  BY <1>1, WithoutSlashIs
<1>3. Len(a) \in Nat /\ Len(a) # 0
  BY <1>2, LenProperties, EmptySeq
<1>4. Clean(q) /\ SegmentsOf(q) = s
  BY CleanWithoutSlash
<1>5. q \in Seq(STRING) /\ Len(q) \in Nat
  BY <1>4, LenProperties DEF Clean, Regular
<1>6. PICK m \in Nat : Half(Len(q), m)
  BY <1>5, HalfOf
<1>7. /\ Len(q) = (IF m = 0 THEN 1 ELSE 2 * m) /\ s \in Seq(N) /\ Len(s) = m
      /\ \A k \in 1 .. m : s[k] = q[2 * k]
  BY <1>4, <1>6, CleanNames
<1>8. /\ b \in Seq(STRING) /\ Len(b) = Len(a) + 1 /\ b[Len(a) + 1] = "/"
      /\ \A i \in 1 .. Len(a) : b[i] = a[i]
  <2>1. "/" \in STRING /\ b = Append(a, "/")
    BY <1>2, AppendIsConcat
  <2>2. QED
    BY <1>2, <2>1, AppendProperties
<1>9. Serves(l, p) <=> q = a \/ IsPrefix(b, q)
  BY DEF Serves
<1> HIDE DEF b
<1>10. IsPrefix(b, q) <=> Len(b) <= Len(q) /\ \A i \in 1 .. Len(b) : b[i] = q[i]
  BY <1>5, <1>8, PrefixIs
<1> HIDE DEF a, q, b
<1>11. SegmentsOf(a) = r
  BY <1>1, SegmentsWithoutSlash DEF a
<1>12. s \in Seq(N) /\ Clean(q) /\ SegmentsOf(q) = s
  BY <1>4, <1>7
<1>13. ASSUME q = a PROVE Covers(l, p)
  <2>1. CleanPath(a) = a /\ r = s
    BY <1>11, <1>12, <1>13, CleanSame
  <2>2. IsPrefix(r, s)
    BY <1>7, <2>1, PrefixIs
  <2>3. QED
    BY <2>1, <2>2 DEF Covers, a
<1>14. ASSUME IsPrefix(b, q) PROVE Covers(l, p)
  <2> DEFINE k == Len(a)
  <2>1. k \in Nat /\ k # 0 /\ k + 1 <= Len(q) /\ q[k + 1] = "/" /\ \A i \in 1 .. k : a[i] = q[i]
    <3>1. \A i \in 1 .. k + 1 : b[i] = q[i]
      BY <1>8, <1>10, <1>14
    <3>2. \A i \in 1 .. k : i \in 1 .. k + 1
      BY <1>3
    <3>3. k + 1 \in 1 .. k + 1
      BY <1>3
    <3>4. QED
      BY <1>3, <1>8, <1>10, <1>14, <3>1, <3>2, <3>3
  <2>2. \A i \in 1 .. Len(q) : q[i] = "/" <=> i % 2 = 1
    BY <1>4 DEF Clean, Regular
  <2> HIDE DEF k
  <2>3. k % 2 = 0 /\ \A i \in 1 .. k : a[i] = "/" <=> i % 2 = 1
    <3>1. (k + 1) % 2 = 1
      BY <1>5, <2>1, <2>2
    <3>2. \A i \in 1 .. k : i \in 1 .. Len(q)
      BY <1>5, <2>1
    <3>3. QED
      BY <2>1, <2>2, <3>1, <3>2
  <2>4. Clean(a)
    BY <1>2, <2>3 DEF Clean, Regular, k
  <2>5. PICK n \in Nat : Half(k, n)
    BY <2>1, HalfOf
  <2>6. k = 2 * n /\ n # 0
    BY <2>1, <2>3, <2>5 DEF Half
  <2>7. r \in Seq(N) /\ Len(r) = n /\ \A i \in 1 .. n : r[i] = a[2 * i]
    BY <1>11, <2>4, <2>5, CleanNames DEF k
  <2>8. n <= m
    BY <1>7, <2>1, <2>6
  <2>9. ASSUME NEW i \in 1 .. n PROVE r[i] = s[i]
    <3>1. 2 * i \in 1 .. k /\ i \in 1 .. m
      BY <2>6, <2>8
    <3>2. QED
      BY <1>7, <2>1, <2>7, <3>1
  <2>10. IsPrefix(r, s)
    BY <1>7, <2>7, <2>8, <2>9, PrefixIs
  <2>11. r # <<>>
    BY <2>6, <2>7, EmptySeq
  <2>12. CleanPath(a) = a
    BY <2>4, CleanSame
  <2>13. QED
    BY <2>10, <2>11, <2>12 DEF Covers, a
<1>15. ASSUME Covers(l, p) PROVE q = a \/ IsPrefix(b, q)
  <2>1. CleanPath(a) = a /\ IsPrefix(r, s) /\ (r = <<>> => s = <<>>)
    BY <1>15 DEF Covers, a
  <2>2. a \in Path /\ a[1] = "/"
    <3> DEFINE k == Len(a)
               h == Len(l)
    <3>1. /\ k \in Nat /\ k # 0 /\ h \in Nat /\ k <= h /\ \A i \in 1 .. k : a[i] = l[i]
          /\ \A i \in 1 .. h : i + 1 <= h => l[i] = "/" \/ l[i + 1] = "/"
      BY <1>1, <1>2, <1>3
    <3> HIDE DEF k, h
    <3>2. 1 \in 1 .. k
      BY <3>1
    <3>3. ASSUME NEW i \in 1 .. k - 1 PROVE a[i] = "/" \/ a[i + 1] = "/"
      <4>1. i \in 1 .. k /\ i + 1 \in 1 .. k /\ i \in 1 .. h /\ i + 1 <= h
        BY <3>1
      <4>2. QED
        BY <3>1, <4>1
    <3>4. QED
      BY <1>2, <3>1, <3>2, <3>3 DEF Path, k
  <2>3. Clean(a)
    BY <1>2, <2>1, <2>2, CleanPathIs
  <2>4. PICK n \in Nat : Half(Len(a), n)
    BY <1>3, HalfOf
  <2>5. /\ r \in Seq(N) /\ Len(r) = n /\ Len(a) = (IF n = 0 THEN 1 ELSE 2 * n)
        /\ \A i \in 1 .. n : r[i] = a[2 * i]
    BY <1>11, <2>3, <2>4, CleanNames
  <2>6. n <= m /\ \A i \in 1 .. n : r[i] = s[i]
    <3> HIDE DEF r, s, N
    <3>5. r \in Seq(N) /\ s \in Seq(N)
      BY <1>7, <2>5
    <3>1. IsPrefix(r, s) <=> Len(r) <= Len(s) /\ \A i \in 1 .. Len(r) : r[i] = s[i]
      BY ONLY <3>5, PrefixIs
    <3>2. Len(r) <= Len(s) /\ \A i \in 1 .. Len(r) : r[i] = s[i]
      BY <2>1, <3>1
    <3>3. Len(r) = n /\ Len(s) = m
      BY <1>7, <2>5
    <3>4. QED
      BY ONLY <3>2, <3>3
  <2>7. CASE n = m
    <3>1. r = s
      BY <1>7, <2>5, <2>6, <2>7, SeqEqual
    <3>2. QED
      BY <1>11, <1>12, <2>3, <3>1, CleanEqual
  <2>8. CASE n # m
    <3> DEFINE k == Len(a)
    <3>1. n # 0
      <4>1. n = 0 => r = <<>>
        BY <2>5, EmptySeq
      <4>2. s = <<>> => m = 0
        BY <1>7, EmptySeq
      <4>3. QED
        BY <2>1, <2>8, <4>1, <4>2
    <3>2. k = 2 * n /\ k + 1 <= Len(q)
      BY <1>7, <2>5, <2>6, <2>8, <3>1
    <3>3. /\ \A i \in 1 .. Len(q) : q[i] = "/" <=> i % 2 = 1
          /\ \A i \in 1 .. k : a[i] = "/" <=> i % 2 = 1
      BY <1>4, <2>3 DEF Clean, Regular
    <3> HIDE DEF k
    <3>4. ASSUME NEW i \in 1 .. k PROVE a[i] = q[i]
      <4>1. i \in 1 .. Len(q)
        BY <1>5, <3>2
      <4>2. CASE i % 2 = 1
        BY <3>3, <4>1, <4>2
      <4>3. CASE i % 2 # 1
        <5>1. PICK j \in Nat : Half(i, j)
          BY HalfOf
        <5>2. i = 2 * j /\ j \in 1 .. n /\ j \in 1 .. m
          BY <2>6, <3>2, <4>3, <5>1 DEF Half
        <5>3. QED
          BY <1>7, <2>5, <2>6, <5>2
      <4>4. QED
        BY <4>2, <4>3
    <3>5. q[k + 1] = "/"
      BY <1>5, <3>2, <3>3
    <3>6. ASSUME NEW i \in 1 .. k + 1 PROVE b[i] = q[i]
      <4>1. CASE i = k + 1
        BY <1>8, <3>5, <4>1 DEF k
      <4>2. CASE i \in 1 .. k
        BY <1>8, <3>4, <4>2 DEF k
      <4>3. QED
        BY <3>2, <4>1, <4>2
    <3>7. Len(b) = k + 1
      BY <1>8 DEF k
    <3>8. QED
      BY <1>10, <3>2, <3>6, <3>7
  <2>9. QED
    BY <2>7, <2>8
<1>16. QED
  BY <1>9, <1>13, <1>14, <1>15 DEF a, q

-----------------------------------------------------------------------------
(* The location of a path. *)

\* A location that a configuration may have has a path with a slash first.
LEMMA LocationTyped ==
  ASSUME NEW l \in LocationBlock
  PROVE  l.path \in Path /\ l.path # <<>> /\ l.path[1] = "/" /\ l # NoLocation
<1>1. l.path \in Path /\ l.path # <<>> /\ Head(l.path) = "/"
  BY DEF LocationBlock
<1>2. l.path[1] = "/"
  BY <1>1, PathIs, HeadTailProperties
<1>3. QED
  BY <1>1, <1>2 DEF NoLocation

\* matchLocation finds a location that serves the path, if there is one, and
\* none is longer.
LEMMA MatchIs ==
  ASSUME NEW ls \in Seq(LocationBlock), NEW p
  PROVE  LET l == MatchLocation(ls, p)
         IN  /\ \/ l = NoLocation
                \/ l \in ToSet(ls) /\ l \in LocationBlock /\ Serves(l.path, p)
             /\ \A m \in ToSet(ls) :
                  Serves(m.path, p) => l # NoLocation /\ Len(m.path) <= Len(l.path)
<1>1. PICK g : MatchBy(ls, p, g)
  BY MatchRun
<1> DEFINE n == Len(ls)
           Long(x) == Len(x.path)
           Does(x) == Serves(x.path, p)
<1>2. n \in Nat /\ DOMAIN ls = 1 .. n /\ \A i \in 1 .. n : ls[i] \in LocationBlock
  BY LenProperties, ElementOfSeq
<1>3. /\ Long(NoLocation) = 0
      /\ \A x \in LocationBlock : Long(x) \in Nat /\ Long(x) # 0 /\ x # NoLocation
  <2>1. Len(<<>>) = 0
    BY EmptySeq
  <2>2. ASSUME NEW x \in LocationBlock PROVE Long(x) \in Nat /\ Long(x) # 0 /\ x # NoLocation
    BY LocationTyped, PathIs, EmptySeq
  <2>3. QED
    BY <2>1, <2>2 DEF NoLocation
<1>4. /\ g[0] = NoLocation /\ MatchLocation(ls, p) = g[n]
      /\ \A i \in 1 .. n : g[i] = IF Does(ls[i]) /\ Long(ls[i]) > Long(g[i - 1]) THEN ls[i] ELSE g[i - 1]
  BY <1>1 DEF MatchBy
<1> DEFINE Good(i) ==
             /\ g[i] = NoLocation \/ \E j \in 1 .. i : g[i] = ls[j] /\ Does(ls[j])
             /\ \A j \in 1 .. i : Does(ls[j]) => Long(ls[j]) <= Long(g[i])
           S == {i \in Nat : i <= n => Good(i)}
<1> HIDE DEF n, Long, Does, NoLocation
<1>5. 0 \in S
  BY <1>4
<1>6. ASSUME NEW i \in Nat, i \in S PROVE i + 1 \in S
  <2>1. SUFFICES ASSUME i + 1 <= n PROVE Good(i + 1)
    OBVIOUS
  <2>2. Good(i) /\ i + 1 \in 1 .. n /\ (i + 1) - 1 = i /\ \A j \in 1 .. i : j \in 1 .. n /\ j \in 1 .. i + 1
    BY <1>2, <1>6, <2>1
  <2>3. g[i + 1] = IF Does(ls[i + 1]) /\ Long(ls[i + 1]) > Long(g[i]) THEN ls[i + 1] ELSE g[i]
    BY <1>4, <2>2
  <2>4. Long(g[i]) \in Nat /\ Long(ls[i + 1]) \in Nat /\ \A j \in 1 .. i : Long(ls[j]) \in Nat
    BY <1>2, <1>3, <2>2
  <2>5. g[i + 1] = NoLocation \/ \E j \in 1 .. i + 1 : g[i + 1] = ls[j] /\ Does(ls[j])
    BY <2>2, <2>3
  <2>6. ASSUME NEW j \in 1 .. i + 1, Does(ls[j]) PROVE Long(ls[j]) <= Long(g[i + 1])
    <3>1. CASE j = i + 1
      BY <2>3, <2>4, <2>6, <3>1
    <3>2. CASE j \in 1 .. i
      BY <2>2, <2>3, <2>4, <2>6, <3>2
    <3>3. QED
      BY <3>1, <3>2
  <2>7. QED
    BY <2>5, <2>6
<1> HIDE DEF S
<1>7. \A i \in Nat : i \in S
  BY <1>5, <1>6, NatSet
<1>8. Good(n)
  BY <1>2, <1>7 DEF S
<1>9. \A m \in ToSet(ls) : \E j \in 1 .. n : m = ls[j]
  BY <1>2 DEF ToSet
<1>10. \A j \in 1 .. n : ls[j] \in ToSet(ls)
  BY <1>2 DEF ToSet
<1>11. ASSUME NEW m \in ToSet(ls), Does(m)
       PROVE  g[n] # NoLocation /\ Long(m) <= Long(g[n])
  BY <1>2, <1>3, <1>8, <1>9, <1>11
<1>12. g[n] = NoLocation \/ (g[n] \in ToSet(ls) /\ g[n] \in LocationBlock /\ Does(g[n]))
  BY <1>2, <1>8, <1>10
<1>13. QED
  BY <1>4, <1>11, <1>12 DEF Long, Does

\* The longer of two locations that serve a path has at least as many names.
LEMMA CoversSize ==
  ASSUME NEW l \in Path, l # <<>>, l[1] = "/", NEW p, Regular(p), Covers(l, p)
  PROVE  LET n == Len(SegmentsOf(l))
         IN  /\ n \in Nat
             /\ \/ n # 0 /\ (Len(l) = 2 * n \/ Len(l) = 2 * n + 1)
                \/ SegmentsOf(p) = <<>> /\ n = 0
<1> DEFINE a == WithoutSlash(l)
           r == SegmentsOf(l)
           s == SegmentsOf(p)
           N == STRING \ {"/"}
<1>1. /\ l \in Seq(STRING)
      /\ a \in Seq(STRING) /\ a # <<>> /\ Len(a) <= Len(l)
      /\ \A i \in 1 .. Len(a) : a[i] = l[i]
      /\ a = l \/ Len(l) = Len(a) + 1
  BY PathIs, WithoutSlashIs
<1>2. Len(a) \in Nat /\ Len(a) # 0 /\ Len(l) \in Nat
  BY <1>1, LenProperties, EmptySeq
<1>3. CleanPath(a) = a /\ IsPrefix(r, s) /\ (r = <<>> => s = <<>>)
  BY DEF Covers
<1>4. SegmentsOf(a) = r
  BY <1>1, SegmentsWithoutSlash
<1>5. Clean(a)
  <2> DEFINE k == Len(a)
             h == Len(l)
  <2>1. /\ k \in Nat /\ k # 0 /\ h \in Nat /\ k <= h /\ \A i \in 1 .. k : a[i] = l[i]
        /\ \A i \in 1 .. h : i + 1 <= h => l[i] = "/" \/ l[i + 1] = "/"
    BY <1>1, <1>2, PathIs
  <2> HIDE DEF a, k, h
  <2>2. 1 \in 1 .. k
    BY <2>1
  <2>3. ASSUME NEW i \in 1 .. k - 1 PROVE a[i] = "/" \/ a[i + 1] = "/"
    <3>1. i \in 1 .. k /\ i + 1 \in 1 .. k /\ i \in 1 .. h /\ i + 1 <= h
      BY <2>1
    <3>2. QED
      BY <2>1, <3>1
  <2>4. a \in Path /\ a[1] = "/"
    BY <1>1, <2>1, <2>2, <2>3 DEF Path, k
  <2>5. QED
    BY <1>1, <1>3, <2>4, CleanPathIs
<1>6. PICK n \in Nat : Half(Len(a), n)
  BY <1>2, HalfOf
<1>7. r \in Seq(N) /\ Len(r) = n /\ Len(a) = (IF n = 0 THEN 1 ELSE 2 * n)
  BY <1>4, <1>5, <1>6, CleanNames
<1>8. n = 0 => r = <<>>
  BY <1>7, EmptySeq
<1>9. Len(l) = Len(a) \/ Len(l) = Len(a) + 1
  BY <1>1
<1> DEFINE h == Len(l)
           k == Len(a)
<1>10. n # 0 => h = 2 * n \/ h = 2 * n + 1
  <2>1. (h = k \/ h = k + 1) /\ k = (IF n = 0 THEN 1 ELSE 2 * n)
    BY <1>7, <1>9
  <2> HIDE DEF h, k
  <2>2. QED
    BY <2>1
<1>11. QED
  BY <1>3, <1>7, <1>8, <1>10

\* For a clean path, the location is the most specific.
LEMMA MatchSpecific ==
  ASSUME NEW ls \in Seq(LocationBlock), NEW p, Regular(p)
  PROVE  LET l == MatchLocation(ls, p)
             covering == {m \in ToSet(ls) : Covers(m.path, p)}
         IN  IF covering = {} THEN l = NoLocation
             ELSE l \in covering /\ l \in LocationBlock /\ \A m \in covering :
                    Len(SegmentsOf(m.path)) <= Len(SegmentsOf(l.path))
<1> DEFINE l == MatchLocation(ls, p)
           covering == {m \in ToSet(ls) : Covers(m.path, p)}
<1>1. /\ l = NoLocation \/ (l \in ToSet(ls) /\ l \in LocationBlock /\ Serves(l.path, p))
      /\ \A m \in ToSet(ls) : Serves(m.path, p) => l # NoLocation /\ Len(m.path) <= Len(l.path)
  BY MatchIs
<1> HIDE DEF l
<1>2. ASSUME NEW m \in ToSet(ls)
      PROVE  /\ m.path \in Path /\ m.path # <<>> /\ m.path[1] = "/" /\ m # NoLocation
             /\ Serves(m.path, p) <=> Covers(m.path, p)
  <2>1. m \in LocationBlock
    BY ElementOfSeq, LenProperties DEF ToSet
  <2>2. m.path \in Path /\ m.path # <<>> /\ m.path[1] = "/" /\ m # NoLocation
    BY <2>1, LocationTyped
  <2>3. QED
    BY <2>2, ServesCovers
<1>3. CASE covering = {}
  BY <1>1, <1>2, <1>3 DEF l
<1>4. CASE covering # {}
  <2>1. l # NoLocation
    BY <1>1, <1>2, <1>4
  <2>2. l \in ToSet(ls) /\ l \in LocationBlock /\ Covers(l.path, p)
    BY <1>1, <1>2, <2>1
  <2>3. ASSUME NEW m \in covering
        PROVE  Len(SegmentsOf(m.path)) <= Len(SegmentsOf(l.path))
    <3> DEFINE n == Len(SegmentsOf(m.path))
               k == Len(SegmentsOf(l.path))
               x == Len(m.path)
               y == Len(l.path)
    <3>1. /\ n \in Nat
          /\ (n # 0 /\ (x = 2 * n \/ x = 2 * n + 1)) \/ (SegmentsOf(p) = <<>> /\ n = 0)
      BY <1>2, <2>3, CoversSize
    <3>2. /\ k \in Nat
          /\ (k # 0 /\ (y = 2 * k \/ y = 2 * k + 1)) \/ (SegmentsOf(p) = <<>> /\ k = 0)
      BY <1>2, <2>2, CoversSize
    <3>3. x <= y
      BY <1>1, <1>2, <2>3
    <3>4. SegmentsOf(p) = <<>> => n = 0
      <4>1. SUFFICES ASSUME SegmentsOf(p) = <<>> PROVE n = 0
        OBVIOUS
      <4>2. IsPrefix(SegmentsOf(m.path), <<>>)
        BY <2>3, <4>1 DEF Covers
      <4>3. n <= Len(<<>>)
        BY <4>2 DEF IsPrefix
      <4>4. QED
        BY <3>1, <4>3, EmptySeq
    <3> HIDE DEF n, k, x, y
    <3>5. n <= k
      BY <3>1, <3>2, <3>3, <3>4
    <3>6. QED
      BY <3>5 DEF n, k
  <2>4. QED
    BY <1>4, <2>2, <2>3 DEF l
<1>5. QED
  BY <1>3, <1>4

-----------------------------------------------------------------------------
(* The location of a request. *)

\* Files have names and a root; an open connection has a block; and a request
\* comes to its headers only with a clean path.
PathInv ==
  /\ files \subseteq {f \in Place : f.names # <<>>}
  /\ phase # "CLOSED" => block \in DOMAIN servers
  /\ phase \in {"HEADERS", "COMPLETE"} => Clean(request.path)

\* A block of a configuration has what ServerBlock says.
LEMMA BlockTyped ==
  ASSUME servers \in Configurations, NEW b \in DOMAIN servers
  PROVE  /\ servers[b].locations \in Seq(LocationBlock)
         /\ servers[b].root \in STRING \ {"none"}
<1>1. servers \in Seq(ServerBlock)
  BY Inputs
<1>2. servers[b] \in ServerBlock
  BY <1>1, LenProperties, ElementOfSeq
<1>3. QED
  BY <1>2 DEF ServerBlock

\* Whether Host names a block or not, there is one.
LEMMA BlockExists ==
  ASSUME servers \in Configurations
  PROVE  /\ \A i \in DOMAIN servers : ConfigForServer(i) \in DOMAIN servers
         /\ \A host : block \in DOMAIN servers => OverrideHost(host) \in DOMAIN servers
<1>1. Len(servers) \in Nat /\ DOMAIN servers = 1 .. Len(servers)
  BY Inputs, LenProperties
<1>2. ASSUME NEW i \in DOMAIN servers
      PROVE  ConfigForServer(i) \in DOMAIN servers
  <2> DEFINE earlier == {j \in 1 .. i - 1 : servers[j].addr = servers[i].addr}
  <2>1. i \in Nat /\ earlier \in SUBSET (1 .. i) /\ \A j \in earlier : j \in DOMAIN servers
    BY <1>1
  <2>2. earlier # {} => Max(earlier) \in earlier
    BY <2>1, MaxIs
  <2>3. ConfigForServer(i) = IF earlier = {} THEN i ELSE Max(earlier)
    BY DEF ConfigForServer
  <2> HIDE DEF earlier
  <2>4. QED
    BY <2>1, <2>2, <2>3
<1>3. ASSUME NEW host, Named(host) # {}
      PROVE  Min(Named(host)) \in DOMAIN servers
  <2> DEFINE T == Named(host)
  <2>1. T \in SUBSET DOMAIN servers
    BY DEF Named
  <2>2. PICK n \in T : \A m \in T : n <= m
    BY <1>1, <1>3, <2>1, LeastNat
  <2> HIDE DEF T
  <2>3. Min(T) \in T
    BY <2>2 DEF Min
  <2>4. QED
    BY <2>1, <2>3 DEF T
<1>4. QED
  BY <1>2, <1>3 DEF OverrideHost

\* What does not begin with a slash is the path of no file and no directory.
LEMMA NotRooted ==
  ASSUME files \subseteq Place, NEW l \in LocationBlock \cup {NoLocation}, NEW root,
         NEW p \in Seq(STRING), p # <<>>, p[1] # "/"
  PROVE  Kinds(ResolveFsPath(p, l, root)) = {"none"}
<1> DEFINE r == ResolveFsPath(p, l, root)
<1>1. Head(p) # "/"
  BY HeadTailProperties
<1>2. r.uri = p
  <2>1. CASE l = NoLocation
    BY <2>1 DEF ResolveFsPath
  <2>2. CASE l \in LocationBlock
    <3> DEFINE q == l.path
    <3>1. q \in Seq(STRING) /\ q # <<>> /\ q[1] = "/" /\ l # NoLocation
      BY <2>2, LocationTyped, PathIs
    <3>2. Len(q) \in Nat /\ Len(q) # 0
      BY <3>1, LenProperties, EmptySeq
    <3> HIDE DEF q
    <3>3. ~IsPrefix(q, p)
      <4>1. 1 \in 1 .. Len(q)
        BY <3>2
      <4>2. IsPrefix(q, p) => q[1] = p[1]
        BY <3>1, <4>1, PrefixIs
      <4>3. QED
        BY <3>1, <4>2
    <3>4. p # q
      BY <3>1
    <3>5. QED
      BY <3>1, <3>3, <3>4 DEF ResolveFsPath, q
  <2>3. QED
    BY <2>1, <2>2
<1> HIDE DEF r
<1>3. PlaceOf(r) = Nowhere
  BY <1>1, <1>2 DEF PlaceOf
<1>4. Nowhere \notin Dirs /\ Nowhere \notin files
  BY Inputs DEF Nowhere, Place
<1>5. Nowhere # Above
  <2>1. <<"nowhere">>[1] # <<"above">>[1]
    OBVIOUS
  <2>2. <<"nowhere">> # <<"above">>
    BY <2>1
  <2>3. QED
    BY <2>2 DEF Nowhere, Above
<1>6. QED
  BY <1>3, <1>4, <1>5 DEF Kinds, r

\* A name in a directory.
NewIn(dir, n) == [dir EXCEPT !.names = Append(@, n)]

\* _handlePost makes a new name in the directory of the location and
\* _handleDelete removes what the path is.
LEMMA OutcomeByPlace ==
  ASSUME NEW path, NEW l, NEW kind, NEW at, NEW o \in Outcomes(path, l, kind, at),
         o.files # files
  PROVE  /\ path # <<>>
         /\ \/ o.answer.code = 204 /\ o.answer.place = at
            \/ /\ o.answer.code \in {201, 500}
               /\ \E n \in UploadNames : o.answer.place = NewIn(l.upload, n)
<1>1. ASSUME NEW codes, o \in Reply(codes)
      PROVE  FALSE
  BY <1>1 DEF Reply
<1>2. ASSUME NEW place, NEW m, o \in Static(place, m) \/ o \in Listing(place, m)
      PROVE  FALSE
  BY <1>1, <1>2 DEF Static, Listing, Served
<1>3. ASSUME NEW code, o \in Directory(at, l, code)
      PROVE  FALSE
  BY <1>1, <1>2, <1>3 DEF Directory
<1>4. path # <<>> /\ (o \in Uploads(l) \/ o \in Deletions(at, l))
  BY <1>1, <1>2, <1>3 DEF Outcomes
<1>5. ASSUME o \in Uploads(l)
      PROVE  /\ o.answer.code \in {201, 500}
             /\ \E n \in UploadNames : o.answer.place = NewIn(l.upload, n)
  <2>1. o \notin Reply({500})
    BY <1>1
  <2> DEFINE codes == IF request.length = 0 THEN {201} ELSE {201, 500}
             places == {[l.upload EXCEPT !.names = Append(@, n)] : n \in UploadNames} \ Dirs
             made(code, new) == [answer |-> [code |-> code, place |-> new, location |-> l],
                                 files |-> files \cup {new}]
  <2>2. \E code \in codes, new \in places : o = made(code, new)
    BY <1>5, <2>1 DEF Uploads
  <2>3. PICK code \in codes, new \in places : o = made(code, new)
    BY <2>2
  <2>4. code \in {201, 500} /\ o.answer.code = code /\ o.answer.place = new
    BY <2>3
  <2>5. \E n \in UploadNames : new = NewIn(l.upload, n)
    BY DEF NewIn
  <2>6. QED
    BY <2>4, <2>5
<1>6. ASSUME o \in Deletions(at, l)
      PROVE  o.answer.code = 204 /\ o.answer.place = at
  BY <1>1, <1>6 DEF Deletions
<1>7. QED
  BY <1>4, <1>5, <1>6

\* A name more is a name at the end.
LEMMA Renamed ==
  ASSUME NEW x \in Place, NEW s
  PROVE  [x EXCEPT !.names = s] = [root |-> x.root, names |-> s]
BY DEF Place

\* An upload is a place with a name, in the upload directory.
LEMMA UploadTyped ==
  ASSUME NEW l \in LocationBlock, l.upload # NoPlace, NEW n \in UploadNames
  PROVE  LET new == NewIn(l.upload, n)
         IN  new \in Place /\ new.names # <<>> /\ [new EXCEPT !.names = Front(@)] = l.upload
<1> DEFINE u == l.upload
           s == u.names
           new == NewIn(u, n)
           t == Append(s, n)
<1>1. u \in Place /\ u.root \in STRING \ {"none"} /\ s \in Seq(STRING) /\ n \in STRING
  BY Inputs DEF LocationBlock, Place
<1>2. u = [root |-> u.root, names |-> s]
  BY <1>1 DEF Place
<1>3. /\ t \in Seq(STRING) /\ Len(t) = Len(s) + 1 /\ Len(s) \in Nat
      /\ \A i \in 1 .. Len(s) : t[i] = s[i]
  BY <1>1, AppendProperties, LenProperties
<1>4. t # <<>>
  <2>1. Len(t) # 0
    BY ONLY <1>3
  <2>2. QED
    BY <2>1, EmptySeq
<1>5. Front(t) = s
  <2>1. /\ Front(t) \in Seq(STRING) /\ Len(Front(t)) = Len(t) - 1
        /\ \A i \in 1 .. Len(t) - 1 : Front(t)[i] = t[i]
    BY <1>3, <1>4, FrontTyped
  <2>2. Len(t) - 1 = Len(s)
    BY <1>3
  <2> HIDE DEF s, t
  <2>3. Len(Front(t)) = Len(s) /\ \A i \in 1 .. Len(s) : Front(t)[i] = s[i]
    BY <1>3, <2>1, <2>2
  <2>4. QED
    BY <1>1, <2>1, <2>3, SeqEqual
<1>6. new = [root |-> u.root, names |-> t]
  BY <1>1, Renamed DEF NewIn
<1> HIDE DEF new
<1>7. new \in Place /\ new.names # <<>>
  BY <1>1, <1>3, <1>4, <1>6 DEF Place
<1>8. [new EXCEPT !.names = Front(@)] = [root |-> u.root, names |-> Front(t)]
  BY <1>6
<1>9. QED
  BY <1>2, <1>5, <1>7, <1>8 DEF new

\* Files are still places with a name.
LEMMA FilesTyped ==
  ASSUME RouteInv, PathInv, Handle
  PROVE  files' \subseteq {f \in Place : f.names # <<>>}
<1> DEFINE path == NormalizePath(request.path)
           l    == LocationIn(block, path)
<1>1. PICK kind, at : \E o \in Outcomes(path, l, kind, at) : answer' = o.answer /\ files' = o.files
  BY DEF Handle
<1>2. PICK o \in Outcomes(path, l, kind, at) : files' = o.files
  BY <1>1
<1>3. block \in DOMAIN servers /\ servers \in Configurations
  BY DEF PathInv, RouteInv, Chosen, Handle
<1>4. servers[block].locations \in Seq(LocationBlock)
  BY <1>3, BlockTyped
<1>5. l = NoLocation \/ l \in LocationBlock
  BY <1>4, MatchIs DEF LocationIn
<1> HIDE DEF path, l
<1>6. SUFFICES ASSUME o.files # files
               PROVE  o.files \subseteq {f \in Place : f.names # <<>>}
  BY <1>2 DEF PathInv
<1>7. /\ l # NoLocation
      /\ \/ o.answer.code \in {201, 500} /\ l.upload # NoPlace /\ o.files = files \cup {o.answer.place}
         \/ o.answer.code = 204 /\ o.files = files \ {o.answer.place}
  BY <1>6, OutcomeByMethod
<1>8. CASE o.answer.code = 204
  BY <1>7, <1>8 DEF PathInv
<1>9. CASE o.answer.code \in {201, 500}
  <2>1. PICK n \in UploadNames : o.answer.place = NewIn(l.upload, n)
    BY <1>6, <1>9, OutcomeByPlace
  <2>2. l.upload # NoPlace /\ o.files = files \cup {o.answer.place}
    BY <1>7, <1>9
  <2>3. l \in LocationBlock
    BY <1>5, <1>7
  <2>4. NewIn(l.upload, n) \in Place /\ NewIn(l.upload, n).names # <<>>
    BY <2>2, <2>3, UploadTyped
  <2>5. QED
    BY <2>1, <2>2, <2>4 DEF PathInv
<1>10. QED
  BY <1>7, <1>8, <1>9

\* The files there are at first have names.
LEMMA InitPath == Init => PathInv
<1>1. SUFFICES ASSUME Init PROVE PathInv
  OBVIOUS
<1>2. files = InitialFiles /\ phase = "CLOSED"
  BY <1>1 DEF Init
<1>3. ASSUME NEW f \in InitialFiles PROVE f \in Place /\ f.names # <<>>
  <2>1. f \in Place /\ [f EXCEPT !.names = Front(@)] \in Dirs /\ f \notin Dirs
    BY Inputs, Tree
  <2>2. f = [root |-> f.root, names |-> f.names] /\ f.names \in Seq(STRING)
    BY <2>1 DEF Place
  <2>3. f.names = <<>> => Front(f.names) = f.names
    BY <2>2, FrontTyped
  <2>4. f.names = <<>> => [f EXCEPT !.names = Front(@)] = f
    BY <2>2, <2>3
  <2>5. QED
    BY <2>1, <2>4
<1>4. QED
  BY <1>2, <1>3 DEF PathInv

\* What is at the root or below it has a path that begins with a slash, and
\* cleanPath leaves such a path clean.
LEMMA RequestLinePath ==
  ASSUME RouteInv, PathInv, NEW uri \in Uris, NEW method \in Methods, RequestLine(uri, method)
  PROVE  PathInv'
<1> DEFINE p == IF uri = <<>> THEN <<"/">> ELSE uri
           path == CleanPath(p)
           l == LocationIn(block, path)
           r == ResolveFsPath(path, l, servers[block].root)
<1>1. /\ files' = files /\ servers' = servers /\ block' = block /\ phase = "READING"
      /\ request' = [NoRequest EXCEPT !.path = path, !.method = method]
      /\ phase' = "ANSWERED" \/ (phase' = "HEADERS" /\ Kinds(r) # {"none"})
  BY DEF RequestLine
<1>2. p \in Path /\ p # <<>>
  <2>1. <<"/">> \in Path
    BY Inputs
  <2>2. <<"/">> # <<>> /\ uri \in Path
    BY Inputs
  <2>3. QED
    BY <2>1, <2>2
<1> HIDE DEF p
<1>3. /\ p[1] = "/" => Clean(path)
      /\ path \in Seq(STRING) /\ path # <<>> /\ path[1] = p[1]
  BY <1>2, CleanPathIs
<1>4. block \in DOMAIN servers /\ servers \in Configurations /\ files \subseteq Place
  BY <1>1 DEF PathInv, RouteInv, Chosen
<1>5. l \in LocationBlock \cup {NoLocation}
  <2>1. servers[block].locations \in Seq(LocationBlock)
    BY <1>4, BlockTyped
  <2>2. QED
    BY <2>1, MatchIs DEF LocationIn
<1> HIDE DEF path, l
<1>6. phase' = "HEADERS" => Clean(path)
  BY <1>1, <1>3, <1>4, <1>5, NotRooted
<1>7. request'.path = path
  BY <1>1 DEF NoRequest
<1>8. QED
  BY <1>1, <1>4, <1>6, <1>7 DEF PathInv

\* Host changes the block, never the path.
LEMMA HeadersPath ==
  ASSUME RouteInv, PathInv, NEW host \in Hosts, NEW chunked \in BOOLEAN, NEW length \in Lengths,
         Headers(host, chunked, length)
  PROVE  PathInv'
<1>1. /\ files' = files /\ servers' = servers /\ block' = OverrideHost(host) /\ phase = "HEADERS"
      /\ request' = [request EXCEPT !.host = host, !.chunked = chunked, !.length = length]
  BY DEF Headers
<1>2. request'.path = request.path
  BY <1>1 DEF RouteInv, Chosen
<1>3. block' \in DOMAIN servers /\ Clean(request.path)
  BY <1>1, BlockExists DEF PathInv, RouteInv, Chosen
<1>4. QED
  BY <1>1, <1>2, <1>3 DEF PathInv

\* Every other step keeps paths clean.
LEMMA NextPath == RouteInv /\ PathInv /\ [Next]_vars => PathInv'
<1>1. SUFFICES ASSUME RouteInv, PathInv, [Next]_vars PROVE PathInv'
  OBVIOUS
<1>2. CASE \E i \in DOMAIN servers : Accept(i)
  <2>1. PICK i \in DOMAIN servers : Accept(i)
    BY <1>2
  <2>2. servers' = servers /\ files' = files /\ phase' = "READING" /\ block' = ConfigForServer(i)
    BY <2>1 DEF Accept
  <2>3. block' \in DOMAIN servers
    BY <1>1, <2>2, BlockExists DEF RouteInv, Chosen
  <2>4. QED
    BY <1>1, <2>2, <2>3 DEF PathInv
<1>3. CASE Handle
  <2>1. servers' = servers /\ block' = block /\ phase = "COMPLETE" /\ phase' = "ANSWERED"
    BY <1>3 DEF Handle
  <2>2. QED
    BY <1>1, <1>3, <2>1, FilesTyped DEF PathInv
<1>4. CASE NextRequest \/ Close
  BY <1>1, <1>4 DEF NextRequest, Close, PathInv
<1>5. CASE UNCHANGED vars
  BY <1>1, <1>5 DEF vars, PathInv
<1>6. QED
  BY <1>1, <1>2, <1>3, <1>4, <1>5, RequestLinePath, HeadersPath DEF Next

\* Only a path that begins with a slash, is clean and exists comes as far as
\* Host, on any request of a connection.
THEOREM PathsClean == Spec => []PathInv
<1>1. Init => PathInv
  BY InitPath
<1>2. RouteInv /\ PathInv /\ [Next]_vars => PathInv'
  BY NextPath
<1>3. QED
  BY <1>1, <1>2, RouteAgrees, PTL DEF Spec

\* Whichever order the configuration has its locations in, with a slash at
\* their end or without, and however the path is written: the one that
\* matchLocation finds, by the number of characters, has the most names.
THEOREM LocationMostSpecific == Spec => []MostSpecific
<1>1. ASSUME RouteInv, PathInv PROVE MostSpecific
  <2>1. SUFFICES ASSUME phase \in {"HEADERS", "COMPLETE"}
        PROVE  LET l == LocationIn(block, request.path)
                   covering == {m \in ToSet(servers[block].locations) : Covers(m.path, request.path)}
               IN  IF covering = {} THEN l = NoLocation
                   ELSE l \in covering /\ \A m \in covering :
                          Len(SegmentsOf(m.path)) <= Len(SegmentsOf(l.path))
    BY DEF MostSpecific
  <2>2. servers \in Configurations /\ block \in DOMAIN servers /\ Regular(request.path)
    BY <1>1, <2>1 DEF PathInv, RouteInv, Chosen, Clean
  <2>3. servers[block].locations \in Seq(LocationBlock)
    BY <2>2, BlockTyped
  <2>4. QED
    BY <2>2, <2>3, MatchSpecific DEF LocationIn
<1>2. QED
  BY <1>1, RouteAgrees, PathsClean, PTL

-----------------------------------------------------------------------------
(* What normalizePath returns. *)

\* The slash is a string and its path has one element.
LEMMA SlashIs ==
  "/" \in STRING /\ <<"/">> \in Seq(STRING) /\ <<"/">> # <<>> /\ Len(<<"/">>) = 1 /\ <<"/">>[1] = "/"
<1> DEFINE p == <<"/">>
<1>1. p \in Seq(STRING) /\ Len(p) = 1 /\ p[1] = "/" /\ p # <<>>
  BY Inputs, PathIs
<1>2. p[1] \in STRING
  <2> HIDE DEF p
  <2>1. 1 \in 1 .. Len(p)
    BY <1>1
  <2>2. QED
    BY <1>1, <2>1, ElementOfSeq
<1>3. QED
  BY <1>1, <1>2

\* The path of some names has these, also with a slash at its end.
LEMMA PathOfIs ==
  ASSUME NEW s \in Seq(STRING \ {"/"})
  PROVE  /\ Clean(PathOf(s)) /\ SegmentsOf(PathOf(s)) = s
         /\ s # <<>> => LET t == Append(PathOf(s), "/") IN Regular(t) /\ SegmentsOf(t) = s
<1> DEFINE N == STRING \ {"/"}
           m == Len(s)
           q == PathOf(s)
<1>1. m \in Nat /\ \A i \in 1 .. m : s[i] \in N
  BY LenProperties, ElementOfSeq
<1>2. CASE s = <<>>
  <2>1. q = <<"/">>
    BY <1>2 DEF PathOf
  <2>2. q \in Seq(STRING) /\ q # <<>> /\ Len(q) = 1 /\ q[1] = "/"
    BY <2>1, SlashIs
  <2> HIDE DEF q
  <2>3. Regular(q)
    BY <2>2 DEF Regular
  <2>4. SegmentsOf(q) \in Seq(N) /\ Len(SegmentsOf(q)) = 0
    <3>1. Half(Len(q), 0)
      BY <2>2 DEF Half
    <3>2. QED
      BY <2>3, <3>1, RegularSegments
  <2>5. SegmentsOf(q) = s
    BY <1>2, <2>4, EmptySeq
  <2>6. QED
    BY <1>2, <2>2, <2>3, <2>5 DEF Clean, q
<1>3. CASE s # <<>>
  <2>1. m # 0
    BY <1>3, EmptySeq
  <2>2. q = [i \in 1 .. 2 * m |-> IF i % 2 = 1 THEN "/" ELSE s[i \div 2]]
    BY <1>3 DEF PathOf
  <2> HIDE DEF m, q
  <2>3. ASSUME NEW i \in 1 .. 2 * m
        PROVE  q[i] \in STRING /\ (q[i] = "/" <=> i % 2 = 1)
    <3>1. CASE i % 2 = 1
      BY <2>2, <3>1, SlashIs
    <3>2. CASE i % 2 # 1
      <4>1. i \div 2 \in 1 .. m
        BY <1>1, <3>2
      <4>2. q[i] = s[i \div 2]
        BY <2>2, <3>2
      <4>3. q[i] \in N
        BY <1>1, <4>1, <4>2
      <4>4. QED
        BY <3>2, <4>3
    <3>3. QED
      BY <3>1, <3>2
  <2>4. ASSUME NEW k \in 1 .. m
        PROVE  q[2 * k] = s[k]
    <3>1. 2 * k \in 1 .. 2 * m /\ (2 * k) % 2 # 1 /\ (2 * k) \div 2 = k
      BY <1>1
    <3>2. QED
      BY <2>2, <3>1
  <2>5. q \in Seq(STRING) /\ Len(q) = 2 * m
    <3> DEFINE d == 2 * m
    <3>1. d \in Nat
      BY <1>1
    <3>2. q = [i \in 1 .. d |-> q[i]] /\ \A i \in 1 .. d : q[i] \in STRING
      BY <2>2, <2>3
    <3> HIDE DEF d
    <3>3. q \in [1 .. d -> STRING]
      BY <3>2
    <3>4. q \in Seq(STRING)
      BY <3>1, <3>3, SeqDef
    <3>5. Len(q) \in Nat /\ 1 .. Len(q) = 1 .. d
      BY <3>3, <3>4, LenProperties
    <3>6. Len(q) = d
      BY <3>1, <3>5
    <3>7. QED
      BY <3>4, <3>6 DEF d
  <2>6. q # <<>>
    BY <1>1, <2>1, <2>5, EmptySeq
  <2>7. Regular(q)
    BY <2>3, <2>5, <2>6 DEF Regular
  <2>8. SegmentsOf(q) = s
    <3>1. Half(Len(q), m)
      BY <1>1, <2>5 DEF Half
    <3>2. /\ SegmentsOf(q) \in Seq(N) /\ Len(SegmentsOf(q)) = m
          /\ \A k \in 1 .. m : SegmentsOf(q)[k] = q[2 * k]
      BY <1>1, <2>7, <3>1, RegularSegments
    <3>3. \A k \in 1 .. m : SegmentsOf(q)[k] = s[k]
      BY <2>4, <3>2
    <3>4. QED
      BY <3>2, <3>3, SeqEqual DEF m
  <2> DEFINE t == Append(q, "/")
  <2>9. /\ t \in Seq(STRING) /\ Len(t) = 2 * m + 1 /\ t[2 * m + 1] = "/"
        /\ \A i \in 1 .. 2 * m : t[i] = q[i]
    BY <2>5, SlashIs, AppendProperties
  <2> HIDE DEF t
  <2>10. t # <<>>
    BY <1>1, <2>9, EmptySeq
  <2>11. ASSUME NEW i \in 1 .. 2 * m + 1
         PROVE  t[i] = "/" <=> i % 2 = 1
    <3>1. CASE i = 2 * m + 1
      BY <1>1, <2>9, <3>1
    <3>2. CASE i \in 1 .. 2 * m
      BY <2>3, <2>9, <3>2
    <3>3. QED
      BY <1>1, <3>1, <3>2
  <2>12. Regular(t)
    BY <2>9, <2>10, <2>11 DEF Regular
  <2>13. SegmentsOf(t) = s
    <3>1. Half(Len(t), m)
      BY <1>1, <2>9 DEF Half
    <3>2. /\ SegmentsOf(t) \in Seq(N) /\ Len(SegmentsOf(t)) = m
          /\ \A k \in 1 .. m : SegmentsOf(t)[k] = t[2 * k]
      BY <1>1, <2>12, <3>1, RegularSegments
    <3>3. \A k \in 1 .. m : 2 * k \in 1 .. 2 * m
      BY <1>1
    <3>4. \A k \in 1 .. m : SegmentsOf(t)[k] = s[k]
      BY <2>4, <2>9, <3>2, <3>3
    <3>5. QED
      BY <3>2, <3>4, SeqEqual DEF m
  <2>14. Clean(q)
    BY <1>1, <2>5, <2>7 DEF Clean
  <2>15. QED
    BY <2>8, <2>12, <2>13, <2>14 DEF q, t
<1>4. QED
  BY <1>2, <1>3

\* The segments of a path are names, none of them a slash.
LEMMA SegmentsTyped ==
  ASSUME NEW p \in Seq(STRING)
  PROVE  SegmentsOf(p) \in Seq(STRING \ {"/"})
<1> DEFINE n == Len(p)
           N == STRING \ {"/"}
<1>1. PICK g : SegmentsBy(p, g)
  BY SegmentsRun
<1> DEFINE S == {i \in Nat : i <= n => g[i] \in Seq(N)}
<1>2. n \in Nat /\ \A i \in 1 .. n : p[i] \in STRING
  BY LenProperties, ElementOfSeq
<1>3. /\ g[0] = <<>> /\ SegmentsOf(p) = g[n]
      /\ \A i \in 1 .. n : g[i] = IF p[i] = "/" THEN g[i - 1] ELSE Append(g[i - 1], p[i])
  BY <1>1 DEF SegmentsBy
<1> HIDE DEF n
<1>4. 0 \in S
  BY <1>3, EmptySeq
<1>5. ASSUME NEW i \in Nat, i \in S PROVE i + 1 \in S
  <2>1. SUFFICES ASSUME i + 1 <= n PROVE g[i + 1] \in Seq(N)
    OBVIOUS
  <2>2. i + 1 \in 1 .. n /\ (i + 1) - 1 = i /\ g[i] \in Seq(N)
    BY <1>2, <1>5, <2>1
  <2>3. g[i + 1] = IF p[i + 1] = "/" THEN g[i] ELSE Append(g[i], p[i + 1])
    BY <1>3, <2>2
  <2>4. p[i + 1] # "/" => Append(g[i], p[i + 1]) \in Seq(N)
    BY <1>2, <2>2, AppendProperties
  <2>5. QED
    BY <2>2, <2>3, <2>4
<1> HIDE DEF S
<1>6. \A i \in Nat : i \in S
  BY <1>4, <1>5, NatSet
<1>7. QED
  BY <1>2, <1>3, <1>6 DEF S

\* What is normalised has the names at the end of the walk.
LEMMA NormalizedWalk ==
  ASSUME NEW p \in Seq(STRING)
  PROVE  LET end == FoldLeft(Walk, Start, SegmentsOf(p))
             segments == end.segments
             n == NormalizePath(p)
         IN  /\ end \in Walks /\ segments \in Seq(STRING \ {"/"})
             /\ ~end.ok => n = <<>>
             /\ end.ok => /\ n # <<>> /\ Regular(n) /\ SegmentsOf(n) = segments
                          /\ n = IF EndsWithSlash(p) /\ segments # <<>>
                                  THEN Append(PathOf(segments), "/") ELSE PathOf(segments)
<1> DEFINE s == SegmentsOf(p)
           end == FoldLeft(Walk, Start, s)
           segments == end.segments
<1>1. s \in Seq(STRING \ {"/"})
  BY SegmentsTyped
<1>2. PICK g : WalkBy(s, g)
  BY <1>1, WalkRun
<1>3. end \in Walks
  BY <1>1, <1>2, LenProperties DEF WalkBy
<1>4. segments \in Seq(STRING \ {"/"})
  BY <1>3, SeqMonotonic DEF Walks, Names
<1>5. NormalizePath(p) = IF ~end.ok THEN <<>>
                         ELSE IF EndsWithSlash(p) /\ segments # <<>> THEN Append(PathOf(segments), "/")
                         ELSE PathOf(segments)
  BY DEF NormalizePath, Start
<1> HIDE DEF segments, end
<1>6. /\ Regular(PathOf(segments)) /\ SegmentsOf(PathOf(segments)) = segments
      /\ segments # <<>> => /\ Regular(Append(PathOf(segments), "/"))
                            /\ SegmentsOf(Append(PathOf(segments), "/")) = segments
  BY <1>4, PathOfIs DEF Clean
<1>7. \A x : Regular(x) => x # <<>>
  BY DEF Regular
<1>8. CASE ~end.ok
  BY <1>3, <1>4, <1>5, <1>8 DEF segments, end
<1>9. CASE end.ok /\ EndsWithSlash(p) /\ segments # <<>>
  BY <1>3, <1>4, <1>5, <1>6, <1>7, <1>9 DEF segments, end
<1>10. CASE end.ok /\ ~(EndsWithSlash(p) /\ segments # <<>>)
  BY <1>3, <1>4, <1>5, <1>6, <1>7, <1>10 DEF segments, end
<1>11. QED
  BY <1>8, <1>9, <1>10

\* They are neither "." nor "..".
LEMMA NormalizedIs ==
  ASSUME NEW p \in Seq(STRING), NormalizePath(p) # <<>>
  PROVE  LET n == NormalizePath(p) IN Regular(n) /\ SegmentsOf(n) \in Seq(Names)
<1> DEFINE end == FoldLeft(Walk, Start, SegmentsOf(p))
           n == NormalizePath(p)
<1>1. end \in Walks /\ end.ok /\ Regular(n) /\ SegmentsOf(n) = end.segments
  BY NormalizedWalk
<1> HIDE DEF end, n
<1>2. end.segments \in Seq(Names)
  BY <1>1 DEF Walks
<1>3. QED
  BY <1>1, <1>2 DEF n

-----------------------------------------------------------------------------
(* The place of a path. *)

\* What begins at a slash of p and goes on to its end.
Suffix(u, p) ==
  /\ u \in Seq(STRING)
  /\ \E j \in 1 .. Len(p) : /\ p[j] = "/" /\ Len(u) = Len(p) - j + 1
                            /\ \A i \in 1 .. Len(u) : u[i] = p[j + i - 1]

\* What is cut at a slash is a suffix.
LEMMA SubSeqSuffix ==
  ASSUME NEW p \in Seq(STRING), NEW j \in 1 .. Len(p), p[j] = "/"
  PROVE  Suffix(SubSeq(p, j, Len(p)), p)
<1> DEFINE n == Len(p)
           u == SubSeq(p, j, n)
<1>1. n \in Nat /\ \A i \in 1 .. n : p[i] \in STRING
  BY LenProperties, ElementOfSeq
<1>2. j \in Int /\ n \in Int /\ j <= n /\ \A i \in j .. n : p[i] \in STRING
  BY <1>1
<1>3. /\ u \in Seq(STRING) /\ Len(u) = IF j <= n THEN n - j + 1 ELSE 0
      /\ \A i \in 1 .. n - j + 1 : u[i] = p[j + i - 1]
  BY <1>2, SubSeqProperties
<1> HIDE DEF n, u
<1>4. Len(u) = n - j + 1
  BY <1>2, <1>3
<1>5. QED
  BY <1>3, <1>4 DEF Suffix, n, u

\* A suffix begins with its slash.
LEMMA SuffixHead ==
  ASSUME NEW p \in Seq(STRING), NEW u, Suffix(u, p)
  PROVE  u \in Seq(STRING) /\ u # <<>> /\ u[1] = "/" /\ Len(u) \in Nat
<1> DEFINE n == Len(p)
           m == Len(u)
<1>1. u \in Seq(STRING) /\ n \in Nat /\ m \in Nat
  BY LenProperties DEF Suffix
<1>2. PICK j \in 1 .. n : p[j] = "/" /\ m = n - j + 1 /\ \A i \in 1 .. m : u[i] = p[j + i - 1]
  BY DEF Suffix
<1>3. m # 0 => u # <<>>
  BY EmptySeq
<1> HIDE DEF n, m
<1>4. m # 0 /\ 1 \in 1 .. m /\ j + 1 - 1 = j
  BY <1>1, <1>2
<1>5. u[1] = "/"
  BY <1>2, <1>4
<1>6. QED
  BY <1>1, <1>3, <1>4, <1>5 DEF m

\* A suffix of a suffix is one.
LEMMA SuffixOfSuffix ==
  ASSUME NEW p \in Seq(STRING), NEW u, NEW v, Suffix(u, p), Suffix(v, u)
  PROVE  Suffix(v, p)
<1> DEFINE n == Len(p)
           m == Len(u)
           k == Len(v)
<1>1. u \in Seq(STRING) /\ v \in Seq(STRING) /\ n \in Nat /\ m \in Nat /\ k \in Nat
  BY LenProperties DEF Suffix
<1>2. PICK j \in 1 .. n : p[j] = "/" /\ m = n - j + 1 /\ \A i \in 1 .. m : u[i] = p[j + i - 1]
  BY DEF Suffix
<1>3. PICK h \in 1 .. m : u[h] = "/" /\ k = m - h + 1 /\ \A i \in 1 .. k : v[i] = u[h + i - 1]
  BY DEF Suffix
<1> HIDE DEF n, m, k
<1>4. j + h - 1 \in 1 .. n /\ k = n - (j + h - 1) + 1
  BY <1>1, <1>2, <1>3
<1>5. p[j + h - 1] = "/"
  BY <1>2, <1>3
<1>6. ASSUME NEW i \in 1 .. k
      PROVE  v[i] = p[(j + h - 1) + i - 1]
  <2>1. h + i - 1 \in 1 .. m /\ j + (h + i - 1) - 1 = (j + h - 1) + i - 1
    BY <1>1, <1>2, <1>3
  <2>2. QED
    BY <1>2, <1>3, <2>1
<1>7. QED
  BY <1>1, <1>4, <1>5, <1>6 DEF Suffix, n, k

\* The names of such a suffix are the last ones of p.
Ends(s, t) == \E d \in Nat : /\ Len(t) = Len(s) + d
                            /\ \A k \in 1 .. Len(s) : s[k] = t[k + d]

\* The names of a suffix are the last names of the path.
LEMMA SuffixNames ==
  ASSUME NEW p, Regular(p), NEW u, Suffix(u, p)
  PROVE  Regular(u) /\ Ends(SegmentsOf(u), SegmentsOf(p))
<1> DEFINE n == Len(p)
           m == Len(u)
           N == STRING \ {"/"}
<1>1. /\ p \in Seq(STRING) /\ u \in Seq(STRING) /\ u # <<>> /\ n \in Nat /\ m \in Nat
      /\ \A i \in 1 .. n : p[i] = "/" <=> i % 2 = 1
  BY SuffixHead, LenProperties DEF Regular
<1>2. PICK j \in 1 .. n : p[j] = "/" /\ m = n - j + 1 /\ \A i \in 1 .. m : u[i] = p[j + i - 1]
  BY DEF Suffix
<1> HIDE DEF n, m
<1>3. j \in Nat /\ j % 2 = 1
  BY <1>1, <1>2
<1>4. PICK d \in Nat : Half(j, d)
  BY <1>3, HalfOf
<1>5. j = 2 * d + 1
  BY <1>3, <1>4 DEF Half
<1>6. ASSUME NEW i \in 1 .. m
      PROVE  u[i] = p[2 * d + i] /\ 2 * d + i \in 1 .. n /\ (2 * d + i) % 2 = i % 2
  <2>1. j + i - 1 = 2 * d + i /\ 2 * d + i \in 1 .. n /\ (2 * d + i) % 2 = i % 2
    BY <1>1, <1>2, <1>5
  <2>2. QED
    BY <1>2, <2>1
<1>7. \A i \in 1 .. m : u[i] = "/" <=> i % 2 = 1
  BY <1>1, <1>6
<1>8. Regular(u)
  BY <1>1, <1>7 DEF Regular, m
<1>9. PICK h \in Nat : Half(n, h)
  BY <1>1, HalfOf
<1>10. h - d \in Nat /\ Half(m, h - d) /\ h = (h - d) + d
  BY <1>1, <1>2, <1>5, <1>9 DEF Half
<1>11. /\ Len(SegmentsOf(p)) = h /\ \A k \in 1 .. h : SegmentsOf(p)[k] = p[2 * k]
  BY <1>9, RegularSegments DEF n
<1> DEFINE e == h - d
<1> HIDE DEF e
<1>12. /\ Len(SegmentsOf(u)) = e /\ \A k \in 1 .. e : SegmentsOf(u)[k] = u[2 * k]
  BY <1>8, <1>10, RegularSegments DEF m, e
<1>13. ASSUME NEW k \in 1 .. e
       PROVE  SegmentsOf(u)[k] = SegmentsOf(p)[k + d]
  <2>1. e \in Nat /\ h = e + d /\ (m = 2 * e \/ m = 2 * e + 1)
    BY <1>10 DEF e, Half
  <2>2. 2 * k \in 1 .. m /\ k + d \in 1 .. h /\ 2 * d + 2 * k = 2 * (k + d)
    BY <2>1
  <2>3. u[2 * k] = p[2 * (k + d)]
    BY <1>6, <2>2
  <2>4. QED
    BY <1>11, <1>12, <2>2, <2>3
<1>14. h = e + d
  BY <1>10 DEF e
<1>15. QED
  BY <1>8, <1>11, <1>12, <1>13, <1>14 DEF Ends

\* _resolveFsPath appends to a root what is left of the path behind a slash.
LEMMA ResolvedSuffix ==
  ASSUME NEW p, Regular(p), NEW l \in LocationBlock \cup {NoLocation}, NEW root \in STRING \ {"none"}
  PROVE  LET r == ResolveFsPath(p, l, root)
         IN  r.root \in STRING \ {"none"} /\ Suffix(r.uri, p)
<1> DEFINE r == ResolveFsPath(p, l, root)
           n == Len(p)
<1>1. p \in Seq(STRING) /\ p # <<>> /\ n \in Nat /\ n # 0 /\ p[1] = "/"
  <2>1. p \in Seq(STRING) /\ p # <<>> /\ \A i \in 1 .. n : p[i] = "/" <=> i % 2 = 1
    BY DEF Regular
  <2>2. n \in Nat /\ n # 0
    BY <2>1, LenProperties, EmptySeq
  <2> HIDE DEF n
  <2>3. 1 \in 1 .. n /\ 1 % 2 = 1
    BY <2>2
  <2>4. QED
    BY <2>1, <2>2, <2>3
<1>2. Suffix(p, p)
  <2>1. 1 \in 1 .. n
    BY <1>1
  <2>2. Suffix(SubSeq(p, 1, n), p)
    BY <1>1, <2>1, SubSeqSuffix
  <2>3. QED
    BY <1>1, <2>2, SubSeqFull
<1>3. CASE l = NoLocation
  BY <1>2, <1>3 DEF ResolveFsPath
<1>4. CASE l \in LocationBlock
  <2> DEFINE q == l.path
             rest == SubSeq(p, Len(q) + 1, n)
             uri == IF IsPrefix(q, p) /\ rest # <<>> /\ Head(rest) = "/" THEN rest ELSE p
             k == FromLastSlash(uri)
  <2>1. l # NoLocation /\ Len(q) \in Nat /\ l.root \in STRING \ {"none"}
    BY <1>4, LocationTyped, PathIs DEF LocationBlock
  <2>2. r.root = l.root /\ r.uri = IF uri = q THEN SubSeq(uri, k, Len(uri)) ELSE uri
    BY <2>1 DEF ResolveFsPath
  <2>3. Suffix(uri, p)
    <3>1. CASE IsPrefix(q, p) /\ rest # <<>> /\ Head(rest) = "/"
      <4> DEFINE j == Len(q) + 1
      <4>1. j \in Nat /\ j # 0
        BY <2>1
      <4>7. SubSeq(p, j, n) # <<>>
        BY <3>1
      <4> HIDE DEF j, n
      <4>8. n \in Int /\ j \in Int
        BY <1>1, <4>1
      <4>2. ~(n < j)
        BY <4>7, <4>8, SubSeqEmpty
      <4>3. j \in 1 .. n /\ n \in j .. n
        BY <1>1, <4>1, <4>2
      <4>4. Head(SubSeq(p, j, n)) = p[j]
        BY <1>1, <4>3, HeadTailOfSubSeq
      <4>5. Suffix(SubSeq(p, j, n), p)
        BY <1>1, <3>1, <4>3, <4>4, SubSeqSuffix DEF j, n
      <4>6. QED
        BY <3>1, <4>5 DEF j, n
    <3>2. QED
      BY <1>2, <3>1
  <2> HIDE DEF uri, q
  <2>4. uri \in Seq(STRING) /\ uri # <<>> /\ uri[1] = "/" /\ Len(uri) \in Nat
    BY <1>1, <2>3, SuffixHead
  <2>5. k \in 1 .. Len(uri) /\ uri[k] = "/"
    <3> DEFINE I == {i \in 1 .. Len(uri) : uri[i] = "/"}
    <3>1. Len(uri) # 0
      BY <2>4, EmptySeq
    <3>2. 1 \in I /\ I \in SUBSET (1 .. Len(uri))
      BY <2>4, <3>1
    <3>3. k = Max(I)
      BY <3>2 DEF FromLastSlash, SelectLastInSeq
    <3>4. Max(I) \in I
      BY <2>4, <3>2, MaxIs
    <3> HIDE DEF k
    <3>5. QED
      BY <3>3, <3>4
  <2> HIDE DEF k
  <2>6. Suffix(SubSeq(uri, k, Len(uri)), uri)
    BY <2>4, <2>5, SubSeqSuffix
  <2>7. Suffix(SubSeq(uri, k, Len(uri)), p)
    BY <1>1, <2>3, <2>6, SuffixOfSuffix
  <2>8. QED
    BY <2>1, <2>2, <2>3, <2>7
<1>5. QED
  BY <1>3, <1>4

\* What is behind a prefix, before a slash, has the names behind its names.
LEMMA RestNames ==
  ASSUME NEW p, Regular(p), NEW q \in Seq(STRING), IsPrefix(q, p),
         Len(q) + 1 <= Len(p), p[Len(q) + 1] = "/"
  PROVE  LET s == SegmentsOf(p)
         IN  SegmentsOf(SubSeq(p, Len(q) + 1, Len(p))) =
               SubSeq(s, Len(SegmentsOf(q)) + 1, Len(s))
<1> DEFINE n == Len(p)
           m == Len(q)
           j == m + 1
           u == SubSeq(p, j, n)
           s == SegmentsOf(p)
           N == STRING \ {"/"}
<1>1. /\ p \in Seq(STRING) /\ n \in Nat /\ m \in Nat
      /\ \A i \in 1 .. n : p[i] = "/" <=> i % 2 = 1
  BY LenProperties DEF Regular
<1>2. j <= n /\ p[j] = "/"
  OBVIOUS
<1>3. m <= n /\ \A i \in 1 .. m : q[i] = p[i]
  BY <1>1, PrefixIs
<1>4. j \in 1 .. n
  BY <1>1, <1>2
<1>5. Suffix(u, p)
  BY <1>1, <1>2, <1>4, SubSeqSuffix
<1>6. Regular(u) /\ u \in Seq(STRING)
  BY <1>5, SuffixNames DEF Suffix
<1>7. Len(u) = n - m /\ \A i \in 1 .. n - m : u[i] = p[m + i]
  <2>1. j \in Int /\ n \in Int /\ \A i \in j .. n : p[i] \in STRING
    BY <1>1, <1>4, ElementOfSeq
  <2>2. Len(u) = (IF j <= n THEN n - j + 1 ELSE 0) /\ \A i \in 1 .. n - j + 1 : u[i] = p[j + i - 1]
    BY <2>1, SubSeqProperties
  <2> HIDE DEF u, n, m
  <2>3. n - j + 1 = n - m /\ \A i \in 1 .. n - m : j + i - 1 = m + i
    BY <1>1
  <2>4. QED
    BY <1>2, <2>2, <2>3
<1> HIDE DEF n, m, u
<1>8. PICK d \in Nat : m = 2 * d
  <2>1. j % 2 = 1
    BY <1>1, <1>2, <1>4
  <2>2. PICK d \in Nat : Half(j, d)
    BY <1>1, HalfOf
  <2>3. m = 2 * d
    BY <1>1, <2>1, <2>2 DEF Half
  <2>4. QED
    BY <2>3
<1>9. Len(SegmentsOf(q)) = d
  <2>1. CASE q = <<>>
    <3>1. SegmentsOf(q) = <<>> /\ Len(<<>>) = 0 /\ m = 0
      <4>1. PICK g : SegmentsBy(q, g)
        BY SegmentsRun
      <4>2. g[0] = <<>> /\ SegmentsOf(q) = g[Len(q)] /\ Len(q) = 0
        BY <2>1, <4>1, EmptySeq DEF SegmentsBy
      <4>3. QED
        BY <4>2, EmptySeq DEF m
    <3>2. QED
      BY <1>8, <3>1
  <2>2. CASE q # <<>>
    <3>1. \A i \in 1 .. m : i \in 1 .. n
      BY <1>1, <1>3
    <3>2. Regular(q)
      BY <1>1, <1>3, <2>2, <3>1 DEF Regular, m
    <3>3. Half(m, d)
      BY <1>8 DEF Half
    <3>4. QED
      BY <3>2, <3>3, RegularSegments DEF m
  <2>3. QED
    BY <2>1, <2>2
<1>10. PICK h \in Nat : Half(n, h)
  BY <1>1, HalfOf
<1>11. h - d \in Nat /\ Half(n - m, h - d)
  BY <1>1, <1>2, <1>4, <1>8, <1>10 DEF Half
<1> DEFINE e == h - d
           t == SegmentsOf(u)
<1>12. s \in Seq(N) /\ Len(s) = h /\ \A k \in 1 .. h : s[k] = p[2 * k]
  BY <1>10, RegularSegments DEF n
<1> HIDE DEF s, e
<1>13. t \in Seq(N) /\ Len(t) = e /\ \A k \in 1 .. e : t[k] = u[2 * k]
  BY <1>6, <1>7, <1>11, RegularSegments DEF e
<1> HIDE DEF t
<1>14. /\ SubSeq(s, d + 1, h) \in Seq(N) /\ Len(SubSeq(s, d + 1, h)) = e
       /\ \A k \in 1 .. e : SubSeq(s, d + 1, h)[k] = s[d + k]
  <2>1. d + 1 \in Int /\ h \in Int /\ \A k \in d + 1 .. h : s[k] \in N
    BY <1>8, <1>12, ElementOfSeq
  <2> DEFINE v == SubSeq(s, d + 1, h)
  <2>2. /\ v \in Seq(N) /\ Len(v) = (IF d + 1 <= h THEN h - (d + 1) + 1 ELSE 0)
        /\ \A k \in 1 .. h - (d + 1) + 1 : v[k] = s[(d + 1) + k - 1]
    BY <2>1, SubSeqProperties
  <2> HIDE DEF v
  <2>3. e \in Nat /\ h = d + e
    BY <1>11 DEF e
  <2>4. Len(v) = e
    BY <2>2, <2>3
  <2>5. ASSUME NEW k \in 1 .. e PROVE v[k] = s[d + k]
    <3>1. k \in 1 .. h - (d + 1) + 1 /\ (d + 1) + k - 1 = d + k
      BY <2>3
    <3>2. QED
      BY <2>2, <3>1
  <2>6. QED
    BY <2>2, <2>4, <2>5 DEF v
<1>15. ASSUME NEW k \in 1 .. e PROVE t[k] = s[d + k]
  <2>1. e \in Nat /\ h = d + e /\ (n - m = 2 * e \/ n - m = 2 * e + 1)
    BY <1>11 DEF e, Half
  <2>2. 2 * k \in 1 .. n - m /\ d + k \in 1 .. h /\ m + 2 * k = 2 * (d + k)
    BY <1>8, <2>1
  <2>3. QED
    BY <1>7, <1>12, <1>13, <2>2
<1>16. t = SubSeq(s, d + 1, h)
  BY <1>13, <1>14, <1>15, SeqEqual
<1>17. QED
  BY <1>9, <1>12, <1>16 DEF t, u, s, m, n

\* What is behind the last slash has at most one name.
LEMMA LastNames ==
  ASSUME NEW p, Regular(p)
  PROVE  LET u == SubSeq(p, FromLastSlash(p), Len(p))
         IN  Suffix(u, p) /\ Len(SegmentsOf(u)) \in {0, 1}
<1> DEFINE n == Len(p)
           k == FromLastSlash(p)
           u == SubSeq(p, k, n)
           I == {i \in 1 .. n : p[i] = "/"}
<1>1. /\ p \in Seq(STRING) /\ p # <<>> /\ n \in Nat
      /\ \A i \in 1 .. n : p[i] = "/" <=> i % 2 = 1
  BY LenProperties DEF Regular
<1>2. n # 0
  BY <1>1, EmptySeq
<1>3. 1 \in I /\ I \in SUBSET (1 .. n)
  <2>1. 1 \in 1 .. n /\ 1 % 2 = 1
    BY <1>1, <1>2
  <2>2. QED
    BY <1>1, <2>1
<1>4. k = Max(I)
  BY <1>3 DEF FromLastSlash, SelectLastInSeq
<1>5. Max(I) \in I /\ \A i \in I : i <= Max(I)
  BY <1>1, <1>3, MaxIs
<1> HIDE DEF k
<1>6. k \in 1 .. n /\ p[k] = "/" /\ \A i \in 1 .. n : p[i] = "/" => i <= k
  BY <1>4, <1>5
<1>7. Suffix(u, p)
  BY <1>1, <1>6, SubSeqSuffix
<1>8. Regular(u) /\ u \in Seq(STRING) /\ Len(u) \in Nat
  BY <1>7, SuffixNames, SuffixHead, <1>1
<1>9. Len(u) = n - k + 1
  <2>1. k \in Int /\ n \in Int /\ k <= n /\ \A i \in k .. n : p[i] \in STRING
    BY <1>1, <1>6, ElementOfSeq
  <2>2. QED
    BY <2>1, SubSeqProperties
<1>10. n <= k + 1
  <2>1. SUFFICES ASSUME k + 2 <= n PROVE FALSE
    BY <1>1, <1>6
  <2>2. k + 2 \in 1 .. n /\ k % 2 = 1 /\ (k + 2) % 2 = 1
    BY <1>1, <1>6, <2>1
  <2>3. k + 2 <= k
    BY <1>1, <1>6, <2>2
  <2>4. QED
    BY <1>6, <2>3
<1> HIDE DEF u, n
<1>11. PICK h \in Nat : Half(Len(u), h)
  BY <1>8, HalfOf
<1>12. h \in {0, 1}
  BY <1>1, <1>6, <1>8, <1>9, <1>10, <1>11 DEF Half
<1>13. Len(SegmentsOf(u)) = h
  BY <1>8, <1>11, RegularSegments
<1>14. QED
  BY <1>7, <1>12, <1>13 DEF u, n, k

\* _resolveFsPath, by names: all of the path's, those behind the location's, or
\* the last one where there are no others than the location's.
LEMMA ResolvedNames ==
  ASSUME NEW p, Regular(p), NEW l \in LocationBlock, NEW root
  PROVE  LET s == SegmentsOf(p)
             own == SegmentsOf(l.path)
             rest == SubSeq(s, Len(own) + 1, Len(s))
             names == SegmentsOf(ResolveFsPath(p, l, root).uri)
         IN  \/ names \in {s, rest}
             \/ rest \in {<<>>, own} /\ Len(names) \in {0, 1}
<1> DEFINE q == l.path
           n == Len(p)
           s == SegmentsOf(p)
           own == SegmentsOf(q)
           rest == SubSeq(s, Len(own) + 1, Len(s))
           left == SubSeq(p, Len(q) + 1, n)
           Cut == IsPrefix(q, p) /\ left # <<>> /\ Head(left) = "/"
           uri == IF Cut THEN left ELSE p
           u == ResolveFsPath(p, l, root).uri
<1>1. l # NoLocation /\ q \in Seq(STRING) /\ Len(q) \in Nat
  BY LocationTyped, PathIs
<1>2. u = IF uri = q THEN SubSeq(uri, FromLastSlash(uri), Len(uri)) ELSE uri
  BY <1>1 DEF ResolveFsPath
<1>3. p \in Seq(STRING) /\ n \in Nat
  BY LenProperties DEF Regular
<1>4. CASE Cut
  <2> DEFINE j == Len(q) + 1
  <2>1. j \in Nat /\ j # 0 /\ SubSeq(p, j, n) # <<>>
    <3>1. left # <<>>
      BY <1>4
    <3>2. SubSeq(p, j, n) # <<>>
      BY <3>1
    <3> HIDE DEF q
    <3>3. j \in Nat /\ j # 0
      BY <1>1
    <3>4. QED
      BY <3>2, <3>3
  <2> HIDE DEF j, n
  <2>2. ~(n < j)
    <3>1. n \in Int /\ j \in Int
      BY <1>3, <2>1
    <3>2. QED
      BY <2>1, <3>1, SubSeqEmpty
  <2>3. j \in 1 .. n /\ n \in j .. n /\ j <= n
    BY <1>3, <2>1, <2>2
  <2>4. Head(SubSeq(p, j, n)) = p[j]
    BY <1>3, <2>3, HeadTailOfSubSeq DEF n
  <2>5. p[j] = "/"
    BY <1>4, <2>4 DEF j
  <2>6. SegmentsOf(left) = rest
    BY <1>1, <1>4, <2>3, <2>5, RestNames DEF j, n
  <2>7. Regular(left)
    <3>1. Suffix(left, p)
      BY <1>3, <2>3, <2>5, SubSeqSuffix DEF j, n
    <3>2. QED
      BY <3>1, SuffixNames
  <2> HIDE DEF left, rest, own, s, q
  <2>8. uri = left
    BY <1>4
  <2>9. CASE left = q
    <3>1. rest = own
      BY <2>6, <2>9 DEF own
    <3>2. Len(SegmentsOf(u)) \in {0, 1}
      BY <1>2, <2>7, <2>8, <2>9, LastNames
    <3>3. QED
      BY <3>1, <3>2 DEF rest, own, s, q
  <2>10. CASE left # q
    BY <1>2, <2>6, <2>8, <2>10 DEF rest, own, s, q
  <2>11. QED
    BY <2>9, <2>10
<1>5. CASE ~Cut /\ p = q
  <2>1. Len(SegmentsOf(u)) \in {0, 1}
    BY <1>2, <1>5, LastNames
  <2>2. rest = <<>>
    <3>1. s \in Seq(STRING \ {"/"}) /\ Len(s) \in Nat
      BY RegularSegments, LenProperties
    <3>2. own = s
      BY <1>5
    <3> HIDE DEF s, own
    <3>3. Len(s) + 1 \in Int /\ Len(s) \in Int /\ Len(s) < Len(s) + 1
      BY <3>1
    <3>4. QED
      BY <3>2, <3>3, SubSeqEmpty
  <2>3. QED
    BY <2>1, <2>2
<1>6. CASE ~Cut /\ p # q
  <2>1. u = p
    BY <1>2, <1>6
  <2>2. QED
    BY <2>1
<1>7. QED
  BY <1>4, <1>5, <1>6

\* Where stat() finds something below a root, it has the names it was asked for.
LEMMA PlaceNames ==
  ASSUME NEW root \in STRING \ {"none"}, NEW s \in Seq(Names),
         FoldLeft(Step, [root |-> root, names |-> <<>>], s) \in Place
  PROVE  LET at == FoldLeft(Step, [root |-> root, names |-> <<>>], s)
         IN  at.root = root /\ at.names = s
<1> DEFINE n == Len(s)
<1>1. s \in Seq(STRING) /\ n \in Nat /\ \A i \in 1 .. n : s[i] \in Names
  BY SeqMonotonic, LenProperties, ElementOfSeq DEF Names
<1>2. PICK g : PlaceBy(root, s, g)
  BY <1>1, PlaceRun
<1> DEFINE Good(k) == g[k] \in Place =>
                        /\ g[k].root = root /\ Len(g[k].names) = k
                        /\ \A i \in 1 .. k : g[k].names[i] = s[i]
           S == {k \in Nat : k <= n => Good(k)}
<1>3. /\ g[0] = [root |-> root, names |-> <<>>]
      /\ FoldLeft(Step, [root |-> root, names |-> <<>>], s) = g[n]
      /\ \A i \in 1 .. n : g[i] = Step(g[i - 1], s[i])
  BY <1>2 DEF PlaceBy
<1> HIDE DEF n
<1>4. 0 \in S
  BY <1>3, EmptySeq
<1>5. ASSUME NEW k \in Nat, k \in S PROVE k + 1 \in S
  <2>1. SUFFICES ASSUME k + 1 <= n, g[k + 1] \in Place PROVE Good(k + 1)
    OBVIOUS
  <2> DEFINE x == g[k]
             t == s[k + 1]
  <2>2. k + 1 \in 1 .. n /\ (k + 1) - 1 = k /\ Good(k)
    BY <1>1, <1>5, <2>1
  <2>3. g[k + 1] = Step(x, t) /\ t \in STRING /\ t \notin {".", ".."}
    BY <1>1, <1>3, <2>2 DEF Names
  <2>4. x \in Dirs
    <3>1. Above \notin Place /\ Nowhere \notin Place
      BY DEF Above, Nowhere, Place
    <3>2. QED
      BY <2>1, <2>3, <3>1 DEF Step
  <2>5. x \in Place
    BY <2>4, Inputs
  <2>6. g[k + 1] = NewIn(x, t)
    BY <2>3, <2>4 DEF Step, NewIn
  <2>7. g[k + 1] = [root |-> x.root, names |-> Append(x.names, t)]
    BY <2>5, <2>6, Renamed DEF NewIn
  <2>8. x.root = root /\ Len(x.names) = k /\ \A i \in 1 .. k : x.names[i] = s[i]
    BY <2>2, <2>5
  <2>9. x.names \in Seq(STRING)
    BY <2>5 DEF Place
  <2> DEFINE names == x.names
  <2> HIDE DEF names
  <2>10. /\ Len(Append(names, t)) = k + 1 /\ Append(names, t)[k + 1] = t
         /\ \A i \in 1 .. k : Append(names, t)[i] = names[i]
    BY <2>3, <2>8, <2>9, AppendProperties DEF names
  <2>11. \A i \in 1 .. k + 1 : i \in 1 .. k \/ i = k + 1
    OBVIOUS
  <2>12. \A i \in 1 .. k + 1 : Append(names, t)[i] = s[i]
    BY <2>8, <2>10, <2>11 DEF names
  <2>13. g[k + 1].root = root /\ g[k + 1].names = Append(names, t)
    BY <2>7, <2>8 DEF names
  <2>14. QED
    BY <2>10, <2>12, <2>13
<1> HIDE DEF S
<1>6. \A k \in Nat : k \in S
  BY <1>4, <1>5, NatSet
<1>7. Good(n)
  BY <1>1, <1>6 DEF S
<1>8. /\ g[n].root = root /\ Len(g[n].names) = Len(s) /\ g[n].names \in Seq(STRING)
      /\ \A i \in 1 .. Len(s) : g[n].names[i] = s[i]
  BY <1>3, <1>7 DEF Place, n
<1>9. g[n].names = s
  BY <1>1, <1>8, SeqEqual
<1>10. QED
  BY <1>3, <1>8, <1>9

\* A place below a root that a normalised path leads to is the path's.
LEMMA PlaceIsAt ==
  ASSUME NEW p, Regular(p), SegmentsOf(p) \in Seq(Names),
         NEW l \in LocationBlock, NEW root \in STRING \ {"none"},
         PlaceOf(ResolveFsPath(p, l, root)) \in Place,
         PlaceOf(ResolveFsPath(p, l, root)).names # <<>>
  PROVE  IsAt(PlaceOf(ResolveFsPath(p, l, root)), l, p)
<1> DEFINE r == ResolveFsPath(p, l, root)
           u == r.uri
           t == SegmentsOf(u)
           s == SegmentsOf(p)
           own == SegmentsOf(l.path)
           rest == SubSeq(s, Len(own) + 1, Len(s))
           at == PlaceOf(r)
<1>1. r.root \in STRING \ {"none"} /\ Suffix(u, p) /\ p \in Seq(STRING)
  BY ResolvedSuffix DEF Regular
<1>2. r.root = l.root
  BY LocationTyped DEF ResolveFsPath
<1>3. u # <<>> /\ Head(u) = "/"
  BY <1>1, SuffixHead, HeadTailProperties
<1>4. t \in Seq(STRING \ {"/"}) /\ Ends(t, s)
  BY <1>1, SuffixNames, RegularSegments
<1>5. \/ t \in {s, rest}
      \/ rest \in {<<>>, own} /\ Len(t) \in {0, 1}
  BY ResolvedNames
<1>6. at = FoldLeft(Step, [root |-> r.root, names |-> <<>>], t)
  BY <1>3 DEF PlaceOf
<1> HIDE DEF r, u, t, s, own, rest, at
<1>7. PICK d \in Nat : Len(s) = Len(t) + d /\ \A k \in 1 .. Len(t) : t[k] = s[k + d]
  BY <1>4 DEF Ends
<1>8. s \in Seq(Names) /\ Len(t) \in Nat /\ \A k \in 1 .. Len(s) : s[k] \in Names
  BY <1>4, LenProperties, ElementOfSeq DEF s
<1>9. t \in Seq(Names)
  <2>1. ASSUME NEW k \in 1 .. Len(t) PROVE t[k] \in Names
    <3>1. k + d \in 1 .. Len(s)
      BY <1>7, <1>8
    <3>2. QED
      BY <1>7, <1>8, <3>1
  <2>2. SubSeq(t, 1, Len(t)) \in Seq(Names)
    BY <1>8, <2>1, SubSeqProperties
  <2>3. SubSeq(t, 1, Len(t)) = t
    BY <1>4, SubSeqFull
  <2>4. QED
    BY <2>2, <2>3
<1>10. at.root = r.root /\ at.names = t /\ t # <<>>
  <2>1. at \in Place /\ at.names # <<>>
    BY DEF at, r
  <2>2. at.root = r.root /\ at.names = t
    BY <1>1, <1>6, <1>9, <2>1, PlaceNames
  <2>3. QED
    BY <2>1, <2>2
<1>11. Len(t) \in {0, 1} => t = <<Last(s)>>
  <2>1. SUFFICES ASSUME Len(t) \in {0, 1} PROVE t = <<Last(s)>>
    OBVIOUS
  <2>2. Len(t) = 1
    BY <1>9, <1>10, <2>1, EmptySeq
  <2>3. 1 \in 1 .. Len(t) /\ 1 + d = Len(s)
    BY <1>7, <2>2
  <2>4. t[1] = Last(s)
    BY <1>7, <2>3 DEF Last
  <2>5. Len(<<Last(s)>>) = 1 /\ <<Last(s)>>[1] = Last(s) /\ <<Last(s)>> \in Seq({Last(s)})
    OBVIOUS
  <2>6. Last(s) \in Names
    BY <1>9, <2>2, <2>3, <2>4, ElementOfSeq
  <2>7. <<Last(s)>> \in Seq(Names)
    BY <2>6
  <2>8. QED
    BY <1>9, <2>2, <2>4, <2>5, <2>7, SeqEqual
<1>12. /\ at.root = l.root
       /\ \/ at.names \in {s, rest}
          \/ at.names = <<Last(s)>> /\ rest \in {<<>>, own}
  BY <1>2, <1>5, <1>10, <1>11
<1>13. QED
  BY <1>12 DEF IsAt, at, r, s, own, rest

-----------------------------------------------------------------------------
(* Where files are made and removed. *)

\* What ChangesAllowed says of a step.
Allowed ==
  LET l == answer'.location
      place == answer'.place
  IN  /\ l.methods # {} => request.method \in l.methods
      /\ Covers(l.path, request'.path)
      /\ ~l.redirect
      /\ \/ /\ request.method = "POST" /\ answer'.code \in {201, 500}
            /\ files' = files \cup {place}
            /\ [place EXCEPT !.names = Front(@)] = l.upload
         \/ /\ request.method = "DELETE" /\ answer'.code = 204
            /\ files' = files \ {place}
            /\ IsAt(place, l, request'.path)

\* handle changes files only as its location allows.
LEMMA HandleAllowed ==
  ASSUME RouteInv, PathInv, Handle, files' # files
  PROVE  Allowed
<1> DEFINE path == NormalizePath(request.path)
           ls   == servers[block].locations
           l    == MatchLocation(ls, path)
           root == servers[block].root
           at   == PlaceOf(ResolveFsPath(path, l, root))
<1>1. /\ request' = [request EXCEPT !.path = path] /\ phase = "COMPLETE"
      /\ \E kind : \E o \in Outcomes(path, l, kind, at) : answer' = o.answer /\ files' = o.files
  BY DEF Handle, LocationIn
<1>14. PICK kind : \E o \in Outcomes(path, l, kind, at) : answer' = o.answer /\ files' = o.files
  BY <1>1
<1>2. PICK o \in Outcomes(path, l, kind, at) : answer' = o.answer /\ files' = o.files
  BY <1>14
<1>3. servers \in Configurations /\ block \in DOMAIN servers /\ Regular(request.path)
  BY <1>1 DEF RouteInv, Chosen, PathInv, Clean
<1>4. ls \in Seq(LocationBlock) /\ root \in STRING \ {"none"}
  BY <1>3, BlockTyped
<1> HIDE DEF ls, root, at
<1>5. o.files # files
  BY <1>2
<1>6. /\ path # <<>>
      /\ \/ o.answer.code = 204 /\ o.answer.place = at
         \/ /\ o.answer.code \in {201, 500}
            /\ \E n \in UploadNames : o.answer.place = NewIn(l.upload, n)
  BY <1>5, OutcomeByPlace
<1>7. /\ l # NoLocation /\ ~l.redirect
      /\ l.methods = {} \/ request.method \in l.methods
      /\ o.answer.location = l
      /\ \/ /\ request.method = "POST" /\ o.answer.code \in {201, 500} /\ l.upload # NoPlace
            /\ o.files = files \cup {o.answer.place}
         \/ /\ request.method = "DELETE" /\ o.answer.code = 204
            /\ o.files = files \ {o.answer.place}
  BY <1>5, OutcomeByMethod
<1>8. Regular(path) /\ SegmentsOf(path) \in Seq(Names)
  BY <1>3, <1>6, NormalizedIs DEF Regular
<1> HIDE DEF path
<1>9. l \in LocationBlock /\ Covers(l.path, path)
  BY <1>4, <1>7, <1>8, MatchSpecific
<1>10. request'.path = path
  BY <1>1 DEF RouteInv, Chosen
<1> HIDE DEF l
<1>11. CASE o.answer.code \in {201, 500}
  <2>1. PICK n \in UploadNames : o.answer.place = NewIn(l.upload, n)
    BY <1>6, <1>11
  <2>2. l.upload # NoPlace
    BY <1>7, <1>11
  <2>3. [NewIn(l.upload, n) EXCEPT !.names = Front(@)] = l.upload
    BY <1>9, <2>2, UploadTyped
  <2> DEFINE new == o.answer.place
  <2>4. [new EXCEPT !.names = Front(@)] = l.upload
    BY <2>1, <2>3
  <2>5. /\ answer'.code \in {201, 500} /\ answer'.location = l /\ answer'.place = new
        /\ files' = files \cup {new} /\ request.method = "POST"
    BY <1>2, <1>7, <1>11
  <2> HIDE DEF new
  <2>6. [answer'.place EXCEPT !.names = Front(@)] = answer'.location.upload
    BY <2>4, <2>5
  <2>7. QED
    BY <1>7, <1>9, <1>10, <2>5, <2>6 DEF Allowed
<1>12. CASE o.answer.code = 204
  <2>1. /\ answer'.code = 204 /\ answer'.location = l /\ answer'.place = at
        /\ files' = files \ {at} /\ request.method = "DELETE"
    BY <1>2, <1>6, <1>7, <1>12
  <2>2. at \in files
    BY <1>2, <1>5, <2>1
  <2>3. at \in Place /\ at.names # <<>>
    BY <2>2 DEF PathInv
  <2>4. IsAt(at, l, path)
    BY <1>4, <1>8, <1>9, <2>3, PlaceIsAt DEF at
  <2>5. QED
    BY <1>7, <1>9, <1>10, <2>1, <2>4 DEF Allowed
<1>13. QED
  BY <1>6, <1>11, <1>12

\* Wherever the dots and slashes of a path, a location that ends with a slash or
\* none at all lead to: a file is made only in the upload directory of the
\* location that serves the path name by name, and removed only where the path
\* is below that location's root, and only by a method the location takes.
THEOREM FilesChangeAllowed == Spec => ChangesAllowed
<1>1. ASSUME RouteInv, PathInv, [Next]_vars, files' # files
      PROVE  Allowed
  <2>1. CASE \/ NextRequest \/ Close \/ \E i \in DOMAIN servers : Accept(i)
             \/ \E uri \in Uris, method \in Methods : RequestLine(uri, method)
             \/ \E host \in Hosts, chunked \in BOOLEAN, length \in Lengths : Headers(host, chunked, length)
    <3>1. CASE \E uri \in Uris, method \in Methods : RequestLine(uri, method)
      BY <1>1, <3>1 DEF RequestLine
    <3>2. CASE \E host \in Hosts, chunked \in BOOLEAN, length \in Lengths : Headers(host, chunked, length)
      BY <1>1, <3>2 DEF Headers
    <3>3. CASE NextRequest \/ Close \/ \E i \in DOMAIN servers : Accept(i)
      BY <1>1, <3>3 DEF NextRequest, Close, Accept
    <3>4. QED
      BY <2>1, <3>1, <3>2, <3>3
  <2>2. CASE UNCHANGED vars
    BY <1>1, <2>2 DEF vars
  <2>3. QED
    BY <1>1, <2>1, <2>2, HandleAllowed DEF Next
<1> DEFINE Change == files' # files => Allowed
<1>2. RouteInv /\ PathInv /\ [Next]_vars => [Change]_vars
  BY <1>1
<1>3. [][Change]_vars => ChangesAllowed
  <2>1. Change => (files' # files =>
           LET l == answer'.location
               place == answer'.place
           IN  /\ l.methods # {} => request.method \in l.methods
               /\ Covers(l.path, request'.path)
               /\ ~l.redirect
               /\ \/ /\ request.method = "POST" /\ answer'.code \in {201, 500}
                     /\ files' = files \cup {place}
                     /\ [place EXCEPT !.names = Front(@)] = l.upload
                  \/ /\ request.method = "DELETE" /\ answer'.code = 204
                     /\ files' = files \ {place}
                     /\ IsAt(place, l, request'.path))
    BY DEF Allowed
  <2>2. QED
    BY <2>1, PTL DEF ChangesAllowed
<1>4. QED
  BY <1>2, <1>3, RouteAgrees, PathsClean, PTL DEF Spec

-----------------------------------------------------------------------------
(* What normalizePath collapses. *)

\* The names that each name of a path leaves.
Counted(t) == IF t = "." THEN 0 ELSE IF t = ".." THEN -1 ELSE 1

\* One segment further, the balance changes by what that segment counts.
LEMMA BalanceStep ==
  ASSUME NEW s, NEW i \in Nat, NEW j \in Nat, i <= j + 1
  PROVE  Balance(s, i, j) \in Int /\ Balance(s, i, j + 1) = Balance(s, i, j) + Counted(s[j + 1])
<1> DEFINE A(m) == {k \in i .. m : s[k] \notin {".", ".."}}
           B(m) == {k \in i .. m : s[k] = ".."}
           a == Cardinality(A(j))
           b == Cardinality(B(j))
<1>1. IsFiniteSet(i .. j)
  BY FS_Interval
<1>2. A(j) \in SUBSET (i .. j) /\ B(j) \in SUBSET (i .. j)
  OBVIOUS
<1>3. IsFiniteSet(A(j)) /\ IsFiniteSet(B(j))
  BY <1>1, <1>2, FS_Subset
<1>4. a \in Nat /\ b \in Nat
  BY <1>3, FS_CardinalityType
<1>5. i .. j + 1 = (i .. j) \cup {j + 1} /\ j + 1 \notin i .. j
  OBVIOUS
<1>6. j + 1 \notin A(j) /\ j + 1 \notin B(j)
  BY <1>5
<1>7. A(j + 1) = IF s[j + 1] \notin {".", ".."} THEN A(j) \cup {j + 1} ELSE A(j)
  BY <1>5
<1>8. B(j + 1) = IF s[j + 1] = ".." THEN B(j) \cup {j + 1} ELSE B(j)
  BY <1>5
<1>9. Balance(s, i, j) = a - b /\ Balance(s, i, j + 1) = Cardinality(A(j + 1)) - Cardinality(B(j + 1))
  BY DEF Balance
<1> HIDE DEF A, B
<1>10. /\ Cardinality(A(j) \cup {j + 1}) = a + 1
       /\ Cardinality(B(j) \cup {j + 1}) = b + 1
  BY <1>3, <1>6, FS_AddElement
<1>11. /\ Cardinality(A(j + 1)) = IF s[j + 1] \notin {".", ".."} THEN a + 1 ELSE a
       /\ Cardinality(B(j + 1)) = IF s[j + 1] = ".." THEN b + 1 ELSE b
  BY <1>7, <1>8, <1>10
<1> HIDE DEF a, b
<1>12. Balance(s, i, j) \in Int
  BY <1>4, <1>9
<1>13. CASE s[j + 1] = "."
  BY <1>4, <1>9, <1>11, <1>13 DEF Counted
<1>14. CASE s[j + 1] = ".."
  BY <1>4, <1>9, <1>11, <1>14 DEF Counted
<1>15. CASE s[j + 1] \notin {".", ".."}
  BY <1>4, <1>9, <1>11, <1>15 DEF Counted
<1>16. QED
  BY <1>12, <1>13, <1>14, <1>15

\* Of no segments the balance is 0.
LEMMA BalanceEmpty ==
  ASSUME NEW s, NEW j \in Nat
  PROVE  Balance(s, j + 1, j) = 0
<1>1. \A T : {k \in (j + 1) .. j : k \in T} = {}
  OBVIOUS
<1>2. {k \in (j + 1) .. j : s[k] \notin {".", ".."}} = {} /\ {k \in (j + 1) .. j : s[k] = ".."} = {}
  OBVIOUS
<1>3. Balance(s, j + 1, j) = Cardinality({}) - Cardinality({})
  BY <1>2 DEF Balance
<1>4. QED
  BY <1>3, FS_EmptySet

\* An increasing enumeration has each rank once.
Increasing(h, n) ==
  /\ \A a \in 1 .. n : h[a] \in Nat
  /\ \A a, b \in 1 .. n : a < b => h[a] < h[b]

\* So its first m numbers are m.
LEMMA RankIs ==
  ASSUME NEW n \in Nat, NEW h, Increasing(h, n)
  PROVE  \A m \in 0 .. n : Cardinality({h[a] : a \in 1 .. m}) = m
<1> DEFINE T(m) == {h[a] : a \in 1 .. m}
           S == {m \in Nat : m <= n => IsFiniteSet(T(m)) /\ Cardinality(T(m)) = m}
<1>1. 0 \in S
  <2>1. T(0) = {}
    OBVIOUS
  <2>2. QED
    BY <2>1, FS_EmptySet
<1>2. ASSUME NEW m \in Nat, m \in S PROVE m + 1 \in S
  <2>1. SUFFICES ASSUME m + 1 <= n PROVE IsFiniteSet(T(m + 1)) /\ Cardinality(T(m + 1)) = m + 1
    OBVIOUS
  <2>2. IsFiniteSet(T(m)) /\ Cardinality(T(m)) = m
    BY <1>2, <2>1
  <2>3. h[m + 1] \notin T(m)
    <3>1. SUFFICES ASSUME NEW a \in 1 .. m, h[a] = h[m + 1] PROVE FALSE
      OBVIOUS
    <3>2. a \in 1 .. n /\ m + 1 \in 1 .. n /\ a < m + 1
      BY <2>1
    <3>3. h[a] < h[m + 1] /\ h[a] \in Nat
      BY <3>2 DEF Increasing
    <3>4. QED
      BY <3>1, <3>3
  <2>4. T(m + 1) = T(m) \cup {h[m + 1]}
    <3>1. 1 .. m + 1 = (1 .. m) \cup {m + 1}
      OBVIOUS
    <3>2. QED
      BY <3>1
  <2> HIDE DEF T
  <2>5. QED
    BY <2>2, <2>3, <2>4, FS_AddElement
<1> HIDE DEF S, T
<1>3. \A m \in Nat : m \in S
  BY <1>1, <1>2, NatSet
<1>4. ASSUME NEW m \in 0 .. n PROVE Cardinality(T(m)) = m
  <2>1. m \in Nat /\ m <= n
    OBVIOUS
  <2>2. QED
    BY <1>3, <2>1 DEF S
<1>5. QED
  BY <1>4 DEF T

\* The names of s that remain at k, and h, where the walk has them from: the
\* a-th is followed by as many as are still to come.
Stays(s, i, k) == s[i] \notin {".", ".."} /\ \A j \in i .. k : Balance(s, i, j) > 0
Has(s, k, names, h) ==
  LET n == Len(names)
  IN  /\ n = Balance(s, 1, k)
      /\ \A a \in 1 .. n : h[a] \in 1 .. k /\ names[a] = s[h[a]] /\ Balance(s, h[a], k) = n - a + 1
      /\ Increasing(h, n)
      /\ \A i \in 1 .. k : Stays(s, i, k) <=> \E a \in 1 .. n : h[a] = i

\* A name that remains does so while the balance from it is positive.
LEMMA StaysStep ==
  ASSUME NEW s, NEW k \in Nat, NEW i \in 1 .. k
  PROVE  Stays(s, i, k + 1) <=> Stays(s, i, k) /\ Balance(s, i, k) + Counted(s[k + 1]) > 0
<1>1. Balance(s, i, k + 1) = Balance(s, i, k) + Counted(s[k + 1])
  BY BalanceStep
<1>2. \A j : j \in i .. k + 1 <=> j \in i .. k \/ j = k + 1
  OBVIOUS
<1>3. QED
  BY <1>1, <1>2 DEF Stays

\* The last segment remains if it is a name.
LEMMA StaysLast ==
  ASSUME NEW s, NEW k \in Nat
  PROVE  Stays(s, k + 1, k + 1) <=> s[k + 1] \notin {".", ".."}
<1>1. Balance(s, k + 1, k + 1) = 0 + Counted(s[k + 1])
  <2> DEFINE i == k + 1
  <2>1. i \in Nat /\ i <= k + 1
    OBVIOUS
  <2>2. Balance(s, i, k) = 0
    BY BalanceEmpty
  <2> HIDE DEF i
  <2>3. Balance(s, i, k + 1) = Balance(s, i, k) + Counted(s[k + 1])
    BY <2>1, BalanceStep
  <2>4. QED
    BY <2>2, <2>3 DEF i
<1>2. \A j \in (k + 1) .. (k + 1) : j = k + 1
  OBVIOUS
<1>3. s[k + 1] \notin {".", ".."} => Counted(s[k + 1]) = 1
  BY DEF Counted
<1>4. s[k + 1] \notin {".", ".."} => Balance(s, k + 1, k + 1) > 0
  BY <1>1, <1>3
<1>5. QED
  BY <1>2, <1>4 DEF Stays

\* A name is kept, "." is not, and ".." takes away the last one kept.
LEMMA HasMore ==
  ASSUME NEW s, NEW k \in Nat, NEW T, NEW names \in Seq(T), NEW h, Has(s, k, names, h)
  PROVE  /\ Balance(s, 1, k + 1) = Len(names) + Counted(s[k + 1])
         /\ \A a \in 1 .. Len(names) :
              Balance(s, h[a], k + 1) = Len(names) - a + 1 + Counted(s[k + 1])
<1> DEFINE n == Len(names)
<1>1. n \in Nat
  BY LenProperties
<1>2. /\ n = Balance(s, 1, k)
      /\ \A a \in 1 .. n : h[a] \in 1 .. k /\ Balance(s, h[a], k) = n - a + 1
  BY DEF Has
<1>3. Balance(s, 1, k + 1) = n + Counted(s[k + 1])
  <2>1. Balance(s, 1, k + 1) = Balance(s, 1, k) + Counted(s[k + 1])
    BY BalanceStep
  <2>2. QED
    BY <1>2, <2>1
<1> HIDE DEF n
<1>4. ASSUME NEW a \in 1 .. n PROVE Balance(s, h[a], k + 1) = n - a + 1 + Counted(s[k + 1])
  <2>1. h[a] \in Nat /\ h[a] <= k + 1
    BY <1>2
  <2>2. Balance(s, h[a], k + 1) = Balance(s, h[a], k) + Counted(s[k + 1])
    BY <2>1, BalanceStep
  <2>3. QED
    BY <1>2, <2>2
<1>5. QED
  BY <1>3, <1>4 DEF n

\* A dot changes nothing.
LEMMA HasSkip ==
  ASSUME NEW s, NEW k \in Nat, NEW T, NEW names \in Seq(T), NEW h, Has(s, k, names, h), s[k + 1] = "."
  PROVE  Has(s, k + 1, names, h)
<1> DEFINE n == Len(names)
<1>1. /\ n \in Nat /\ Counted(s[k + 1]) = 0
      /\ Balance(s, 1, k + 1) = n + Counted(s[k + 1])
      /\ \A a \in 1 .. n : Balance(s, h[a], k + 1) = n - a + 1 + Counted(s[k + 1])
  BY HasMore, LenProperties DEF Counted
<1>2. /\ \A a \in 1 .. n : h[a] \in 1 .. k /\ names[a] = s[h[a]] /\ Balance(s, h[a], k) = n - a + 1
      /\ Increasing(h, n)
      /\ \A i \in 1 .. k : Stays(s, i, k) <=> \E a \in 1 .. n : h[a] = i
  BY DEF Has
<1> HIDE DEF n
<1>3. ASSUME NEW i \in 1 .. k + 1
      PROVE  Stays(s, i, k + 1) <=> \E a \in 1 .. n : h[a] = i
  <2>1. CASE i = k + 1
    <3>1. ~Stays(s, i, k + 1)
      BY <2>1, StaysLast
    <3>2. \A a \in 1 .. n : h[a] # i
      BY <1>2, <2>1
    <3>3. QED
      BY <3>1, <3>2
  <2>2. CASE i \in 1 .. k
    <3>1. Stays(s, i, k + 1) <=> Stays(s, i, k) /\ Balance(s, i, k) + 0 > 0
      BY <1>1, <2>2, StaysStep
    <3>2. ASSUME NEW a \in 1 .. n, h[a] = i PROVE Balance(s, i, k) + 0 > 0
      <4>1. Balance(s, i, k) = n - a + 1
        BY <1>2, <3>2
      <4>2. QED
        BY <1>1, <4>1
    <3>3. QED
      BY <1>2, <2>2, <3>1, <3>2
  <2>3. QED
    BY <2>1, <2>2
<1>4. \A a \in 1 .. n : h[a] \in 1 .. k + 1 /\ names[a] = s[h[a]] /\ Balance(s, h[a], k + 1) = n - a + 1
  BY <1>1, <1>2
<1>5. n = Balance(s, 1, k + 1)
  BY <1>1
<1>6. QED
  BY <1>2, <1>3, <1>4, <1>5 DEF Has, n

\* A name is one more that remains.
LEMMA HasPush ==
  ASSUME NEW s, NEW k \in Nat, NEW T, NEW names \in Seq(T), NEW h, Has(s, k, names, h),
         s[k + 1] \in T, s[k + 1] \notin {".", ".."}
  PROVE  LET n == Len(names)
         IN  Has(s, k + 1, Append(names, s[k + 1]),
                 [a \in 1 .. n + 1 |-> IF a = n + 1 THEN k + 1 ELSE h[a]])
<1> DEFINE n == Len(names)
           f == [a \in 1 .. n + 1 |-> IF a = n + 1 THEN k + 1 ELSE h[a]]
           t == Append(names, s[k + 1])
<1>1. /\ n \in Nat /\ Counted(s[k + 1]) = 1
      /\ Balance(s, 1, k + 1) = n + Counted(s[k + 1])
      /\ \A a \in 1 .. n : Balance(s, h[a], k + 1) = n - a + 1 + Counted(s[k + 1])
  BY HasMore, LenProperties DEF Counted
<1>2. /\ \A a \in 1 .. n : h[a] \in 1 .. k /\ names[a] = s[h[a]] /\ Balance(s, h[a], k) = n - a + 1
      /\ Increasing(h, n)
      /\ \A i \in 1 .. k : Stays(s, i, k) <=> \E a \in 1 .. n : h[a] = i
  BY DEF Has
<1>3. Len(t) = n + 1 /\ t[n + 1] = s[k + 1] /\ \A a \in 1 .. n : t[a] = names[a]
  BY AppendProperties
<1>4. Balance(s, k + 1, k + 1) = 1
  <2> DEFINE i == k + 1
  <2>1. i \in Nat /\ i <= k + 1
    OBVIOUS
  <2>2. Balance(s, i, k) = 0
    BY BalanceEmpty
  <2> HIDE DEF i
  <2>3. Balance(s, i, k + 1) = Balance(s, i, k) + Counted(s[k + 1])
    BY <2>1, BalanceStep
  <2>4. QED
    BY <1>1, <2>2, <2>3 DEF i
<1> HIDE DEF n, t
<1>5. /\ f[n + 1] = k + 1
      /\ \A a \in 1 .. n : f[a] = h[a]
  BY <1>1
<1> HIDE DEF f
<1>6. ASSUME NEW a \in 1 .. n + 1
      PROVE  f[a] \in 1 .. k + 1 /\ t[a] = s[f[a]] /\ Balance(s, f[a], k + 1) = (n + 1) - a + 1
  <2>1. CASE a = n + 1
    BY <1>1, <1>3, <1>4, <1>5, <2>1
  <2>2. CASE a \in 1 .. n
    <3>1. f[a] = h[a] /\ h[a] \in 1 .. k /\ t[a] = s[h[a]]
      BY <1>2, <1>3, <1>5, <2>2
    <3>2. Balance(s, h[a], k + 1) = n - a + 1 + 1
      BY <1>1, <2>2
    <3>3. n - a + 1 + 1 = (n + 1) - a + 1
      BY <1>1
    <3>4. QED
      BY <3>1, <3>2, <3>3
  <2>3. QED
    BY <1>1, <2>1, <2>2
<1>7. Increasing(f, n + 1)
  <2>1. ASSUME NEW a \in 1 .. n + 1, NEW b \in 1 .. n + 1, a < b PROVE f[a] < f[b]
    <3>1. a \in 1 .. n
      BY <1>1, <2>1
    <3>2. CASE b = n + 1
      BY <1>2, <1>5, <3>1, <3>2
    <3>3. CASE b \in 1 .. n
      BY <1>2, <1>5, <2>1, <3>1, <3>3 DEF Increasing
    <3>4. QED
      BY <1>1, <3>2, <3>3
  <2>2. QED
    BY <1>6, <2>1 DEF Increasing
<1>8. ASSUME NEW i \in 1 .. k + 1
      PROVE  Stays(s, i, k + 1) <=> \E a \in 1 .. n + 1 : f[a] = i
  <2>1. CASE i = k + 1
    <3>1. Stays(s, i, k + 1)
      BY <2>1, StaysLast
    <3>2. n + 1 \in 1 .. n + 1
      BY <1>1
    <3>3. QED
      BY <1>5, <2>1, <3>1, <3>2
  <2>2. CASE i \in 1 .. k
    <3>1. Stays(s, i, k + 1) <=> Stays(s, i, k) /\ Balance(s, i, k) + 1 > 0
      BY <1>1, <2>2, StaysStep
    <3>2. ASSUME NEW a \in 1 .. n, h[a] = i PROVE Balance(s, i, k) + 1 > 0
      <4>1. Balance(s, i, k) = n - a + 1
        BY <1>2, <3>2
      <4>2. QED
        BY <1>1, <4>1
    <3>3. (\E a \in 1 .. n + 1 : f[a] = i) <=> \E a \in 1 .. n : h[a] = i
      <4>1. f[n + 1] # i
        BY <1>5, <2>2
      <4>2. \A a \in 1 .. n + 1 : a = n + 1 \/ a \in 1 .. n
        BY <1>1
      <4>3. \A a \in 1 .. n : a \in 1 .. n + 1
        BY <1>1
      <4>4. QED
        BY <1>5, <4>1, <4>2, <4>3
    <3>4. QED
      BY <1>2, <2>2, <3>1, <3>2, <3>3
  <2>3. QED
    BY <2>1, <2>2
<1>9. n + 1 = Balance(s, 1, k + 1)
  BY <1>1
<1>10. QED
  BY <1>3, <1>6, <1>7, <1>8, <1>9 DEF Has, f, n, t

\* Two dots take the last that remains away.
LEMMA HasPop ==
  ASSUME NEW s, NEW k \in Nat, NEW T, NEW names \in Seq(T), NEW h, Has(s, k, names, h),
         s[k + 1] = "..", names # <<>>
  PROVE  Has(s, k + 1, Front(names), h)
<1> DEFINE n == Len(names)
           m == n - 1
           t == Front(names)
<1>1. /\ n \in Nat /\ n # 0 /\ Counted(s[k + 1]) = -1
      /\ Balance(s, 1, k + 1) = n + Counted(s[k + 1])
      /\ \A a \in 1 .. n : Balance(s, h[a], k + 1) = n - a + 1 + Counted(s[k + 1])
  <2>1. Counted(s[k + 1]) = -1
    BY DEF Counted
  <2>2. QED
    BY <2>1, HasMore, LenProperties, EmptySeq
<1>2. /\ \A a \in 1 .. n : h[a] \in 1 .. k /\ names[a] = s[h[a]] /\ Balance(s, h[a], k) = n - a + 1
      /\ Increasing(h, n)
      /\ \A i \in 1 .. k : Stays(s, i, k) <=> \E a \in 1 .. n : h[a] = i
  BY DEF Has
<1>3. Len(t) = m /\ \A a \in 1 .. m : t[a] = names[a]
  BY FrontTyped
<1> HIDE DEF n, t
<1>4. m \in Nat /\ \A a \in 1 .. m : a \in 1 .. n
  BY <1>1
<1>5. ASSUME NEW a \in 1 .. m
      PROVE  h[a] \in 1 .. k + 1 /\ t[a] = s[h[a]] /\ Balance(s, h[a], k + 1) = m - a + 1
  <2>1. Balance(s, h[a], k + 1) = n - a + 1 + (-1)
    BY <1>1, <1>4
  <2>2. n - a + 1 + (-1) = m - a + 1
    BY <1>1
  <2>3. h[a] \in 1 .. k /\ t[a] = s[h[a]]
    BY <1>2, <1>3, <1>4
  <2>4. QED
    BY <2>1, <2>2, <2>3
<1>6. Increasing(h, m)
  BY <1>2, <1>4 DEF Increasing
<1>7. ASSUME NEW i \in 1 .. k + 1
      PROVE  Stays(s, i, k + 1) <=> \E a \in 1 .. m : h[a] = i
  <2>1. CASE i = k + 1
    <3>1. ~Stays(s, i, k + 1)
      BY <2>1, StaysLast
    <3>2. \A a \in 1 .. m : h[a] # i
      BY <1>2, <1>4, <2>1
    <3>3. QED
      BY <3>1, <3>2
  <2>2. CASE i \in 1 .. k
    <3>1. Stays(s, i, k + 1) <=> Stays(s, i, k) /\ Balance(s, i, k) + (-1) > 0
      BY <1>1, <2>2, StaysStep
    <3>2. ASSUME NEW a \in 1 .. n, h[a] = i
          PROVE  Balance(s, i, k) + (-1) > 0 <=> a \in 1 .. m
      <4>1. Balance(s, i, k) = n - a + 1
        BY <1>2, <3>2
      <4>2. QED
        BY <1>1, <4>1
    <3>3. ASSUME NEW a \in 1 .. n, NEW b \in 1 .. n, h[a] = h[b] PROVE a = b
      <4>1. ~(a < b) /\ ~(b < a)
        BY <1>2, <3>3 DEF Increasing
      <4>2. QED
        BY <4>1
    <3>4. QED
      BY <1>2, <1>4, <2>2, <3>1, <3>2, <3>3
  <2>3. QED
    BY <2>1, <2>2
<1>8. m = Balance(s, 1, k + 1)
  BY <1>1
<1>9. QED
  BY <1>3, <1>5, <1>6, <1>7, <1>8 DEF Has, t

\* The cases of one segment of normalizePath.
LEMMA WalkIs ==
  ASSUME NEW x \in Walks, x.ok, NEW t \in STRING \ {"/"}
  PROVE  /\ Walk(x, t) \in Walks
         /\ t = "." => Walk(x, t) = x
         /\ t \notin {".", ".."} =>
              Walk(x, t).ok /\ Walk(x, t).segments = Append(x.segments, t)
         /\ t = ".." /\ x.segments = <<>> => ~Walk(x, t).ok
         /\ t = ".." /\ x.segments # <<>> =>
              Walk(x, t).ok /\ Walk(x, t).segments = Front(x.segments)
<1>1. Walk(x, t) \in Walks
  BY WalkTyped
<1>2. CASE t = "."
  BY <1>1, <1>2 DEF Walk
<1>3. CASE t \notin {".", ".."}
  <2>1. Walk(x, t) = [x EXCEPT !.segments = Append(x.segments, t)]
    BY <1>3 DEF Walk
  <2>2. Walk(x, t).ok /\ Walk(x, t).segments = Append(x.segments, t)
    BY <2>1 DEF Walks
  <2>3. QED
    BY <1>1, <1>3, <2>2
<1>4. CASE t = ".." /\ x.segments = <<>>
  <2>1. Walk(x, t) = [x EXCEPT !.ok = FALSE]
    BY <1>4 DEF Walk
  <2>2. ~Walk(x, t).ok
    BY <2>1 DEF Walks
  <2>3. QED
    BY <1>1, <1>4, <2>2
<1>5. CASE t = ".." /\ x.segments # <<>>
  <2>1. Walk(x, t) = [x EXCEPT !.segments = Front(x.segments)]
    BY <1>5 DEF Walk
  <2>2. Walk(x, t).ok /\ Walk(x, t).segments = Front(x.segments)
    BY <2>1 DEF Walks
  <2>3. QED
    BY <1>1, <1>5, <2>2
<1>6. QED
  BY <1>2, <1>3, <1>4, <1>5

\* The walk ends just where a ".." leaves the root; until then it has what
\* remains.
Left(s, k) == \E j \in 1 .. k : Balance(s, 1, j) < 0
Kept(s, k, x) == IF Left(s, k) THEN ~x.ok ELSE x.ok /\ \E h : Has(s, k, x.segments, h)

\* One segment further.
LEMMA KeptStep ==
  ASSUME NEW s, NEW k \in Nat, NEW x \in Walks, Kept(s, k, x), s[k + 1] \in STRING \ {"/"}
  PROVE  Kept(s, k + 1, Walk(x, s[k + 1]))
<1> DEFINE t == s[k + 1]
           y == Walk(x, t)
           names == x.segments
<1>1. Left(s, k + 1) <=> Left(s, k) \/ Balance(s, 1, k + 1) < 0
  <2>1. \A j : j \in 1 .. k + 1 <=> j \in 1 .. k \/ j = k + 1
    OBVIOUS
  <2>2. QED
    BY <2>1 DEF Left
<1>2. CASE Left(s, k)
  <2>1. ~x.ok
    BY <1>2 DEF Kept
  <2>2. y = x
    BY <2>1 DEF Walk
  <2>3. QED
    BY <1>1, <1>2, <2>1, <2>2 DEF Kept
<1>3. CASE ~Left(s, k)
  <2>1. x.ok
    BY <1>3 DEF Kept
  <2>2. PICK h : Has(s, k, names, h)
    BY <1>3 DEF Kept
  <2>3. names \in Seq(STRING)
    BY SeqMonotonic DEF Walks, Names
  <2>4. Balance(s, 1, k + 1) = Len(names) + Counted(t) /\ Len(names) \in Nat
    BY <2>2, <2>3, HasMore, LenProperties
  <2> HIDE DEF names
  <2>5. /\ t = "." => y = x
        /\ t \notin {".", ".."} => y.ok /\ y.segments = Append(names, t)
        /\ t = ".." /\ names = <<>> => ~y.ok
        /\ t = ".." /\ names # <<>> => y.ok /\ y.segments = Front(names)
    BY <2>1, WalkIs DEF names
  <2> HIDE DEF y
  <2>6. CASE t = "."
    <3>1. ~(Balance(s, 1, k + 1) < 0)
      BY <2>4, <2>6 DEF Counted
    <3>2. Has(s, k + 1, names, h)
      BY <2>2, <2>3, <2>6, HasSkip
    <3>3. y.segments = names /\ y.ok
      BY <2>1, <2>5, <2>6 DEF names
    <3>4. QED
      BY <1>1, <1>3, <3>1, <3>2, <3>3 DEF Kept, y
  <2>7. CASE t \notin {".", ".."}
    <3>1. ~(Balance(s, 1, k + 1) < 0)
      BY <2>4, <2>7 DEF Counted
    <3>2. \E f : Has(s, k + 1, Append(names, t), f)
      BY <2>2, <2>3, <2>7, HasPush
    <3>3. QED
      BY <1>1, <1>3, <2>5, <2>7, <3>1, <3>2 DEF Kept, y
  <2>8. CASE t = ".." /\ names = <<>>
    <3>1. Len(names) = 0
      BY <2>8, EmptySeq
    <3>2. Balance(s, 1, k + 1) < 0
      BY <2>4, <2>8, <3>1 DEF Counted
    <3>3. QED
      BY <1>1, <2>5, <2>8, <3>2 DEF Kept, y
  <2>9. CASE t = ".." /\ names # <<>>
    <3>1. Len(names) # 0
      BY <2>3, <2>9, EmptySeq
    <3>2. ~(Balance(s, 1, k + 1) < 0)
      BY <2>4, <2>9, <3>1 DEF Counted
    <3>3. Has(s, k + 1, Front(names), h)
      BY <2>2, <2>3, <2>9, HasPop
    <3>4. QED
      BY <1>1, <1>3, <2>5, <2>9, <3>2, <3>3 DEF Kept, y
  <2>10. QED
    BY <2>6, <2>7, <2>8, <2>9
<1>4. QED
  BY <1>2, <1>3

\* The walk over a whole path has what remains, or has ended.
LEMMA WalkKeeps ==
  ASSUME NEW s \in Seq(STRING \ {"/"})
  PROVE  Kept(s, Len(s), FoldLeft(Walk, Start, s))
<1>1. PICK g : WalkBy(s, g)
  BY WalkRun
<1> DEFINE n == Len(s)
           S == {k \in Nat : k <= n => Kept(s, k, g[k])}
<1>2. n \in Nat /\ \A k \in 1 .. n : s[k] \in STRING \ {"/"}
  BY LenProperties, ElementOfSeq
<1>3. /\ g[0] = Start /\ FoldLeft(Walk, Start, s) = g[n]
      /\ \A i \in 1 .. n : g[i] = Walk(g[i - 1], s[i])
      /\ \A i \in 0 .. n : g[i] \in Walks
  BY <1>1 DEF WalkBy
<1> HIDE DEF n
<1>4. 0 \in S
  <2> DEFINE h == <<>>
  <2>1. ~Left(s, 0)
    BY DEF Left
  <2>2. Start.ok /\ Start.segments = <<>> /\ Len(<<>>) = 0
    BY EmptySeq DEF Start
  <2>3. Balance(s, 1, 0) = 0
    BY BalanceEmpty
  <2>4. Has(s, 0, <<>>, h)
    BY <2>2, <2>3 DEF Has, Increasing
  <2>5. QED
    BY <1>3, <2>1, <2>2, <2>4 DEF Kept
<1>5. ASSUME NEW k \in Nat, k \in S PROVE k + 1 \in S
  <2>1. SUFFICES ASSUME k + 1 <= n PROVE Kept(s, k + 1, g[k + 1])
    OBVIOUS
  <2>2. k + 1 \in 1 .. n /\ (k + 1) - 1 = k /\ k \in 0 .. n /\ Kept(s, k, g[k])
    BY <1>2, <1>5, <2>1
  <2>3. g[k + 1] = Walk(g[k], s[k + 1]) /\ g[k] \in Walks /\ s[k + 1] \in STRING \ {"/"}
    BY <1>2, <1>3, <2>2
  <2>4. QED
    BY <2>2, <2>3, KeptStep
<1> HIDE DEF S
<1>6. \A k \in Nat : k \in S
  BY <1>4, <1>5, NatSet
<1>7. QED
  BY <1>2, <1>3, <1>6 DEF S, n

\* What the walk has of plain names is these names.
LEMMA WalkSame ==
  ASSUME NEW s \in Seq(Names)
  PROVE  FoldLeft(Walk, Start, s).ok /\ FoldLeft(Walk, Start, s).segments = s
<1> DEFINE n == Len(s)
<1>1. s \in Seq(STRING \ {"/"}) /\ n \in Nat /\ \A i \in 1 .. n : s[i] \in Names
  BY SeqMonotonic, LenProperties, ElementOfSeq DEF Names
<1>2. PICK g : WalkBy(s, g)
  BY <1>1, WalkRun
<1> DEFINE Good(k) == /\ g[k].ok /\ Len(g[k].segments) = k
                      /\ \A a \in 1 .. k : g[k].segments[a] = s[a]
           S == {k \in Nat : k <= n => Good(k)}
<1>3. /\ g[0] = Start /\ FoldLeft(Walk, Start, s) = g[n]
      /\ \A i \in 1 .. n : g[i] = Walk(g[i - 1], s[i])
      /\ \A i \in 0 .. n : g[i] \in Walks
  BY <1>2 DEF WalkBy
<1> HIDE DEF n
<1>4. 0 \in S
  <2>1. Start.ok /\ Len(Start.segments) = 0
    BY EmptySeq DEF Start
  <2>2. QED
    BY <1>3, <2>1
<1>5. ASSUME NEW k \in Nat, k \in S PROVE k + 1 \in S
  <2>1. SUFFICES ASSUME k + 1 <= n PROVE Good(k + 1)
    OBVIOUS
  <2> DEFINE names == g[k].segments
             t == s[k + 1]
  <2>2. k + 1 \in 1 .. n /\ (k + 1) - 1 = k /\ k \in 0 .. n /\ Good(k)
    BY <1>1, <1>5, <2>1
  <2>3. g[k + 1] = Walk(g[k], t) /\ g[k] \in Walks /\ t \in Names
    BY <1>1, <1>3, <2>2
  <2>4. names \in Seq(Names)
    BY <2>3 DEF Walks
  <2>5. t \in STRING \ {"/"} /\ t \notin {".", ".."}
    BY <2>3 DEF Names
  <2>6. g[k + 1].ok /\ g[k + 1].segments = Append(names, t)
    <3> DEFINE x == g[k]
    <3>1. x \in Walks /\ x.ok
      BY <2>2, <2>3
    <3> HIDE DEF x, t
    <3>2. Walk(x, t).ok /\ Walk(x, t).segments = Append(x.segments, t)
      BY <2>5, <3>1, WalkIs
    <3>3. QED
      BY <2>3, <3>2 DEF x, t
  <2>7. /\ Len(Append(names, t)) = k + 1 /\ Append(names, t)[k + 1] = t
        /\ \A a \in 1 .. k : Append(names, t)[a] = names[a]
    BY <2>2, <2>3, <2>4, AppendProperties
  <2>8. \A a \in 1 .. k + 1 : a \in 1 .. k \/ a = k + 1
    OBVIOUS
  <2> HIDE DEF names
  <2>9. \A a \in 1 .. k : names[a] = s[a]
    BY <2>2 DEF names
  <2>10. QED
    BY <2>6, <2>7, <2>8, <2>9
<1> HIDE DEF S
<1>6. \A k \in Nat : k \in S
  BY <1>4, <1>5, NatSet
<1>7. Good(n) /\ g[n] \in Walks
  BY <1>1, <1>3, <1>6 DEF S
<1>8. g[n].segments \in Seq(Names)
  BY <1>7 DEF Walks
<1>9. g[n].segments = s
  BY <1>7, <1>8, SeqEqual DEF n
<1>10. QED
  BY <1>3, <1>7, <1>9

-----------------------------------------------------------------------------
(* normalizePath is right. *)

\* What the walk has are the names that remain, in their order.
LEMMA HasRemaining ==
  ASSUME NEW s \in Seq(STRING \ {"/"}), NEW names \in Seq(STRING), NEW h, Has(s, Len(s), names, h)
  PROVE  LET kept == Remaining(s)
         IN  /\ Len(names) = Cardinality(kept)
             /\ \A i \in kept : names[Cardinality({j \in kept : j <= i})] = s[i]
<1> DEFINE m == Len(s)
           n == Len(names)
           kept == Remaining(s)
<1>1. m \in Nat /\ n \in Nat /\ DOMAIN s = 1 .. m
  BY LenProperties
<1>2. /\ \A a \in 1 .. n : h[a] \in 1 .. m /\ names[a] = s[h[a]]
      /\ Increasing(h, n)
      /\ \A i \in 1 .. m : Stays(s, i, m) <=> \E a \in 1 .. n : h[a] = i
  BY DEF Has
<1>3. kept = {i \in 1 .. m : Stays(s, i, m)}
  BY <1>1 DEF Remaining, Stays
<1> HIDE DEF m, n, kept
<1>4. kept = {h[a] : a \in 1 .. n}
  <2>1. ASSUME NEW i \in kept PROVE i \in {h[a] : a \in 1 .. n}
    BY <1>2, <1>3
  <2>2. ASSUME NEW a \in 1 .. n PROVE h[a] \in kept
    BY <1>2, <1>3
  <2>3. QED
    BY <2>1, <2>2
<1>5. \A a \in 0 .. n : Cardinality({h[b] : b \in 1 .. a}) = a
  BY <1>1, <1>2, RankIs
<1>6. n = Cardinality(kept)
  BY <1>1, <1>4, <1>5
<1>7. ASSUME NEW i \in kept PROVE names[Cardinality({j \in kept : j <= i})] = s[i]
  <2>1. PICK a \in 1 .. n : h[a] = i
    BY <1>4
  <2>2. {j \in kept : j <= i} = {h[b] : b \in 1 .. a}
    <3>1. ASSUME NEW j \in kept, j <= i PROVE j \in {h[b] : b \in 1 .. a}
      <4>1. PICK b \in 1 .. n : h[b] = j
        BY <1>4
      <4>2. h[a] \in Nat /\ h[b] \in Nat /\ (a < b => h[a] < h[b])
        BY <1>2 DEF Increasing
      <4>3. ~(a < b)
        BY <2>1, <3>1, <4>1, <4>2
      <4>4. b \in 1 .. a
        BY <1>1, <4>3
      <4>5. QED
        BY <4>1, <4>4
    <3>2. ASSUME NEW b \in 1 .. a PROVE h[b] \in kept /\ h[b] <= i
      <4>1. b \in 1 .. n /\ (b < a \/ b = a)
        BY <1>1
      <4>2. h[a] \in Nat /\ h[b] \in Nat /\ (b < a => h[b] < h[a])
        BY <1>2, <4>1 DEF Increasing
      <4>3. QED
        BY <1>4, <2>1, <4>1, <4>2
    <3>3. QED
      BY <3>1, <3>2
  <2>3. Cardinality({j \in kept : j <= i}) = a
    BY <1>1, <1>5, <2>2
  <2>4. QED
    BY <1>2, <2>1, <2>3
<1>8. QED
  BY <1>6, <1>7 DEF n, kept

\* The path of some names is a slash, or has none at its end; one appended is
\* one at the end.
LEMMA PathOfEnds ==
  ASSUME NEW s \in Seq(STRING \ {"/"})
  PROVE  ~EndsWithSlash(PathOf(s)) /\ (s # <<>> => EndsWithSlash(Append(PathOf(s), "/")))
<1> DEFINE q == PathOf(s)
           n == Len(q)
           t == Append(q, "/")
<1>1. Clean(q)
  BY PathOfIs
<1> HIDE DEF q
<1>2. /\ q \in Seq(STRING) /\ n \in Nat /\ n # 0 /\ (n = 1 \/ n % 2 = 0)
      /\ \A i \in 1 .. n : q[i] = "/" <=> i % 2 = 1
  BY <1>1, LenProperties, EmptySeq DEF Clean, Regular
<1>3. t \in Seq(STRING) /\ Len(t) = n + 1 /\ t[n + 1] = "/"
  BY <1>2, SlashIs, AppendProperties
<1> HIDE DEF n, t
<1>4. ~(n > 1 /\ q[n] = "/")
  BY <1>2
<1>5. ~EndsWithSlash(q)
  BY <1>4 DEF EndsWithSlash, Last, n
<1>6. EndsWithSlash(t)
  BY <1>2, <1>3 DEF EndsWithSlash, Last
<1>7. QED
  BY <1>5, <1>6 DEF q, t

\* What is normalised once is normal.
LEMMA NormalizedTwice ==
  ASSUME NEW p \in Seq(STRING), NormalizePath(p) # <<>>
  PROVE  NormalizePath(NormalizePath(p)) = NormalizePath(p)
<1> DEFINE n == NormalizePath(p)
           s == FoldLeft(Walk, Start, SegmentsOf(p)).segments
           ends(x) == EndsWithSlash(x) /\ s # <<>>
<1>1. /\ n \in Seq(STRING) /\ SegmentsOf(n) = s /\ s \in Seq(STRING \ {"/"})
      /\ n = IF ends(p) THEN Append(PathOf(s), "/") ELSE PathOf(s)
  BY NormalizedWalk DEF Regular
<1>2. s \in Seq(Names)
  BY <1>1, NormalizedIs
<1> HIDE DEF n, s
<1>3. FoldLeft(Walk, Start, s).ok /\ FoldLeft(Walk, Start, s).segments = s
  BY <1>2, WalkSame
<1>4. NormalizePath(n) = IF ends(n) THEN Append(PathOf(s), "/") ELSE PathOf(s)
  BY <1>1, <1>3, NormalizedWalk
<1>5. ends(n) <=> ends(p)
  BY <1>1, PathOfEnds
<1>6. QED
  BY <1>1, <1>4, <1>5 DEF n

\* A path is a sequence, whatever a request line has and wherever it is
\* normalised.
PathTyped == request.path \in Seq(STRING)

\* Every step keeps the path a sequence.
LEMMA NextTyped ==
  ASSUME RouteInv, PathTyped, [Next]_vars
  PROVE  PathTyped'
<1>1. NoRequest.path \in Seq(STRING)
  BY EmptySeq DEF NoRequest
<1>2. CASE \E uri \in Uris, method \in Methods : RequestLine(uri, method)
  <2>1. PICK uri \in Uris : \E method \in Methods : RequestLine(uri, method)
    BY <1>2
  <2>2. PICK method \in Methods : RequestLine(uri, method)
    BY <2>1
  <2> DEFINE p == IF uri = <<>> THEN <<"/">> ELSE uri
  <2>3. request' = [NoRequest EXCEPT !.path = CleanPath(p), !.method = method]
    BY <2>2 DEF RequestLine
  <2>4. p \in Path /\ p # <<>>
    <3>1. <<"/">> \in Path
      BY Inputs
    <3>2. <<"/">> # <<>> /\ uri \in Path
      BY Inputs
    <3>3. QED
      BY <3>1, <3>2
  <2> HIDE DEF p
  <2>5. CleanPath(p) \in Seq(STRING)
    BY <2>4, CleanPathIs
  <2>6. QED
    BY <2>3, <2>5 DEF NoRequest, PathTyped
<1>3. CASE \E host \in Hosts, chunked \in BOOLEAN, length \in Lengths : Headers(host, chunked, length)
  <2>1. PICK host \in Hosts :
          \E chunked \in BOOLEAN, length \in Lengths : Headers(host, chunked, length)
    BY <1>3
  <2>2. PICK chunked \in BOOLEAN, length \in Lengths : Headers(host, chunked, length)
    BY <2>1
  <2>3. request' = [request EXCEPT !.host = host, !.chunked = chunked, !.length = length]
    BY <2>2 DEF Headers
  <2>4. request'.path = request.path
    BY <2>3 DEF RouteInv, Chosen
  <2>5. QED
    BY <2>4 DEF PathTyped
<1>4. CASE Handle
  <2> DEFINE n == NormalizePath(request.path)
  <2>1. n \in Seq(STRING)
    <3>1. n # <<>> => Regular(n)
      BY NormalizedIs DEF PathTyped
    <3> HIDE DEF n
    <3>2. QED
      BY <3>1, EmptySeq DEF Regular
  <2> HIDE DEF n
  <2>2. request' = [request EXCEPT !.path = n]
    BY <1>4 DEF Handle, n
  <2>3. request'.path = n
    BY <2>2 DEF RouteInv, Chosen
  <2>4. QED
    BY <2>1, <2>3 DEF PathTyped
<1>5. CASE NextRequest \/ Close
  BY <1>1, <1>5 DEF NextRequest, Close, PathTyped
<1>6. CASE \E i \in DOMAIN servers : Accept(i)
  BY <1>6 DEF Accept, PathTyped
<1>7. CASE UNCHANGED vars
  BY <1>7 DEF vars, PathTyped
<1>8. QED
  BY <1>2, <1>3, <1>4, <1>5, <1>6, <1>7 DEF Next

\* normalizePath, for paths of any length with any number of dots: it refuses
\* those that leave the root at some name, and no others; what it returns for
\* the rest are the names that no later ".." takes away, and is normal.
THEOREM NormalisationRight == Spec => []NormalizedRight
<1>1. Init => PathTyped
  BY EmptySeq DEF Init, NoRequest, PathTyped
<1>2. RouteInv /\ PathTyped /\ [Next]_vars => PathTyped'
  BY NextTyped
<1>3. ASSUME PathTyped PROVE NormalizedRight
  <2> DEFINE p == request.path
             s == SegmentsOf(p)
             n == NormalizePath(p)
             kept == Remaining(s)
             end == FoldLeft(Walk, Start, s)
  <2>1. p \in Seq(STRING)
    BY <1>3 DEF PathTyped
  <2> HIDE DEF p
  <2>2. s \in Seq(STRING \ {"/"}) /\ DOMAIN s = 1 .. Len(s)
    BY <2>1, SegmentsTyped, LenProperties
  <2>3. /\ end.segments \in Seq(STRING \ {"/"})
        /\ ~end.ok => n = <<>>
        /\ end.ok => n # <<>> /\ SegmentsOf(n) = end.segments
    BY <2>1, NormalizedWalk
  <2>4. Kept(s, Len(s), end)
    BY <2>2, WalkKeeps
  <2>5. n # <<>> => NormalizePath(n) = n
    BY <2>1, NormalizedTwice
  <2> HIDE DEF s, n, end
  <2>6. EscapesRoot(s) <=> Left(s, Len(s))
    BY <2>2 DEF EscapesRoot, Left
  <2>7. CASE Left(s, Len(s))
    <3>1. n = <<>>
      BY <2>3, <2>4, <2>7 DEF Kept
    <3>2. QED
      BY <2>6, <2>7, <3>1 DEF NormalizedRight, p, s, n
  <2>8. CASE ~Left(s, Len(s))
    <3>1. end.ok
      BY <2>4, <2>8 DEF Kept
    <3>2. PICK h : Has(s, Len(s), end.segments, h)
      BY <2>4, <2>8 DEF Kept
    <3>3. end.segments \in Seq(STRING)
      BY <2>3, SeqMonotonic
    <3>4. /\ Len(end.segments) = Cardinality(kept)
          /\ \A i \in kept : end.segments[Cardinality({j \in kept : j <= i})] = s[i]
      BY <2>2, <3>2, <3>3, HasRemaining
    <3> HIDE DEF kept
    <3>5. /\ Len(SegmentsOf(n)) = Cardinality(kept)
          /\ \A i \in kept : SegmentsOf(n)[Cardinality({j \in kept : j <= i})] = s[i]
          /\ NormalizePath(n) = n
      BY <2>3, <2>5, <3>1, <3>4
    <3>6. QED
      BY <2>6, <2>8, <3>5 DEF NormalizedRight, p, s, n, kept
  <2>9. QED
    BY <2>7, <2>8
<1>4. QED
  BY <1>1, <1>2, <1>3, RouteAgrees, PTL DEF Spec

=============================================================================
