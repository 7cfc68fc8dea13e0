------------------------ MODULE ConfigurationProofs ------------------------
(***************************************************************************)
(* Proofs about Configuration, for any vocabulary, and so for files of any *)
(* length with any number of blocks, any file system and any widths: what  *)
(* is accepted is usable, locations take their server's settings over, and *)
(* numbers are the ones that were written.                                 *)
(***************************************************************************)
EXTENDS Configuration, FiniteSetTheorems, SequenceTheorems, WellFoundedInduction, TLAPS

-----------------------------------------------------------------------------
(* Lists of blocks, and the map of interpreters. *)

\* A sequence, of whatever it has.
IsList(q) == q \in Seq(ToSet(q))

\* An element appended is one more in the list.
LEMMA ListAppend ==
  ASSUME NEW q, IsList(q), NEW e
  PROVE  IsList(Append(q, e)) /\ ToSet(Append(q, e)) = ToSet(q) \cup {e}
<1> DEFINE T == ToSet(q) \cup {e}
           p == Append(q, e)
<1>1. q \in Seq(T)
  <2>1. PICK n \in Nat : q \in [1 .. n -> ToSet(q)]
    BY SeqDef DEF IsList
  <2>2. q \in [1 .. n -> T]
    BY <2>1
  <2>3. QED
    BY <2>2, SeqDef
<1>2. e \in T
  OBVIOUS
<1> HIDE DEF T
<1>3. p \in Seq(T) /\ Len(p) = Len(q) + 1 /\ p[Len(p)] = e
      /\ \A i \in 1 .. Len(q) : p[i] = q[i]
  BY <1>1, <1>2, AppendProperties
<1>4. DOMAIN p = 1 .. Len(q) + 1 /\ DOMAIN q = 1 .. Len(q) /\ Len(q) \in Nat
  BY <1>1, <1>3, LenProperties
<1>5. ToSet(p) = ToSet(q) \cup {e}
  BY <1>3, <1>4 DEF ToSet
<1>6. QED
  BY <1>3, <1>5 DEF IsList, T

\* What is done to each element keeps the list one.
LEMMA ListMap ==
  ASSUME NEW q, IsList(q), NEW p, p = [i \in DOMAIN q |-> p[i]]
  PROVE  IsList(p) /\ Len(p) = Len(q) /\ DOMAIN p = DOMAIN q
<1>1. PICK n \in Nat : q \in [1 .. n -> ToSet(q)]
  BY SeqDef DEF IsList
<1>2. p \in [1 .. n -> ToSet(p)]
  BY <1>1 DEF ToSet
<1>3. p \in Seq(ToSet(p))
  BY <1>2, SeqDef
<1>4. QED
  BY <1>1, <1>2, <1>3, LenProperties DEF IsList

\* The list of nothing is one.
LEMMA ListEmpty ==
  IsList(<<>>) /\ ToSet(<<>>) = {}
<1>1. ToSet(<<>>) = {}
  BY DEF ToSet
<1>2. QED
  BY <1>1 DEF IsList

\* As many interpreters as extensions, none of them twice: each extension has
\* its own.
LEMMA PairedRight ==
  ASSUME NEW paths, NEW S, NEW exts \in Seq(S), Len(paths) = Len(exts),
         \A i, j \in DOMAIN exts : exts[i] = exts[j] => i = j
  PROVE  /\ DOMAIN PairedCgi(paths, exts) = ToSet(exts)
         /\ \A i \in DOMAIN exts : PairedCgi(paths, exts)[exts[i]] = paths[i]
<1>1. PairedCgi(paths, exts) =
        [e \in ToSet(exts) |-> paths[Max({i \in DOMAIN exts : exts[i] = e})]]
  BY DEF PairedCgi
<1>2. ASSUME NEW k \in DOMAIN exts
      PROVE  PairedCgi(paths, exts)[exts[k]] = paths[k]
  <2>1. k \in Nat
    BY LenProperties
  <2>2. {i \in DOMAIN exts : exts[i] = exts[k]} = {k}
    OBVIOUS
  <2>3. Max({k}) = k
    BY <2>1 DEF Max
  <2>4. exts[k] \in ToSet(exts)
    BY DEF ToSet
  <2>5. QED
    BY <1>1, <2>2, <2>3, <2>4
<1>3. QED
  BY <1>1, <1>2

\* hasPartialCGIConfig, which counts, finds an extension that is there twice.
LEMMA WholeIsPaired ==
  ASSUME NEW l, l.exts \in Seq(STRING), l.cgi = PairedCgi(l.paths, l.exts), ~PartialCgi(l)
  PROVE  /\ Len(l.paths) = Len(l.exts) /\ DOMAIN l.cgi = ToSet(l.exts)
         /\ \A i \in DOMAIN l.exts : l.cgi[l.exts[i]] = l.paths[i]
<1> DEFINE exts == l.exts
           n    == Len(exts)
<1>1. /\ Len(l.paths) = n /\ Cardinality(DOMAIN l.cgi) = Len(l.paths)
      /\ n \in Nat /\ DOMAIN exts = 1 .. n
  BY LenProperties DEF PartialCgi
<1>2. DOMAIN l.cgi = ToSet(exts)
  BY <1>1 DEF PairedCgi
<1>3. Cardinality(1 .. n) = n /\ IsFiniteSet(1 .. n)
  <2>1. 1 \in Int /\ n \in Int
    BY <1>1
  <2>2. QED
    BY <1>1, <2>1, FS_Interval
<1>4. exts \in Surjection(1 .. n, ToSet(exts))
  <2>1. exts \in [1 .. n -> ToSet(exts)]
    BY <1>1, LenProperties DEF ToSet
  <2>2. QED
    BY <1>1, <2>1 DEF Surjection, ToSet
<1> HIDE DEF exts, n
<1>5. exts \in Injection(1 .. n, ToSet(exts))
  BY <1>1, <1>2, <1>3, <1>4, FS_SurjSameCardinalityImpliesInj
<1>6. \A i, j \in DOMAIN exts : exts[i] = exts[j] => i = j
  BY <1>5 DEF Injection, IsInjective
<1>7. QED
  BY <1>1, <1>6, PairedRight DEF exts, n

\* What stands for a text that is not there is none that is.
LEMMA AbsentIsNone == \A text \in {"./www/html", "dashboard", "cgi-bin", "redirect",
                                  "uploads", "errors"} : text # Absent
BY Zenon DEF Absent

-----------------------------------------------------------------------------
(* The invariant. *)

\* What a limit is while the file is read: 0 is none yet.
Sizes == {0} \cup UsableLimits

\* The limits are numbers, and the default is one of them.
LEMMA SizesAre == Sizes \subseteq Int /\ 0 \notin UsableLimits /\ DefaultLimit \in UsableLimits
BY Widths, Limits DEF Sizes, UsableLimits, LargeLimit, ScriptLimit

\* A location being read: it has a limit, and its map of interpreters is that
\* of its lists, whichever came first.
Begun(l) ==
  /\ l = [path |-> l.path, root |-> l.root, index |-> l.index, limit |-> l.limit,
          errors |-> l.errors, methods |-> l.methods, autoindex |-> l.autoindex,
          paths |-> l.paths, exts |-> l.exts, cgi |-> l.cgi, upload |-> l.upload,
          redirect |-> l.redirect, given |-> l.given, from |-> l.from]
  /\ l.limit \in Sizes /\ l.exts \in Seq(STRING) /\ l.cgi = PairedCgi(l.paths, l.exts)

\* The same when its block has ended, and when that of its server has.
Ended(l) == Begun(l) /\ l.methods # {}
Settled(l) == Ended(l) /\ l.root # Absent /\ l.index # <<>>

\* A server being read, and when its block has ended.
ServerShape(s) ==
  /\ s = [host |-> s.host, port |-> s.port, name |-> s.name, root |-> s.root,
          index |-> s.index, limit |-> s.limit, timeout |-> s.timeout,
          errors |-> s.errors, locations |-> s.locations, given |-> s.given,
          start |-> s.start, text |-> s.text]
  /\ s.limit \in Sizes /\ IsList(s.locations)
BegunServer(s) ==
  /\ ServerShape(s)
  /\ s.port \in {-1} \cup 1 .. MaxPort /\ s.timeout \in 0 .. MaxTimeout
  /\ \A l \in ToSet(s.locations) : Ended(l)
EndedServer(s) ==
  /\ ServerShape(s)
  /\ s.port \in 1 .. MaxPort /\ s.timeout \in 1 .. MaxTimeout
  /\ s.root # Absent /\ s.index # <<>>
  /\ PathsDiffer(s.locations)
  /\ \A l \in ToSet(s.locations) : Settled(l)

BegunHttp(h) ==
  /\ h = [exists |-> h.exists, limit |-> h.limit, errors |-> h.errors, servers |-> h.servers]
  /\ h.limit \in Sizes /\ IsList(h.servers)
  /\ \A s \in ToSet(h.servers) : EndedServer(s)

ReadInv ==
  /\ words \in Vocabularies
  /\ Reading => BegunHttp(http) /\ BegunServer(server) /\ Begun(location)
  /\ AcceptedIsUsable

-----------------------------------------------------------------------------
(* What the directives do. *)

\* A size that is taken is a number of bytes, maybe 0, or out of range.
LEMMA SizeIsSize ==
  ASSUME NEW text, text.num \in Nat, text.den \in Nat \ {0}, text.unit \in Nat \ {0},
         SizeOk(text)
  PROVE  SizeOf(text) \in Sizes
<1> DEFINE bytes == text.num * text.unit
<1>1. SizeOf(text) = ToLong(bytes, text.den)
  BY DEF SizeOf, SizeOk
<1>2. bytes \in Nat
  OBVIOUS
<1> HIDE DEF bytes
<1>3. bytes \div text.den \in Nat
  BY <1>2
<1>4. SizeOf(text) \in Nat \cup {-LongMax - 1}
  BY <1>1, <1>3, Widths, Conversion DEF ToLong
<1>5. SizeOf(text) <= MaxLimit
  BY DEF SizeOk
<1>6. QED
  BY <1>4, <1>5, Limits DEF Sizes, UsableLimits

\* So it is for every statement of the vocabulary.
LEMMA StatementSize ==
  ASSUME words \in Vocabularies, NEW st \in words.statements,
         st.name = "client_max_body_size", SizeOk(st.value)
  PROVE  SizeOf(st.value) \in Sizes
BY Values, SizeIsSize

\* A directive of http keeps what http is to be.
LEMMA HttpDirective ==
  ASSUME words \in Vocabularies, NEW st \in words.statements,
         BegunHttp(http), HttpTakes(st)
  PROVE  BegunHttp(HttpWith(http, st))
<1>1. CASE st.name = "error_page"
  BY <1>1 DEF BegunHttp, HttpWith
<1>2. CASE st.name # "error_page"
  <2>1. SizeOf(st.value) \in Sizes
    BY <1>2, StatementSize DEF HttpTakes
  <2>2. QED
    BY <1>2, <2>1 DEF BegunHttp, HttpWith
<1>3. QED
  BY <1>1, <1>2

\* A directive of a server keeps ports and timeouts in their ranges.
LEMMA ServerDirective ==
  ASSUME words \in Vocabularies, NEW st \in words.statements,
         BegunServer(server), ServerTakes(server, st)
  PROVE  BegunServer(ServerWith(server, st))
<1> DEFINE v == st.value
           q == [server EXCEPT !.given = @ \cup {st.name}]
<1>1. BegunServer(q)
  BY DEF BegunServer, ServerShape
<1>2. CASE st.name \in {"root", "index", "server_name", "error_page"}
  <2>1. ServerWith(server, st) \in
          {[q EXCEPT !.root = v], [q EXCEPT !.index = @ \o v], [q EXCEPT !.name = v],
           [q EXCEPT !.errors = WithErrors(@, v)]}
    BY <1>2 DEF ServerWith
  <2> HIDE DEF q
  <2>2. QED
    BY <1>1, <2>1 DEF BegunServer, ServerShape
<1>3. CASE st.name = "listen"
  <2>1. ListenOk(v)
    BY <1>3 DEF ServerTakes
  <2>2. ListenPort(v) \in 1 .. MaxPort
    <3>1. CASE v.port = <<>>
      BY <3>1, Defaults DEF ListenPort
    <3>2. CASE v.port # <<>>
      <4>1. IsIn(v.port, 1 .. MaxPort)
        BY <2>1, <3>2 DEF ListenOk
      <4>2. QED
        BY <3>2, <4>1 DEF ListenPort, IsIn
    <3>3. QED
      BY <3>1, <3>2
  <2>3. ServerWith(server, st) = [q EXCEPT !.host = ListenHost(v), !.port = ListenPort(v),
                                           !.text.port = v.port]
    BY <1>3 DEF ServerWith
  <2> HIDE DEF q
  <2>4. QED
    BY <1>1, <2>2, <2>3 DEF BegunServer, ServerShape
<1>4. CASE st.name = "client_max_body_size"
  <2>1. SizeOf(v) \in Sizes
    BY <1>4, StatementSize DEF ServerTakes
  <2>2. ServerWith(server, st) = [q EXCEPT !.limit = SizeOf(v)]
    BY <1>4 DEF ServerWith
  <2> HIDE DEF q
  <2>3. QED
    BY <1>1, <2>1, <2>2 DEF BegunServer, ServerShape
<1>5. CASE st.name = "timeout"
  <2>1. IsIn(v, 1 .. MaxTimeout)
    BY <1>5 DEF ServerTakes
  <2>2. ToInt(Strtol(v)) \in 0 .. MaxTimeout
    BY <2>1, Widths DEF IsIn
  <2>3. ServerWith(server, st) = [q EXCEPT !.timeout = ToInt(Strtol(v)), !.text.timeout = v]
    BY <1>5 DEF ServerWith
  <2> HIDE DEF q
  <2>4. QED
    BY <1>1, <2>2, <2>3 DEF BegunServer, ServerShape
<1>6. QED
  BY <1>2, <1>3, <1>4, <1>5 DEF ServerTakes

\* A directive of a location keeps its map of interpreters that of its lists.
LEMMA LocationDirective ==
  ASSUME words \in Vocabularies, NEW st \in words.statements,
         Begun(location), LocationTakes(location, st)
  PROVE  Begun(LocationWith(location, st))
<1> DEFINE v == st.value
           q == [location EXCEPT !.given = @ \cup {st.name}]
<1>1. Begun(q)
  <2>0. location =
          [path |-> location.path, root |-> location.root, index |-> location.index,
           limit |-> location.limit, errors |-> location.errors, methods |-> location.methods,
           autoindex |-> location.autoindex, paths |-> location.paths, exts |-> location.exts,
           cgi |-> location.cgi, upload |-> location.upload, redirect |-> location.redirect,
           given |-> location.given, from |-> location.from]
    BY DEF Begun
  <2>1. q = [path |-> q.path, root |-> q.root, index |-> q.index, limit |-> q.limit,
             errors |-> q.errors, methods |-> q.methods, autoindex |-> q.autoindex,
             paths |-> q.paths, exts |-> q.exts, cgi |-> q.cgi, upload |-> q.upload,
             redirect |-> q.redirect, given |-> q.given, from |-> q.from]
    BY <2>0, SMTT(60)
  <2>2. q.limit = location.limit /\ q.exts = location.exts /\ q.cgi = location.cgi
        /\ q.paths = location.paths
    BY DEF Begun
  <2> HIDE DEF q
  <2>3. QED
    BY <2>1, <2>2 DEF Begun
<1>2. CASE st.name \in {"root", "index", "allowed_methods", "autoindex", "upload_path",
                         "error_page", "return"}
  <2>1. LocationWith(location, st) \in
          {[q EXCEPT !.root = v], [q EXCEPT !.index = v],
           [q EXCEPT !.methods = @ \cup ToSet(v)], [q EXCEPT !.autoindex = (v = "on")],
           [q EXCEPT !.upload = v], [q EXCEPT !.errors = WithErrors(@, v)],
           [q EXCEPT !.redirect = ToInt(Strtol(v))]}
    BY <1>2 DEF LocationWith
  <2> HIDE DEF q
  <2>2. QED
    BY <1>1, <2>1 DEF Begun
<1>3. CASE st.name = "client_max_body_size"
  <2>1. SizeOf(v) \in Sizes
    BY <1>3, StatementSize DEF LocationTakes
  <2>2. LocationWith(location, st) = [q EXCEPT !.limit = SizeOf(v)]
    BY <1>3 DEF LocationWith
  <2> HIDE DEF q
  <2>3. QED
    BY <1>1, <2>1, <2>2 DEF Begun
<1>4. CASE st.name \in {"cgi_path", "cgi_ext"}
  <2>1. v \in Seq(STRING)
    BY <1>4, Values
  <2>2. \/ LocationWith(location, st) = [q EXCEPT !.paths = v, !.cgi = PairedCgi(v, q.exts)]
        \/ LocationWith(location, st) = [q EXCEPT !.exts = v, !.cgi = PairedCgi(q.paths, v)]
    <3>1. q.exts = location.exts /\ q.paths = location.paths
      BY DEF Begun
    <3>2. QED
      BY <1>4, <3>1 DEF LocationWith
  <2> HIDE DEF q
  <2>3. QED
    BY <1>1, <2>1, <2>2 DEF Begun
<1>5. QED
  BY <1>2, <1>3, <1>4 DEF LocationTakes

-----------------------------------------------------------------------------
(* The beginnings and ends of blocks. *)

\* The constructors: with no interpreter there is nothing to pair up.
LEMMA NewBlocks ==
  /\ BegunHttp(NewHttp)
  /\ \A h : h.limit \in Sizes => BegunServer(NewServer(h))
  /\ \A s, p : s.limit \in Sizes => Begun(NewLocation(s, p))
<1>1. PairedCgi(<<>>, <<>>) = NoErrors
  <2>1. PairedCgi(<<>>, <<>>) = [e \in ToSet(<<>>) |-> <<>>[Max({i \in DOMAIN <<>> : <<>>[i] = e})]]
    BY DEF PairedCgi
  <2>2. ToSet(<<>>) = {}
    BY ListEmpty
  <2> DEFINE m == [e \in {} |-> <<>>[Max({i \in DOMAIN <<>> : <<>>[i] = e})]]
  <2>3. m = [c \in {} |-> Absent]
    OBVIOUS
  <2>4. QED
    BY <2>1, <2>2, <2>3 DEF NoErrors
<1>2. ASSUME NEW s, NEW p, s.limit \in Sizes
      PROVE  Begun(NewLocation(s, p))
  BY <1>1, <1>2 DEF Begun, NewLocation
<1>3. BegunHttp(NewHttp)
  BY ListEmpty DEF BegunHttp, NewHttp, Sizes
<1>4. ASSUME NEW h, h.limit \in Sizes
      PROVE  BegunServer(NewServer(h))
  BY <1>4, ListEmpty, Widths DEF BegunServer, ServerShape, NewServer
<1>5. QED
  BY <1>2, <1>3, <1>4

\* A location that ends has a method and goes to its server.
LEMMA LocationEnds ==
  ASSUME BegunServer(server), Begun(location)
  PROVE  BegunServer([server EXCEPT !.locations = Append(@, WithMethods(location))])
<1>1. Ended(WithMethods(location))
  <2> DEFINE ms == IF location.methods = {} THEN {"GET"} ELSE location.methods
             t  == [location EXCEPT !.methods = ms]
  <2>1. t = WithMethods(location)
    BY DEF WithMethods
  <2>2. ms # {}
    OBVIOUS
  <2> HIDE DEF ms
  <2>3. Begun(t) /\ t.methods = ms
    BY DEF Begun
  <2> HIDE DEF t
  <2>4. QED
    BY <2>1, <2>2, <2>3 DEF Ended
<1> DEFINE w == WithMethods(location)
           ls == Append(server.locations, w)
<1> HIDE DEF w
<1>2. IsList(ls) /\ ToSet(ls) = ToSet(server.locations) \cup {w}
  BY ListAppend DEF BegunServer, ServerShape
<1> HIDE DEF ls
<1>3. \A l \in ToSet(ls) : Ended(l)
  BY <1>1, <1>2 DEF BegunServer, w
<1> HIDE DEF Ended
<1>4. BegunServer([server EXCEPT !.locations = ls])
  BY <1>2, <1>3 DEF BegunServer, ServerShape
<1>5. QED
  BY <1>4 DEF ls, w

\* What a location still lacks when its server ends, it gets.
LEMMA FilledSettled ==
  ASSUME NEW l, NEW s, Ended(l), s.limit \in Sizes, s.root # Absent
  PROVE  Settled(Filled(l, s)) /\ Filled(l, s).path = l.path
<1> DEFINE root == IF l.root = Absent THEN s.root ELSE l.root
           index == IF l.index = <<>> THEN <<Head(s.index)>> ELSE l.index
           limit == IF l.limit = 0 THEN s.limit ELSE l.limit
           errors == IF DOMAIN l.errors = {} THEN s.errors ELSE l.errors
<1>1. root # Absent /\ index # <<>> /\ limit \in Sizes
  BY DEF Ended, Begun
<1>2. Filled(l, s) = [l EXCEPT !.root = root, !.index = index, !.limit = limit, !.errors = errors]
  BY DEF Filled
<1> HIDE DEF root, index, limit, errors
<1>3. QED
  BY <1>1, <1>2 DEF Settled, Ended, Begun

\* A server that is complete when it ends has all that it needs.
LEMMA ServerEnds ==
  ASSUME BegunServer(server), Complete(server)
  PROVE  EndedServer(FilledServer(server))
<1> DEFINE ls == server.locations
           fs == [i \in DOMAIN ls |-> Filled(ls[i], server)]
           t  == [server EXCEPT !.locations = fs]
<1>1. IsList(ls) /\ IsList(fs) /\ DOMAIN fs = DOMAIN ls
  BY ListMap DEF BegunServer, ServerShape
<1>2. \A i \in DOMAIN fs : Settled(fs[i]) /\ fs[i].path = ls[i].path
  <2>1. ASSUME NEW i \in DOMAIN ls
        PROVE  Ended(ls[i])
    BY DEF BegunServer, ToSet
  <2>2. QED
    BY <2>1, FilledSettled DEF BegunServer, ServerShape, Complete
<1>3. \A l \in ToSet(fs) : Settled(l)
  BY <1>2 DEF ToSet
<1>4. /\ PathsDiffer(ls) /\ server.port # -1 /\ server.timeout > 0
      /\ server.root # Absent /\ server.index # <<>>
  BY DEF Complete
<1>5. server.port \in 1 .. MaxPort /\ server.timeout \in 1 .. MaxTimeout
  <2>1. server.port \in {-1} \cup 1 .. MaxPort /\ server.timeout \in 0 .. MaxTimeout
    BY DEF BegunServer
  <2>2. server.port # -1 /\ server.timeout > 0
    BY <1>4
  <2>3. server.port \in 1 .. MaxPort
    BY <2>1, <2>2
  <2>4. server.timeout \in 1 .. MaxTimeout
    BY <2>1, <2>2, Widths
  <2>5. QED
    BY <2>3, <2>4
<1>6. t = FilledServer(server)
  BY DEF FilledServer
<1> HIDE DEF fs
<1>7. PathsDiffer(fs)
  BY <1>1, <1>2, <1>4 DEF PathsDiffer
<1>8. ServerShape(t)
  BY <1>1 DEF BegunServer, ServerShape
<1>9. /\ t.port = server.port /\ t.timeout = server.timeout /\ t.root = server.root
      /\ t.index = server.index /\ t.locations = fs
  BY DEF BegunServer, ServerShape
<1> HIDE DEF t
<1>10. EndedServer(t)
  BY <1>3, <1>4, <1>5, <1>7, <1>8, <1>9 DEF EndedServer
<1>11. QED
  BY <1>6, <1>10

\* A server that has ended goes to those before.
LEMMA ServerEntered ==
  ASSUME BegunHttp(http), BegunServer(server), Complete(server)
  PROVE  BegunHttp([http EXCEPT !.servers = Append(@, FilledServer(server))])
<1> DEFINE f == FilledServer(server)
           q == Append(http.servers, f)
<1>1. EndedServer(f)
  BY ServerEnds
<1> HIDE DEF f
<1>2. IsList(q) /\ ToSet(q) = ToSet(http.servers) \cup {f}
  BY ListAppend DEF BegunHttp
<1> HIDE DEF q
<1>3. \A s \in ToSet(q) : EndedServer(s)
  BY <1>1, <1>2 DEF BegunHttp
<1>4. BegunHttp([http EXCEPT !.servers = q])
  BY <1>2, <1>3 DEF BegunHttp
<1>5. QED
  BY <1>4 DEF q, f

-----------------------------------------------------------------------------
(* The end of the file. *)

\* A server that is ready for requests.
ServerUsable(s) ==
  /\ s.port \in 1 .. MaxPort /\ s.timeout \in 1 .. MaxTimeout
  /\ s.limit \in UsableLimits /\ s.root # Absent /\ s.index # <<>>
  /\ PathsDiffer(s.locations)
  /\ \A l \in ToSet(s.locations) : LocationUsable(l)

\* After the last tests it is usable.
LEMMA FinalUsable ==
  ASSUME NEW s, NEW fallback \in UsableLimits, EndedServer(s),
         \A l \in ToSet(s.locations) : LocationValid(l)
  PROVE  /\ ServerUsable(FinalServer(s, fallback))
         /\ FinalServer(s, fallback).port = s.port /\ FinalServer(s, fallback).name = s.name
<1> DEFINE limit == IF s.limit = 0 THEN fallback ELSE s.limit
           ls == s.locations
           fs == [i \in DOMAIN ls |-> Limited(ls[i], limit)]
           t  == [s EXCEPT !.limit = limit, !.locations = fs]
<1>1. limit \in UsableLimits
  <2>1. s.limit \in Sizes
    BY DEF EndedServer, ServerShape
  <2>2. QED
    BY <2>1 DEF Sizes
<1>0. t = FinalServer(s, fallback)
  BY DEF FinalServer
<1>2. ASSUME NEW i \in DOMAIN ls
      PROVE  LocationUsable(fs[i]) /\ fs[i].path = ls[i].path
  <2> DEFINE l == ls[i]
             n == IF l.limit = 0 THEN limit ELSE l.limit
             m == [l EXCEPT !.limit = n]
  <2>1. Settled(l) /\ LocationValid(l)
    BY <1>2 DEF EndedServer, ToSet
  <2>2. m = fs[i]
    BY <1>2 DEF Limited
  <2> HIDE DEF fs, l
  <2>3. n \in UsableLimits
    <3>1. l.limit \in Sizes
      BY <2>1 DEF Settled, Ended, Begun
    <3>2. QED
      BY <1>1, <3>1 DEF Sizes
  <2> HIDE DEF n, limit
  <2>4. /\ m.root = l.root /\ m.index = l.index /\ m.limit = n /\ m.methods = l.methods
        /\ m.upload = l.upload /\ m.paths = l.paths /\ m.exts = l.exts /\ m.cgi = l.cgi
        /\ m.path = l.path
    BY <2>1 DEF Settled, Ended, Begun
  <2>5. /\ Len(l.paths) = Len(l.exts) /\ DOMAIN l.cgi = ToSet(l.exts)
        /\ \A k \in DOMAIN l.exts : l.cgi[l.exts[k]] = l.paths[k]
    BY <2>1, WholeIsPaired DEF Settled, Ended, Begun, LocationValid
  <2> HIDE DEF m
  <2>6. LocationUsable(m) /\ m.path = l.path
    BY <2>1, <2>3, <2>4, <2>5 DEF LocationUsable, Settled, Ended, LocationValid
  <2>7. QED
    BY <2>2, <2>6 DEF l
<1>3. DOMAIN fs = DOMAIN ls
  OBVIOUS
<1> HIDE DEF fs
<1>4. \A l \in ToSet(fs) : LocationUsable(l)
  BY <1>2, <1>3 DEF ToSet
<1>5. PathsDiffer(fs)
  BY <1>2, <1>3 DEF PathsDiffer, EndedServer
<1> HIDE DEF limit
<1>6. ServerUsable(t) /\ t.port = s.port /\ t.name = s.name
  BY <1>1, <1>4, <1>5 DEF ServerUsable, EndedServer, ServerShape
<1>7. QED
  BY <1>0, <1>6

\* AcceptedIsUsable of the list of servers.
ListUsable(servers) ==
  /\ servers # <<>>
  /\ \A i, j \in DOMAIN servers :
       /\ i # j => servers[i].port # servers[j].port \/ servers[i].name # servers[j].name
       /\ ServerUsable(servers[i])

\* Servers that are usable one by one and in pairs are what is to be accepted.
LEMMA ListIsAll == Accepted /\ ListUsable(http.servers) => AcceptedIsUsable
BY DEF AcceptedIsUsable, ListUsable, ServerUsable

\* A file whose servers are valid has usable ones at its end.
LEMMA FileEnds ==
  ASSUME BegunHttp(http), http.servers # <<>>, Valid(http.servers)
  PROVE  ListUsable([i \in DOMAIN http.servers |-> FinalServer(http.servers[i], Fallback(http))])
<1> DEFINE q == http.servers
           p == [i \in DOMAIN q |-> FinalServer(q[i], Fallback(http))]
<1>1. Fallback(http) \in UsableLimits
  <2>1. http.limit \in Sizes
    BY DEF BegunHttp
  <2>2. QED
    BY <2>1, SizesAre, Limits DEF Fallback, Sizes
<1>2. ASSUME NEW i \in DOMAIN q
      PROVE  ServerUsable(p[i]) /\ p[i].port = q[i].port /\ p[i].name = q[i].name
  <2>1. EndedServer(q[i])
    BY DEF BegunHttp, ToSet
  <2>2. \A l \in ToSet(q[i].locations) : LocationValid(l)
    BY DEF Valid, ToSet
  <2>3. p[i] = FinalServer(q[i], Fallback(http))
    OBVIOUS
  <2> HIDE DEF p
  <2>4. QED
    BY <1>1, <2>1, <2>2, <2>3, FinalUsable
<1>3. p # <<>>
  <2>1. IsList(q) /\ q # <<>>
    BY DEF BegunHttp
  <2>2. IsList(p) /\ Len(p) = Len(q)
    BY <2>1, ListMap
  <2> HIDE DEF p
  <2>3. Len(q) # 0
    BY <2>1, EmptySeq DEF IsList
  <2>4. QED
    BY <2>2, <2>3
<1>4. \A i, j \in DOMAIN q : i # j => q[i].port # q[j].port \/ q[i].name # q[j].name
  BY DEF Valid
<1>5. DOMAIN p = DOMAIN q
  OBVIOUS
<1> HIDE DEF p
<1>6. ListUsable(p)
  BY <1>2, <1>3, <1>4, <1>5 DEF ListUsable
<1>7. QED
  BY <1>6 DEF p

\* The limits of set_default_conf are limits.
LEMMA DefaultLimits == LargeLimit \in UsableLimits /\ ScriptLimit \in UsableLimits
BY DEF UsableLimits

\* What the locations of set_default_conf have in common.
LEMMA DefaultLocationUsable ==
  ASSUME NEW name, NEW methods, methods # {}
  PROVE  LET l == DefaultLocation(name, methods) IN
         /\ LocationUsable(l) /\ l.path.name = name /\ l.methods = methods
         /\ l = [path |-> l.path, root |-> l.root, index |-> l.index, limit |-> l.limit,
                 errors |-> l.errors, methods |-> l.methods, autoindex |-> l.autoindex,
                 paths |-> l.paths, exts |-> l.exts, cgi |-> l.cgi, upload |-> l.upload,
                 redirect |-> l.redirect, given |-> l.given, from |-> l.from]
<1>0. PICK l : l = DefaultLocation(name, methods)
  OBVIOUS
<1>1. /\ l.path.name = name /\ l.root = "./www/html" /\ l.index = <<"index.html">>
      /\ l.limit = LargeLimit /\ l.methods = methods /\ l.upload = Absent
      /\ l.paths = <<>> /\ l.exts = <<>> /\ l.cgi = NoErrors
  BY <1>0 DEF DefaultLocation
<1>2. l = [path |-> l.path, root |-> l.root, index |-> l.index, limit |-> l.limit,
           errors |-> l.errors, methods |-> l.methods, autoindex |-> l.autoindex,
           paths |-> l.paths, exts |-> l.exts, cgi |-> l.cgi, upload |-> l.upload,
           redirect |-> l.redirect, given |-> l.given, from |-> l.from]
  BY <1>0 DEF DefaultLocation
<1>3. l.root # Absent /\ l.index # <<>> /\ l.limit \in UsableLimits
  BY <1>1, DefaultLimits, AbsentIsNone
<1>4. LocationUsable(l)
  <2>1. DOMAIN l.cgi = {} /\ DOMAIN l.exts = {} /\ ToSet(l.exts) = {}
    BY <1>1, ListEmpty DEF NoErrors
  <2>2. Len(l.paths) = Len(l.exts)
    BY <1>1
  <2>3. QED
    BY <1>1, <1>3, <2>1, <2>2 DEF LocationUsable
<1>5. QED
  BY <1>0, <1>1, <1>2, <1>4

\* And what three of them have of their own.
LEMMA OwnUsable ==
  ASSUME NEW l, LocationUsable(l),
         l = [path |-> l.path, root |-> l.root, index |-> l.index, limit |-> l.limit,
              errors |-> l.errors, methods |-> l.methods, autoindex |-> l.autoindex,
              paths |-> l.paths, exts |-> l.exts, cgi |-> l.cgi, upload |-> l.upload,
              redirect |-> l.redirect, given |-> l.given, from |-> l.from]
  PROVE  /\ l.upload = Absent => LocationUsable(Scripts(l))
         /\ LocationUsable(Moved(l))
         /\ "POST" \in l.methods => LocationUsable(Uploads(l))
         /\ Scripts(l).path = l.path /\ Moved(l).path = l.path /\ Uploads(l).path = l.path
<1>1. LocationUsable(Moved(l)) /\ Moved(l).path = l.path
  <2>0. PICK m : m = Moved(l)
    OBVIOUS
  <2>1. /\ m.path = l.path /\ m.root = l.root /\ m.index = l.index /\ m.limit = l.limit
        /\ m.methods = l.methods /\ m.upload = l.upload /\ m.paths = l.paths
        /\ m.exts = l.exts /\ m.cgi = l.cgi
    BY <2>0 DEF Moved
  <2>2. LocationUsable(m)
    BY <2>1 DEF LocationUsable
  <2>3. QED
    BY <2>0, <2>1, <2>2
<1>2. /\ "POST" \in l.methods => LocationUsable(Uploads(l))
      /\ Uploads(l).path = l.path
  <2>0. PICK m : m = Uploads(l)
    OBVIOUS
  <2>1. /\ m.path = l.path /\ m.root = l.root /\ m.index = l.index /\ m.limit = l.limit
        /\ m.methods = l.methods /\ m.paths = l.paths
        /\ m.exts = l.exts /\ m.cgi = l.cgi
    BY <2>0 DEF Uploads
  <2>2. "POST" \in l.methods => LocationUsable(m)
    BY <2>1 DEF LocationUsable
  <2>3. QED
    BY <2>0, <2>1, <2>2
<1>3. /\ l.upload = Absent => LocationUsable(Scripts(l))
      /\ Scripts(l).path = l.path
  <2>0. PICK scripts, exts, paths, cgi, m :
          /\ scripts = {".py", ".sh"}
          /\ exts = <<".py", ".sh">> /\ paths = <<"/usr/bin/python3", "/usr/bin/bash">>
          /\ cgi = PairedCgi(paths, exts) /\ m = Scripts(l)
    OBVIOUS
  <2>1. /\ exts \in Seq(scripts) /\ Len(paths) = Len(exts)
        /\ \A i, j \in DOMAIN exts : exts[i] = exts[j] => i = j
    <3>1. DOMAIN exts = 1 .. 2 /\ exts[1] = ".py" /\ exts[2] = ".sh"
      BY <2>0
    <3>2. Len(paths) = 2 /\ Len(exts) = 2
      BY <2>0
    <3>3. exts \in Seq(scripts)
      <4>1. <<".py", ".sh">> = Append(Append(<<>>, ".py"), ".sh")
        OBVIOUS
      <4>2. <<>> \in Seq(scripts) /\ ".py" \in scripts /\ ".sh" \in scripts
        BY <2>0
      <4>3. Append(<<>>, ".py") \in Seq(scripts)
        BY <4>2
      <4>4. Append(Append(<<>>, ".py"), ".sh") \in Seq(scripts)
        BY <4>2, <4>3
      <4>5. QED
        BY <2>0, <4>1, <4>4
    <3>4. \A i \in DOMAIN exts : i = 1 \/ i = 2
      BY <3>1
    <3>5. exts[1] # exts[2]
      BY <3>1
    <3>6. \A i, j \in DOMAIN exts : exts[i] = exts[j] => i = j
      BY <3>4, <3>5
    <3>7. QED
      BY <3>2, <3>3, <3>6
  <2>2. m = [l EXCEPT !.limit = ScriptLimit, !.exts = exts, !.paths = paths, !.cgi = cgi]
    BY <2>0 DEF Scripts
  <2>3. /\ DOMAIN cgi = ToSet(exts)
        /\ \A i \in DOMAIN exts : cgi[exts[i]] = paths[i]
    <3>1. cgi = PairedCgi(paths, exts)
      BY <2>0
    <3>2. QED
      BY <2>1, <3>1, PairedRight
  <2>4. /\ m.path = l.path /\ m.root = l.root /\ m.index = l.index /\ m.limit = ScriptLimit
        /\ m.methods = l.methods /\ m.upload = l.upload /\ m.paths = paths
        /\ m.exts = exts /\ m.cgi = cgi
    BY <2>2
  <2>5. l.upload = Absent => LocationUsable(m)
    BY <2>1, <2>3, <2>4, DefaultLimits DEF LocationUsable
  <2>6. QED
    BY <2>0, <2>4, <2>5
<1>4. QED
  BY <1>1, <1>2, <1>3

\* All of the built-in locations are usable.
LEMMA DefaultLocationsUsable ==
  /\ \A l \in ToSet(DefaultLocations) : LocationUsable(l)
  /\ PathsDiffer(DefaultLocations)
<1>0. PICK d, names :
        /\ d = DefaultLocations
        /\ names = <<Absent, "dashboard", "cgi-bin", "redirect", "uploads", "errors">>
  OBVIOUS
<1>1. /\ LocationUsable(d[1]) /\ d[1].path.name = names[1]
      /\ LocationUsable(d[2]) /\ d[2].path.name = names[2]
      /\ LocationUsable(d[6]) /\ d[6].path.name = names[6]
  BY <1>0, DefaultLocationUsable DEF DefaultLocations
<1>2. LocationUsable(d[3]) /\ d[3].path.name = names[3]
  <2>1. DefaultLocation("cgi-bin", {"GET", "POST"}).upload = Absent
    BY DEF DefaultLocation
  <2>2. QED
    BY <1>0, <2>1, DefaultLocationUsable, OwnUsable DEF DefaultLocations
<1>3. LocationUsable(d[4]) /\ d[4].path.name = names[4]
  BY <1>0, DefaultLocationUsable, OwnUsable DEF DefaultLocations
<1>4. LocationUsable(d[5]) /\ d[5].path.name = names[5]
  BY <1>0, DefaultLocationUsable, OwnUsable DEF DefaultLocations
<1>5. DOMAIN d = 1 .. 6
  BY <1>0 DEF DefaultLocations
<1>6. \A i, j \in 1 .. 6 : i # j => names[i] # names[j]
  BY <1>0, AbsentIsNone
<1>7. \A i \in 1 .. 6 : LocationUsable(d[i]) /\ d[i].path.name = names[i]
  BY <1>1, <1>2, <1>3, <1>4
<1>8. \A l \in ToSet(d) : LocationUsable(l)
  BY <1>5, <1>7 DEF ToSet
<1>9. PathsDiffer(d)
  BY <1>5, <1>6, <1>7 DEF PathsDiffer
<1>10. QED
  BY <1>0, <1>8, <1>9

\* set_default_conf, which is not validated, is usable as well.
LEMMA DefaultsUsable == ListUsable(<<DefaultServer>>)
<1>0. PICK s : s = DefaultServer
  OBVIOUS
<1>1. /\ s.port = 8080 /\ s.timeout = 60 /\ s.root # Absent /\ s.limit \in UsableLimits
      /\ s.index = <<"index.html">> /\ s.locations = DefaultLocations
  BY <1>0, DefaultLimits, AbsentIsNone DEF DefaultServer
<1>2. ServerUsable(s)
  BY <1>1, DefaultLocationsUsable, Defaults DEF ServerUsable
<1>3. QED
  BY <1>0, <1>2 DEF ListUsable

-----------------------------------------------------------------------------
(* The theorem. *)

\* Before a file is read, and without one.
LEMMA InitRead == Init => ReadInv
<1> SUFFICES ASSUME Init
             PROVE  ReadInv
  OBVIOUS
<1>1. words \in Vocabularies
  BY DEF Init
<1>2. CASE at = "top" /\ http = NewHttp
  <2>1. server = NewServer(NewHttp) /\ NewHttp.limit \in Sizes
    BY DEF Init, NewHttp, Sizes
  <2>2. BegunServer(server) /\ BegunHttp(http)
    BY <1>2, <2>1, NewBlocks
  <2>3. server.limit \in Sizes
    BY <2>2 DEF BegunServer, ServerShape
  <2>4. Begun(location)
    BY <2>3, NewBlocks DEF Init
  <2>5. QED
    BY <1>1, <1>2, <2>2, <2>4 DEF ReadInv, AcceptedIsUsable, Accepted
<1>3. CASE at = "accepted" /\ http = [NewHttp EXCEPT !.servers = <<DefaultServer>>]
  <2>1. http.servers = <<DefaultServer>>
    BY <1>3 DEF NewHttp
  <2>2. AcceptedIsUsable
    BY <1>3, <2>1, DefaultsUsable, ListIsAll DEF Accepted
  <2>3. QED
    BY <1>1, <1>3, <2>2 DEF ReadInv, Reading
<1>4. QED
  BY <1>2, <1>3 DEF Init

\* A step that goes on reading.
LEMMA GoesOn ==
  ASSUME ReadInv, words' = words, Reading',
         BegunHttp(http'), BegunServer(server'), Begun(location')
  PROVE  ReadInv'
BY DEF ReadInv, Reading, AcceptedIsUsable, Accepted

\* What is rejected is not accepted.
LEMMA RejectRead ==
  ASSUME ReadInv, Reject
  PROVE  ReadInv'
BY DEF ReadInv, Reject, Reading, AcceptedIsUsable, Accepted

\* Every step keeps the invariant.
LEMMA NextRead == ReadInv /\ [Next]_vars => ReadInv'
<1> SUFFICES ASSUME ReadInv, [Next]_vars
             PROVE  ReadInv'
  OBVIOUS
<1> DEFINE Blocks == BegunHttp(http) /\ BegunServer(server) /\ Begun(location)
<1>0. Reading => Blocks /\ words \in Vocabularies
  BY DEF ReadInv
<1>1. CASE SyntaxError
  BY <1>1, RejectRead DEF SyntaxError
<1>2. CASE OpenEvents \/ CloseEvents \/ CloseHttp
  BY <1>0, <1>2, GoesOn DEF OpenEvents, CloseEvents, CloseHttp, Reading
<1>3. CASE OpenHttp
  <2>1. CASE http.exists
    BY <1>3, <2>1, RejectRead DEF OpenHttp
  <2>2. CASE ~http.exists
    <3>1. BegunHttp(http) /\ http' = [http EXCEPT !.exists = TRUE]
      BY <1>0, <1>3, <2>2 DEF OpenHttp, Reading
    <3>2. BegunHttp(http')
      BY <3>1 DEF BegunHttp
    <3>3. QED
      BY <1>0, <1>3, <2>2, <3>2, GoesOn DEF OpenHttp, Reading
  <2>3. QED
    BY <2>1, <2>2
<1>4. ASSUME NEW st \in words.statements, Directive(st)
      PROVE  ReadInv'
  <2>1. Reading /\ Blocks /\ words \in Vocabularies
    BY <1>0, <1>4 DEF Directive, Reading
  <2>2. CASE Reject
    BY <2>2, RejectRead
  <2>3. CASE ~Reject /\ at = "http"
    <3>1. HttpTakes(st) /\ http' = HttpWith(http, st) /\ UNCHANGED <<words, at, server, location>>
      BY <1>4, <2>3 DEF Directive
    <3>2. BegunHttp(http')
      BY <2>1, <3>1, HttpDirective
    <3>3. QED
      BY <2>1, <3>1, <3>2, GoesOn DEF Reading
  <2>4. CASE ~Reject /\ at = "server"
    <3>1. /\ ServerTakes(server, st) /\ server' = ServerWith(server, st)
          /\ UNCHANGED <<words, at, http, location>>
      BY <1>4, <2>4 DEF Directive
    <3>2. BegunServer(server')
      BY <2>1, <3>1, ServerDirective
    <3>3. QED
      BY <2>1, <3>1, <3>2, GoesOn DEF Reading
  <2>5. CASE ~Reject /\ at = "location"
    <3>1. /\ LocationTakes(location, st) /\ location' = LocationWith(location, st)
          /\ UNCHANGED <<words, at, http, server>>
      BY <1>4, <2>5 DEF Directive
    <3>2. Begun(location')
      BY <2>1, <3>1, LocationDirective
    <3>3. QED
      BY <2>1, <3>1, <3>2, GoesOn DEF Reading
  <2>6. QED
    BY <1>4, <2>2, <2>3, <2>4, <2>5 DEF Directive
<1>5. CASE OpenServer
  <2>1. Blocks /\ server' = NewServer(http) /\ UNCHANGED <<words, http, location>> /\ Reading'
    BY <1>0, <1>5 DEF OpenServer, Reading
  <2>2. BegunServer(server')
    BY <2>1, NewBlocks DEF BegunHttp
  <2>3. QED
    BY <2>1, <2>2, GoesOn
<1>6. ASSUME NEW p \in Paths, OpenLocation(p)
      PROVE  ReadInv'
  <2>1. Blocks /\ location' = NewLocation(server, p) /\ UNCHANGED <<words, http, server>> /\ Reading'
    BY <1>0, <1>6 DEF OpenLocation, Reading
  <2>2. Begun(location')
    BY <2>1, NewBlocks DEF BegunServer, ServerShape
  <2>3. QED
    BY <2>1, <2>2, GoesOn
<1>7. CASE CloseLocation
  <2>1. /\ Blocks /\ server' = [server EXCEPT !.locations = Append(@, WithMethods(location))]
        /\ UNCHANGED <<words, http, location>> /\ Reading'
    BY <1>0, <1>7 DEF CloseLocation, Reading
  <2>2. BegunServer(server')
    BY <2>1, LocationEnds
  <2>3. QED
    BY <2>1, <2>2, GoesOn
<1>8. CASE CloseServer
  <2>1. CASE ~Complete(server)
    BY <1>8, <2>1, RejectRead DEF CloseServer
  <2>2. CASE Complete(server)
    <3>1. /\ Blocks /\ http' = [http EXCEPT !.servers = Append(@, FilledServer(server))]
          /\ UNCHANGED <<words, server, location>> /\ Reading'
      BY <1>0, <1>8, <2>2 DEF CloseServer, Reading
    <3>2. BegunHttp(http')
      BY <2>2, <3>1, ServerEntered
    <3>3. QED
      BY <3>1, <3>2, GoesOn
  <2>3. QED
    BY <2>1, <2>2
<1>9. CASE EndOfFile
  <2>1. CASE http.servers = <<>> \/ ~Valid(http.servers)
    BY <1>9, <2>1, RejectRead DEF EndOfFile
  <2>2. CASE ~(http.servers = <<>> \/ ~Valid(http.servers))
    <3> DEFINE q == [i \in DOMAIN http.servers |-> FinalServer(http.servers[i], Fallback(http))]
    <3>1. /\ BegunHttp(http) /\ at' = "accepted" /\ words' = words
          /\ http' = [http EXCEPT !.limit = Fallback(http),
                     !.servers = [i \in DOMAIN @ |-> FinalServer(@[i], Fallback(http))]]
      BY <1>0, <1>9, <2>2 DEF EndOfFile, Reading
    <3>2. ListUsable(q)
      BY <2>2, <3>1, FileEnds
    <3>3. http'.servers = q
      BY <3>1 DEF BegunHttp
    <3> HIDE DEF q
    <3>4. AcceptedIsUsable'
      BY <3>1, <3>2, <3>3 DEF AcceptedIsUsable, ListUsable, ServerUsable
    <3>5. QED
      BY <3>1, <3>4 DEF ReadInv, Reading
  <2>3. QED
    BY <2>1, <2>2
<1>10. CASE Listen \/ Run \/ Done \/ UNCHANGED vars
  <2>1. http' = http /\ words' = words
    BY <1>10 DEF Listen, Run, Done, vars
  <2>2. CASE UNCHANGED vars
    BY <2>2 DEF vars, ReadInv, Reading, AcceptedIsUsable, Accepted
  <2>3. CASE Listen \/ Run
    <3>1. Accepted /\ ~Reading' /\ http' = http /\ words' = words
      BY <2>3 DEF Listen, Run, Accepted, Reading
    <3>2. QED
      BY <3>1 DEF ReadInv, AcceptedIsUsable
  <2>4. QED
    BY <1>10, <2>2, <2>3 DEF Done
<1>11. QED
  BY <1>1, <1>2, <1>3, <1>4, <1>5, <1>6, <1>7, <1>8, <1>9, <1>10 DEF Next

\* Whatever is written in whatever order, a configuration with which main
\* starts the server lacks nothing that requests need, though settings are
\* copied, filled in and tested in different places.
THEOREM AcceptedUsable == Spec => []AcceptedIsUsable
<1>1. ReadInv => AcceptedIsUsable
  BY DEF ReadInv
<1>2. QED
  BY <1>1, InitRead, NextRead, PTL DEF Spec

-----------------------------------------------------------------------------
(* What locations take over.  from has the directives of the server that   *)
(* were there to copy: root, index and limit are there only once, so what  *)
(* was copied stays what the server has, and what was not was not set.     *)

Unset(s) ==
  /\ s.start \in Sizes
  /\ "root" \notin s.given => s.root = Absent
  /\ "index" \notin s.given => s.index = <<>>
  /\ "client_max_body_size" \notin s.given => s.limit = s.start
Copied(l, s) ==
  /\ l.from \subseteq s.given
  /\ "root" \notin l.given => l.root = IF "root" \in l.from THEN s.root ELSE Absent
  /\ "index" \notin l.given => l.index = IF "index" \in l.from THEN s.index ELSE <<>>
  /\ "client_max_body_size" \notin l.given =>
       l.limit = IF "client_max_body_size" \in l.from THEN s.limit ELSE s.start
  /\ "error_page" \notin l.given =>
       \/ l.errors = s.errors
       \/ "error_page" \in s.given /\ DOMAIN l.errors \subseteq DOMAIN s.errors
AllCopied(s) == \A l \in ToSet(s.locations) : Copied(l, s)
AllInherit(servers) == \A s \in ToSet(servers) : \A l \in ToSet(s.locations) : Inherited(l, s)

InheritInv ==
  /\ Reading => Unset(server) /\ AllCopied(server) /\ AllInherit(http.servers)
  /\ at = "location" => Copied(location, server)
  /\ LocationsInherit

\* What a directive of a server leaves alone.
LEMMA ServerChange ==
  ASSUME BegunServer(server), NEW st, ServerTakes(server, st)
  PROVE  LET t == ServerWith(server, st) IN
         /\ t.given = server.given \cup {st.name} /\ t.start = server.start
         /\ t.locations = server.locations
         /\ st.name # "root" => t.root = server.root
         /\ st.name # "index" => t.index = server.index
         /\ st.name # "client_max_body_size" => t.limit = server.limit
         /\ st.name # "error_page" => t.errors = server.errors
         /\ DOMAIN server.errors \subseteq DOMAIN t.errors
<1>0. PICK v, q, t : /\ v = st.value /\ q = [server EXCEPT !.given = @ \cup {st.name}]
                    /\ t = ServerWith(server, st)
  OBVIOUS
<1>1. /\ q.given = server.given \cup {st.name} /\ q.start = server.start
      /\ q.locations = server.locations /\ q.root = server.root /\ q.index = server.index
      /\ q.limit = server.limit /\ q.errors = server.errors
      /\ q = [host |-> q.host, port |-> q.port, name |-> q.name, root |-> q.root,
              index |-> q.index, limit |-> q.limit, timeout |-> q.timeout,
              errors |-> q.errors, locations |-> q.locations, given |-> q.given,
              start |-> q.start, text |-> q.text]
  BY <1>0 DEF BegunServer, ServerShape
<1>2. CASE st.name = "root"
  <2>1. t = [q EXCEPT !.root = v]
    BY <1>0, <1>2 DEF ServerWith
  <2>2. QED
    BY <1>0, <1>1, <1>2, <2>1
<1>3. CASE st.name = "index"
  <2>1. t = [q EXCEPT !.index = @ \o v]
    BY <1>0, <1>3 DEF ServerWith
  <2>2. QED
    BY <1>0, <1>1, <1>3, <2>1
<1>4. CASE st.name = "client_max_body_size"
  <2>1. t = [q EXCEPT !.limit = SizeOf(v)]
    BY <1>0, <1>4 DEF ServerWith
  <2>2. QED
    BY <1>0, <1>1, <1>4, <2>1
<1>5. CASE st.name = "error_page"
  <2>1. t = [q EXCEPT !.errors = WithErrors(@, v)]
    BY <1>0, <1>5 DEF ServerWith
  <2>2. DOMAIN q.errors \subseteq DOMAIN WithErrors(q.errors, v)
    BY DEF WithErrors
  <2>3. QED
    BY <1>0, <1>1, <1>5, <2>1, <2>2
<1>6. CASE st.name \in {"server_name", "listen", "timeout"}
  <2>1. t \in {[q EXCEPT !.name = v],
               [q EXCEPT !.host = ListenHost(v), !.port = ListenPort(v), !.text.port = v.port],
               [q EXCEPT !.timeout = ToInt(Strtol(v)), !.text.timeout = v]}
    BY <1>0, <1>6 DEF ServerWith
  <2>2. /\ t.given = q.given /\ t.start = q.start /\ t.locations = q.locations
        /\ t.root = q.root /\ t.index = q.index /\ t.limit = q.limit /\ t.errors = q.errors
    BY <1>1, <2>1
  <2>3. QED
    BY <1>0, <1>1, <1>6, <2>2
<1>7. QED
  BY <1>2, <1>3, <1>4, <1>5, <1>6 DEF ServerTakes

\* What was copied before a directive of the server is still what it has.
LEMMA ServerDirectiveInherits ==
  ASSUME BegunServer(server), Unset(server), AllCopied(server), NEW st, ServerTakes(server, st)
  PROVE  Unset(ServerWith(server, st)) /\ AllCopied(ServerWith(server, st))
<1>0. PICK t : t = ServerWith(server, st)
  OBVIOUS
<1>1. /\ t.given = server.given \cup {st.name} /\ t.start = server.start
      /\ t.locations = server.locations
      /\ st.name # "root" => t.root = server.root
      /\ st.name # "index" => t.index = server.index
      /\ st.name # "client_max_body_size" => t.limit = server.limit
      /\ st.name # "error_page" => t.errors = server.errors
      /\ DOMAIN server.errors \subseteq DOMAIN t.errors
  BY <1>0, ServerChange
<1>2. st.name \notin {"root", "index", "client_max_body_size"} \cap server.given
  BY DEF ServerTakes, UniqueInServer
<1>3. Unset(t)
  BY <1>1 DEF Unset
<1>4. ASSUME NEW l, Copied(l, server)
      PROVE  Copied(l, t)
  <2>1. l.from \subseteq t.given
    BY <1>1, <1>4 DEF Copied
  <2>2. "root" \notin l.given => l.root = IF "root" \in l.from THEN t.root ELSE Absent
    BY <1>1, <1>2, <1>4 DEF Copied
  <2>3. "index" \notin l.given => l.index = IF "index" \in l.from THEN t.index ELSE <<>>
    BY <1>1, <1>2, <1>4 DEF Copied
  <2>4. "client_max_body_size" \notin l.given =>
          l.limit = IF "client_max_body_size" \in l.from THEN t.limit ELSE t.start
    BY <1>1, <1>2, <1>4 DEF Copied
  <2>5. "error_page" \notin l.given =>
          \/ l.errors = t.errors
          \/ "error_page" \in t.given /\ DOMAIN l.errors \subseteq DOMAIN t.errors
    BY <1>1, <1>4 DEF Copied
  <2>6. QED
    BY <2>1, <2>2, <2>3, <2>4, <2>5 DEF Copied
<1>5. AllCopied(t)
  BY <1>1, <1>4 DEF AllCopied
<1>6. QED
  BY <1>0, <1>3, <1>5

\* What a directive of a location leaves alone.
LEMMA LocationChange ==
  ASSUME Begun(location), NEW st, LocationTakes(location, st)
  PROVE  LET t == LocationWith(location, st) IN
         /\ t.given = location.given \cup {st.name} /\ t.from = location.from
         /\ st.name # "root" => t.root = location.root
         /\ st.name # "index" => t.index = location.index
         /\ st.name # "client_max_body_size" => t.limit = location.limit
         /\ st.name # "error_page" => t.errors = location.errors
<1>0. PICK v, q, t : /\ v = st.value /\ q = [location EXCEPT !.given = @ \cup {st.name}]
                    /\ t = LocationWith(location, st)
  OBVIOUS
<1>1. /\ q.given = location.given \cup {st.name} /\ q.from = location.from
      /\ q.root = location.root /\ q.index = location.index
      /\ q.limit = location.limit /\ q.errors = location.errors
      /\ q.paths = location.paths /\ q.exts = location.exts
  BY <1>0 DEF Begun
<1>2. q = [path |-> q.path, root |-> q.root, index |-> q.index, limit |-> q.limit,
           errors |-> q.errors, methods |-> q.methods, autoindex |-> q.autoindex,
           paths |-> q.paths, exts |-> q.exts, cgi |-> q.cgi, upload |-> q.upload,
           redirect |-> q.redirect, given |-> q.given, from |-> q.from]
  <2>1. location =
          [path |-> location.path, root |-> location.root, index |-> location.index,
           limit |-> location.limit, errors |-> location.errors, methods |-> location.methods,
           autoindex |-> location.autoindex, paths |-> location.paths, exts |-> location.exts,
           cgi |-> location.cgi, upload |-> location.upload, redirect |-> location.redirect,
           given |-> location.given, from |-> location.from]
    BY DEF Begun
  <2>2. q = [location EXCEPT !.given = @ \cup {st.name}]
    BY <1>0
  <2>3. QED
    BY <2>1, <2>2, SMTT(60)
<1>3. CASE st.name = "root"
  <2>1. t = [q EXCEPT !.root = v]
    BY <1>0, <1>3 DEF LocationWith
  <2>2. QED
    BY <1>0, <1>1, <1>2, <1>3, <2>1
<1>4. CASE st.name = "index"
  <2>1. t = [q EXCEPT !.index = v]
    BY <1>0, <1>4 DEF LocationWith
  <2>2. QED
    BY <1>0, <1>1, <1>2, <1>4, <2>1
<1>5. CASE st.name = "client_max_body_size"
  <2>1. t = [q EXCEPT !.limit = SizeOf(v)]
    BY <1>0, <1>5 DEF LocationWith
  <2>2. QED
    BY <1>0, <1>1, <1>2, <1>5, <2>1
<1>6. CASE st.name = "error_page"
  <2>1. t = [q EXCEPT !.errors = WithErrors(@, v)]
    BY <1>0, <1>6 DEF LocationWith
  <2>2. QED
    BY <1>0, <1>1, <1>2, <1>6, <2>1
<1>7. CASE st.name \in {"allowed_methods", "autoindex", "cgi_path", "cgi_ext", "upload_path",
                         "return"}
  <2>1. t \in {[q EXCEPT !.methods = @ \cup ToSet(v)], [q EXCEPT !.autoindex = (v = "on")],
               [q EXCEPT !.paths = v, !.cgi = PairedCgi(v, q.exts)],
               [q EXCEPT !.exts = v, !.cgi = PairedCgi(q.paths, v)],
               [q EXCEPT !.upload = v], [q EXCEPT !.redirect = ToInt(Strtol(v))]}
    BY <1>0, <1>1, <1>7 DEF LocationWith
  <2>2. /\ t.given = q.given /\ t.from = q.from /\ t.root = q.root /\ t.index = q.index
        /\ t.limit = q.limit /\ t.errors = q.errors
    BY <1>2, <2>1
  <2>3. QED
    BY <1>0, <1>1, <1>7, <2>2
<1>8. QED
  BY <1>3, <1>4, <1>5, <1>6, <1>7 DEF LocationTakes

\* A directive of the location makes no difference to what it did not give.
LEMMA LocationDirectiveInherits ==
  ASSUME Begun(location), NEW s, Copied(location, s), NEW st, LocationTakes(location, st)
  PROVE  Copied(LocationWith(location, st), s)
<1>0. PICK t : t = LocationWith(location, st)
  OBVIOUS
<1>1. /\ t.given = location.given \cup {st.name} /\ t.from = location.from
      /\ st.name # "root" => t.root = location.root
      /\ st.name # "index" => t.index = location.index
      /\ st.name # "client_max_body_size" => t.limit = location.limit
      /\ st.name # "error_page" => t.errors = location.errors
  BY <1>0, LocationChange
<1>2. Copied(t, s)
  BY <1>1 DEF Copied
<1>3. QED
  BY <1>0, <1>2

\* A location that begins has what its server has.
LEMMA NewInherits ==
  /\ \A h : h.limit \in Sizes => Unset(NewServer(h)) /\ AllCopied(NewServer(h))
  /\ \A s, p : Unset(s) => Copied(NewLocation(s, p), s)
<1>1. ASSUME NEW h, h.limit \in Sizes
      PROVE  Unset(NewServer(h)) /\ AllCopied(NewServer(h))
  BY <1>1, ListEmpty DEF Unset, AllCopied, NewServer
<1>2. ASSUME NEW s, NEW p, Unset(s)
      PROVE  Copied(NewLocation(s, p), s)
  <2>0. PICK l : l = NewLocation(s, p)
    OBVIOUS
  <2>1. /\ l.from = s.given /\ l.given = {} /\ l.root = s.root /\ l.index = s.index
        /\ l.limit = s.limit /\ l.errors = s.errors
    BY <2>0 DEF NewLocation
  <2>2. Copied(l, s)
    BY <1>2, <2>1 DEF Copied, Unset
  <2>3. QED
    BY <2>0, <2>2
<1>3. QED
  BY <1>1, <1>2

\* When it ends, too.
LEMMA LocationEndsInherits ==
  ASSUME BegunServer(server), Begun(location), Unset(server), AllCopied(server),
         Copied(location, server)
  PROVE  LET t == [server EXCEPT !.locations = Append(@, WithMethods(location))] IN
         Unset(t) /\ AllCopied(t)
<1>0. PICK w, ls, t : /\ w = WithMethods(location) /\ ls = Append(server.locations, w)
                     /\ t = [server EXCEPT !.locations = ls]
  OBVIOUS
<1>1. /\ w.from = location.from /\ w.given = location.given /\ w.root = location.root
      /\ w.index = location.index /\ w.limit = location.limit /\ w.errors = location.errors
  BY <1>0 DEF WithMethods, Begun
<1>2. Copied(w, server)
  BY <1>1 DEF Copied
<1>3. ToSet(ls) = ToSet(server.locations) \cup {w}
  BY <1>0, ListAppend DEF BegunServer, ServerShape
<1>4. /\ t.locations = ls /\ t.given = server.given /\ t.root = server.root
      /\ t.index = server.index /\ t.limit = server.limit /\ t.start = server.start
      /\ t.errors = server.errors
  BY <1>0 DEF BegunServer, ServerShape
<1>5. Unset(t)
  BY <1>4 DEF Unset
<1>6. \A l : Copied(l, server) => Copied(l, t)
  BY <1>4 DEF Copied
<1>7. AllCopied(t)
  BY <1>2, <1>3, <1>4, <1>6 DEF AllCopied
<1>8. QED
  BY <1>0, <1>5, <1>7

\* The end of the server's block fills in what was not copied.
LEMMA FilledInherits ==
  ASSUME NEW l, NEW s, Ended(l), Unset(s), s.index # <<>>, Copied(l, s)
  PROVE  Inherited(Filled(l, s), s)
<1>0. PICK m : m = Filled(l, s)
  OBVIOUS
<1>1. /\ m.given = l.given /\ m.from = l.from
      /\ m.root = IF l.root = Absent THEN s.root ELSE l.root
      /\ m.index = IF l.index = <<>> THEN <<Head(s.index)>> ELSE l.index
      /\ m.limit = IF l.limit = 0 THEN s.limit ELSE l.limit
      /\ m.errors = IF DOMAIN l.errors = {} THEN s.errors ELSE l.errors
  BY <1>0 DEF Filled, Ended, Begun
<1>2. "root" \notin m.given => m.root = s.root
  BY <1>1 DEF Copied
<1>3. "index" \notin m.given =>
        m.index = IF "index" \in m.from THEN s.index ELSE <<s.index[1]>>
  <2>1. Head(s.index) = s.index[1]
    OBVIOUS
  <2>2. QED
    BY <1>1, <2>1 DEF Copied
<1>4. "client_max_body_size" \notin m.given =>
        IF "client_max_body_size" \in s.given \ m.from /\ s.start # 0
        THEN m.limit = s.start ELSE m.limit = s.limit
  BY <1>1 DEF Copied, Unset
<1>5. "error_page" \notin m.given =>
        \/ m.errors = s.errors
        \/ "error_page" \in s.given /\ DOMAIN m.errors \subseteq DOMAIN s.errors
  BY <1>1 DEF Copied
<1>6. Inherited(m, s)
  BY <1>2, <1>3, <1>4, <1>5 DEF Inherited
<1>7. QED
  BY <1>0, <1>6

\* The end of the server's block fills in what its locations lack.
LEMMA ServerEndsInherits ==
  ASSUME BegunServer(server), Complete(server), Unset(server), AllCopied(server)
  PROVE  \A l \in ToSet(FilledServer(server).locations) : Inherited(l, FilledServer(server))
<1>0. PICK ls, fs, t : /\ ls = server.locations
                      /\ fs = [i \in DOMAIN ls |-> Filled(ls[i], server)]
                      /\ t = [server EXCEPT !.locations = fs]
  OBVIOUS
<1>1. t = FilledServer(server)
  BY <1>0 DEF FilledServer
<1>2. /\ t.given = server.given /\ t.root = server.root /\ t.index = server.index
      /\ t.limit = server.limit /\ t.start = server.start /\ t.errors = server.errors
      /\ t.locations = fs
  BY <1>0 DEF BegunServer, ServerShape
<1>3. ASSUME NEW i \in DOMAIN ls
      PROVE  Inherited(fs[i], server)
  <2>1. Ended(ls[i]) /\ Copied(ls[i], server)
    BY <1>0 DEF BegunServer, AllCopied, ToSet
  <2>2. server.index # <<>>
    BY DEF Complete
  <2>3. Inherited(Filled(ls[i], server), server)
    BY <2>1, <2>2, FilledInherits
  <2>4. QED
    BY <1>0, <2>3
<1>4. \A l : Inherited(l, server) => Inherited(l, t)
  BY <1>2 DEF Inherited
<1>5. \A l \in ToSet(fs) : Inherited(l, server)
  BY <1>0, <1>3 DEF ToSet
<1>6. QED
  BY <1>1, <1>2, <1>4, <1>5

\* And so does the end of the file, with limits.
LEMMA FinalInherits ==
  ASSUME NEW s, NEW fallback \in UsableLimits, EndedServer(s),
         \A l \in ToSet(s.locations) : Inherited(l, s)
  PROVE  \A l \in ToSet(FinalServer(s, fallback).locations) : Inherited(l, FinalServer(s, fallback))
<1>0. PICK limit, ls, fs, t :
        /\ limit = IF s.limit = 0 THEN fallback ELSE s.limit
        /\ ls = s.locations
        /\ fs = [i \in DOMAIN ls |-> Limited(ls[i], limit)]
        /\ t = [s EXCEPT !.limit = limit, !.locations = fs]
  OBVIOUS
<1>1. t = FinalServer(s, fallback)
  BY <1>0 DEF FinalServer
<1>2. /\ t.given = s.given /\ t.root = s.root /\ t.index = s.index
      /\ t.limit = limit /\ t.start = s.start /\ t.errors = s.errors /\ t.locations = fs
  BY <1>0 DEF EndedServer, ServerShape
<1>3. ASSUME NEW i \in DOMAIN ls
      PROVE  Inherited(fs[i], t)
  <2>0. PICK l, m : l = ls[i] /\ m = Limited(l, limit)
    OBVIOUS
  <2>1. Settled(l) /\ Inherited(l, s)
    BY <1>0, <2>0 DEF EndedServer, ToSet
  <2>2. /\ m.given = l.given /\ m.from = l.from /\ m.root = l.root /\ m.index = l.index
        /\ m.errors = l.errors /\ m.limit = IF l.limit = 0 THEN limit ELSE l.limit
    BY <2>0, <2>1 DEF Limited, Settled, Ended, Begun
  <2>3. "client_max_body_size" \notin m.given =>
          IF "client_max_body_size" \in t.given \ m.from /\ t.start # 0
          THEN m.limit = t.start ELSE m.limit = t.limit
    BY <1>0, <1>2, <2>1, <2>2 DEF Inherited
  <2>4. /\ "root" \notin m.given => m.root = t.root
        /\ "index" \notin m.given =>
             m.index = IF "index" \in m.from THEN t.index ELSE <<t.index[1]>>
        /\ "error_page" \notin m.given =>
             \/ m.errors = t.errors
             \/ "error_page" \in t.given /\ DOMAIN m.errors \subseteq DOMAIN t.errors
    BY <1>2, <2>1, <2>2 DEF Inherited
  <2>5. Inherited(m, t)
    BY <2>3, <2>4 DEF Inherited
  <2>6. QED
    BY <1>0, <2>0, <2>5
<1>4. \A l \in ToSet(fs) : Inherited(l, t)
  BY <1>0, <1>3 DEF ToSet
<1>5. QED
  BY <1>1, <1>2, <1>4

\* Before a file is read there are no locations.
LEMMA InitInherits == Init => InheritInv
<1> SUFFICES ASSUME Init
             PROVE  InheritInv
  OBVIOUS
<1>1. CASE at = "top" /\ http = NewHttp
  <2>1. server = NewServer(NewHttp) /\ NewHttp.limit \in Sizes /\ NewHttp.servers = <<>>
    BY DEF Init, NewHttp, Sizes
  <2>2. Unset(server) /\ AllCopied(server)
    BY <2>1, NewInherits
  <2>3. AllInherit(http.servers)
    BY <1>1, <2>1, ListEmpty DEF AllInherit
  <2>4. QED
    BY <1>1, <2>2, <2>3 DEF InheritInv, LocationsInherit, Accepted
<1>2. CASE at = "accepted" /\ http = [NewHttp EXCEPT !.servers = <<DefaultServer>>]
  <2>1. ~http.exists
    BY <1>2 DEF NewHttp
  <2>2. QED
    BY <1>2, <2>1 DEF InheritInv, LocationsInherit, Reading
<1>3. QED
  BY <1>1, <1>2 DEF Init

\* A step that goes on reading.
LEMMA GoesOnInherits ==
  ASSUME Reading', Unset(server'), AllCopied(server'), AllInherit(http'.servers),
         at' = "location" => Copied(location', server')
  PROVE  InheritInv'
BY DEF InheritInv, Reading, LocationsInherit, Accepted, AllCopied, AllInherit, Copied, Unset,
       Inherited

\* What is rejected has nothing to take over.
LEMMA RejectInherits ==
  ASSUME Reject
  PROVE  InheritInv'
BY DEF InheritInv, Reject, Reading, LocationsInherit, Accepted

\* A server that is finished, among those before.
LEMMA ServerEnteredInherits ==
  ASSUME BegunHttp(http), BegunServer(server), Complete(server),
         Unset(server), AllCopied(server), AllInherit(http.servers)
  PROVE  AllInherit(Append(http.servers, FilledServer(server)))
<1>0. PICK f, q : f = FilledServer(server) /\ q = Append(http.servers, f)
  OBVIOUS
<1>1. ToSet(q) = ToSet(http.servers) \cup {f}
  BY <1>0, ListAppend DEF BegunHttp
<1>2. \A l \in ToSet(f.locations) : Inherited(l, f)
  BY <1>0, ServerEndsInherits
<1>3. AllInherit(q)
  BY <1>1, <1>2 DEF AllInherit
<1>4. QED
  BY <1>0, <1>3

\* The end of the file, for all of the servers.
LEMMA FileEndsInherits ==
  ASSUME BegunHttp(http), AllInherit(http.servers)
  PROVE  AllInherit([i \in DOMAIN http.servers |-> FinalServer(http.servers[i], Fallback(http))])
<1>0. PICK q, p : /\ q = http.servers
                 /\ p = [i \in DOMAIN q |-> FinalServer(q[i], Fallback(http))]
  OBVIOUS
<1>1. Fallback(http) \in UsableLimits
  <2>1. http.limit \in Sizes
    BY DEF BegunHttp
  <2>2. QED
    BY <2>1, SizesAre, Limits DEF Fallback, Sizes
<1>2. ASSUME NEW i \in DOMAIN q
      PROVE  \A l \in ToSet(p[i].locations) : Inherited(l, p[i])
  <2>1. EndedServer(q[i]) /\ \A l \in ToSet(q[i].locations) : Inherited(l, q[i])
    BY <1>0 DEF BegunHttp, AllInherit, ToSet
  <2>2. p[i] = FinalServer(q[i], Fallback(http))
    BY <1>0
  <2>3. QED
    BY <1>1, <2>1, <2>2, FinalInherits
<1>3. AllInherit(p)
  <2>1. DOMAIN p = DOMAIN q
    BY <1>0
  <2>2. ASSUME NEW s \in ToSet(p)
        PROVE  \A l \in ToSet(s.locations) : Inherited(l, s)
    <3>1. PICK i \in DOMAIN p : s = p[i]
      BY <2>2 DEF ToSet
    <3>2. QED
      BY ONLY <1>2, <2>1, <3>1
  <2>3. QED
    BY ONLY <2>2 DEF AllInherit
<1>4. QED
  BY <1>0, <1>3

\* Every step keeps what is taken over.
LEMMA NextInherits == ReadInv /\ InheritInv /\ [Next]_vars => InheritInv'
<1> SUFFICES ASSUME ReadInv, InheritInv, [Next]_vars
             PROVE  InheritInv'
  OBVIOUS
<1> DEFINE Blocks == /\ BegunHttp(http) /\ BegunServer(server) /\ Begun(location)
                     /\ Unset(server) /\ AllCopied(server) /\ AllInherit(http.servers)
<1>0. /\ Reading => Blocks
      /\ at = "location" => Copied(location, server)
  BY DEF ReadInv, InheritInv
<1>1. CASE SyntaxError
  BY <1>1, RejectInherits DEF SyntaxError
<1>2. CASE OpenEvents \/ CloseEvents \/ CloseHttp
  <2>1. Blocks /\ Reading' /\ at' # "location" /\ UNCHANGED <<http, server, location>>
    BY <1>0, <1>2 DEF OpenEvents, CloseEvents, CloseHttp, Reading
  <2>2. QED
    BY <2>1, GoesOnInherits
<1>3. CASE OpenHttp
  <2>1. CASE http.exists
    BY <1>3, <2>1, RejectInherits DEF OpenHttp
  <2>2. CASE ~http.exists
    <3>1. /\ Blocks /\ http' = [http EXCEPT !.exists = TRUE]
          /\ Reading' /\ at' # "location" /\ UNCHANGED <<server, location>>
      BY <1>0, <1>3, <2>2 DEF OpenHttp, Reading
    <3>2. http'.servers = http.servers
      BY <3>1 DEF BegunHttp
    <3>3. QED
      BY <3>1, <3>2, GoesOnInherits
  <2>3. QED
    BY <2>1, <2>2
<1>4. ASSUME NEW st \in words.statements, Directive(st)
      PROVE  InheritInv'
  <2>1. Reading /\ Blocks
    BY <1>0, <1>4 DEF Directive, Reading
  <2>2. CASE Reject
    BY <2>2, RejectInherits
  <2>3. CASE ~Reject /\ at = "http"
    <3>1. /\ http' = HttpWith(http, st) /\ UNCHANGED <<at, server, location>>
      BY <1>4, <2>3 DEF Directive
    <3>2. http'.servers = http.servers
      BY <2>1, <3>1 DEF HttpWith, BegunHttp
    <3>3. Reading' /\ at' # "location"
      BY <2>3, <3>1 DEF Reading
    <3>4. QED
      BY <2>1, <3>1, <3>2, <3>3, GoesOnInherits
  <2>4. CASE ~Reject /\ at = "server"
    <3>1. /\ ServerTakes(server, st) /\ server' = ServerWith(server, st)
          /\ UNCHANGED <<at, http, location>>
      BY <1>4, <2>4 DEF Directive
    <3>2. Unset(server') /\ AllCopied(server')
      BY <2>1, <3>1, ServerDirectiveInherits
    <3>3. Reading' /\ at' # "location"
      BY <2>4, <3>1 DEF Reading
    <3>4. QED
      BY <2>1, <3>1, <3>2, <3>3, GoesOnInherits
  <2>5. CASE ~Reject /\ at = "location"
    <3>1. /\ LocationTakes(location, st) /\ location' = LocationWith(location, st)
          /\ UNCHANGED <<at, http, server>>
      BY <1>4, <2>5 DEF Directive
    <3>2. Copied(location', server')
      BY <1>0, <2>1, <2>5, <3>1, LocationDirectiveInherits
    <3>3. Reading'
      BY <2>5, <3>1 DEF Reading
    <3>4. QED
      BY <2>1, <3>1, <3>2, <3>3, GoesOnInherits
  <2>6. QED
    BY <1>4, <2>2, <2>3, <2>4, <2>5 DEF Directive
<1>5. CASE OpenServer
  <2>1. /\ Blocks /\ server' = NewServer(http) /\ UNCHANGED <<http, location>>
        /\ Reading' /\ at' # "location"
    BY <1>0, <1>5 DEF OpenServer, Reading
  <2>2. Unset(server') /\ AllCopied(server')
    BY <2>1, NewInherits DEF BegunHttp
  <2>3. QED
    BY <2>1, <2>2, GoesOnInherits
<1>6. ASSUME NEW p \in Paths, OpenLocation(p)
      PROVE  InheritInv'
  <2>1. /\ Blocks /\ location' = NewLocation(server, p) /\ UNCHANGED <<http, server>>
        /\ Reading'
    BY <1>0, <1>6 DEF OpenLocation, Reading
  <2>2. Copied(location', server')
    BY <2>1, NewInherits
  <2>3. QED
    BY <2>1, <2>2, GoesOnInherits
<1>7. CASE CloseLocation
  <2>1. /\ Blocks /\ server' = [server EXCEPT !.locations = Append(@, WithMethods(location))]
        /\ Copied(location, server)
        /\ UNCHANGED <<http, location>> /\ Reading' /\ at' # "location"
    BY <1>0, <1>7 DEF CloseLocation, Reading
  <2>2. Unset(server') /\ AllCopied(server')
    BY <2>1, LocationEndsInherits
  <2>3. QED
    BY <2>1, <2>2, GoesOnInherits
<1>8. CASE CloseServer
  <2>1. CASE ~Complete(server)
    BY <1>8, <2>1, RejectInherits DEF CloseServer
  <2>2. CASE Complete(server)
    <3>1. /\ Blocks /\ http' = [http EXCEPT !.servers = Append(@, FilledServer(server))]
          /\ UNCHANGED <<server, location>> /\ Reading' /\ at' # "location"
      BY <1>0, <1>8, <2>2 DEF CloseServer, Reading
    <3>2. http'.servers = Append(http.servers, FilledServer(server))
      BY <3>1 DEF BegunHttp
    <3>3. AllInherit(http'.servers)
      BY <2>2, <3>1, <3>2, ServerEnteredInherits
    <3>4. QED
      BY <3>1, <3>3, GoesOnInherits
  <2>3. QED
    BY <2>1, <2>2
<1>9. CASE EndOfFile
  <2>1. CASE http.servers = <<>> \/ ~Valid(http.servers)
    BY <1>9, <2>1, RejectInherits DEF EndOfFile
  <2>2. CASE ~(http.servers = <<>> \/ ~Valid(http.servers))
    <3>1. /\ Blocks /\ at' = "accepted"
          /\ http' = [http EXCEPT !.limit = Fallback(http),
                     !.servers = [i \in DOMAIN @ |-> FinalServer(@[i], Fallback(http))]]
      BY <1>0, <1>9, <2>2 DEF EndOfFile, Reading
    <3>2. http'.servers =
            [i \in DOMAIN http.servers |-> FinalServer(http.servers[i], Fallback(http))]
      BY <3>1 DEF BegunHttp
    <3>3. AllInherit(http'.servers)
      BY <3>1, <3>2, FileEndsInherits
    <3>4. LocationsInherit'
      BY <3>3 DEF LocationsInherit, AllInherit, Inherited
    <3>5. QED
      BY <3>1, <3>4 DEF InheritInv, Reading
  <2>3. QED
    BY <2>1, <2>2
<1>10. CASE Listen \/ Run \/ Done \/ UNCHANGED vars
  <2>1. CASE UNCHANGED vars
    <3>1. at' = at /\ http' = http /\ server' = server /\ location' = location
      BY <2>1 DEF vars
    <3>2. LocationsInherit'
      BY <3>1 DEF InheritInv, LocationsInherit, Accepted, Inherited
    <3>3. QED
      BY <3>1, <3>2 DEF InheritInv, Reading, AllCopied, AllInherit, Copied, Unset, Inherited
  <2>2. CASE Listen \/ Run
    <3>1. Accepted /\ ~Reading' /\ at' # "location" /\ http' = http
      BY <2>2 DEF Listen, Run, Accepted, Reading
    <3>2. LocationsInherit'
      BY <3>1 DEF InheritInv, LocationsInherit, Inherited
    <3>3. QED
      BY <3>1, <3>2 DEF InheritInv
  <2>3. QED
    BY <1>10, <2>1, <2>2 DEF Done
<1>11. QED
  BY <1>1, <1>2, <1>3, <1>4, <1>5, <1>6, <1>7, <1>8, <1>9, <1>10 DEF Next

\* For any file that is accepted, a location that says nothing about a setting
\* has its server's, but for the exceptions of Inherited: the copies made when
\* its block opens and the fillings afterwards come to that for any order of
\* the directives.
THEOREM SettingsInherited == Spec => []LocationsInherit
<1>1. Init => ReadInv /\ InheritInv
  BY InitRead, InitInherits
<1>2. ReadInv /\ InheritInv /\ [Next]_vars => ReadInv' /\ InheritInv'
  BY NextRead, NextInherits
<1>3. InheritInv => LocationsInherit
  BY DEF InheritInv
<1>4. QED
  BY <1>1, <1>2, <1>3, PTL DEF Spec
-----------------------------------------------------------------------------
(* Natural numbers. *)

\* Every non-empty set of natural numbers has a least element.
LEMMA LeastNat ==
  ASSUME NEW T \in SUBSET Nat, T # {}
  PROVE  \E n \in T : \A m \in T : n <= m
<1> DEFINE less == OpToRel(<, Nat)
<1>1. \A m, n \in Nat : m < n => <<m, n>> \in less
  BY DEF OpToRel
<1>2. IsWellFoundedOn(less, Nat)
  BY NatLessThanWellFounded
<1> HIDE DEF less
<1>3. PICK n \in T : \A m \in T : <<m, n>> \notin less
  BY <1>2, WFMin
<1>4. \A m \in T : n \in Nat /\ m \in Nat /\ ~(m < n)
  BY <1>1, <1>3
<1>5. \A m \in T : n <= m
  BY <1>4
<1>6. QED
  BY <1>5

\* Induction over the natural numbers, for a set of those that it holds of.
LEMMA NatSet ==
  ASSUME NEW S, 0 \in S, \A n \in Nat : n \in S => n + 1 \in S
  PROVE  \A n \in Nat : n \in S
<1>1. SUFFICES ASSUME Nat \ S # {} PROVE FALSE
  OBVIOUS
<1>2. PICK n \in Nat \ S : \A m \in Nat \ S : n <= m
  BY <1>1, LeastNat
<1>3. n # 0 /\ n - 1 \in Nat
  BY <1>2
<1>4. n - 1 \in S
  BY <1>2, <1>3
<1>5. QED
  BY <1>2, <1>3, <1>4

\* A set of indices has a greatest one, which Max gives.
LEMMA MaxIs ==
  ASSUME NEW n \in Nat, NEW s \in SUBSET (1 .. n), s # {}
  PROVE  Max(s) \in s /\ \A j \in s : j <= Max(s)
<1> DEFINE T == {k \in Nat : n - k \in s}
<1>1. PICK j \in s : TRUE
  OBVIOUS
<1>2. n - j \in Nat /\ n - (n - j) = j
  BY <1>1
<1>3. T \in SUBSET Nat /\ T # {}
  BY <1>1, <1>2
<1>4. PICK k \in T : \A m \in T : k <= m
  BY <1>3, LeastNat
<1>5. n - k \in s /\ k \in Nat
  BY <1>4
<1>6. ASSUME NEW m \in s PROVE m <= n - k
  <2>1. m \in 1 .. n /\ n - m \in Nat /\ n - (n - m) = m
    BY <1>6
  <2>2. n - m \in T
    BY <2>1
  <2>3. k <= n - m
    BY <1>4, <2>2
  <2>4. QED
    BY <1>5, <2>1, <2>3
<1>7. \E x \in s : \A y \in s : x >= y
  <2>1. \A y \in s : n - k >= y
    BY <1>5, <1>6
  <2>2. QED
    BY <1>5, <2>1
<1>8. Max(s) \in s /\ \A y \in s : Max(s) >= y
  BY <1>7 DEF Max
<1>9. QED
  BY <1>8

\* Of the numbers up to i the greatest is i; without it they are those before i.
LEMMA Initial ==
  ASSUME NEW n \in Nat, NEW i \in 1 .. n
  PROVE  /\ 1 .. i \in SUBSET (1 .. n) /\ 1 .. i # {}
         /\ Max(1 .. i) = i /\ (1 .. i) \ {i} = 1 .. (i - 1)
<1>1. 1 .. i \in SUBSET (1 .. n) /\ i \in 1 .. i
  OBVIOUS
<1>2. Max(1 .. i) \in 1 .. i /\ \A j \in 1 .. i : j <= Max(1 .. i)
  BY <1>1, MaxIs
<1>3. Max(1 .. i) = i
  BY <1>1, <1>2
<1>4. QED
  BY <1>1, <1>3

-----------------------------------------------------------------------------
(* Folds: FoldLeft is a choice among functions of the sets of indices that  *)
(* take their greatest one last. There is such a function.                  *)

\* Its steps, one for each index, stay in X.
Steps(X, step, n) == \A i \in 1 .. n : \A x \in X : step[i][x] \in X
Folds(base, step, n, h) ==
  h = [s \in SUBSET (1 .. n) |-> IF s = {} THEN base ELSE step[Max(s)][h[s \ {Max(s)}]]]

\* The function that a fold over a sequence chooses exists.
LEMMA FoldExists ==
  ASSUME NEW X, NEW base \in X, NEW n \in Nat, NEW step, Steps(X, step, n)
  PROVE  \E h : Folds(base, step, n, h) /\ \A s \in SUBSET (1 .. n) : h[s] \in X
<1> DEFINE Does(m, h) == Folds(base, step, m, h) /\ \A s \in SUBSET (1 .. m) : h[s] \in X
           S == {m \in Nat : m <= n => \E h : Does(m, h)}
<1>1. 0 \in S
  <2> DEFINE h == [s \in SUBSET (1 .. 0) |-> base]
  <2>1. \A s \in SUBSET (1 .. 0) : s = {}
    OBVIOUS
  <2>2. Does(0, h)
    BY <2>1 DEF Folds
  <2>3. QED
    BY <2>2
<1>2. ASSUME NEW m \in Nat, m \in S
      PROVE  m + 1 \in S
  <2>1. SUFFICES ASSUME m + 1 <= n PROVE \E h : Does(m + 1, h)
    OBVIOUS
  <2>2. PICK f : Does(m, f)
    BY <1>2, <2>1
  <2>20. \A s \in SUBSET (1 .. m) : s # {} => f[s] = step[Max(s)][f[s \ {Max(s)}]]
    BY <2>2 DEF Folds
  <2> DEFINE k == m + 1
             h == [s \in SUBSET (1 .. k) |-> IF k \in s THEN step[k][f[s \ {k}]] ELSE f[s]]
  <2>3. \A s \in SUBSET (1 .. k) : s \ {k} \in SUBSET (1 .. m) /\ (k \notin s => s \in SUBSET (1 .. m))
    OBVIOUS
  <2>4. k \in 1 .. n /\ k \in Nat
    BY <2>1
  <2> HIDE DEF k
  <2>5. ASSUME NEW s \in SUBSET (1 .. k) PROVE h[s] \in X
    <3>1. f[s \ {k}] \in X /\ (k \notin s => f[s] \in X)
      BY <2>2, <2>3
    <3>2. QED
      BY <2>4, <3>1 DEF Steps
  <2>6. ASSUME NEW s \in SUBSET (1 .. k), s # {}
        PROVE  h[s] = step[Max(s)][h[s \ {Max(s)}]]
    <3>1. Max(s) \in s /\ (\A j \in s : j <= Max(s)) /\ s \ {Max(s)} \in SUBSET (1 .. k)
      BY <2>4, <2>6, MaxIs
    <3>2. CASE k \in s
      <4>1. Max(s) \in 1 .. k /\ k <= Max(s)
        BY <3>1, <3>2
      <4>2. Max(s) = k
        BY ONLY <2>4, <4>1
      <4>3. h[s] = step[k][f[s \ {k}]] /\ h[s \ {k}] = f[s \ {k}]
        BY <3>1, <3>2, <4>2
      <4>4. QED
        BY <4>2, <4>3
    <3>3. CASE k \notin s
      <4>1. s \in SUBSET (1 .. m) /\ h[s] = f[s] /\ h[s \ {Max(s)}] = f[s \ {Max(s)}]
        BY <2>3, <3>1, <3>3
      <4>2. f[s] = step[Max(s)][f[s \ {Max(s)}]]
        BY ONLY <2>6, <2>20, <4>1
      <4>3. QED
        BY <4>1, <4>2
    <3>4. QED
      BY <3>2, <3>3
  <2>7. h[{}] = base
    <3>1. {} \in SUBSET (1 .. m) /\ {} \in SUBSET (1 .. k)
      OBVIOUS
    <3>2. QED
      BY <2>2, <3>1 DEF Folds
  <2>8. ASSUME NEW s \in SUBSET (1 .. k)
        PROVE  h[s] = IF s = {} THEN base ELSE step[Max(s)][h[s \ {Max(s)}]]
    BY <2>6, <2>7
  <2>9. h = [s \in SUBSET (1 .. k) |-> h[s]]
    OBVIOUS
  <2> HIDE DEF h
  <2>10. h = [s \in SUBSET (1 .. k) |-> IF s = {} THEN base ELSE step[Max(s)][h[s \ {Max(s)}]]]
    BY <2>8, <2>9
  <2>11. Does(k, h)
    BY <2>5, <2>10 DEF Folds
  <2>12. QED
    BY <2>11 DEF k
<1> HIDE DEF S
<1>3. n \in S
  BY <1>1, <1>2, NatSet
<1>4. QED
  BY <1>3 DEF S

-----------------------------------------------------------------------------
(* Numbers. *)

StrtolBy(text, g) ==
  /\ g[0] = 0
  /\ text # <<>> => Strtol(text) = g[Len(text)]
  /\ \A i \in 1 .. Len(text) : g[i] = IF g[i - 1] = NotANumber THEN g[i - 1] ELSE Shifted(g[i - 1], text[i])
  /\ \A i \in 0 .. Len(text) : g[i] \in Nat \cup {NotANumber}

\* safe_strtol's loop, digit by digit.
LEMMA StrtolRun ==
  ASSUME NEW text \in Seq(0 .. 9)
  PROVE  \E g : StrtolBy(text, g)
<1> DEFINE n == Len(text)
           X == Nat \cup {NotANumber}
           base == 0
           One(x, t) == IF x = NotANumber THEN x ELSE Shifted(x, t)
           step == [i \in 1 .. n |-> [x \in X |-> One(x, text[i])]]
           Eq(h) == h = [d \in SUBSET (1 .. n) |-> IF d = {} THEN base ELSE One(h[d \ {Max(d)}], text[Max(d)])]
           h == CHOOSE h : Eq(h)
<1>1. n \in Nat /\ DOMAIN text = 1 .. n /\ \A i \in 1 .. n : text[i] \in 0 .. 9
  BY LenProperties, ElementOfSeq
<1>2. text # <<>> => Strtol(text) = h[1 .. n]
  BY <1>1 DEF Strtol, FoldLeft, MapThenFoldSet
<1> HIDE DEF n
<1>3. \A x \in X, t \in 0 .. 9 : One(x, t) \in X
  BY DEF Shifted, NotANumber
<1>5. base \in X
  OBVIOUS
<1> HIDE DEF One, X, base
<1>4. Steps(X, step, n)
  BY <1>1, <1>3 DEF Steps
<1>6. PICK f : Folds(base, step, n, f) /\ \A d \in SUBSET (1 .. n) : f[d] \in X
  BY <1>1, <1>4, <1>5, FoldExists
<1>7. ASSUME NEW d \in SUBSET (1 .. n)
      PROVE  f[d] = IF d = {} THEN base ELSE One(f[d \ {Max(d)}], text[Max(d)])
  <2>1. CASE d = {}
    BY <1>6, <2>1 DEF Folds
  <2>2. CASE d # {}
    <3>1. Max(d) \in 1 .. n /\ d \ {Max(d)} \in SUBSET (1 .. n)
      BY <1>1, <2>2, MaxIs
    <3>2. step[Max(d)][f[d \ {Max(d)}]] = One(f[d \ {Max(d)}], text[Max(d)])
      BY <1>6, <3>1
    <3>3. QED
      BY <1>6, <2>2, <3>2 DEF Folds
  <2>3. QED
    BY <2>1, <2>2
<1>8. f = [d \in SUBSET (1 .. n) |-> f[d]]
  BY <1>6 DEF Folds
<1>9. Eq(f)
  BY <1>7, <1>8
<1>10. Eq(h)
  BY <1>9
<1> HIDE DEF h
<1> DEFINE g == [i \in 0 .. n |-> h[1 .. i]]
<1>11. g[0] = base /\ g[n] = h[1 .. n]
  <2>1. h[{}] = base /\ 1 .. 0 = {} /\ 0 \in 0 .. n /\ n \in 0 .. n
    BY <1>1, <1>10
  <2>2. QED
    BY <2>1
<1>12. ASSUME NEW i \in 1 .. n PROVE g[i] = One(g[i - 1], text[i])
  <2>1. /\ 1 .. i \in SUBSET (1 .. n) /\ 1 .. i # {}
        /\ Max(1 .. i) = i /\ (1 .. i) \ {i} = 1 .. (i - 1)
    BY <1>1, Initial
  <2>2. h[1 .. i] = One(h[1 .. (i - 1)], text[i])
    BY <1>10, <2>1
  <2>3. i \in 0 .. n /\ i - 1 \in 0 .. n
    BY <1>1
  <2>4. QED
    BY <2>2, <2>3
<1> HIDE DEF g
<1>13. \A i \in 0 .. n : g[i] \in X
  <2> DEFINE S == {i \in Nat : i <= n => g[i] \in X}
  <2>1. 0 \in S
    BY <1>5, <1>11
  <2>2. ASSUME NEW i \in Nat, i \in S PROVE i + 1 \in S
    <3>1. SUFFICES ASSUME i + 1 <= n PROVE g[i + 1] \in X
      OBVIOUS
    <3>2. i + 1 \in 1 .. n /\ (i + 1) - 1 = i /\ g[i] \in X
      BY <1>1, <2>2, <3>1
    <3>3. g[i + 1] = One(g[i], text[i + 1]) /\ text[i + 1] \in 0 .. 9
      BY <1>1, <1>12, <3>2
    <3>4. QED
      BY <1>3, <3>2, <3>3
  <2> HIDE DEF S
  <2>3. \A i \in Nat : i \in S
    BY <2>1, <2>2, NatSet
  <2>4. QED
    BY <1>1, <2>3 DEF S
<1>14. StrtolBy(text, g)
  BY <1>2, <1>11, <1>12, <1>13 DEF StrtolBy, One, X, base, n
<1>15. QED
  BY <1>14

\* The reference, from the last digit on.
Low == [value : Nat, weight : Nat]
Below(r, digit) == [value |-> r.value + digit * r.weight, weight |-> 10 * r.weight]
DecimalBy(text, f) ==
  /\ f[0] = [value |-> 0, weight |-> 1] /\ Decimal(text) = f[Len(text)].value
  /\ \A k \in 1 .. Len(text) : f[k] = Below(f[k - 1], text[Len(text) - k + 1])
  /\ \A k \in 0 .. Len(text) : f[k] \in Low

\* The function that Decimal is by recursion exists.
LEMMA DecimalRun ==
  ASSUME NEW text \in Seq(0 .. 9)
  PROVE  \E f : DecimalBy(text, f)
<1> DEFINE n == Len(text)
           base == [value |-> 0, weight |-> 1]
           digit(k) == text[n - k + 1]
           Is(m, f) == f = [k \in 0 .. m |-> IF k = 0 THEN base ELSE Below(f[k - 1], digit(k))]
           S == {m \in Nat : m <= n => \E f : Is(m, f)}
           f == CHOOSE f : Is(n, f)
<1>1. n \in Nat /\ \A i \in 1 .. n : text[i] \in 0 .. 9
  BY LenProperties, ElementOfSeq
<1>2. Decimal(text) = f[n].value
  BY DEF Decimal, Below
<1>3. \A k \in 1 .. n : digit(k) \in Nat
  <2>1. \A k \in 1 .. n : n - k + 1 \in 1 .. n
    BY <1>1
  <2>2. QED
    BY <1>1, <2>1
<1> HIDE DEF n, base, digit
<1>4. 0 \in S
  <2> DEFINE h == [k \in 0 .. 0 |-> base]
  <2>1. h = [k \in 0 .. 0 |-> IF k = 0 THEN base ELSE Below(h[k - 1], digit(k))]
    OBVIOUS
  <2>2. QED
    BY <2>1
<1>5. ASSUME NEW m \in Nat, m \in S PROVE m + 1 \in S
  <2>1. SUFFICES ASSUME m + 1 <= n PROVE \E h : Is(m + 1, h)
    OBVIOUS
  <2>2. PICK e : Is(m, e)
    BY <1>1, <1>5, <2>1
  <2> DEFINE h == [k \in 0 .. m + 1 |-> IF k = m + 1 THEN Below(e[m], digit(k)) ELSE e[k]]
  <2>3. ASSUME NEW k \in 0 .. m + 1
        PROVE  h[k] = IF k = 0 THEN base ELSE Below(h[k - 1], digit(k))
    <3>1. CASE k = m + 1
      <4>1. m \in 0 .. m + 1 /\ m # m + 1 /\ k - 1 = m /\ k # 0
        BY <3>1
      <4>2. QED
        BY <3>1, <4>1
    <3>2. CASE k = 0
      <4>1. 0 \in 0 .. m /\ 0 # m + 1
        OBVIOUS
      <4>2. QED
        BY <2>2, <3>2, <4>1
    <3>3. CASE k \in 1 .. m
      <4>1. k \in 0 .. m /\ k # 0 /\ k # m + 1 /\ k - 1 \in 0 .. m + 1 /\ k - 1 # m + 1
        BY <3>3
      <4>2. e[k] = Below(e[k - 1], digit(k))
        BY <2>2, <4>1
      <4>3. QED
        BY <4>1, <4>2
    <3>4. QED
      BY <3>1, <3>2, <3>3
  <2>4. h = [k \in 0 .. m + 1 |-> h[k]]
    OBVIOUS
  <2> HIDE DEF h
  <2>5. Is(m + 1, h)
    BY <2>3, <2>4
  <2>6. QED
    BY <2>5
<1> HIDE DEF S
<1>6. n \in S
  BY <1>1, <1>4, <1>5, NatSet
<1>7. Is(n, f)
  BY <1>1, <1>6 DEF S
<1> HIDE DEF f
<1>8. f[0] = base /\ \A k \in 1 .. n : f[k] = Below(f[k - 1], digit(k))
  <2>1. 0 \in 0 .. n /\ \A k \in 1 .. n : k \in 0 .. n /\ k # 0
    BY <1>1
  <2>2. QED
    BY <1>7, <2>1
<1>9. \A k \in 0 .. n : f[k] \in Low
  <2> DEFINE T == {k \in Nat : k <= n => f[k] \in Low}
  <2>1. 0 \in T
    BY <1>8 DEF base, Low
  <2>2. ASSUME NEW k \in Nat, k \in T PROVE k + 1 \in T
    <3>1. SUFFICES ASSUME k + 1 <= n PROVE f[k + 1] \in Low
      OBVIOUS
    <3>2. k + 1 \in 1 .. n /\ (k + 1) - 1 = k /\ f[k] \in Low
      BY <1>1, <2>2, <3>1
    <3>3. f[k + 1] = Below(f[k], digit(k + 1)) /\ digit(k + 1) \in Nat
      BY <1>3, <1>8, <3>2
    <3>4. ASSUME NEW r \in Low, NEW d \in Nat PROVE Below(r, d) \in Low
      BY DEF Low, Below
    <3>5. QED
      BY <3>2, <3>3, <3>4
  <2> HIDE DEF T
  <2>3. \A k \in Nat : k \in T
    BY <2>1, <2>2, NatSet
  <2>4. QED
    BY <1>1, <2>3 DEF T
<1>10. DecimalBy(text, f)
  BY <1>2, <1>8, <1>9 DEF DecimalBy, base, digit, n
<1>11. QED
  BY <1>10

\* A digit is added only if there is room for it.
LEMMA ShiftedIs ==
  ASSUME NEW x \in Nat, NEW digit \in 0 .. 9, Shifted(x, digit) # NotANumber
  PROVE  Shifted(x, digit) = x * 10 + digit /\ x * 10 + digit <= LongMax
<1> DEFINE q == (LongMax - digit) \div 10
<1>1. ~(x > q) /\ Shifted(x, digit) = x * 10 + digit
  BY DEF Shifted
<1>2. LongMax \in Int /\ q \in Int /\ 10 * q <= LongMax - digit
  BY Widths
<1> HIDE DEF q
<1>3. x <= q
  BY <1>1, <1>2
<1>4. x * 10 + digit <= LongMax
  BY <1>2, <1>3
<1>5. QED
  BY <1>1, <1>4

\* What has been read, with the weight of what is left, and the value of what
\* is left make the whole value all along.
LEMMA StrtolRight ==
  ASSUME NEW text \in Seq(0 .. 9), Strtol(text) # NotANumber
  PROVE  Strtol(text) \in Nat /\ Strtol(text) = Decimal(text) /\ Decimal(text) <= LongMax
<1> DEFINE n == Len(text)
<1>1. n \in Nat /\ \A i \in 1 .. n : text[i] \in 0 .. 9
  BY LenProperties, ElementOfSeq
<1>2. PICK g : StrtolBy(text, g)
  BY StrtolRun
<1>3. PICK f : DecimalBy(text, f)
  BY DecimalRun
<1>4. text # <<>>
  BY DEF Strtol
<1>5. /\ g[0] = 0 /\ Strtol(text) = g[n]
      /\ \A i \in 1 .. n : g[i] = IF g[i - 1] = NotANumber THEN g[i - 1] ELSE Shifted(g[i - 1], text[i])
      /\ \A i \in 0 .. n : g[i] \in Nat \cup {NotANumber}
  BY <1>2, <1>4 DEF StrtolBy
<1>6. /\ f[0] = [value |-> 0, weight |-> 1] /\ Decimal(text) = f[n].value
      /\ \A k \in 1 .. n : f[k] = Below(f[k - 1], text[n - k + 1])
      /\ \A k \in 0 .. n : f[k] \in Low
  BY <1>3 DEF DecimalBy
<1> HIDE DEF n
<1> DEFINE Good(i) == g[i] # NotANumber =>
                        g[i] * f[n - i].weight + f[n - i].value = f[n].value /\ g[i] <= LongMax
           S == {i \in Nat : i <= n => Good(i)}
<1>7. 0 \in S
  <2>1. n - 0 = n /\ f[n] \in Low
    BY <1>1, <1>6
  <2>2. f[n].weight \in Nat /\ f[n].value \in Nat
    BY <2>1 DEF Low
  <2>3. 0 * f[n].weight + f[n].value = f[n].value
    BY <2>2
  <2>4. QED
    BY <1>5, <2>1, <2>3, Widths
<1>8. ASSUME NEW i \in Nat, i \in S PROVE i + 1 \in S
  <2>1. SUFFICES ASSUME i + 1 <= n, g[i + 1] # NotANumber
                 PROVE  g[i + 1] * f[n - (i + 1)].weight + f[n - (i + 1)].value = f[n].value
                        /\ g[i + 1] <= LongMax
    OBVIOUS
  <2> DEFINE k == n - i
             x == g[i]
             d == text[i + 1]
             r == f[k - 1]
  <2>2. /\ i + 1 \in 1 .. n /\ (i + 1) - 1 = i /\ i \in 0 .. n /\ k \in 1 .. n /\ k - 1 \in 0 .. n
        /\ n - k + 1 = i + 1 /\ n - (i + 1) = k - 1
    BY <1>1, <2>1
  <2>3. d \in 0 .. 9 /\ r \in Low /\ x \in Nat \cup {NotANumber} /\ Good(i)
    BY <1>1, <1>5, <1>6, <1>8, <2>1, <2>2
  <2>4. f[k] = Below(r, d)
    BY <1>6, <2>2
  <2>5. g[i + 1] = IF x = NotANumber THEN x ELSE Shifted(x, d)
    BY <1>5, <2>2
  <2>6. x # NotANumber /\ x \in Nat /\ g[i + 1] = Shifted(x, d)
    BY <2>1, <2>3, <2>5
  <2>7. g[i + 1] = x * 10 + d /\ x * 10 + d <= LongMax
    BY <2>1, <2>3, <2>6, ShiftedIs
  <2>8. x * f[k].weight + f[k].value = f[n].value
    BY <2>3, <2>6
  <2> DEFINE w == r.weight
             v == r.value
             total == f[n].value
  <2>9. w \in Nat /\ v \in Nat /\ f[k].weight = 10 * w /\ f[k].value = v + d * w
    BY <2>3, <2>4 DEF Low, Below
  <2> HIDE DEF k, x, d, r, w, v, total
  <2>10. x * (10 * w) + (v + d * w) = total
    BY <2>8, <2>9 DEF total
  <2>11. (x * 10 + d) * w + v = x * (10 * w) + (v + d * w)
    <3>1. \A a, b, c, e \in Nat : (a * 10 + b) * c + e = a * (10 * c) + (e + b * c)
      OBVIOUS
    <3>2. x \in Nat /\ d \in Nat /\ w \in Nat /\ v \in Nat
      BY <2>3, <2>6, <2>9
    <3>3. QED
      BY <3>1, <3>2
  <2>12. (x * 10 + d) * w + v = total
    BY <2>10, <2>11
  <2>13. QED
    BY <2>2, <2>7, <2>12 DEF w, v, r, total
<1> HIDE DEF S
<1>9. \A i \in Nat : i \in S
  BY <1>7, <1>8, NatSet
<1>10. Good(n)
  BY <1>1, <1>9 DEF S
<1>11. g[n] \in Nat
  BY <1>1, <1>5
<1>12. n - n = 0
  BY <1>1
<1>13. g[n] * 1 + 0 = f[n].value /\ g[n] <= LongMax
  <2>1. g[n] # NotANumber
    BY <1>5
  <2>2. f[n - n].weight = 1 /\ f[n - n].value = 0
    BY <1>6, <1>12
  <2>3. QED
    BY <1>10, <2>1, <2>2
<1>14. QED
  BY <1>5, <1>6, <1>11, <1>13

\* The conversion to an int takes a multiple of its width away.
LEMMA ToIntRight ==
  ASSUME NEW n \in Nat
  PROVE  ToInt(n) \in Int /\ (n - ToInt(n)) % IntMod = 0
<1> DEFINE M == IntMod
           q == n \div M
           r == n % M
<1>1. M \in Nat /\ M > 1
  BY Widths
<1> HIDE DEF M
<1>2. q \in Int /\ r \in Int /\ 0 <= r /\ r < M /\ n = M * q + r
  BY <1>1
<1>3. ToInt(n) = r \/ ToInt(n) = r - M
  BY DEF ToInt, M
<1> HIDE DEF q, r
<1>4. \A z \in Int : (M * z) % M = 0
  <2>1. SUFFICES ASSUME NEW z \in Int PROVE (M * z) % M = 0
    OBVIOUS
  <2> DEFINE y == M * z
             p == y \div M
             s == y % M
  <2>2. y \in Int
    BY <1>1
  <2> HIDE DEF y
  <2>3. p \in Int /\ s \in Int /\ 0 <= s /\ s < M /\ y = M * p + s
    BY <1>1, <2>2
  <2> HIDE DEF p, s
  <2>4. s = M * (z - p)
    BY <1>1, <2>1, <2>3 DEF y
  <2> DEFINE e == z - p
  <2>5. e \in Int
    BY <2>1, <2>3
  <2> HIDE DEF e
  <2>6. s = M * e
    BY <2>4 DEF e
  <2>7. ~(e >= 1)
    <3>1. SUFFICES ASSUME e >= 1 PROVE FALSE
      OBVIOUS
    <3>2. M * e >= M * 1
      BY <1>1, <2>5, <3>1
    <3>3. QED
      BY <1>1, <2>3, <2>6, <3>2
  <2>8. ~(e <= -1)
    <3>1. SUFFICES ASSUME e <= -1 PROVE FALSE
      OBVIOUS
    <3>2. M * e <= M * (-1)
      BY <1>1, <2>5, <3>1
    <3>3. QED
      BY <1>1, <2>3, <2>6, <3>2
  <2>9. e = 0
    BY <2>5, <2>7, <2>8
  <2>10. s = 0
    BY <1>1, <2>6, <2>9
  <2>11. QED
    BY <2>10 DEF s, y
<1>5. n - r = M * q /\ n - (r - M) = M * (q + 1)
  BY <1>1, <1>2
<1>6. QED
  BY <1>1, <1>2, <1>3, <1>4, <1>5 DEF M

-----------------------------------------------------------------------------
(* Numbers in servers.  What is kept as history is what was written. *)

Written(text, n) == Decimal(text) <= LongMax /\ (Decimal(text) - n) % IntMod = 0
AsWritten(s) ==
  /\ s.text = [port |-> s.text.port, timeout |-> s.text.timeout]
  /\ s.text.port # <<>> => Written(s.text.port, s.port)
  /\ Written(s.text.timeout, s.timeout)
AllWritten(servers) == \A s \in ToSet(servers) : AsWritten(s)

NumberInv ==
  /\ Reading => AsWritten(server) /\ AllWritten(http.servers)
  /\ NumbersAsWritten

\* What a test of its range lets through is what was written.
LEMMA InRange ==
  ASSUME NEW text \in Seq(0 .. 9), NEW range, IsIn(text, range)
  PROVE  Written(text, ToInt(Strtol(text)))
<1>1. Strtol(text) # NotANumber
  BY DEF IsIn
<1>2. Strtol(text) \in Nat /\ Strtol(text) = Decimal(text) /\ Decimal(text) <= LongMax
  BY <1>1, StrtolRight
<1> DEFINE n == Strtol(text)
<1>3. n \in Nat
  BY <1>2
<1> HIDE DEF n
<1>4. (n - ToInt(n)) % IntMod = 0
  BY <1>3, ToIntRight
<1>5. QED
  BY <1>2, <1>4 DEF Written, n

\* A server begins with no text and a timeout of 0.
LEMMA NewAsWritten ==
  ASSUME NEW h
  PROVE  AsWritten(NewServer(h))
<1> DEFINE s == NewServer(h)
<1>1. s.text = [port |-> <<>>, timeout |-> <<>>] /\ s.timeout = 0
  BY DEF NewServer
<1>2. s.text.port = <<>> /\ s.text.timeout = <<>>
  BY <1>1
<1>3. Decimal(<<>>) = 0
  <2>1. <<>> \in Seq(0 .. 9) /\ Len(<<>>) = 0
    BY EmptySeq
  <2>2. PICK f : DecimalBy(<<>>, f)
    BY <2>1, DecimalRun
  <2>3. Decimal(<<>>) = f[0].value /\ f[0].value = 0
    BY <2>1, <2>2 DEF DecimalBy
  <2>4. QED
    BY <2>3
<1> HIDE DEF s
<1>4. (0 - 0) % IntMod = 0 /\ 0 <= LongMax
  BY Widths
<1>5. Written(<<>>, 0)
  BY <1>3, <1>4 DEF Written
<1>6. AsWritten(s)
  BY <1>1, <1>2, <1>5 DEF AsWritten
<1>7. QED
  BY <1>6 DEF s

\* What directives write down is what they set.
LEMMA ServerDirectiveWritten ==
  ASSUME words \in Vocabularies, NEW st \in words.statements,
         BegunServer(server), AsWritten(server), ServerTakes(server, st)
  PROVE  AsWritten(ServerWith(server, st))
<1>0. PICK v, q, t : /\ v = st.value /\ q = [server EXCEPT !.given = @ \cup {st.name}]
                    /\ t = ServerWith(server, st)
  OBVIOUS
<1>1. /\ q.port = server.port /\ q.timeout = server.timeout /\ q.text = server.text
      /\ q = [host |-> q.host, port |-> q.port, name |-> q.name, root |-> q.root,
              index |-> q.index, limit |-> q.limit, timeout |-> q.timeout,
              errors |-> q.errors, locations |-> q.locations, given |-> q.given,
              start |-> q.start, text |-> q.text]
  BY <1>0 DEF BegunServer, ServerShape
<1>2. /\ q.text = [port |-> q.text.port, timeout |-> q.text.timeout]
      /\ q.text.port # <<>> => Written(q.text.port, q.port)
      /\ Written(q.text.timeout, q.timeout)
  BY <1>1 DEF AsWritten
<1>3. CASE st.name \in {"root", "index", "server_name", "client_max_body_size", "error_page"}
  <2>1. t \in {[q EXCEPT !.root = v], [q EXCEPT !.index = @ \o v], [q EXCEPT !.name = v],
               [q EXCEPT !.limit = SizeOf(v)], [q EXCEPT !.errors = WithErrors(@, v)]}
    BY <1>0, <1>3 DEF ServerWith
  <2>2. t.port = q.port /\ t.timeout = q.timeout /\ t.text = q.text
    BY <1>1, <2>1
  <2>3. QED
    BY <1>0, <1>2, <2>2 DEF AsWritten
<1>4. CASE st.name = "listen"
  <2>1. t = [q EXCEPT !.host = ListenHost(v), !.port = ListenPort(v), !.text.port = v.port]
    BY <1>0, <1>4 DEF ServerWith
  <2>2. t.port = ListenPort(v) /\ t.timeout = q.timeout /\ t.text = [q.text EXCEPT !.port = v.port]
    BY <1>1, <2>1
  <2>3. t.text = [port |-> v.port, timeout |-> q.text.timeout]
    BY <1>2, <2>2
  <2>4. ASSUME v.port # <<>> PROVE Written(v.port, ListenPort(v))
    <3>1. ListenOk(v) /\ v.port \in Seq(0 .. 9)
      BY <1>0, <1>4, Values DEF ServerTakes
    <3>2. IsIn(v.port, 1 .. MaxPort)
      BY <2>4, <3>1 DEF ListenOk
    <3>3. QED
      BY <2>4, <3>1, <3>2, InRange DEF ListenPort
  <2>5. QED
    BY <1>0, <1>2, <2>2, <2>3, <2>4 DEF AsWritten
<1>5. CASE st.name = "timeout"
  <2>1. t = [q EXCEPT !.timeout = ToInt(Strtol(v)), !.text.timeout = v]
    BY <1>0, <1>5 DEF ServerWith
  <2>2. t.port = q.port /\ t.timeout = ToInt(Strtol(v)) /\ t.text = [q.text EXCEPT !.timeout = v]
    BY <1>1, <2>1
  <2>3. t.text = [port |-> q.text.port, timeout |-> v]
    BY <1>2, <2>2
  <2>4. Written(v, ToInt(Strtol(v)))
    <3>1. IsIn(v, 1 .. MaxTimeout) /\ v \in Seq(0 .. 9)
      BY <1>0, <1>5, Values DEF ServerTakes
    <3>2. QED
      BY <3>1, InRange
  <2>5. QED
    BY <1>0, <1>2, <2>2, <2>3, <2>4 DEF AsWritten
<1>6. QED
  BY <1>3, <1>4, <1>5 DEF ServerTakes

\* The ends of blocks and of the file change no number.
LEMMA EndsWritten ==
  ASSUME NEW s, ServerShape(s), AsWritten(s)
  PROVE  AsWritten(FilledServer(s)) /\ \A n : AsWritten(FinalServer(s, n))
<1>1. \A t : t.text = s.text /\ t.port = s.port /\ t.timeout = s.timeout => AsWritten(t)
  BY DEF AsWritten
<1>2. /\ FilledServer(s).text = s.text /\ FilledServer(s).port = s.port
      /\ FilledServer(s).timeout = s.timeout
  BY DEF FilledServer, ServerShape
<1>3. ASSUME NEW n
      PROVE  /\ FinalServer(s, n).text = s.text /\ FinalServer(s, n).port = s.port
             /\ FinalServer(s, n).timeout = s.timeout
  BY DEF FinalServer, ServerShape
<1>4. QED
  BY <1>1, <1>2, <1>3

\* Before a file is read there are no numbers.
LEMMA InitWritten == Init => NumberInv
<1> SUFFICES ASSUME Init
             PROVE  NumberInv
  OBVIOUS
<1>1. CASE at = "top" /\ http = NewHttp
  <2>1. server = NewServer(NewHttp) /\ http.servers = <<>>
    BY <1>1 DEF Init, NewHttp
  <2>2. AsWritten(server) /\ AllWritten(http.servers)
    BY <2>1, NewAsWritten, ListEmpty DEF AllWritten
  <2>3. QED
    BY <1>1, <2>2 DEF NumberInv, NumbersAsWritten, Accepted
<1>2. CASE at = "accepted" /\ http = [NewHttp EXCEPT !.servers = <<DefaultServer>>]
  <2>1. ~http.exists
    BY <1>2 DEF NewHttp
  <2>2. QED
    BY <1>2, <2>1 DEF NumberInv, NumbersAsWritten, Reading
<1>3. QED
  BY <1>1, <1>2 DEF Init

\* A step that goes on reading, and one that ends it.
LEMMA GoesOnWritten ==
  ASSUME Reading', AsWritten(server'), AllWritten(http'.servers)
  PROVE  NumberInv'
BY DEF NumberInv, Reading, NumbersAsWritten, Accepted, AllWritten, AsWritten, Written, Decimal

\* What is rejected uses none.
LEMMA RejectWritten ==
  ASSUME Reject
  PROVE  NumberInv'
BY DEF NumberInv, Reject, Reading, NumbersAsWritten, Accepted

\* What is accepted has those of its servers.
LEMMA AcceptedWritten ==
  ASSUME AllWritten(http'.servers), ~Reading'
  PROVE  NumberInv'
BY DEF NumberInv, NumbersAsWritten, AllWritten, AsWritten, Written

\* Every step keeps numbers as written.
LEMMA NextWritten == ReadInv /\ NumberInv /\ [Next]_vars => NumberInv'
<1> SUFFICES ASSUME ReadInv, NumberInv, [Next]_vars
             PROVE  NumberInv'
  OBVIOUS
<1> DEFINE Blocks == /\ BegunHttp(http) /\ BegunServer(server)
                     /\ AsWritten(server) /\ AllWritten(http.servers)
<1>0. Reading => Blocks
  BY DEF ReadInv, NumberInv
<1>1. CASE SyntaxError
  BY <1>1, RejectWritten DEF SyntaxError
<1>2. CASE OpenEvents \/ CloseEvents \/ CloseHttp \/ \E p \in Paths : OpenLocation(p)
  <2>1. Blocks /\ Reading' /\ UNCHANGED <<http, server>>
    BY <1>0, <1>2 DEF OpenEvents, CloseEvents, CloseHttp, OpenLocation, Reading
  <2>2. QED
    BY <2>1, GoesOnWritten
<1>3. CASE OpenHttp
  <2>1. CASE http.exists
    BY <1>3, <2>1, RejectWritten DEF OpenHttp
  <2>2. CASE ~http.exists
    <3>1. /\ Blocks /\ http' = [http EXCEPT !.exists = TRUE]
          /\ Reading' /\ UNCHANGED server
      BY <1>0, <1>3, <2>2 DEF OpenHttp, Reading
    <3>2. http'.servers = http.servers
      BY <3>1 DEF BegunHttp
    <3>3. QED
      BY <3>1, <3>2, GoesOnWritten
  <2>3. QED
    BY <2>1, <2>2
<1>4. ASSUME NEW st \in words.statements, Directive(st)
      PROVE  NumberInv'
  <2>1. Reading /\ Blocks /\ words \in Vocabularies
    BY <1>0, <1>4 DEF Directive, Reading, ReadInv
  <2>2. CASE Reject
    BY <2>2, RejectWritten
  <2>3. CASE ~Reject /\ at = "http"
    <3>1. http' = HttpWith(http, st) /\ UNCHANGED <<at, server>>
      BY <1>4, <2>3 DEF Directive
    <3>2. http'.servers = http.servers
      BY <2>1, <3>1 DEF HttpWith, BegunHttp
    <3>3. Reading'
      BY <2>3, <3>1 DEF Reading
    <3>4. QED
      BY <2>1, <3>1, <3>2, <3>3, GoesOnWritten
  <2>4. CASE ~Reject /\ at = "server"
    <3>1. ServerTakes(server, st) /\ server' = ServerWith(server, st) /\ UNCHANGED <<at, http>>
      BY <1>4, <2>4 DEF Directive
    <3>2. AsWritten(server')
      BY <2>1, <3>1, ServerDirectiveWritten
    <3>3. Reading'
      BY <2>4, <3>1 DEF Reading
    <3>4. QED
      BY <2>1, <3>1, <3>2, <3>3, GoesOnWritten
  <2>5. CASE ~Reject /\ at = "location"
    <3>1. UNCHANGED <<at, http, server>>
      BY <1>4, <2>5 DEF Directive
    <3>2. Reading'
      BY <2>5, <3>1 DEF Reading
    <3>3. QED
      BY <2>1, <3>1, <3>2, GoesOnWritten
  <2>6. QED
    BY <1>4, <2>2, <2>3, <2>4, <2>5 DEF Directive
<1>5. CASE OpenServer
  <2>1. Blocks /\ server' = NewServer(http) /\ UNCHANGED http /\ Reading'
    BY <1>0, <1>5 DEF OpenServer, Reading
  <2>2. AsWritten(server')
    BY <2>1, NewAsWritten
  <2>3. QED
    BY <2>1, <2>2, GoesOnWritten
<1>6. CASE CloseLocation
  <2>1. /\ Blocks /\ server' = [server EXCEPT !.locations = Append(@, WithMethods(location))]
        /\ UNCHANGED http /\ Reading'
    BY <1>0, <1>6 DEF CloseLocation, Reading
  <2>2. server'.text = server.text /\ server'.port = server.port /\ server'.timeout = server.timeout
    BY <2>1 DEF BegunServer, ServerShape
  <2>3. AsWritten(server')
    BY <2>1, <2>2 DEF AsWritten
  <2>4. QED
    BY <2>1, <2>3, GoesOnWritten
<1>7. CASE CloseServer
  <2>1. CASE ~Complete(server)
    BY <1>7, <2>1, RejectWritten DEF CloseServer
  <2>2. CASE Complete(server)
    <3>1. /\ Blocks /\ http' = [http EXCEPT !.servers = Append(@, FilledServer(server))]
          /\ UNCHANGED server /\ Reading'
      BY <1>0, <1>7, <2>2 DEF CloseServer, Reading
    <3>2. http'.servers = Append(http.servers, FilledServer(server))
      BY <3>1 DEF BegunHttp
    <3>3. ToSet(http'.servers) = ToSet(http.servers) \cup {FilledServer(server)}
      BY <3>1, <3>2, ListAppend DEF BegunHttp
    <3>4. AsWritten(FilledServer(server))
      BY <3>1, EndsWritten DEF BegunServer
    <3>5. AllWritten(http'.servers)
      BY <3>1, <3>3, <3>4 DEF AllWritten
    <3>6. QED
      BY <3>1, <3>5, GoesOnWritten
  <2>3. QED
    BY <2>1, <2>2
<1>8. CASE EndOfFile
  <2>1. CASE http.servers = <<>> \/ ~Valid(http.servers)
    BY <1>8, <2>1, RejectWritten DEF EndOfFile
  <2>2. CASE ~(http.servers = <<>> \/ ~Valid(http.servers))
    <3>1. /\ Blocks /\ at' = "accepted"
          /\ http' = [http EXCEPT !.limit = Fallback(http),
                     !.servers = [i \in DOMAIN @ |-> FinalServer(@[i], Fallback(http))]]
      BY <1>0, <1>8, <2>2 DEF EndOfFile, Reading
    <3>2. http'.servers =
            [i \in DOMAIN http.servers |-> FinalServer(http.servers[i], Fallback(http))]
      BY <3>1 DEF BegunHttp
    <3>3. \A i \in DOMAIN http.servers : EndedServer(http.servers[i]) /\ AsWritten(http.servers[i])
      BY <3>1 DEF BegunHttp, AllWritten, ToSet
    <3>4. \A i \in DOMAIN http.servers : AsWritten(FinalServer(http.servers[i], Fallback(http)))
      BY <3>3, EndsWritten DEF EndedServer
    <3>5. AllWritten(http'.servers)
      <4>1. ASSUME NEW s \in ToSet(http'.servers) PROVE AsWritten(s)
        <5>1. PICK i \in DOMAIN http.servers : s = FinalServer(http.servers[i], Fallback(http))
          BY <3>2, <4>1 DEF ToSet
        <5>2. QED
          BY <3>4, <5>1
      <4>2. QED
        BY <4>1 DEF AllWritten
    <3>6. QED
      BY <3>1, <3>5, AcceptedWritten DEF Reading
  <2>3. QED
    BY <2>1, <2>2
<1>9. CASE Listen \/ Run \/ Done \/ UNCHANGED vars
  <2>1. CASE UNCHANGED vars
    <3>1. at' = at /\ http' = http /\ server' = server
      BY <2>1 DEF vars
    <3>2. CASE Reading
      BY <1>0, <3>1, <3>2, GoesOnWritten DEF Reading
    <3>3. CASE ~Reading
      <4>1. NumbersAsWritten'
        BY <3>1 DEF NumberInv, NumbersAsWritten, Accepted
      <4>2. QED
        BY <3>1, <3>3, <4>1 DEF NumberInv, Reading
    <3>4. QED
      BY <3>2, <3>3
  <2>2. CASE Listen \/ Run
    <3>1. Accepted /\ ~Reading' /\ http' = http
      BY <2>2 DEF Listen, Run, Accepted, Reading
    <3>2. NumbersAsWritten'
      BY <3>1 DEF NumberInv, NumbersAsWritten
    <3>3. QED
      BY <3>1, <3>2 DEF NumberInv
  <2>3. QED
    BY <1>9, <2>1, <2>2 DEF Done
<1>10. QED
  BY <1>1, <1>2, <1>3, <1>4, <1>5, <1>6, <1>7, <1>8, <1>9 DEF Next

\* The port and the timeout of a server in use are the numbers written in the
\* file, of any length and for any widths of an int and a long, up to multiples
\* of what an int can hold: the test for overflow, digit by digit, misses none.
THEOREM NumbersKept == Spec => []NumbersAsWritten
<1>1. Init => ReadInv /\ NumberInv
  BY InitRead, InitWritten
<1>2. ReadInv /\ NumberInv /\ [Next]_vars => ReadInv' /\ NumberInv'
  BY NextRead, NextWritten
<1>3. NumberInv => NumbersAsWritten
  BY DEF NumberInv
<1>4. QED
  BY <1>1, <1>2, <1>3, PTL DEF Spec
=============================================================================
