--------------------------- MODULE Configuration ---------------------------
(***************************************************************************)
(* The reading of a configuration file (src/conf, API_conf) and main's     *)
(* start with the result.  A file is a run of statements: one action reads *)
(* one directive with its values, or opens or closes one block.  Tokens    *)
(* are not modelled: whatever is not a statement is SyntaxError.  What a   *)
(* location takes over from its server, and a server from http, is copied  *)
(* when its block opens, filled in when the server's block closes, and     *)
(* filled in again when the file has been read.                            *)
(***************************************************************************)
EXTENDS Integers, FiniteSets, SequencesExt

CONSTANTS
  Vocabularies,     \* what files are written with: statements, and how many
                    \* servers, and locations of a server (bounds)
  Paths,            \* of locations: a name and whether a slash follows it
  Directories, Writable, Files, Executables,  \* what the file system has
  Rooted,           \* paths that begin with "." or "/"
  WithExtension,    \* names with a dot that is neither first nor last
  PlainNames,       \* those of them with no slash and no leading dot
  Addresses,        \* IPv4 addresses
  LongMax, IntMod,  \* LONG_MAX, and 2 to the width of an int
  OutOfRange,       \* what a double that no long can hold is converted to
  MaxPort, DefaultPort, MaxTimeout, MaxServers, MaxLimit, LeastHttpLimit, DefaultLimit

ASSUME Widths == LongMax \in Nat \ {0} /\ IntMod \in Nat /\ IntMod > 1 /\ MaxPort \in Nat /\ MaxTimeout \in Nat
\* The language leaves the conversion undefined: x86-64 makes LONG_MIN of it, ARM LONG_MAX.
ASSUME Conversion == OutOfRange \in {LongMax, -LongMax - 1}
ASSUME Limits == MaxLimit \in Nat /\ LeastHttpLimit \in Nat \ {0} /\ DefaultLimit \in 1 .. MaxLimit
ASSUME NamesNest == PlainNames \subseteq WithExtension
ASSUME Defaults == DefaultPort \in 1 .. MaxPort /\ 8080 \in 1 .. MaxPort /\ 60 \in 1 .. MaxTimeout
\* A size is a double, as a fraction, with a unit; scripts and interpreters are lists of words;
\* a port and a timeout are digits, as far as they are numbers: see below.
ASSUME Values ==
  \A w \in Vocabularies : \A st \in w.statements :
    /\ st.name = "client_max_body_size" =>
         st.value.num \in Nat /\ st.value.den \in Nat \ {0} /\ st.value.unit \in Nat \ {0}
    /\ st.name \in {"cgi_path", "cgi_ext"} => st.value \in Seq(STRING)
    /\ st.name = "listen" => st.value.port \in Seq(0 .. 9)
    /\ st.name = "timeout" => st.value \in Seq(0 .. 9)

VARIABLES
  words,     \* the vocabulary of the file
  at,        \* the block being read, or what became of it all
  http,      \* httpConfig, with ParserConf's _exist_http
  server,    \* the Server being read
  location,  \* the Location being read
  bound      \* the listeners main has made

vars == <<words, at, http, server, location, bound>>

-----------------------------------------------------------------------------
(* Numbers.  A text of digits is a sequence; any other text is <<>>. *)

NotANumber == -1

\* Variant: the test for overflow leaves out the digit.
ShiftedTruncating(n, digit) == IF n > LongMax \div 10 THEN NotANumber ELSE n * 10 + digit

\* One more digit, if the result is a long.
Shifted(n, digit) == IF n > (LongMax - digit) \div 10 THEN NotANumber ELSE n * 10 + digit

\* safe_strtol.
Strtol(text) ==
  IF text = <<>> THEN NotANumber
  ELSE FoldLeft(LAMBDA n, digit : IF n = NotANumber THEN n ELSE Shifted(n, digit), 0, text)

\* static_cast<int>.
ToInt(n) == LET low == n % IntMod IN IF low >= IntMod \div 2 THEN low - IntMod ELSE low

\* A number whose int has to be in a range.
IsIn(text, range) == Strtol(text) # NotANumber /\ ToInt(Strtol(text)) \in range

\* A long as a double: LONG_MAX, which is 2^k - 1, is rounded to 2^k.
AsDouble(n) == IF n = LongMax THEN LongMax + 1 ELSE n

\* The double num/den as a long.
ToLong(num, den) == IF num < den * AsDouble(LongMax) THEN num \div den ELSE OutOfRange

\* parse_cl_mx_bd_sz of the double num/den with a unit: -1 is an error.  What is
\* left of a byte is cut off, so that the result may be 0; and the greatest double
\* that passes the test for overflow is one more than a long can hold.
SizeOf(text) ==
  LET bytes == text.num * text.unit
  IN  IF \/ text.num <= 0
         \/ text.unit = 1 /\ text.den * AsDouble(ToLong(text.num, text.den)) # text.num
         \/ bytes > text.den * AsDouble(LongMax)
      THEN -1 ELSE ToLong(bytes, text.den)

SizeOk(text) == SizeOf(text) # -1 /\ SizeOf(text) <= MaxLimit

-----------------------------------------------------------------------------
(* Settings. *)

Absent == ""         \* of a text
NoErrors == [c \in {} |-> Absent]

\* given holds the directives met in the block (seen_directives, and the
\* others).  History: from, what the server's block had given when the
\* location's opened; start, http's limit when the server's opened; text,
\* the numbers as they were written.

\* Server(const httpConfig&).
NewServer(h) ==
  [host |-> Absent, port |-> -1, name |-> Absent, root |-> Absent, index |-> <<>>, limit |-> h.limit,
   timeout |-> 0, errors |-> h.errors, locations |-> <<>>, given |-> {},
   start |-> h.limit, text |-> [port |-> <<>>, timeout |-> <<>>]]
\* Variant: the index is not among what a location copies.
NewLocationSansIndex(s, p) ==
  [path |-> p, root |-> s.root, index |-> <<>>, limit |-> s.limit, errors |-> s.errors,
   methods |-> {}, autoindex |-> FALSE, paths |-> <<>>, exts |-> <<>>, cgi |-> NoErrors,
   upload |-> Absent, redirect |-> -1, given |-> {}, from |-> s.given]

\* Location(const Server&).
NewLocation(s, p) ==
  [path |-> p, root |-> s.root, index |-> s.index, limit |-> s.limit, errors |-> s.errors,
   methods |-> {}, autoindex |-> FALSE, paths |-> <<>>, exts |-> <<>>, cgi |-> NoErrors,
   upload |-> Absent, redirect |-> -1, given |-> {}, from |-> s.given]
NewHttp == [exists |-> FALSE, limit |-> 0, errors |-> NoErrors, servers |-> <<>>]

\* error_page: one file for several codes; a later one replaces an earlier.
WithErrors(errors, value) ==
  LET new == {ToInt(Strtol(c)) : c \in value.codes}
  IN  [c \in DOMAIN errors \cup new |-> IF c \in new THEN value.file ELSE errors[c]]
ErrorsOk(value) == \A c \in value.codes : IsIn(c, 300 .. 599)

\* setCGI_paths, setCGI_extensions: the map is made whenever they pair up.
PairedCgi(paths, exts) ==
  IF Len(paths) # Len(exts) THEN NoErrors
  ELSE [e \in ToSet(exts) |-> paths[Max({i \in DOMAIN exts : exts[i] = e})]]

\* hasPartialCGIConfig
PartialCgi(l) == Len(l.paths) # Len(l.exts) \/ Cardinality(DOMAIN l.cgi) # Len(l.paths)

-----------------------------------------------------------------------------
(* parseDirective: what each block takes, and what it makes of it. *)

HttpTakes(st) ==
  \/ st.name = "client_max_body_size" /\ SizeOk(st.value)
  \/ st.name = "error_page" /\ ErrorsOk(st.value)

HttpWith(h, st) ==
  IF st.name = "error_page" THEN [h EXCEPT !.errors = WithErrors(@, st.value)]
  ELSE [h EXCEPT !.limit = SizeOf(st.value)]

\* listen: a port, an address, or both; "*" and "localhost" need a port.
ListenOk(v) ==
  IF v.port = <<>> THEN v.host \in Addresses
  ELSE v.host \in Addresses \cup {Absent, "*", "localhost"} /\ IsIn(v.port, 1 .. MaxPort)
ListenHost(v) == IF v.host \in {Absent, "*"} THEN "0.0.0.0" ELSE v.host
ListenPort(v) == IF v.port = <<>> THEN DefaultPort ELSE ToInt(Strtol(v.port))

UniqueInServer == {"listen", "root", "client_max_body_size", "timeout", "index"}

\* Not in the block before, if it may only be there once; and a good value.
ServerTakes(s, st) ==
  /\ st.name \notin UniqueInServer \cap s.given
  /\ \/ st.name \in {"root", "index", "server_name"}
     \/ st.name = "listen" /\ ListenOk(st.value)
     \/ st.name = "client_max_body_size" /\ SizeOk(st.value)
     \/ st.name = "timeout" /\ IsIn(st.value, 1 .. MaxTimeout)
     \/ st.name = "error_page" /\ ErrorsOk(st.value)

ServerWith(s, st) ==
  LET v == st.value
      q == [s EXCEPT !.given = @ \cup {st.name}]
  IN  CASE st.name = "root"        -> [q EXCEPT !.root = v]
        [] st.name = "index"       -> [q EXCEPT !.index = @ \o v]
        [] st.name = "server_name" -> [q EXCEPT !.name = v]
        [] st.name = "listen"      -> [q EXCEPT !.host = ListenHost(v), !.port = ListenPort(v),
                                                !.text.port = v.port]
        [] st.name = "client_max_body_size" -> [q EXCEPT !.limit = SizeOf(v)]
        [] st.name = "timeout"     -> [q EXCEPT !.timeout = ToInt(Strtol(v)), !.text.timeout = v]
        [] st.name = "error_page"  -> [q EXCEPT !.errors = WithErrors(@, v)]

\* All but error_page may be in a location's block only once.
LocationTakes(l, st) ==
  /\ st.name \notin l.given \ {"error_page"}
  /\ \/ st.name \in {"root", "index", "cgi_path", "cgi_ext", "upload_path"}
     \/ st.name = "autoindex" /\ st.value \in {"on", "off"}
     \/ st.name = "allowed_methods" /\ ToSet(st.value) \subseteq {"GET", "POST", "DELETE"}
                                  /\ IsInjective(st.value)
     \/ st.name = "client_max_body_size" /\ SizeOk(st.value)
     \/ st.name = "error_page" /\ ErrorsOk(st.value)
     \/ st.name = "return" /\ IsIn(st.value, 300 .. 399)

LocationWith(l, st) ==
  LET v == st.value
      q == [l EXCEPT !.given = @ \cup {st.name}]
  IN  CASE st.name = "root"            -> [q EXCEPT !.root = v]
        [] st.name = "index"           -> [q EXCEPT !.index = v]
        [] st.name = "allowed_methods" -> [q EXCEPT !.methods = @ \cup ToSet(v)]
        [] st.name = "autoindex"       -> [q EXCEPT !.autoindex = (v = "on")]
        [] st.name = "cgi_path"        -> [q EXCEPT !.paths = v, !.cgi = PairedCgi(v, l.exts)]
        [] st.name = "cgi_ext"         -> [q EXCEPT !.exts = v, !.cgi = PairedCgi(l.paths, v)]
        [] st.name = "upload_path"     -> [q EXCEPT !.upload = v]
        [] st.name = "client_max_body_size" -> [q EXCEPT !.limit = SizeOf(v)]
        [] st.name = "error_page"      -> [q EXCEPT !.errors = WithErrors(@, v)]
        [] st.name = "return"          -> [q EXCEPT !.redirect = ToInt(Strtol(v))]

-----------------------------------------------------------------------------
(* The end of a block, and of the file. *)

\* check_for_allowed_methods
WithMethods(l) == [l EXCEPT !.methods = IF @ = {} THEN {"GET"} ELSE @]

\* The end of parsServer: what the location still lacks.
Filled(l, s) ==
  [l EXCEPT !.root = IF @ = Absent THEN s.root ELSE @,
            !.index = IF @ = <<>> THEN <<Head(s.index)>> ELSE @,
            !.limit = IF @ = 0 THEN s.limit ELSE @,
            !.errors = IF DOMAIN @ = {} THEN s.errors ELSE @]
FilledServer(s) == [s EXCEPT !.locations = [i \in DOMAIN @ |-> Filled(@[i], s)]]

\* verifying_path_in_locations_inside_server: a slash at the end is no difference.
PathsDiffer(ls) == \A i, j \in DOMAIN ls : i # j => ls[i].path.name # ls[j].path.name

\* The tests of parsServer; a location's index is that of Filled.
Complete(s) ==
  /\ s.port # -1 /\ s.root # Absent /\ s.index # <<>> /\ s.timeout > 0
  /\ ToSet(s.index) \subseteq WithExtension
  /\ \A l \in ToSet(FilledServer(s).locations) :
       l.redirect = -1 /\ DOMAIN l.cgi = {} => ToSet(l.index) \subseteq WithExtension
  /\ PathsDiffer(s.locations)

\* parsing_lexems: the limit of http that stands in for missing ones.
Fallback(h) == IF h.limit < LeastHttpLimit THEN DefaultLimit ELSE h.limit

\* A location without a limit gets this one.
Limited(l, limit) == [l EXCEPT !.limit = IF @ = 0 THEN limit ELSE @]

\* Variant: the locations' limits are left as they are.
FinalServerOnly(s, fallback) == [s EXCEPT !.limit = IF @ = 0 THEN fallback ELSE @]

\* validate_final_config: the limits it fills in, and what it tests.
FinalServer(s, fallback) ==
  LET limit == IF s.limit = 0 THEN fallback ELSE s.limit
  IN  [s EXCEPT !.limit = limit,
                !.locations = [i \in DOMAIN @ |-> Limited(@[i], limit)]]

ErrorFilesExist(errors) == \A c \in DOMAIN errors : errors[c] \in Files

LocationValid(l) ==
  /\ l.root \in Directories
  /\ ToSet(l.index) \subseteq PlainNames
  /\ ~PartialCgi(l)
  /\ \A e \in DOMAIN l.cgi : l.cgi[e] \in Executables
  /\ l.upload # Absent => l.upload \in Writable /\ (l.methods # {} => "POST" \in l.methods)
  /\ ErrorFilesExist(l.errors)

Valid(servers) ==
  /\ Len(servers) <= MaxServers
  /\ \A i, j \in DOMAIN servers :
       i # j => servers[i].port # servers[j].port \/ servers[i].name # servers[j].name
  /\ \A s \in ToSet(servers) :
       /\ s.root \in Rooted \cap Directories /\ ErrorFilesExist(s.errors)
       /\ \A l \in ToSet(s.locations) : LocationValid(l)

-----------------------------------------------------------------------------
(* Without an argument: set_default_conf, which nothing validates. *)

LargeLimit == 2040109465
ScriptLimit == 116391936
\* Each code has a page of its own in this directory.
DefaultErrors ==
  [c \in {400, 401, 403, 404, 405, 408, 411, 413, 500, 502, 503, 504} |-> "./www/html/errors"]
DefaultLocation(name, methods) ==
  [path |-> [name |-> name, slash |-> TRUE], root |-> "./www/html",
   index |-> <<"index.html">>, limit |-> LargeLimit, errors |-> DefaultErrors,
   methods |-> methods, autoindex |-> FALSE, paths |-> <<>>, exts |-> <<>>,
   cgi |-> NoErrors, upload |-> Absent, redirect |-> -1, given |-> {}, from |-> {}]
Scripts(l) ==
  LET exts  == <<".py", ".sh">>
      paths == <<"/usr/bin/python3", "/usr/bin/bash">>
  IN  [l EXCEPT !.limit = ScriptLimit, !.exts = exts, !.paths = paths,
                !.cgi = PairedCgi(paths, exts)]
Moved(l) == [l EXCEPT !.redirect = 301]
Uploads(l) == [l EXCEPT !.autoindex = TRUE, !.upload = "./www/html/uploads/"]
DefaultLocations ==
  << DefaultLocation(Absent, {"GET", "DELETE"}),
     DefaultLocation("dashboard", {"GET"}),
     Scripts(DefaultLocation("cgi-bin", {"GET", "POST"})),
     Moved(DefaultLocation("redirect", {"GET"})),
     Uploads(DefaultLocation("uploads", {"GET", "POST", "DELETE"})),
     DefaultLocation("errors", {"GET"}) >>
DefaultServer ==
  [host |-> "localhost", port |-> 8080, name |-> "example.com", root |-> "./www/html",
   index |-> <<"index.html">>, limit |-> LargeLimit, timeout |-> 60,
   errors |-> DefaultErrors, locations |-> DefaultLocations, given |-> {},
   start |-> LargeLimit, text |-> [port |-> <<>>, timeout |-> <<>>]]

-----------------------------------------------------------------------------
\* API_conf: with an argument the file is read, without one there is nothing to read.
Init ==
  /\ words \in Vocabularies
  /\ \/ at = "top" /\ http = NewHttp
     \/ at = "accepted" /\ http = [NewHttp EXCEPT !.servers = <<DefaultServer>>]
  /\ server = NewServer(NewHttp) /\ location = NewLocation(server, CHOOSE p \in Paths : TRUE)
  /\ bound = 0

Reading == at \in {"top", "events", "http", "server", "location"}
Reject == at' = "rejected" /\ UNCHANGED <<words, http, server, location, bound>>

\* report_parse_error: anything but a statement of the block, and the end of
\* the file inside a block.
SyntaxError == Reading /\ Reject

\* parseEvents: whatever is in this block, nothing uses it.
OpenEvents == at = "top" /\ at' = "events" /\ UNCHANGED <<words, http, server, location, bound>>
CloseEvents == at = "events" /\ at' = "top" /\ UNCHANGED <<words, http, server, location, bound>>

OpenHttp ==
  /\ at = "top"
  /\ IF http.exists THEN Reject
     ELSE /\ at' = "http" /\ http' = [http EXCEPT !.exists = TRUE]
          /\ UNCHANGED <<words, server, location, bound>>

Directive(st) ==
  /\ st.block = at
  /\ \/ /\ at = "http"
        /\ IF ~HttpTakes(st) THEN Reject
           ELSE http' = HttpWith(http, st) /\ UNCHANGED <<words, at, server, location, bound>>
     \/ /\ at = "server"
        /\ IF ~ServerTakes(server, st) THEN Reject
           ELSE server' = ServerWith(server, st) /\ UNCHANGED <<words, at, http, location, bound>>
     \/ /\ at = "location"
        /\ IF ~LocationTakes(location, st) THEN Reject
           ELSE location' = LocationWith(location, st) /\ UNCHANGED <<words, at, http, server, bound>>

OpenServer ==
  /\ at = "http" /\ Len(http.servers) < words.servers
  /\ at' = "server" /\ server' = NewServer(http)
  /\ UNCHANGED <<words, http, location, bound>>

OpenLocation(p) ==
  /\ at = "server" /\ Len(server.locations) < words.locations
  /\ at' = "location" /\ location' = NewLocation(server, p)
  /\ UNCHANGED <<words, http, server, bound>>

CloseLocation ==
  /\ at = "location"
  /\ at' = "server"
  /\ server' = [server EXCEPT !.locations = Append(@, WithMethods(location))]
  /\ UNCHANGED <<words, http, location, bound>>

CloseServer ==
  /\ at = "server"
  /\ IF ~Complete(server) THEN Reject
     ELSE /\ at' = "http"
          /\ http' = [http EXCEPT !.servers = Append(@, FilledServer(server))]
          /\ UNCHANGED <<words, server, location, bound>>

CloseHttp == at = "http" /\ at' = "top" /\ UNCHANGED <<words, http, server, location, bound>>

\* parsing_lexems from TYPE_END: check_for_blocks, the limits, the last tests.
EndOfFile ==
  /\ at = "top"
  /\ IF http.servers = <<>> \/ ~Valid(http.servers) THEN Reject
     ELSE /\ at' = "accepted"
          /\ http' = [http EXCEPT
               !.limit = Fallback(http),
               !.servers = [i \in DOMAIN @ |-> FinalServer(@[i], Fallback(http))]]
          /\ UNCHANGED <<words, server, location, bound>>

\* main: make_listener and addServerSocket for each block, or the end.
Listen ==
  /\ at = "accepted" /\ bound < Len(http.servers)
  /\ \/ bound' = bound + 1 /\ at' = at
     \/ bound' = bound /\ at' = "exited"
  /\ UNCHANGED <<words, http, server, location>>
Run ==
  /\ at = "accepted" /\ bound = Len(http.servers)
  /\ at' = "running" /\ UNCHANGED <<words, http, server, location, bound>>

Done == at \in {"rejected", "exited", "running"} /\ UNCHANGED vars

Next ==
  \/ SyntaxError \/ OpenEvents \/ CloseEvents \/ OpenHttp \/ OpenServer
  \/ \E st \in words.statements : Directive(st)
  \/ \E p \in Paths : OpenLocation(p)
  \/ CloseLocation \/ CloseServer \/ CloseHttp \/ EndOfFile
  \/ Listen \/ Run \/ Done

Spec == Init /\ [][Next]_vars

-----------------------------------------------------------------------------
(* Properties. *)

Accepted == at \in {"accepted", "running"}

\* The limits there can be: from a byte to MAX_CLIENT_BODY_SIZE_LIMIT, the built-in
\* ones, and LONG_MIN, which getMaxBody makes 2^63 of and which is what x86-64 makes
\* of the one size beyond a long that parse_cl_mx_bd_sz lets through.
UsableLimits == 1 .. MaxLimit \cup {LargeLimit, ScriptLimit, -LongMax - 1}

\* What the rest of the server takes for granted of a location.
LocationUsable(l) ==
  /\ l.root # Absent /\ l.index # <<>> /\ l.limit \in UsableLimits /\ l.methods # {}
  /\ l.upload # Absent => "POST" \in l.methods
  /\ Len(l.paths) = Len(l.exts)
  /\ DOMAIN l.cgi = ToSet(l.exts)
  /\ \A i \in DOMAIN l.exts : l.cgi[l.exts[i]] = l.paths[i]

\* A configuration that is accepted, whatever the order of its statements, is
\* complete: no limit is 0, which elsewhere means that there is none, nor above the
\* largest, with one exception; ports and timeouts are in their ranges; no location lacks what its requests need; and
\* Host and path choose one block and one location.
AcceptedIsUsable ==
  Accepted =>
    /\ http.servers # <<>>
    /\ \A i, j \in DOMAIN http.servers :
         /\ i # j => http.servers[i].port # http.servers[j].port
                     \/ http.servers[i].name # http.servers[j].name
         /\ LET s == http.servers[i] IN
            /\ s.port \in 1 .. MaxPort /\ s.timeout \in 1 .. MaxTimeout
            /\ s.limit \in UsableLimits /\ s.root # Absent /\ s.index # <<>>
            /\ PathsDiffer(s.locations)
            /\ \A l \in ToSet(s.locations) : LocationUsable(l)

\* A location that says nothing about a setting has its server's, wherever in
\* the block the server says it, with three exceptions: a limit, and further
\* names of an index, that follow the location, and error pages that follow
\* it when there were some before.  Two copies and two fillings bring that about.
Inherited(l, s) ==
  /\ "root" \notin l.given => l.root = s.root
  /\ "index" \notin l.given =>
       l.index = IF "index" \in l.from THEN s.index ELSE <<s.index[1]>>
  /\ "client_max_body_size" \notin l.given =>
       IF "client_max_body_size" \in s.given \ l.from /\ s.start # 0
       THEN l.limit = s.start ELSE l.limit = s.limit
  /\ "error_page" \notin l.given =>
       \/ l.errors = s.errors
       \/ "error_page" \in s.given /\ DOMAIN l.errors \subseteq DOMAIN s.errors
LocationsInherit ==
  Accepted /\ http.exists =>
    \A s \in ToSet(http.servers) : \A l \in ToSet(s.locations) : Inherited(l, s)

\* The value of a text, for reference: from its last digit on, each by its weight.
Decimal(text) ==
  LET low[k \in 0 .. Len(text)] ==
        IF k = 0 THEN [value |-> 0, weight |-> 1]
        ELSE [value  |-> low[k - 1].value + text[Len(text) - k + 1] * low[k - 1].weight,
              weight |-> 10 * low[k - 1].weight]
  IN  low[Len(text)].value

\* A number in use is the one that was written, or that less a multiple of
\* 2^32: no overflow of the conversion is taken for a number.
NumbersAsWritten ==
  Accepted /\ http.exists =>
    \A s \in ToSet(http.servers) :
      /\ s.text.port # <<>> => Decimal(s.text.port) <= LongMax /\ (Decimal(s.text.port) - s.port) % IntMod = 0
      /\ Decimal(s.text.timeout) <= LongMax /\ (Decimal(s.text.timeout) - s.timeout) % IntMod = 0
=============================================================================
