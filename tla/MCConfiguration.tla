-------------------------- MODULE MCConfiguration --------------------------
(* Small vocabularies for Configuration, one for each kind of setting. *)
EXTENDS Configuration

St(block, name, value) == [block |-> block, name |-> name, value |-> value]
Port(digits) == St("server", "listen", [host |-> "", port |-> digits])
Size(num, den, unit) == [num |-> num, den |-> den, unit |-> unit]
ErrorPage(block, codes, file) == St(block, "error_page", [codes |-> codes, file |-> file])

\* What every server needs.
Root == St("server", "root", "./r")
Index == St("server", "index", <<"a.html", "b.html">>)
Timeout == St("server", "timeout", <<6, 0>>)
Required == {Port(<<8, 0>>), Root, Index, Timeout}

\* What x86-64 makes of a double that is too large: -2^18 is the least long.
LongMin == -LongMax - 1

\* Limits and error pages on all levels: half a byte is 0 bytes, and 256K is one
\* byte more than the greatest long.
LimitOf(block) == {St(block, "client_max_body_size", Size(30, 1, 1024)),
                   St(block, "client_max_body_size", Size(1, 2048, 1024)),
                   St(block, "client_max_body_size", Size(256, 1, 1024))}
Limiting ==
  Required \cup LimitOf("http") \cup LimitOf("server") \cup LimitOf("location")
    \cup {St("http", "client_max_body_size", Size(10, 1, 1024)),
          St("http", "client_max_body_size", Size(3, 2, 1)),
          St("http", "client_max_body_size", Size(262144, 1, 1)),
          St("http", "client_max_body_size", Size(257, 1, 1024))}
Failing ==
  Required \cup {ErrorPage("http", {<<4, 0, 4>>}, "404.html"),
                 ErrorPage("server", {<<4, 0, 4>>, <<5, 0, 0>>}, "404.html"),
                 ErrorPage("server", {<<5, 0, 0>>}, "none.html"),
                 ErrorPage("location", {<<4, 0, 4>>}, "none.html"),
                 ErrorPage("location", {<<5, 0, 0>>}, "500.html"),
                 ErrorPage("location", {<<1, 0, 4>>}, "500.html")}

\* Ports, hosts, names and timeouts, with numbers that are too long for an
\* int and for a long.
Listening ==
  {Port(<<8, 0>>), Port(<<1, 3, 1, 1, 5, 2>>), Port(<<2, 6, 2, 1, 4, 5>>), Port(<<7, 0, 0, 0, 0>>),
   St("server", "listen", [host |-> "10.0.0.1", port |-> <<>>]),
   St("server", "listen", [host |-> "*", port |-> <<8, 0>>]),
   St("server", "listen", [host |-> "localhost", port |-> <<>>]),
   St("server", "server_name", "x"), Root, Index,
   Timeout, St("server", "timeout", <<1, 3, 1, 0, 7, 3>>), St("server", "timeout", <<0>>)}

\* A location's own settings.
Placing ==
  Required \cup
  {St("server", "root", "./none"),
   St("location", "root", "./r"), St("location", "root", "./none"),
   St("location", "index", <<"c.html">>), St("location", "index", <<"plain">>),
   St("location", "index", <<".a.html">>), St("location", "return", <<3, 0, 1>>),
   St("location", "autoindex", "on")}
Acting ==
  Required \cup
  {St("location", "allowed_methods", <<"POST", "GET">>),
   St("location", "allowed_methods", <<"GET", "GET">>),
   St("location", "allowed_methods", <<"PUT">>),
   St("location", "upload_path", "./up"), St("location", "upload_path", "./r"),
   St("location", "cgi_path", <<"/py", "/sh">>), St("location", "cgi_path", <<"/py">>),
   St("location", "cgi_ext", <<".py", ".sh">>), St("location", "cgi_ext", <<".py", ".py">>)}

Words(statements, servers, locations) ==
  [statements |-> statements, servers |-> servers, locations |-> locations]
SomeVocabularies ==
  {Words(Limiting, 1, 1), Words(Failing, 1, 1), Words(Listening, 2, 0), Words(Placing, 1, 1),
   Words(Acting, 1, 1), Words(Required, 1, 2)}
SomePaths == {[name |-> "", slash |-> TRUE], [name |-> "a", slash |-> TRUE],
              [name |-> "a", slash |-> FALSE]}
=============================================================================
