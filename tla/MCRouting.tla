----------------------------- MODULE MCRouting -----------------------------
EXTENDS Routing

At(root, names) == [root |-> root, names |-> names]

\* Two roots; "a" is a directory in both, "up" only in the first.
SomeDirs ==
  {At("one", <<>>), At("one", <<"a">>), At("one", <<"up">>), At("one", <<"a", "up">>),
   At("two", <<>>), At("two", <<"a">>)}
SomeFiles == {At("one", <<"f">>), At("one", <<"up", "f">>), At("two", <<"f">>),
              At("two", <<"a", "f">>)}

Location(path, root, methods, max) ==
  [path |-> path, root |-> root, methods |-> methods, max |-> max, upload |-> NoPlace,
   redirect |-> FALSE, index |-> <<>>, autoindex |-> FALSE]
Uploading(l, names) == [l EXCEPT !.upload = At(l.root, names)]

Root == Location(<<"/">>, "one", {"GET", "POST"}, 2)
Plain == [Location(<<"/", "a">>, "two", {}, 2) EXCEPT !.index = <<"g", "f">>]
Inner == [Location(<<"/", "a", "/", "up", "/">>, "one", {"GET"}, 1) EXCEPT !.redirect = TRUE]
Doubled == [Plain EXCEPT !.path = <<"/", "up", "/", "/", "f">>]
Deep == Location(<<"/", "a", "/", "f">>, "two", {"GET", "DELETE"}, 2)
Up == Uploading(Location(<<"/", "up", "/">>, "one", {"GET", "POST", "DELETE"}, 1), <<"up">>)
Listed == [Uploading(Location(<<"/", "a">>, "one", {"POST", "GET"}, 2), <<>>) EXCEPT !.autoindex = TRUE]

Block(addr, port, name, root, max, locations) ==
  [addr |-> addr, port |-> port, name |-> name, root |-> root, max |-> max, index |-> <<"f">>,
   locations |-> locations]

\* One address, two ports; two names on one port; the same name on another.
Configuration1 ==
  <<Block("any", 80, "x", "one", 2, <<Root, Up>>), Block("any", 81, "y", "two", 2, <<Inner, Plain>>)>>
Configuration2 ==
  <<Block("any", 80, "x", "two", 2, <<Plain, Deep, Inner>>), Block("other", 81, "x", "one", 1, <<Listed>>),
    Block("any", 80, "y", "one", 1, <<Doubled, Up, Listed>>)>>
Rejected == <<Block("any", 80, "x", "one", 2, <<>>), Block("other", 80, "x", "two", 2, <<>>)>>
SomeConfigurations == {Configuration1, Configuration2, Rejected}

\* All paths of at most three segments, one that has a location twice, and
\* with a slash too many, with one at the end, and with none at the beginning.
Segments == {"a", "up", "f", ".", ".."}
PathsOfSegments == {PathOf(s) : s \in BoundedSeq(Segments, 3)}
SomeUris ==
  PathsOfSegments \cup {PathOf(<<"a", "f", "a", "f">>), <<"/", "up", "/", "/", "f", "/">>, <<"/", "/">>, <<"f">>, <<>>}
SomeHosts == {"x", "y", "z"}
=============================================================================
