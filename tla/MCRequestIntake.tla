-------------------------- MODULE MCRequestIntake --------------------------
EXTENDS RequestIntake

Host == Header("host", 0)
Chunked == Header("transfer-encoding", 1)
Length(n) == Header("content-length", n)
Closing == Header("connection", 1)

Request(method, target, headers, chunks, length) ==
  [method |-> method, target |-> target, code |-> 200, headers |-> headers,
   chunks |-> chunks, length |-> length, extra |-> FALSE]

\* Well-formed requests.
Get == Request("GET", "page", <<Host>>, <<>>, 0)
GetClosing == Request("GET", "script", <<Closing, Host>>, <<>>, 0)
PostPage == Request("POST", "page", <<Host, Length(3)>>, <<>>, 3)
PostPageChunked == Request("POST", "page", <<Host, Chunked>>, <<2>>, 0)
PostScript == [Request("POST", "script", <<Length(3), Host>>, <<>>, 3) EXCEPT !.extra = TRUE]
PostScriptClosing == Request("POST", "script", <<Host, Length(2), Closing>>, <<>>, 2)
PostScriptChunked == Request("POST", "script", <<Host, Chunked>>, <<2, 1>>, 0)
\* With a fault.
Missing == [PostPage EXCEPT !.code = 404]
Version == [Get EXCEPT !.code = 505]
Unknown == [Get EXCEPT !.method = "PATCH", !.code = 501]
Hostless == Request("GET", "page", <<Header("other", 0)>>, <<>>, 0)
TwoHosts == Request("GET", "page", <<Host, Host>>, <<>>, 0)
TwoFramings == Request("POST", "page", <<Host, Length(1), Chunked>>, <<1>>, 0)
Unframed == Request("POST", "script", <<Host>>, <<>>, 0)
TooLong == Request("POST", "script", <<Host, Length(7)>>, <<>>, 7)
TooManyChunks == Request("POST", "script", <<Host, Chunked>>, <<3, 4>>, 0)
FarTooLong == Request("POST", "page", <<Host, Length(9)>>, <<>>, 9)
ManyHeaders == Request("GET", "page", <<Host, Header("other", 0), Length(0), Closing>>, <<>>, 0)
\* A chunked body of no bytes.
EmptyChunked == Request("POST", "script", <<Host, Chunked>>, <<>>, 0)

Fine == {Get, GetClosing, PostPage, PostPageChunked, PostScript, PostScriptClosing,
         PostScriptChunked}
Faulty == {Missing, Version, Unknown, Hostless, TwoHosts, TwoFramings, Unframed, TooLong,
           TooManyChunks, FarTooLong, ManyHeaders, EmptyChunked}
AllRequests == Fine \cup Faulty
MissingOnly == {Missing}
GetOnly == {Get}
=============================================================================
