---------------------------- MODULE MCHttpServer ----------------------------
EXTENDS HttpServer

Header(field, value) == [field |-> field, value |-> value]
Close == Header("Connection", <<" ", "close">>)
KeepAlive == Header("Connection", <<"Keep-Alive", " ">>)
Other == Header("Host", << >>)

Line(method, query, version, headers) ==
    [method |-> method, path |-> "/", query |-> query, version |-> version, headers |-> headers]

MCTokens == {" ", ":", "?", CR, LF, "GET", "POST", "HEAD", "PUT", "TRACE", "/", "q",
             "HTTP/1.0", "HTTP/1.1", "HTTP/1.7", "HTTP/2.4", "HTTP/2.", "HTTP/3.0",
             "Connection", "close", "Keep-Alive", "Host",
             "200", "OK", "Content-Type", "text/plain", "text/html", "a", "b"}

MCHttp1 == {<<"HTTP/1.0">>, <<"HTTP/1.1">>, <<"HTTP/1.7">>}
MCHttp2 == {<<"HTTP/2.4">>, <<"HTTP/2.", " ">>}

MCRequests == {
    Line("GET", << >>, <<"HTTP/1.7">>, << >>),
    Line("GET", <<"?", "q">>, <<"HTTP/1.1">>, <<Close, Other, KeepAlive>>),
    Line("POST", << >>, <<"HTTP/2.4">>, <<Other>>),
    Line("HEAD", <<"?">>, <<"HTTP/2.", " ">>, <<Close>>),
    Line("TRACE", << >>, <<"HTTP/1.0">>, <<Other>>),
    Line("PUT", << >>, <<"HTTP/3.0">>, << >>)}

Reply(close, headers, body) ==
    [status |-> <<"200", "OK">>, headers |-> headers, body |-> body, close |-> close]

\* The third body looks like an answer.
MCReplies == {
    Reply("as requested", <<Header("Content-Type", <<"text/plain">>), Header("Content-Type", <<"text/html">>)>>,
          <<"a", "b">>),
    Reply("no", << >>, << >>),
    Reply("as requested", << >>, <<"HTTP/1.1", " ", "200", " ", "OK", CR, LF, CR, LF, "a", "b", "a">>)}

MCScripts == {<<a, b>> : a, b \in MCRequests} \cup {<<a, b, c>> : a, b, c \in MCRequests}
=============================================================================
