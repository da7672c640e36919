----------------------------- MODULE HttpServer -----------------------------
(***************************************************************************)
(* HttpServerff and HttpContextff on one connection: a client writes       *)
(* requests, TCP delivers them in pieces cut anywhere, each piece is a     *)
(* call of onMessage, and the context keeps what it has parsed so far.     *)
(*                                                                         *)
(* Text is a sequence of tokens: the bytes that the parser looks for are   *)
(* tokens of their own, every other run of bytes is one token.  A cut      *)
(* inside a token is like a cut before it, since lines are only taken      *)
(* whole.  The input buffer is the ByteQueue that Bufferff implements.     *)
(* Answers are texts as well; the tokens of a body are its bytes.          *)
(***************************************************************************)
EXTENDS Integers, SequencesExt

CONSTANTS
    Tokens,   \* what requests are written with
    Http1,    \* the texts of eight bytes that begin with "HTTP/1."
    Http2,    \* those that begin with "HTTP/2."
    Scripts,  \* the sequences of requests that a client may send
    Replies   \* what httpCallback_ may do with a response

Methods  == {"GET", "POST", "HEAD", "PUT", "DELETE"}
CR == "CR"
LF == "LF"

\* Requests as a client may write them: a word has none of the bytes that the parser looks for,
\* and such a byte stands only where it is meant to, or in a version, which may be any text.
Words   == Tokens \ {" ", ":", "?", CR, LF}
Queries == {<< >>} \cup {q \in Seq(Tokens \ {" ", CR, LF}) : q # << >> /\ q[1] = "?"}
Versions == Seq(Tokens \ {CR, LF})
Requests == [method : Words, path : Words, query : Queries, version : Versions,
             headers : Seq([field : Words, value : Seq(Tokens \ {CR, LF})])]

ASSUME TokensAssumption == {" ", ":", "?", CR, LF} \subseteq Tokens
ASSUME VersionsAssumption == Http1 \cup Http2 \subseteq Versions /\ Http1 \cap Http2 = {}
ASSUME ScriptsAssumption == Scripts \subseteq Seq(Requests)

\* What callbacks put into a response: no CR and no LF but in the body, and the length of the
\* body is left to the server.
ReplyWords == Tokens \ {CR, LF, "Content-Length"}
ReplyType  == [status  : ReplyWords \X ReplyWords,
               headers : Seq([field : ReplyWords, value : Seq(ReplyWords)]),
               body    : Seq(Tokens),
               close   : {"as requested", "yes", "no"}]

ASSUME RepliesAssumption == Replies \subseteq ReplyType

VARIABLES
    script,     \* the client's requests
    pipelines,  \* whether the client writes a request before the last one is answered
    sent,       \* how many tokens have been delivered
    pc,         \* onMessage(): "idle", "parse" (in parseRequest), "request" (it has got all)
    buffer,     \* the input buffer of the connection
    line,       \* the line last taken from it
    state,      \* state_ of the context
    request,    \* request_ of the context
    conn,       \* state_ of the connection
    served,     \* history: the requests given to httpCallback_
    written,    \* what has been sent on the connection
    answers,    \* history: the responses it is made of, and their requests
    aborted     \* the assertion of setMethod has failed

client  == <<script, pipelines>>
context == <<state, request>>
output  == <<conn, served, written, answers>>
vars    == <<client, sent, pc, buffer, line, context, output, aborted>>

Input == INSTANCE ByteQueue WITH bytes <- buffer, out <- line,
                                 Data <- {}, Widths <- {}, Base <- 256

-----------------------------------------------------------------------------
(* Text.                                                                   *)

Has(text, token) == token \in ToSet(text)
Find(text, token) == SelectInSeq(text, LAMBDA t : t = token)
Before(text, token) == IF Has(text, token) THEN SubSeq(text, 1, Find(text, token) - 1) ELSE text
From(text, token) == SubSeq(text, Find(text, token), Len(text))
After(text, token) == Tail(From(text, token))

Spaces(text) == {i \in DOMAIN text : text[i] = " "}
Trimmed(text) ==
    LET solid == DOMAIN text \ Spaces(text)
    IN  IF solid = {} THEN << >> ELSE SubSeq(text, Min(solid), Max(solid))

-----------------------------------------------------------------------------
(* HttpRequestff and the lines of a request.                               *)

NewRequest == [method |-> "kInvalid", version |-> "kUnknown",
               path |-> << >>, query |-> << >>, headers |-> << >>]

\* processRequestLine compares two characters of three: every 1.x is taken for 1.0, and every
\* 2.x for 2.0, whatever the byte x is.
VersionOf(text) ==
    CASE text \in Http1 -> "kHttp10"
      [] text \in Http2 -> "kHttp20"
      [] OTHER          -> "kUnknown"

MethodText(l) == Before(l, " ")
TargetText(l) == Before(After(l, " "), " ")
VersionText(l) == After(After(l, " "), " ")

\* How far processRequestLine gets.
HasMethod(l)  == Has(l, " ")
GoodMethod(l) == HasMethod(l) /\ MethodText(l) \in {<<m>> : m \in Methods}
HasTarget(l)  == GoodMethod(l) /\ Has(After(l, " "), " ")
GoodLine(l)   == HasTarget(l) /\ VersionOf(VersionText(l)) # "kUnknown"

\* What it leaves in the request, whether it succeeds or not.
Processed(r, l) ==
    [r EXCEPT !.method  = IF GoodMethod(l) THEN MethodText(l)[1] ELSE @,
              !.path    = IF HasTarget(l) THEN Before(TargetText(l), "?") ELSE @,
              !.query   = IF HasTarget(l) /\ Has(TargetText(l), "?") THEN From(TargetText(l), "?") ELSE @,
              !.version = IF GoodLine(l) THEN VersionOf(VersionText(l)) ELSE @]

\* Faulty: the first value of a field is kept.
WithHeaderFirst(r, l) == [r EXCEPT !.headers = @ @@ (Before(l, ":") :> Trimmed(After(l, ":")))]

Assigned(map, key, value) ==
    [k \in DOMAIN map \cup {key} |-> IF k = key THEN value ELSE map[k]]
WithHeader(r, l) ==
    [r EXCEPT !.headers = Assigned(@, Before(l, ":"), Trimmed(After(l, ":")))]

GetHeader(r, field) == IF <<field>> \in DOMAIN r.headers THEN r.headers[<<field>>] ELSE << >>

\* The connection is to be closed after the answer.
WantsClose(r) ==
    LET connection == GetHeader(r, "Connection")
    IN  \/ connection = <<"close">>
        \/ r.version = "kHttp10" /\ connection # <<"Keep-Alive">>

-----------------------------------------------------------------------------
(* HttpResponseff.                                                         *)

\* The value that the last header of that name has.
LastOf(headers, field) ==
    headers[Max({i \in DOMAIN headers : headers[i].field = field})].value

\* What the callback leaves of a response: it sets the status and a body, adds headers, of
\* which the last of a name counts, and may decide on the close of the connection.
Response(close, reply) ==
    [status  |-> reply.status,
     headers |-> [field \in {reply.headers[i].field : i \in DOMAIN reply.headers} |->
                    LastOf(reply.headers, field)],
     body    |-> reply.body,
     closeConnection |-> IF reply.close = "as requested" THEN close ELSE reply.close = "yes"]

defaultHttpCallback ==
    [status |-> <<"404", "Not Found">>, headers |-> << >>, body |-> << >>, close |-> "yes"]

\* What onMessage writes of itself: a status line and nothing else.
BadRequest ==
    [status |-> <<"400", "Bad Request">>, headers |-> << >>, body |-> << >>, closeConnection |-> TRUE]

\* A length in decimal digits.
Digit(d) == <<"0", "1", "2", "3", "4", "5", "6", "7", "8", "9">>[d + 1]
Decimal[n \in Nat] ==
    IF n < 10 THEN <<Digit(n)>> ELSE Append(Decimal[n \div 10], Digit(n % 10))

StatusLine(r) == <<"HTTP/1.1", " ", r.status[1], " ", r.status[2]>> \o <<CR, LF>>
Field(field, value) == <<field, ": ">> \o value \o <<CR, LF>>
Fields(r) == FlattenSeq(SetToSeq({Field(f, r.headers[f]) : f \in DOMAIN r.headers}))

\* Faulty: an empty body has no length.
AppendToBufferNoLength(r) ==
    StatusLine(r)
      \o (IF r.closeConnection THEN Field("Connection", <<"close">>)
          ELSE (IF r.body = << >> THEN << >> ELSE Field("Content-Length", Decimal[Len(r.body)]))
                 \o Field("Connection", <<"Keep-Alive">>))
      \o Fields(r) \o <<CR, LF>> \o r.body

AppendToBuffer(r) ==
    StatusLine(r)
      \o (IF r.closeConnection THEN Field("Connection", <<"close">>)
          ELSE Field("Content-Length", Decimal[Len(r.body)]) \o Field("Connection", <<"Keep-Alive">>))
      \o Fields(r) \o <<CR, LF>> \o r.body

-----------------------------------------------------------------------------
(* The client.                                                             *)

RequestLine(r) == <<r.method, " ", r.path>> \o r.query \o <<" ">> \o r.version
HeaderLine(h)  == <<h.field, ":">> \o h.value
LinesOf(r) ==
    <<RequestLine(r)>> \o [i \in DOMAIN r.headers |-> HeaderLine(r.headers[i])] \o << << >> >>
Wire(r) == LET lines == LinesOf(r) IN FlattenSeq([i \in DOMAIN lines |-> lines[i] \o <<CR, LF>>])

\* What the client writes up to the end of its n-th request.
WrittenUpTo(n) == FlattenSeq([i \in 1 .. n |-> Wire(script[i])])
Stream == WrittenUpTo(Len(script))

Init ==
    /\ script \in Scripts
    /\ pipelines \in BOOLEAN
    /\ sent = 0
    /\ pc = "idle"
    /\ Input!Init
    /\ state = "kExpectRequestLine"
    /\ request = NewRequest
    /\ conn = "kConnected"
    /\ served = << >>
    /\ written = << >>
    /\ answers = << >>
    /\ aborted = FALSE

-----------------------------------------------------------------------------
(* onMessage().                                                            *)

MayBeSent == IF pipelines THEN Len(Stream)
             ELSE Len(WrittenUpTo(Min({Len(answers) + 1, Len(script)})))

\* A piece arrives: the connection appends it to its input buffer and calls onMessage.
OnMessage(upTo) ==
    /\ pc = "idle" /\ ~aborted
    /\ sent' = upTo
    /\ Input!PutBack(SubSeq(Stream, sent + 1, upTo))
    /\ pc' = "parse"
    /\ UNCHANGED <<client, context, output, aborted>>

IsLine(n) == Input!EndsLine(n) /\ \A m \in 2 .. n - 1 : ~Input!EndsLine(m)
LineOf(n) == SubSeq(buffer, 1, n - 2)

\* Faulty: a line that ends where the piece ends is not found.
NoLineBeforeEnd == \A n \in 2 .. Len(buffer) - 1 : ~Input!EndsLine(n)

NoLine == \A n \in 2 .. Len(buffer) : ~Input!EndsLine(n)

\* parseRequest returns, and waits for more.
LineIncomplete ==
    /\ pc = "parse" /\ ~aborted
    /\ NoLine
    /\ pc' = "idle"
    /\ UNCHANGED <<client, sent, buffer, line, context, output, aborted>>

ProcessRequestLine(n) ==
    /\ pc = "parse" /\ ~aborted
    /\ state = "kExpectRequestLine" /\ IsLine(n) /\ GoodLine(LineOf(n))
    /\ aborted' = (request.method # "kInvalid")
    /\ request' = Processed(request, LineOf(n))
    /\ Input!TakeLine(n)
    /\ state' = "kExpectHeaders"
    /\ UNCHANGED <<client, sent, pc, output>>

\* Faulty: the response is sent on a connection that is shutting down.
SentAlways(r, response, text) ==
    /\ written' = written \o text
    /\ answers' = Append(answers, [request |-> r, response |-> response])

\* send() does nothing when the connection is not connected, and neither does shutdown().
Sent(r, response, text) ==
    IF conn = "kConnected"
    THEN /\ written' = written \o text
         /\ answers' = Append(answers, [request |-> r, response |-> response])
    ELSE UNCHANGED <<written, answers>>

Shutdown(close) == conn' = IF close THEN "kDisconnecting" ELSE conn

\* The request line is bad: it stays in the buffer, and the context keeps what it has.
RefuseRequestLine(n) ==
    /\ pc = "parse" /\ ~aborted
    /\ state = "kExpectRequestLine" /\ IsLine(n) /\ ~GoodLine(LineOf(n))
    /\ aborted' = (HasMethod(LineOf(n)) /\ request.method # "kInvalid")
    /\ request' = Processed(request, LineOf(n))
    /\ IF aborted' THEN UNCHANGED <<conn, written, answers>>
       ELSE Sent(NewRequest, BadRequest, StatusLine(BadRequest) \o <<CR, LF>>) /\ Shutdown(TRUE)
    /\ pc' = "idle"
    /\ UNCHANGED <<client, sent, buffer, line, state, served>>

AddHeader(n) ==
    /\ pc = "parse" /\ ~aborted
    /\ state = "kExpectHeaders" /\ IsLine(n) /\ Has(LineOf(n), ":")
    /\ request' = WithHeader(request, LineOf(n))
    /\ Input!TakeLine(n)
    /\ UNCHANGED <<client, sent, pc, state, output, aborted>>

\* A line without a colon ends the headers; parseRequest returns.
EndHeaders(n) ==
    /\ pc = "parse" /\ ~aborted
    /\ state = "kExpectHeaders" /\ IsLine(n) /\ ~Has(LineOf(n), ":")
    /\ state' = "kGotAll"
    /\ pc' = "request"
    /\ Input!TakeLine(n)
    /\ UNCHANGED <<client, sent, request, output, aborted>>

\* Faulty: the method is not swapped for that of a new request.
ResetKeepsMethod == /\ state' = "kExpectRequestLine"
                    /\ request' = [NewRequest EXCEPT !.method = request.method]

Reset == state' = "kExpectRequestLine" /\ request' = NewRequest

\* onRequest() and reset(): the callback decides last whether the connection is closed.
OnRequest(reply) ==
    /\ pc = "request" /\ ~aborted
    /\ LET response == Response(WantsClose(request), reply)
       IN  /\ Sent(request, response, AppendToBuffer(response))
           /\ Shutdown(response.closeConnection)
    /\ served' = Append(served, request)
    /\ Reset
    /\ pc' = "idle"
    /\ UNCHANGED <<client, sent, buffer, line, aborted>>

Parse == \/ LineIncomplete
         \/ \E n \in 2 .. Len(buffer) : \/ ProcessRequestLine(n)
                                        \/ RefuseRequestLine(n)
                                        \/ AddHeader(n)
                                        \/ EndHeaders(n)
Serve == \E reply \in Replies \cup {defaultHttpCallback} : OnRequest(reply)

Next == \/ \E upTo \in sent + 1 .. MayBeSent : OnMessage(upTo)
        \/ Parse
        \/ Serve

Spec == Init /\ [][Next]_vars

-----------------------------------------------------------------------------
(* Properties.                                                             *)

Text == Seq(UNION {ToSet(Wire(script[i])) : i \in DOMAIN script})

TypeOK ==
    /\ script \in Scripts /\ pipelines \in BOOLEAN
    /\ sent \in 0 .. Len(Stream)
    /\ pc \in {"idle", "parse", "request"}
    /\ buffer \in Text /\ line \in Text
    /\ state \in {"kExpectRequestLine", "kExpectHeaders", "kGotAll"}
    /\ (state = "kGotAll") = (pc = "request")
    /\ request.method \in Methods \cup {"kInvalid"}
    /\ request.version \in {"kUnknown", "kHttp10", "kHttp20"}
    /\ conn \in {"kConnected", "kDisconnecting"}
    /\ aborted \in BOOLEAN

\* A request that is to be served: of HTTP/1.x or 2.x, with a method that the server knows.
IsGood(r) == r.method \in Methods /\ r.version \in Http1 \cup Http2

LastValue(r, field) == Trimmed(LastOf(r.headers, field))

\* A handler that is given q sees the request r of a client: all of it but for the minor version,
\* and of a field that comes several times the last value.
ShowsRequest(q, r) ==
    /\ q.method = r.method /\ q.path = <<r.path>> /\ q.query = r.query
    /\ IF r.version \in Http2 THEN q.version = "kHttp20" ELSE q.version \in {"kHttp10", "kHttp11"}
    /\ q.headers = [field \in {<<r.headers[i].field>> : i \in DOMAIN r.headers} |->
                      LastValue(r, field[1])]

\* Wherever the pieces are cut, and however many requests a piece holds, handlers see the client's
\* requests, in order, each once and unmixed with another; and none from the first one on whose
\* request line is refused.
ParsedAsWhole ==
    /\ TypeOK
    /\ Len(served) <= Len(script)
    /\ \A i \in DOMAIN served : IsGood(script[i]) /\ ShowsRequest(served[i], script[i])

\* A request of a client that waits for each answer is answered, or refused, as soon as its last
\* byte has come: nothing complete is left in the buffer (of several at once, each waits for
\* another message).  Only a refused line that stays in the buffer and is parsed again with the
\* next piece makes setMethod() find a method.
AnsweredAtOnce ==
    /\ pc = "idle" /\ ~pipelines /\ ~aborted /\ conn = "kConnected" =>
          \A n \in DOMAIN script : sent = Len(WrittenUpTo(n)) => Len(answers) = n
    /\ aborted => /\ state = "kExpectRequestLine"
                  /\ \E n \in 2 .. Len(buffer) : IsLine(n) /\ ~GoodLine(LineOf(n))

\* An answer that onMessage writes of itself, to no request.
Refused(answer) == answer.request = NewRequest

\* The answers are those of the requests served, in order, up to a refusal.  One that says that
\* the connection is closed is the last, is followed by the shutdown, and there is no shutdown
\* without it.
AnswersInOrder ==
    /\ \A i \in DOMAIN answers :
          LET response == answers[i].response
          IN  /\ IF Refused(answers[i]) THEN ~IsGood(script[i])
                 ELSE i \in DOMAIN served /\ answers[i].request = served[i]
              /\ response.closeConnection => i = Len(answers)
    /\ (conn = "kDisconnecting") = (\E i \in DOMAIN answers : answers[i].response.closeConnection)

\* What a client takes for the body of the answer that begins a text, to a request with that
\* method: after the first empty line, of the length it is told, or up to the close.
EndsHead(text, n) ==
    text[n - 3] = CR /\ text[n - 2] = LF /\ text[n - 1] = CR /\ text[n] = LF
HeadEnd(text) ==
    CHOOSE n \in 4 .. Len(text) : EndsHead(text, n) /\ \A m \in 4 .. n - 1 : ~EndsHead(text, m)
LengthTold(head) == Before(Tail(After(head, "Content-Length")), CR)
BodyRead(text, method) ==
    LET head == SubSeq(text, 1, HeadEnd(text))
        rest == SubSeq(text, HeadEnd(text) + 1, Len(text))
    IN  IF method = "HEAD" THEN << >>
        ELSE IF ~Has(head, "Content-Length") THEN rest
        ELSE SubSeq(rest, 1, CHOOSE n \in 0 .. Len(rest) : Decimal[n] = LengthTold(head))

TextSent(answer) ==
    IF Refused(answer) THEN StatusLine(BadRequest) \o <<CR, LF>>
    ELSE AppendToBuffer(answer.response)
WrittenFrom(i) ==
    LET before == FlattenSeq([j \in 1 .. i - 1 |-> TextSent(answers[j])])
    IN  SubSeq(written, Len(before) + 1, Len(written))

\* A client that reads what is written finds each answer in it, with its body and no other, whatever
\* the callbacks decide; but an answer to HEAD may have a body, and puts it out of step.
AnswersRead ==
    \A i \in DOMAIN answers :
        (\A j \in 1 .. i : answers[j].request.method = "HEAD" => answers[j].response.body = << >>)
           => BodyRead(WrittenFrom(i), answers[i].request.method) = answers[i].response.body
=============================================================================
