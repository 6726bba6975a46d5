----------------------------- MODULE HttpParser -----------------------------
(***************************************************************************)
(* One connection of the command line client: the requests it sends, the   *)
(* pieces in which they arrive, and handleRead with its parser.            *)
(*                                                                         *)
(* A token is a run of bytes whose inner splits make no difference to the  *)
(* parser: a method, a path, a header's name or value, a piece of text, or *)
(* one of the bytes it looks for.  Of the client's three headers there are *)
(* the first and the last (the one between them is like the last).         *)
(*                                                                         *)
(* parseHeaders keeps hState_ and headers_ from one piece to the next, but *)
(* the places of the header's parts in local variables, which are lost; it *)
(* cuts the buffer at the start of the line and goes on, in the old state, *)
(* with that start.  parseURI tests an unsigned position for being below   *)
(* zero, so that it never waits for the rest of a line.                    *)
(*                                                                         *)
(* The registration, the timers, the writing and the client's closing are  *)
(* in SubReactor; here a connection is open or not.                        *)
(***************************************************************************)
EXTENDS Integers, Sequences, SequencesExt

CONSTANTS
    Requests,       \* what the client asks
    Hello,          \* what it asks first
    Named,          \* the pieces of text with a "@" in them
    Listings,       \* the paths that ask for messages, in good format
    MaxRequests     \* bound: requests of the client

(* text: the name and the message of a POST, in pieces between which there *)
(* is a "^".  The message is one line the user types, and so is the name.  *)
(* A path is "", "msg" or two numbers, with the "/" before it: none of the *)
(* bytes and words that the parser looks for; a text has no other "/".     *)
ASSUME ParserAssumption ==
    /\ Hello \in Requests
    /\ \A q \in Requests :
        /\ q.method \in {"GET", "HEAD", "POST"}
        /\ q.path \in STRING \ {"^", "CR", "LF", ":", " ", "GET", "HEAD", "POST"}
        /\ q.text \in Seq(STRING) /\ "LF" \notin ToSet(q.text)
        /\ q.method # "POST" => q.text = <<>>
    /\ MaxRequests \in Nat

VARIABLES
    wire,       \* the tokens that were sent and not yet read
    buf,        \* inBuffer_
    state,      \* state_, between two calls of handleRead
    hState,     \* hState_
    req,        \* method_ and fileName_
    keepHeader, \* headers_ has "Connection: Keep-Alive"
    keepAlive,  \* keepAlive_
    open,       \* the connection is not closed
    cache,      \* the names the cache has an answer for
    stored,     \* history: the texts this connection stored
    answers,    \* the answers the client has not yet read
    client      \* the client: phase, last request, number of them, late

parser == <<buf, state, hState, req, keepHeader>>
vars == <<parser, wire, keepAlive, open, cache, stored, answers, client>>

Index == "index.html"
Methods == {"GET", "POST", "HEAD"}
Pages == {Index} \cup Listings      \* what there is an answer for
HStates == {"start", "key", "colon", "space", "value", "cr", "lf", "endcr", "endlf"}

\* What a stream is made of.
Words == {"GET", "HEAD", "POST", "HTTP/1.1", "CR", "LF", ":", " ", "Host", "address",
          "Connection", "Keep-Alive", "^"}
         \cup {q.path : q \in Requests} \cup UNION {ToSet(q.text) : q \in Requests}

TypeOK ==
    /\ {buf, wire} \subseteq Seq(Words)
    /\ state \in {"uri", "headers"} /\ hState \in HStates \ {"endlf"}
    /\ req \in [method : Methods, path : Words]
    /\ {keepHeader, keepAlive, open} \subseteq BOOLEAN
    /\ cache \subseteq Pages
    /\ client \in [phase : {"idle", "waiting", "left"}, last : Requests,
                   count : 0..MaxRequests, late : BOOLEAN]
    /\ Len(answers) <= client.count + 1
    /\ ToSet(answers) \subseteq {"ok", "bad", "not found"}
    /\ state = "uri" => buf = <<>> /\ hState = "start" /\ ~keepHeader

-----------------------------------------------------------------------------
(* The client.                                                             *)

HeaderLine(name, value) == <<name, ":", " ", value, "CR", "LF">>

Encode(q) ==
    <<q.method, q.path, "HTTP/1.1", "CR", "LF">>
    \o HeaderLine("Host", "address") \o HeaderLine("Connection", "Keep-Alive")
    \o <<"CR", "LF">>
    \o (IF q.method = "POST" THEN <<"^">> \o q.text \o <<"^">> ELSE <<>>)

\* One request at a time, the start page first.
Send(q) ==
    /\ client.phase = "idle" /\ client.count < MaxRequests
    /\ client.count = 0 => q = Hello
    /\ client' = [client EXCEPT !.phase = "waiting", !.last = q, !.count = @ + 1]
    /\ wire' = IF open THEN wire \o Encode(q) ELSE wire
    /\ UNCHANGED <<parser, keepAlive, open, cache, stored, answers>>

\* After a second the client reads what there is.
TakeAnswers ==
    /\ client.phase = "waiting" /\ answers # <<>>
    /\ answers' = <<>> /\ client' = [client EXCEPT !.phase = "idle"]
    /\ UNCHANGED <<parser, wire, keepAlive, open, cache, stored>>

(* There is nothing.  After a POST, or at the end of the stream, the client*)
(* gives up; otherwise (and always after the first request) it goes on,    *)
(* and the answer may come late.                                           *)
NoAnswer ==
    /\ client.phase = "waiting" /\ answers = <<>>
    /\ client' = IF client.last.method = "POST" \/ (~open /\ client.count > 1)
                 THEN [client EXCEPT !.phase = "left"]
                 ELSE [client EXCEPT !.phase = "idle", !.late = TRUE]
    /\ UNCHANGED <<parser, wire, keepAlive, open, cache, stored, answers>>

\* Requests of others are put into the cache and evicted.
OthersCache ==
    /\ \E n \in Pages : cache' \in {cache \cup {n}, cache \ {n}}
    /\ UNCHANGED <<parser, wire, keepAlive, open, stored, answers, client>>

-----------------------------------------------------------------------------
(* The parser, as functions of the buffer b.                               *)

Places(b, tok) == {i \in 1..Len(b) : b[i] = tok}
First(S) == CHOOSE i \in S : \A j \in S : i <= j

(* parseURI.  Without a line end the whole buffer is the line, and stays.  *)
(* The method is looked for anywhere in the line; what is missing behind   *)
(* it makes the text at the start of the line the version: an error.       *)
LineEnds(b) == {i \in 1..Len(b) - 1 : b[i] = "CR" /\ b[i + 1] = "LF"}
RequestLine(b) == IF LineEnds(b) = {} THEN b ELSE SubSeq(b, 1, First(LineEnds(b)) - 1)
AfterLine(b) == IF LineEnds(b) = {} THEN b ELSE SubSeq(b, First(LineEnds(b)) + 1, Len(b))

MethodOf(line) ==
    IF Places(line, "GET") # {} THEN "GET"
    ELSE IF Places(line, "POST") # {} THEN "POST" ELSE "HEAD"

(* The path is at the next "/" behind the method, the version at the next  *)
(* one behind the path.                                                    *)
Slashed == {q.path : q \in Requests} \cup {"HTTP/1.1"}
Slashes(line) ==
    {i \in 1..Len(line) : i > First(Places(line, MethodOf(line))) /\ line[i] \in Slashed}
PathAt(line) == First(Slashes(line))
VersionAt(line) == First(Slashes(line) \ {PathAt(line)})

LineOK(line) ==
    /\ \E m \in Methods : Places(line, m) # {}
    /\ \E i \in Slashes(line) : i # PathAt(line)
    /\ line[VersionAt(line)] = "HTTP/1.1"

ParsedLine(line) == [method |-> MethodOf(line), path |-> line[PathAt(line)]]

(* parseHeaders: one round of its loop.  name is what was read of a name   *)
(* in this call, i the next place, line the start of the current line.     *)
Round(s, tok) ==
    LET at(h) == [s EXCEPT !.h = h, !.i = @ + 1]
        newline == tok \in {"CR", "LF"}
        bad == [s EXCEPT !.end = "error"]
    IN
    CASE s.h = "start" ->
            IF newline THEN at("start")
            ELSE [at("key") EXCEPT !.name = <<tok>>, !.line = s.i]
      [] s.h = "key" ->
            IF tok = ":" THEN at("colon")
            ELSE IF newline THEN bad
            ELSE [at("key") EXCEPT !.name = IF @ = <<>> THEN @ ELSE Append(@, tok)]
      [] s.h = "colon" -> IF tok = " " THEN at("space") ELSE bad
      [] s.h = "space" -> at("value")
      [] s.h = "value" -> IF tok = "CR" THEN at("cr") ELSE at("value")
      [] s.h = "cr" ->
            IF tok = "LF"
            THEN [at("lf") EXCEPT !.keep = @ \/ s.name = <<"Connection">>,
                                  !.name = <<>>, !.line = s.i]
            ELSE bad
      [] s.h = "lf" ->
            IF tok = "CR" THEN at("endcr") ELSE [at("key") EXCEPT !.name = <<tok>>]
      [] s.h = "endcr" -> IF tok = "LF" THEN at("endlf") ELSE bad
      [] s.h = "endlf" -> [at("endlf") EXCEPT !.end = "body"]

\* The loop over the buffer b, from the header state h.
Loop(b, h) ==
    LET after[k \in 0..Len(b)] ==
            IF k = 0
            THEN [h |-> h, i |-> 1, line |-> 1, name |-> <<>>, keep |-> keepHeader, end |-> "no"]
            ELSE LET s == after[k - 1] IN IF s.end = "no" THEN Round(s, b[k]) ELSE s
    IN  after[Len(b)]

\* Mutant: the loop begins anew at the start of the line that was cut.
ParsedHeadersAnew(b) == Loop(b, "start")
ParsedHeaders(b) == Loop(b, hState)

\* Mutant: the last separator ends the text.
EnclosedByLast(body) ==
    LET marks == Places(body, "^")
    IN  SubSeq(body, First(marks) + 1, (CHOOSE i \in marks : \A j \in marks : j <= i) - 1)

\* The text of a POST: what is between the first two "^".
Enclosed(body) ==
    LET one == First(Places(body, "^"))
        two == First(Places(body, "^") \ {one})
    IN  SubSeq(body, one + 1, two - 1)

TextOK(body) ==
    /\ \E i, j \in Places(body, "^") : i # j
    /\ ToSet(Enclosed(body)) \cap Named # {}

-----------------------------------------------------------------------------
(* handleRead, and what handleConn makes of it: a connection that is not   *)
(* kept alive is closed, also while its request is incomplete.             *)

(* What readn and the parser make of n more tokens: bad (no request line), *)
(* the request, the text after its line, the state of the headers.         *)
Taken(n) == buf \o SubSeq(wire, 1, n)
NoLine == state = "uri"
Rest(n) == IF NoLine THEN AfterLine(Taken(n)) ELSE Taken(n)

Parsed(n) ==
    IF NoLine /\ ~LineOK(RequestLine(Taken(n))) THEN [n |-> n, bad |-> TRUE]
    ELSE [n |-> n, bad |-> FALSE, rest |-> Rest(n), heads |-> ParsedHeaders(Rest(n)),
          req |-> IF NoLine THEN ParsedLine(RequestLine(Taken(n))) ELSE req]

\* Mutant: the state of the header parser is not reset.
ResetButHeaders == buf' = <<>> /\ state' = "uri" /\ UNCHANGED hState /\ keepHeader' = FALSE
\* reset, which drops all that was read.
Reset == buf' = <<>> /\ state' = "uri" /\ hState' = "start" /\ keepHeader' = FALSE

\* n tokens were read; the connection stays open if go.
ReadThen(n, go) ==
    /\ open' = go
    /\ wire' = IF go THEN SubSeq(wire, n + 1, Len(wire)) ELSE <<>>
    /\ UNCHANGED client

\* handleError and the end of the connection.
Refuse(n, answer) ==
    /\ answers' = Append(answers, answer)
    /\ Reset /\ ReadThen(n, FALSE)
    /\ UNCHANGED <<req, keepAlive, cache, stored>>

RefuseLine(p) == p.bad /\ Refuse(p.n, "bad")

RefuseHeader(p) == ~p.bad /\ p.heads.end = "error" /\ Refuse(p.n, "bad")

\* The headers do not end here.
Await(p) ==
    /\ ~p.bad /\ p.heads.end = "no" /\ p.heads.h # "endlf"
    /\ IF keepAlive
       THEN /\ buf' = SubSeq(p.rest, p.heads.line, Len(p.rest))
            /\ state' = "headers" /\ hState' = p.heads.h /\ keepHeader' = p.heads.keep
       ELSE Reset
    /\ req' = p.req
    /\ ReadThen(p.n, keepAlive)
    /\ UNCHANGED <<keepAlive, cache, stored, answers>>

Complete(p) == ~p.bad /\ p.heads.end # "error" /\ p.heads.h = "endlf"
\* Mutant: the buffer is cut one place too far.
BodyCut(p) == SubSeq(p.rest, p.heads.i, Len(p.rest))
Body(p) == SubSeq(p.rest, p.heads.i - 1, Len(p.rest))

\* The request is answered and forgotten.
Answer(p, answer, keep) ==
    /\ answers' = Append(answers, answer)
    /\ keepAlive' = keep /\ req' = p.req
    /\ Reset /\ ReadThen(p.n, keep)

ServePost(p) ==
    /\ Complete(p) /\ p.req.method = "POST"
    /\ IF TextOK(Body(p))
       THEN /\ stored' = stored \cup {Enclosed(Body(p))}
            /\ Answer(p, "ok", keepAlive \/ p.heads.keep)
       ELSE /\ UNCHANGED stored
            /\ Answer(p, "bad", keepAlive \/ p.heads.keep)
    /\ UNCHANGED cache

Asked(p) == Complete(p) /\ p.req.method # "POST"

\* A cached answer is sent as it is; the headers of the request are not looked at.
ServeCached(p) ==
    /\ Asked(p) /\ p.req.path \in cache
    /\ Answer(p, "ok", keepAlive)
    /\ UNCHANGED <<cache, stored>>

ServeGet(p) ==
    /\ Asked(p) /\ p.req.path \in Pages \ cache
    /\ Answer(p, "ok", keepAlive \/ p.heads.keep)
    /\ cache' = IF p.req.method = "HEAD" THEN cache ELSE cache \cup {p.req.path}
    /\ UNCHANGED stored

ServeNothing(p) ==
    /\ Asked(p) /\ p.req.path \notin Pages
    /\ Refuse(p.n, "not found")

Handle(p) ==
    \/ RefuseLine(p) \/ RefuseHeader(p) \/ Await(p)
    \/ ServePost(p) \/ ServeCached(p) \/ ServeGet(p) \/ ServeNothing(p)

Read(n) == open /\ \E p \in {Parsed(n)} : Handle(p)

Init ==
    /\ wire = <<>> /\ buf = <<>> /\ answers = <<>>
    /\ state = "uri" /\ hState = "start"
    /\ req = [method |-> "GET", path |-> Hello.path]
    /\ keepHeader = FALSE /\ keepAlive = FALSE /\ open = TRUE
    /\ cache = {} /\ stored = {}
    /\ client = [phase |-> "idle", last |-> Hello, count |-> 0, late |-> FALSE]

Next ==
    \/ \E q \in Requests : Send(q)
    \/ TakeAnswers \/ NoAnswer \/ OthersCache
    \/ \E n \in 1..Len(wire) : Read(n)

Spec == Init /\ [][Next]_vars

-----------------------------------------------------------------------------
Texts == {q.text : q \in {x \in Requests : x.method = "POST"}}
UpToMark(t) == IF Places(t, "^") = {} THEN t ELSE SubSeq(t, 1, First(Places(t, "^")) - 1)

(* Whatever the pieces in which requests arrive and whatever is lost, what *)
(* analysisRequest stores is a text the client sent (up to the separator,  *)
(* if the user typed one), never a mixture of two or the middle of one.    *)
StoredAsSent == stored \subseteq {UpToMark(t) : t \in Texts}

(* A client that always waits for its answer, and all of whose bytes were  *)
(* read, has an answer, be it a refusal, or sees the connection closed:    *)
(* the parser never waits for more than a request has.                     *)
NoneWaiting ==
    client.phase = "waiting" /\ ~client.late /\ open /\ wire = <<>> => answers # <<>>

(* A request that is read in one piece by an idle connection is served for *)
(* what it is, and the connection is kept as the client asks.  (The answer *)
(* to the first request may come from the cache; then it is closed.)       *)
Alone == open /\ buf = <<>> /\ state = "uri" /\ wire = Encode(client.last)
Plain(q) == q.method # "POST" \/ (Places(q.text, "^") = {} /\ ToSet(q.text) \cap Named # {})
Known(q) == q.method = "POST" \/ q.path \in Pages

WholeServed ==
    [][LET q == client.last IN
       Alone /\ Plain(q) /\ Known(q) /\ Read(Len(wire)) =>
        /\ answers' = Append(answers, "ok")
        /\ q.method = "POST" => q.text \in stored'
        /\ keepAlive \/ q.path \notin cache => open']_vars
=============================================================================
