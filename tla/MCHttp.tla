------------------------------- MODULE MCHttp -------------------------------
\* A client and how it reads a response, a pool of clients, a server, its router, a TCP
\* server, and the texts of HTTP. A behaviour exercises one of them and the others rest;
\* for the router and for texts it is one set of calls.
EXTENDS HttpClient
CONSTANTS t1, t2, t3, none, c1, c2

\* The client: one thread, the task runner's own, or two others.
Two == {t1, t2}
OnTheRunner == [callers |-> {t1}, onRunner |-> TRUE, follow |-> TRUE,
                earlyClose |-> FALSE, requests |-> 3]
FromThreads == [callers |-> Two, onRunner |-> FALSE, follow |-> FALSE,
                earlyClose |-> TRUE, requests |-> 2]
MCUses == {OnTheRunner, FromThreads}

\* The server: pairs of requests, and an upgrade with pairs of frames after it.
Req(kind, connection, head, body) ==
  [kind |-> kind, connection |-> connection, handshake |-> FALSE, head |-> head, body |-> body]
Upgrade == [Req("request", "close", 1, 0) EXCEPT !.handshake = TRUE]
Frame(kind, body) == [kind |-> kind, head |-> 1, body |-> body]
Some ==
  {Req("request", "none", 1, 1), Req("request", "keep", 2, 0), Req("request", "close", 1, 0),
   Req("request", "none", 1, 3), Req("request", "none", 5, 0), Req("options", "none", 1, 0),
   Req("malformed", "none", 1, 0)}
Upgraded ==
  {Frame(k, 0) : k \in {"ping", "close", "other", "unmasked"}}
  \cup {Frame("data", 1), Frame("data", 4), Req("request", "none", 1, 0)}
MCStreams == {<<m, n>> : m, n \in Some} \cup {<<Upgrade, m, n>> : m, n \in Upgraded}

\* The TCP server: owners that do what they like, or cannot have every port.
Habit(closeItself, broadcast, dropsTold, available) ==
  [closeItself |-> closeItself, broadcast |-> broadcast, dropsTold |-> dropsTold,
   available |-> available]
Families == {"inet", "inet6"}
MCHabits ==
  {Habit(s, b, d, Families) : s, b, d \in BOOLEAN}
  \cup {Habit(FALSE, FALSE, FALSE, f) : f \in SUBSET Families}

VARIABLES
  used, clients, peers, front, busy, stopping, heard,
  running, listening, sockets, remotes, told, dropped, starts, habit, telling, broken, routing,
  message, arrived, reading, result, closed, text,
  free, dying, at, holds, moved, inUse, acquires, keeps

serverVars == <<clients, peers, front, busy, stopping, heard>>
tcpVars == <<running, listening, sockets, remotes, told, dropped, starts, habit, telling, broken>>
readVars == <<message, arrived, reading, result, closed>>
callVars == <<routing, text>>
poolVars == <<free, dying, at, holds, moved, inUse, acquires, keeps>>
allVars == <<used, vars, serverVars, tcpVars, readVars, callVars, poolVars>>

Server == INSTANCE HttpServer WITH
  Conns <- {c1}, NoConn <- none, Streams <- MCStreams, MaxRequest <- 4, Slack <- 2,
  FilesShrink <- FALSE
Tcp == INSTANCE TcpServer WITH
  Clients <- {c1, c2}, MaxChunks <- 1, MaxStarts <- 2, Habits <- MCHabits
Router == INSTANCE HttpRouter
Pool == INSTANCE HttpClientPool WITH
  Borrowers <- {t1, t2, t3}, Lendable <- {c1, c2}, NoClient <- none, MaxAcquires <- 4,
  stopping <- dying, busy <- inUse

\* The router: patterns of one and two segments; and pairs of routes, behind a
\* middleware or a static server.
Segments ==
  {<<>>, <<Router!Char("a")>>, <<Router!AnyChar>>}
  \cup {<<p>> : p \in {Router!Colon("x"), Router!Colon("y"), Router!Brace("x")}}
  \cup {<<p, q>> : p \in {Router!Char("a"), Router!AnyChar, Router!Brace("x")},
                   q \in {Router!Char("b"), Router!Brace("y")}}
Patterns ==
  LET Slash(s) == <<Router!Char("/")>> \o s
  IN {Slash(s) : s \in Segments} \cup {Slash(s) \o Slash(u) : s, u \in Segments}
Paths == {<<"/">> \o p : p \in UNION {[1..k -> {"a", "b", "/"}] : k \in 0..3}}

Route(method, part) ==
  [method |-> method, pattern |-> <<Router!Char("/"), part>>, throws |-> FALSE]
OneRoute ==
  {Route(m, p) : m \in {"GET", "ANY"},
                 p \in {Router!Char("a"), Router!Brace("x"), Router!Colon("y")}}
Routers ==
  [cors : BOOLEAN,
   middlewares : {<<>>,
                  <<[prefix |-> <<>>, verdict |-> "pass"],
                    [prefix |-> <<"/", "a">>, verdict |-> "halt"]>>,
                  <<[prefix |-> <<"/", "b">>, verdict |-> "throw"]>>},
   statics : {<<>>} \cup {<<[prefix |-> <<"/", "b">>, exists |-> e,
                             files |-> {<<"/", "a">>}, indexed |-> {<<"/">>}]>> : e \in BOOLEAN},
   routes : {<<r, q>> : r, q \in OneRoute} \cup {<<[r EXCEPT !.throws = TRUE]>> : r \in OneRoute},
   notFound : {"answers", "throws"}, onError : {"answers", "throws"}]
Asked == {<<"/">>, <<"/", "a">>, <<"/", "b">>, <<"/", "b", "a">>, <<"/", "a", "a">>}

-----------------------------------------------------------------------------
\* Responses of up to two parts that look like ends, with framing that is true or not;
\* URLs, forms, multipart bodies and headers of a few pieces.
Upto(n, S) == UNION {[1..k -> S] : k \in 0..n}
Lookalikes ==
  {<<"x">>, <<"CR", "LF">>, <<"CR", "LF", "CR", "LF">>, <<"0", "CR", "LF", "x">>, <<"CR">>}
Message(chunked, lengths, parts, trailers, early) ==
  [chunked |-> chunked, lengths |-> lengths, parts |-> parts, trailers |-> trailers,
   early |-> early]
Responses ==
  {Message(TRUE, l, p, t, e) : l \in {{}, {1}}, p \in Upto(2, Lookalikes),
                              t \in {<<>>, <<"T", "CR", "LF">>}, e \in BOOLEAN}
  \cup {Message(FALSE, l, p, <<>>, e) : l \in {{}, {0}, {-1}, {9}}, p \in Upto(2, Lookalikes),
                                       e \in BOOLEAN}
  \cup UNION {{Message(FALSE, {Len(FlattenSeq(p))}, p, <<>>, e) : e \in BOOLEAN} :
                p \in Upto(2, Lookalikes)}
  \cup {Message(TRUE, {}, <<<<"x">>, <<"x", "x", "x">>>>, <<>>, FALSE)}

Text == INSTANCE HttpText WITH
  Messages <- Responses, MaxBuffer <- 8, outcome <- result,
  Sizes <- [line \in {"0", "1", "2", "4"} |->
              CASE line = "0" -> 0 [] line = "1" -> 1 [] line = "2" -> 2 [] OTHER -> 4],
  Ports <- [port \in {"80", "443", "big"} |->
              CASE port = "80" -> 80 [] port = "443" -> 443 [] OTHER -> 70000],
  MaxPort <- 65535, HttpPort <- 80, HttpsPort <- 443, LineRoom <- 5

Urls ==
  {<<scheme, "://">> \o rest : scheme \in {"http", "https"},
                              rest \in Upto(4, {"/", "?", "#", ":", "h", "80", "443", "big"})}
  \cup {<<"h", "/">>}
Strings == Upto(2, {38, 61, 37, 43, 32, 65, 255})
Pair(name, value) == [name |-> name, value |-> value]
Forms ==
  {<<Pair(<<byte>>, <<byte>>)>> : byte \in 0..255}
  \cup {<<Pair(name, value)>> : name, value \in Strings}
  \cup {<<Pair(name, <<38>>), Pair(<<66>>, value)>> : name, value \in Strings}
Part(name, file, value) ==
  [name |-> name, file |-> file, value |-> value, type |-> IF file = <<>> THEN <<>> ELSE <<"y">>]
Values == Upto(3, {"x", "CR", "LF", "-"})
Bodies ==
  {<<Part(name, file, value)>> : name \in {<<"n">>, <<"n", "n", "n">>},
                                file \in {<<>>, <<"f">>, [k \in 1..6 |-> "f"]}, value \in Values}
  \cup {<<Part(<<"m">>, <<>>, v), Part(<<"n">>, file, w)>> : file \in {<<>>, <<"f">>},
                                                            v, w \in Values}
\* No file is empty: CalculateMultipartSize refuses it.
Sendable == {parts \in Bodies : \A k \in DOMAIN parts : parts[k].file # <<>> => parts[k].value # <<>>}

Name(word, spelled) == [word |-> word, spelled |-> spelled]
Given ==
  {<<>>, <<Pair(Name("a", "p"), 1), Pair(Name("b", "p"), 1)>>}
  \cup {<<Pair(Name(word, spelled), 1)>> : word \in {"a", "Content-Length"}, spelled \in {"p", "q"}}
Defaults == {<<>>} \cup {Text!AddHeader(Text!AddHeader(<<>>, h[1].name, 1), Name("a", "p"), 2) :
                           h \in Given \ {<<>>}}
Stored == Text!SetCookie(Text!SetCookie(Text!SetCookie({}, "h", "c", 1), "g", "c", 2), "h", "c", 3)
Requested ==
  {[headers |-> headers, body |-> body, parts |-> <<>>, host |-> "h"] :
     headers \in Given, body \in {<<>>, <<"x">>}}
  \cup {[headers |-> headers, body |-> <<>>, parts |-> <<Part(<<"n">>, <<>>, <<>>)>>,
          host |-> "h"] : headers \in Given}

-----------------------------------------------------------------------------
\* What rests has one initial state, and what is used is chosen first.
Chosen ==
  /\ used \in {"client", "pool", "server", "tcp", "pattern", "router", "response", "url", "form",
               "multipart", "request"}
  /\ (used = "client" \/ use = OnTheRunner) /\ (used = "pool" \/ keeps = TRUE)
  /\ message \in IF used = "response" THEN Responses ELSE {CHOOSE m \in Responses : TRUE}
  /\ Init /\ Pool!Init /\ Text!Init
  /\ Server!Init /\ (used = "server" \/ peers[c1].stream = CHOOSE s \in MCStreams : TRUE)
  /\ Tcp!Init /\ (used = "tcp" \/ habit = Habit(TRUE, TRUE, TRUE, Families))
  /\ CASE used = "pattern" -> routing \in Patterns
       [] used = "router" -> routing \in Routers
       [] OTHER -> routing = <<>>
  /\ CASE used = "url" -> text \in Urls
       [] used = "form" -> text \in Forms
       [] used = "multipart" -> text \in Sendable
       [] OTHER -> text = <<>>

OfClient(A) ==
  used = "client" /\ A /\ UNCHANGED <<used, serverVars, tcpVars, readVars, callVars, poolVars>>
OfPool(A) ==
  used = "pool" /\ A /\ UNCHANGED <<used, vars, serverVars, tcpVars, readVars, callVars>>
OfServer(A) ==
  used = "server" /\ A /\ UNCHANGED <<used, vars, tcpVars, readVars, callVars, poolVars>>
OfTcp(A) ==
  used = "tcp" /\ A /\ UNCHANGED <<used, vars, serverVars, readVars, callVars, poolVars>>
OfText(A) ==
  used = "response" /\ A /\ UNCHANGED <<used, vars, serverVars, tcpVars, callVars, poolVars>>

OneStep ==
  \/ OfClient(Next) \/ OfServer(Server!Next) \/ OfTcp(Tcp!Next) \/ OfText(Text!Next)
  \/ OfPool(Pool!Next)
All == Chosen /\ [][OneStep]_allVars

\* One of them is used, so a pair that is weakly fair makes each of it so.
FairAll ==
  /\ All
  /\ WF_allVars(OfClient(Runs) \/ OfServer(Server!Serve(c1)) \/ OfTcp(Tcp!Serve(c1)))
  /\ WF_allVars(OfClient(\E timer \in timers : Expire(timer)) \/ OfTcp(Tcp!Serve(c2)))
  /\ WF_allVars(OfClient(~destroyed /\ \E success \in BOOLEAN : OnConnected(success)))
  /\ \A t \in Threads : WF_allVars(OfClient(Caller(t)))

Routing ==
  /\ used = "pattern" => \A path \in Paths : Router!RouteMeans(routing, path)
  /\ used = "router" =>
       \A method \in {"GET", "POST", "OPTIONS"}, path \in Asked, query \in {<<>>, <<"?", "b">>} :
         Router!OneHandler(routing, method, path, query)

Servers ==
  /\ used = "server" => Server!Safe
  /\ used = "tcp" => Tcp!Safe
  /\ used = "pool" => Pool!Safe

\* What HttpClient makes of a response, and of what it sends.
Texts ==
  CASE used = "response"  -> Text!Reads
    [] used = "url"       -> Text!UrlSplits(text)
    [] used = "form"      -> Text!FormReadsBack(text)
    [] used = "multipart" -> Text!MultipartReadsBack(text)
    [] used = "request"   -> \A d \in Defaults, r \in Requested, cookies \in {{}, Stored} :
                               Text!RequestHeaders(d, r, cookies)
    [] OTHER -> TRUE

\* Answered, Server!Noticed and Tcp!Noticed, as only one of them is used.
Owed == <<Awaits(1) \/ Server!HungUp(c1) \/ Tcp!Gone(c1),
          Awaits(2) \/ Server!Complete(c1) \/ Tcp!Gone(c2),
          Awaits(3)>>
Paid == CASE used = "client" -> <<Settled(1), Settled(2), Settled(3)>>
          [] used = "server" -> <<~clients[c1].listed, Server!Handled(c1), TRUE>>
          [] OTHER -> <<~sockets[c1].listed \/ broken, ~sockets[c2].listed \/ broken, TRUE>>
Heard == \A i \in 1..3 : Owed[i] ~> Paid[i]
=============================================================================
