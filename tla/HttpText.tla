------------------------------ MODULE HttpText ------------------------------
\* The texts of HTTP: URLs, forms, multipart bodies, the headers of a request, and the
\* response that HttpClient reads piece by piece. A URL, a multipart body and a response
\* are sequences of pieces, a form is a sequence of bytes.
EXTENDS Integers, Sequences, SequencesExt, FiniteSets

CONSTANTS
  Ports,       \* what the pieces that are numbers mean
  MaxPort, HttpPort, HttpsPort,
  LineRoom,    \* StackString<128>: the pieces that fit in the line of a field
  Messages,    \* [chunked, lengths, parts, trailers, early]; lengths has at most one number
  Sizes,       \* what a chunk size line means, for the lines that are numbers
  MaxBuffer    \* max_receive_buffer_size_

\* The first place of a piece from one on, or the place after the end.
Find(t, x, from) ==
  LET at == {k \in from..Len(t) : t[k] = x}
  IN IF at = {} THEN Len(t) + 1 ELSE Min(at)
LastOf(t, x) == Max({k \in DOMAIN t : t[k] = x} \cup {0})
Cut(t, i, j) == IF Min({j, Len(t)}) < i THEN <<>> ELSE SubSeq(t, i, Min({j, Len(t)}))
From(t, i) == Cut(t, i, Len(t))

-----------------------------------------------------------------------------
\* URLs.
IsHttps(scheme) == scheme \in {<<"https">>, <<"wss">>}
DefaultPort(scheme) == IF IsHttps(scheme) THEN HttpsPort ELSE HttpPort
Url(scheme, host, port, path, query, fragment) ==
  [scheme |-> scheme, host |-> host, port |-> port, path |-> path, query |-> query,
   fragment |-> fragment]
NoUrl == Url(<<>>, <<>>, 0, <<>>, <<>>, <<>>)
IsValid(url) == url.host # <<>> /\ url.scheme # <<>>

HttpUrl(text) ==
  LET at == Find(text, "://", 1)
      scheme == Cut(text, 1, at - 1)
      rest == From(text, at + 1)
      question == Find(rest, "?", 1)
      hash == Find(rest, "#", 1)
      hostEnd == Min({Find(rest, "/", 1), question, hash})
      hostPort == Cut(rest, 1, hostEnd - 1)
      colon == LastOf(hostPort, ":")
      ported == colon > 0 /\ colon < Len(hostPort)
      number == From(hostPort, colon + 1)
      port == IF Len(number) = 1 /\ number[1] \in DOMAIN Ports THEN Ports[number[1]]
              ELSE MaxPort + 1
      slashed == hostEnd <= Len(rest) /\ rest[hostEnd] = "/"
      pathEnd == IF slashed THEN Min({question, hash}) ELSE hostEnd
      asked == pathEnd = question /\ question <= Len(rest)
      marked == hash <= Len(rest) /\ (pathEnd = hash \/ asked)
  IN IF at > Len(text) \/ (ported /\ port > MaxPort) THEN NoUrl
     ELSE Url(scheme,
              IF ported THEN Cut(hostPort, 1, colon - 1) ELSE hostPort,
              IF ported THEN port ELSE DefaultPort(scheme),
              IF slashed THEN Cut(rest, hostEnd, pathEnd - 1) ELSE <<"/">>,
              IF asked THEN Cut(rest, question + 1, hash - 1) ELSE <<>>,
              IF marked THEN From(rest, hash + 1) ELSE <<>>)

Digits(port) == CHOOSE d \in DOMAIN Ports : Ports[d] = port
ToText(url) ==
  url.scheme \o <<"://">> \o url.host
    \o (IF url.port = DefaultPort(url.scheme) THEN <<>> ELSE <<":", Digits(url.port)>>)
    \o url.path
    \o (IF url.query = <<>> THEN <<>> ELSE <<"?">> \o url.query)
    \o (IF url.fragment = <<>> THEN <<>> ELSE <<"#">> \o url.fragment)

-----------------------------------------------------------------------------
\* Forms, byte by byte.
Percent == 37
Unreserved(c) == c \in 48..57 \cup 65..90 \cup 97..122 \cup {45, 46, 95, 126}
HexDigit(n) == IF n < 10 THEN 48 + n ELSE 55 + n
HexValue(c) == CASE c \in 48..57 -> c - 48 [] c \in 65..70 -> c - 55
                 [] c \in 97..102 -> c - 87 [] OTHER -> -1

UrlEncode(s) ==
  FlattenSeq([k \in DOMAIN s |->
                IF Unreserved(s[k]) THEN <<s[k]>>
                ELSE <<Percent, HexDigit(s[k] \div 16), HexDigit(s[k] % 16)>>])

\* strtoul takes a sign or a space before one digit.
Two(a, b) == CASE HexValue(a) >= 0 /\ HexValue(b) >= 0 -> 16 * HexValue(a) + HexValue(b)
               [] a \in {32, 43} -> HexValue(b)
               [] OTHER -> -1
RECURSIVE UrlDecode(_)
UrlDecode(s) ==
  LET byte == IF Len(s) > 2 /\ s[1] = Percent THEN Two(s[2], s[3]) ELSE -1
  IN CASE s = <<>>  -> <<>>
       [] byte >= 0 -> <<byte>> \o UrlDecode(From(s, 4))
       [] OTHER     -> <<IF s[1] = 43 THEN 32 ELSE s[1]>> \o UrlDecode(Tail(s))

RECURSIVE Split(_, _)
Split(s, c) == \* getline: without the empty piece after the last separator
  IF s = <<>> THEN <<>>
  ELSE <<Cut(s, 1, Find(s, c, 1) - 1)>> \o Split(From(s, Find(s, c, 1) + 1), c)
FormDataEncode(pairs) ==
  FlattenSeq([k \in DOMAIN pairs |->
                (IF k = 1 THEN <<>> ELSE <<38>>)
                  \o UrlEncode(pairs[k].name) \o <<61>> \o UrlEncode(pairs[k].value)])
ParseFormData(s) == \* of two values with one name the last
  LET Put(form, pair) ==
        LET eq == Find(pair, 61, 1)
            name == UrlDecode(Cut(pair, 1, eq - 1))
        IN IF eq > Len(pair) THEN form
           ELSE {p \in form : p.name # name}
                  \cup {[name |-> name, value |-> UrlDecode(From(pair, eq + 1))]}
  IN FoldLeft(Put, {}, Split(s, 38))

-----------------------------------------------------------------------------
\* Multipart bodies: "D" is the delimiter, "H" begins the line that names a part,
\* "N=" and "F=" are its parameters, and a value is closed by a quote.
Newline == <<"CR", "LF">>
NameLine(part) ==
  LET name == <<"H", "N=">> \o part.name \o <<"Q">>
  IN IF part.file = <<>> THEN name ELSE name \o <<"F=">> \o part.file \o <<"Q">>
Room(part) == IF part.file = <<>> THEN LineRoom ELSE 2 * LineRoom \* StackString
SendPart(part) ==
  <<"D">> \o Newline \o Cut(NameLine(part), 1, Room(part))
    \o (IF part.file = <<>> THEN <<>> ELSE Newline \o <<"T">> \o part.type)
    \o Newline \o Newline \o part.value \o Newline
SendMultipartBody(parts) == \* the fields, and then the files
  FlattenSeq([k \in DOMAIN parts |-> SendPart(parts[k])]) \o <<"D", "-", "-">> \o Newline

\* CalculateMultipartSize does not know of the room.
PartSize(part) ==
  LET named == 1 + 2 + 2 + Len(part.name) + 1 + 4 + Len(part.value) + 2
  IN IF part.file = <<>> THEN named
     ELSE named + 1 + Len(part.file) + 1 + 2 + 1 + Len(part.type)
MultipartSize(parts) ==
  FoldLeft(LAMBDA size, part : size + PartSize(part), 0, parts) + 3 + 2

\* One line ending, of one or of two characters.
SkipEol(t, i) ==
  LET j == IF i <= Len(t) /\ t[i] = "CR" THEN i + 1 ELSE i
  IN IF j <= Len(t) /\ t[j] = "LF" THEN j + 1 ELSE j
PartAt_KeepsEol(t, pos, next) == Cut(t, pos, next - 1)
\* The text up to a delimiter at next, without the line ending before it. Where that
\* is the one after the delimiter before, the length wraps round and takes everything.
PartAt(t, pos, next) ==
  LET end == CASE next > 2 /\ SubSeq(t, next - 2, next - 1) = Newline -> next - 3
               [] next > 1 /\ t[next - 1] = "LF" -> next - 2
               [] OTHER -> next - 1
  IN IF end < pos - 1 THEN From(t, pos) ELSE Cut(t, pos, end)
FindAll(t, s) == Min({k \in 1..(Len(t) - Len(s) + 1) : SubSeq(t, k, k + Len(s) - 1) = s}
                       \cup {Len(t) + 1})

\* A parameter is found wherever its name and an equals sign are: a name also inside
\* the word filename.
ExtractParam(line, keys) ==
  LET at == Min({Find(line, key, 1) : key \in keys})
  IN Cut(line, at + 1, Find(line, "Q", at) - 1)
WithoutCr(line) ==
  IF line # <<>> /\ line[Len(line)] = "CR" THEN Cut(line, 1, Len(line) - 1) ELSE line
HeaderLines(t) ==
  LET lines == Split(t, "LF")
  IN {WithoutCr(lines[k]) : k \in DOMAIN lines} \ {<<>>}
ParsePart(t) ==
  LET crlf == FindAll(t, Newline \o Newline)
      lf == FindAll(t, <<"LF", "LF">>)
      end == Min({crlf, lf})
      lines == HeaderLines(Cut(t, 1, end - 1))
      body == From(t, end + (IF crlf <= lf THEN 4 ELSE 2))
      disposition == {line \in lines : line[1] = "H"}
      line == CHOOSE l \in disposition : TRUE
      name == ExtractParam(line, {"N=", "F="})
      file == ExtractParam(line, {"F="})
      types == {From(l, 2) : l \in {m \in lines : m[1] = "T"}}
  IN IF end > Len(t) \/ disposition = {} \/ name = <<>> THEN <<>>
     ELSE <<[name |-> name, file |-> file, value |-> body,
             type |-> IF file = <<>> THEN <<>>
                      ELSE IF types = {} THEN <<"octets">> ELSE CHOOSE x \in types : TRUE]>>

RECURSIVE Parts(_, _)
Parts(t, pos) ==
  LET next == Find(t, "D", pos)
      part == PartAt(t, pos, next)
      closing == Cut(t, next + 1, next + 2) = <<"-", "-">>
  IN IF pos > Len(t) \/ next > Len(t) THEN <<>>
     ELSE (IF part = <<>> THEN <<>> ELSE ParsePart(part))
            \o (IF closing THEN <<>> ELSE Parts(t, SkipEol(t, next + 1)))
MultipartParse(t) ==
  LET first == Find(t, "D", 1)
  IN IF first > Len(t) THEN <<>> ELSE Parts(t, SkipEol(t, first + 1))

-----------------------------------------------------------------------------
\* Headers: names are spellings of a word, [word, spelled].
SameName(a, b) == a.word = b.word
GetHeaderValue(headers, name) ==
  LET at == {k \in DOMAIN headers : SameName(headers[k].name, name)}
  IN IF at = {} THEN {} ELSE {headers[Min(at)].value}
HasHeader(headers, name) == GetHeaderValue(headers, name) # {}
AddHeader(headers, name, value) ==
  LET at == {k \in DOMAIN headers : SameName(headers[k].name, name)}
  IN IF at = {} THEN Append(headers, [name |-> name, value |-> value])
     ELSE [headers EXCEPT ![Min(at)].value = value]

\* MergeHeaders compares names letter by letter.
MergeHeaders(defaults, headers) ==
  LET Merge(merged, header) ==
        LET at == {k \in DOMAIN merged : merged[k].name = header.name}
        IN IF at = {} THEN Append(merged, header)
           ELSE [merged EXCEPT ![Min(at)].value = header.value]
  IN FoldLeft(Merge, defaults, headers)

\* Cookies of a host and of any host, [domain, name, value] for the latter "".
SetCookie(cookies, domain, name, value) ==
  {c \in cookies : c.domain # domain \/ c.name # name}
    \cup {[domain |-> domain, name |-> name, value |-> value]}
GetCookies(cookies, domain) == {c \in cookies : c.domain \in {"", domain}}

\* What BuildHttpRequest writes after the request line and the host.
Named(word) == [word |-> word, spelled |-> word]
Header(word, value) == <<[name |-> Named(word), value |-> value]>>
BuildHttpRequest(defaults, request, cookies, keepAlive) ==
  LET merged == MergeHeaders(defaults, request.headers)
      sent == GetCookies(cookies, request.host)
      multipart == request.parts # <<>>
      length == IF multipart THEN MultipartSize(request.parts) ELSE Len(request.body)
  IN merged
       \o (IF sent = {} THEN <<>> ELSE Header("Cookie", 0))
       \o Header("Connection", IF keepAlive THEN 1 ELSE 0)
       \o (IF multipart THEN Header("Content-Type", 0) ELSE <<>>)
       \o (IF multipart \/ (request.body # <<>>
                            /\ ~HasHeader(merged, Named("Content-Length")))
           THEN Header("Content-Length", length) ELSE <<>>)
-----------------------------------------------------------------------------
\* HttpUrl: a text it takes is one of the ways to write what it found, and what
\* ToString writes is found again.
Optional(mark, s) == IF s = <<>> THEN {<<>>, <<mark>>} ELSE {<<mark>> \o s}
Spellings(url) ==
  {url.scheme \o <<"://">> \o url.host \o port \o path \o query \o fragment :
     port \in {<<":", d>> : d \in {n \in DOMAIN Ports : Ports[n] = url.port}}
                \cup (IF url.port = DefaultPort(url.scheme) THEN {<<>>} ELSE {}),
     path \in {url.path} \cup (IF url.path = <<"/">> THEN {<<>>} ELSE {}),
     query \in Optional("?", url.query), fragment \in Optional("#", url.fragment)}
UrlSplits(text) ==
  LET url == HttpUrl(text)
  IN IsValid(url) =>
       /\ text \in Spellings(url)
       /\ ToSet(url.host \o url.path) \cap {"?", "#"} = {} /\ "/" \notin ToSet(url.host)
       /\ ":" \notin ToSet(url.host) => HttpUrl(ToText(url)) = url

\* FormDataEncode and ParseFormData: a form comes back, whatever its bytes.
FormReadsBack(pairs) == ParseFormData(FormDataEncode(pairs)) = ToSet(pairs)

\* SendMultipartBody and MultipartParser: the parts come back, whatever their content
\* but the delimiter itself, and the length that was announced is what is sent; names
\* that do not fit in their line are cut, and the length is then wrong.
Fits(parts) == \A k \in DOMAIN parts : Len(NameLine(parts[k])) <= Room(parts[k])
MultipartReadsBack(parts) ==
  LET body == SendMultipartBody(parts)
  IN IF Fits(parts) THEN MultipartParse(body) = parts /\ Len(body) = MultipartSize(parts)
     ELSE Len(body) < MultipartSize(parts)

\* BuildHttpRequest: no header is sent twice if none was given in two spellings and
\* none of the client's own was given; a body has its length with it; a cookie goes to
\* no other host.
Own(request) ==
  {"Cookie", "Connection"}
    \cup IF request.parts = <<>> THEN {} ELSE {"Content-Type", "Content-Length"}
RequestHeaders(defaults, request, cookies) ==
  LET headers == BuildHttpRequest(defaults, request, cookies, TRUE)
      Count(word) == Cardinality({k \in DOMAIN headers : headers[k].name.word = word})
      given == ToSet(defaults) \cup ToSet(request.headers)
      once == \A h, g \in given : /\ h.name.word = g.name.word => h.name = g.name
                                  /\ h.name.word \notin Own(request)
  IN /\ once => /\ \A k \in DOMAIN headers : Count(headers[k].name.word) = 1
                /\ request.body # <<>> \/ request.parts # <<>> => Count("Content-Length") = 1
     /\ \A c \in GetCookies(cookies, request.host) : c.domain # "" => c.domain = request.host

-----------------------------------------------------------------------------
\* How HttpClient reads a response that comes in pieces. A message is what a server
\* writes: its framing and its content in parts; text is a sequence of pieces.
NoSize == -1   \* as an announced length: none that can be read

VARIABLES
  message,
  arrived,     \* how much of it was received
  reading,     \* of current_: receive_buffer, headers_received, chunk_size, the body
  outcome,     \* of the request
  closed       \* the connection has ended
vars == <<message, arrived, reading, outcome, closed>>

Content(m) == FlattenSeq(m.parts)
SizeLine(n) == IF \E line \in DOMAIN Sizes : Sizes[line] = n
               THEN <<CHOOSE line \in DOMAIN Sizes : Sizes[line] = n>> ELSE <<"?">>
Chunk(part) == SizeLine(Len(part)) \o Newline \o part \o Newline
Wire(m) ==
  <<"S">> \o Newline \o Newline
    \o IF m.chunked
       THEN FlattenSeq([k \in DOMAIN m.parts |-> Chunk(m.parts[k])])
              \o SizeLine(0) \o Newline \o m.trailers \o Newline
       ELSE Content(m)

-----------------------------------------------------------------------------
\* The end of the headers, wherever it comes, and what they say of the body.
Ends(r, what) == [r EXCEPT !.outcome = what]
TakeHeaders_KeepsEol(r) ==
  LET end == FindAll(r.buffer, Newline \o Newline)
  IN IF r.headers \/ end > Len(r.buffer) THEN r
     ELSE [r EXCEPT !.headers = TRUE, !.buffer = From(@, end + 2)]
TakeHeaders(r) ==
  LET end == FindAll(r.buffer, Newline \o Newline)
  IN IF r.headers \/ end > Len(r.buffer) THEN r
     ELSE [r EXCEPT !.headers = TRUE, !.buffer = From(@, end + 4),
                    !.outcome = IF \E n \in message.lengths : n = NoSize \/ n > MaxBuffer
                                THEN "error" ELSE "none"]

\* A size is read once its line is whole, a chunk taken once its line ending is there.
RECURSIVE ProcessChunkedBody(_)
ProcessChunkedBody(r) ==
  LET line == FindAll(r.buffer, Newline)
      text == Cut(r.buffer, 1, line - 1)
      sized == r.size >= 0
      known == sized \/ (Len(text) = 1 /\ text[1] \in DOMAIN Sizes)
      size == IF sized THEN r.size ELSE Sizes[text[1]]
      rest == IF sized THEN r.buffer ELSE From(r.buffer, line + 2)
      ended == Cut(rest, 1, 2) = Newline \/ FindAll(rest, Newline \o Newline) <= Len(rest)
  IN CASE line > Len(r.buffer)    -> r
       [] ~known                  -> Ends(r, "error")
       [] size = 0 /\ ended       -> Ends([r EXCEPT !.size = 0], "complete")
       [] size = 0 \/ Len(rest) < size + 2 -> [r EXCEPT !.size = size, !.buffer = rest]
       [] OTHER -> ProcessChunkedBody([r EXCEPT !.size = NoSize, !.buffer = From(rest, size + 3),
                                                !.body = @ \o Cut(rest, 1, size)])

\* Everything that comes is the body.
ProcessFixedLengthBody(r) ==
  LET all == r.body \o r.buffer
      whole == \E n \in message.lengths : Len(all) >= n
  IN [r EXCEPT !.body = all, !.buffer = <<>>, !.outcome = IF whole THEN "complete" ELSE "none"]

ProcessReceivedData(r, data) ==
  LET headed == TakeHeaders([r EXCEPT !.buffer = @ \o data])
  IN CASE ~headed.headers \/ headed.outcome # "none" -> headed
       [] message.chunked -> ProcessChunkedBody(headed)
       [] OTHER -> ProcessFixedLengthBody(headed)

-----------------------------------------------------------------------------
Init ==
  /\ message \in Messages /\ arrived = 0 /\ closed = FALSE /\ outcome = "none"
  /\ reading = [buffer |-> <<>>, headers |-> FALSE, size |-> NoSize, body |-> <<>>,
                outcome |-> "none"]

OnDataReceived(n) ==
  LET data == Cut(Wire(message), arrived + 1, arrived + n)
  IN /\ ~closed /\ n \in 1..(Len(Wire(message)) - arrived)
     /\ arrived' = arrived + n
     /\ IF outcome # "none" THEN UNCHANGED <<reading, outcome>>
        ELSE /\ reading' = ProcessReceivedData(reading, data)
             /\ outcome' = reading'.outcome
     /\ UNCHANGED <<message, closed>>

\* What was received by then is the response, unless nothing was: that is for the timer.
OnDisconnected ==
  /\ ~closed /\ (message.early \/ arrived = Len(Wire(message)))
  /\ closed' = TRUE
  /\ outcome' = IF outcome = "none" /\ arrived > 0 THEN "complete" ELSE outcome
  /\ UNCHANGED <<message, arrived, reading>>

Next == OnDisconnected \/ \E n \in 1..Len(Wire(message)) : OnDataReceived(n)
Spec == Init /\ [][Next]_vars

-----------------------------------------------------------------------------
\* Sizes that can be read, no larger than the client takes; and that are true.
Readable(m) ==
  /\ \A n \in m.lengths : n \in 0..MaxBuffer
  /\ m.chunked => \A k \in DOMAIN m.parts : SizeLine(Len(m.parts[k])) # <<"?">>
Formed(m) ==
  /\ Readable(m)
  /\ IF m.chunked THEN <<>> \notin ToSet(m.parts) ELSE m.lengths \subseteq {Len(Content(m))}

\* ProcessReceivedData: wherever the bytes are cut, what is taken is the beginning of
\* the content; the response is complete with its last byte and not before, however
\* much in the body looks like an end; and what cannot be read is no response. Only a
\* server that closes the connection in the middle has its part taken for the whole.
Reads ==
  /\ IsPrefix(reading.body, Content(message)) \/ ~Formed(message)
  /\ Formed(message) =>
       /\ outcome # "error"
       /\ outcome = "complete" /\ ~(closed /\ message.early) =>
            arrived = Len(Wire(message)) /\ reading.body = Content(message)
       /\ arrived = Len(Wire(message)) /\ (closed \/ message.chunked \/ message.lengths # {}) =>
            outcome = "complete"
  /\ ~Readable(message) /\ ~closed => outcome # "complete"
=============================================================================
