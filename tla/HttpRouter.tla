----------------------------- MODULE HttpRouter -----------------------------
(***************************************************************************)
(* HttpRouter: which of its handlers a request goes to. Paths are          *)
(* sequences of characters. A pattern is a sequence of characters and      *)
(* parameters: {x}, or :x from the start of a segment to its end; "." and  *)
(* "*" stand for any character, since patterns become regular expressions  *)
(* with "*" replaced and nothing escaped. The query comes after "?".       *)
(***************************************************************************)
EXTENDS Naturals, Sequences, SequencesExt, FiniteSetsExt

-----------------------------------------------------------------------------
(* Router: one route *)

\* The parts CompilePattern tells apart: a character of its own, any character, and
\* the two forms of a parameter, both a group "([^/]+)".
Char(c) == [kind |-> "char", is |-> c]
AnyChar == [kind |-> "any", is |-> "."]
Brace(name) == [kind |-> "brace", is |-> name]
Colon(name) == [kind |-> "colon", is |-> name]
Group(part) == part.kind \in {"brace", "colon"}

\* ExtractParamNames, in the order of the pattern.
ParamNames(pattern) ==
  LET groups == SelectSeq(pattern, Group) IN [i \in DOMAIN groups |-> groups[i].is]

OneChar(part, char) == part = AnyChar \/ part = Char(char)

\* How many characters at path[j] a group may take: as many as there are in the segment.
Run(path, j) ==
  LET ends == {k \in j..Len(path) : path[k] = "/"}
  IN (IF ends = {} THEN Len(path) + 1 ELSE Min(ends)) - j

\* regex_match backtracks: Fits[i, j] is whether the pattern from i on matches all of
\* the path from j on.
Fits(pattern, path) ==
  LET fits[i \in 1..(Len(pattern) + 1), j \in 1..(Len(path) + 1)] ==
        IF i > Len(pattern) THEN j > Len(path)
        ELSE IF Group(pattern[i])
        THEN \E k \in 1..Run(path, j) : fits[i + 1, j + k]
        ELSE j <= Len(path) /\ OneChar(pattern[i], path[j]) /\ fits[i + 1, j + 1]
  IN fits

\* What the groups captured: a group takes as much as it can.
Captures(pattern, path) ==
  LET fits == Fits(pattern, path)
      taken[i \in 1..(Len(pattern) + 1), j \in 1..(Len(path) + 1)] ==
        IF i > Len(pattern) THEN <<>>
        ELSE IF Group(pattern[i])
        THEN LET k == Max({n \in 1..Run(path, j) : fits[i + 1, j + n]})
             IN <<SubSeq(path, j, j + k - 1)>> \o taken[i + 1, j + k]
        ELSE taken[i + 1, j + 1]
  IN taken[1, 1]

PathMatches(pattern, path) == Fits(pattern, path)[1, 1]

\* RouteParams is a map: the last of two parameters with one name stays.
Params(pattern, path) ==
  LET names == ParamNames(pattern) captured == Captures(pattern, path)
  IN [n \in ToSet(names) |-> captured[Max({i \in DOMAIN names : names[i] = n})]]

Matches(route, method, path) ==
  /\ route.method \in {"ANY", method}
  /\ PathMatches(route.pattern, path)

-----------------------------------------------------------------------------
(* StaticFileServer *)

CanHandle(server, path) == IsPrefix(server.prefix, path)

\* GetFilePath, under root_directory_, of the whole URI.
FilePath(server, uri) ==
  LET relative == SubSeq(uri, Len(server.prefix) + 1, Len(uri))
  IN IF relative = <<>> \/ relative[1] # "/" THEN <<"/">> \o relative ELSE relative

\* IsValidPath is false of a path that does not exist, and it throws when the root
\* does not. A directory without an index is refused like a path that does not exist:
\* nothing turns directory_listing_ on in a server that HttpRouter makes.
ServeFile(server, uri) ==
  LET file == FilePath(server, uri)
  IN IF ~server.exists THEN [status |-> 0, file |-> <<>>]
     ELSE IF file \in server.files THEN [status |-> 200, file |-> file]
     ELSE IF file \in server.indexed THEN [status |-> 200, file |-> file \o <<"/">>]
     ELSE [status |-> 403, file |-> <<>>]

-----------------------------------------------------------------------------
(* HttpRouter *)

\* RunMiddlewares, which match a prefix of the whole URI: the first that does not pass.
RunMiddlewares(router, uri) ==
  LET stops == {i \in DOMAIN router.middlewares :
                  /\ IsPrefix(router.middlewares[i].prefix, uri)
                  /\ router.middlewares[i].verdict # "pass"}
  IN IF stops = {} THEN "pass" ELSE router.middlewares[Min(stops)].verdict

None == [n \in {} |-> <<>>]

\* Who answers, by which route if by one; the status, zero for an exception that nothing
\* catches; the parameters the route's handler gets.
Answer(by, status) == [by |-> by, route |-> 0, status |-> status, params |-> None]
FromRoute(i, params) == [by |-> "route", route |-> i, status |-> 200, params |-> params]

\* What a handler's exception comes to.
Failed(router) == Answer("error", IF router.onError = "throws" THEN 0 ELSE 500)

RouteFor_Last(router, method, path) ==
  LET found == {i \in DOMAIN router.routes : Matches(router.routes[i], method, path)}
  IN IF found = {} THEN 0 ELSE Max(found)
RouteFor(router, method, path) ==
  LET found == {i \in DOMAIN router.routes : Matches(router.routes[i], method, path)}
  IN IF found = {} THEN 0 ELSE Min(found)

Dispatch(router, method, path) ==
  LET i == RouteFor(router, method, path)
  IN IF i = 0 THEN IF router.notFound = "throws" THEN Failed(router)
                                                       ELSE Answer("notFound", 404)
     ELSE IF router.routes[i].throws THEN Failed(router)
     ELSE FromRoute(i, Params(router.routes[i].pattern, path))

HandleRequest(router, method, path, query) ==
  LET uri == path \o query
      verdict == RunMiddlewares(router, uri)
      able == {i \in DOMAIN router.statics : CanHandle(router.statics[i], path)}
  IN CASE router.cors /\ method = "OPTIONS" -> Answer("preflight", 204)
       [] verdict = "halt"  -> Answer("middleware", 200)
       [] verdict = "throw" -> Failed(router)
       [] verdict = "pass" /\ able # {} ->
            LET served == ServeFile(router.statics[Min(able)], uri)
            IN IF served.status = 0 THEN Failed(router) ELSE Answer("static", served.status)
       [] OTHER -> Dispatch(router, method, path)

-----------------------------------------------------------------------------
(* Properties *)

\* How many characters each parameter stands for, when the pattern makes up the path,
\* and where a part of the pattern then begins in the path.
Begins(takes, i) ==
  i + MapThenSumSet(LAMBDA k : takes[k] - 1, {k \in DOMAIN takes : k < i})
Readings(pattern, path) ==
  LET groups == {i \in DOMAIN pattern : Group(pattern[i])}
  IN {takes \in [groups -> DOMAIN path] :
        /\ Begins(takes, Len(pattern) + 1) = Len(path) + 1
        /\ \A i \in DOMAIN pattern :
             LET j == Begins(takes, i)
             IN IF i \in groups THEN \A k \in j..(j + takes[i] - 1) : path[k] # "/"
                                ELSE OneChar(pattern[i], path[j])}

\* A route takes the paths its pattern describes, and the value of each of its
\* parameters is the part of the path that stands for it, the first of them longest.
RouteMeans(pattern, path) ==
  LET readings == Readings(pattern, path)
      Before(k, other, takes) == \A i \in DOMAIN takes : i < k => other[i] = takes[i]
  IN /\ PathMatches(pattern, path) = (readings # {})
     /\ readings # {} =>
          \E takes \in readings :
            /\ \A other \in readings \ {takes} :
                 \E k \in DOMAIN takes : takes[k] > other[k] /\ Before(k, other, takes)
            /\ \A i \in DOMAIN takes :
                 (\A k \in DOMAIN takes : k > i => pattern[k].is # pattern[i].is)
                   => Params(pattern, path)[pattern[i].is]
                        = SubSeq(path, Begins(takes, i), Begins(takes, i + 1) - 1)

\* A request goes to the route registered first of those that its method and path
\* match, and to none when a middleware halts it or a static server has its path; and
\* it has an answer unless the error handler throws.
OneHandler(router, method, path, query) ==
  LET answer == HandleRequest(router, method, path, query)
  IN /\ answer.status = 0 => router.onError = "throws"
     /\ answer.by = "route" =>
          /\ \A i \in DOMAIN router.routes :
               (i < answer.route /\ router.routes[i].method \in {"ANY", method})
                 => Readings(router.routes[i].pattern, path) = {}
          /\ \A m \in ToSet(router.middlewares) :
               IsPrefix(m.prefix, path) => m.verdict = "pass"
          /\ \A s \in ToSet(router.statics) : ~IsPrefix(s.prefix, path)
          /\ DOMAIN answer.params =
               {g.is : g \in {h \in ToSet(router.routes[answer.route].pattern) : Group(h)}}
     /\ answer.by = "notFound" =>
          \A i \in DOMAIN router.routes :
            router.routes[i].method \in {"ANY", method}
              => Readings(router.routes[i].pattern, path) = {}
=============================================================================
