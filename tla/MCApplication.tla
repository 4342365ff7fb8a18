--------------------------- MODULE MCApplication ---------------------------
\* The start and the end of an application, its log with two threads and a worker, its
\* settings, its metrics, and the documents and files these are kept in. A behaviour
\* exercises one of them and the others rest; for a text that is read it is one call.
EXTENDS Logger
CONSTANTS t1, t2, A, B, C, other, Given, Options, Lines

Two == {t1, t2}

\* Three services with every choice of dependencies, and one that is not registered.
Service(name, deps) == [name |-> name, deps |-> deps]
Graphs ==
  {<<Service(A, d1), Service(B, d2), Service(C, d3)>> : d1, d2, d3 \in SUBSET {A, B, C}}
Chain == <<Service(A, {B}), Service(B, {C}), Service(C, {})>>
Plan(services, daemon, by) == [services |-> services, daemon |-> daemon, by |-> by]
AllPlans ==
  {Plan(g, FALSE, "signal") : g \in Graphs}
  \cup {Plan(Chain, TRUE, by) : by \in {"user", "runner", "signal"}}
  \cup {Plan(<<Service(A, {B, other}), Service(B, {})>>, TRUE, "user")}
Daemon == {Plan(Chain, TRUE, "user")}

VARIABLES
  used, plan, service, stage, running, asked, group, caller, job, beat, task, fate, log,
  options, data, loaded, unparsed, result, calls, stored, writes, watching, event, loading,
  told, changed, doc, edits, text, families, cells, seen, operations, render, copy, ring, thread,
  reader, pushed

appVars == <<plan, service, stage, running, asked, group, caller, job, beat, task, fate, log>>
configVars == <<options, data, loaded, unparsed, result, calls, stored, writes, watching,
                event, loading, told, changed>>
docVars == <<doc, edits, text>>
metricVars == <<families, cells, seen, operations, render>>
traceVars == <<ring, thread, reader, pushed>>
allVars == <<used, vars, appVars, configVars, docVars, metricVars, copy, traceVars>>

\* What is not used has one initial state.
Of(family, S) == IF used = family THEN S ELSE {CHOOSE x \in S : TRUE}

Life == INSTANCE App WITH Plans <- Given, shutdown <- asked

-----------------------------------------------------------------------------
\* A number with a path, two flags and a required name, or no options; of each kind of
\* argument one, that means what its author has in mind; a file of four contents.
J == INSTANCE Json WITH MaxDepth <- 3, MaxInteger <- 110, MaxExponent <- 3, Places <- 3
Char == [a |-> 97, b |-> 98, f |-> 102, n |-> 110, p |-> 112, q |-> 113, v |-> 118, x |-> 120,
         z |-> 122]
Port == <<<<Char.a>>, <<Char.b>>>>
Verbose == <<<<Char.v>>>>
Quiet == <<<<Char.q>>>>
Name == <<<<Char.n>>>>
Option(name, short, default, required) ==
  [name |-> name, short |-> short, default |-> default, required |-> required]
Started ==
  {Option(Port, Char.p, J!Integer(8), FALSE), Option(Verbose, Char.v, J!Bool(FALSE), FALSE),
   Option(Quiet, Char.q, J!Bool(FALSE), FALSE), Option(Name, 0, J!String(<<Char.x>>), TRUE)}
LateOptions ==
  {Option(Port, Char.v, J!Integer(8), FALSE), Option(Name, Char.n, J!String(<<Char.x>>), TRUE)}

Long(path, eq, value) == [dashes |-> 2, path |-> path, chars |-> <<>>, eq |-> eq, value |-> value]
Short(chars) == [dashes |-> 1, path |-> <<>>, chars |-> chars, eq |-> FALSE, value |-> <<>>]
Word(w) == [dashes |-> 0, path |-> <<>>, chars |-> <<>>, eq |-> FALSE, value |-> w]
Is(name, v, via) == [name |-> name, value |-> v, via |-> via]
Meant(args, sets, kind) == [args |-> args, sets |-> sets, kind |-> kind]
FileFlag == <<<<99>>>>
Attached == Meant(<<Short(<<Char.p, 57>>)>>, {Is(Port, J!Integer(9), Char.p)}, "set")
Meanings ==
  {Meant(<<Long(Port, FALSE, <<>>), Word(<<55>>)>>, {Is(Port, J!Integer(7), 0)}, "set"),
   Meant(<<Short(<<Char.p>>), Short(<<53>>)>>, {Is(Port, J!Integer(-5), Char.p)}, "set"),
   Attached,
   Meant(<<Long(Name, TRUE, <<49>>)>>, {Is(Name, J!String(<<49>>), 0)}, "set"),
   Meant(<<Short(<<Char.v, Char.q>>)>>,
         {Is(Verbose, J!Bool(TRUE), Char.v), Is(Quiet, J!Bool(TRUE), Char.q)}, "set"),
   Meant(<<Long(Verbose, FALSE, <<>>)>>, {Is(Verbose, J!Bool(TRUE), 0)}, "long"),
   Meant(<<Long(Quiet, TRUE, <<48>>)>>, {Is(Quiet, J!Bool(FALSE), 0)}, "set"),
   Meant(<<Word(<<Char.x>>)>>, {}, "word"),
   Meant(<<Long(<<<<Char.a>>>>, FALSE, <<>>), Word(<<Char.x>>)>>, {}, "unknown"),
   Meant(<<Short(<<Char.z>>)>>, {}, "unknown"),
   Meant(<<Long(FileFlag, FALSE, <<>>), Word(<<Char.f>>)>>, {}, "file")}
TwoMeanings == UNION {[1..n -> Meanings] : n \in 0..2}
Called == {<<Meant(<<Long(FileFlag, TRUE, <<Char.f>>)>>, {}, "file"), Attached>>}

Holds(v) == [whole |-> TRUE, value |-> v]
Nested == J!Put(J!Empty, <<Char.a>>, J!Put(J!Empty, <<Char.b>>, J!Integer(3)))
Hiding == J!Put(J!Put(J!Empty, <<Char.n>>, J!String(<<121>>)),
                <<Char.a>>, J!Put(J!Empty, <<Char.a>>, J!Null))
Stores == {[whole |-> FALSE, value |-> J!Null], Holds(Nested), Holds(Hiding), Holds(J!Array(<<>>))}
Environ == <<[name |-> Port, word |-> <<52>>],
             [name |-> <<<<Char.b>>, <<>>>>, word |-> J!Literals.true]>>

Conf == INSTANCE Config WITH
  Options <- Options, Defined <- {{}, Started}, Lines <- Lines, Given <- Called,
  Contents <- Stores, Environs <- {Environ}, MaxCalls <- 2, MaxWrites <- 2,
  MaxDepth <- 3, MaxInteger <- 110, MaxExponent <- 3, Places <- 3, file <- stored

-----------------------------------------------------------------------------
\* A document of three edits, with two names and scalars of every type; texts of the
\* characters of numbers and of the pieces of containers; code points of each length.
Document == INSTANCE Json WITH MaxDepth <- 2, MaxInteger <- 110, MaxExponent <- 3, Places <- 3
Members == {<<97>>, <<34, 1>>}
Scalars == {J!Null, J!Bool(TRUE), J!Integer(-7), J!Float(1050), J!Float(1000), J!Float(-5),
            J!String(<<97, 92, 10, 1, 195>>)}
Edit == edits < 3 /\ edits' = edits + 1 /\ doc' \in Document!Edited(doc, Members, Scalars)
Upto(n, S) == UNION {[1..k -> S] : k \in 0..n}
Numbers == Upto(5, {45, 48, 49, 46, 101})
Pieces == {"[", "]", "{", "}", ",", ":", "k", "m"}
Pieced == Upto(4, Pieces) \cup {<<open>> \o s : open \in {"[", "{"}, s \in [1..4 -> Pieces]}
Valid == Document!Grammar(5)
CodePoints == {0, 31, 65, 127, 128, 2047, 2048, 55295, 55296, 56319, 56320, 57343, 57344, 65535,
               65536, 1114111}

-----------------------------------------------------------------------------
\* Two metrics, of any kind, with two label values or none, and a histogram of two
\* bounds that one digit cannot tell apart; label values of the characters that are escaped.
Measures == INSTANCE Metrics WITH
  Names <- {1}, Kinds <- <<"counter", "gauge", "histogram">>, Keys <- {<<>>, <<1>>, <<2>>},
  Bounds <- {<<>>, <<11, 12>>}, Default <- <<0>>, Amounts <- {1, 12}, Precision <- 1,
  MaxOperations <- 4
LabelValues == Upto(2, {"a", "n", "\"", "\\", "newline", ","})

\* One thread or two that record in a ring of two slots.
Recording == INSTANCE Tracer WITH
  Recorders <- {{t1}, Two}, MAX_EVENTS <- 2, MaxRecords <- 4, MaxOpen <- 2

\* A directory with two entries of any kind, or one with something in it, beside another;
\* paths of the characters that matter; sources that are shorter than they say, or longer.
Disk == INSTANCE Files WITH
  Buffer <- 2,
  Sources <- {[size |-> n, content |-> SubSeq(<<1, 2, 3>>, 1, k)] : n, k \in 0..3}
Nodes == {Disk!Directory, Disk!File(<<>>)} \cup {Disk!Link(p) : p \in {<<"b">>, <<"z">>, <<"b", "f">>}}
Beside == (<<>> :> Disk!Directory) @@ (<<"a">> :> Disk!Directory) @@ (<<"b">> :> Disk!Directory)
          @@ (<<"b", "f">> :> Disk!File(<<>>))
Trees == {Beside @@ (<<"a", "x">> :> n) @@ (<<"a", "y">> :> m) : n, m \in Nodes}
         \cup {Beside @@ (<<"a", "x">> :> Disk!Directory) @@ (<<"a", "x", "y">> :> m) : m \in Nodes}
InTree == Upto(3, {"a", "x", "y"}) \ {<<>>}
Paths == Upto(5, {"a", ".", "/"})
SomeLines == Upto(3, {<<>>, <<"a">>, <<"b", "b">>})

\* Texts with delimiters, lines, numerals and addresses of a few characters; bytes at the
\* borders of what UTF-8 allows.
Words == INSTANCE Strings WITH IntBits <- 4, LongBits <- 6, SizeLimit <- 16
Delimiters == {<<"a">>, <<"a", "a">>, <<"a", "b">>, <<"a", "b", "a">>}
Replacements == {<<>>, <<"a">>, <<"a", "a">>, <<"b", "a">>}
Marks == {65, 127, 128, 143, 144, 159, 160, 191, 193, 194, 224, 225, 237, 240, 241, 244, 245, 255}
Octets ==
  Upto(2, Marks) \cup {<<a, b, c>> : a, b \in Marks, c \in {65, 128, 194}}
  \cup {<<a, b, c, d>> : a \in {224, 240, 241, 244, 245}, b \in Marks, c, d \in {65, 128}}

\* Fields for a buffer that may be short; bytes of every pattern of bits; a struct with a
\* struct and a vector, and documents that are like it.
Codes == INSTANCE Strings WITH SizeLimit <- 16, IntBits <- 2, LongBits <- 4
Field(how, bytes) == [how |-> how, bytes |-> bytes]
Fields == {Field("value", <<1, 2>>), Field("value", <<0, 3, 0, 2>>), Field("bytes", <<0, 4>>),
           Field("terminated", <<5>>), Field("terminated", <<>>)}
Type(kind, of, default) == [kind |-> kind, of |-> of, default |-> default]
Plain(kind) == Type(kind, <<>>, <<>>)
Inner == Type("struct", [p |-> Plain("uint64"), q |-> Type("vector", Plain("int"), <<>>)],
              [p |-> 7, q |-> <<>>])
Outer == Type("struct",
              [a |-> Plain("int"), b |-> Plain("bool"), c |-> Inner, d |-> Plain("float")],
              [a |-> -1, b |-> TRUE, c |-> [p |-> 0, q |-> <<-2>>], d |-> 3])
Structs ==
  [a : -2..1, b : BOOLEAN, c : [p : {0, 7, 8, 15}, q : Upto(2, {-2, 1})], d : {5}]
Whole == {Codes!Json("integer", n) : n \in {-8, -1, 2, 7}}
Arrays == {Codes!Json("array", items) : items \in Upto(2, {Codes!Json("integer", 5),
             Codes!Json("integer", 1), Codes!Json("null", 0)})}
InnerLike == {Codes!Json("object", {<<"p", x>>}) : x \in Whole}
             \cup {Codes!Json("object", {<<"p", x>>, <<"q", y>>}) : x \in Whole, y \in Arrays}
OuterLike ==
  {Codes!Json("object", {<<"a", x>>, <<"c", y>>} \cup rest) :
     x \in Whole \cup {Codes!Json("string", 0)}, y \in InnerLike \cup {Codes!Json("null", {})},
     rest \in {{}, {<<"b", Codes!Json("bool", FALSE)>>}, {<<"d", Codes!Json("integer", 1)>>}}}

-----------------------------------------------------------------------------
\* Documents of trees with every kind of node and of mistake, up to a SubTree in a SubTree;
\* files of up to two trees that may refer to each other and to themselves.
Behaviours == INSTANCE BtFactory WITH
  Custom <- [Act |-> [small |-> "int8", whole |-> "uint8"]],
  Bits <- [int |-> 6, int8 |-> 3, uint8 |-> 3], Stack <- 3
Leaf(name, ports) == Behaviours!Doc(name, <<>>, ports, <<>>)
Refers(n) == Leaf("SubTree", {Behaviours!Value("tree_name", "string", n)})
Inline(tree) == Behaviours!Doc("SubTree", <<>>, {}, <<tree>>)
Around(name, s) == Behaviours!Doc(name, <<s>>, {}, <<>>)
Plainly(j) == Behaviours!Tree(0, <<j>>)
Acting == Leaf("Act", {Behaviours!Value("small", "integer", 5), Behaviours!Value("whole", "integer", -1),
                       Behaviours!Value("none", "bool", 1)})
Leaves == {Acting, Leaf("Act", {Behaviours!Value("small", "real", 1)}), Leaf("Unheard", {}), Leaf("", {}),
           [Acting EXCEPT !.object = FALSE], [Acting EXCEPT !.name = "", !.id = "Wait"],
           Leaf("Wait", {Behaviours!Value("wait_ms", "integer", 3)}), Leaf("Sequence", {}),
           Refers(0), Refers(1), Refers(2), Refers(3), Inline(Behaviours!Tree(1, <<>>))}
Branches == {Around(name, s) : name \in {"Sequence", "Inverter"}, s \in Upto(2, Leaves)}
            \cup {Inline(Plainly(j)) : j \in Leaves}
Grown == Leaves \cup Branches \cup {Inline(Plainly(j)) : j \in Branches}
         \cup {Inline(Plainly(Inline(Plainly(j)))) : j \in Leaves}
TreeFile(stem, tree) == [stem |-> stem, tree |-> tree]
FirstTrees == {<<>>, <<Behaviours!Tree(0, <<>>)>>}
  \cup {<<Behaviours!Tree(n, <<j>>)>> : n \in {0, 2, 3}, j \in {Acting, Refers(1), Refers(2), Inline(Plainly(Refers(2)))}}
SecondTrees == {<<Plainly(j)>> : j \in {Acting, Refers(1), Around("Sequence", <<Refers(3), Refers(2)>>)}}
TreeFiles == {<<TreeFile(1, t), TreeFile(2, u)>> : t \in FirstTrees, u \in SecondTrees}

-----------------------------------------------------------------------------
\* What is used is chosen first.
Chosen ==
  /\ used \in {"log", "app", "config", "document", "number", "pieces", "metrics", "tree", "path",
               "lines", "copy", "split", "words", "numeral", "address", "utf8", "bytes", "base64",
               "struct", "parsed", "trees", "trace"}
  /\ plan \in Of("app", Given) /\ stored \in Of("config", Stores) /\ copy \in Of("copy", Disk!Starts)
  /\ (used = "config" \/ options = <<>>)
  /\ text \in CASE used = "number" -> Numbers
               [] used = "pieces" -> Pieced
               [] used = "tree" -> Trees
               [] used = "path" -> Paths
               [] used = "lines" -> SomeLines
               [] used = "split" -> Upto(5, {"a", "b"})
               [] used = "words" -> Upto(4, {" ", "\n", "x"})
               [] used = "numeral" -> Upto(4, {" ", "+", "-", "1", "9"})
               [] used = "address" -> Upto(2, {"h", "1"}) \X Upto(2, {"1", "-", "h"})
               [] used = "utf8" -> Octets
               [] used = "bytes" -> Upto(3, Fields)
               [] used = "base64" -> Upto(4, {0, 1, 3, 4, 63, 64, 170, 255})
               [] used = "struct" -> Structs
               [] used = "parsed" -> OuterLike
               [] used = "trees" -> TreeFiles \X {Plainly(j) : j \in Grown}
               [] OTHER -> {<<>>}
  /\ Init /\ Life!Init /\ Conf!Init /\ doc = J!Null /\ edits = 0 /\ Measures!Init /\ Disk!Init
  /\ Recording!Init /\ (used = "trace" \/ DOMAIN thread = {t1}) /\ (used = "log" \/ opened)

OfLog(X)  == used = "log" /\ X /\ UNCHANGED <<used, appVars, configVars, docVars, metricVars, copy, traceVars>>
OfApp(X)  == used = "app" /\ X /\ UNCHANGED <<used, vars, configVars, docVars, metricVars, copy, traceVars>>
OfConf(X) == used = "config" /\ X /\ UNCHANGED <<used, vars, appVars, docVars, metricVars, copy, traceVars>>
OfDoc(X)  ==
  /\ used = "document" /\ X
  /\ UNCHANGED <<used, vars, appVars, configVars, text, metricVars, copy, traceVars>>
OfMetrics(X) == used = "metrics" /\ X /\ UNCHANGED <<used, vars, appVars, configVars, docVars, copy, traceVars>>
OfCopy(X) == used = "copy" /\ X /\ UNCHANGED <<used, vars, appVars, configVars, docVars, metricVars, traceVars>>
OfTrace(X) == used = "trace" /\ X /\ UNCHANGED <<used, vars, appVars, configVars, docVars, metricVars, copy>>

All ==
  /\ Chosen
  /\ [][\/ OfLog(Next) \/ OfApp(Life!Next) \/ OfConf(Conf!Next) \/ OfDoc(Edit)
        \/ OfMetrics(Measures!Next) \/ OfCopy(Disk!Next) \/ OfTrace(Recording!Next)]_allVars

\* One of them is used, so a pair that is weakly fair makes each of it so.
FairAll ==
  /\ All
  /\ WF_allVars(OfLog(WorkerStep) \/ OfApp(Life!RunSteps))
  /\ WF_allVars(OfLog(CallerStep(t1)) \/ OfApp(Life!CallerSteps))
  /\ WF_allVars(OfLog(CallerStep(t2)) \/ OfApp(Life!TaskSteps))

Lifecycle  == Life!Lifecycle
UpWhenBack == Life!UpWhenBack
Settings   == used = "config" => Conf!Settings
\* Life!Ends and QueuedIsWritten, as only one of them is used.
Owed == <<Queued(1) \/ Life!Ending, Queued(2) \/ Life!Asking, Queued(3)>>
Paid == IF used = "log" THEN [e \in 1..3 |-> Settled(e)]
        ELSE <<Life!Over, Life!Gone, TRUE>>
Ends == \A i \in 1..3 : Owed[i] ~> Paid[i]

\* What a rendering says was so, and its labels are read back; what a dump of the trace
\* says is the last that was recorded.
Measured ==
  /\ used = "metrics" =>
       /\ Measures!Safe
       /\ operations = 0 =>
            \A v, w \in LabelValues : Measures!LabelsReadBack(<<"k", "m">>, <<v, w>>)
  /\ used = "trace" => Recording!Traced

Registered(tree, files, trees) ==
  Behaviours!TreesMean(tree, files, trees, Behaviours!buildFromJson(tree, trees, 3))

\* Json: what is written is read back; of other texts, those of the grammar are read.
\* Files: what is made, removed, copied and written is what was asked for, and no more.
\* Strings: a text or a value is what its parts, or its code, say.
Documents ==
  CASE used = "document" ->
         /\ Document!RoundTrip(doc)
         /\ edits = 0 => \A code \in CodePoints : Document!ReadsCodePoint(code)
    [] used = "number" -> Document!NumbersOnly(text)
    [] used = "pieces" -> Document!ParsesGrammar(text, Valid)
    [] used = "copy" -> Disk!Copied
    [] used = "tree" -> \A p \in InTree : Disk!TreeSafe(text, p)
    [] used = "path" -> Disk!PartsJoin(text)
    [] used = "lines" -> \A k, room \in 0..4 : Disk!TextSafe(text, k, room)
    [] used = "split" -> \A d \in Delimiters :
         Words!SplitMeans(text, d) /\ \A new \in Replacements : Words!ReplaceMeans(text, d, new)
    [] used = "words" -> Words!EndsMean(text) /\ Words!LinesMean(text)
    [] used = "numeral" -> \A signed \in BOOLEAN, bits \in {4, 6} :
         Words!NumbersAgree(text, signed, bits)
    [] used = "address" -> Words!AddressesMean(text[1], text[2])
    [] used = "utf8" -> Words!CleansUtf8(text)
    [] used = "bytes" -> \A size \in {0, 3, 6, 9}, little \in BOOLEAN :
         Codes!FieldsReadBack(text, size, little) /\ Codes!ReadsInside(text, size, little)
    [] used = "base64" -> Codes!Base64ReadsBack(text)
    [] used = "struct" -> Codes!SerializesBack(text, Outer)
    [] used = "parsed" -> Codes!NormalizesOnce(text, Outer)
    [] used = "trees" -> Registered(text[2], text[1], Behaviours!LoadTreesFromDirectory(text[1]))
    [] OTHER -> TRUE
=============================================================================
