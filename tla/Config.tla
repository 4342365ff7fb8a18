------------------------------- MODULE Config -------------------------------
\* Settings from options, arguments, environment, files and calls, and the watcher that
\* loads the file again when it changes. A path is a sequence of names, a name and a
\* word are sequences of character codes, a file is what its text means.
EXTENDS Json

CONSTANTS
  Options,     \* options that may be defined: [name, short, default, required]
  Defined,     \* the sets of them that a program may begin with
  Lines,       \* command lines, sequences of what is meant: [args, sets, kind]
  Given,       \* those of them that ParseArgs is called with
  Contents,    \* what the file may hold: [whole, value]
  Environs,    \* environments, sequences of [name, word]
  MaxCalls, MaxWrites

VARIABLES
  options,     \* options_
  data,        \* data_
  loaded,      \* config_loaded_
  unparsed,    \* no_parsed_: positions in the command line
  result,      \* what the last load returned
  calls,
  file, writes,
  watching,    \* fd_ >= 0
  event,       \* inotify has something for the file
  loading,     \* OnFdReady has read it and not loaded the file
  told,        \* the settings on_reload_ was last called with
  changed      \* ghost: the file has changed since Watch

configVars == <<options, data, loaded, unparsed, result, calls>>
watchVars == <<watching, event, loading, told, changed>>
vars == <<configVars, file, writes, watchVars>>

FileFlag == <<<<99>>>>  \* --config-file

-----------------------------------------------------------------------------
\* The tree of values.
RECURSIVE At(_, _), Set(_, _, _), Merge(_, _)
At(v, path) ==
  CASE path = <<>> -> {v}
    [] HasKey(v, Head(path)) -> At(v.fields[Head(path)], Tail(path))
    [] OTHER -> {}
Found(v, path) == IF path = <<>> THEN {} ELSE At(v, path)

\* Set makes an object of whatever is in its way.
Set(v, path, x) ==
  IF path = <<>> THEN x
  ELSE LET object == IF v.type = "object" THEN v ELSE Empty
           inner == IF HasKey(object, Head(path)) THEN object.fields[Head(path)] ELSE Empty
       IN Put(object, Head(path), Set(inner, Tail(path), x))
SetPath(v, path, x) == IF path = <<>> THEN v ELSE Set(v, path, x)

Merge_Shallow(base, overlay) ==
  IF base.type # "object" \/ overlay.type # "object" THEN overlay
  ELSE Object([key \in DOMAIN base.fields \cup DOMAIN overlay.fields |->
                 IF HasKey(overlay, key) THEN overlay.fields[key] ELSE base.fields[key]])
Merge(base, overlay) ==
  IF base.type # "object" \/ overlay.type # "object" THEN overlay
  ELSE Object([key \in DOMAIN base.fields \cup DOMAIN overlay.fields |->
                 CASE ~HasKey(overlay, key) -> base.fields[key]
                   [] ~HasKey(base, key)    -> overlay.fields[key]
                   [] OTHER -> Merge(base.fields[key], overlay.fields[key])])

\* The options in the order of their names.
Dotted(path) == FlattenSeq([k \in DOMAIN path |-> IF k = 1 THEN path[k] ELSE <<46>> \o path[k]])
Sorted(defined) == SetToSortSeq(defined, LAMBDA p, q : Precedes(Dotted(p), Dotted(q)))

ApplyDefaults(v) ==
  LET Default(w, name) ==
        IF options[name].required \/ Found(w, name) # {} THEN w
        ELSE SetPath(w, name, options[name].default)
  IN FoldLeft(Default, v, Sorted(DOMAIN options))
MissingRequired(v) == {name \in DOMAIN options : options[name].required /\ Found(v, name) = {}}
Validate(v) == MissingRequired(v) = {}

-----------------------------------------------------------------------------
\* What a word means to an option with this default.
TrueWords  == {Literals.true, <<49>>, <<121, 101, 115>>, <<111, 110>>}
FalseWords == {Literals.false, <<48>>, <<110, 111>>, <<111, 102, 102>>}
Lower(word) == [k \in DOMAIN word |-> IF word[k] \in 65..90 THEN word[k] + 32 ELSE word[k]]
\* stoll: the digits a word begins with, after spaces and a sign, whatever follows them.
Leading(word) ==
  LET first == SkipWs(word, 1)
      start == IF Peek(word, first) \in {Code.minus, Code.plus} THEN first + 1 ELSE first
      number == (IF Peek(word, first) = Code.minus THEN -1 ELSE 1)
                  * Natural(Slice(word, start, Digits(word, start) - 1))
  IN IF Digits(word, start) = start \/ ~Fits(number) THEN {} ELSE {Integer(number)}
\* stod, likewise.
AsFloat(number) ==
  CASE ~number.ok -> {}
    [] number.value.type = "integer" -> {Float(number.value.atom[1] * Ten(Places))}
    [] OTHER -> {number.value}
LeadingFloat(word) == AsFloat(ParseNumber(word, 1))
Only(read) == IF read.ok THEN {read.value} ELSE {}
ParseWord(word, default) ==
  CASE default.type = "string"  -> {String(word)}
    [] default.type = "integer" -> Leading(word)
    [] default.type = "float"   -> LeadingFloat(word)
    [] default.type = "bool"    ->
         IF Lower(word) \in TrueWords THEN {Bool(TRUE)}
         ELSE IF Lower(word) \in FalseWords THEN {Bool(FALSE)} ELSE {}
    [] default.type \in {"array", "object"} -> Only(Parse(word))
    [] OTHER -> {}

\* Arguments: two dashes and a path, one dash and characters, or a word; perhaps with
\* an equals sign and a value after it.
IsFlag(arg) == arg.dashes = 2 \/ (arg.dashes = 1 /\ ~IsDigit(arg.chars[1]))
WordOf(arg) == IF arg.dashes = 1 THEN <<Code.minus>> \o arg.chars ELSE arg.value
IsFile(arg) == arg.dashes = 2 /\ arg.path = FileFlag

ShortName(c) == {name \in DOMAIN options : options[name].short = c}
IsBool(name) == options[name].default.type = "bool"
Chained(arg) ==
  /\ Len(arg.chars) > 1 /\ ~arg.eq
  /\ \A k \in DOMAIN arg.chars : \E name \in ShortName(arg.chars[k]) : IsBool(name)

\* The option an argument names, the value with it, and whether the next one is that.
NextWord(args, i) == i < Len(args) /\ ~IsFlag(args[i + 1])
Reading(name, has, word, taken) == [name |-> name, has |-> has, word |-> word, taken |-> taken]
ReadLong(args, i) ==
  LET arg == args[i]
  IN CASE arg.eq            -> Reading(arg.path, TRUE, arg.value, 0)
       [] NextWord(args, i) -> Reading(arg.path, TRUE, WordOf(args[i + 1]), 1)
       [] OTHER             -> Reading(arg.path, FALSE, <<>>, 0)
ReadShort(args, i) ==
  LET arg == args[i]
      names == ShortName(arg.chars[1])
      name == CHOOSE n \in names : TRUE
  IN CASE names = {}        -> Reading(<<>>, FALSE, <<>>, 0)
       [] Len(arg.chars) > 1 -> Reading(name, TRUE, Tail(arg.chars), 0)
       [] arg.eq            -> Reading(name, TRUE, arg.value, 0)
       [] NextWord(args, i) /\ ~IsBool(name) -> Reading(name, TRUE, WordOf(args[i + 1]), 1)
       [] OTHER             -> Reading(name, FALSE, <<>>, 0)
ReadArg(args, i) ==
  CASE args[i].dashes = 2 -> ReadLong(args, i)
    [] args[i].dashes = 1 -> ReadShort(args, i)
    [] OTHER              -> Reading(<<>>, FALSE, <<>>, 0)

Parsed(ok, v, left) == [ok |-> ok, data |-> v, unparsed |-> left]
RECURSIVE Apply(_, _, _, _)
ValueFor(name, read) ==
  CASE read.has /\ (read.word # <<>> \/ ~IsBool(name)) ->
         ParseWord(read.word, options[name].default)
    [] IsBool(name) -> {Bool(TRUE)}
    [] OTHER        -> {}
Apply(args, i, v, left) ==
  LET arg == args[i]
      read == ReadArg(args, i)
      next == i + 1 + read.taken
      known == read.name \in DOMAIN options
      Assigned(value) ==
        IF value = {} THEN Parsed(FALSE, v, left)
        ELSE Apply(args, next, SetPath(v, read.name, CHOOSE x \in value : TRUE), left)
      Turn(w, c) == SetPath(w, CHOOSE n \in ShortName(c) : TRUE, Bool(TRUE))
  IN CASE i > Len(args)   -> Parsed(Validate(v), v, left)
       [] IsFile(arg)     -> Apply(args, IF arg.eq THEN i + 1 ELSE i + 2, v, left)
       [] arg.dashes = 1 /\ Chained(arg) -> Apply(args, i + 1, FoldLeft(Turn, v, arg.chars), left)
       [] read.name = <<>> -> Apply(args, next, v, left \cup {i})
       [] ~known          -> Apply(args, next, v, left \cup i..(next - 1))
       [] OTHER           -> Assigned(ValueFor(read.name, read))

-----------------------------------------------------------------------------
\* The calls.
CallOne ==
  calls < MaxCalls /\ ~watching /\ calls' = calls + 1 /\ UNCHANGED <<file, writes, watchVars>>

Define(option) ==
  /\ CallOne
  /\ options' = [n \in DOMAIN options \cup {option.name} |->
                   IF n = option.name THEN [option EXCEPT !.short = 0] ELSE options[n]]
  /\ data' = IF option.required \/ Found(data, option.name) # {} THEN data
             ELSE SetPath(data, option.name, option.default)
  /\ UNCHANGED <<loaded, unparsed, result>>

\* Short refuses an alias another option has.
Short(name, c) ==
  /\ CallOne /\ name \in DOMAIN options
  /\ ShortName(c) \subseteq {name}
  /\ options' = [options EXCEPT ![name].short = c]
  /\ UNCHANGED <<data, loaded, unparsed, result>>

\* Parse and ParseJson: what the file says over what there is.
Over(base, x) == IF x.type = "object" THEN Merge(base, x) ELSE base
Checked(v) == Parsed(Validate(v), v, {})
Loads(v, content) ==
  IF content.whole THEN Checked(Over(ApplyDefaults(v), content.value)) ELSE Parsed(FALSE, v, {})

\* The first pass loads the first file there is, unless one was loaded before.
NamesFile(args) == \E i \in DOMAIN args : IsFile(args[i]) /\ (args[i].eq \/ i < Len(args))
FirstPass(args, start) ==
  IF NamesFile(args) /\ ~loaded THEN Loads(start, file) ELSE Parsed(TRUE, start, {})
SecondPass(args, read) == IF read.ok THEN Apply(args, 1, read.data, {}) ELSE read
Outcome(args) == SecondPass(args, FirstPass(args, ApplyDefaults(data)))
Returns(out) == data' = out.data /\ unparsed' = out.unparsed /\ result' = out.ok
ParseArgs(args) ==
  /\ CallOne
  /\ Returns(Outcome(args))
  /\ loaded' = (loaded \/ (NamesFile(args) /\ Loads(ApplyDefaults(data), file).ok))
  /\ UNCHANGED options

LoadFile ==
  LET read == Loads(data, file)
  IN /\ CallOne
     /\ data' = read.data /\ result' = read.ok
     /\ UNCHANGED <<options, loaded, unparsed>>

\* LoadEnv: by the form of the word, whatever type the option has. An underscore at
\* the end of a name is a name that is empty, and counts for nothing.
Typed(word, number) ==
  CASE word = Literals.true  -> Bool(TRUE)
    [] word = Literals.false -> Bool(FALSE)
    [] number.ok /\ number.next > Len(word) -> number.value
    [] OTHER -> String(word)
Coerce(word) == Typed(word, ParseNumber(word, 1))
LoadEnv(prefix, environ) ==
  LET Import(v, entry) ==
        IF IsStrictPrefix(prefix, entry.name) \/ prefix = <<>>
        THEN SetPath(v, SelectSeq(entry.name, LAMBDA part : part # <<>>), Coerce(entry.word))
        ELSE v
  IN /\ CallOne
     /\ data' = FoldLeft(Import, data, environ)
     /\ UNCHANGED <<options, loaded, unparsed, result>>

-----------------------------------------------------------------------------
\* The watcher, on the task runner; Watch does not load the file.
Watch ==
  /\ watching' = TRUE /\ event' = FALSE /\ changed' = FALSE /\ told' = Null
  /\ ~loading /\ UNCHANGED <<configVars, file, writes, loading>>
Stop ==
  /\ watching /\ ~loading
  /\ watching' = FALSE /\ event' = FALSE
  /\ UNCHANGED <<configVars, file, writes, loading, told, changed>>

\* The file is written, whole or in parts, or replaced by another.
Write(content) ==
  /\ writes < MaxWrites /\ writes' = writes + 1
  /\ file' = content /\ event' = watching /\ changed' = watching
  /\ UNCHANGED <<configVars, watching, loading, told>>

\* OnFdReady takes every event, and then loads the file as it is by then.
OnFdReady ==
  /\ event /\ ~loading
  /\ event' = FALSE /\ loading' = TRUE
  /\ UNCHANGED <<configVars, file, writes, watching, told, changed>>
Reload ==
  LET read == Loads(data, file)
  IN /\ loading /\ loading' = FALSE
     /\ data' = read.data
     /\ told' = IF read.ok THEN read.data ELSE told
     /\ UNCHANGED <<options, loaded, unparsed, result, calls, file, writes, watching, event,
                    changed>>

\* What is meant: arguments that set an option, that nobody knows, or that name the file.
ArgsOf(line) == FlattenSeq([k \in DOMAIN line |-> line[k].args])

Init ==
  /\ options \in {[name \in {o.name : o \in S} |-> CHOOSE o \in S : o.name = name] : S \in Defined}
  /\ data = ApplyDefaults(Empty) /\ loaded = FALSE /\ unparsed = {} /\ result = TRUE
  /\ calls = 0 /\ file \in Contents /\ writes = 0
  /\ watching = FALSE /\ event = FALSE /\ loading = FALSE /\ told = Null /\ changed = FALSE

Call ==
  \/ \E option \in Options : Define(option) \/ Short(option.name, option.short)
  \/ \E line \in Given : ParseArgs(ArgsOf(line))
  \/ LoadFile
  \/ \E prefix \in {<<>>, <<<<97>>>>}, environ \in Environs : LoadEnv(prefix, environ)
Next ==
  \/ Call \/ Watch \/ Stop \/ OnFdReady \/ Reload
  \/ \E content \in Contents : Write(content)

Spec == Init /\ [][Next]_vars

-----------------------------------------------------------------------------
\* Options whose names are not inside one another, nor inside what else is set.
Apart(names) == \A p, q \in names : p # q => ~IsPrefix(p, q)

\* ParseArgs, when it succeeds: of what is meant for an option the last one counts,
\* over the file, which counts over what was set, which counts over the default; and
\* it reports every argument that nobody knows. A long flag without a value takes the
\* word after it, so such a line is not meant.
Clear(line) ==
  /\ \A k \in DOMAIN line : line[k].kind = "word" => k = 1 \/ line[k - 1].kind # "long"
  /\ \A s \in UNION {line[k].sets : k \in DOMAIN line} :
       s.name \in DOMAIN options /\ (s.via = 0 \/ ShortName(s.via) = {s.name})
LastFor(line, name) ==
  LET at == {k \in DOMAIN line : \E s \in line[k].sets : s.name = name}
  IN IF at = {} THEN {}
     ELSE {(CHOOSE s \in line[CHOOSE k \in at : \A j \in at : j <= k].sets : s.name = name).value}
First(choices) ==
  CHOOSE k \in DOMAIN choices : choices[k] # {} /\ \A j \in 1..(k - 1) : choices[j] = {}
Precedence(line) ==
  LET out == Outcome(ArgsOf(line))
      fromFile == IF NamesFile(ArgsOf(line)) /\ ~loaded THEN file.value ELSE Null
      From(name) ==
        <<LastFor(line, name), Found(fromFile, name), Found(data, name),
          IF options[name].required THEN {} ELSE {options[name].default}>>
      starts == [k \in DOMAIN line |-> Len(ArgsOf(SubSeq(line, 1, k - 1)))]
  IN out.ok /\ Clear(line) =>
       /\ \A name \in DOMAIN options : Found(out.data, name) = From(name)[First(From(name))]
       /\ out.unparsed = UNION {(starts[k] + 1)..(starts[k] + Len(line[k].args)) :
                                  k \in {j \in DOMAIN line : line[j].kind \in {"word", "unknown"}}}

\* Save and LoadFile give back the settings.
SavedIsRead == LET read == Parse(Dump(data, 2)) IN read.ok /\ read.value = data

\* ConfigWatcher: once the file has changed and everything about it was read, the
\* settings are those of the file, and whoever asked was told them.
Fresh ==
  watching /\ changed /\ ~event /\ ~loading /\ file.whole /\ file.value.type = "object" =>
    /\ Merge(data, file.value) = data
    /\ Validate(data) => told = data

\* The file may hold anything at first, so that writing it again adds no line to read.
Settings ==
  /\ ~watching /\ writes = 0 /\ Apart(DOMAIN options) => \A line \in Lines : Precedence(line)
  /\ SavedIsRead
  /\ Fresh
=============================================================================
