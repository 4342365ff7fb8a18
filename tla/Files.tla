------------------------------- MODULE Files --------------------------------
(***************************************************************************)
(* file_utils over a file system: a function from paths, which are         *)
(* sequences of names, to nodes. copy is a state machine of the system     *)
(* calls it makes; the other functions are operators, that give the file   *)
(* system after the call and what it returns.                              *)
(***************************************************************************)
EXTENDS Integers, Sequences, FiniteSets, SequencesExt, FiniteSetsExt

CONSTANTS
  Buffer,  \* what an ofstream holds back until it is closed
  Sources  \* of copy: st_size, and what can be read

VARIABLE copy
vars == copy

Directory == [kind |-> "directory", content |-> <<>>, to |-> <<>>]
File(content) == [kind |-> "file", content |-> content, to |-> <<>>]
Link(path) == [kind |-> "link", content |-> <<>>, to |-> path]
Result(fs, ok) == [fs |-> fs, ok |-> ok]
Without(fs, paths) == [p \in DOMAIN fs \ paths |-> fs[p]]
With(fs, path, node) == [p \in DOMAIN fs \cup {path} |-> IF p = path THEN node ELSE fs[p]]
Entries(fs, path) == {p \in DOMAIN fs : Len(p) = Len(path) + 1 /\ IsPrefix(path, p)}

\* Where a path leads: links on the way are followed, and the last one as stat does.
RECURSIVE Resolved(_, _, _)
Resolved(fs, path, done) ==
  IF path = <<>> THEN done
  ELSE LET next == Append(done, Head(path))
       IN IF next \notin DOMAIN fs THEN next \o Tail(path)
          ELSE IF fs[next].kind = "link" THEN Resolved(fs, fs[next].to \o Tail(path), <<>>)
          ELSE Resolved(fs, Tail(path), next)
Stat(fs, path) == Resolved(fs, path, <<>>)

exists(fs, path) == Stat(fs, path) \in DOMAIN fs
is_directory(fs, path) == exists(fs, path) /\ fs[Stat(fs, path)].kind = "directory"
is_file(fs, path) == exists(fs, path) /\ fs[Stat(fs, path)].kind = "file"

list_directory(fs, path) ==
  IF is_directory(fs, path) THEN {Last(p) : p \in Entries(fs, Stat(fs, path))} ELSE {}
list_files(fs, path) == {n \in list_directory(fs, path) : is_file(fs, Append(path, n))}
list_directories(fs, path) == {n \in list_directory(fs, path) : is_directory(fs, Append(path, n))}

-----------------------------------------------------------------------------
(* Contents *)

\* How much of a file there is when it is read, after its size was looked at.
read(size, content, max) == IF size > max THEN [ok |-> FALSE, text |-> <<>>]
                            ELSE [ok |-> TRUE, text |-> content]

\* ofstream reports what it has tried to write, and close what is in its buffer to nobody.
write(content, room) ==
  [ok |-> Len(content) <= Buffer \/ Len(content) <= room,
   text |-> SubSeq(content, 1, IF Len(content) <= room THEN Len(content) ELSE room)]

write_lines(lines) == FlattenSeq([k \in DOMAIN lines |-> Append(lines[k], "\n")])
\* getline takes what follows the last end of a line too, if there is anything.
read_lines(text, max) ==
  LET ends == {i \in DOMAIN text : text[i] = "\n"}
      starts == {i \in DOMAIN text : i = 1 \/ i - 1 \in ends}
      LineAt(i) == SubSeq(text, i, Min({e \in ends : e >= i} \cup {Len(text) + 1}) - 1)
      lines == [k \in 1..Cardinality(starts) |->
                  LineAt(CHOOSE i \in starts : Cardinality({s \in starts : s <= i}) = k)]
  IN SubSeq(lines, 1, IF Len(lines) < max THEN Len(lines) ELSE max)

-----------------------------------------------------------------------------
(* Directories *)

\* The directories of a path are made one after the other; stat follows links, and mkdir
\* fails with EEXIST at one that dangles, which is let pass.
RECURSIVE MakeFrom(_, _, _)
MakeFrom(fs, path, n) ==
  IF n > Len(path) THEN Result(fs, TRUE)
  ELSE LET place == SubSeq(path, 1, n)
           real == Stat(fs, place)
       IN IF real \in DOMAIN fs
          THEN IF fs[real].kind = "directory" THEN MakeFrom(fs, path, n + 1) ELSE Result(fs, FALSE)
          ELSE LET parent == Stat(fs, Front(place))
               IN IF ~(parent \in DOMAIN fs /\ fs[parent].kind = "directory") THEN Result(fs, FALSE)
                  ELSE IF Append(parent, Last(place)) \in DOMAIN fs THEN MakeFrom(fs, path, n + 1)
                  ELSE MakeFrom(With(fs, Append(parent, Last(place)), Directory), path, n + 1)
mkdir(fs, path) == MakeFrom(fs, path, 1)

\* Where unlink and rmdir act: a link that comes last is not followed.
Place(fs, path) == Append(Stat(fs, Front(path)), Last(path))
Unlink(fs, path) == Result(Without(fs, {Place(fs, path)}), TRUE)
Rmdir(fs, path) ==
  LET p == Place(fs, path)
  IN IF fs[p].kind = "directory" /\ Entries(fs, p) = {}
     THEN Result(Without(fs, {p}), TRUE) ELSE Result(fs, FALSE)

remove(fs, path) ==
  IF ~exists(fs, path) THEN Result(fs, FALSE)
  ELSE IF is_directory(fs, path) THEN Rmdir(fs, path) ELSE Unlink(fs, path)

\* The entries of a directory come in any order, and one that cannot be removed ends it.
RECURSIVE remove_all(_, _), RemoveEntries(_, _, _)
remove_all(fs, path) ==
  IF ~exists(fs, path) THEN {Result(fs, FALSE)}
  ELSE IF ~is_directory(fs, path) THEN {Unlink(fs, path)}
  ELSE {IF r.ok THEN Rmdir(r.fs, path) ELSE r : r \in RemoveEntries(fs, path, list_directory(fs, path))}
RemoveEntries(fs, path, names) ==
  IF names = {} THEN {Result(fs, TRUE)}
  ELSE UNION {IF r.ok THEN RemoveEntries(r.fs, path, names \ {n}) ELSE {r} :
                <<n, r>> \in UNION {{n} \X remove_all(fs, Append(path, n)) : n \in names}}

-----------------------------------------------------------------------------
(* Names of files, in characters *)

LastOf(text, ch) == Max({i \in DOMAIN text : text[i] = ch} \cup {0})
Rest(text, n) == SubSeq(text, n, Len(text))

dirname(path) == IF LastOf(path, "/") = 0 THEN <<".">> ELSE SubSeq(path, 1, LastOf(path, "/") - 1)
bsname(path) == IF path = <<>> THEN <<".">> ELSE Rest(path, LastOf(path, "/") + 1)

\* A name that begins with its only dot has no extension.
Dot(path) == LET dot == LastOf(bsname(path), ".") IN IF dot > 1 THEN dot ELSE Len(bsname(path)) + 1
extension(path) == Rest(bsname(path), Dot(path))
stem(path) == SubSeq(bsname(path), 1, Dot(path) - 1)

join_path_Absolute(path1, path2) ==
  IF path1 = <<>> THEN path2 ELSE IF path2 = <<>> THEN path1
  ELSE path1 \o (IF Last(path1) = "/" THEN <<>> ELSE <<"/">>) \o path2
join_path(path1, path2) ==
  IF path1 = <<>> THEN path2 ELSE IF path2 = <<>> THEN path1
  ELSE IF path2[1] = "/" THEN path2
  ELSE path1 \o (IF Last(path1) = "/" THEN <<>> ELSE <<"/">>) \o path2

-----------------------------------------------------------------------------
(* copy: copy_file_range, then sendfile, then read and write. Each may do    *)
(* part of it, find the end of the source, be unsupported for these files at *)
(* its first call, or fail. What is written comes after what was written.    *)

Content == copy.source.content
Left(offset) == Len(Content) - offset
Went(n) == [copy EXCEPT !.offset = @ + n,
                        !.written = @ \o SubSeq(Content, copy.offset + 1, copy.offset + n)]
Ends(ok) == copy' = [copy EXCEPT !.at = "done", !.ok = ok]

\* offset >= file_size
Complete == copy.offset >= copy.source.size

Moves(method, next) ==
  /\ copy.at = method /\ ~Complete
  /\ \/ \E n \in 1..Left(copy.offset) : n <= copy.source.size - copy.offset /\ copy' = Went(n)
     \/ Left(copy.offset) <= 0 /\ copy' = [copy EXCEPT !.at = next, !.offset = 0]
     \/ copy.offset = 0 /\ copy' = [copy EXCEPT !.at = next]
     \/ Ends(FALSE)
CopyFileRange == Moves("range", "sendfile")
SendFile == Moves("sendfile", "read")

Completed == copy.at \in {"range", "sendfile"} /\ Complete /\ Ends(TRUE)

\* write is called again for what it has not taken; read says when there is no more.
ReadWrite ==
  /\ copy.at = "read"
  /\ \/ \E n \in 1..Left(copy.offset) : copy' = Went(n)
     \/ Left(copy.offset) = 0 /\ Ends(TRUE)
     \/ Ends(FALSE)

Starts == {[source |-> source, at |-> "range", offset |-> 0, written |-> <<>>, ok |-> FALSE] :
             source \in Sources}
Init == copy \in Starts
Next == CopyFileRange \/ SendFile \/ Completed \/ ReadWrite

-----------------------------------------------------------------------------
(* Properties *)

\* What was copied is the source, of a file whose st_size is what can be read of it.
Copied ==
  copy.at = "done" /\ copy.ok /\ copy.source.size = Len(Content) => copy.written = Content

Tree(fs) == \A p \in DOMAIN fs : fs[p].kind # "link"
Inside(fs, path) == {p \in DOMAIN fs : IsPrefix(path, p)}

\* mkdir makes what is missing of a path and nothing else.
Makes(fs, path) ==
  LET r == mkdir(fs, path)
      prefixes == {SubSeq(path, 1, n) : n \in 0..Len(path)}
  IN Tree(fs) =>
       /\ r.ok <=> \A p \in prefixes : p \in DOMAIN fs => fs[p].kind = "directory"
       /\ r.ok => is_directory(r.fs, path)
       /\ DOMAIN r.fs \subseteq DOMAIN fs \cup prefixes
       /\ \A p \in DOMAIN fs : r.fs[p] = fs[p]

\* remove_all removes a path and all below it; what it finds through links goes too, and
\* a link to a directory, or to nothing, stops it.
Removes(fs, path) ==
  \A r \in remove_all(fs, path) :
    LET gone == DOMAIN fs \ DOMAIN r.fs
        links == {p \in Inside(fs, path) : fs[p].kind = "link"}
    IN /\ \A p \in DOMAIN r.fs : r.fs[p] = fs[p]
       /\ r.ok <=> path \in DOMAIN fs /\ \A p \in links : ~is_directory(fs, p) /\ exists(fs, p)
       /\ r.ok => gone = Inside(fs, path)
       /\ gone \subseteq Inside(fs, path) \cup UNION {Inside(fs, Stat(fs, p)) : p \in links}

\* remove takes one file, link or empty directory; a link is taken for what it leads to,
\* and cannot be removed if that is a directory or nothing.
RemovesOne(fs, path) ==
  LET r == remove(fs, path)
  IN /\ r.fs = IF r.ok THEN Without(fs, {Place(fs, path)}) ELSE fs
     /\ r.ok /\ path \in DOMAIN fs => Entries(fs, path) = {}

\* What a directory lists is a file, a directory or a link to neither.
Lists(fs, path) ==
  /\ list_files(fs, path) \cap list_directories(fs, path) = {}
  /\ \A n \in list_directory(fs, path) \ (list_files(fs, path) \cup list_directories(fs, path)) :
       ~exists(fs, Append(path, n))

\* Lines are read back as they were written, and no more of them than asked for.
LinesReadBack(lines, max) ==
  LET n == IF Len(lines) < max THEN Len(lines) ELSE max
  IN read_lines(write_lines(lines), max) = SubSeq(lines, 1, n)

\* What write says it has written is there, unless it was small and there was no room.
Written(content, room) ==
  LET w == write(content, room)
      r == read(Len(w.text), w.text, Len(content))
  IN w.ok /\ (room >= Len(content) \/ Len(content) > Buffer) => r.ok /\ r.text = content

\* The parts of a name make it up again, but for the root of what is right below it.
PartsJoin(path) ==
  /\ stem(path) \o extension(path) = bsname(path)
  /\ dirname(path) # <<>> /\ bsname(path) # <<>> /\ LastOf(path, "/") > 0 /\ Last(dirname(path)) # "/"
       => join_path(dirname(path), bsname(path)) = path
  /\ \A p \in {<<"a">>, <<"/", "a">>} :
       LET j == join_path(path, p)
       IN bsname(j) = <<"a">> /\ (p[1] = "/" => j = p)

TreeSafe(fs, path) ==
  Makes(fs, path) /\ Removes(fs, path) /\ RemovesOne(fs, path) /\ Lists(fs, path)
TextSafe(lines, max, room) == LinesReadBack(lines, max) /\ Written([i \in 1..max |-> i], room)
=============================================================================
