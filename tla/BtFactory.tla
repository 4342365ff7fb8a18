----------------------------- MODULE BtFactory -----------------------------
(***************************************************************************)
(* Behaviour trees as documents: the factory builds the nodes depth first,  *)
(* subtrees from the document or from the trees that were registered, which *)
(* are built in their turn; a tree takes its nodes over, those of its       *)
(* subtrees too; and a tree is dumped as a document again. A key that may   *)
(* be absent is a sequence of no or one value; the texts in ports and the   *)
(* names of trees are numbers, 0 for the empty one. A blackboard goes where *)
(* its tree goes.                                                           *)
(***************************************************************************)
EXTENDS Integers, FiniteSets, Sequences, SequencesExt

CONSTANTS
  Custom,  \* the application's actions: of each name the types of its ports
  Bits,    \* of each integer type its width
  Stack    \* bound: registered trees within each other before the stack overflows

-----------------------------------------------------------------------------
(* Documents, nodes and what may be thrown                                  *)

Tree(name, root) == [name |-> name, root |-> root]
Doc(name, children, ports, subtree) ==
  [object |-> TRUE, id |-> "", name |-> name, children |-> children, ports |-> ports,
   subtree |-> subtree]
Value(port, kind, of) == [port |-> port, kind |-> kind, of |-> of]

Node(name, data, children, subtree) ==
  [name |-> name, data |-> data, children |-> children, subtree |-> subtree, tree |-> 0]
Nothing == Node("", {}, <<>>, <<>>)
Built(node) == [error |-> "", node |-> node]
Thrown(error) == [error |-> error, node |-> Nothing]

Composites == {"Selector", "RandomSelector", "Sequence", "Fallback"}
Decorators == {"Delay", "Timeout", "Inverter", "Retry", "Repeater", "SubTree", "EventGuard"}
Actions == {"AlwaysSuccess", "AlwaysFailure", "Wait", "WaitForEvent"} \cup DOMAIN Custom
Known == Composites \cup Decorators \cup Actions

Ports(name) ==
  CASE name \in DOMAIN Custom -> Custom[name]
    [] name = "Delay" -> [delay_ms |-> "double"]
    [] name = "Timeout" -> [timeout_ms |-> "double"]
    [] name = "Wait" -> [wait_ms |-> "double"]
    [] name = "Retry" -> [max_retries |-> "int"]
    [] name = "Repeater" -> [repeat_count |-> "int"]
    [] name = "SubTree" -> [tree_name |-> "string"]
    [] name = "WaitForEvent" -> [event_type |-> "int", timeout_ms |-> "double"]
    [] name = "EventGuard" -> [event_type |-> "int", interrupt_mode |-> "int", return_status |-> "int"]
    [] OTHER -> <<>>

-----------------------------------------------------------------------------
(* Ports. A value of a type the port has not is kept as what it is.         *)

Signed(type) == type \in {"int", "int8"}
Narrowed(type, n) ==
  LET size == 2 ^ Bits[type]
      m == n % size
  IN IF Signed(type) /\ m >= size \div 2 THEN m - size ELSE m

Provided(name, ports) == {v \in ports : v.port \in DOMAIN Ports(name)}
Misfit(name, v) == v.kind = "real" /\ Ports(name)[v.port] \in DOMAIN Bits
Stored(name, v) ==
  LET type == Ports(name)[v.port]
  IN CASE v.kind \in {"bool", "string"} -> {Value(v.port, v.kind, v.of)}
       [] v.kind \in {"integer", "real"} /\ type = "double" -> {Value(v.port, "double", v.of)}
       [] v.kind = "integer" /\ type \in DOMAIN Bits -> {Value(v.port, type, Narrowed(type, v.of))}
       [] OTHER -> {}
Data(name, ports) == UNION {Stored(name, v) : v \in Provided(name, ports)}

\* The tree that a SubTree without one of its own stands for, 0 for none.
Referred(data) ==
  IF \E v \in data : v.port = "tree_name" /\ v.kind = "string"
    THEN (CHOOSE v \in data : v.port = "tree_name").of ELSE 0

-----------------------------------------------------------------------------
(* A tree takes over the nodes it is made of, and those of their subtrees.  *)
(* Of trees within each other each is known by its height.                  *)

RECURSIVE Height(_), visit_nodes(_, _)
Height(node) ==
  LET heights(s) == {Height(s[i]) : i \in DOMAIN s}
      within == {0} \cup heights(node.children) \cup {1 + h : h \in heights(node.subtree)}
  IN CHOOSE h \in within : \A k \in within : k <= h

inheritRuntimeContext_RootOnly(root, tree) == [root EXCEPT !.tree = tree]
inheritRuntimeContext(root, tree) == visit_nodes(root, tree)
visit_nodes(node, tree) ==
  [node EXCEPT !.tree = tree,
               !.children = [i \in DOMAIN @ |-> visit_nodes(@[i], tree)],
               !.subtree = [i \in DOMAIN @ |-> inheritRuntimeContext(@[i], tree)]]

-----------------------------------------------------------------------------
(* Building                                                                 *)

Called(j) == IF j.name = "" THEN j.id ELSE j.name
Refused(j) ==
  CASE ~j.object -> "not an object"
    [] Called(j) = "" -> "no id or name"
    [] Called(j) \notin Known -> "unknown node type"
    [] Called(j) \in Composites /\ j.children = <<>> -> "no children"
    [] Called(j) \in Decorators \ {"SubTree"} /\ (j.children = <<>> \/ Len(j.children[1]) # 1)
         -> "not one child"
    [] OTHER -> ""

\* What is thrown first is what comes of the parts.
FirstOf(parts, whole) ==
  LET bad == SelectSeq(parts, LAMBDA p : p.error # "") IN IF bad = <<>> THEN whole ELSE Head(bad)
NodesOf(parts) == [i \in DOMAIN parts |-> parts[i].node]

RECURSIVE buildNode(_, _, _), buildFromJson(_, _, _)
buildFromJson(tree, trees, room) ==
  IF tree.root = <<>> THEN Thrown("no root")
  ELSE LET built == buildNode(tree.root[1], trees, room)
       IN IF built.error # "" THEN built
          ELSE Built(visit_nodes(built.node, 1 + Height(built.node)))

buildNode(j, trees, room) ==
  IF Refused(j) # "" THEN Thrown(Refused(j))
  ELSE
    LET name == Called(j)
        children == IF name \in Actions \cup {"SubTree"} THEN <<>>
                    ELSE [i \in DOMAIN j.children[1] |-> buildNode(j.children[1][i], trees, room)]
        inline == IF name = "SubTree"
                  THEN [i \in DOMAIN j.subtree |-> buildFromJson(j.subtree[i], trees, room)] ELSE <<>>
        ports == IF \E v \in Provided(name, j.ports) : Misfit(name, v) THEN Thrown("not an integer")
                 ELSE Built(Nothing)
        data == Data(name, j.ports)
        refers == name = "SubTree" /\ inline = <<>> /\ Referred(data) # 0
        registered ==
          IF ~refers THEN <<>>
          ELSE <<IF Referred(data) \notin DOMAIN trees THEN Thrown("tree not found")
                 ELSE IF room = 0 THEN Thrown("overflow")
                 ELSE buildFromJson(trees[Referred(data)], trees, room - 1)>>
        made == FirstOf(children \o inline \o <<ports>>, Built(Nothing))
    IN IF made.error # "" THEN made
       ELSE FirstOf(registered,
              Built(Node(name, data, NodesOf(children), NodesOf(inline \o registered))))

buildFromRegisteredTree(name, trees) ==
  IF name \notin DOMAIN trees THEN Thrown("tree not found")
  ELSE buildFromJson(trees[name], trees, Stack)

-----------------------------------------------------------------------------
(* Registering: a file's tree is known by the file's name and by its own.   *)

RegisterTree(name, tree, trees) ==
  (IF tree.name = 0 THEN <<>> ELSE tree.name :> tree) @@ (name :> tree) @@ trees

LoadTreeFile(file, trees) ==
  IF file.tree = <<>> \/ file.tree[1].root = <<>> THEN trees
  ELSE RegisterTree(file.stem, file.tree[1], trees)

\* The files in their order, up to the first that is none, of which the caller hears.
Sound(file) == file.tree # <<>> /\ file.tree[1].root # <<>>
Loaded(files) ==
  LET stops == {i \in DOMAIN files : ~Sound(files[i])}
      last == IF stops = {} THEN Len(files) ELSE (CHOOSE i \in stops : \A k \in stops : i <= k) - 1
  IN SubSeq(files, 1, last)
LoadTreesFromDirectory(files) ==
  FoldLeft(LAMBDA trees, file : LoadTreeFile(file, trees), <<>>, Loaded(files))

-----------------------------------------------------------------------------
(* Dumping                                                                  *)

Shown(v) ==
  Value(v.port, IF v.kind \in DOMAIN Bits THEN "integer" ELSE IF v.kind = "double" THEN "real" ELSE v.kind,
        v.of)
RECURSIVE dump_tree_node(_)
dump_tree_node(node) ==
  Doc(node.name,
      IF node.children = <<>> THEN <<>>
      ELSE <<[i \in DOMAIN node.children |-> dump_tree_node(node.children[i])]>>,
      {Shown(v) : v \in node.data}, <<>>)
dumpTree(name, root) == Tree(name, <<dump_tree_node(root)>>)

-----------------------------------------------------------------------------
(* Properties, of a document and the trees that are registered              *)

\* The nodes of a document, and of a tree, that the builder gets to if nothing is thrown.
RECURSIVE Documented(_), Nodes(_)
Documented(j) ==
  LET parts == IF ~j.object \/ Called(j) \in Actions THEN <<>>
               ELSE IF Called(j) = "SubTree" THEN FlattenSeq([i \in DOMAIN j.subtree |-> j.subtree[i].root])
               ELSE FlattenSeq(j.children)
  IN {j} \cup UNION {Documented(parts[i]) : i \in DOMAIN parts}
Nodes(node) ==
  LET parts == node.children \o node.subtree
  IN {node} \cup UNION {Nodes(parts[i]) : i \in DOMAIN parts}

NodesIn(tree) == IF tree.root = <<>> THEN {} ELSE Documented(tree.root[1])
References(tree) ==
  {Referred(Data("SubTree", j.ports)) :
     j \in {k \in NodesIn(tree) : k.object /\ Called(k) = "SubTree" /\ k.subtree = <<>>}} \ {0}
Reached(names, trees) ==
  FoldLeft(LAMBDA S, i : S \cup UNION {References(trees[n]) : n \in S \cap DOMAIN trees},
           names, [i \in 1..Cardinality(DOMAIN trees) |-> i])

WellFormed(tree) ==
  /\ tree.root # <<>>
  /\ \A j \in NodesIn(tree) :
       /\ Refused(j) = "" /\ \A v \in Provided(Called(j), j.ports) : ~Misfit(Called(j), v)
       /\ Called(j) = "SubTree" => \A i \in DOMAIN j.subtree : j.subtree[i].root # <<>>
Cyclic(names, trees) ==
  \E n \in names \cap DOMAIN trees : n \in Reached(References(trees[n]), trees)

\* A tree is built exactly if its document, and those of all the trees it refers to,
\* are well formed and known, and no tree contains itself, which overflows the stack.
BuildsWellFormed(tree, trees, built) ==
  LET names == Reached(References(tree), trees)
  IN /\ (built.error = "") <=>
          /\ WellFormed(tree) /\ names \subseteq DOMAIN trees
          /\ \A n \in names : WellFormed(trees[n])
          /\ ~Cyclic(names, trees)
     /\ built.error = "overflow" => Cyclic(names, trees)

\* Every node hears the events of the tree that is ticked, however deep it is.
OneTree(built) ==
  built.error = "" => \A n \in Nodes(built.node) : n.tree = built.node.tree

\* What was dumped is built again, unless a subtree was given in its place or a composite
\* has no children.
DumpRebuilds(tree, trees, built) ==
  LET dumped == dumpTree(tree.name, built.node)
      faithful == \A j \in NodesIn(tree) : j.subtree = <<>> /\ j.children # <<<<>>>>
      inner == \A n \in Reached(References(tree), trees) :
                 \A j \in NodesIn(trees[n]) : j.subtree = <<>> /\ j.children # <<<<>>>>
  IN (built.error = "" /\ faithful /\ inner) => buildFromJson(dumped, trees, Stack) = built

\* A name stands for the last file that claims it, by its own name or its tree's.
NamesFound(files, trees) ==
  \A n \in UNION {{f.stem} \cup {t.name : t \in ToSet(f.tree)} : f \in ToSet(files)} \ {0} :
    LET claims == {i \in DOMAIN Loaded(files) : n \in {files[i].stem, files[i].tree[1].name}}
    IN IF claims = {} THEN buildFromRegisteredTree(n, trees).error = "tree not found"
       ELSE /\ n \in DOMAIN trees
            /\ trees[n] = files[CHOOSE i \in claims : \A k \in claims : k <= i].tree[1]

\* A document over the trees of some files.
TreesMean(tree, files, trees, built) ==
  /\ BuildsWellFormed(tree, trees, built) /\ OneTree(built)
  /\ DumpRebuilds(tree, trees, built) /\ NamesFound(files, trees)
=============================================================================
