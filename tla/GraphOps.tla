------------------------------ MODULE GraphOps ------------------------------
(***************************************************************************)
(* The Graph class of buildscripts/gdb/mongo_lock.py as operators on a     *)
(* graph value.                                                            *)
(*                                                                         *)
(* The Python object keeps one dict                                        *)
(*     {node_key: {'node': node, 'next_nodes': [node_key, ...]}}           *)
(* whose iteration order is its insertion order.  A graph value here is    *)
(*     [order |-> <<key, ...>>,            the dict's keys in that order   *)
(*      entry |-> [key |-> [node |-> n, next_nodes |-> <<key, ...>>]]]     *)
(* A node n is anything with a stable key n.key and a description n.str:  *)
(* Thread.key()/Thread.__str__ and Lock.key()/Lock.__str__ in the code.    *)
(* Every method that rebuilds or mutates the dict is an operator that      *)
(* returns the new graph value; queries return what the method returns.    *)
(***************************************************************************)
EXTENDS Naturals, Sequences, SequencesExt, TLC

\* Graph.__init__: an empty dict.
EmptyGraph == [order |-> <<>>, entry |-> <<>>]

\* Graph.is_empty.
IsEmpty(g) == g.order = <<>>

\* Graph.find_node: the entry registered under n's key, if any.
FindNode(g, n) == n.key \in DOMAIN g.entry

\* Graph.add_node: register n under its key unless the key is present; a
\* node already seen keeps the representation it was first registered with.
AddNode(g, n) ==
    IF FindNode(g, n) THEN g
    ELSE [order |-> Append(g.order, n.key),
          entry |-> (n.key :> [node |-> n, next_nodes |-> <<>>]) @@ g.entry]

\* Graph.find_from_node: is there any node with an edge to key k?  The
\* method returns the first such entry; its only caller tests for None.
FindFromNode(g, k) ==
    \E k2 \in DOMAIN g.entry : Contains(g.entry[k2].next_nodes, k)

\* Mutant: only nodes with an incoming edge are kept.
RemoveNodesWithoutEdgeIncomingOnly(g) ==
    LET kept == {k \in DOMAIN g.entry : FindFromNode(g, k)}
    IN  [order |-> SelectSeq(g.order, LAMBDA k : k \in kept),
         entry |-> [k \in kept |-> g.entry[k]]]

\* Graph.remove_nodes_without_edge: one pass over the old dict builds a new
\* one holding, in the old order, the nodes with an outgoing edge or an
\* incoming edge (find_from_node is asked of the old dict).
RemoveNodesWithoutEdge(g) ==
    LET Keep(k) == g.entry[k].next_nodes # <<>> \/ FindFromNode(g, k)
        kept    == {k \in DOMAIN g.entry : Keep(k)}
    IN  [order |-> SelectSeq(g.order, Keep),
         entry |-> [k \in kept |-> g.entry[k]]]

\* Mutant: add_edge without the duplicate check.
AddEdgeAlwaysAppend(g, from, to) ==
    LET g1 == AddNode(AddNode(g, from), to)
    IN  [g1 EXCEPT !.entry[from.key].next_nodes = Append(@, to.key)]

\* Mutant: the node object is appended to next_nodes instead of its key.
AddEdgeAppendsNode(g, from, to) ==
    LET g1 == AddNode(AddNode(g, from), to)
    IN  IF Contains(g1.entry[from.key].next_nodes, to.key) THEN g1
        ELSE [g1 EXCEPT !.entry[from.key].next_nodes = Append(@, to)]

\* Graph.add_edge: register both endpoints (from first), then append to's
\* key to from's next_nodes unless it is already there.
AddEdge(g, from, to) ==
    LET g1 == AddNode(AddNode(g, from), to)
    IN  IF Contains(g1.entry[from.key].next_nodes, to.key) THEN g1
        ELSE [g1 EXCEPT !.entry[from.key].next_nodes = Append(@, to.key)]

\* The edges of g, as a set of key pairs.
EdgeSet(g) ==
    {<<k, k2>> \in (DOMAIN g.entry) \X (DOMAIN g.entry) :
        Contains(g.entry[k].next_nodes, k2)}

-----------------------------------------------------------------------------
(***************************************************************************)
(* Graph.depth_first_search and Graph.detect_cycle.  The Python recursion  *)
(* shares one visited set and one path list (nodes_in_cycle) between the   *)
(* calls; a call that finds no cycle pops its own key, so the path after   *)
(* it is the path before it.  Each call here therefore takes the path as   *)
(* a parameter and returns the grown visited set and the cycle found, or   *)
(* <<>> for None.  VisitNext is the for loop over next_nodes.              *)
(***************************************************************************)
RECURSIVE DepthFirstSearch(_, _, _, _), VisitNext(_, _, _, _)

\* Mutant: the whole path is returned, not the slice from the repeated node.
VisitNextWholePath(g, succ, visited, path) ==
    LET n == Head(succ) IN
    CASE succ = <<>> -> [visited |-> visited, cycle |-> <<>>]
      [] Contains(path, n) -> [visited |-> visited, cycle |-> path]
      [] n \notin visited ->
            LET r == DepthFirstSearch(g, n, visited, path)
            IN  IF r.cycle # <<>> THEN r
                ELSE VisitNext(g, Tail(succ), r.visited, path)
      [] OTHER -> VisitNext(g, Tail(succ), visited, path)

\* Mutant: the visited test is made before the path test.
VisitNextVisitedFirst(g, succ, visited, path) ==
    LET n == Head(succ) IN
    CASE succ = <<>> -> [visited |-> visited, cycle |-> <<>>]
      [] n \in visited -> VisitNext(g, Tail(succ), visited, path)
      [] Contains(path, n) ->
            [visited |-> visited,
             cycle   |-> SubSeq(path, SelectInSeq(path, LAMBDA x : x = n),
                                Len(path))]
      [] OTHER ->
            LET r == DepthFirstSearch(g, n, visited, path)
            IN  IF r.cycle # <<>> THEN r
                ELSE VisitNext(g, Tail(succ), r.visited, path)

VisitNext(g, succ, visited, path) ==
    LET n == Head(succ) IN
    CASE succ = <<>> ->
            [visited |-> visited, cycle |-> <<>>]
      [] Contains(path, n) ->
            \* nodes_in_cycle[nodes_in_cycle.index(node):]
            [visited |-> visited,
             cycle   |-> SubSeq(path, SelectInSeq(path, LAMBDA x : x = n),
                                Len(path))]
      [] n \notin visited ->
            LET r == DepthFirstSearch(g, n, visited, path)
            IN  IF r.cycle # <<>> THEN r
                ELSE VisitNext(g, Tail(succ), r.visited, path)
      [] OTHER ->
            VisitNext(g, Tail(succ), visited, path)

DepthFirstSearch(g, k, visited, path) ==
    VisitNext(g, g.entry[k].next_nodes, visited \cup {k}, Append(path, k))

\* The loop of detect_cycle over the dict's keys in order, skipping visited
\* ones: the keys of the first cycle found, or <<>>.
RECURSIVE DetectFrom(_, _, _)
DetectFrom(g, roots, visited) ==
    IF roots = <<>> THEN <<>>
    ELSE IF Head(roots) \in visited THEN DetectFrom(g, Tail(roots), visited)
    ELSE LET r == DepthFirstSearch(g, Head(roots), visited, <<>>)
         IN  IF r.cycle # <<>> THEN r.cycle
             ELSE DetectFrom(g, Tail(roots), r.visited)

CycleKeys(g) == DetectFrom(g, g.order, {})

\* Graph.detect_cycle returns the cycle as the str() of each node.
DetectCycle(g) ==
    LET c == CycleKeys(g) IN [i \in 1..Len(c) |-> g.entry[c[i]].node.str]

-----------------------------------------------------------------------------
\* Graph.to_graph(nodes, message), without the fixed legend and the dot
\* syntax: the message line, the edges in dict order, and one label line
\* per node, red when its key is in the list `nodes` (a falsy `nodes`, None
\* or [], highlights nothing).
ToGraph(g, nodes, message) ==
    [message |-> message,
     edges   |-> FlattenSeq([i \in 1..Len(g.order) |->
                    LET k == g.order[i] IN
                    [j \in 1..Len(g.entry[k].next_nodes) |->
                        <<k, g.entry[k].next_nodes[j]>>]]),
     labels  |-> [i \in 1..Len(g.order) |->
                    [key   |-> g.order[i],
                     label |-> g.entry[g.order[i]].node.str,
                     red   |-> nodes # <<>> /\ Contains(nodes, g.order[i])]]]
=============================================================================
