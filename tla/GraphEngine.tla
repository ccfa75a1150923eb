----------------------------- MODULE GraphEngine -----------------------------
(***************************************************************************)
(* The Graph class of mongo_lock.py driven by every sequence of calls of   *)
(* its mutating methods (add_node, add_edge, remove_nodes_without_edge)    *)
(* over a few nodes, so that its queries (detect_cycle, find_from_node,    *)
(* to_graph) are checked on every graph those calls can build, in every   *)
(* insertion order.                                                        *)
(***************************************************************************)
EXTENDS GraphOps, FiniteSets

CONSTANTS
    Keys,       \* node keys ("Thread 0x..." / "Lock 0x...")
    MaxEdges    \* bound on the number of edges in the graph

ASSUME MaxEdges \in Nat

VARIABLE graph

\* One node per key; its description differs from its key, as str() of a
\* Thread or Lock differs from its key().
Nodes == {[key |-> k, str |-> <<"str", k>>] : k \in Keys}

Init == graph = EmptyGraph

\* graph.add_node(n)
AddNodeStep(n) == graph' = AddNode(graph, n)

\* graph.add_edge(f, t); the bound keeps the graph finite.
AddEdgeStep(f, t) ==
    /\ Cardinality(EdgeSet(graph)) < MaxEdges
    /\ graph' = AddEdge(graph, f, t)

\* graph.remove_nodes_without_edge()
RemoveStep == graph' = RemoveNodesWithoutEdge(graph)

Next ==
    \/ \E n \in Nodes : AddNodeStep(n)
    \/ \E f, t \in Nodes : AddEdgeStep(f, t)
    \/ RemoveStep

Spec == Init /\ [][Next]_graph

-----------------------------------------------------------------------------
(* Reference definitions, independent of the code's algorithm. *)

\* k2 is reachable from k by one or more edges.
RECURSIVE ReachableFrom(_, _, _)
ReachableFrom(g, frontier, seen) ==
    LET succ == {k2 \in DOMAIN g.entry :
                    \E k \in frontier : <<k, k2>> \in EdgeSet(g)} \ seen
    IN  IF succ = {} THEN seen ELSE ReachableFrom(g, succ, seen \cup succ)

Reaches(g, k, k2) == k2 \in ReachableFrom(g, {k}, {})

HasCycleRef(g) == \E k \in DOMAIN g.entry : Reaches(g, k, k)

\* c is a cycle of g: non-empty, no key twice, and an edge from each key
\* to the next one, the last to the first.
IsSimpleCycle(g, c) ==
    /\ c # <<>>
    /\ \A i, j \in 1..Len(c) : c[i] = c[j] => i = j
    /\ \A i \in 1..Len(c) : <<c[i], c[(i % Len(c)) + 1]>> \in EdgeSet(g)

-----------------------------------------------------------------------------
TypeOK ==
    /\ graph.order \in Seq(Keys)
    /\ DOMAIN graph.entry = ToSet(graph.order)
    /\ Len(graph.order) = Cardinality(ToSet(graph.order))
    /\ \A k \in DOMAIN graph.entry :
          /\ graph.entry[k].node \in Nodes
          /\ graph.entry[k].node.key = k
          /\ graph.entry[k].next_nodes \in Seq(Keys)

\* Whatever sequence of add_node, add_edge and remove_nodes_without_edge
\* built the graph, every key in a next_nodes list is a registered node
\* (detect_cycle indexes self.nodes by it) and no list holds a key twice
\* (add_edge is idempotent).
WellFormed ==
    \A k \in DOMAIN graph.entry :
        LET nx == graph.entry[k].next_nodes IN
        /\ ToSet(nx) \subseteq DOMAIN graph.entry
        /\ Len(nx) = Cardinality(ToSet(nx))

\* detect_cycle returns a real cycle of the graph, each node once,
\* whichever root and edge order the depth-first search meets first.
CycleIsReal ==
    CycleKeys(graph) # <<>> => IsSimpleCycle(graph, CycleKeys(graph))

\* detect_cycle returns None only when the graph has no cycle at all.
NoMissedCycle ==
    HasCycleRef(graph) => CycleKeys(graph) # <<>>

\* remove_nodes_without_edge drops exactly the nodes that had no edge in or
\* out, keeps the survivors in their order, and drops no edge.
PruneExact ==
    [][RemoveStep =>
        /\ EdgeSet(graph') = EdgeSet(graph)
        /\ \A k \in DOMAIN graph.entry :
              (k \in DOMAIN graph'.entry) <=>
                 \E e \in EdgeSet(graph) : k = e[1] \/ k = e[2]]_graph
=============================================================================
