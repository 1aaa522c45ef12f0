----------------------------- MODULE PlanGraph ------------------------------
(***************************************************************************)
(* Task graphs on their way from the planner to the workflow: the shape    *)
(* the planner's model accepts (task_graph.py), and what the runtime makes *)
(* of it, start nodes, edges and levels (normalize_graph in                *)
(* dag_workflow.py).                                                       *)
(*                                                                         *)
(* A graph is a record:                                                    *)
(*   nodes    a sequence of [id, deps, work, agent, key, own, timed]:      *)
(*            deps a set of ids, work whether the operation is             *)
(*            "agent_task", agent whether there is an agent block, key and *)
(*            own its agent_key and agent_id, timed whether                *)
(*            timeout_seconds is given                                     *)
(*   edges    a sequence of pairs <<from, to>>                             *)
(*   start    the configured start nodes, <<>> if there are none           *)
(*   limited  whether max_total_visits is given                            *)
(*   input    the credentials in graph.input                               *)
(***************************************************************************)
EXTENDS Integers, Sequences, FiniteSets, SequencesExt

CONSTANT Blank    \* the empty string, and a value that is not given

IsGraph(g) ==
  /\ g.nodes \in Seq(ToSet(g.nodes))
  /\ g.edges \in Seq(ToSet(g.edges)) /\ \A e \in ToSet(g.edges) : e = <<e[1], e[2]>>
  /\ g.start \in Seq(ToSet(g.start))

Ids(g) == {node.id : node \in ToSet(g.nodes)}
-----------------------------------------------------------------------------
(* TaskGraph.validate_graph_shape                                          *)

IsTaskGraph(g) ==
  /\ g.nodes # <<>>
  /\ Cardinality(Ids(g)) = Len(g.nodes)
  /\ \A e \in ToSet(g.edges) : {e[1], e[2]} \subseteq Ids(g)
  /\ ToSet(g.start) \subseteq Ids(g)
-----------------------------------------------------------------------------
(* normalize_graph                                                         *)

Explicit(g) == g.edges # <<>>

\* _normalize_edges: without edges, the dependencies are the edges.
DepEdges(g) == UNION {{<<d, node.id>> : d \in node.deps} : node \in ToSet(g.nodes)}

Edges(g) == IF Explicit(g) THEN ToSet(g.edges) ELSE DepEdges(g)

\* _start_nodes
Starts(g) ==
  LET entries == Ids(g) \ {e[2] : e \in Edges(g)}
  IN IF g.start # <<>> THEN ToSet(g.start)
     ELSE IF entries # {} THEN entries
     ELSE {g.nodes[1].id}

Before(edges, n) == {e[1] : e \in {x \in edges : x[2] = n}}

\* Faulty variant: a node is ready as soon as one of its predecessors is completed.
CompletedByAny(ids, edges) ==
  LET done[k \in 0 .. Cardinality(ids)] ==
        IF k = 0 THEN {}
        ELSE done[k - 1] \union
               {n \in ids : Before(edges, n) = {} \/ Before(edges, n) \cap done[k - 1] # {}}
  IN done

\* The loop of _assert_acyclic and _build_levels_from_edges: completed after k rounds.
Completed(ids, edges) ==
  LET done[k \in 0 .. Cardinality(ids)] ==
        IF k = 0 THEN {}
        ELSE done[k - 1] \union {n \in ids : Before(edges, n) \subseteq done[k - 1]}
  IN done

AllCompleted(g) == Completed(Ids(g), Edges(g))[Cardinality(Ids(g))] = Ids(g)

\* No exception of normalize_graph, for a graph that passed IsTaskGraph.
Normalizes(g) ==
  /\ Blank \notin Ids(g)
  /\ \A node \in ToSet(g.nodes) : node.deps \subseteq Ids(g)
  /\ ~Explicit(g) => AllCompleted(g)

\* One step of the walk of _layout_levels through a cyclic graph.  The start nodes are first
\* in the queue (their order is left open), then come the targets of each visited node in the
\* order of its edges; what was seen meanwhile is skipped.
Visit(g, order) ==
  LET unseen == Ids(g) \ ToSet(order)
      Onward(p) == {e \in DOMAIN g.edges : g.edges[e][1] = order[p] /\ g.edges[e][2] \in unseen}
      open == {p \in DOMAIN order : Onward(p) # {}}
  IN IF Starts(g) \cap unseen # {} THEN Append(order, CHOOSE n \in Starts(g) \cap unseen : TRUE)
     ELSE IF open # {} THEN Append(order, g.edges[Min(Onward(Min(open)))][2])
     ELSE order

Walk(g) ==
  LET walk[k \in 0 .. Len(g.nodes)] == IF k = 0 THEN <<>> ELSE Visit(g, walk[k - 1])
  IN walk[Len(g.nodes)]

\* The nodes that no start node reaches follow, in the order of the graph.
AddLeft(g, order) ==
  LET left == {k \in DOMAIN g.nodes : g.nodes[k].id \notin ToSet(order)}
  IN IF left = {} THEN order ELSE Append(order, g.nodes[Min(left)].id)

Order(g) ==
  LET order[k \in 0 .. Len(g.nodes)] == IF k = 0 THEN Walk(g) ELSE AddLeft(g, order[k - 1])
  IN order[Len(g.nodes)]

\* _layout_levels: what is completed in each round, or, in a cyclic graph, one node per level.
Levels(g) ==
  LET done == Completed(Ids(g), Edges(g))
      depth == Min({k \in 0 .. Cardinality(Ids(g)) : done[k] = Ids(g)})
  IN IF AllCompleted(g) THEN [k \in 1 .. depth |-> done[k] \ done[k - 1]]
     ELSE [k \in DOMAIN Order(g) |-> {Order(g)[k]}]
=============================================================================
