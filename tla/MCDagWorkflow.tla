---------------------------- MODULE MCDagWorkflow ----------------------------
(***************************************************************************)
(* Small graphs for TLC.  Node ids are strings; sorted order is the order  *)
(* of the sequence given to RankOf.  Each graph lists its edges by index.  *)
(***************************************************************************)
EXTENDS DagWorkflow, DagWorkflowProperties, Sequences

RankOf(order) == [n \in {order[k] : k \in DOMAIN order} |->
                    CHOOSE k \in DOMAIN order : order[k] = n]
EndOf(edges, k) == [e \in DOMAIN edges |-> edges[e][k]]

(***************************************************************************)
(* Review loop: task_graph_json_format.md, "真实 Agent 评审驱动循环".         *)
(***************************************************************************)
LoopOrder == <<"final", "intake", "plan", "review">>
LoopNode == {"final", "intake", "plan", "review"}
LoopEdges == <<<<"intake", "plan", "always">>,
               <<"plan", "review", "always">>,
               <<"review", "plan", "expr">>,
               <<"review", "final", "expr">>>>
LoopJoin == [n \in LoopNode |-> IF n \in {"plan", "review"} THEN "any" ELSE "unset"]
LoopVisits == [n \in LoopNode |-> IF n \in {"plan", "review"} THEN 3 ELSE 1]
LoopMode == [n \in LoopNode |-> IF n \in {"plan", "review"} THEN "callback" ELSE "local"]

(***************************************************************************)
(* Fork and join: intake starts two agents, one of each completion mode,   *)
(* and package waits for both (task_graph_json_format.md, "并行任务后汇总"). *)
(* The architecture agent may be asked for more drafts, and the audit      *)
(* agent takes each draft as it comes: the second arrival may find it      *)
(* idle, running or finished, and may be one visit too many.               *)
(***************************************************************************)
ForkOrder == <<"architecture", "audit", "intake", "package", "product">>
ForkNode == {"architecture", "audit", "intake", "package", "product"}
ForkEdges == <<<<"intake", "product", "always">>,
               <<"intake", "architecture", "always">>,
               <<"product", "package", "always">>,
               <<"architecture", "package", "expr">>,
               <<"architecture", "package", "expr">>,
               <<"architecture", "architecture", "expr">>,
               <<"package", "intake", "false">>,
               <<"product", "audit", "always">>,
               <<"architecture", "audit", "expr">>>>
ForkJoin == [n \in ForkNode |-> IF n = "package" THEN "all" ELSE "any"]
ForkVisits == [n \in ForkNode |-> IF n \in {"architecture", "audit", "package"} THEN 2 ELSE 1]
ForkMode == [n \in ForkNode |->
               CASE n \in {"audit", "product"} -> "callback"
                 [] n = "architecture" -> "polling"
                 [] OTHER -> "local"]

LoopRank == RankOf(LoopOrder)
LoopEdge == DOMAIN LoopEdges
LoopFrom == EndOf(LoopEdges, 1)
LoopTo == EndOf(LoopEdges, 2)
LoopWhen == EndOf(LoopEdges, 3)

ForkRank == RankOf(ForkOrder)
ForkEdge == DOMAIN ForkEdges
ForkFrom == EndOf(ForkEdges, 1)
ForkTo == EndOf(ForkEdges, 2)
ForkWhen == EndOf(ForkEdges, 3)
=============================================================================
