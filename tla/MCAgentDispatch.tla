--------------------------- MODULE MCAgentDispatch ---------------------------
(***************************************************************************)
(* Instances of AgentDispatch for TLC.  A task shares nothing with another *)
(* but the network and the crashes of the worker, which are free to happen *)
(* at any time; so one task, with every backend, shows what a task can do. *)
(***************************************************************************)
EXTENDS AgentDispatchProperties

CONSTANT node
OneTask == {node}
=============================================================================
