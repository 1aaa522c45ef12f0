---------------------------- MODULE MCMaosEgress ----------------------------
(***************************************************************************)
(* An instance of MaosEgress for TLC: a node that may be visited twice and *)
(* one that is visited once, which may answer in the same words.           *)
(***************************************************************************)
EXTENDS MaosEgressProperties

CONSTANTS plan, build
TwoNodes == {plan, build}
Visits == [n \in TwoNodes |-> IF n = plan THEN 2 ELSE 1]

\* Two answers that are published, one that is not although its node completes, and a
\* node that is done without a word.
FourAnswers ==
  {[status |-> "done", text |-> "hi"], [status |-> "", text |-> "ready"],
   [status |-> "in_review", text |-> "hi"], [status |-> "done", text |-> "none"]}
=============================================================================
