------------------------------ MODULE GraphRun ------------------------------
(***************************************************************************)
(* What a run of a control-flow graph promises to whoever reads its log of *)
(* instances and its final status.                                         *)
(*                                                                         *)
(* The visits of a node happen one after the other, each after the one     *)
(* before it completed.  Every instance gets one verdict.  No more than    *)
(* MaxTotal instances begin, and none after a failure.  The run closes     *)
(* once, when no instance is live, as "completed" only if none has failed. *)
(***************************************************************************)
EXTENDS Integers, FiniteSets

CONSTANTS Node, MaxVisits, MaxTotal

VARIABLES
  log,     \* log[i]: what is known of instance i
  status   \* "open", or the status the run closed with

Instance == UNION {{n} \X (1..MaxVisits[n]) : n \in Node}
Verdict == {"completed", "failed"}
LogState == {"absent", "live"} \union Verdict

Init == log = [i \in Instance |-> "absent"] /\ status = "open"

\* Instance i may begin: the visit before it completed and nothing has failed.
MayBegin(i) ==
  /\ i[2] > 1 => log[<<i[1], i[2] - 1>>] = "completed"
  /\ \A j \in Instance : log[j] # "failed"

\* An instance stays as it is, begins, or gets its verdict; one that runs
\* without waiting is completed as soon as it begins.
Moves(i) ==
  \/ log'[i] = log[i]
  \/ log[i] = "absent" /\ MayBegin(i) /\ log'[i] \in {"live", "completed"}
  \/ log[i] = "live" /\ log'[i] \in Verdict

MayClose(verdict) ==
  /\ \A i \in Instance : log'[i] # "live"
  /\ verdict = "completed" => \A i \in Instance : log'[i] # "failed"

\* Any number of instances move, and the run may close.
Step ==
  /\ status = "open"
  /\ log' \in [Instance -> LogState]
  /\ \A i \in Instance : Moves(i)
  /\ Cardinality({i \in Instance : log'[i] # "absent"}) <= MaxTotal
  /\ \/ status' = "open"
     \/ status' \in Verdict /\ MayClose(status')

Spec == Init /\ [][Step]_<<log, status>>
=============================================================================
