--------------------------- MODULE PlanSubmission ---------------------------
(***************************************************************************)
(* From a message to a running plan: whether it asks for work              *)
(* (intent_classifier.py), the planner's attempts at a task graph          *)
(* (planner.py), and the submission of the graph (handler.py,              *)
(* maos_executor.py, sandbox_runtime.py).                                  *)
(*                                                                         *)
(* A plan may bring credentials for the job service.  They go with its     *)
(* requests, and while it is submitted they also stand in the process      *)
(* environment, which the requests of other runs fall back on.  Two        *)
(* threads take part: the consumer's, which handles one message at a time, *)
(* and the loop of the task service, which starts workflows and sends the  *)
(* requests of the runs (a2a_runtime.py) one at a time.                    *)
(***************************************************************************)
EXTENDS PlanBots

CONSTANTS
  Settings,      \* environments the process may be started with
  Proposal,      \* graphs the language model may answer with
  NoMessage, NoGraph,
  MaxMessages    \* bound

Environment == [token : Token \union {Blank}, workspace : Name \union {Blank},
                slug : Name \union {Blank}]

ASSUME SubmissionAssumption ==
  /\ Settings \subseteq Environment
  /\ NoGraph \notin Proposal
  /\ \A g \in Proposal : IsGraph(g) /\ g.input \in Auth /\ g.limited \in BOOLEAN
  /\ MaxMessages \in Nat

VARIABLES
  \* The consumer's thread.
  step,        \* where handle is; "idle" between messages
  message, bots, attempt, graph,
  saved,       \* what multica_job_env_from_graph took out of the environment
  handled,     \* messages taken
  \* Shared: the credentials in os.environ.
  settings,    \* as the process was started; does not change
  env,
  \* The loop of the task service.
  runs,        \* workflows, in the order of their start
  sending,     \* the request whose headers are being put together
  request      \* the latest request

hand == <<message, bots, attempt, graph, saved, handled>>
loop == <<runs, sending, request>>
vars == <<step, hand, settings, env, loop>>

NoAuth == [token |-> Blank, workspace |-> Blank]
NoRequest == [run |-> 0]

JobState == {"none", "working", "failed"}

Init ==
  /\ step = "idle" /\ message = NoMessage /\ bots = <<>> /\ attempt = 0 /\ graph = NoGraph
  /\ saved = NoAuth /\ handled = 0
  /\ settings \in Settings /\ env = settings
  /\ runs = <<>> /\ sending = NoRequest /\ request = NoRequest
-----------------------------------------------------------------------------
(* MessageHandler.handle, up to the plan.                                  *)

\* Back to the consumer, by a return or an exception.
Leave ==
  /\ step' = "idle" /\ message' = NoMessage /\ bots' = <<>> /\ attempt' = 0 /\ graph' = NoGraph
  /\ UNCHANGED <<saved, handled>>

Receive(m, answer) ==
  /\ step = "idle" /\ handled < MaxMessages
  /\ handled' = handled + 1
  /\ IF IsDirect(m, OwnedBots(m, answer))
     THEN UNCHANGED <<step, message, bots>>    \* to DirectChat
     ELSE step' = "intent" /\ message' = m /\ bots' = OwnedBots(m, answer)
  /\ UNCHANGED <<attempt, graph, saved, settings, env, loop>>

GoOn(to) == step' = to /\ attempt' = 0 /\ UNCHANGED <<message, bots, graph, saved, handled>>

\* Faulty variant: the last attempt is followed by the first.
TryForever(limit) ==
  attempt' = (attempt + 1) % limit /\ UNCHANGED <<step, message, bots, graph, saved, handled>>

TryAgain(limit) ==
  IF attempt + 1 < limit
  THEN attempt' = attempt + 1 /\ UNCHANGED <<step, message, bots, graph, saved, handled>>
  ELSE Leave

\* TaskIntentClassifier.classify: at most two answers; an error of the model is not retried.
Classify ==
  /\ step = "intent"
  /\ \/ IF bots # <<>> /\ MayPlan(message, bots) THEN GoOn("plan") ELSE Leave
     \/ TryAgain(2)                            \* not readable
     \/ Leave                                  \* no task, or the model fails
  /\ UNCHANGED <<settings, env, loop>>

Accepts(g) == IsTaskGraph(g) /\ FitsRequest(g, message, bots)

\* Planner.plan: at most three answers.
Propose(g) ==
  /\ step = "plan"
  /\ IF Accepts(g)
     THEN graph' = g /\ step' = "token" /\ attempt' = 0 /\ UNCHANGED <<message, bots, saved, handled>>
     ELSE TryAgain(3)
  /\ UNCHANGED <<settings, env, loop>>

PlanFails ==
  /\ step = "plan"
  /\ TryAgain(3) \/ Leave                      \* not readable, or the model fails
  /\ UNCHANGED <<settings, env, loop>>
-----------------------------------------------------------------------------
(* MaosExecutor.submit_plan.                                               *)

Submitting == {"workspace", "submit", "untoken", "unworkspace"}

Overriding == step \in Submitting /\ Input(message, graph) # NoAuth

\* The environment changes while a request's headers are put together.
Crossed == IF sending = NoRequest THEN sending ELSE [sending EXCEPT !.crossed = TRUE]

SetEnv(key, value) ==
  /\ env' = [env EXCEPT ![key] = value]
  /\ sending' = Crossed

\* multica_job_env_from_graph, on entry.
SetToken ==
  LET token == Input(message, graph).token IN
  /\ step = "token" /\ step' = "workspace"
  /\ saved' = [saved EXCEPT !.token = env.token]
  /\ IF token # Blank THEN SetEnv("token", token) ELSE UNCHANGED <<env, sending>>
  /\ UNCHANGED <<message, bots, attempt, graph, handled, settings, runs, request>>

SetWorkspace ==
  LET workspace == Input(message, graph).workspace IN
  /\ step = "workspace" /\ step' = "submit"
  /\ saved' = [saved EXCEPT !.workspace = env.workspace]
  /\ IF workspace # Blank
     THEN env' = [env EXCEPT !.workspace = workspace, !.slug = Blank] /\ sending' = Crossed
     ELSE UNCHANGED <<env, sending>>
  /\ UNCHANGED <<message, bots, attempt, graph, handled, settings, runs, request>>

NewRun ==
  [message |-> message, input |-> Input(message, graph), limited |-> graph.limited,
   status |-> "started", bot |-> AnsweringBot(graph, bots),
   work |-> [job \in Jobs(graph, bots) |-> "none"]]

\* submit_batch: a graph that does not normalise is refused; start_workflow runs in the
\* loop of the task service, once it is free, and may fail.
Submit ==
  /\ step = "submit" /\ step' = "untoken"
  /\ Normalizes(graph) => sending = NoRequest
  /\ \/ Normalizes(graph) /\ runs' = Append(runs, NewRun)
     \/ UNCHANGED runs
  /\ UNCHANGED <<hand, settings, env, sending, request>>

\* Faulty variant: a variable that was not set before is not removed again.
NotRemoved(key) == First(saved[key], env[key])

Restored(key) == saved[key]

\* multica_job_env_from_graph, on exit.
RestoreToken ==
  /\ step = "untoken" /\ step' = "unworkspace"
  /\ IF Input(message, graph).token # Blank
     THEN SetEnv("token", Restored("token")) ELSE UNCHANGED <<env, sending>>
  /\ UNCHANGED <<hand, settings, runs, request>>

RestoreWorkspace ==
  /\ step = "unworkspace" /\ step' = "idle"
  /\ message' = NoMessage /\ bots' = <<>> /\ graph' = NoGraph /\ saved' = NoAuth
  /\ IF Input(message, graph).workspace # Blank
     THEN SetEnv("workspace", Restored("workspace")) ELSE UNCHANGED <<env, sending>>
  /\ UNCHANGED <<attempt, handled, settings, runs, request>>
-----------------------------------------------------------------------------
(* The loop of the task service: the runs and their requests.              *)

\* JsonDagWorkflow.run, as far as its first await: int(None) raises, and Temporal replays
\* the workflow task for ever.
Begin(r) ==
  /\ runs[r].status = "started"
  /\ runs' = [runs EXCEPT ![r].status = IF runs[r].limited THEN "open" ELSE "wedged"]
  /\ UNCHANGED <<step, hand, settings, env, sending, request>>

\* Faulty variant: the environment comes first.
EnvFirst(own, default) == First(default, own)

OwnFirst(own, default) == First(own, default)

\* A job is created or polled (_multica_job_headers): first the token is looked up ...
ReadToken(r, job) ==
  /\ sending = NoRequest
  /\ runs[r].status = "open" /\ runs[r].work[job] # "failed" /\ job.agent # Blank
  /\ sending' = [run |-> r, job |-> job, stage |-> "token",
                 token |-> OwnFirst(runs[r].input.token, env.token), workspace |-> Blank,
                 crossed |-> Overriding]
  /\ UNCHANGED <<step, hand, settings, env, runs, request>>

\* ... then the workspace ...
ReadWorkspace ==
  /\ sending # NoRequest /\ sending.stage = "token"
  /\ sending' = [sending EXCEPT !.stage = "workspace",
                   !.workspace = OwnFirst(runs[sending.run].input.workspace, env.workspace)]
  /\ UNCHANGED <<step, hand, settings, env, runs, request>>

\* ... then its slug; without a token or a workspace the request is refused.  A node whose
\* job is created fails at once if it has no timeout: float(None) raises.
Send ==
  LET slug == IF sending.workspace # Blank THEN Blank ELSE env.slug
      sent == sending.token # Blank /\ (sending.workspace # Blank \/ slug # Blank)
  IN
  /\ sending # NoRequest /\ sending.stage = "workspace"
  /\ sending' = NoRequest
  /\ request' = [run |-> sending.run, token |-> sending.token, workspace |-> sending.workspace,
                 slug |-> slug, sent |-> sent, crossed |-> sending.crossed]
  /\ IF sent
     THEN runs' = [runs EXCEPT ![sending.run].work[sending.job] =
                     IF sending.job.timed THEN "working" ELSE "failed"]
     ELSE UNCHANGED runs
  /\ UNCHANGED <<step, hand, settings, env>>
-----------------------------------------------------------------------------
HandlerStep ==
  \/ Classify \/ (\E g \in Proposal : Propose(g)) \/ PlanFails
  \/ SetToken \/ SetWorkspace \/ RestoreToken \/ RestoreWorkspace

LoopStep ==
  \/ \E r \in DOMAIN runs :
       Begin(r) \/ \E job \in DOMAIN runs[r].work : ReadToken(r, job)
  \/ ReadWorkspace \/ Send

\* Nothing is left to happen.
Done ==
  /\ step = "idle" /\ handled = MaxMessages /\ sending = NoRequest
  /\ UNCHANGED vars

Next ==
  \/ \E m \in Message, answer \in Roster \union {Unavailable} : Receive(m, answer)
  \/ HandlerStep \/ Submit \/ LoopStep \/ Done

Spec == Init /\ [][Next]_vars

\* The model answers or its client times out; the loop's queue is first in, first out, so
\* a workflow to be started is not overtaken for ever by the requests of others.
FairSpec ==
  /\ Spec
  /\ WF_vars(HandlerStep) /\ SF_vars(Submit) /\ WF_vars(ReadWorkspace) /\ WF_vars(Send)
=============================================================================
