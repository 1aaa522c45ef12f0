---------------------- MODULE PlanSubmissionProperties ----------------------
(***************************************************************************)
(* What a plan can rely on between its message and the requests of its     *)
(* run.                                                                    *)
(***************************************************************************)
EXTENDS PlanSubmission

(***************************************************************************)
(* Credentials go all the way: a request of a run whose message brought    *)
(* both is sent with exactly these, whatever the model wrote into the      *)
(* graph and whatever stands in the environment.  Other requests carry     *)
(* what the graph or the process settings give, unless another plan was    *)
(* submitted while their headers were put together; and they are refused   *)
(* only then, or if the settings do not suffice, or after a plan took the  *)
(* workspace slug away (_inject_workspace_context_into_plan,               *)
(* multica_job_env_from_graph, _multica_job_headers).                      *)
(***************************************************************************)
CarriesOwn(q) ==
  LET m == runs[q.run].message
      input == runs[q.run].input
  IN
  /\ HasCreds(m) => q.sent /\ q.token = Creds(m).token /\ q.workspace = Creds(m).workspace
  /\ ~q.crossed => /\ q.token = First(input.token, settings.token)
                   /\ q.workspace = First(input.workspace, settings.workspace)
  /\ q.slug \in {Blank, settings.slug}
  /\ ~q.sent /\ ~q.crossed =>
       \/ First(input.token, settings.token) = Blank
       \/ settings.slug = Blank
       \/ env.slug # settings.slug

RequestsCarryOwnCredentials == request # NoRequest => CarriesOwn(request)

(***************************************************************************)
(* Work goes to the bot the plan names: the agent of each job is that of   *)
(* the bot with the node's agent_key, which the sender may use, and the    *)
(* bot of the first job answers in the chat.  Only a bot further down the  *)
(* list that bears the key as its agent id or display name can take its    *)
(* place (validate_graph_against_request looks bots up by user id,         *)
(* _resolve_bot by any name).                                              *)
(***************************************************************************)
NamedBot(key) == CHOOSE b \in ToSet(bots) : b.user = key

TakenOver(key) ==
  \E j, k \in DOMAIN bots :
    /\ bots[j].user = key /\ j < k
    /\ key \in {bots[k].agent, bots[k].display, Lower[bots[k].display]}

WorkGoesToNamedBots ==
  graph # NoGraph =>
    LET worker == graph.nodes[Min(Workers(graph))]
        answering == AnsweringBot(graph, bots)
    IN
    /\ \A k \in Workers(graph) :
         LET node == graph.nodes[k] IN
         node.agent /\ ~TakenOver(node.key) =>
           /\ CanUse(NamedBot(node.key), message.sender)
           /\ \E job \in Jobs(graph, bots) :
                job.node = node.id /\ job.agent = First(NamedBot(node.key).agent, node.own)
    /\ Workers(graph) # {} /\ worker.agent =>
         /\ answering # Blank
         /\ ~TakenOver(worker.key) => answering = worker.key

(***************************************************************************)
(* A graph that is started can be run and shown: its dependencies exist;   *)
(* nodes without edges of their own wait for all their dependencies; every *)
(* node has one level; without cycles edges go to later levels, and each   *)
(* node is as early as its predecessors allow; in a cyclic graph a node    *)
(* comes after one of its predecessors unless it starts the graph or is    *)
(* never reached (normalize_graph, _layout_levels).                        *)
(***************************************************************************)
IsCyclic(ids, edges) ==
  \E S \in SUBSET ids : S # {} /\ \A n \in S : \E p \in S : <<p, n>> \in edges

Reached(g) ==
  {n \in Ids(g) : \A S \in SUBSET Ids(g) :
     Starts(g) \subseteq S /\ (\A e \in Edges(g) : e[1] \in S => e[2] \in S) => n \in S}

LaidOut(g) ==
  LET levels == Levels(g)
      At(n) == CHOOSE k \in DOMAIN levels : n \in levels[k]
  IN
  /\ UNION ToSet(levels) = Ids(g)
  /\ \A j, k \in DOMAIN levels : levels[j] # {} /\ (j # k => levels[j] \cap levels[k] = {})
  /\ IF IsCyclic(Ids(g), Edges(g))
     THEN \A n \in Reached(g) \ Starts(g) : \E e \in Edges(g) : e[2] = n /\ At(e[1]) < At(n)
     ELSE /\ \A e \in Edges(g) : At(e[1]) < At(e[2])
          /\ \A n \in Ids(g) : At(n) > 1 => \E e \in Edges(g) : e[2] = n /\ At(e[1]) = At(n) - 1

PlansAreLaidOut ==
  step = "submit" /\ Normalizes(graph) =>
    /\ \A node \in ToSet(graph.nodes) : node.deps \subseteq Ids(graph)
    /\ Starts(graph) # {} /\ Starts(graph) \subseteq Ids(graph)
    /\ ~Explicit(graph) => ~IsCyclic(Ids(graph), Edges(graph))
    /\ graph.start = <<>> /\ ~Explicit(graph) =>
         Starts(graph) = {node.id : node \in {x \in ToSet(graph.nodes) : x.deps = {}}}
    /\ LaidOut(graph)

(***************************************************************************)
(* handle comes back to the consumer from every message: attempts are      *)
(* counted, and a submission is not kept from the loop for ever.           *)
(***************************************************************************)
EveryMessageLeaves == step # "idle" ~> step = "idle"

(***************************************************************************)
(* The fields that task_graph_json_format.md calls optional are optional:  *)
(* a plan that was accepted and started runs, and its jobs are followed.   *)
(***************************************************************************)
OptionalFieldsAreOptional ==
  \A r \in DOMAIN runs :
    /\ runs[r].status # "wedged"
    /\ \A job \in DOMAIN runs[r].work : runs[r].work[job] # "failed"

(***************************************************************************)
(* The inductive invariant.                                                *)
(***************************************************************************)
Steps == {"idle", "intent", "plan", "token"} \union Submitting

RunOK(run) ==
  /\ run \in [message : Message, input : Auth, limited : BOOLEAN,
              status : {"started", "wedged", "open"},
              bot : {run.bot}, work : [DOMAIN run.work -> JobState]]
  /\ HasCreds(run.message) => run.input = Creds(run.message)

Headers == [run : DOMAIN runs, job : {sending.job},
            stage : {"token", "workspace"}, token : Token \union {Blank},
            workspace : Name \union {Blank}, crossed : BOOLEAN]

Request == [run : DOMAIN runs, token : Token \union {Blank}, workspace : Name \union {Blank},
            slug : Name \union {Blank}, sent : BOOLEAN, crossed : BOOLEAN]

TypeOK ==
  /\ step \in Steps
  /\ message \in Message \union {NoMessage} /\ (step # "idle" => message \in Message)
  /\ graph \in Proposal \union {NoGraph}
  /\ step \in {"token"} \union Submitting => graph \in Proposal
  /\ attempt \in 0 .. 2 /\ handled \in 0 .. MaxMessages
  /\ saved \in Auth /\ settings \in Environment /\ env \in Environment
  /\ runs \in Seq(ToSet(runs)) /\ \A r \in DOMAIN runs : RunOK(runs[r])
  /\ sending = NoRequest \/ sending \in Headers
  /\ request = NoRequest \/ request \in Request

\* What an override has changed at each step, and nothing else.
Override == Input(message, graph)

EnvIsKept ==
  /\ env.slug \in {settings.slug, Blank}
  /\ step \notin Submitting => env.token = settings.token /\ env.workspace = settings.workspace
  /\ step \in Submitting => saved.token = settings.token
  /\ step \in {"workspace", "submit", "untoken"} => env.token = First(Override.token, settings.token)
  /\ step = "unworkspace" => env.token = settings.token
  /\ step = "workspace" => env.workspace = settings.workspace
  /\ step \in Submitting \ {"workspace"} =>
       saved.workspace = settings.workspace /\ env.workspace = First(Override.workspace, settings.workspace)

\* Headers in the making agree with the run and, unless crossed, with the settings.
SendingIsOwn ==
  sending # NoRequest =>
    LET input == runs[sending.run].input IN
    /\ sending.job \in DOMAIN runs[sending.run].work
    /\ input.token # Blank => sending.token = input.token
    /\ ~sending.crossed => /\ env.token = settings.token /\ env.workspace = settings.workspace
                           /\ sending.token = First(input.token, settings.token)
    /\ sending.stage = "workspace" =>
         /\ input.workspace # Blank => sending.workspace = input.workspace
         /\ ~sending.crossed => sending.workspace = First(input.workspace, settings.workspace)

\* The bots are those of a dict, and the graph is one that was accepted for them.
PlanFitsBots ==
  /\ bots \in Seq(Profile)
  /\ \A j, k \in DOMAIN bots : bots[j].user = bots[k].user => j = k
  /\ step \in {"idle", "intent", "plan"} => graph = NoGraph
  /\ graph # NoGraph => Accepts(graph)

SubmissionInv ==
  /\ TypeOK
  /\ EnvIsKept
  /\ SendingIsOwn
  /\ PlanFitsBots
  /\ RequestsCarryOwnCredentials
=============================================================================
