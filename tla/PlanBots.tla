------------------------------ MODULE PlanBots ------------------------------
(***************************************************************************)
(* Messages, the bots they may set to work, and the bots a plan does set   *)
(* to work: handler.py, bot_service.py and bot_registry.py before the      *)
(* planner, models.py and task_graph.py while it checks a plan,            *)
(* plan_enricher.py and im_egress/context.py afterwards.                   *)
(***************************************************************************)
EXTENDS PlanGraph

CONSTANTS
  Name,          \* ids and display names of bots, agents and workspaces: one name space
  Lower,         \* str.lower on names
  Prefixed,      \* "workspace:" in front of a name
  User, Token,
  Message,       \* messages: [sender, mentions, team, top, user], see Creds
  Registry,      \* the local registry: profiles of bots
  Roster,        \* answers of the bot service: sequences of profiles
  Unavailable    \* the bot service raises, or is not configured

Auth == [token : Token \union {Blank}, workspace : Name \union {Blank}]
Profile == [user : Name, agent : Name \union {Blank}, display : Name,
            owner : User \union {Blank}, shared : BOOLEAN, online : BOOLEAN]
Mention == [entity : Name, mine : BOOLEAN]

ASSUME BotsAssumption ==
  /\ {Lower, Prefixed} \subseteq [Name -> Name] /\ Blank \notin Name \union User \union Token
  /\ Message \subseteq [sender : User, mentions : Seq(Mention), team : BOOLEAN,
                        top : Auth, user : Auth]
  /\ Registry \in Seq(Profile) /\ Roster \subseteq Seq(Profile) /\ Unavailable \notin Roster

\* a or b, on strings.
First(a, b) == IF a # Blank THEN a ELSE b

-----------------------------------------------------------------------------
(* Messages and bots.                                                      *)

\* IMMessageEvent: a field may come at the top of the event or in user_context.
Creds(m) == [token |-> First(m.top.token, m.user.token),
             workspace |-> First(m.top.workspace, m.user.workspace)]

HasCreds(m) == Creds(m).token # Blank /\ Creds(m).workspace # Blank

\* BotProfile.sender_can_use
CanUse(b, user) == b.shared \/ b.agent # Blank \/ b.owner = user

AssistantBot(name, user) ==
  [user |-> name, agent |-> Blank, display |-> name, owner |-> user,
   shared |-> FALSE, online |-> TRUE]

\* dict assignment by bot_user_id: the place of an existing key is kept.
Put(list, b) ==
  IF \E k \in DOMAIN list : list[k].user = b.user
  THEN [k \in DOMAIN list |-> IF list[k].user = b.user THEN b ELSE list[k]]
  ELSE Append(list, b)

\* The first profile of that user id, or the default.
Find(list, name, default) ==
  IF \E k \in DOMAIN list : list[k].user = name
  THEN list[CHOOSE k \in DOMAIN list : list[k].user = name]
  ELSE default

\* A dict that is filled item by item.
Filled(start, items, Add(_, _)) ==
  LET list[k \in 0 .. Len(items)] == IF k = 0 THEN start ELSE Add(list[k - 1], items[k])
  IN list[Len(items)]

\* BotServiceClient.resolve_workspace_agents_for_orchestration
AddMentioned(list, mention, m) ==
  IF mention.mine
  THEN Put(list, Find(list, mention.entity, AssistantBot(mention.entity, m.sender)))
  ELSE list

FromService(m, roster) ==
  Filled(Filled(<<>>, roster, Put), m.mentions,
         LAMBDA list, mention : AddMentioned(list, mention, m))

\* BotRegistry.resolve_owned_bots_for_orchestration: a mentioned bot becomes the sender's.
AddOwned(list, b, m) == IF b.owner = m.sender THEN Put(list, b) ELSE list

AddClaimed(list, mention, m) ==
  IF mention.mine
  THEN Put(list, [Find(list \o Registry, mention.entity, AssistantBot(mention.entity, m.sender))
                    EXCEPT !.owner = m.sender, !.shared = FALSE])
  ELSE list

FromRegistry(m) ==
  Filled(Filled(<<>>, Registry, LAMBDA list, b : AddOwned(list, b, m)), m.mentions,
         LAMBDA list, mention : AddClaimed(list, mention, m))

\* _workspace_default_bot: the bot's agent is named by the workspace.
DefaultBot(m) ==
  LET name == IF m.mentions # <<>> THEN m.mentions[1].entity ELSE Prefixed[Creds(m).workspace]
  IN [AssistantBot(name, m.sender) EXCEPT !.agent = Creds(m).workspace]

\* MessageHandler._resolve_owned_bots
OwnedBots(m, answer) ==
  LET found == IF m.team /\ answer # Unavailable THEN FromService(m, answer) ELSE FromRegistry(m)
  IN IF found = <<>> /\ HasCreds(m) THEN <<DefaultBot(m)>> ELSE found

\* DirectChatRouter.maybe_submit: exactly one bot is mentioned, it is there, and it is the
\* online front of an agent other than the workspace itself.
IsDirect(m, list) ==
  \E b \in ToSet(list) :
    /\ {mention.entity : mention \in ToSet(m.mentions)} = {b.user}
    /\ b.agent # Blank /\ b.agent # Creds(m).workspace /\ b.online
-----------------------------------------------------------------------------
(* Plans.                                                                  *)

\* Planner._validate_permissions
MayPlan(m, list) ==
  /\ \E b \in ToSet(list) : CanUse(b, m.sender)
  /\ \A b \in ToSet(list) :
       b.user \in {mention.entity : mention \in ToSet(m.mentions)} => b.online

\* validate_graph_against_request: an agent_key is a bot's user id.
FitsRequest(g, m, list) ==
  \A node \in ToSet(g.nodes) : node.agent =>
    \E b \in ToSet(list) :
      /\ b.user = node.key
      /\ CanUse(b, m.sender) /\ (b.online \/ b.agent # Blank)

\* _inject_workspace_context_into_plan
Input(m, g) == IF HasCreds(m) THEN Creds(m) ELSE g.input

\* _bot_index: what a bot is found by.
Keys(b) == {b.user, b.agent, b.display, Lower[b.display]} \ {Blank}

NoBot == [AssistantBot(Blank, Blank) EXCEPT !.online = FALSE]

\* _resolve_bot: of several bots with that key, the last one in the list.
LastWith(list, key) ==
  LET found == {k \in DOMAIN list : key \in Keys(list[k])}
  IN IF found = {} THEN NoBot ELSE list[Max(found)]

\* Faulty variant: names are compared in lower case first.
LowerFirst(list, key) ==
  IF LastWith(list, Lower[key]) # NoBot THEN LastWith(list, Lower[key]) ELSE LastWith(list, key)

Resolve(list, key) ==
  IF LastWith(list, key) # NoBot THEN LastWith(list, key) ELSE LastWith(list, Lower[key])

\* enrich_plan_for_execution: the nodes that go to the job service, and the agent for each.
Jobs(g, list) ==
  {[node |-> node.id, timed |-> node.timed,
    agent |-> First(Resolve(list, node.key).agent, node.own)] :
     node \in {x \in ToSet(g.nodes) : x.work /\ x.agent}}

\* The places of the nodes that are work for an agent.
Workers(g) == {k \in DOMAIN g.nodes : g.nodes[k].work}

\* build_egress_context: the bot that answers for the plan; without one nobody watches it.
AnsweringBot(g, list) ==
  LET worker == g.nodes[Min(Workers(g))]
  IN IF Workers(g) = {} \/ ~worker.agent THEN Blank
     ELSE First(Resolve(list, worker.key).user, worker.key)
=============================================================================
