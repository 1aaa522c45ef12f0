-------------------------- MODULE MCPlanSubmission --------------------------
(***************************************************************************)
(* Bots, messages and graphs for TLC.  The names of some bots clash: "Ann" *)
(* and "ann" are user ids of two bots, and a third displays itself as      *)
(* "ann".                                                                  *)
(***************************************************************************)
EXTENDS PlanSubmissionProperties

Names == {"Ann", "ann", "bob", "agentA", "agentB", "teamSpace", "home", "slug", "workspace:teamSpace"}
LowerCase == [n \in Names |-> IF n = "Ann" THEN "ann" ELSE n]
OfWorkspace == [n \in Names |-> "workspace:teamSpace"]

Bot(user, agent, display, owner, online) ==
  [user |-> user, agent |-> agent, display |-> display, owner |-> owner,
   shared |-> FALSE, online |-> online]

Ann == Bot("Ann", "agentA", "Ann", "ua", TRUE)
LowerAnn == Bot("ann", "agentB", "bob", "ua", TRUE)
Offline == Bot("bob", "", "bob", "ub", FALSE)
Namesake == Bot("bob", "agentB", "ann", "ub", FALSE)

Rosters == {<<Ann, Offline>>, <<Ann, LowerAnn>>, <<LowerAnn, Namesake>>}
LocalBots == <<Bot("agentB", "", "bob", "ub", TRUE), [Ann EXCEPT !.owner = "ub", !.shared = TRUE]>>

Both == [token |-> "own", workspace |-> "teamSpace"]
Half == [token |-> "", workspace |-> "teamSpace"]
None == [token |-> "", workspace |-> ""]
From(mentions, team, top, user) ==
  [sender |-> "ua", mentions |-> mentions, team |-> team, top |-> top, user |-> user]
Mine(name) == [entity |-> name, mine |-> TRUE]
Other(name) == [entity |-> name, mine |-> FALSE]

Messages == {
  From(<<Other("bob")>>, FALSE, Half, Both),
  From(<<Mine("Ann"), Mine("bob")>>, TRUE, Half, None),
  From(<<Mine("Ann")>>, FALSE, None, Both)}

Environments == {
  [token |-> "process", workspace |-> "", slug |-> "slug"],
  [token |-> "", workspace |-> "home", slug |-> ""]}

(* Graphs. *)
Node(id, deps, work, agent, key, own, timed) ==
  [id |-> id, deps |-> deps, work |-> work, agent |-> agent, key |-> key, own |-> own,
   timed |-> timed]
Local(id, deps) == Node(id, deps, FALSE, FALSE, "", "", FALSE)
Agent(id, deps, key) == Node(id, deps, TRUE, TRUE, key, "home", TRUE)
Graph(nodes, edges, start) ==
  [nodes |-> nodes, edges |-> edges, start |-> start, limited |-> TRUE, input |-> None]

TwoNodes == {"a", "b"}
\* All graphs of two nodes, by edges or by dependencies.
ByEdges == {Graph(<<Local("a", {}), Local("b", {"a"})>>, SetToSeq(edges), <<>>) :
              edges \in SUBSET (TwoNodes \X TwoNodes)}
ByDeps == {Graph(<<Local("a", d[1]), Local("b", d[2])>>, <<>>, <<>>) :
             d \in (SUBSET TwoNodes) \X (SUBSET TwoNodes)}

\* Four nodes: a diamond, a review loop entered in the middle, a part never reached.
Four(da, db, dc, dd) == <<Local("a", da), Local("b", db), Local("c", dc), Local("d", dd)>>
Larger == {
  Graph(Four({}, {"a"}, {"a"}, {"b", "c"}), <<>>, <<>>),
  Graph(Four({"d"}, {"a"}, {"b"}, {"c"}), <<>>, <<>>),
  Graph(Four({}, {}, {}, {}), <<<<"a", "b">>, <<"b", "c">>, <<"c", "b">>, <<"c", "d">>>>, <<>>),
  Graph(Four({}, {}, {}, {}), <<<<"a", "b">>, <<"c", "d">>, <<"d", "c">>>>, <<>>),
  Graph(Four({}, {}, {}, {}), <<<<"a", "c">>, <<"a", "b">>, <<"b", "d">>, <<"d", "a">>>>, <<"d">>),
  Graph(Four({}, {}, {}, {}), <<<<"a", "d">>, <<"b", "d">>, <<"a", "c">>, <<"c", "b">>>>, <<"a">>)}

\* Not task graphs, or refused later.
Odd == {
  Graph(<<>>, <<>>, <<>>),
  Graph(<<Local("a", {}), Local("a", {})>>, <<>>, <<>>),
  Graph(<<Local("a", {})>>, <<<<"a", "x">>>>, <<>>),
  Graph(<<Local("", {})>>, <<>>, <<>>),
  Graph(<<Local("a", {}), Local("b", {"x"})>>, <<<<"a", "b">>>>, <<>>)}

\* Work for agents.
Working == {
  Graph(<<Agent("a", {}, "Ann")>>, <<>>, <<>>),
  Graph(<<Agent("a", {}, "bob")>>, <<>>, <<>>),
  Graph(<<Local("a", {}), Agent("b", {"a"}, "ann")>>, <<>>, <<>>),
  [Graph(<<Agent("a", {}, "Ann")>>, <<>>, <<>>) EXCEPT !.input = Half],
  Graph(<<Node("a", {}, TRUE, FALSE, "", "", TRUE), Agent("b", {"a"}, "Ann")>>, <<>>, <<>>),
  Graph(<<Agent("a", {}, "")>>, <<>>, <<>>)}

\* The optional fields left out.
Bare == {
  [Graph(<<Agent("a", {}, "Ann")>>, <<>>, <<>>) EXCEPT !.limited = FALSE],
  Graph(<<Node("a", {}, TRUE, TRUE, "Ann", "", FALSE)>>, <<>>, <<>>)}

Graphs == ByEdges \union ByDeps \union Larger \union Odd \union Working \union Bare
=============================================================================
