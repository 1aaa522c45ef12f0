------------------------ MODULE PlanSubmissionProofs ------------------------
(***************************************************************************)
(* SubmissionInv and the safety properties of a submission, for any bots,  *)
(* messages, graphs and settings.                                          *)
(*                                                                         *)
(* Credentials: EnvIsKept says what the environment holds at every step of *)
(* a submission, SendingIsOwn carries this into the headers a request is   *)
(* sent with, and a run never changes its message and its input.           *)
(*                                                                         *)
(* Bots: the list is a dict, filled one bot at a time, so a key that only  *)
(* one bot answers to finds that bot.                                      *)
(*                                                                         *)
(* Levels: a graph whose rounds complete every node has no cycle, and      *)
(* otherwise the nodes that are never completed form one.  The walk        *)
(* through a cyclic graph adds a new node in each step or has seen all     *)
(* that the start nodes lead to.                                           *)
(***************************************************************************)
EXTENDS PlanSubmissionProperties, SequenceTheorems, FiniteInduction

USE DEF NoAuth, NoRequest

LEMMA CredsType ==
  ASSUME NEW m \in Message
  PROVE  Creds(m) \in Auth
<1>1. m.top \in Auth /\ m.user \in Auth
  BY BotsAssumption
<1>. QED
  BY <1>1 DEF Creds, Auth, First

LEMMA InputType ==
  ASSUME NEW m \in Message, NEW g \in Proposal
  PROVE  Input(m, g) \in Auth /\ (HasCreds(m) => Input(m, g) = Creds(m))
<1>1. g.input \in Auth
  BY SubmissionAssumption
<1>. QED
  BY <1>1, CredsType DEF Input

LEMMA IsOwnSeq ==
  ASSUME NEW T, NEW t \in Seq(T)
  PROVE  t \in Seq(ToSet(t)) /\ Len(t) \in Nat /\ DOMAIN t = 1 .. Len(t)
<1>1. Len(t) \in Nat /\ t \in [1 .. Len(t) -> T] /\ DOMAIN t = 1 .. Len(t)
  BY LenProperties
<1>2. t \in [1 .. Len(t) -> ToSet(t)]
  BY <1>1 DEF ToSet, Range
<1>3. t \in Seq(ToSet(t))
  BY <1>1, <1>2, SeqDef
<1>. QED
  BY <1>1, <1>3

\* t is s with x in place of, or added as, the element r; the others stay.
Changed(s, r, x, t) ==
  /\ t \in Seq(ToSet(t))
  /\ DOMAIN t = DOMAIN s \union {r}
  /\ \A k \in DOMAIN s : k # r => t[k] = s[k]
  /\ t[r] = x

LEMMA AppendRun ==
  ASSUME NEW s, NEW x, NEW t, s \in Seq(ToSet(s)), t = Append(s, x)
  PROVE  Changed(s, Len(s) + 1, x, t) /\ Len(s) + 1 \notin DOMAIN s
<1>0. Len(s) \in Nat /\ DOMAIN s = 1 .. Len(s)
  BY IsOwnSeq
<1>1. t \in Seq(ToSet(s) \union {x})
  OBVIOUS
<1>2. /\ DOMAIN t = 1 .. (Len(s) + 1)
      /\ \A k \in DOMAIN s : t[k] = s[k]
      /\ t[Len(s) + 1] = x
  BY <1>0
<1>3. t \in Seq(ToSet(t))
  BY <1>1, IsOwnSeq
<1>. QED
  BY <1>0, <1>2, <1>3 DEF Changed

LEMMA ChangeRun ==
  ASSUME NEW s, NEW r \in DOMAIN s, NEW x, NEW t, s \in Seq(ToSet(s)), t = [s EXCEPT ![r] = x]
  PROVE  Changed(s, r, x, t)
<1>1. t \in Seq(ToSet(s) \union {x})
  OBVIOUS
<1>2. DOMAIN t = DOMAIN s /\ (\A k \in DOMAIN s : k # r => t[k] = s[k]) /\ t[r] = x
  BY IsOwnSeq
<1>3. t \in Seq(ToSet(t))
  BY <1>1, IsOwnSeq
<1>. QED
  BY <1>2, <1>3 DEF Changed

\* What the invariant needs of a change of the runs: their messages and inputs stay.
RunsKept ==
  /\ runs' \in Seq(ToSet(runs'))
  /\ DOMAIN runs \subseteq DOMAIN runs'
  /\ \A r \in DOMAIN runs' : RunOK(runs'[r])
  /\ \A r \in DOMAIN runs : /\ runs'[r].message = runs[r].message
                            /\ runs'[r].input = runs[r].input
                            /\ DOMAIN runs'[r].work = DOMAIN runs[r].work

LEMMA SameRunsKept ==
  ASSUME TypeOK, UNCHANGED runs
  PROVE  RunsKept
BY DEF TypeOK, RunsKept

LEMMA SubmitKeeps ==
  ASSUME TypeOK, step = "submit", runs' = Append(runs, NewRun)
  PROVE  RunsKept
<1>1. message \in Message /\ graph \in Proposal
  BY DEF TypeOK, Submitting
<1>2. Input(message, graph) \in Auth /\ graph.limited \in BOOLEAN
      /\ (HasCreds(message) => Input(message, graph) = Creds(message))
  BY <1>1, InputType, SubmissionAssumption
<1>3. RunOK(NewRun)
  BY <1>1, <1>2 DEF RunOK, NewRun, JobState
<1>4. runs \in Seq(ToSet(runs))
  BY DEF TypeOK
<1>5. \A r \in DOMAIN runs : RunOK(runs[r])
  BY DEF TypeOK
<1>6. Changed(runs, Len(runs) + 1, NewRun, runs') /\ Len(runs) + 1 \notin DOMAIN runs
  BY ONLY <1>4, runs' = Append(runs, NewRun), AppendRun, Zenon
<1>. QED
  BY <1>3, <1>5, <1>6 DEF RunsKept, Changed

LEMMA BeginKeeps ==
  ASSUME TypeOK, NEW r \in DOMAIN runs, Begin(r)
  PROVE  RunsKept
<1>0. runs \in Seq(ToSet(runs))
  BY DEF TypeOK
<1>1. \A k \in DOMAIN runs : RunOK(runs[k])
  BY DEF TypeOK
<1>2. PICK x : /\ x = [runs[r] EXCEPT !.status = IF runs[r].limited THEN "open" ELSE "wedged"]
               /\ runs' = [runs EXCEPT ![r] = x]
  BY DEF Begin
<1>3. /\ RunOK(x) /\ x.message = runs[r].message /\ x.input = runs[r].input
      /\ x.work = runs[r].work
  BY <1>1, <1>2 DEF RunOK
<1>4. runs' = [runs EXCEPT ![r] = x]
  BY <1>2
<1>5. Changed(runs, r, x, runs')
  BY ONLY <1>0, <1>4, r \in DOMAIN runs, ChangeRun, Zenon
<1>. QED
  BY <1>1, <1>3, <1>5 DEF RunsKept, Changed

LEMMA SendKeeps ==
  ASSUME TypeOK, SendingIsOwn, Send
  PROVE  RunsKept
<1>0. runs \in Seq(ToSet(runs))
  BY DEF TypeOK
<1>1. \A k \in DOMAIN runs : RunOK(runs[k])
  BY DEF TypeOK
<1>2. CASE UNCHANGED runs
  BY <1>2, SameRunsKept
<1>3. ASSUME NEW state \in JobState, runs' = [runs EXCEPT ![sending.run].work[sending.job] = state]
      PROVE  RunsKept
  <2>1. PICK x : /\ x = [runs[sending.run] EXCEPT !.work = [@ EXCEPT ![sending.job] = state]]
                 /\ runs' = [runs EXCEPT ![sending.run] = x]
    BY <1>3
  <2>2. sending.run \in DOMAIN runs
    BY DEF TypeOK, Headers, Send
  <2>3. PICK w : w = [runs[sending.run].work EXCEPT ![sending.job] = state]
    OBVIOUS
  <2>4. w \in [DOMAIN runs[sending.run].work -> JobState] /\ DOMAIN w = DOMAIN runs[sending.run].work
    BY <1>1, <1>3, <2>2, <2>3 DEF RunOK
  <2>5. /\ RunOK(x) /\ x.message = runs[sending.run].message /\ x.input = runs[sending.run].input
        /\ x.work = w
    BY <1>1, <2>1, <2>2, <2>3, <2>4 DEF RunOK
  <2>6. runs' = [runs EXCEPT ![sending.run] = x]
    BY <2>1
  <2>7. Changed(runs, sending.run, x, runs')
    BY ONLY <1>0, <2>2, <2>6, ChangeRun, Zenon
  <2>. QED
    BY <1>1, <2>2, <2>4, <2>5, <2>7 DEF RunsKept, Changed
<1>. QED
  BY <1>2, <1>3 DEF Send, JobState

LEMMA NextKeeps ==
  ASSUME TypeOK, SendingIsOwn, [Next]_vars
  PROVE  RunsKept
<1>1. CASE UNCHANGED runs
  BY <1>1, SameRunsKept
<1>2. CASE Submit
  BY <1>1, <1>2, SubmitKeeps DEF Submit
<1>3. CASE \E r \in DOMAIN runs : Begin(r)
  BY <1>3, BeginKeeps
<1>4. CASE Send
  BY <1>4, SendKeeps
<1>. QED
  BY <1>1, <1>2, <1>3, <1>4
  DEF Next, HandlerStep, LoopStep, vars, loop, Receive, Classify, Propose, PlanFails, SetToken,
      SetWorkspace, RestoreToken, RestoreWorkspace, ReadToken, ReadWorkspace, Done

LEMMA CrossedType ==
  ASSUME TypeOK, RunsKept, sending' = Crossed \/ sending' = sending
  PROVE  sending' = NoRequest \/ sending' \in Headers'
<1>1. sending = NoRequest \/ sending \in Headers
  BY DEF TypeOK
<1>2. CASE sending = NoRequest
  BY <1>2 DEF Crossed
<1>3. CASE sending \in Headers /\ sending' = sending
  BY <1>3 DEF Headers, RunsKept
<1>4. CASE sending \in Headers /\ sending' = [sending EXCEPT !.crossed = TRUE]
  <2>1. /\ sending' \in [run : DOMAIN runs, job : {sending.job}, stage : {"token", "workspace"},
                         token : Token \union {Blank}, workspace : Name \union {Blank},
                         crossed : BOOLEAN]
        /\ sending'.job = sending.job
    BY <1>4 DEF Headers
  <2>2. DOMAIN runs \subseteq DOMAIN runs'
    BY DEF RunsKept
  <2>. QED
    BY ONLY <2>1, <2>2 DEF Headers
<1>. QED
  BY <1>1, <1>2, <1>3, <1>4 DEF Crossed

LEMMA TypeKept ==
  ASSUME TypeOK, SendingIsOwn, [Next]_vars
  PROVE  TypeOK'
<1>1. RunsKept
  BY NextKeeps
<1>2. /\ runs' \in Seq(ToSet(runs'))
      /\ \A r \in DOMAIN runs' : RunOK(runs'[r])
      /\ DOMAIN runs \subseteq DOMAIN runs'
  BY <1>1 DEF RunsKept
<1>3. MaxMessages \in Nat
  BY SubmissionAssumption
<1>4. ASSUME NEW m \in Message, NEW answer, Receive(m, answer)
      PROVE  TypeOK'
  BY <1>2, <1>3, <1>4 DEF TypeOK, Receive, Steps, Submitting, Headers, Request, loop
<1>5. CASE Classify
  BY <1>2, <1>5
  DEF TypeOK, Classify, GoOn, TryAgain, Leave, Steps, Submitting, Headers, Request, loop
<1>6. ASSUME NEW g \in Proposal, Propose(g)
      PROVE  TypeOK'
  BY <1>2, <1>6
  DEF TypeOK, Propose, TryAgain, Leave, Steps, Submitting, Headers, Request, loop
<1>7. CASE PlanFails
  BY <1>2, <1>7
  DEF TypeOK, PlanFails, TryAgain, Leave, Steps, Submitting, Headers, Request, loop
<1>8. step \in {"token"} \union Submitting => Input(message, graph) \in Auth
  BY InputType DEF TypeOK, Submitting
<1>9. CASE SetToken
  <2>1. Input(message, graph) \in Auth /\ env \in Environment /\ saved \in Auth
    BY <1>8, <1>9 DEF SetToken, TypeOK
  <2>2. env' \in Environment /\ saved' \in Auth
    BY <1>9, <2>1 DEF SetToken, SetEnv, Environment, Auth
  <2>3. sending' = NoRequest \/ sending' \in Headers'
    BY <1>1, <1>9, CrossedType DEF SetToken, SetEnv
  <2>. QED
    BY <1>2, <1>9, <2>2, <2>3 DEF TypeOK, SetToken, Steps, Submitting, Request
<1>10. CASE SetWorkspace
  <2>1. Input(message, graph) \in Auth /\ env \in Environment /\ saved \in Auth
    BY <1>8, <1>10 DEF SetWorkspace, TypeOK, Submitting
  <2>2. env' \in Environment /\ saved' \in Auth
    BY <1>10, <2>1 DEF SetWorkspace, Environment, Auth
  <2>3. sending' = NoRequest \/ sending' \in Headers'
    BY <1>1, <1>10, CrossedType DEF SetWorkspace
  <2>. QED
    BY <1>2, <1>10, <2>2, <2>3 DEF TypeOK, SetWorkspace, Steps, Submitting, Request
<1>11. CASE Submit
  BY <1>2, <1>11 DEF TypeOK, Submit, Steps, Submitting, Headers, Request, hand
<1>12. CASE RestoreToken
  <2>1. env' \in Environment
    BY <1>12 DEF TypeOK, RestoreToken, Restored, SetEnv, Environment, Auth
  <2>2. sending' = NoRequest \/ sending' \in Headers'
    BY <1>1, <1>12, CrossedType DEF RestoreToken, SetEnv
  <2>. QED
    BY <1>2, <1>12, <2>1, <2>2 DEF TypeOK, RestoreToken, Steps, Submitting, Request, hand
<1>13. CASE RestoreWorkspace
  <2>1. env' \in Environment
    BY <1>13 DEF TypeOK, RestoreWorkspace, Restored, SetEnv, Environment, Auth
  <2>2. sending' = NoRequest \/ sending' \in Headers'
    BY <1>1, <1>13, CrossedType DEF RestoreWorkspace, SetEnv
  <2>3. saved' \in Auth
    BY <1>13 DEF RestoreWorkspace, Auth
  <2>. QED
    BY <1>2, <1>13, <2>1, <2>2, <2>3 DEF TypeOK, RestoreWorkspace, Steps, Submitting, Request
<1>14. ASSUME NEW r \in DOMAIN runs, Begin(r)
       PROVE  TypeOK'
  <2>1. sending' = NoRequest \/ sending' \in Headers'
    BY <1>1, <1>14, CrossedType DEF Begin
  <2>2. request' = NoRequest \/ request' \in Request'
    BY <1>2, <1>14 DEF TypeOK, Begin, Request
  <2>. QED
    BY <1>2, <1>14, <2>1, <2>2 DEF TypeOK, Begin, Steps, Submitting, hand
<1>15. ASSUME NEW r \in DOMAIN runs, NEW job, ReadToken(r, job)
       PROVE  TypeOK'
  <2>1. runs[r].input \in Auth
    BY DEF TypeOK, RunOK
  <2>2. sending' \in Headers'
    <3>1. OwnFirst(runs[r].input.token, env.token) \in Token \union {Blank}
      BY <2>1 DEF TypeOK, OwnFirst, First, Environment, Auth
    <3>2. Overriding \in BOOLEAN
      BY DEF Overriding
    <3>. QED
      BY <1>2, <1>15, <3>1, <3>2 DEF ReadToken, Headers
  <2>. QED
    BY <1>2, <1>15, <2>1, <2>2 DEF TypeOK, ReadToken, Steps, Submitting, Request, hand
<1>16. CASE ReadWorkspace
  <2>1. sending.run \in DOMAIN runs /\ runs[sending.run].input \in Auth
    BY <1>16 DEF ReadWorkspace, TypeOK, RunOK, Headers
  <2>2. OwnFirst(runs[sending.run].input.workspace, env.workspace) \in Name \union {Blank}
    BY <2>1 DEF TypeOK, OwnFirst, First, Environment, Auth
  <2>3. /\ sending' \in [run : DOMAIN runs, job : {sending.job}, stage : {"token", "workspace"},
                         token : Token \union {Blank}, workspace : Name \union {Blank},
                         crossed : BOOLEAN]
        /\ sending'.job = sending.job
    BY <1>16, <2>2 DEF ReadWorkspace, TypeOK, Headers
  <2>4. sending' \in Headers'
    BY ONLY <1>2, <2>3 DEF Headers
  <2>. QED
    BY <1>2, <1>16, <2>4 DEF TypeOK, ReadWorkspace, Steps, Submitting, Request, hand
<1>17. CASE Send
  BY <1>2, <1>17
  DEF TypeOK, Send, Steps, Submitting, Headers, Request, Environment, hand
<1>18. CASE UNCHANGED vars
  BY <1>18 DEF TypeOK, vars, hand, loop, Headers, Request
<1>. QED
  BY <1>4, <1>5, <1>6, <1>7, <1>9, <1>10, <1>11, <1>12, <1>13, <1>14, <1>15, <1>16, <1>17, <1>18
  DEF Next, HandlerStep, LoopStep, Done

LEMMA EnvKept ==
  ASSUME TypeOK, EnvIsKept, [Next]_vars
  PROVE  EnvIsKept'
<1>1. saved \in Auth /\ settings \in Environment /\ env \in Environment
  BY DEF TypeOK
<1>2. ASSUME NEW m, NEW answer, Receive(m, answer)
      PROVE  EnvIsKept'
  BY <1>2 DEF EnvIsKept, Override, Receive, Submitting
<1>3. CASE Classify
  BY <1>3 DEF EnvIsKept, Override, Classify, GoOn, TryAgain, Leave, Submitting
<1>4. ASSUME NEW g, Propose(g)
      PROVE  EnvIsKept'
  BY <1>4 DEF EnvIsKept, Override, Propose, TryAgain, Leave, Submitting
<1>5. CASE PlanFails
  BY <1>5 DEF EnvIsKept, Override, PlanFails, TryAgain, Leave, Submitting
<1>6. CASE SetToken
  BY <1>1, <1>6 DEF EnvIsKept, Override, SetToken, SetEnv, First, Submitting, Environment, Auth, Input
<1>7. CASE SetWorkspace
  BY <1>1, <1>7 DEF EnvIsKept, Override, SetWorkspace, First, Submitting, Environment, Auth, Input
<1>8. CASE Submit
  BY <1>8 DEF EnvIsKept, Override, Submit, Submitting, hand, Input
<1>9. CASE RestoreToken
  BY <1>1, <1>9
  DEF EnvIsKept, Override, RestoreToken, Restored, SetEnv, First, Submitting, Environment, Auth, hand, Input
<1>10. CASE RestoreWorkspace
  BY <1>1, <1>10
  DEF EnvIsKept, Override, RestoreWorkspace, Restored, SetEnv, First, Submitting, Environment, Auth
<1>11. CASE LoopStep \/ UNCHANGED vars
  BY <1>11
  DEF EnvIsKept, Override, LoopStep, Begin, ReadToken, ReadWorkspace, Send, vars, hand, Input
<1>. QED
  BY <1>2, <1>3, <1>4, <1>5, <1>6, <1>7, <1>8, <1>9, <1>10, <1>11 DEF Next, HandlerStep, Done

\* Between two steps of its making, headers only lose their claim on the settings.
LEMMA SendingStays ==
  ASSUME TypeOK, SendingIsOwn, RunsKept, settings' = settings,
         \/ sending' = sending /\ env' = env
         \/ sending' = Crossed
  PROVE  SendingIsOwn'
<1>1. CASE sending = NoRequest
  BY <1>1 DEF SendingIsOwn, Crossed
<1>2. CASE sending # NoRequest
  <2>1. sending \in Headers /\ sending.run \in DOMAIN runs
    BY <1>2 DEF TypeOK, Headers
  <2>2. /\ sending'.run = sending.run /\ sending'.job = sending.job
        /\ sending'.stage = sending.stage
        /\ sending'.token = sending.token /\ sending'.workspace = sending.workspace
        /\ \/ sending'.crossed
           \/ sending'.crossed = sending.crossed /\ env' = env
    BY <1>2, <2>1 DEF Crossed, Headers
  <2>3. /\ runs'[sending.run].input = runs[sending.run].input
        /\ DOMAIN runs'[sending.run].work = DOMAIN runs[sending.run].work
    BY <2>1 DEF RunsKept
  <2>. QED
    BY <1>2, <2>2, <2>3 DEF SendingIsOwn
<1>. QED
  BY <1>1, <1>2

LEMMA SendingKept ==
  ASSUME TypeOK, EnvIsKept, SendingIsOwn, [Next]_vars
  PROVE  SendingIsOwn'
<1>1. RunsKept
  BY NextKeeps
<1>2. CASE settings' = settings /\ ((sending' = sending /\ env' = env) \/ sending' = Crossed)
  BY <1>1, <1>2, SendingStays
<1>3. ASSUME NEW r \in DOMAIN runs, NEW job \in DOMAIN runs[r].work, ReadToken(r, job)
      PROVE  SendingIsOwn'
  <2>1. ~Overriding => env.token = settings.token /\ env.workspace = settings.workspace
    BY DEF EnvIsKept, Override, Overriding, First, Submitting
  <2>. QED
    BY <1>3, <2>1 DEF ReadToken, SendingIsOwn, OwnFirst, First
<1>4. CASE ReadWorkspace
  <2>1. sending \in Headers /\ sending.run \in DOMAIN runs
    BY <1>4 DEF ReadWorkspace, TypeOK, Headers
  <2>2. PICK w : /\ w = OwnFirst(runs[sending.run].input.workspace, env.workspace)
                 /\ sending' = [sending EXCEPT !.stage = "workspace", !.workspace = w]
    BY <1>4 DEF ReadWorkspace
  <2>3. /\ sending'.run = sending.run /\ sending'.job = sending.job
        /\ sending'.token = sending.token /\ sending'.workspace = w
        /\ sending'.crossed = sending.crossed
    BY <2>1, <2>2 DEF Headers
  <2>4. env' = env /\ settings' = settings /\ runs' = runs /\ sending # NoRequest
    BY <1>4 DEF ReadWorkspace
  <2>. QED
    BY <2>2, <2>3, <2>4 DEF SendingIsOwn, OwnFirst, First
<1>5. CASE Send
  BY <1>5 DEF Send, SendingIsOwn
<1>. QED
  BY <1>2, <1>3, <1>4, <1>5
  DEF Next, HandlerStep, LoopStep, vars, loop, Receive, Classify, Propose, PlanFails, SetToken,
      SetWorkspace, SetEnv, Submit, RestoreToken, RestoreWorkspace, Begin, Done

\* A request that was sent: its run keeps its message, and the slug does not come back.
LEMMA RequestStays ==
  ASSUME TypeOK, EnvIsKept, RequestsCarryOwnCredentials, RunsKept,
         settings' = settings, request' = request, env'.slug \in {env.slug, Blank}
  PROVE  RequestsCarryOwnCredentials'
<1>1. SUFFICES ASSUME request # NoRequest
               PROVE  CarriesOwn(request)'
  BY DEF RequestsCarryOwnCredentials
<1>2. request.run \in DOMAIN runs
  BY <1>1 DEF TypeOK, Request
<1>3. /\ runs'[request.run].message = runs[request.run].message
      /\ runs'[request.run].input = runs[request.run].input
  BY <1>2 DEF RunsKept
<1>4. CarriesOwn(request)
  BY <1>1 DEF RequestsCarryOwnCredentials
<1>. QED
  BY <1>3, <1>4 DEF CarriesOwn, EnvIsKept

LEMMA RequestKept ==
  ASSUME TypeOK, EnvIsKept, SendingIsOwn, RequestsCarryOwnCredentials, [Next]_vars
  PROVE  RequestsCarryOwnCredentials'
<1>1. RunsKept
  BY NextKeeps
<1>2. CASE settings' = settings /\ request' = request /\ env'.slug \in {env.slug, Blank}
  BY <1>1, <1>2, RequestStays
<1>3. CASE Send
  <2>1. sending \in Headers /\ sending.run \in DOMAIN runs
    BY <1>3 DEF Send, TypeOK, Headers
  <2>2. RunOK(runs[sending.run]) /\ settings \in Environment /\ env \in Environment
    BY <2>1 DEF TypeOK
  <2>3. /\ runs'[sending.run].message = runs[sending.run].message
        /\ runs'[sending.run].input = runs[sending.run].input
    BY <1>1, <2>1 DEF RunsKept
  <2>4. env' = env /\ settings' = settings /\ sending # NoRequest /\ sending.stage = "workspace"
    BY <1>3 DEF Send
  <2>5. PICK slug, sent :
          /\ slug = (IF sending.workspace # Blank THEN Blank ELSE env.slug)
          /\ sent = (sending.token # Blank /\ (sending.workspace # Blank \/ slug # Blank))
          /\ request' = [run |-> sending.run, token |-> sending.token,
                         workspace |-> sending.workspace,
                         slug |-> slug, sent |-> sent, crossed |-> sending.crossed]
    BY <1>3 DEF Send
  <2>6. /\ request'.run = sending.run /\ request'.token = sending.token
        /\ request'.workspace = sending.workspace /\ request'.slug = slug
        /\ request'.sent = sent /\ request'.crossed = sending.crossed
    BY <2>5
  <2>7. HasCreds(runs[sending.run].message) =>
          /\ sending.token = Creds(runs[sending.run].message).token
          /\ sending.workspace = Creds(runs[sending.run].message).workspace
          /\ sending.token # Blank /\ sending.workspace # Blank
    BY <2>2, <2>4 DEF SendingIsOwn, RunOK, HasCreds
  <2>8. CarriesOwn(request)'
    BY <2>2, <2>3, <2>4, <2>5, <2>6, <2>7 DEF CarriesOwn, SendingIsOwn, EnvIsKept
  <2>. QED
    BY <2>8 DEF RequestsCarryOwnCredentials
<1>4. ASSUME \/ \E m \in Message, answer \in Roster \union {Unavailable} : Receive(m, answer)
             \/ HandlerStep \/ Submit
      PROVE  settings' = settings /\ request' = request
  BY <1>4
  DEF HandlerStep, loop, Receive, Classify, Propose, PlanFails, SetToken, SetWorkspace, Submit,
      RestoreToken, RestoreWorkspace
<1>5. ASSUME \/ \E m \in Message, answer \in Roster \union {Unavailable} : Receive(m, answer)
             \/ HandlerStep \/ Submit
      PROVE  env'.slug \in {env.slug, Blank}
  <2>1. env \in Environment
    BY DEF TypeOK
  <2>. QED
    BY <1>5, <2>1
    DEF HandlerStep, Receive, Classify, Propose, PlanFails, SetToken, SetWorkspace, Submit,
        RestoreToken, RestoreWorkspace, SetEnv, Environment
<1>6. ASSUME LoopStep \/ Done \/ UNCHANGED vars, ~Send
      PROVE  settings' = settings /\ request' = request /\ env' = env
  BY <1>6 DEF LoopStep, Begin, ReadToken, ReadWorkspace, Done, vars, loop
<1>. QED
  BY <1>2, <1>3, <1>4, <1>5, <1>6 DEF Next

-----------------------------------------------------------------------------
(* The bots a message may set to work: the lists are dicts, by user id.    *)

IsDict(list) == \A j, k \in DOMAIN list : list[j].user = list[k].user => j = k

Dicts == {list \in Seq(Profile) : IsDict(list)}

LEMMA PutKeepsDict ==
  ASSUME NEW list \in Dicts, NEW b \in Profile
  PROVE  Put(list, b) \in Dicts
<1>1. list \in Seq(Profile) /\ IsDict(list) /\ Len(list) \in Nat /\ DOMAIN list = 1 .. Len(list)
  BY DEF Dicts
<1>2. CASE \E k \in DOMAIN list : list[k].user = b.user
  <2>1. Put(list, b) = [k \in DOMAIN list |-> IF list[k].user = b.user THEN b ELSE list[k]]
    BY <1>2 DEF Put
  <2>2. Put(list, b) \in Seq(Profile)
    BY <1>1, <2>1
  <2>3. DOMAIN Put(list, b) = DOMAIN list /\ \A k \in DOMAIN list : Put(list, b)[k].user = list[k].user
    BY <2>1
  <2>. QED
    BY <1>1, <2>2, <2>3 DEF Dicts, IsDict
<1>3. CASE ~\E k \in DOMAIN list : list[k].user = b.user
  <2>1. Put(list, b) = Append(list, b)
    BY <1>3 DEF Put
  <2>2. Put(list, b) \in Seq(Profile)
    BY <1>1, <2>1
  <2>3. /\ DOMAIN Put(list, b) = 1 .. Len(list) + 1 /\ Put(list, b)[Len(list) + 1] = b
        /\ \A k \in DOMAIN list : Put(list, b)[k] = list[k]
    BY <1>1, <2>1
  <2>4. IsDict(Put(list, b))
    BY <1>1, <1>3, <2>3 DEF IsDict
  <2>. QED
    BY <2>2, <2>4 DEF Dicts
<1>. QED
  BY <1>2, <1>3

LEMMA FindType ==
  ASSUME NEW list \in Seq(Profile), NEW name, NEW default \in Profile
  PROVE  Find(list, name, default) \in Profile
BY DEF Find

LEMMA AssistantType ==
  ASSUME NEW name \in Name, NEW user \in User
  PROVE  AssistantBot(name, user) \in Profile
BY DEF AssistantBot, Profile

LEMMA MentionType ==
  ASSUME NEW m \in Message
  PROVE  /\ m.mentions \in Seq(Mention) /\ m.sender \in User
         /\ \A k \in 1 .. Len(m.mentions) : m.mentions[k].entity \in Name
<1>1. m.mentions \in Seq(Mention) /\ m.sender \in User
  BY BotsAssumption
<1>2. \A k \in 1 .. Len(m.mentions) : m.mentions[k] \in Mention
  BY <1>1
<1>. QED
  BY <1>1, <1>2 DEF Mention

LEMMA RosterFills ==
  ASSUME NEW roster \in Seq(Profile)
  PROVE  Filled(<<>>, roster, Put) \in Dicts
<1> DEFINE N == Len(roster)
           Body(f) == [k \in 0 .. N |-> IF k = 0 THEN <<>> ELSE Put(f[k - 1], roster[k])]
           put == [p \in (1 .. N) \X Dicts |-> Put(p[2], roster[p[1]])]
<1>1. N \in Nat /\ <<>> \in Dicts
  BY DEF Dicts, IsDict
<1>2. put \in StepsOf(N, Dicts)
  <2>1. \A k \in 1 .. N : roster[k] \in Profile
    OBVIOUS
  <2>. QED
    BY <2>1, PutKeepsDict DEF StepsOf
<1>3. \A k \in 1 .. N, d \in Dicts : put[<<k, d>>] = Put(d, roster[k])
  OBVIOUS
<1>4. PICK f : f = CHOOSE h : h = Body(h)
  OBVIOUS
<1>5. Filled(<<>>, roster, Put) = f[N]
  BY <1>4, Zenon DEF Filled
<1> HIDE DEF N, put
<1>6. PICK g : IsRun(g, N, Dicts, <<>>, put)
  BY ONLY <1>1, <1>2, RecursionUpTo
<1>7. g \in [0 .. N -> Dicts] /\ g[0] = <<>> /\ \A k \in 1 .. N : g[k] = put[<<k, g[k - 1]>>]
  BY <1>6 DEF IsRun
<1>8. g = Body(g)
  <2>1. \A k \in 1 .. N : g[k] = Put(g[k - 1], roster[k])
    <3>1. ASSUME NEW k \in 1 .. N
          PROVE  g[k] = Put(g[k - 1], roster[k])
      <4>1. k - 1 \in 0 .. N
        BY <1>1
      <4>. QED
        BY <1>3, <1>7, <4>1
    <3>. QED
      BY <3>1
  <2>. QED
    BY <1>1, <1>7, <2>1
<1>9. f = Body(f)
  <2> HIDE DEF Body
  <2>. QED
    BY <1>4, <1>8
<1>10. f[0] = <<>> /\ \A k \in 1 .. N : f[k - 1] \in Dicts => f[k] = put[<<k, f[k - 1]>>]
  BY <1>1, <1>3, <1>9
<1>11. f[N] = g[N] /\ N \in 0 .. N
  <2> HIDE DEF Body
  <2>. QED
    BY <1>1, <1>6, <1>10, RunsAgree
<1>. QED
  BY <1>5, <1>7, <1>11

LEMMA MentionKeepsDict ==
  ASSUME NEW list \in Dicts, NEW m \in Message, NEW k \in 1 .. Len(m.mentions)
  PROVE  /\ AddMentioned(list, m.mentions[k], m) \in Dicts
         /\ AddClaimed(list, m.mentions[k], m) \in Dicts
<1>1. list \in Seq(Profile) /\ list \o Registry \in Seq(Profile)
  BY BotsAssumption DEF Dicts
<1>2. m.mentions[k].entity \in Name /\ m.sender \in User
  BY MentionType
<1> DEFINE default == AssistantBot(m.mentions[k].entity, m.sender)
<1>3. default \in Profile
  BY <1>2, AssistantType
<1> HIDE DEF default
<1>4. \A name : /\ Find(list, name, default) \in Profile
                /\ Find(list \o Registry, name, default) \in Profile
  BY <1>1, <1>3, FindType
<1>5. \A b \in Profile : [b EXCEPT !.owner = m.sender, !.shared = FALSE] \in Profile
  BY <1>2 DEF Profile
<1>. QED
  BY <1>4, <1>5, PutKeepsDict DEF AddMentioned, AddClaimed, default

LEMMA OwnedFill ==
  ASSUME NEW m \in Message
  PROVE  Filled(<<>>, Registry, LAMBDA list, b : AddOwned(list, b, m)) \in Dicts
<1> DEFINE N == Len(Registry)
           Body(f) == [k \in 0 .. N |-> IF k = 0 THEN <<>> ELSE AddOwned(f[k - 1], Registry[k], m)]
           add == [p \in (1 .. N) \X Dicts |-> AddOwned(p[2], Registry[p[1]], m)]
<1>1. N \in Nat /\ <<>> \in Dicts
  BY BotsAssumption DEF Dicts, IsDict
<1>2. add \in StepsOf(N, Dicts)
  <2>1. \A k \in 1 .. N : Registry[k] \in Profile
    BY BotsAssumption
  <2>. QED
    BY <2>1, PutKeepsDict DEF StepsOf, AddOwned
<1>3. \A k \in 1 .. N, d \in Dicts : add[<<k, d>>] = AddOwned(d, Registry[k], m)
  OBVIOUS
<1>4. PICK f : f = CHOOSE h : h = Body(h)
  OBVIOUS
<1>5. Filled(<<>>, Registry, LAMBDA list, b : AddOwned(list, b, m)) = f[N]
  BY <1>4, Zenon DEF Filled
<1> HIDE DEF N, add
<1>6. PICK g : IsRun(g, N, Dicts, <<>>, add)
  BY ONLY <1>1, <1>2, RecursionUpTo
<1>7. g \in [0 .. N -> Dicts] /\ g[0] = <<>> /\ \A k \in 1 .. N : g[k] = add[<<k, g[k - 1]>>]
  BY <1>6 DEF IsRun
<1>8. g = Body(g)
  <2>1. \A k \in 1 .. N : g[k] = AddOwned(g[k - 1], Registry[k], m)
    <3>1. ASSUME NEW k \in 1 .. N
          PROVE  g[k] = AddOwned(g[k - 1], Registry[k], m)
      <4>1. k - 1 \in 0 .. N
        BY <1>1
      <4>. QED
        BY <1>3, <1>7, <4>1
    <3>. QED
      BY <3>1
  <2>. QED
    BY <1>1, <1>7, <2>1
<1>9. f = Body(f)
  <2> HIDE DEF Body
  <2>. QED
    BY <1>4, <1>8
<1>10. f[0] = <<>> /\ \A k \in 1 .. N : f[k - 1] \in Dicts => f[k] = add[<<k, f[k - 1]>>]
  BY <1>1, <1>3, <1>9
<1>11. f[N] = g[N] /\ N \in 0 .. N
  <2> HIDE DEF Body
  <2>. QED
    BY <1>1, <1>6, <1>10, RunsAgree
<1>. QED
  BY <1>5, <1>7, <1>11

LEMMA MentionsFill ==
  ASSUME NEW m \in Message, NEW start \in Dicts
  PROVE  Filled(start, m.mentions, LAMBDA list, mention : AddMentioned(list, mention, m)) \in Dicts
<1> DEFINE N == Len(m.mentions)
           Body(f) == [k \in 0 .. N |-> IF k = 0 THEN start ELSE AddMentioned(f[k - 1], m.mentions[k], m)]
           add == [p \in (1 .. N) \X Dicts |-> AddMentioned(p[2], m.mentions[p[1]], m)]
<1>1. N \in Nat /\ start \in Dicts
  BY MentionType
<1>2. add \in StepsOf(N, Dicts)
  BY MentionKeepsDict DEF StepsOf
<1>3. \A k \in 1 .. N, d \in Dicts : add[<<k, d>>] = AddMentioned(d, m.mentions[k], m)
  OBVIOUS
<1>4. PICK f : f = CHOOSE h : h = Body(h)
  OBVIOUS
<1>5. Filled(start, m.mentions, LAMBDA list, mention : AddMentioned(list, mention, m)) = f[N]
  BY <1>4, Zenon DEF Filled
<1> HIDE DEF N, add
<1>6. PICK g : IsRun(g, N, Dicts, start, add)
  BY ONLY <1>1, <1>2, RecursionUpTo
<1>7. g \in [0 .. N -> Dicts] /\ g[0] = start /\ \A k \in 1 .. N : g[k] = add[<<k, g[k - 1]>>]
  BY <1>6 DEF IsRun
<1>8. g = Body(g)
  <2>1. \A k \in 1 .. N : g[k] = AddMentioned(g[k - 1], m.mentions[k], m)
    <3>1. ASSUME NEW k \in 1 .. N
          PROVE  g[k] = AddMentioned(g[k - 1], m.mentions[k], m)
      <4>1. k - 1 \in 0 .. N
        BY <1>1
      <4>. QED
        BY <1>3, <1>7, <4>1
    <3>. QED
      BY <3>1
  <2>. QED
    BY <1>1, <1>7, <2>1
<1>9. f = Body(f)
  <2> HIDE DEF Body
  <2>. QED
    BY <1>4, <1>8
<1>10. f[0] = start /\ \A k \in 1 .. N : f[k - 1] \in Dicts => f[k] = add[<<k, f[k - 1]>>]
  BY <1>1, <1>3, <1>9
<1>11. f[N] = g[N] /\ N \in 0 .. N
  <2> HIDE DEF Body
  <2>. QED
    BY <1>1, <1>6, <1>10, RunsAgree
<1>. QED
  BY <1>5, <1>7, <1>11

LEMMA ClaimsFill ==
  ASSUME NEW m \in Message, NEW start \in Dicts
  PROVE  Filled(start, m.mentions, LAMBDA list, mention : AddClaimed(list, mention, m)) \in Dicts
<1> DEFINE N == Len(m.mentions)
           Body(f) == [k \in 0 .. N |-> IF k = 0 THEN start ELSE AddClaimed(f[k - 1], m.mentions[k], m)]
           add == [p \in (1 .. N) \X Dicts |-> AddClaimed(p[2], m.mentions[p[1]], m)]
<1>1. N \in Nat /\ start \in Dicts
  BY MentionType
<1>2. add \in StepsOf(N, Dicts)
  BY MentionKeepsDict DEF StepsOf
<1>3. \A k \in 1 .. N, d \in Dicts : add[<<k, d>>] = AddClaimed(d, m.mentions[k], m)
  OBVIOUS
<1>4. PICK f : f = CHOOSE h : h = Body(h)
  OBVIOUS
<1>5. Filled(start, m.mentions, LAMBDA list, mention : AddClaimed(list, mention, m)) = f[N]
  BY <1>4, Zenon DEF Filled
<1> HIDE DEF N, add
<1>6. PICK g : IsRun(g, N, Dicts, start, add)
  BY ONLY <1>1, <1>2, RecursionUpTo
<1>7. g \in [0 .. N -> Dicts] /\ g[0] = start /\ \A k \in 1 .. N : g[k] = add[<<k, g[k - 1]>>]
  BY <1>6 DEF IsRun
<1>8. g = Body(g)
  <2>1. \A k \in 1 .. N : g[k] = AddClaimed(g[k - 1], m.mentions[k], m)
    <3>1. ASSUME NEW k \in 1 .. N
          PROVE  g[k] = AddClaimed(g[k - 1], m.mentions[k], m)
      <4>1. k - 1 \in 0 .. N
        BY <1>1
      <4>. QED
        BY <1>3, <1>7, <4>1
    <3>. QED
      BY <3>1
  <2>. QED
    BY <1>1, <1>7, <2>1
<1>9. f = Body(f)
  <2> HIDE DEF Body
  <2>. QED
    BY <1>4, <1>8
<1>10. f[0] = start /\ \A k \in 1 .. N : f[k - 1] \in Dicts => f[k] = add[<<k, f[k - 1]>>]
  BY <1>1, <1>3, <1>9
<1>11. f[N] = g[N] /\ N \in 0 .. N
  <2> HIDE DEF Body
  <2>. QED
    BY <1>1, <1>6, <1>10, RunsAgree
<1>. QED
  BY <1>5, <1>7, <1>11

LEMMA OwnedBotsAreDict ==
  ASSUME NEW m \in Message, NEW answer \in Roster \union {Unavailable}
  PROVE  OwnedBots(m, answer) \in Dicts
<1>1. FromRegistry(m) \in Dicts
  BY OwnedFill, ClaimsFill, Zenon DEF FromRegistry
<1>2. ASSUME answer # Unavailable
      PROVE  FromService(m, answer) \in Dicts
  <2>1. answer \in Seq(Profile)
    BY <1>2, BotsAssumption
  <2>. QED
    BY <2>1, RosterFills, MentionsFill, Zenon DEF FromService
<1>3. HasCreds(m) => <<DefaultBot(m)>> \in Dicts
  <2>. SUFFICES ASSUME HasCreds(m)
                PROVE  <<DefaultBot(m)>> \in Dicts
    OBVIOUS
  <2>1. Creds(m).workspace \in Name
    BY CredsType DEF HasCreds, Auth
  <2>2. \A k \in 1 .. Len(m.mentions) : m.mentions[k].entity \in Name
    BY MentionType
  <2>3. m.mentions # <<>> => m.mentions[1].entity \in Name
    <3>1. m.mentions \in Seq(Mention)
      BY MentionType
    <3>2. m.mentions # <<>> => 1 \in 1 .. Len(m.mentions)
      BY <3>1
    <3>. QED
      BY <2>2, <3>2
  <2>4. Prefixed[Creds(m).workspace] \in Name
    BY <2>1, BotsAssumption
  <2>5. \A name \in Name : [AssistantBot(name, m.sender) EXCEPT !.agent = Creds(m).workspace] \in Profile
    BY <2>1, MentionType DEF AssistantBot, Profile
  <2>6. DefaultBot(m) \in Profile
    BY <2>3, <2>4, <2>5 DEF DefaultBot
  <2>. QED
    BY <2>6 DEF Dicts, IsDict
<1>. QED
  BY <1>1, <1>2, <1>3 DEF OwnedBots

LEMMA PlanFitsKept ==
  ASSUME TypeOK, PlanFitsBots, [Next]_vars
  PROVE  PlanFitsBots'
<1>1. ASSUME NEW m \in Message, NEW answer \in Roster \union {Unavailable}, Receive(m, answer)
      PROVE  PlanFitsBots'
  <2>1. graph = NoGraph /\ graph' = graph /\ (bots' = bots \/ bots' = OwnedBots(m, answer))
    BY <1>1 DEF Receive, PlanFitsBots
  <2>2. bots' \in Dicts
    BY <2>1, OwnedBotsAreDict DEF PlanFitsBots, Dicts, IsDict
  <2>. QED
    BY <2>1, <2>2 DEF PlanFitsBots, Dicts, IsDict
<1>2. ASSUME bots' = <<>>, graph' = NoGraph
      PROVE  PlanFitsBots'
  BY <1>2 DEF PlanFitsBots
<1>3. ASSUME UNCHANGED <<bots, graph, message>>,
             step' \in {"idle", "intent", "plan"} => step \in {"idle", "intent", "plan"}
      PROVE  PlanFitsBots'
  BY <1>3 DEF PlanFitsBots, Accepts
<1>4. ASSUME NEW g \in Proposal, Propose(g), Accepts(g)
      PROVE  PlanFitsBots'
  BY <1>4 DEF PlanFitsBots, Propose, Accepts
<1>5. ASSUME NEW limit, TryAgain(limit), step' = step \/ step' = "idle"
      PROVE  PlanFitsBots'
  BY <1>2, <1>3, <1>5 DEF TryAgain, Leave
<1>6. CASE Classify \/ PlanFails \/ \E g \in Proposal : Propose(g)
  BY <1>2, <1>3, <1>4, <1>6 DEF Classify, PlanFails, Propose, TryAgain, Leave, GoOn
<1>7. CASE SetToken \/ SetWorkspace \/ Submit \/ RestoreToken
  BY <1>3, <1>7 DEF SetToken, SetWorkspace, Submit, RestoreToken, hand
<1>8. CASE RestoreWorkspace
  BY <1>2, <1>8 DEF RestoreWorkspace
<1>9. CASE LoopStep \/ Done \/ UNCHANGED vars
  BY <1>3, <1>9 DEF LoopStep, Begin, ReadToken, ReadWorkspace, Send, Done, vars, hand
<1>. QED
  BY <1>1, <1>6, <1>7, <1>8, <1>9 DEF Next, HandlerStep

\* The bot with a node's key is found by that key, unless a later one takes its place.
LEMMA KeyIsFound ==
  ASSUME PlanFitsBots, NEW b \in ToSet(bots), ~TakenOver(b.user)
  PROVE  NamedBot(b.user) = b /\ Resolve(bots, b.user) = b
<1>1. /\ bots \in Seq(Profile) /\ IsDict(bots) /\ Len(bots) \in Nat
      /\ DOMAIN bots = 1 .. Len(bots)
  BY DEF PlanFitsBots, IsDict
<1>2. PICK k \in DOMAIN bots : b = bots[k]
  BY <1>1 DEF ToSet, Range
<1>3. b \in Profile
  BY <1>1, <1>2
<1>4. \A c \in ToSet(bots) : c.user = b.user => c = b
  BY <1>1, <1>2 DEF IsDict, ToSet, Range
<1>5. NamedBot(b.user) = b
  BY <1>4 DEF NamedBot
<1> DEFINE places == {i \in DOMAIN bots : b.user \in Keys(bots[i])}
<1>6. b.user # Blank
  BY <1>3, BotsAssumption DEF Profile
<1>7. k \in places
  BY <1>2, <1>6 DEF Keys
<1>8. ASSUME NEW i \in places
      PROVE  i <= k
  <2>. SUFFICES ASSUME k < i
                PROVE  FALSE
    BY <1>1
  <2>1. bots[i].user # b.user
    BY <1>1, <1>2 DEF IsDict
  <2>2. b.user \in {bots[i].agent, bots[i].display, Lower[bots[i].display]}
    BY <2>1 DEF Keys
  <2>. QED
    BY <1>2, <2>2 DEF TakenOver
<1>9. Max(places) = k
  <2>1. \A i \in places : i \in Int /\ k \in Int
    BY <1>1
  <2> HIDE DEF places
  <2>. QED
    BY <1>7, <1>8, <2>1 DEF Max
<1>10. LastWith(bots, b.user) = b
  BY <1>2, <1>7, <1>9 DEF LastWith
<1>11. NoBot.user = Blank
  BY DEF NoBot, AssistantBot
<1>. QED
  BY <1>5, <1>6, <1>10, <1>11 DEF Resolve
-----------------------------------------------------------------------------
(* The rounds of a graph without cycles.                                   *)

\* Rounds in which the nodes are completed whose predecessors are completed before.
AreRounds(done, N, ids, edges) ==
  /\ N \in Nat /\ done[0] = {} /\ \A k \in 0 .. N : done[k] \in SUBSET ids
  /\ \A k \in 1 .. N, n \in ids :
       n \in done[k] <=> n \in done[k - 1] \/ Before(edges, n) \subseteq done[k - 1]

LEMMA CompletedRounds ==
  ASSUME NEW ids, IsFiniteSet(ids), NEW edges
  PROVE  AreRounds(Completed(ids, edges), Cardinality(ids), ids, edges)
<1> DEFINE N == Cardinality(ids)
           V == SUBSET ids
           none == {}
           Ready(D) == {n \in ids : Before(edges, n) \subseteq D}
           Body(f) == [k \in 0 .. N |-> IF k = 0 THEN {} ELSE f[k - 1] \union Ready(f[k - 1])]
           round == [p \in (1 .. N) \X V |-> p[2] \union Ready(p[2])]
<1>1. N \in Nat /\ none \in V
  BY FS_CardinalityType
<1>2. round \in StepsOf(N, V)
  BY DEF StepsOf
<1>3. \A k \in 1 .. N, D \in V : round[<<k, D>>] = D \union Ready(D)
  OBVIOUS
<1>4. PICK f : f = CHOOSE h : h = Body(h)
  OBVIOUS
<1>5. Completed(ids, edges) = f
  BY <1>4, Zenon DEF Completed
<1> HIDE DEF N, round, V, none
<1>6. PICK g : IsRun(g, N, V, none, round)
  BY ONLY <1>1, <1>2, RecursionUpTo
<1>7. g \in [0 .. N -> V] /\ g[0] = none /\ \A k \in 1 .. N : g[k] = round[<<k, g[k - 1]>>]
  BY ONLY <1>6 DEF IsRun
<1>8. \A k \in 1 .. N : k - 1 \in 0 .. N /\ g[k - 1] \in V
  BY <1>1, <1>7
<1>9. \A k \in 1 .. N : g[k] = g[k - 1] \union Ready(g[k - 1])
  BY <1>3, <1>7, <1>8
<1>10. g = Body(g)
  <2>1. \A k \in 0 .. N : g[k] = Body(g)[k]
    <3>1. \A k \in 0 .. N : k # 0 => k \in 1 .. N
      BY <1>1
    <3>. QED
      BY <1>7, <1>9, <3>1 DEF none
  <2>. QED
    BY <1>7, <2>1
<1>11. f = Body(f)
  BY <1>4, <1>10
<1>12. f[0] = none /\ \A k \in 1 .. N : f[k - 1] \in V => f[k] = round[<<k, f[k - 1]>>]
  <2>1. \A k \in 0 .. N : f[k] = IF k = 0 THEN {} ELSE f[k - 1] \union Ready(f[k - 1])
    BY <1>11
  <2>2. 0 \in 0 .. N /\ \A k \in 1 .. N : k \in 0 .. N /\ k # 0
    BY <1>1
  <2>. QED
    BY <1>3, <2>1, <2>2 DEF none
<1>13. \A k \in 0 .. N : f[k] = g[k]
  BY ONLY <1>1, <1>6, <1>12, RunsAgree
<1>14. \A k \in 1 .. N : k - 1 \in 0 .. N /\ k \in 0 .. N
  BY <1>1
<1>15. \A k \in 1 .. N, n \in ids :
         n \in f[k] <=> n \in f[k - 1] \/ Before(edges, n) \subseteq f[k - 1]
  <2>1. \A k \in 1 .. N : f[k] = f[k - 1] \union Ready(f[k - 1])
    BY <1>9, <1>13, <1>14
  <2>. QED
    BY <2>1
<1>16. \A k \in 0 .. N : f[k] \in SUBSET ids
  BY <1>7, <1>13 DEF V
<1>. QED
  BY <1>1, <1>5, <1>12, <1>15, <1>16 DEF AreRounds, N, none

LEMMA RoundsGrow ==
  ASSUME NEW done, NEW N, NEW ids, NEW edges, AreRounds(done, N, ids, edges)
  PROVE  \A j, k \in 0 .. N : j <= k => done[j] \subseteq done[k]
<1>. SUFFICES ASSUME NEW j \in 0 .. N
              PROVE  \A k \in 0 .. N : j <= k => done[j] \subseteq done[k]
  OBVIOUS
<1>. N \in Nat
  BY DEF AreRounds
<1> DEFINE T == {k \in 0 .. N : j <= k => done[j] \subseteq done[k]}
<1>1. 0 \in T
  OBVIOUS
<1>2. ASSUME NEW k \in 1 .. N, k - 1 \in T
      PROVE  k \in T
  <2>1. done[k - 1] \subseteq done[k]
    <3>1. k - 1 \in 0 .. N
      OBVIOUS
    <3>. QED
      BY <3>1 DEF AreRounds
  <2>2. j <= k => j = k \/ j <= k - 1
    OBVIOUS
  <2>. QED
    BY <1>2, <2>1, <2>2
<1> HIDE DEF T
<1>3. \A k \in 0 .. N : k \in T
  BY <1>1, <1>2, UpTo
<1>. QED
  BY <1>3 DEF T

\* A round that completes nothing is the last one that matters.
LEMMA StuckStays ==
  ASSUME NEW done, NEW N, NEW ids, NEW edges, AreRounds(done, N, ids, edges),
         NEW j \in 1 .. N, done[j] = done[j - 1]
  PROVE  \A k \in 0 .. N : j <= k => done[k] = done[j]
<1>. N \in Nat
  BY DEF AreRounds
<1> DEFINE T == {k \in 0 .. N : j <= k => done[k] = done[j]}
<1>1. 0 \in T
  OBVIOUS
<1>2. ASSUME NEW k \in 1 .. N, k - 1 \in T
      PROVE  k \in T
  <2>1. CASE j <= k - 1
    <3>1. done[k - 1] = done[j] /\ done[k - 1] = done[j - 1]
      BY <1>2, <2>1
    <3>2. \A n \in ids : n \in done[k] <=> n \in done[j]
      BY <3>1 DEF AreRounds
    <3>3. done[k] \in SUBSET ids /\ done[j] \in SUBSET ids
      BY DEF AreRounds
    <3>. QED
      BY <3>2, <3>3
  <2>2. CASE ~(j <= k - 1)
    <3>1. j <= k => j = k
      BY <2>2
    <3>. QED
      BY <3>1
  <2>. QED
    BY <2>1, <2>2
<1> HIDE DEF T
<1>3. \A k \in 0 .. N : k \in T
  BY <1>1, <1>2, UpTo
<1>. QED
  BY <1>3 DEF T

\* After as many rounds as there are nodes no node is ready that is not completed.
LEMMA NothingLeftReady ==
  ASSUME NEW ids, IsFiniteSet(ids), NEW edges, NEW done,
         AreRounds(done, Cardinality(ids), ids, edges)
  PROVE  \A n \in ids :
           Before(edges, n) \subseteq done[Cardinality(ids)] => n \in done[Cardinality(ids)]
<1> DEFINE N == Cardinality(ids)
<1>. N \in Nat
  BY DEF AreRounds
<1>1. CASE \E j \in 1 .. N : done[j] = done[j - 1]
  <2>1. PICK j \in 1 .. N : done[j] = done[j - 1]
    BY <1>1
  <2>2. done[N] = done[j]
    BY <2>1, StuckStays
  <2>. QED
    BY <2>1, <2>2 DEF AreRounds
<1>2. CASE \A j \in 1 .. N : done[j] # done[j - 1]
  <2> DEFINE T == {k \in 0 .. N : k <= Cardinality(done[k])}
  <2>0. \A k \in 0 .. N : IsFiniteSet(done[k]) /\ Cardinality(done[k]) \in Nat
    BY FS_Subset, FS_CardinalityType DEF AreRounds
  <2>1. 0 \in T
    BY <2>0
  <2>2. ASSUME NEW k \in 1 .. N, k - 1 \in T
        PROVE  k \in T
    <3>1. k - 1 \in 0 .. N /\ k \in 0 .. N /\ k - 1 <= k
      OBVIOUS
    <3>2. done[k - 1] \in SUBSET done[k] /\ done[k - 1] # done[k]
      BY <1>2, <3>1, RoundsGrow
    <3>3. /\ Cardinality(done[k - 1]) <= Cardinality(done[k])
          /\ Cardinality(done[k - 1]) # Cardinality(done[k])
      BY <2>0, <3>1, <3>2, FS_Subset
    <3>4. Cardinality(done[k - 1]) \in Nat /\ Cardinality(done[k]) \in Nat
      BY <2>0, <3>1
    <3>5. k - 1 <= Cardinality(done[k - 1])
      BY <2>2
    <3>6. k <= Cardinality(done[k])
      BY ONLY <3>3, <3>4, <3>5, k \in Int
    <3>. QED
      BY <3>1, <3>6
  <2> HIDE DEF T
  <2>3. \A k \in 0 .. N : k \in T
    BY <2>1, <2>2, UpTo
  <2>4. done[N] \in SUBSET ids /\ N <= Cardinality(done[N])
    BY <2>3 DEF T, AreRounds
  <2>5. Cardinality(done[N]) <= N /\ (N = Cardinality(done[N]) => ids = done[N])
    BY <2>4, FS_Subset
  <2>6. N = Cardinality(done[N])
    <3>1. Cardinality(done[N]) \in Nat
      BY <2>0
    <3>. QED
      BY ONLY <2>4, <2>5, <3>1, N \in Nat
  <2>. QED
    BY <2>5, <2>6
<1>. QED
  BY <1>1, <1>2

\* All nodes are completed exactly if there is no cycle.
LEMMA CompletedUnlessCyclic ==
  ASSUME NEW ids, IsFiniteSet(ids), NEW edges \in SUBSET (ids \X ids), NEW done,
         AreRounds(done, Cardinality(ids), ids, edges)
  PROVE  done[Cardinality(ids)] = ids <=> ~IsCyclic(ids, edges)
<1> DEFINE N == Cardinality(ids)
<1>. N \in Nat
  BY DEF AreRounds
<1>1. ASSUME done[N] = ids, NEW S \in SUBSET ids, S # {}, \A n \in S : \E p \in S : <<p, n>> \in edges
      PROVE  FALSE
  <2> DEFINE T == {k \in 0 .. N : S \cap done[k] = {}}
  <2>1. 0 \in T
    BY DEF AreRounds
  <2>2. ASSUME NEW k \in 1 .. N, k - 1 \in T
        PROVE  k \in T
    <3>1. ASSUME NEW n \in S, n \in done[k]
          PROVE  FALSE
      <4>1. PICK p \in S : <<p, n>> \in edges
        BY <1>1
      <4>2. p \in Before(edges, n)
        BY <4>1 DEF Before
      <4>3. n \notin done[k - 1] /\ p \notin done[k - 1]
        BY <2>2
      <4>. QED
        BY <3>1, <4>2, <4>3 DEF AreRounds
    <3>. QED
      BY <3>1
  <2> HIDE DEF T
  <2>3. \A k \in 0 .. N : k \in T
    BY <2>1, <2>2, UpTo
  <2>4. S \cap done[N] = {}
    BY <2>3 DEF T
  <2>. QED
    BY <1>1, <2>4
<1>2. ASSUME done[N] # ids
      PROVE  IsCyclic(ids, edges)
  <2> DEFINE S == ids \ done[N]
  <2>1. S \in SUBSET ids /\ S # {}
    BY <1>2 DEF AreRounds
  <2>2. ASSUME NEW n \in S
        PROVE  \E p \in S : <<p, n>> \in edges
    <3>1. ~(Before(edges, n) \subseteq done[N])
      BY NothingLeftReady
    <3>2. PICK e \in edges : e[2] = n /\ e[1] \notin done[N]
      BY <3>1 DEF Before
    <3>3. e = <<e[1], e[2]>> /\ e[1] \in ids
      OBVIOUS
    <3>. QED
      BY <3>2, <3>3
  <2> HIDE DEF S
  <2>. QED
    BY <2>1, <2>2 DEF IsCyclic
<1>. QED
  BY <1>1, <1>2 DEF IsCyclic

\* Levels that have no node in common: where a node is found.
LevelOf(levels, n) == CHOOSE k \in DOMAIN levels : n \in levels[k]

Apart(levels) ==
  \A j, k \in DOMAIN levels : levels[j] # {} /\ (j # k => levels[j] \cap levels[k] = {})

LEMMA OwnLevel ==
  ASSUME NEW levels, Apart(levels), NEW k \in DOMAIN levels, NEW n \in levels[k]
  PROVE  LevelOf(levels, n) = k
<1>1. \A j \in DOMAIN levels : n \in levels[j] => j = k
  BY DEF Apart
<1>. QED
  BY <1>1 DEF LevelOf

LastRound(done, ids) == Min({k \in 0 .. Cardinality(ids) : done[k] = ids})

\* Later than every predecessor, and right after one of them.
Earliest(levels, ids, edges) ==
  /\ \A e \in edges : LevelOf(levels, e[1]) < LevelOf(levels, e[2])
  /\ \A n \in ids : LevelOf(levels, n) > 1 =>
       \E e \in edges : e[2] = n /\ LevelOf(levels, e[1]) = LevelOf(levels, n) - 1

LevelsOfRounds(done, depth) == [k \in 1 .. depth |-> done[k] \ done[k - 1]]

\* The rounds up to the last one that is needed are levels.
LEMMA RoundsAreLevels ==
  ASSUME NEW ids, IsFiniteSet(ids), NEW edges \in SUBSET (ids \X ids), NEW done,
         AreRounds(done, Cardinality(ids), ids, edges), done[Cardinality(ids)] = ids,
         NEW levels, levels = LevelsOfRounds(done, LastRound(done, ids))
  PROVE  UNION ToSet(levels) = ids /\ Apart(levels) /\ Earliest(levels, ids, edges)
<1> DEFINE N == Cardinality(ids)
           depth == LastRound(done, ids)
<1>. N \in Nat
  BY DEF AreRounds
<1>1. depth \in 0 .. N /\ done[depth] = ids /\ \A k \in 0 .. N : done[k] = ids => depth <= k
  <2> DEFINE T == {k \in 0 .. N : done[k] = ids}
  <2>1. N \in T /\ T \in SUBSET Nat
    OBVIOUS
  <2>2. \E m \in T : \A k \in T : m <= k
    BY <2>1, LeastNat
  <2>3. depth = CHOOSE x \in T : \A y \in T : x <= y
    BY DEF Min, LastRound
  <2> HIDE DEF T
  <2>4. depth \in T /\ \A k \in T : depth <= k
    BY <2>2, <2>3
  <2>. QED
    BY <2>4 DEF T
<1>2. \A k \in 1 .. depth : k \in 1 .. N /\ k \in 0 .. N /\ k - 1 \in 0 .. N
  BY <1>1
<1>3. DOMAIN levels = 1 .. depth /\ \A k \in 1 .. depth : levels[k] = done[k] \ done[k - 1]
  BY DEF LevelsOfRounds
<1>4. \A j, k \in 0 .. N : j <= k => done[j] \subseteq done[k]
  BY RoundsGrow
<1>5. \A k \in 0 .. N : done[k] \in SUBSET ids
  BY DEF AreRounds
<1>6. \A n \in ids : \E k \in 1 .. depth : n \in levels[k]
  <2>. SUFFICES ASSUME NEW n \in ids
                PROVE  \E k \in 1 .. depth : n \in levels[k]
    OBVIOUS
  <2> DEFINE T == {k \in 0 .. depth : n \in done[k]}
  <2>1. depth \in T /\ T \in SUBSET Nat /\ depth \in Nat
    BY <1>1
  <2>2. PICK m \in T : \A k \in T : m <= k
    BY <2>1, LeastNat
  <2>3. m # 0
    BY <2>2 DEF AreRounds
  <2>4. m \in 1 .. depth /\ m - 1 \in 0 .. depth /\ ~(m <= m - 1)
    BY <2>1, <2>2, <2>3
  <2>5. n \in done[m] /\ n \notin done[m - 1]
    BY <2>2, <2>4
  <2>. QED
    BY <1>3, <2>4, <2>5
<1>7. UNION ToSet(levels) = ids
  <2>1. \A k \in 1 .. depth : levels[k] \subseteq ids
    BY <1>2, <1>3, <1>5
  <2>2. ToSet(levels) = {levels[k] : k \in 1 .. depth}
    BY <1>3 DEF ToSet, Range
  <2>3. \A n \in ids : \E L \in ToSet(levels) : n \in L
    BY <1>6, <2>2
  <2>4. \A L \in ToSet(levels) : L \subseteq ids
    BY <2>1, <2>2
  <2>. QED
    BY <2>3, <2>4
<1>8. ASSUME NEW j \in 1 .. depth, NEW k \in 1 .. depth, j < k
      PROVE  levels[j] \cap levels[k] = {}
  <2>1. j <= k - 1 /\ j \in 0 .. N /\ k - 1 \in 0 .. N
    BY <1>2, <1>8
  <2>2. done[j] \subseteq done[k - 1]
    BY <1>4, <2>1
  <2>. QED
    BY <1>3, <2>2
<1>9. ASSUME NEW k \in 1 .. depth
      PROVE  levels[k] # {}
  <2>. SUFFICES ASSUME levels[k] = {}
                PROVE  FALSE
    OBVIOUS
  <2>1. done[k] = done[k - 1]
    <3>1. done[k - 1] \subseteq done[k]
      BY <1>2, <1>4
    <3>. QED
      BY <1>3, <3>1
  <2>2. done[N] = done[k]
    <3>1. k \in 1 .. N /\ N \in 0 .. N /\ k <= N
      BY <1>2
    <3>. QED
      BY <2>1, <3>1, StuckStays
  <2>3. depth <= k - 1
    BY <1>1, <1>2, <2>1, <2>2
  <2>. QED
    BY <1>1, <2>3
<1>10. Apart(levels)
  <2>1. ASSUME NEW j \in 1 .. depth, NEW k \in 1 .. depth, j # k
        PROVE  levels[j] \cap levels[k] = {}
    <3>1. j < k \/ k < j
      BY <2>1
    <3>2. levels[j] \cap levels[k] = {} \/ levels[k] \cap levels[j] = {}
      BY <1>8, <3>1
    <3>. QED
      BY <3>2
  <2>. QED
    BY <1>3, <1>9, <2>1 DEF Apart
<1>11. \A k \in 1 .. depth, n \in ids : n \in levels[k] <=> LevelOf(levels, n) = k
  <2>1. ASSUME NEW n \in ids
        PROVE  \E k \in 1 .. depth : n \in levels[k] /\ LevelOf(levels, n) = k
    <3>1. PICK k \in 1 .. depth : n \in levels[k]
      BY <1>6
    <3>2. LevelOf(levels, n) = k
      BY <1>3, <1>10, <3>1, OwnLevel
    <3>. QED
      BY <3>1, <3>2
  <2>2. ASSUME NEW k \in 1 .. depth, NEW n \in ids, n \in levels[k]
        PROVE  LevelOf(levels, n) = k
    BY <1>3, <1>10, <2>2, OwnLevel
  <2>. QED
    BY <2>1, <2>2
<1>12. ASSUME NEW e \in edges
       PROVE  LevelOf(levels, e[1]) < LevelOf(levels, e[2])
  <2>1. e[1] \in ids /\ e[2] \in ids /\ e[1] \in Before(edges, e[2])
    BY DEF Before
  <2>2. PICK j \in 1 .. depth : e[1] \in levels[j] /\ LevelOf(levels, e[1]) = j
    BY <1>6, <1>11, <2>1
  <2>3. PICK k \in 1 .. depth : e[2] \in levels[k] /\ LevelOf(levels, e[2]) = k
    BY <1>6, <1>11, <2>1
  <2>4. e[2] \in done[k] /\ e[2] \notin done[k - 1]
    BY <1>3, <2>3
  <2>5. e[1] \in done[k - 1]
    BY <1>2, <2>1, <2>4 DEF AreRounds
  <2>6. e[1] \notin done[j - 1]
    BY <1>3, <2>2
  <2>7. ~(k - 1 <= j - 1)
    BY <1>2, <1>4, <2>5, <2>6
  <2>8. j < k
    BY ONLY <2>7, j \in Int, k \in Int
  <2>. QED
    BY <2>2, <2>3, <2>8
<1>13. ASSUME NEW n \in ids, LevelOf(levels, n) > 1
       PROVE  \E e \in edges : e[2] = n /\ LevelOf(levels, e[1]) = LevelOf(levels, n) - 1
  <2>1. PICK k \in 1 .. depth : n \in levels[k] /\ LevelOf(levels, n) = k
    BY <1>6, <1>11
  <2>2. k - 1 \in 1 .. depth
    <3>1. k > 1 /\ depth \in Nat
      BY <1>1, <1>13, <2>1
    <3>. QED
      BY ONLY <3>1, k \in 1 .. depth
  <2>3. n \in done[k] /\ n \notin done[k - 1]
    BY <1>3, <2>1
  <2>4. Before(edges, n) \subseteq done[k - 1]
    BY <1>2, <2>3 DEF AreRounds
  <2>5. ~(Before(edges, n) \subseteq done[(k - 1) - 1])
    <3>1. k - 1 \in 1 .. N
      BY <1>2, <2>2
    <3>. QED
      BY <2>3, <3>1 DEF AreRounds
  <2>6. PICK e \in edges : e[2] = n /\ e[1] \in done[k - 1] /\ e[1] \notin done[(k - 1) - 1]
    BY <2>4, <2>5 DEF Before
  <2>7. e[1] \in levels[k - 1] /\ e[1] \in ids
    BY <1>3, <2>2, <2>6
  <2>8. LevelOf(levels, e[1]) = k - 1
    BY <1>11, <2>2, <2>7
  <2>. QED
    BY <2>1, <2>6, <2>8
<1>14. Earliest(levels, ids, edges)
  BY <1>12, <1>13 DEF Earliest
<1>. QED
  BY <1>7, <1>10, <1>14

\* What is known of the ids, edges and start nodes of a graph that can be started.
LEMMA GraphParts ==
  ASSUME NEW g, IsGraph(g), IsTaskGraph(g), Normalizes(g)
  PROVE  /\ Len(g.nodes) \in Nat /\ DOMAIN g.nodes = 1 .. Len(g.nodes)
         /\ IsFiniteSet(Ids(g)) /\ Cardinality(Ids(g)) = Len(g.nodes) /\ Ids(g) # {}
         /\ \A k \in DOMAIN g.nodes : g.nodes[k].id \in Ids(g)
         /\ \A n \in Ids(g) : \E k \in DOMAIN g.nodes : g.nodes[k].id = n
         /\ \A j, k \in DOMAIN g.nodes : g.nodes[j].id = g.nodes[k].id => j = k
         /\ Edges(g) \in SUBSET (Ids(g) \X Ids(g))
         /\ Starts(g) \subseteq Ids(g) /\ Starts(g) # {}
<1> DEFINE L == Len(g.nodes)
           name == [k \in 1 .. L |-> g.nodes[k].id]
<1>1. L \in Nat /\ DOMAIN g.nodes = 1 .. L
  BY DEF IsGraph
<1>2. ToSet(g.nodes) = {g.nodes[k] : k \in 1 .. L}
  BY <1>1 DEF ToSet, Range
<1>3. /\ \A k \in DOMAIN g.nodes : g.nodes[k].id \in Ids(g)
      /\ \A n \in Ids(g) : \E k \in DOMAIN g.nodes : g.nodes[k].id = n
  BY <1>1, <1>2 DEF Ids
<1>4. name \in Surjection(1 .. L, Ids(g))
  BY <1>1, <1>3 DEF Surjection
<1>5. IsFiniteSet(1 .. L) /\ Cardinality(1 .. L) = L
  <2>1. /\ IsFiniteSet(1 .. L)
        /\ Cardinality(1 .. L) = IF 1 > L THEN 0 ELSE L - 1 + 1
    BY <1>1, FS_Interval
  <2> HIDE DEF L
  <2>. QED
    BY ONLY <1>1, <2>1
<1>6. Cardinality(Ids(g)) = L
  BY DEF IsTaskGraph
<1>7. IsFiniteSet(Ids(g)) /\ name \in Injection(1 .. L, Ids(g))
  BY <1>4, <1>5, <1>6, FS_Surjection
<1>8. \A j, k \in 1 .. L : name[j] = name[k] => j = k
  BY <1>7 DEF Injection, IsInjective
<1>9. \A j, k \in DOMAIN g.nodes : g.nodes[j].id = g.nodes[k].id => j = k
  BY <1>1, <1>8
<1>10. Ids(g) # {} /\ 1 \in DOMAIN g.nodes
  <2>1. 1 \in DOMAIN g.nodes
    BY <1>1 DEF IsTaskGraph, IsGraph
  <2>. QED
    BY <1>3, <2>1
<1>11. Edges(g) \in SUBSET (Ids(g) \X Ids(g))
  <2>1. CASE Explicit(g)
    <3>1. ASSUME NEW e \in ToSet(g.edges)
          PROVE  e \in Ids(g) \X Ids(g)
      <4>1. e = <<e[1], e[2]>> /\ e[1] \in Ids(g) /\ e[2] \in Ids(g)
        BY DEF IsGraph, IsTaskGraph
      <4>. QED
        BY <4>1
    <3>. QED
      BY <2>1, <3>1 DEF Edges
  <2>2. CASE ~Explicit(g)
    <3>1. ASSUME NEW node \in ToSet(g.nodes), NEW d \in node.deps
          PROVE  <<d, node.id>> \in Ids(g) \X Ids(g)
      BY DEF Normalizes, Ids
    <3>2. DepEdges(g) \in SUBSET (Ids(g) \X Ids(g))
      BY <3>1 DEF DepEdges
    <3>. QED
      BY <2>2, <3>2 DEF Edges
  <2>. QED
    BY <2>1, <2>2
<1>12. Starts(g) \subseteq Ids(g) /\ Starts(g) # {}
  <2>1. CASE g.start # <<>>
    <3>1. 1 \in DOMAIN g.start
      BY <2>1 DEF IsGraph
    <3>2. g.start[1] \in ToSet(g.start)
      BY <3>1 DEF ToSet, Range
    <3>. QED
      BY <2>1, <3>2 DEF Starts, IsTaskGraph
  <2>2. CASE g.start = <<>>
    BY <1>3, <1>10, <2>2 DEF Starts
  <2>. QED
    BY <2>1, <2>2
<1>. QED
  BY <1>1, <1>3, <1>6, <1>7, <1>9, <1>10, <1>11, <1>12

-----------------------------------------------------------------------------
(* The walk through a cyclic graph.                                        *)

Distinct(order) == \A j, k \in DOMAIN order : order[j] = order[k] => j = k

\* Node k starts the graph or was led to by an earlier one.
LedTo(g, order, k) ==
  \/ order[k] \in Starts(g)
  \/ \E e \in Edges(g), j \in 1 .. k - 1 : order[j] = e[1] /\ order[k] = e[2]

Walks(g) == {order \in Seq(Ids(g)) : Distinct(order) /\ \A k \in DOMAIN order : LedTo(g, order, k)}

Orders(g) ==
  {order \in Seq(Ids(g)) :
     /\ Distinct(order) /\ Reached(g) \subseteq ToSet(order)
     /\ \A k \in DOMAIN order : LedTo(g, order, k) \/ order[k] \notin Reached(g)}

\* Whatever the nodes of a walk lead to is on it.
IsClosed(g, order) ==
  /\ Starts(g) \subseteq ToSet(order)
  /\ \A e \in Edges(g) : e[1] \in ToSet(order) => e[2] \in ToSet(order)

LEMMA ReachedIsWalked ==
  ASSUME NEW g, NEW order \in Seq(Ids(g)), IsClosed(g, order)
  PROVE  Reached(g) \subseteq ToSet(order)
<1>1. ToSet(order) \in SUBSET Ids(g)
  BY DEF ToSet, Range
<1>. QED
  BY <1>1 DEF Reached, IsClosed

LEMMA AppendNew ==
  ASSUME NEW V, NEW order \in Seq(V), Distinct(order), NEW x \in V, x \notin ToSet(order)
  PROVE  /\ Append(order, x) \in Seq(V) /\ Distinct(Append(order, x))
         /\ Len(Append(order, x)) = Len(order) + 1
         /\ DOMAIN Append(order, x) = DOMAIN order \union {Len(order) + 1}
         /\ \A k \in DOMAIN order : Append(order, x)[k] = order[k]
         /\ Append(order, x)[Len(order) + 1] = x
<1> DEFINE new == Append(order, x)
<1>1. /\ new \in Seq(V) /\ Len(new) = Len(order) + 1 /\ Len(order) \in Nat
      /\ DOMAIN order = 1 .. Len(order)
      /\ DOMAIN new = DOMAIN order \union {Len(order) + 1}
      /\ \A k \in DOMAIN order : new[k] = order[k]
      /\ new[Len(order) + 1] = x
  OBVIOUS
<1>2. \A k \in DOMAIN order : order[k] # x
  BY DEF ToSet, Range
<1> HIDE DEF new
<1>3. Distinct(new)
  BY <1>1, <1>2 DEF Distinct
<1>. QED
  BY <1>1, <1>3 DEF new

\* A list of as many nodes as there are holds them all.
LEMMA AllListed ==
  ASSUME NEW V, IsFiniteSet(V), NEW order \in Seq(V), Distinct(order), Cardinality(V) <= Len(order)
  PROVE  ToSet(order) = V
<1> DEFINE N == Cardinality(V)
           f == [k \in 1 .. N |-> order[k]]
<1>1. N \in Nat /\ Len(order) \in Nat /\ DOMAIN order = 1 .. Len(order)
  BY FS_CardinalityType
<1>2. 1 .. N \subseteq DOMAIN order
  BY <1>1
<1>3. f \in Injection(1 .. N, V)
  BY <1>2 DEF Injection, IsInjective, Distinct
<1>4. Cardinality(1 .. N) = N
  <2> HIDE DEF N
  <2>1. 1 \in Int /\ N \in Int
    BY <1>1
  <2>2. Cardinality(1 .. N) = IF 1 > N THEN 0 ELSE N - 1 + 1
    BY ONLY <2>1, FS_Interval
  <2>. QED
    BY ONLY <1>1, <2>2
<1>5. f \in Surjection(1 .. N, V)
  BY <1>3, <1>4, FS_Injection
<1>6. \A x \in V : \E k \in DOMAIN order : order[k] = x
  BY <1>2, <1>5 DEF Surjection
<1>. QED
  BY <1>6 DEF ToSet, Range

LEMMA NextOnWalk ==
  ASSUME NEW g, NEW order \in Walks(g), NEW x \in Ids(g), x \notin ToSet(order),
         x \in Starts(g) \/ \E e \in Edges(g), j \in DOMAIN order : order[j] = e[1] /\ x = e[2]
  PROVE  Append(order, x) \in Walks(g) /\ Len(Append(order, x)) = Len(order) + 1
<1> DEFINE new == Append(order, x)
<1>1. order \in Seq(Ids(g)) /\ Distinct(order) /\ \A k \in DOMAIN order : LedTo(g, order, k)
  BY DEF Walks
<1>2. /\ new \in Seq(Ids(g)) /\ Distinct(new) /\ Len(new) = Len(order) + 1
      /\ DOMAIN new = DOMAIN order \union {Len(order) + 1}
      /\ \A k \in DOMAIN order : new[k] = order[k]
      /\ new[Len(order) + 1] = x
  BY <1>1, AppendNew
<1>3. Len(order) \in Nat /\ DOMAIN order = 1 .. Len(order)
  BY <1>1
<1> HIDE DEF new
<1>4. ASSUME NEW k \in DOMAIN order
      PROVE  LedTo(g, new, k)
  <2>1. \A j \in 1 .. k - 1 : j \in DOMAIN order
    BY <1>3
  <2>. QED
    BY <1>1, <1>2, <2>1 DEF LedTo
<1>5. LedTo(g, new, Len(order) + 1)
  <2>1. \A j \in DOMAIN order : j \in 1 .. (Len(order) + 1) - 1
    BY <1>3
  <2>. QED
    BY <1>2, <2>1 DEF LedTo
<1>6. new \in Walks(g)
  BY <1>2, <1>4, <1>5 DEF Walks
<1>. QED
  BY <1>2, <1>6 DEF new

\* A step of the walk goes to a node that is new, or there is none to go to.
LEMMA VisitWalks ==
  ASSUME NEW g, IsGraph(g), IsTaskGraph(g), Normalizes(g), Explicit(g), NEW order \in Walks(g)
  PROVE  /\ Visit(g, order) \in Walks(g)
         /\ \/ Len(Visit(g, order)) = Len(order) + 1 /\ ~IsClosed(g, order)
            \/ Visit(g, order) = order /\ IsClosed(g, order)
<1> DEFINE unseen == Ids(g) \ ToSet(order)
           Onward(p) == {e \in DOMAIN g.edges : g.edges[e][1] = order[p] /\ g.edges[e][2] \in unseen}
           open == {p \in DOMAIN order : Onward(p) # {}}
           first == CHOOSE n \in Starts(g) \cap unseen : TRUE
           next == g.edges[Min(Onward(Min(open)))][2]
<1>1. Visit(g, order) = IF Starts(g) \cap unseen # {} THEN Append(order, first)
                        ELSE IF open # {} THEN Append(order, next) ELSE order
  BY DEF Visit
<1>2. order \in Seq(Ids(g)) /\ DOMAIN order \in SUBSET Nat
  BY DEF Walks
<1>3. g.edges \in Seq(ToSet(g.edges)) /\ DOMAIN g.edges \in SUBSET Nat
  BY DEF IsGraph
<1>4. Edges(g) = {g.edges[e] : e \in DOMAIN g.edges}
  BY DEF Edges, ToSet, Range
<1>5. CASE Starts(g) \cap unseen # {}
  <2>1. first \in Starts(g) /\ first \in Ids(g) /\ first \notin ToSet(order)
    BY <1>5
  <2> HIDE DEF unseen, first
  <2>2. Append(order, first) \in Walks(g) /\ Len(Append(order, first)) = Len(order) + 1
    BY <2>1, NextOnWalk
  <2>3. ~IsClosed(g, order)
    BY <2>1 DEF IsClosed
  <2>. QED
    BY <1>1, <1>5, <2>2, <2>3
<1>6. CASE Starts(g) \cap unseen = {} /\ open # {}
  <2>1. PICK p : p = Min(open)
    OBVIOUS
  <2>2. p \in open
    <3>1. open \in SUBSET Nat
      BY <1>2
    <3> HIDE DEF open
    <3>2. \E m \in open : \A k \in open : m <= k
      BY <1>6, <3>1, LeastNat
    <3>. QED
      BY <2>1, <3>2 DEF Min
  <2>3. Min(Onward(p)) \in Onward(p)
    <3>1. Onward(p) \in SUBSET Nat /\ Onward(p) # {}
      BY <1>3, <2>2
    <3> HIDE DEF Onward
    <3>2. \E m \in Onward(p) : \A k \in Onward(p) : m <= k
      BY <3>1, LeastNat
    <3>. QED
      BY <3>2 DEF Min
  <2>4. next = g.edges[Min(Onward(p))][2]
    BY <2>1
  <2>5. PICK e \in DOMAIN g.edges : g.edges[e][1] = order[p] /\ g.edges[e][2] = next /\ next \in unseen
    BY <2>3, <2>4
  <2>6. next \in Ids(g) /\ next \notin ToSet(order) /\ p \in DOMAIN order /\ g.edges[e] \in Edges(g)
    BY <1>4, <2>2, <2>5
  <2> HIDE DEF unseen, open, next
  <2>7. Append(order, next) \in Walks(g) /\ Len(Append(order, next)) = Len(order) + 1
    BY <2>5, <2>6, NextOnWalk
  <2>8. ~IsClosed(g, order)
    <3>1. g.edges[e][1] \in ToSet(order)
      BY <2>5, <2>6 DEF ToSet, Range
    <3>. QED
      BY <2>5, <2>6, <3>1 DEF IsClosed
  <2>. QED
    BY <1>1, <1>6, <2>7, <2>8
<1>7. CASE Starts(g) \cap unseen = {} /\ open = {}
  <2>1. Starts(g) \subseteq ToSet(order)
    BY <1>7, GraphParts
  <2>2. ASSUME NEW e \in DOMAIN g.edges, g.edges[e][1] \in ToSet(order)
        PROVE  g.edges[e][2] \in ToSet(order)
    <3>1. PICK p \in DOMAIN order : order[p] = g.edges[e][1]
      BY <2>2 DEF ToSet, Range
    <3>2. Onward(p) = {}
      BY <1>7
    <3>3. g.edges[e][2] \notin unseen
      BY <3>1, <3>2
    <3>4. g.edges[e][2] \in Ids(g)
      BY <1>4, GraphParts
    <3>. QED
      BY <3>3, <3>4
  <2>3. IsClosed(g, order)
    BY <1>4, <2>1, <2>2 DEF IsClosed
  <2>. QED
    BY <1>1, <1>7, <2>3
<1>. QED
  BY <1>5, <1>6, <1>7

\* The walk ends with all nodes that the start nodes lead to.
LEMMA WalkIsClosed ==
  ASSUME NEW g, IsGraph(g), IsTaskGraph(g), Normalizes(g), Explicit(g)
  PROVE  Walk(g) \in Walks(g) /\ IsClosed(g, Walk(g))
<1> DEFINE N == Len(g.nodes)
           V == Walks(g)
           Body(f) == [k \in 0 .. N |-> IF k = 0 THEN <<>> ELSE Visit(g, f[k - 1])]
           visit == [p \in (1 .. N) \X V |-> Visit(g, p[2])]
<1>1. N \in Nat /\ <<>> \in V /\ IsFiniteSet(Ids(g)) /\ Cardinality(Ids(g)) = N
  BY GraphParts DEF Walks, Distinct
<1>2. visit \in StepsOf(N, V)
  BY VisitWalks DEF StepsOf
<1>3. \A k \in 1 .. N, order \in V : visit[<<k, order>>] = Visit(g, order)
  OBVIOUS
<1>4. PICK f : f = CHOOSE h : h = Body(h)
  OBVIOUS
<1>5. Walk(g) = f[N]
  BY <1>4, Zenon DEF Walk
<1> HIDE DEF N, visit, V
<1>6. PICK w : IsRun(w, N, V, <<>>, visit)
  BY ONLY <1>1, <1>2, RecursionUpTo
<1>7. w \in [0 .. N -> V] /\ w[0] = <<>> /\ \A k \in 1 .. N : w[k] = visit[<<k, w[k - 1]>>]
  BY ONLY <1>6 DEF IsRun
<1>8. \A k \in 1 .. N : k - 1 \in 0 .. N /\ w[k - 1] \in V
  BY <1>1, <1>7
<1>9. \A k \in 1 .. N : w[k] = Visit(g, w[k - 1])
  BY <1>3, <1>7, <1>8
<1>10. w = Body(w)
  <2>1. \A k \in 0 .. N : w[k] = Body(w)[k]
    <3>1. \A k \in 0 .. N : k # 0 => k \in 1 .. N
      BY <1>1
    <3>. QED
      BY <1>7, <1>9, <3>1
  <2>. QED
    BY <1>7, <2>1
<1>11. f = Body(f)
  BY <1>4, <1>10
<1>12. f[0] = <<>> /\ \A k \in 1 .. N : f[k - 1] \in V => f[k] = visit[<<k, f[k - 1]>>]
  <2>1. \A k \in 0 .. N : f[k] = IF k = 0 THEN <<>> ELSE Visit(g, f[k - 1])
    BY <1>11
  <2>2. 0 \in 0 .. N /\ \A k \in 1 .. N : k \in 0 .. N /\ k # 0
    BY <1>1
  <2>. QED
    BY <1>3, <2>1, <2>2
<1>13. f[N] = w[N]
  <2>1. \A k \in 0 .. N : f[k] = w[k]
    BY ONLY <1>1, <1>6, <1>12, RunsAgree
  <2>. QED
    BY <1>1, <2>1
<1> DEFINE T == {k \in 0 .. N : Len(w[k]) >= k \/ IsClosed(g, w[k])}
<1>14. 0 \in T
  BY <1>1, <1>7
<1>15. ASSUME NEW k \in 1 .. N, k - 1 \in T
       PROVE  k \in T
  <2>1. k \in 0 .. N /\ k - 1 \in 0 .. N /\ w[k - 1] \in Walks(g) /\ w[k] = Visit(g, w[k - 1])
    BY <1>8, <1>9 DEF V
  <2>2. Len(w[k - 1]) \in Nat
    BY <2>1 DEF Walks
  <2>3. \/ Len(w[k]) = Len(w[k - 1]) + 1 /\ ~IsClosed(g, w[k - 1])
        \/ w[k] = w[k - 1] /\ IsClosed(g, w[k - 1])
    BY <2>1, VisitWalks
  <2>4. CASE IsClosed(g, w[k - 1])
    BY <2>1, <2>3, <2>4
  <2>5. CASE ~IsClosed(g, w[k - 1])
    <3>1. Len(w[k]) = Len(w[k - 1]) + 1 /\ Len(w[k - 1]) >= k - 1
      BY <1>15, <2>3, <2>5
    <3>2. Len(w[k]) >= k
      BY ONLY <2>2, <3>1, k \in 1 .. N
    <3>. QED
      BY <2>1, <3>2
  <2>. QED
    BY <2>4, <2>5
<1> HIDE DEF T
<1>16. \A k \in 0 .. N : k \in T
  BY <1>1, <1>14, <1>15, UpTo
<1>17. w[N] \in Walks(g) /\ (Len(w[N]) >= N \/ IsClosed(g, w[N]))
  BY <1>1, <1>7, <1>16 DEF T, V
<1>18. IsClosed(g, w[N])
  <2>1. CASE Len(w[N]) >= N
    <3>1. w[N] \in Seq(Ids(g)) /\ Distinct(w[N])
      BY <1>17 DEF Walks
    <3>2. Cardinality(Ids(g)) <= Len(w[N])
      BY ONLY <1>1, <2>1, <3>1
    <3>3. ToSet(w[N]) = Ids(g)
      BY ONLY <1>1, <3>1, <3>2, AllListed
    <3>. QED
      BY <3>3, GraphParts DEF IsClosed
  <2>. QED
    BY <1>17, <2>1
<1>. QED
  BY <1>5, <1>13, <1>17, <1>18

\* A step that adds a node the walk did not reach.
LEMMA AddLeftOrders ==
  ASSUME NEW g, IsGraph(g), NEW order \in Orders(g)
  PROVE  /\ AddLeft(g, order) \in Orders(g)
         /\ \/ Len(AddLeft(g, order)) = Len(order) + 1 /\ ~(Ids(g) \subseteq ToSet(order))
            \/ AddLeft(g, order) = order /\ Ids(g) \subseteq ToSet(order)
<1> DEFINE left == {k \in DOMAIN g.nodes : g.nodes[k].id \notin ToSet(order)}
           next == g.nodes[Min(left)].id
           new == Append(order, next)
<1>1. AddLeft(g, order) = IF left = {} THEN order ELSE new
  BY DEF AddLeft
<1>2. /\ order \in Seq(Ids(g)) /\ Distinct(order) /\ Reached(g) \subseteq ToSet(order)
      /\ \A k \in DOMAIN order : LedTo(g, order, k) \/ order[k] \notin Reached(g)
  BY DEF Orders
<1>3. Ids(g) = {g.nodes[k].id : k \in DOMAIN g.nodes} /\ DOMAIN g.nodes \in SUBSET Nat
  BY DEF Ids, ToSet, Range, IsGraph
<1>4. CASE left = {}
  BY <1>1, <1>3, <1>4
<1>5. CASE left # {}
  <2>1. Min(left) \in left
    <3>1. left \in SUBSET Nat
      BY <1>3
    <3> HIDE DEF left
    <3>2. \E m \in left : \A k \in left : m <= k
      BY <1>5, <3>1, LeastNat
    <3>. QED
      BY <3>2 DEF Min
  <2>2. next \in Ids(g) /\ next \notin ToSet(order) /\ next \notin Reached(g)
    BY <1>2, <1>3, <2>1
  <2> HIDE DEF next
  <2>3. /\ new \in Seq(Ids(g)) /\ Distinct(new) /\ Len(new) = Len(order) + 1
        /\ DOMAIN new = DOMAIN order \union {Len(order) + 1}
        /\ \A k \in DOMAIN order : new[k] = order[k]
        /\ new[Len(order) + 1] = next
    BY <1>2, <2>2, AppendNew
  <2>4. Len(order) \in Nat /\ DOMAIN order = 1 .. Len(order)
    BY <1>2
  <2> HIDE DEF new
  <2>5. ASSUME NEW k \in DOMAIN order, LedTo(g, order, k)
        PROVE  LedTo(g, new, k)
    <3>1. \A j \in 1 .. k - 1 : j \in DOMAIN order
      BY <2>4
    <3>. QED
      BY <2>3, <2>5, <3>1 DEF LedTo
  <2>6. ToSet(order) \subseteq ToSet(new)
    BY <2>3 DEF ToSet, Range
  <2>7. new \in Orders(g)
    BY <1>2, <2>2, <2>3, <2>5, <2>6 DEF Orders
  <2>. QED
    BY <1>1, <1>5, <2>2, <2>3, <2>7
<1>. QED
  BY <1>4, <1>5

\* In the end every node has its place.
LEMMA OrderIsComplete ==
  ASSUME NEW g, IsGraph(g), IsTaskGraph(g), Normalizes(g), Explicit(g)
  PROVE  Order(g) \in Orders(g) /\ ToSet(Order(g)) = Ids(g)
<1> DEFINE N == Len(g.nodes)
           V == Orders(g)
           walk == Walk(g)
           Body(f) == [k \in 0 .. N |-> IF k = 0 THEN walk ELSE AddLeft(g, f[k - 1])]
           add == [p \in (1 .. N) \X V |-> AddLeft(g, p[2])]
<1>1. N \in Nat /\ walk \in V /\ IsFiniteSet(Ids(g)) /\ Cardinality(Ids(g)) = N
  <2>1. walk \in Walks(g) /\ IsClosed(g, walk)
    BY WalkIsClosed
  <2>2. walk \in Seq(Ids(g)) /\ Distinct(walk) /\ \A k \in DOMAIN walk : LedTo(g, walk, k)
    BY <2>1 DEF Walks
  <2>3. Reached(g) \subseteq ToSet(walk)
    BY <2>1, <2>2, ReachedIsWalked
  <2>. QED
    BY <2>2, <2>3, GraphParts DEF Orders
<1>2. add \in StepsOf(N, V)
  BY AddLeftOrders DEF StepsOf
<1>3. \A k \in 1 .. N, order \in V : add[<<k, order>>] = AddLeft(g, order)
  OBVIOUS
<1>4. PICK f : f = CHOOSE h : h = Body(h)
  OBVIOUS
<1>5. Order(g) = f[N]
  BY <1>4, Zenon DEF Order
<1> HIDE DEF N, add, V, walk
<1>6. PICK w : IsRun(w, N, V, walk, add)
  BY ONLY <1>1, <1>2, RecursionUpTo
<1>7. w \in [0 .. N -> V] /\ w[0] = walk /\ \A k \in 1 .. N : w[k] = add[<<k, w[k - 1]>>]
  BY ONLY <1>6 DEF IsRun
<1>8. \A k \in 1 .. N : k - 1 \in 0 .. N /\ w[k - 1] \in V
  BY <1>1, <1>7
<1>9. \A k \in 1 .. N : w[k] = AddLeft(g, w[k - 1])
  BY <1>3, <1>7, <1>8
<1>10. w = Body(w)
  <2>1. \A k \in 0 .. N : w[k] = Body(w)[k]
    <3>1. \A k \in 0 .. N : k # 0 => k \in 1 .. N
      BY <1>1
    <3>. QED
      BY <1>7, <1>9, <3>1
  <2>. QED
    BY <1>7, <2>1
<1>11. f = Body(f)
  BY <1>4, <1>10
<1>12. f[0] = walk /\ \A k \in 1 .. N : f[k - 1] \in V => f[k] = add[<<k, f[k - 1]>>]
  <2>1. \A k \in 0 .. N : f[k] = IF k = 0 THEN walk ELSE AddLeft(g, f[k - 1])
    BY <1>11
  <2>2. 0 \in 0 .. N /\ \A k \in 1 .. N : k \in 0 .. N /\ k # 0
    BY <1>1
  <2>. QED
    BY <1>3, <2>1, <2>2
<1>13. f[N] = w[N]
  <2>1. \A k \in 0 .. N : f[k] = w[k]
    BY ONLY <1>1, <1>6, <1>12, RunsAgree
  <2>. QED
    BY <1>1, <2>1
<1> DEFINE T == {k \in 0 .. N : Len(w[k]) >= k \/ Ids(g) \subseteq ToSet(w[k])}
<1>14. 0 \in T
  <2>1. Len(w[0]) \in Nat
    BY <1>1, <1>7 DEF V, Orders
  <2>. QED
    BY <1>1, <2>1
<1>15. ASSUME NEW k \in 1 .. N, k - 1 \in T
       PROVE  k \in T
  <2>1. k \in 0 .. N /\ k - 1 \in 0 .. N /\ w[k - 1] \in Orders(g) /\ w[k] = AddLeft(g, w[k - 1])
    BY <1>8, <1>9 DEF V
  <2>2. Len(w[k - 1]) \in Nat
    BY <2>1 DEF Orders
  <2>3. \/ Len(w[k]) = Len(w[k - 1]) + 1 /\ ~(Ids(g) \subseteq ToSet(w[k - 1]))
        \/ w[k] = w[k - 1] /\ Ids(g) \subseteq ToSet(w[k - 1])
    BY <2>1, AddLeftOrders
  <2>4. CASE Ids(g) \subseteq ToSet(w[k - 1])
    BY <2>1, <2>3, <2>4
  <2>5. CASE ~(Ids(g) \subseteq ToSet(w[k - 1]))
    <3>1. Len(w[k]) = Len(w[k - 1]) + 1 /\ Len(w[k - 1]) >= k - 1
      BY <1>15, <2>3, <2>5
    <3>2. Len(w[k]) >= k
      BY ONLY <2>2, <3>1, k \in 1 .. N
    <3>. QED
      BY <2>1, <3>2
  <2>. QED
    BY <2>4, <2>5
<1> HIDE DEF T
<1>16. \A k \in 0 .. N : k \in T
  BY <1>1, <1>14, <1>15, UpTo
<1>17. w[N] \in Orders(g) /\ (Len(w[N]) >= N \/ Ids(g) \subseteq ToSet(w[N]))
  BY <1>1, <1>7, <1>16 DEF T, V
<1>18. ToSet(w[N]) = Ids(g)
  <2>1. w[N] \in Seq(Ids(g)) /\ Distinct(w[N])
    BY <1>17 DEF Orders
  <2>2. CASE Len(w[N]) >= N
    <3>1. Cardinality(Ids(g)) <= Len(w[N])
      BY ONLY <1>1, <2>1, <2>2
    <3>. QED
      BY ONLY <1>1, <2>1, <3>1, AllListed
  <2>3. CASE Ids(g) \subseteq ToSet(w[N])
    BY <2>1, <2>3 DEF ToSet, Range
  <2>. QED
    BY <1>17, <2>2, <2>3
<1>. QED
  BY <1>5, <1>13, <1>17, <1>18

\* One node per level, in an order in which every node that is reached was led to.
LEMMA OrderIsLaidOut ==
  ASSUME NEW g, NEW order \in Orders(g), ToSet(order) = Ids(g),
         NEW levels, levels = [k \in DOMAIN order |-> {order[k]}]
  PROVE  /\ UNION ToSet(levels) = Ids(g)
         /\ Apart(levels)
         /\ \A n \in Reached(g) \ Starts(g) :
              \E e \in Edges(g) : e[2] = n /\ LevelOf(levels, e[1]) < LevelOf(levels, n)
<1>1. /\ order \in Seq(Ids(g)) /\ Distinct(order)
      /\ \A k \in DOMAIN order : LedTo(g, order, k) \/ order[k] \notin Reached(g)
  BY DEF Orders
<1>2. DOMAIN levels = DOMAIN order /\ \A k \in DOMAIN order : levels[k] = {order[k]}
  OBVIOUS
<1>3. Apart(levels)
  BY <1>1, <1>2 DEF Apart, Distinct
<1>4. \A k \in DOMAIN order : LevelOf(levels, order[k]) = k
  BY <1>2, <1>3, OwnLevel
<1>5. UNION ToSet(levels) = Ids(g)
  <2>1. ToSet(levels) = {levels[k] : k \in DOMAIN order}
    BY <1>2 DEF ToSet, Range
  <2>2. ToSet(levels) = {{order[k]} : k \in DOMAIN order}
    BY <1>2, <2>1
  <2>3. Ids(g) = {order[k] : k \in DOMAIN order}
    BY DEF ToSet, Range
  <2>. QED
    BY <2>2, <2>3
<1>6. ASSUME NEW n \in Reached(g) \ Starts(g)
      PROVE  \E e \in Edges(g) : e[2] = n /\ LevelOf(levels, e[1]) < LevelOf(levels, n)
  <2>1. PICK k \in DOMAIN order : order[k] = n
    BY DEF Reached, ToSet, Range
  <2>2. PICK e \in Edges(g), j \in 1 .. k - 1 : order[j] = e[1] /\ n = e[2]
    BY <1>1, <2>1 DEF LedTo
  <2>3. j \in DOMAIN order /\ j < k
    BY <1>1, <2>1
  <2>. QED
    BY <1>4, <2>1, <2>2, <2>3
<1>. QED
  BY <1>3, <1>5, <1>6

\* Without cycles the levels are the rounds, with a cycle the order of the walk.
LEMMA GraphIsLaidOut ==
  ASSUME NEW g, IsGraph(g), IsTaskGraph(g), Normalizes(g)
  PROVE  LaidOut(g) /\ (~Explicit(g) => ~IsCyclic(Ids(g), Edges(g)))
<1> DEFINE done == Completed(Ids(g), Edges(g))
           ids == Ids(g)
           edges == Edges(g)
           levels == Levels(g)
<1>1. /\ IsFiniteSet(ids) /\ edges \in SUBSET (ids \X ids)
      /\ AreRounds(done, Cardinality(ids), ids, edges)
  BY GraphParts, CompletedRounds
<1>2. AllCompleted(g) <=> done[Cardinality(ids)] = ids
  BY DEF AllCompleted
<1>3. levels = IF AllCompleted(g) THEN LevelsOfRounds(done, LastRound(done, ids))
               ELSE [k \in DOMAIN Order(g) |-> {Order(g)[k]}]
  BY DEF Levels, LevelsOfRounds, LastRound
<1>4. \A n : LevelOf(levels, n) = CHOOSE k \in DOMAIN levels : n \in levels[k]
  BY DEF LevelOf
<1>5. LaidOut(g) <=>
        /\ UNION ToSet(levels) = ids
        /\ Apart(levels)
        /\ IF IsCyclic(ids, edges)
           THEN \A n \in Reached(g) \ Starts(g) :
                  \E e \in edges : e[2] = n /\ LevelOf(levels, e[1]) < LevelOf(levels, n)
           ELSE Earliest(levels, ids, edges)
  BY Zenon DEF LaidOut, LevelOf, Apart, Earliest
<1> HIDE DEF done, ids, edges, levels
<1>6. AllCompleted(g) <=> ~IsCyclic(ids, edges)
  BY ONLY <1>1, <1>2, CompletedUnlessCyclic
<1>7. CASE AllCompleted(g)
  <2>1. done[Cardinality(ids)] = ids /\ levels = LevelsOfRounds(done, LastRound(done, ids))
    BY <1>2, <1>3, <1>7
  <2>2. UNION ToSet(levels) = ids /\ Apart(levels) /\ Earliest(levels, ids, edges)
    BY ONLY <1>1, <2>1, RoundsAreLevels
  <2>. QED
    BY <1>5, <1>6, <1>7, <2>2 DEF ids, edges
<1>8. CASE ~AllCompleted(g)
  <2>1. Explicit(g)
    BY <1>8 DEF Normalizes
  <2>2. Order(g) \in Orders(g) /\ ToSet(Order(g)) = Ids(g)
    BY <2>1, OrderIsComplete
  <2>3. levels = [k \in DOMAIN Order(g) |-> {Order(g)[k]}]
    BY <1>3, <1>8
  <2>4. /\ UNION ToSet(levels) = Ids(g)
        /\ Apart(levels)
        /\ \A n \in Reached(g) \ Starts(g) :
             \E e \in Edges(g) : e[2] = n /\ LevelOf(levels, e[1]) < LevelOf(levels, n)
    BY ONLY <2>2, <2>3, OrderIsLaidOut
  <2>. QED
    BY <1>5, <1>6, <1>8, <2>1, <2>4 DEF ids, edges
<1>. QED
  BY <1>7, <1>8

\* Without edges and start nodes of its own a graph starts with what depends on nothing.
LEMMA StartsDependOnNothing ==
  ASSUME NEW g, IsGraph(g), IsTaskGraph(g), Normalizes(g), g.start = <<>>, ~Explicit(g)
  PROVE  Starts(g) = {node.id : node \in {x \in ToSet(g.nodes) : x.deps = {}}}
<1> DEFINE entries == Ids(g) \ {e[2] : e \in Edges(g)}
<1>1. entries # {}
  <2>. SUFFICES ASSUME entries = {}
                PROVE  FALSE
    OBVIOUS
  <2>1. ASSUME NEW n \in Ids(g)
        PROVE  \E p \in Ids(g) : <<p, n>> \in Edges(g)
    <3>1. PICK e \in Edges(g) : e[2] = n
      OBVIOUS
    <3>2. e = <<e[1], e[2]>> /\ e[1] \in Ids(g)
      BY GraphParts
    <3>. QED
      BY <3>1, <3>2
  <2>2. Ids(g) # {}
    BY GraphParts
  <2>3. IsCyclic(Ids(g), Edges(g))
    BY <2>1, <2>2 DEF IsCyclic
  <2>. QED
    BY <2>3, GraphIsLaidOut
<1>2. Starts(g) = entries
  BY <1>1 DEF Starts
<1>3. Edges(g) = DepEdges(g)
  BY DEF Edges
<1>4. \A x, y \in ToSet(g.nodes) : x.id = y.id => x = y
  BY GraphParts DEF ToSet, Range
<1>5. ASSUME NEW x \in ToSet(g.nodes)
      PROVE  x.id \in entries <=> x.deps = {}
  <2>1. ASSUME NEW d \in x.deps
        PROVE  \E e \in Edges(g) : e[2] = x.id
    <3>1. <<d, x.id>> \in DepEdges(g)
      BY DEF DepEdges
    <3>. QED
      BY <1>3, <3>1
  <2>2. ASSUME NEW e \in Edges(g), e[2] = x.id
        PROVE  x.deps # {}
    <3>1. PICK y \in ToSet(g.nodes) : \E d \in y.deps : e = <<d, y.id>>
      BY <1>3 DEF DepEdges
    <3>2. y.id = x.id
      BY <2>2, <3>1
    <3>. QED
      BY <1>4, <3>1, <3>2
  <2>3. x.id \in Ids(g)
    BY DEF Ids
  <2>. QED
    BY <2>1, <2>2, <2>3
<1>6. \A n \in entries : \E x \in ToSet(g.nodes) : x.id = n
  BY DEF Ids
<1> HIDE DEF entries
<1>. QED
  BY <1>2, <1>5, <1>6
-----------------------------------------------------------------------------
(***************************************************************************)
(* The invariant holds, for any bots, messages, graphs and settings.       *)
(***************************************************************************)
THEOREM SubmissionInvariant == Spec => []SubmissionInv
<1>1. Init => SubmissionInv
  <2>. SUFFICES ASSUME Init
                PROVE  SubmissionInv
    OBVIOUS
  <2>1. NoAuth \in Auth /\ settings \in Environment /\ <<>> \in Seq(ToSet(<<>>))
    BY SubmissionAssumption DEF Init, Auth
  <2>2. TypeOK
    BY <2>1, SubmissionAssumption DEF Init, TypeOK, Steps, Submitting
  <2>3. EnvIsKept
    BY <2>1 DEF Init, EnvIsKept, Submitting, Environment
  <2>. QED
    BY <2>2, <2>3 DEF Init, SubmissionInv, SendingIsOwn, PlanFitsBots, RequestsCarryOwnCredentials
<1>2. SubmissionInv /\ [Next]_vars => SubmissionInv'
  BY TypeKept, EnvKept, SendingKept, PlanFitsKept, RequestKept DEF SubmissionInv
<1>. QED
  BY <1>1, <1>2, PTL DEF Spec

(***************************************************************************)
(* Credentials go all the way: the requests of a run carry those of its    *)
(* message, whatever other plans do to the environment meanwhile.          *)
(***************************************************************************)
THEOREM CredentialsGoAllTheWay == Spec => []RequestsCarryOwnCredentials
<1>1. SubmissionInv => RequestsCarryOwnCredentials
  BY DEF SubmissionInv
<1>. QED
  BY <1>1, SubmissionInvariant, PTL

(***************************************************************************)
(* Work goes to the bot that the plan names, and the first such bot        *)
(* answers, for any bots, messages and plans.                              *)
(***************************************************************************)
THEOREM WorkGoesWhereNamed == Spec => []WorkGoesToNamedBots
<1>1. ASSUME SubmissionInv
      PROVE  WorkGoesToNamedBots
  <2>. SUFFICES ASSUME graph # NoGraph
                PROVE  /\ \A k \in Workers(graph) :
                            graph.nodes[k].agent /\ ~TakenOver(graph.nodes[k].key) =>
                              /\ CanUse(NamedBot(graph.nodes[k].key), message.sender)
                              /\ \E job \in Jobs(graph, bots) :
                                   /\ job.node = graph.nodes[k].id
                                   /\ job.agent = First(NamedBot(graph.nodes[k].key).agent,
                                                        graph.nodes[k].own)
                       /\ LET worker == graph.nodes[Min(Workers(graph))] IN
                          Workers(graph) # {} /\ worker.agent =>
                            /\ AnsweringBot(graph, bots) # Blank
                            /\ ~TakenOver(worker.key) => AnsweringBot(graph, bots) = worker.key
    BY DEF WorkGoesToNamedBots
  <2>1. PlanFitsBots /\ IsTaskGraph(graph) /\ FitsRequest(graph, message, bots)
    BY <1>1 DEF SubmissionInv, PlanFitsBots, Accepts
  <2>2. ASSUME NEW k \in DOMAIN graph.nodes, graph.nodes[k].agent
        PROVE  \E b \in ToSet(bots) : /\ b.user = graph.nodes[k].key /\ CanUse(b, message.sender)
                                      /\ b.user # Blank
    <3>1. graph.nodes[k] \in ToSet(graph.nodes)
      BY DEF ToSet, Range
    <3>2. PICK b \in ToSet(bots) : b.user = graph.nodes[k].key /\ CanUse(b, message.sender)
      BY <2>1, <2>2, <3>1 DEF FitsRequest
    <3>3. b \in Profile
      BY <2>1 DEF PlanFitsBots, ToSet, Range
    <3>. QED
      BY <3>2, <3>3, BotsAssumption DEF Profile
  <2>3. ASSUME NEW k \in Workers(graph), graph.nodes[k].agent, ~TakenOver(graph.nodes[k].key)
        PROVE  /\ CanUse(NamedBot(graph.nodes[k].key), message.sender)
               /\ \E job \in Jobs(graph, bots) :
                    /\ job.node = graph.nodes[k].id
                    /\ job.agent = First(NamedBot(graph.nodes[k].key).agent, graph.nodes[k].own)
    <3>1. k \in DOMAIN graph.nodes /\ graph.nodes[k].work
      BY DEF Workers
    <3>2. PICK b \in ToSet(bots) : b.user = graph.nodes[k].key /\ CanUse(b, message.sender)
      BY <2>2, <2>3, <3>1
    <3>3. NamedBot(graph.nodes[k].key) = b /\ Resolve(bots, graph.nodes[k].key) = b
      BY <2>1, <2>3, <3>2, KeyIsFound
    <3>4. graph.nodes[k] \in {x \in ToSet(graph.nodes) : x.work /\ x.agent}
      BY <2>3, <3>1 DEF ToSet, Range
    <3>5. [node |-> graph.nodes[k].id, timed |-> graph.nodes[k].timed,
           agent |-> First(b.agent, graph.nodes[k].own)] \in Jobs(graph, bots)
      BY <3>3, <3>4 DEF Jobs
    <3>. QED
      BY <3>2, <3>3, <3>5
  <2>4. ASSUME Workers(graph) # {}, graph.nodes[Min(Workers(graph))].agent
        PROVE  /\ AnsweringBot(graph, bots) # Blank
               /\ ~TakenOver(graph.nodes[Min(Workers(graph))].key) =>
                    AnsweringBot(graph, bots) = graph.nodes[Min(Workers(graph))].key
    <3>1. PICK k : k = Min(Workers(graph))
      OBVIOUS
    <3>2. k \in Workers(graph)
      <4>1. graph.nodes \in Seq(ToSet(graph.nodes))
        BY <1>1, SubmissionAssumption DEF SubmissionInv, TypeOK, IsGraph
      <4>2. Workers(graph) \in SUBSET Nat
        BY <4>1 DEF Workers
      <4>3. \E x \in Workers(graph) : \A y \in Workers(graph) : x <= y
        BY <2>4, <4>2, LeastNat
      <4>. QED
        BY <3>1, <4>3 DEF Min
    <3>3. PICK b \in ToSet(bots) : b.user = graph.nodes[k].key /\ b.user # Blank
      BY <2>2, <2>4, <3>1, <3>2 DEF Workers
    <3>4. AnsweringBot(graph, bots)
            = First(Resolve(bots, graph.nodes[k].key).user, graph.nodes[k].key)
      BY <2>4, <3>1 DEF AnsweringBot
    <3>5. ~TakenOver(graph.nodes[k].key) => Resolve(bots, graph.nodes[k].key) = b
      BY <2>1, <3>3, KeyIsFound
    <3>. QED
      BY <3>1, <3>3, <3>4, <3>5 DEF First
  <2>. QED
    BY <2>3, <2>4
<1>. QED
  BY <1>1, SubmissionInvariant, PTL

(***************************************************************************)
(* Every plan that is started is laid out, whatever its graph: without     *)
(* cycles each node is as early as its predecessors allow, with a cycle    *)
(* every node that is reached comes after one that leads to it.            *)
(***************************************************************************)
THEOREM EveryPlanIsLaidOut == Spec => []PlansAreLaidOut
<1>1. ASSUME SubmissionInv
      PROVE  PlansAreLaidOut
  <2>. SUFFICES ASSUME step = "submit", Normalizes(graph)
                PROVE  /\ \A node \in ToSet(graph.nodes) : node.deps \subseteq Ids(graph)
                       /\ Starts(graph) # {} /\ Starts(graph) \subseteq Ids(graph)
                       /\ ~Explicit(graph) => ~IsCyclic(Ids(graph), Edges(graph))
                       /\ graph.start = <<>> /\ ~Explicit(graph) =>
                            Starts(graph)
                              = {node.id : node \in {x \in ToSet(graph.nodes) : x.deps = {}}}
                       /\ LaidOut(graph)
    BY DEF PlansAreLaidOut
  <2>1. graph \in Proposal
    BY <1>1 DEF SubmissionInv, TypeOK, Submitting
  <2>2. graph # NoGraph
    BY <2>1, SubmissionAssumption
  <2>3. IsGraph(graph) /\ IsTaskGraph(graph)
    BY <1>1, <2>1, <2>2, SubmissionAssumption DEF SubmissionInv, PlanFitsBots, Accepts
  <2>4. \A node \in ToSet(graph.nodes) : node.deps \subseteq Ids(graph)
    BY DEF Normalizes
  <2>5. Starts(graph) # {} /\ Starts(graph) \subseteq Ids(graph)
    BY <2>3, GraphParts
  <2>6. LaidOut(graph) /\ (~Explicit(graph) => ~IsCyclic(Ids(graph), Edges(graph)))
    BY <2>3, GraphIsLaidOut
  <2>7. graph.start = <<>> /\ ~Explicit(graph) =>
          Starts(graph) = {node.id : node \in {x \in ToSet(graph.nodes) : x.deps = {}}}
    BY <2>3, StartsDependOnNothing
  <2>. QED
    BY <2>4, <2>5, <2>6, <2>7
<1>. QED
  BY <1>1, SubmissionInvariant, PTL
=============================================================================
