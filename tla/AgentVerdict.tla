---------------------------- MODULE AgentVerdict ----------------------------
(***************************************************************************)
(* How the answer of an agent becomes the decision that the edges of a     *)
(* review gate test: which text is read (a2a_runtime.py, the three         *)
(* backends), how JSON objects are found in it, and what is made of them,  *)
(* or of words, if there is no object.                                     *)
(*                                                                         *)
(* The agent works on a task of the agent service, where others may        *)
(* comment too ("multica"), or answers through a job ("multica_job",       *)
(* "hermes").  A text is a sequence of tokens: the characters that matter  *)
(* to the scanner, the fence of a code block, and words.                   *)
(***************************************************************************)
EXTENDS Integers, Sequences

CONSTANTS
  Token,
  Open, Close, Quote, Backslash, Fence,   \* { } " \ and three backquotes
  Signs(_),      \* of a token: the phrases, out of Phrase, that it contains
  Loads(_),      \* json.loads: the object a text stands for, or NotAnObject
  NotAnObject,
  DecisionKeys,  \* the keys a decision is looked for under, in that order
  Falsy,         \* values of no account: "", null, 0, false
  Normal(_),     \* a value in the words of the edges (_normalize_decision_value)
  NoDecision, NoText,
  Answers,       \* texts an agent may give as its final answer
  Remarks,       \* other comments; NoText is one without text
  Edges,         \* of the gate: [when, to], when a decision or Always
  Always,
  MaxRemarks     \* bound

Phrase == {"en_revision", "en_approval", "zh_revision", "zh_approval", "clarification"}
Backend == {"multica", "multica_job", "hermes"}

Special == <<Open, Close, Quote, Backslash, Fence>>

ASSUME VerdictAssumption ==
  /\ \A i \in 1 .. 5 : Special[i] \in Token
  /\ \A i, j \in 1 .. 5 : Special[i] = Special[j] => i = j
  /\ Answers \subseteq Seq(Token) /\ Remarks \subseteq Seq(Token) \union {NoText}
  /\ NoText \notin Seq(Token) /\ <<>> \notin Answers \union Remarks
  /\ "approved" \notin {Always, NoDecision}
  /\ MaxRemarks \in Nat

\* How a reader of JSON goes through a text: braces count outside of strings.
LexStep(s, c) ==
  IF s.string
  THEN [depth |-> s.depth, string |-> s.escape \/ c # Quote, escape |-> ~s.escape /\ c = Backslash]
  ELSE [depth |-> s.depth + (IF c = Open THEN 1 ELSE IF c = Close THEN -1 ELSE 0),
        string |-> c = Quote, escape |-> FALSE]

\* Its state after each prefix of t.
Lexed(t) ==
  LET state[n \in 0 .. Len(t)] ==
        IF n = 0 THEN [depth |-> 0, string |-> FALSE, escape |-> FALSE]
        ELSE LexStep(state[n - 1], t[n])
  IN state

\* The text of an object begins with a brace, and ends where that brace is closed.
IsBalanced(t) ==
  /\ Len(t) > 0 /\ t[1] = Open
  /\ \A n \in 1 .. Len(t) - 1 : Lexed(t)[n].depth > 0
  /\ Lexed(t)[Len(t)].depth = 0

\* json.loads takes no other text for an object.
ASSUME ObjectsAreBalanced ==
  \A t \in (Answers \union Remarks) \ {NoText} : \A i, j \in DOMAIN t :
    Loads(SubSeq(t, i, j)) # NotAnObject => IsBalanced(SubSeq(t, i, j))

VARIABLES
  backend, expectsObject,   \* of the node; expectedOutputFormat = "json_object"
  \* The agent service.
  comments, final,   \* comments on the task; where the agent's answer is, 0 if not yet given
  finished,          \* whether the agent has set the status
  \* The worker.
  stage,
  text,              \* what is judged
  region, pos, start, depth, inString, escape,   \* _balanced_json_objects
  found,             \* intervals of text, candidates in order
  decision, taken, outcome

task == <<comments, final, finished>>
lexer == <<region, pos, start, depth, inString, escape>>
result == <<decision, taken, outcome>>
vars == <<backend, expectsObject, task, stage, text, lexer, found, result>>

\* Before the first region.
Outset == [first |-> 1, last |-> -1, whole |-> FALSE]

\* Comments other than the answer.
RemarkCount == Len(comments) - (IF final = 0 THEN 0 ELSE 1)

Init ==
  /\ backend \in Backend /\ expectsObject \in (IF backend = "hermes" THEN BOOLEAN ELSE {FALSE})
  /\ comments = <<>> /\ final = 0 /\ finished = FALSE
  /\ stage = "waiting" /\ text = NoText
  /\ region = Outset /\ pos = 0 /\ start = 0 /\ depth = 0 /\ inString = FALSE /\ escape = FALSE
  /\ found = <<>>
  /\ decision = NoDecision /\ taken = {} /\ outcome = "none"
-----------------------------------------------------------------------------
(* The task in the agent service.                                          *)

Remark(t) ==
  /\ backend = "multica" /\ RemarkCount < MaxRemarks
  /\ stage \in {"waiting", "comments"}
  /\ comments' = Append(comments, t)
  /\ UNCHANGED <<backend, expectsObject, final, finished, stage, text, lexer, found, result>>

\* As the prompt demands: the result is a comment, and the status is set after it.
GiveAnswer(t) ==
  /\ backend = "multica" /\ final = 0
  /\ comments' = Append(comments, t) /\ final' = Len(comments) + 1
  /\ UNCHANGED <<backend, expectsObject, finished, stage, text, lexer, found, result>>

Finish ==
  /\ backend = "multica" /\ final # 0 /\ ~finished
  /\ finished' = TRUE
  /\ UNCHANGED <<backend, expectsObject, comments, final, stage, text, lexer, found, result>>
-----------------------------------------------------------------------------
(* The text that is judged.                                                *)

\* From here on t is judged.
Judge(t) ==
  /\ text' = t
  /\ stage' = IF t = NoText THEN "load" ELSE "scan"
  /\ UNCHANGED <<backend, expectsObject, task, lexer, found, result>>

\* _latest_comment_raw_text: the last comment that has a text.
LatestComment ==
  LET given == {k \in DOMAIN comments : comments[k] # NoText}
  IN IF given = {} THEN NoText ELSE comments[CHOOSE k \in given : \A j \in given : j <= k]

\* Faulty variant: the comments are read before the status.
WhileWorking == TRUE

\* _poll_multica_task: the status says that the agent is through.
WhenDone == finished

ReadStatus ==
  /\ backend = "multica" /\ stage = "waiting" /\ WhenDone
  /\ stage' = "comments"
  /\ UNCHANGED <<backend, expectsObject, task, text, lexer, found, result>>

\* _complete_multica_task: a request that fails leaves the node without a comment.
ReadComments ==
  /\ stage = "comments"
  /\ Judge(LatestComment) \/ Judge(NoText)

\* _multica_job_result, _complete_hermes_task: the reply of the job.
ReadReply(t) ==
  /\ backend # "multica" /\ stage = "waiting"
  /\ Judge(t)
-----------------------------------------------------------------------------
(* _balanced_json_objects, a character at a time.                          *)

Char ==
  /\ stage = "scan" /\ pos <= region.last
  /\ pos' = pos + 1
  /\ UNCHANGED <<backend, expectsObject, task, stage, text, region, result>>

\* Faulty variant: quotes are not told from other characters.
NoQuotes(c) == FALSE

IsQuote(c) == c = Quote

ScanString ==
  /\ Char /\ inString
  /\ escape' = (~escape /\ text[pos] = Backslash)
  /\ inString' = (escape \/ text[pos] # Quote)
  /\ UNCHANGED <<start, depth, found>>

ScanQuote ==
  /\ Char /\ ~inString /\ IsQuote(text[pos])
  /\ inString' = TRUE
  /\ UNCHANGED <<start, depth, escape, found>>

ScanOpen ==
  /\ Char /\ ~inString /\ text[pos] = Open
  /\ start' = IF depth = 0 THEN pos ELSE start
  /\ depth' = depth + 1
  /\ UNCHANGED <<inString, escape, found>>

\* Faulty variant: a closing brace counts without an opening one.
AnyClose == TRUE

Closes == depth > 0

ScanClose ==
  /\ Char /\ ~inString /\ text[pos] = Close /\ Closes
  /\ depth' = depth - 1
  /\ IF depth = 1
     THEN found' = Append(found, <<start, pos>>) /\ start' = 0
     ELSE UNCHANGED <<found, start>>
  /\ UNCHANGED <<inString, escape>>

ScanOther ==
  /\ Char /\ ~inString
  /\ ~IsQuote(text[pos]) /\ text[pos] # Open /\ ~(text[pos] = Close /\ Closes)
  /\ UNCHANGED <<start, depth, inString, escape, found>>

\* The next code block: two fences, the first at or after from (_json_candidates_from_text).
IsBlock(from, a, b) ==
  /\ from <= a /\ a < b /\ text[a] = Fence /\ text[b] = Fence
  /\ \A k \in from .. b - 1 : k # a => text[k] # Fence

Enter(first, last, whole) ==
  /\ region' = [first |-> first, last |-> last, whole |-> whole] /\ pos' = first
  /\ start' = 0 /\ depth' = 0 /\ inString' = FALSE /\ escape' = FALSE

EndOfRegion ==
  /\ stage = "scan" /\ pos > region.last
  /\ UNCHANGED <<backend, expectsObject, task, text, result>>

NextBlock ==
  /\ EndOfRegion /\ ~region.whole
  /\ \E a, b \in DOMAIN text : IsBlock(region.last + 2, a, b) /\ Enter(a + 1, b - 1, FALSE)
  /\ UNCHANGED <<stage, found>>

\* After the code blocks, the whole text; in braces it is a candidate itself.
WholeText ==
  /\ EndOfRegion /\ ~region.whole
  /\ ~\E a, b \in DOMAIN text : IsBlock(region.last + 2, a, b)
  /\ Enter(1, Len(text), TRUE)
  /\ found' = IF text[1] = Open /\ text[Len(text)] = Close
              THEN Append(found, <<1, Len(text)>>) ELSE found
  /\ UNCHANGED stage

EndScan ==
  /\ EndOfRegion /\ region.whole
  /\ stage' = "load"
  /\ UNCHANGED <<lexer, found>>
-----------------------------------------------------------------------------
(* The decision.                                                           *)

Empty == <<>>    \* the object without keys, and no object

Candidates == [k \in DOMAIN found |-> SubSeq(text, found[k][1], found[k][2])]

\* _json_object_from_text: the first candidate that is an object, if only {}.
FirstObject(candidates) ==
  LET objects == {k \in DOMAIN candidates : Loads(candidates[k]) # NotAnObject}
  IN IF objects = {} THEN Empty
     ELSE Loads(candidates[CHOOSE k \in objects : \A j \in objects : k <= j])

\* _normalize_agent_decision_payload
FromObject(object) ==
  LET given == SelectSeq(DecisionKeys, LAMBDA k : k \in DOMAIN object /\ object[k] \notin Falsy)
  IN IF given = <<>> THEN NoDecision ELSE Normal(object[given[1]])

Says(t, phrase) == \E k \in DOMAIN t : phrase \in Signs(t[k])

\* Faulty variant: approval is looked for first.
ApprovalFirst(t) ==
  IF Says(t, "en_approval") \/ Says(t, "zh_approval") THEN "approved"
  ELSE IF Says(t, "en_revision") \/ Says(t, "zh_revision") THEN "needs_revision"
  ELSE NoDecision

\* _extract_decision_from_text
FromWords(t) ==
  IF Says(t, "en_revision") THEN "needs_revision"
  ELSE IF Says(t, "en_approval") THEN "approved"
  ELSE IF Says(t, "zh_revision") THEN "needs_revision"
  ELSE IF Says(t, "zh_approval") THEN "approved"
  ELSE NoDecision

\* Faulty variant: the words are looked at first.
WordsFirst(object, t) ==
  IF FromWords(t) # NoDecision THEN FromWords(t) ELSE FromObject(object)

\* _extract_structured_agent_output
Decide(object, t) == IF object # Empty THEN FromObject(object) ELSE FromWords(t)

\* _hermes_output_validation_error
HermesRefuses(object, t) ==
  backend = "hermes" /\ \/ t = NoText
                        \/ Says(t, "clarification")
                        \/ expectsObject /\ object = Empty

Load ==
  LET object == FirstObject(Candidates) IN
  /\ stage = "load"
  /\ IF HermesRefuses(object, text)
     THEN stage' = "over" /\ outcome' = "failed" /\ UNCHANGED decision
     ELSE /\ stage' = "branch" /\ UNCHANGED outcome
          /\ decision' = IF text = NoText THEN NoDecision ELSE Decide(object, text)
  /\ UNCHANGED <<backend, expectsObject, task, text, lexer, found, taken>>

\* JsonDagWorkflow.run with _edge_is_enabled: the node is completed; the run fails if it has
\* edges and none of them is taken.
Enabled(e) == e.when = Always \/ e.when = decision

Branch ==
  /\ stage = "branch" /\ stage' = "over"
  /\ taken' = {e \in Edges : Enabled(e)}
  /\ outcome' = IF Edges # {} /\ taken' = {} THEN "unmatched" ELSE "completed"
  /\ UNCHANGED <<backend, expectsObject, task, text, lexer, found, decision>>
-----------------------------------------------------------------------------
Scan == ScanString \/ ScanQuote \/ ScanOpen \/ ScanClose \/ ScanOther
        \/ NextBlock \/ WholeText \/ EndScan

Done == stage = "over" /\ (backend = "multica" => finished) /\ UNCHANGED vars

Next ==
  \/ \E t \in Remarks : Remark(t)
  \/ \E t \in Answers : GiveAnswer(t)
  \/ Finish
  \/ ReadStatus \/ ReadComments
  \/ \E t \in Answers \union {NoText} : ReadReply(t)
  \/ Scan \/ Load \/ Branch \/ Done

Spec == Init /\ [][Next]_vars
=============================================================================
