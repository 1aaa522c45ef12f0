----------------------- MODULE AgentVerdictProperties -----------------------
(***************************************************************************)
(* What a review gate can rely on.                                         *)
(***************************************************************************)
EXTENDS AgentVerdict

Judged == stage \in {"scan", "load", "branch", "over"} /\ text # NoText

IsObject(t) == Loads(t) # NotAnObject

(***************************************************************************)
(* The agent's answer is what is judged: its comment is on the task before *)
(* the status says so, and the status is read before the comments, so no   *)
(* earlier remark can stand in for it; only a later one can                *)
(* (_poll_multica_task, _complete_multica_task).                           *)
(***************************************************************************)
FinalCommentDecides ==
  backend = "multica" /\ Judged =>
    final # 0 /\ \E k \in final .. Len(comments) : text = comments[k]

(***************************************************************************)
(* The block that the prompts ask for decides: if the only code block of   *)
(* an answer stands at its end and is an object with keys, the decision is *)
(* the one in the block, whatever words, braces and quotes stand before it *)
(* (_json_candidates_from_text).                                           *)
(***************************************************************************)
IsClosingBlock(a) ==
  /\ a < Len(text) /\ {k \in DOMAIN text : text[k] = Fence} = {a, Len(text)}
  /\ IsObject(SubSeq(text, a + 1, Len(text) - 1))

ClosingBlockDecides ==
  stage = "branch" /\ Judged =>
    \A a \in DOMAIN text :
      IsClosingBlock(a) =>
        LET object == Loads(SubSeq(text, a + 1, Len(text) - 1))
        IN object # Empty => decision = FromObject(object)

(***************************************************************************)
(* Without code blocks the first object is found, whatever its strings     *)
(* hold and whatever follows it, unless braces or quotes stand before it;  *)
(* words count only if it has no keys (_balanced_json_objects).            *)
(***************************************************************************)
IsFirstObject(i, j) ==
  /\ \A k \in DOMAIN text : text[k] # Fence
  /\ \A k \in 1 .. i - 1 : text[k] \notin {Open, Close, Quote}
  /\ i <= j /\ IsObject(SubSeq(text, i, j))

BareObjectDecides ==
  stage = "branch" /\ Judged =>
    \A i, j \in DOMAIN text :
      IsFirstObject(i, j) => decision = Decide(Loads(SubSeq(text, i, j)), text)

(***************************************************************************)
(* Approval must be said: a gate is passed only if some object in the text *)
(* says so, or an approving word with no word against it that counts for   *)
(* more; a comment that could not be read passes no gate                   *)
(* (_extract_decision_from_text, _safe_agent_service_get).                 *)
(***************************************************************************)
ApprovedByObject ==
  \E i, j \in DOMAIN text :
    i <= j /\ IsObject(SubSeq(text, i, j)) /\ FromObject(Loads(SubSeq(text, i, j))) = "approved"

ApprovedByWords ==
  /\ ~Says(text, "en_revision")
  /\ \/ Says(text, "en_approval")
     \/ Says(text, "zh_approval") /\ ~Says(text, "zh_revision")

ApprovalIsSaid ==
  (\E e \in taken : e.when = "approved") => text # NoText /\ (ApprovedByObject \/ ApprovedByWords)

(***************************************************************************)
(* The inductive invariant: the scanner stays in its region, an object is  *)
(* open exactly while its start is known, candidates run from an opening   *)
(* brace to a closing one behind it, and the object that the answer is     *)
(* about is come to, read as JSON reads it, and found before its rivals.   *)
(***************************************************************************)
TypeOK ==
  /\ backend \in Backend /\ expectsObject \in BOOLEAN
  /\ comments \in Seq(Remarks \union Answers) /\ finished \in BOOLEAN
  /\ final \in 0 .. Len(comments)
  /\ stage \in {"waiting", "comments", "scan", "load", "branch", "over"}
  /\ text \in Remarks \union Answers \union {NoText}
  /\ region \in [first : Nat, last : Int, whole : BOOLEAN]
  /\ pos \in Nat /\ start \in Nat /\ depth \in Nat /\ inString \in BOOLEAN /\ escape \in BOOLEAN
  /\ found \in Seq(Nat \X Nat)
  /\ taken \subseteq Edges /\ outcome \in {"none", "failed", "unmatched", "completed"}

IsCandidate(c) ==
  /\ c[1] \in DOMAIN text /\ c[2] \in DOMAIN text /\ c[1] <= c[2]
  /\ text[c[1]] = Open /\ text[c[2]] = Close

ScannerOK ==
  /\ escape => inString
  /\ depth = 0 <=> start = 0
  /\ stage = "scan" =>
       /\ text # NoText
       /\ region.last <= Len(text) /\ pos <= region.last + 1
       /\ region # Outset => 1 <= region.first /\ region.first <= pos
  /\ stage = "scan" /\ depth > 0 =>
       region.first <= start /\ start < pos /\ text[start] = Open
  /\ \A k \in DOMAIN found : IsCandidate(found[k])

AnswerFirst ==
  /\ finished => final # 0
  /\ final # 0 => comments[final] \in Answers
  /\ stage = "comments" => finished
  /\ backend = "multica" /\ stage = "waiting" => text = NoText
  /\ stage \in {"waiting", "comments"} => found = <<>> /\ region = Outset /\ pos = 0 /\ depth = 0

\* Where an approval that was given comes from.
ApprovalBacked ==
  /\ stage \notin {"branch", "over"} => decision = NoDecision /\ taken = {}
  /\ stage = "branch" => taken = {}
  /\ decision = "approved" => text # NoText /\ (ApprovedByObject \/ ApprovedByWords)
  /\ \A e \in taken : e.when = "approved" => decision = "approved"

\* The object at i .. j of the text is the one that the agent's answer is about.
Leads(i, j) ==
  \/ i > 1 /\ j = Len(text) - 1 /\ IsClosingBlock(i - 1)
  \/ IsFirstObject(i, j)

\* Candidate c takes nothing away from it.
NoRival(c, i, j) == c = <<i, j>> \/ ~IsObject(SubSeq(text, c[1], c[2]))

FoundFirst(i, j) ==
  \E k \in DOMAIN found : found[k] = <<i, j>> /\ \A l \in 1 .. k : NoRival(found[l], i, j)

\* The scanner comes to it, or is in it, with the brace at i as the outermost one.
Reaches(i, j) ==
  /\ region.first <= i /\ pos <= j /\ j <= region.last
  /\ \A k \in DOMAIN found : NoRival(found[k], i, j)
  /\ IF pos <= i
     THEN depth = 0 /\ ~inString /\ \A k \in pos .. i - 1 : text[k] \notin {Open, Close, Quote}
     ELSE /\ start = i
          /\ Lexed(SubSeq(text, i, j))[pos - i] =
               [depth |-> depth, string |-> inString, escape |-> escape]

ObjectComes ==
  /\ stage = "scan" =>
       \A i, j \in DOMAIN text :
         Leads(i, j) =>
           \/ region = Outset /\ found = <<>>
           \/ Reaches(i, j)
           \/ FoundFirst(i, j)
  /\ stage \in {"load", "branch"} /\ text # NoText =>
       \A i, j \in DOMAIN text : Leads(i, j) => FoundFirst(i, j)
  /\ stage = "branch" /\ text # NoText => decision = Decide(FirstObject(Candidates), text)

VerdictInv ==
  /\ TypeOK
  /\ ScannerOK
  /\ AnswerFirst
  /\ FinalCommentDecides
  /\ ApprovalBacked
  /\ ObjectComes
=============================================================================
