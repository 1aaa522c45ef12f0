------------------------- MODULE AgentVerdictProofs -------------------------
(***************************************************************************)
(* VerdictInv and the properties of the gate, for any texts and any edges, *)
(* and any JSON parser that takes only balanced texts for objects.  The    *)
(* scanner's part of the invariant says where a candidate may lie; the     *)
(* part about the task (AnswerFirst) ties the status to the answer, so     *)
(* that the comments read after the status hold the answer; the part about *)
(* the object (ObjectComes) follows the scanner to the object that decides *)
(* and through it, where it counts braces and quotes as JSON does.         *)
(***************************************************************************)
EXTENDS AgentVerdictProperties, FiniteInduction

LEMMA LatestIsThere ==
  ASSUME TypeOK, NEW a \in DOMAIN comments, comments[a] # NoText
  PROVE  \E k \in a .. Len(comments) : LatestComment = comments[k] /\ comments[k] # NoText
<1>. DEFINE given == {k \in DOMAIN comments : comments[k] # NoText}
<1>1. comments \in Seq(Remarks \union Answers)
  BY DEF TypeOK
<1>2. given \in SUBSET (1 .. Len(comments)) /\ given # {} /\ a \in given
  <2>1. DOMAIN comments = 1 .. Len(comments) /\ Len(comments) \in Nat
    BY <1>1
  <2>. QED
    BY <2>1
<1>3. \E k \in given : \A j \in given : j <= k
  <2>1. IsFiniteSet(1 .. Len(comments)) /\ 1 .. Len(comments) \in SUBSET Int
    <3>1. 1 \in Int /\ Len(comments) \in Int
      BY <1>1
    <3>. QED
      BY <3>1, FS_Interval
  <2>. HIDE DEF given
  <2>2. IsFiniteSet(given) /\ given \in SUBSET Int
    BY <1>2, <2>1, FS_Subset
  <2>. QED
    BY <1>2, <2>2, FiniteBounds
<1>4. PICK k : k = CHOOSE x \in given : \A j \in given : j <= x
  OBVIOUS
<1>5. k \in given /\ \A j \in given : j <= k
  BY <1>3, <1>4
<1>6. LatestComment = comments[k]
  BY <1>2, <1>4 DEF LatestComment
<1>. QED
  BY <1>1, <1>2, <1>5, <1>6

LEMMA LatestType ==
  ASSUME TypeOK
  PROVE  LatestComment \in Remarks \union Answers \union {NoText}
<1>1. CASE \A k \in DOMAIN comments : comments[k] = NoText
  BY <1>1 DEF LatestComment
<1>2. CASE \E k \in DOMAIN comments : comments[k] # NoText
  <2>1. PICK k \in 1 .. Len(comments) : LatestComment = comments[k]
    BY <1>2, LatestIsThere DEF TypeOK
  <2>. QED
    BY <2>1 DEF TypeOK
<1>. QED
  BY <1>1, <1>2

LEMMA TextType ==
  ASSUME TypeOK, text # NoText
  PROVE  text \in Seq(Token) /\ Len(text) \in Nat /\ DOMAIN text = 1 .. Len(text)
         /\ Len(text) > 0
<1>1. text \in Seq(Token) /\ text # <<>>
  BY VerdictAssumption DEF TypeOK
<1>. QED
  BY <1>1

-----------------------------------------------------------------------------
(* Reading a text as JSON does.                                            *)

LexState == [depth : Int, string : BOOLEAN, escape : BOOLEAN]

LEMMA LexStepType ==
  ASSUME NEW s \in LexState, NEW c
  PROVE  LexStep(s, c) \in LexState
BY DEF LexStep, LexState

\* The states after the prefixes of a text exist, and follow one from the other.
LEMMA LexedFacts ==
  ASSUME NEW t \in Seq(Token)
  PROVE  /\ Lexed(t) \in [0 .. Len(t) -> LexState]
         /\ Lexed(t)[0] = [depth |-> 0, string |-> FALSE, escape |-> FALSE]
         /\ \A n \in 1 .. Len(t) : Lexed(t)[n] = LexStep(Lexed(t)[n - 1], t[n])
<1> DEFINE N == Len(t)
           a == [depth |-> 0, string |-> FALSE, escape |-> FALSE]
           step == [p \in (1 .. N) \X LexState |-> LexStep(p[2], t[p[1]])]
           body(f) == [n \in 0 .. N |-> IF n = 0 THEN a ELSE LexStep(f[n - 1], t[n])]
<1>1. N \in Nat /\ a \in LexState
  BY DEF LexState
<1>2. step \in [(1 .. N) \X LexState -> LexState]
  BY LexStepType
<1>3. \A n \in 1 .. N, s \in LexState : step[<<n, s>>] = LexStep(s, t[n])
  OBVIOUS
<1>4. Lexed(t) = CHOOSE f : f = body(f)
  BY Zenon DEF Lexed
<1> HIDE DEF N, a, step
<1>5. PICK g \in [0 .. N -> LexState] : g[0] = a /\ \A n \in 1 .. N : g[n] = step[<<n, g[n - 1]>>]
  <2>1. step \in StepsOf(N, LexState) /\ N \in Nat /\ a \in LexState
    BY <1>1, <1>2 DEF StepsOf
  <2>2. PICK g : IsRun(g, N, LexState, a, step)
    BY ONLY <2>1, RecursionUpTo
  <2>. QED
    BY <2>2 DEF IsRun
<1>6. g = body(g)
  <2>1. ASSUME NEW n \in 0 .. N
        PROVE  g[n] = body(g)[n]
    <3>1. CASE n = 0
      BY <1>5, <3>1
    <3>2. CASE n # 0
      <4>1. n \in 1 .. N /\ n - 1 \in 0 .. N
        BY <1>1, <3>2
      <4>2. g[n] = LexStep(g[n - 1], t[n])
        BY <1>3, <1>5, <4>1
      <4>. QED
        BY <3>2, <4>2
    <3>. QED
      BY <3>1, <3>2
  <2>. QED
    BY <2>1
<1>7. Lexed(t) = body(Lexed(t))
  <2> HIDE DEF body
  <2>. QED
    BY <1>4, <1>6
<1>8. \A n \in 0 .. N : Lexed(t)[n] = g[n]
  <2> DEFINE T == {n \in 0 .. N : Lexed(t)[n] = g[n]}
  <2>1. 0 \in T
    BY <1>1, <1>5, <1>7
  <2>2. ASSUME NEW n \in 1 .. N, n - 1 \in T
        PROVE  n \in T
    <3>1. n \in 0 .. N /\ n # 0
      BY <1>1
    <3>2. Lexed(t)[n] = LexStep(Lexed(t)[n - 1], t[n])
      BY <1>7, <3>1
    <3>3. g[n] = LexStep(g[n - 1], t[n])
      BY <1>6, <3>1
    <3>. QED
      BY <2>2, <3>1, <3>2, <3>3
  <2> HIDE DEF T
  <2>3. \A n \in 0 .. N : n \in T
    BY <1>1, <2>1, <2>2, UpTo
  <2>. QED
    BY <2>3 DEF T
<1>9. DOMAIN Lexed(t) = 0 .. N
  BY <1>7
<1>10. Lexed(t) = g
  <2>1. Lexed(t) = [n \in 0 .. N |-> Lexed(t)[n]] /\ g = [n \in 0 .. N |-> g[n]]
    BY <1>5, <1>7
  <2>. QED
    BY <1>8, <2>1
<1>11. \A n \in 1 .. N : g[n] = LexStep(g[n - 1], t[n])
  <2>1. ASSUME NEW n \in 1 .. N
        PROVE  g[n] = LexStep(g[n - 1], t[n])
    <3>1. n - 1 \in 0 .. N
      BY <1>1
    <3>. QED
      BY <1>3, <1>5, <3>1
  <2>. QED
    BY <2>1
<1>. QED
  BY <1>5, <1>10, <1>11 DEF N, a

USE DEF Outset

ScanStep == ScanString \/ ScanQuote \/ ScanOpen \/ ScanClose \/ ScanOther

LEMMA AppendType ==
  ASSUME NEW S, NEW s \in Seq(S), NEW c \in S, NEW t, t = s \/ t = Append(s, c)
  PROVE  t \in Seq(S)
OBVIOUS

LEMMA TypeKept ==
  ASSUME TypeOK, ScannerOK, [Next]_vars
  PROVE  TypeOK'
<1>1. ASSUME NEW t \in Remarks, Remark(t)
      PROVE  TypeOK'
  BY <1>1 DEF TypeOK, Remark, lexer, result
<1>2. ASSUME NEW t \in Answers, GiveAnswer(t)
      PROVE  TypeOK'
  BY <1>2 DEF TypeOK, GiveAnswer, lexer, result
<1>3. CASE Finish
  BY <1>3 DEF TypeOK, Finish, lexer, result
<1>4. CASE ReadStatus
  BY <1>4 DEF TypeOK, ReadStatus, task, lexer, result
<1>5. ASSUME NEW t \in Remarks \union Answers \union {NoText}, Judge(t)
      PROVE  TypeOK'
  BY <1>5 DEF TypeOK, Judge, task, lexer, result
<1>6. CASE ReadComments
  BY <1>5, <1>6, LatestType DEF ReadComments
<1>7. CASE \E t \in Answers \union {NoText} : ReadReply(t)
  BY <1>5, <1>7 DEF ReadReply
<1>8. CASE ScanStep
  <2>1. UNCHANGED <<backend, expectsObject, comments, final, finished, stage, text, region, taken, outcome>>
        /\ pos' = pos + 1
    BY <1>8 DEF ScanStep, ScanString, ScanQuote, ScanOpen, ScanClose, ScanOther, Char, task, result
  <2>2. start' \in Nat /\ depth' \in Nat
    BY <1>8 DEF ScanStep, ScanString, ScanQuote, ScanOpen, ScanClose, ScanOther, Char, Closes, TypeOK
  <2>3. inString' \in BOOLEAN /\ escape' \in BOOLEAN
    BY <1>8 DEF ScanStep, ScanString, ScanQuote, ScanOpen, ScanClose, ScanOther, TypeOK
  <2>4. found' \in Seq(Nat \X Nat)
    <3>1. found' = found \/ found' = Append(found, <<start, pos>>)
      BY <1>8 DEF ScanStep, ScanString, ScanQuote, ScanOpen, ScanClose, ScanOther
    <3>2. found \in Seq(Nat \X Nat)
      BY DEF TypeOK
    <3>3. PICK c \in Nat \X Nat : c = <<start, pos>>
      BY DEF TypeOK
    <3>4. found' = found \/ found' = Append(found, c)
      BY ONLY <3>1, <3>3
    <3>. QED
      BY ONLY <3>2, <3>4, c \in Nat \X Nat, AppendType
  <2>. QED
    BY <2>1, <2>2, <2>3, <2>4 DEF TypeOK
<1>9. CASE NextBlock
  <2>1. PICK a \in DOMAIN text, b \in DOMAIN text : Enter(a + 1, b - 1, FALSE)
    BY <1>9 DEF NextBlock
  <2>2. text # NoText
    BY <1>9 DEF NextBlock, EndOfRegion, ScannerOK
  <2>3. a \in Nat /\ b \in Nat /\ a >= 1 /\ b >= 1
    BY <2>2, TextType
  <2>4. region' \in [first : Nat, last : Int, whole : BOOLEAN] /\ pos' \in Nat
    BY <2>1, <2>3 DEF Enter
  <2>5. start' \in Nat /\ depth' \in Nat /\ inString' \in BOOLEAN /\ escape' \in BOOLEAN
    BY <2>1 DEF Enter
  <2>. QED
    BY <1>9, <2>4, <2>5 DEF TypeOK, NextBlock, EndOfRegion, task, result
<1>10. CASE WholeText
  <2>1. Len(text) \in Nat
    BY <1>10, TextType DEF WholeText, EndOfRegion, ScannerOK
  <2>2. region' \in [first : Nat, last : Int, whole : BOOLEAN] /\ pos' \in Nat
    BY <1>10, <2>1 DEF WholeText, Enter
  <2>3. start' \in Nat /\ depth' \in Nat /\ inString' \in BOOLEAN /\ escape' \in BOOLEAN
    BY <1>10 DEF WholeText, Enter
  <2>4. found' \in Seq(Nat \X Nat)
    BY <1>10, <2>1 DEF WholeText, TypeOK
  <2>. QED
    BY <1>10, <2>2, <2>3, <2>4 DEF TypeOK, WholeText, EndOfRegion, task, result
<1>11. CASE EndScan
  BY <1>11 DEF TypeOK, EndScan, EndOfRegion, task, lexer, result
<1>12. CASE Load
  BY <1>12 DEF TypeOK, Load, task, lexer
<1>13. CASE Branch
  BY <1>13 DEF TypeOK, Branch, task, lexer
<1>14. CASE UNCHANGED vars
  BY <1>14 DEF TypeOK, vars, task, lexer, result
<1>. QED
  BY <1>1, <1>2, <1>3, <1>4, <1>6, <1>7, <1>8, <1>9, <1>10, <1>11, <1>12, <1>13, <1>14
  DEF Next, Scan, ScanStep, Done

\* A further candidate between the first and the last position of the text.
LEMMA CandidateAdded ==
  ASSUME TypeOK, NEW c \in Nat \X Nat, IsCandidate(c), \A k \in DOMAIN found : IsCandidate(found[k]),
         found' = Append(found, c), text' = text
  PROVE  (\A k \in DOMAIN found : IsCandidate(found[k]))'
<1>1. found \in Seq(Nat \X Nat)
  BY DEF TypeOK
<1>2. \A k \in DOMAIN found' : found'[k] = c \/ \E j \in DOMAIN found : found'[k] = found[j]
  BY <1>1
<1>. QED
  BY <1>2 DEF IsCandidate

LEMMA ScannerKept ==
  ASSUME TypeOK, ScannerOK, AnswerFirst, [Next]_vars
  PROVE  ScannerOK'
<1>0. \A k \in DOMAIN found : IsCandidate(found[k])
  BY DEF ScannerOK
<1>1. CASE UNCHANGED <<lexer, found, text>> /\ (stage' = "scan" => stage = "scan")
  BY <1>1 DEF ScannerOK, lexer, IsCandidate
<1>2. ASSUME NEW t, Judge(t), stage \in {"waiting", "comments"}, t \in Answers \union Remarks \union {NoText}
      PROVE  ScannerOK'
  <2>1. found = <<>> /\ region = Outset /\ pos = 0 /\ depth = 0
    BY <1>2 DEF AnswerFirst
  <2>2. t # NoText => Len(t) \in Nat
    BY <1>2, VerdictAssumption
  <2>. QED
    BY <1>2, <2>1, <2>2 DEF Judge, ScannerOK, lexer
<1>3. CASE ReadComments
  BY <1>2, <1>3, LatestType DEF ReadComments
<1>4. CASE \E t \in Answers \union {NoText} : ReadReply(t)
  BY <1>2, <1>4 DEF ReadReply
<1>5. ASSUME ScanStep
      PROVE  /\ stage = "scan" /\ stage' = "scan" /\ text' = text /\ region' = region
             /\ pos <= region.last /\ pos' = pos + 1
             /\ text # NoText /\ Len(text) \in Nat /\ DOMAIN text = 1 .. Len(text)
             /\ region.last <= Len(text) /\ region.last \in Int
             /\ 1 <= region.first /\ region.first <= pos /\ region.first \in Nat
             /\ pos \in DOMAIN text
  <2>1. /\ stage = "scan" /\ stage' = "scan" /\ text' = text /\ region' = region
        /\ pos <= region.last /\ pos' = pos + 1
    BY <1>5 DEF ScanStep, ScanString, ScanQuote, ScanOpen, ScanClose, ScanOther, Char
  <2>2. text # NoText /\ region.last <= Len(text) /\ (region # Outset => 1 <= region.first /\ region.first <= pos)
    BY <2>1 DEF ScannerOK
  <2>3. region.last \in Int /\ region.first \in Nat /\ pos \in Nat
    BY DEF TypeOK
  <2>4. region # Outset
    BY <2>1, <2>3
  <2>. QED
    BY <2>1, <2>2, <2>3, <2>4, TextType
<1>6. CASE ScanString \/ ScanQuote \/ ScanOther
  <2>1. ScanStep
    BY <1>6 DEF ScanStep
  <2>2. start' = start /\ depth' = depth /\ found' = found /\ (escape' => inString')
    <3>1. Special[3] # Special[4]
      BY VerdictAssumption
    <3>2. Quote # Backslash
      BY <3>1 DEF Special
    <3>. QED
      BY <1>6, <3>2 DEF ScanString, ScanQuote, ScanOther, ScannerOK, TypeOK
  <2>. QED
    BY <1>5, <2>1, <2>2 DEF ScannerOK, TypeOK, IsCandidate
<1>7. CASE ScanOpen
  <2>1. ScanStep
    BY <1>7 DEF ScanStep
  <2>2. /\ start' = (IF depth = 0 THEN pos ELSE start) /\ depth' = depth + 1
        /\ found' = found /\ escape' = escape /\ inString' = inString /\ text[pos] = Open
    BY <1>7 DEF ScanOpen
  <2>. QED
    BY <1>5, <2>1, <2>2 DEF ScannerOK, TypeOK, IsCandidate
<1>8. CASE ScanClose
  <2>1. ScanStep
    BY <1>8 DEF ScanStep
  <2>2. /\ depth' = depth - 1 /\ escape' = escape /\ inString' = inString /\ text[pos] = Close
        /\ depth > 0 /\ depth \in Nat /\ start \in Nat /\ pos \in Nat
        /\ IF depth = 1 THEN found' = Append(found, <<start, pos>>) /\ start' = 0
           ELSE found' = found /\ start' = start
    BY <1>8 DEF ScanClose, Closes, TypeOK
  <2>3. region.first <= start /\ start < pos /\ text[start] = Open
    BY <1>5, <2>1, <2>2 DEF ScannerOK
  <2>4. IsCandidate(<<start, pos>>) /\ <<start, pos>> \in Nat \X Nat
    BY <1>5, <2>1, <2>2, <2>3 DEF IsCandidate
  <2>5. (\A k \in DOMAIN found : IsCandidate(found[k]))'
    BY <1>0, <1>5, <2>1, <2>2, <2>4, CandidateAdded DEF IsCandidate
  <2>. QED
    BY <1>5, <2>1, <2>2, <2>3, <2>5 DEF ScannerOK
<1>9. ASSUME NextBlock \/ WholeText
      PROVE  /\ stage = "scan" /\ stage' = "scan" /\ text' = text
             /\ text \in Seq(Token) /\ Len(text) \in Nat /\ DOMAIN text = 1 .. Len(text) /\ Len(text) > 0
  BY <1>9, TextType DEF NextBlock, WholeText, EndOfRegion, ScannerOK
<1>10. CASE NextBlock
  <2>1. PICK a \in DOMAIN text, b \in DOMAIN text : a < b /\ Enter(a + 1, b - 1, FALSE)
    BY <1>10 DEF NextBlock, IsBlock
  <2>2. found' = found
    BY <1>10 DEF NextBlock
  <2>. QED
    BY <1>9, <1>10, <2>1, <2>2 DEF ScannerOK, Enter, IsCandidate
<1>11. CASE WholeText
  <2>1. Enter(1, Len(text), TRUE)
    BY <1>11 DEF WholeText
  <2>2. IF text[1] = Open /\ text[Len(text)] = Close
        THEN found' = Append(found, <<1, Len(text)>>) ELSE found' = found
    BY <1>11 DEF WholeText
  <2>3. text[1] = Open /\ text[Len(text)] = Close =>
          IsCandidate(<<1, Len(text)>>) /\ <<1, Len(text)>> \in Nat \X Nat
    BY <1>9, <1>11 DEF IsCandidate
  <2>4. (\A k \in DOMAIN found : IsCandidate(found[k]))'
    BY <1>0, <1>9, <1>11, <2>2, <2>3, CandidateAdded DEF IsCandidate
  <2>. QED
    BY <1>9, <1>11, <2>1, <2>4 DEF ScannerOK, Enter
<1>. QED
  BY <1>1, <1>3, <1>4, <1>6, <1>7, <1>8, <1>10, <1>11
  DEF Next, Scan, ScanStep, Done, Remark, GiveAnswer, Finish, ReadStatus, EndScan, EndOfRegion,
      Load, Branch, vars, lexer

LEMMA AnswerKept ==
  ASSUME TypeOK, AnswerFirst, [Next]_vars
  PROVE  AnswerFirst'
<1>1. ASSUME NEW t, comments' = Append(comments, t), final' = final,
             UNCHANGED <<backend, finished, stage, text, found, region, pos, depth>>
      PROVE  AnswerFirst'
  <2>1. comments \in Seq(Remarks \union Answers) /\ final \in 0 .. Len(comments)
    BY DEF TypeOK
  <2>2. final # 0 => comments'[final] = comments[final]
    BY <1>1, <2>1
  <2>. QED
    BY <1>1, <2>2 DEF AnswerFirst
<1>2. ASSUME NEW t \in Answers, GiveAnswer(t)
      PROVE  AnswerFirst'
  <2>1. comments \in Seq(Remarks \union Answers)
    BY DEF TypeOK
  <2>2. final' # 0 /\ comments'[final'] = t
    BY <1>2, <2>1 DEF GiveAnswer
  <2>3. UNCHANGED <<backend, finished, stage, text, found, region, pos, depth>>
    BY <1>2 DEF GiveAnswer, lexer
  <2>. QED
    BY <2>2, <2>3 DEF AnswerFirst
<1>3. CASE UNCHANGED task /\ UNCHANGED <<backend, found, region, pos, depth, text>>
           /\ (stage' = stage \/ stage' \notin {"waiting", "comments"})
  BY <1>3 DEF AnswerFirst, task
<1>4. CASE Finish
  BY <1>4 DEF Finish, AnswerFirst, lexer
<1>5. CASE ReadStatus
  BY <1>5 DEF ReadStatus, WhenDone, AnswerFirst, task, lexer
<1>6. CASE ReadComments \/ \E t \in Answers \union {NoText} : ReadReply(t)
  BY <1>6 DEF ReadComments, ReadReply, Judge, AnswerFirst, task
<1>7. CASE Scan
  <2>1. stage' \notin {"waiting", "comments"} /\ UNCHANGED task
    BY <1>7
    DEF Scan, ScanString, ScanQuote, ScanOpen, ScanClose, ScanOther, Char, NextBlock, WholeText,
        EndScan, EndOfRegion
  <2>. QED
    BY <2>1 DEF AnswerFirst, task
<1>8. CASE Load \/ Branch
  BY <1>3, <1>8 DEF Load, Branch, lexer
<1>9. CASE UNCHANGED vars
  BY <1>3, <1>9 DEF vars, lexer
<1>10. CASE \E t \in Remarks : Remark(t)
  BY <1>1, <1>10 DEF Remark, lexer
<1>. QED
  BY <1>2, <1>4, <1>5, <1>6, <1>7, <1>8, <1>9, <1>10 DEF Next, Done

LEMMA FinalKept ==
  ASSUME TypeOK, AnswerFirst, FinalCommentDecides, [Next]_vars
  PROVE  FinalCommentDecides'
<1>1. CASE UNCHANGED <<backend, comments, final, text>> /\ (stage' = stage \/ Judged)
  BY <1>1 DEF FinalCommentDecides, Judged
<1>2. CASE ReadComments
  <2>1. UNCHANGED <<backend, comments, final>> /\ text' \in {LatestComment, NoText} /\ stage = "comments"
    BY <1>2 DEF ReadComments, Judge, task
  <2>2. final \in DOMAIN comments /\ comments[final] # NoText
    BY <2>1, VerdictAssumption DEF AnswerFirst, TypeOK
  <2>3. \E k \in final .. Len(comments) : LatestComment = comments[k]
    BY <2>2, LatestIsThere
  <2>. QED
    BY <2>1, <2>2, <2>3 DEF FinalCommentDecides, Judged, TypeOK
<1>3. CASE backend' # "multica"
  BY <1>3 DEF FinalCommentDecides
<1>4. CASE stage' \in {"waiting", "comments"}
  BY <1>4 DEF FinalCommentDecides, Judged
<1>5. CASE Finish
  BY <1>5 DEF Finish, FinalCommentDecides, Judged
<1>6. CASE Scan \/ Load \/ Branch
  BY <1>1, <1>6
  DEF Scan, ScanString, ScanQuote, ScanOpen, ScanClose, ScanOther, Char, NextBlock, WholeText,
      EndScan, EndOfRegion, Load, Branch, task, FinalCommentDecides, Judged
<1>7. ASSUME NEW t \in Answers, GiveAnswer(t), backend = "multica"
      PROVE  FinalCommentDecides'
  <2>1. final = 0 /\ backend' = backend /\ stage' = stage /\ text' = text
    BY <1>7 DEF GiveAnswer
  <2>. QED
    BY <1>7, <2>1 DEF FinalCommentDecides, Judged
<1>8. CASE UNCHANGED vars
  BY <1>1, <1>8 DEF vars, task
<1>. QED
  BY <1>2, <1>3, <1>4, <1>5, <1>6, <1>7, <1>8
  DEF Next, Done, Remark, ReadStatus, ReadReply, GiveAnswer, Judge

\* The object that decides is one of the text.
LEMMA ObjectOfText ==
  ASSUME TypeOK, ScannerOK, FirstObject(Candidates) # Empty
  PROVE  \E i, j \in DOMAIN text : /\ i <= j /\ IsObject(SubSeq(text, i, j))
                                   /\ FirstObject(Candidates) = Loads(SubSeq(text, i, j))
<1>. DEFINE objects == {k \in DOMAIN Candidates : Loads(Candidates[k]) # NotAnObject}
<1>1. found \in Seq(Nat \X Nat) /\ DOMAIN Candidates = DOMAIN found
  BY DEF TypeOK, Candidates
<1>2. objects \in SUBSET Nat
  BY <1>1
<1>3. objects # {}
  BY DEF FirstObject
<1>4. \E k \in objects : \A j \in objects : k <= j
  <2>. HIDE DEF objects
  <2>. QED
    BY <1>2, <1>3, LeastNat
<1>5. PICK k : k = CHOOSE x \in objects : \A j \in objects : x <= j
  OBVIOUS
<1>6. k \in objects
  BY <1>4, <1>5
<1>7. FirstObject(Candidates) = Loads(Candidates[k])
  BY <1>3, <1>5 DEF FirstObject
<1>8. k \in DOMAIN found /\ Candidates[k] = SubSeq(text, found[k][1], found[k][2])
  BY <1>1, <1>6 DEF Candidates
<1>9. IsCandidate(found[k])
  BY <1>8 DEF ScannerOK
<1>. QED
  BY <1>6, <1>7, <1>8, <1>9 DEF IsCandidate, IsObject

LEMMA ApprovalKept ==
  ASSUME TypeOK, ScannerOK, ApprovalBacked, [Next]_vars
  PROVE  ApprovalBacked'
<1>0. "approved" # NoDecision /\ "approved" # Always
  BY VerdictAssumption
<1>1. CASE /\ UNCHANGED <<text, decision, taken>>
           /\ \/ stage' = stage
              \/ stage \notin {"branch", "over"} /\ stage' \notin {"branch", "over"}
  BY <1>1 DEF ApprovalBacked, ApprovedByObject, ApprovedByWords
<1>2. CASE ReadComments \/ \E t \in Answers \union {NoText} : ReadReply(t)
  BY <1>0, <1>2 DEF ReadComments, ReadReply, Judge, ApprovalBacked, result
<1>3. CASE Load
  <2>1. text' = text /\ taken' = taken /\ stage = "load" /\ stage' \in {"branch", "over"}
    BY <1>3 DEF Load
  <2>2. taken = {} /\ decision = NoDecision
    BY <2>1 DEF ApprovalBacked
  <2>3. ASSUME decision' = "approved"
        PROVE  text # NoText /\ Decide(FirstObject(Candidates), text) = "approved"
    BY <1>0, <1>3, <2>2, <2>3 DEF Load
  <2>4. ASSUME Decide(FirstObject(Candidates), text) = "approved", FirstObject(Candidates) # Empty
        PROVE  ApprovedByObject
    BY <2>4, ObjectOfText DEF Decide, ApprovedByObject
  <2>5. ASSUME Decide(FirstObject(Candidates), text) = "approved", FirstObject(Candidates) = Empty
        PROVE  ApprovedByWords
    BY <1>0, <2>5 DEF Decide, FromWords, ApprovedByWords
  <2>6. decision' = "approved" => text # NoText /\ (ApprovedByObject \/ ApprovedByWords)
    BY <2>3, <2>4, <2>5
  <2>. QED
    BY <2>1, <2>2, <2>6 DEF ApprovalBacked, ApprovedByObject, ApprovedByWords
<1>4. CASE Branch
  BY <1>0, <1>4 DEF Branch, Enabled, ApprovalBacked, ApprovedByObject, ApprovedByWords
<1>. QED
  BY <1>1, <1>2, <1>3, <1>4
  DEF Next, Done, Scan, ScanString, ScanQuote, ScanOpen, ScanClose, ScanOther, Char, NextBlock,
      WholeText, EndScan, EndOfRegion, Remark, GiveAnswer, Finish, ReadStatus, vars, result

-----------------------------------------------------------------------------
(* The object that the answer is about is found before its rivals.         *)

\* How the text of an object is read: its first brace is closed at its end, no sooner.
LEMMA ObjectFacts ==
  ASSUME TypeOK, text # NoText, NEW i \in DOMAIN text, NEW j \in DOMAIN text,
         IsObject(SubSeq(text, i, j)), NEW L, L = Lexed(SubSeq(text, i, j))
  PROVE  /\ i < j /\ text[i] = Open
         /\ L[0] = [depth |-> 0, string |-> FALSE, escape |-> FALSE]
         /\ \A n \in 0 .. j - i + 1 : L[n] \in LexState
         /\ \A n \in 0 .. j - i : L[n + 1] = LexStep(L[n], text[i + n])
         /\ \A n \in 1 .. j - i : L[n].depth > 0
         /\ L[j - i + 1].depth = 0
<1>1. /\ text \in Seq(Token) /\ Len(text) \in Nat /\ i \in 1 .. Len(text) /\ j \in 1 .. Len(text)
      /\ text \in (Answers \union Remarks) \ {NoText}
  BY TextType DEF TypeOK
<1> DEFINE o == SubSeq(text, i, j)
<1>2. IsBalanced(o)
  BY <1>1, ObjectsAreBalanced DEF IsObject
<1>3. o \in Seq(Token) /\ (i <= j => Len(o) = j - i + 1 /\ \A n \in 1 .. j - i + 1 : o[n] = text[i + n - 1])
      /\ (j < i => Len(o) = 0)
  BY <1>1
<1> HIDE DEF o
<1>4. /\ Len(o) > 0 /\ o[1] = Open /\ Lexed(o)[Len(o)].depth = 0
      /\ \A n \in 1 .. Len(o) - 1 : Lexed(o)[n].depth > 0
  BY <1>2 DEF IsBalanced
<1>5. i <= j
  BY <1>1, <1>3, <1>4
<1>6. Len(o) = j - i + 1 /\ L = Lexed(o)
  BY <1>3, <1>5 DEF o
<1>7. text[i] = Open
  <2>1. 1 \in 1 .. j - i + 1 /\ i + 1 - 1 = i
    BY <1>1, <1>5
  <2>. QED
    BY <1>3, <1>4, <1>5, <2>1
<1>8. /\ L \in [0 .. j - i + 1 -> LexState]
      /\ L[0] = [depth |-> 0, string |-> FALSE, escape |-> FALSE]
      /\ \A n \in 1 .. j - i + 1 : L[n] = LexStep(L[n - 1], o[n])
  BY <1>3, <1>6, LexedFacts
<1>9. ASSUME NEW n \in 0 .. j - i
      PROVE  L[n + 1] = LexStep(L[n], text[i + n])
  <2>1. n + 1 \in 1 .. j - i + 1 /\ (n + 1) - 1 = n /\ i + (n + 1) - 1 = i + n
    BY <1>1
  <2>2. L[n + 1] = LexStep(L[(n + 1) - 1], o[n + 1]) /\ o[n + 1] = text[i + (n + 1) - 1]
    BY <1>3, <1>5, <1>8, <2>1
  <2>. QED
    BY <2>1, <2>2
<1>10. Len(o) - 1 = j - i
  BY <1>1, <1>6
<1>11. (\A n \in 1 .. j - i : L[n].depth > 0) /\ L[j - i + 1].depth = 0
  <2>1. (\A n \in 1 .. j - i : Lexed(o)[n].depth > 0) /\ Lexed(o)[j - i + 1].depth = 0
    BY ONLY <1>4, <1>6, <1>10
  <2>. QED
    BY ONLY <1>6, <2>1
<1>12. i # j
  <2>. SUFFICES ASSUME i = j
                PROVE  FALSE
    OBVIOUS
  <2>1. j - i + 1 = 1 /\ 0 \in 0 .. j - i /\ i + 0 = i /\ 0 + 1 = 1
    BY <1>1
  <2>2. L[1] = LexStep(L[0], text[i]) /\ L[1].depth = 0
    BY <1>9, <1>11, <2>1
  <2>3. L[1].depth = 1
    BY <1>7, <1>8, <2>2 DEF LexStep
  <2>. QED
    BY <2>2, <2>3
<1>13. \A n \in 0 .. j - i + 1 : L[n] \in LexState
  BY <1>8
<1>. QED
  BY <1>1, <1>5, <1>7, <1>8, <1>9, <1>11, <1>12, <1>13

LEMMA LeadsToObject ==
  ASSUME TypeOK, text # NoText, NEW i \in DOMAIN text, NEW j \in DOMAIN text, Leads(i, j)
  PROVE  IsObject(SubSeq(text, i, j))
<1>1. i \in Nat /\ j \in Nat
  BY TextType
<1>2. i - 1 + 1 = i
  BY <1>1
<1>. QED
  BY <1>2 DEF Leads, IsClosingBlock, IsFirstObject

LEMMA SameText ==
  ASSUME text' = text
  PROVE  \A i, j : /\ Leads(i, j)' <=> Leads(i, j)
                   /\ \A c : NoRival(c, i, j)' <=> NoRival(c, i, j)
BY DEF Leads, IsClosingBlock, IsFirstObject, IsObject, NoRival

\* No object begins where another one does and is longer.
LEMMA OneEnd ==
  ASSUME TypeOK, text # NoText, NEW i \in DOMAIN text, NEW j \in DOMAIN text, NEW m \in DOMAIN text,
         IsObject(SubSeq(text, i, j)), IsObject(SubSeq(text, i, m)), j < m
  PROVE  FALSE
<1>1. i \in Nat /\ j \in Nat /\ m \in Nat
  BY TextType
<1>2. PICK L, M : L = Lexed(SubSeq(text, i, j)) /\ M = Lexed(SubSeq(text, i, m))
  OBVIOUS
<1>3. /\ i < j /\ L[0] = [depth |-> 0, string |-> FALSE, escape |-> FALSE]
      /\ \A n \in 0 .. j - i : L[n + 1] = LexStep(L[n], text[i + n])
      /\ L[j - i + 1].depth = 0
  BY <1>2, ObjectFacts
<1>4. /\ M[0] = [depth |-> 0, string |-> FALSE, escape |-> FALSE]
      /\ \A n \in 0 .. m - i : M[n + 1] = LexStep(M[n], text[i + n])
      /\ \A n \in 1 .. m - i : M[n].depth > 0
  BY <1>2, ObjectFacts
<1> DEFINE T == {n \in 0 .. j - i + 1 : L[n] = M[n]}
<1>5. 0 \in T
  BY <1>1, <1>3, <1>4
<1>6. ASSUME NEW n \in 1 .. j - i + 1, n - 1 \in T
      PROVE  n \in T
  <2>1. n - 1 \in 0 .. j - i /\ n - 1 \in 0 .. m - i /\ (n - 1) + 1 = n /\ n \in 0 .. j - i + 1
    BY <1>1, j < m
  <2>2. L[(n - 1) + 1] = LexStep(L[n - 1], text[i + (n - 1)])
    BY <1>3, <2>1
  <2>3. M[(n - 1) + 1] = LexStep(M[n - 1], text[i + (n - 1)])
    BY <1>4, <2>1
  <2>. QED
    BY <1>6, <2>1, <2>2, <2>3
<1> HIDE DEF T
<1>7. j - i + 1 \in Nat /\ j - i + 1 \in 0 .. j - i + 1 /\ j - i + 1 \in 1 .. m - i
  BY <1>1, <1>3, j < m
<1>8. j - i + 1 \in T
  BY <1>5, <1>6, <1>7, UpTo
<1>9. L[j - i + 1] = M[j - i + 1]
  BY <1>8 DEF T
<1>. QED
  BY <1>3, <1>4, <1>7, <1>9

LEMMA FoundStays ==
  ASSUME TypeOK, text' = text, NEW i, NEW j, FoundFirst(i, j),
         found' = found \/ \E c \in Nat \X Nat : found' = Append(found, c)
  PROVE  FoundFirst(i, j)'
<1>1. PICK k \in DOMAIN found : found[k] = <<i, j>> /\ \A l \in 1 .. k : NoRival(found[l], i, j)
  BY DEF FoundFirst
<1>2. found \in Seq(Nat \X Nat)
  BY DEF TypeOK
<1>3. k \in DOMAIN found' /\ \A l \in 1 .. k : found'[l] = found[l]
  <2>1. CASE found' = found
    BY <2>1
  <2>2. ASSUME NEW c \in Nat \X Nat, found' = Append(found, c)
        PROVE  k \in DOMAIN found' /\ \A l \in 1 .. k : found'[l] = found[l]
    BY <1>2, <2>2
  <2>. QED
    BY <2>1, <2>2
<1>4. k \in 1 .. k
  BY <1>2
<1>. QED
  BY <1>1, <1>3, <1>4, SameText DEF FoundFirst

\* A character of the text: the scanner comes nearer, goes on as JSON does, or has it.
LEMMA CharReaches ==
  ASSUME TypeOK, ScannerOK, ScanStep, NEW i \in DOMAIN text, NEW j \in DOMAIN text,
         IsObject(SubSeq(text, i, j)), Reaches(i, j)
  PROVE  Reaches(i, j)' \/ FoundFirst(i, j)'
<1>1. /\ text' = text /\ region' = region /\ pos' = pos + 1
      /\ stage = "scan" /\ pos <= region.last /\ text # NoText
  BY DEF ScanStep, ScanString, ScanQuote, ScanOpen, ScanClose, ScanOther, Char, ScannerOK
<1>2. /\ i \in Nat /\ j \in Nat /\ pos \in Nat /\ depth \in Nat /\ inString \in BOOLEAN
      /\ escape \in BOOLEAN /\ start \in Nat /\ region.last \in Int /\ region.first \in Nat
      /\ (escape => inString) /\ found \in Seq(Nat \X Nat)
  BY <1>1, TextType DEF TypeOK, ScannerOK
<1>3. \A c : NoRival(c, i, j)' <=> NoRival(c, i, j)
  BY <1>1, SameText
<1>4. /\ Open # Close /\ Open # Quote /\ Close # Quote /\ Open # Backslash /\ Close # Backslash
      /\ Quote # Backslash
  <2>1. /\ Special[1] # Special[2] /\ Special[1] # Special[3] /\ Special[2] # Special[3]
        /\ Special[1] # Special[4] /\ Special[2] # Special[4] /\ Special[3] # Special[4]
    BY VerdictAssumption
  <2>. QED
    BY <2>1 DEF Special
<1>5. PICK L : L = Lexed(SubSeq(text, i, j))
  OBVIOUS
<1>6. /\ i < j /\ text[i] = Open
      /\ L[0] = [depth |-> 0, string |-> FALSE, escape |-> FALSE]
      /\ \A n \in 0 .. j - i + 1 : L[n] \in LexState
      /\ \A n \in 0 .. j - i : L[n + 1] = LexStep(L[n], text[i + n])
      /\ \A n \in 1 .. j - i : L[n].depth > 0
      /\ L[j - i + 1].depth = 0
  BY <1>1, <1>5, ObjectFacts
<1>7. /\ region.first <= i /\ pos <= j /\ j <= region.last
      /\ \A k \in DOMAIN found : NoRival(found[k], i, j)
  BY DEF Reaches
<1>8. CASE pos < i
  <2>1. depth = 0 /\ ~inString /\ \A k \in pos .. i - 1 : text[k] \notin {Open, Close, Quote}
    BY <1>2, <1>8 DEF Reaches
  <2>2. text[pos] \notin {Open, Close, Quote}
    BY <1>2, <1>8, <2>1
  <2>3. ScanOther
    BY <2>1, <2>2 DEF ScanStep, ScanString, ScanQuote, ScanOpen, ScanClose, IsQuote
  <2>4. UNCHANGED <<depth, inString, found>>
    BY <2>3 DEF ScanOther
  <2>5. pos' <= i /\ pos' <= j /\ \A k \in pos' .. i - 1 : k \in pos .. i - 1
    BY <1>1, <1>2, <1>6, <1>8
  <2>. QED
    BY <1>1, <1>3, <1>7, <2>1, <2>4, <2>5 DEF Reaches
<1>9. CASE pos = i
  <2>1. depth = 0 /\ ~inString
    BY <1>2, <1>9 DEF Reaches
  <2>2. text[pos] = Open
    BY <1>6, <1>9
  <2>3. ScanOpen
    BY <1>4, <2>1, <2>2 DEF ScanStep, ScanString, ScanQuote, ScanClose, ScanOther, IsQuote
  <2>4. start' = i /\ depth' = 1 /\ inString' = FALSE /\ escape' = FALSE /\ found' = found
    BY <1>2, <1>9, <2>1, <2>3 DEF ScanOpen
  <2>5. L[1] = LexStep(L[0], Open)
    <3>1. 0 \in 0 .. j - i /\ i + 0 = i /\ 0 + 1 = 1
      BY <1>2, <1>6
    <3>. QED
      BY <1>6, <3>1
  <2>6. L[1] = [depth |-> 1, string |-> FALSE, escape |-> FALSE]
    <3>1. L[0] = [depth |-> 0, string |-> FALSE, escape |-> FALSE]
      BY <1>6
    <3>2. L[1] = [depth |-> 0 + 1, string |-> Open = Quote, escape |-> FALSE]
      BY ONLY <2>5, <3>1 DEF LexStep
    <3>3. 0 + 1 = 1 /\ (Open = Quote) = FALSE
      BY ONLY <1>4
    <3>. QED
      BY ONLY <3>2, <3>3
  <2>7. pos' - i = 1 /\ ~(pos' <= i) /\ pos' <= j
    BY <1>1, <1>2, <1>6, <1>9
  <2>8. Lexed(SubSeq(text', i, j))[pos' - i]
          = [depth |-> depth', string |-> inString', escape |-> escape']
    BY <1>1, <1>5, <2>4, <2>6, <2>7
  <2>. QED
    BY <1>1, <1>3, <1>7, <2>4, <2>7, <2>8 DEF Reaches
<1>10. CASE pos > i
  <2> DEFINE n == pos - i
  <2>1. n \in 1 .. j - i /\ n \in 0 .. j - i /\ i + n = pos /\ pos' - i = n + 1 /\ ~(pos <= i) /\ ~(pos' <= i)
    BY <1>1, <1>2, <1>7, <1>10
  <2>2. start = i /\ L[n] = [depth |-> depth, string |-> inString, escape |-> escape]
    BY <1>5, <2>1 DEF Reaches
  <2>3. depth > 0
    BY <1>6, <2>1, <2>2
  <2>4. L[n + 1] = LexStep([depth |-> depth, string |-> inString, escape |-> escape], text[pos])
    BY <1>6, <2>1, <2>2
  <2> HIDE DEF n
  <2>5. ASSUME NEW d \in Nat, d = L[n + 1].depth
        PROVE  (d > 0 => pos + 1 <= j) /\ (d = 0 => pos = j)
    <3>1. n + 1 \in 1 .. j - i \/ n + 1 = j - i + 1
      BY <1>2, <2>1
    <3>2. d > 0 => n + 1 # j - i + 1
      BY <1>6, <2>5
    <3>3. d = 0 => n + 1 \notin 1 .. j - i
      <4>1. \A m \in 1 .. j - i : L[m].depth > 0 /\ L[m].depth # 0
        <5>1. \A m \in 1 .. j - i : m \in 0 .. j - i + 1
          BY <1>2
        <5>. QED
          BY <1>6, <5>1 DEF LexState
      <4>. QED
        BY <2>5, <4>1
    <3>. QED
      BY <1>2, <2>1, <3>1, <3>2, <3>3
  <2>6. ASSUME found' = found, start' = start, depth' \in Nat, depth' > 0,
               L[n + 1] = [depth |-> depth', string |-> inString', escape |-> escape']
        PROVE  Reaches(i, j)'
    <3>1. pos' <= j
      BY <1>1, <2>5, <2>6
    <3>2. Lexed(SubSeq(text', i, j))[pos' - i]
            = [depth |-> depth', string |-> inString', escape |-> escape']
      BY <1>1, <1>5, <2>1, <2>6
    <3>. QED
      BY <1>1, <1>3, <1>7, <2>1, <2>2, <2>6, <3>1, <3>2 DEF Reaches
  <2>7. CASE ScanString
    <3>1. /\ inString /\ start' = start /\ depth' = depth /\ found' = found
          /\ escape' = (~escape /\ text[pos] = Backslash) /\ inString' = (escape \/ text[pos] # Quote)
      BY <2>7 DEF ScanString
    <3>2. L[n + 1] = [depth |-> depth', string |-> inString', escape |-> escape']
      BY <2>4, <3>1 DEF LexStep
    <3>. QED
      BY <1>2, <2>3, <2>6, <3>1, <3>2
  <2>8. ASSUME ~inString
        PROVE  /\ ~escape
               /\ L[n + 1] = [depth |-> depth + (IF text[pos] = Open THEN 1
                                                 ELSE IF text[pos] = Close THEN -1 ELSE 0),
                              string |-> text[pos] = Quote, escape |-> FALSE]
    BY <1>2, <2>4, <2>8 DEF LexStep
  <2>9. CASE ScanQuote
    <3>1. /\ ~inString /\ text[pos] = Quote /\ inString' = TRUE
          /\ start' = start /\ depth' = depth /\ escape' = escape /\ found' = found
      BY <2>9 DEF ScanQuote, IsQuote
    <3>2. L[n + 1] = [depth |-> depth', string |-> inString', escape |-> escape']
      <4>1. depth + (IF text[pos] = Open THEN 1 ELSE IF text[pos] = Close THEN -1 ELSE 0) = depth'
        BY <1>2, <1>4, <3>1
      <4>2. (text[pos] = Quote) = inString' /\ escape' = FALSE
        BY <1>2, <1>4, <2>8, <3>1
      <4>. QED
        BY <2>8, <3>1, <4>1, <4>2
    <3>. QED
      BY <1>2, <2>3, <2>6, <3>1, <3>2
  <2>10. CASE ScanOpen
    <3>1. /\ ~inString /\ text[pos] = Open /\ inString' = inString
          /\ start' = start /\ depth' = depth + 1 /\ escape' = escape /\ found' = found
      BY <2>3, <2>10 DEF ScanOpen
    <3>2. L[n + 1] = [depth |-> depth', string |-> inString', escape |-> escape']
      <4>1. depth + (IF text[pos] = Open THEN 1 ELSE IF text[pos] = Close THEN -1 ELSE 0) = depth'
        BY <1>2, <1>4, <3>1
      <4>2. (text[pos] = Quote) = inString' /\ escape' = FALSE
        BY <1>2, <1>4, <2>8, <3>1
      <4>. QED
        BY <2>8, <3>1, <4>1, <4>2
    <3>3. depth' \in Nat /\ depth' > 0
      BY <1>2, <3>1
    <3>. QED
      BY <2>6, <3>1, <3>2, <3>3
  <2>11. CASE ScanClose
    <3>1. /\ ~inString /\ text[pos] = Close /\ inString' = inString
          /\ depth' = depth - 1 /\ escape' = escape
          /\ IF depth = 1 THEN found' = Append(found, <<start, pos>>) /\ start' = 0
             ELSE found' = found /\ start' = start
      BY <2>11 DEF ScanClose
    <3>2. L[n + 1] = [depth |-> depth', string |-> inString', escape |-> escape']
      <4>1. depth + (IF text[pos] = Open THEN 1 ELSE IF text[pos] = Close THEN -1 ELSE 0) = depth'
        BY <1>2, <1>4, <3>1
      <4>2. (text[pos] = Quote) = inString' /\ escape' = FALSE
        BY <1>2, <1>4, <2>8, <3>1
      <4>. QED
        BY <2>8, <3>1, <4>1, <4>2
    <3>3. CASE depth # 1
      <4>1. depth' \in Nat /\ depth' > 0
        BY <1>2, <2>3, <3>1, <3>3
      <4>. QED
        BY <2>6, <3>1, <3>2, <3>3, <4>1
    <3>4. CASE depth = 1
      <4>1. L[n + 1].depth = 0
        BY <3>1, <3>2, <3>4
      <4>2. pos = j
        BY <2>5, <4>1
      <4>3. found' = Append(found, <<i, j>>) /\ <<i, j>> \in Nat \X Nat
        BY <1>2, <2>2, <3>1, <3>4, <4>2
      <4>4. /\ Len(found) + 1 \in DOMAIN found' /\ found'[Len(found) + 1] = <<i, j>>
            /\ \A l \in 1 .. Len(found) + 1 :
                 found'[l] = <<i, j>> \/ \E k \in DOMAIN found : found'[l] = found[k]
        BY <1>2, <4>3
      <4>5. \A l \in 1 .. Len(found) + 1 : NoRival(found'[l], i, j)
        BY <1>7, <4>4 DEF NoRival
      <4>. QED
        BY <1>3, <4>4, <4>5 DEF FoundFirst
    <3>. QED
      BY <3>3, <3>4
  <2>12. CASE ScanOther
    <3>1. /\ ~inString /\ text[pos] \notin {Open, Close, Quote} /\ inString' = inString
          /\ start' = start /\ depth' = depth /\ escape' = escape /\ found' = found
      BY <2>3, <2>12 DEF ScanOther, IsQuote, Closes
    <3>2. L[n + 1] = [depth |-> depth', string |-> inString', escape |-> escape']
      <4>1. depth + (IF text[pos] = Open THEN 1 ELSE IF text[pos] = Close THEN -1 ELSE 0) = depth'
        BY <1>2, <1>4, <3>1
      <4>2. (text[pos] = Quote) = inString' /\ escape' = FALSE
        BY <1>2, <1>4, <2>8, <3>1
      <4>. QED
        BY <2>8, <3>1, <4>1, <4>2
    <3>. QED
      BY <1>2, <2>3, <2>6, <3>1, <3>2
  <2>. QED
    BY <2>7, <2>9, <2>10, <2>11, <2>12 DEF ScanStep
<1>. QED
  BY <1>2, <1>8, <1>9, <1>10

\* The first region that is entered holds the object, with nothing in its way.
LEMMA BlockReaches ==
  ASSUME TypeOK, ScannerOK, NextBlock, region = Outset, found = <<>>,
         NEW i \in DOMAIN text, NEW j \in DOMAIN text, Leads(i, j)
  PROVE  Reaches(i, j)'
<1>1. text # NoText /\ text' = text /\ found' = <<>>
  BY DEF NextBlock, EndOfRegion, ScannerOK
<1>2. Len(text) \in Nat /\ DOMAIN text = 1 .. Len(text) /\ i \in Nat /\ j \in Nat
  BY <1>1, TextType
<1>3. PICK a \in DOMAIN text, b \in DOMAIN text :
        a < b /\ text[a] = Fence /\ text[b] = Fence /\ Enter(a + 1, b - 1, FALSE)
  BY DEF NextBlock, IsBlock
<1>4. /\ i > 1 /\ j = Len(text) - 1 /\ i - 1 < Len(text)
      /\ {k \in DOMAIN text : text[k] = Fence} = {i - 1, Len(text)}
  BY <1>3 DEF Leads, IsFirstObject, IsClosingBlock
<1>5. a \in {i - 1, Len(text)} /\ b \in {i - 1, Len(text)}
  BY <1>3, <1>4
<1>6. a + 1 = i /\ b - 1 = j
  BY <1>2, <1>3, <1>4, <1>5
<1>7. /\ region'.first = i /\ region'.last = j /\ pos' = i /\ depth' = 0 /\ inString' = FALSE
  BY <1>3, <1>6 DEF Enter
<1>8. i <= j
  BY <1>1, <1>2, LeadsToObject, ObjectFacts
<1>. QED
  BY <1>1, <1>2, <1>7, <1>8 DEF Reaches

LEMMA WholeReaches ==
  ASSUME TypeOK, ScannerOK, WholeText, region = Outset, found = <<>>,
         NEW i \in DOMAIN text, NEW j \in DOMAIN text, Leads(i, j)
  PROVE  Reaches(i, j)'
<1>1. text # NoText /\ text' = text
  BY DEF WholeText, EndOfRegion, ScannerOK
<1>2. /\ Len(text) \in Nat /\ Len(text) > 0 /\ DOMAIN text = 1 .. Len(text) /\ i \in 1 .. Len(text)
      /\ j \in 1 .. Len(text) /\ i \in Nat /\ j \in Nat
  BY <1>1, TextType
<1>3. IsFirstObject(i, j)
  <2>. SUFFICES ASSUME i > 1, IsClosingBlock(i - 1)
                PROVE  FALSE
    BY DEF Leads
  <2>1. i - 1 < Len(text) /\ {k \in DOMAIN text : text[k] = Fence} = {i - 1, Len(text)}
    BY DEF IsClosingBlock
  <2>2. i - 1 \in DOMAIN text /\ Len(text) \in DOMAIN text
    BY <1>2
  <2>3. text[i - 1] = Fence /\ text[Len(text)] = Fence
    BY <2>1
  <2>4. \A k \in 1 .. Len(text) - 1 : k # i - 1 => text[k] # Fence
    <3>1. ASSUME NEW k \in 1 .. Len(text) - 1, k # i - 1
          PROVE  text[k] # Fence
      <4>1. k \in 1 .. Len(text) /\ k # Len(text) /\ k # i - 1
        BY ONLY k \in 1 .. Len(text) - 1, Len(text) \in Nat, <3>1
      <4>. QED
        BY <1>2, <2>1, <4>1
    <3>. QED
      BY <3>1
  <2>5. region.last + 2 = 1 /\ 1 <= i - 1
    BY <1>2
  <2>6. IsBlock(region.last + 2, i - 1, Len(text))
    BY <2>1, <2>3, <2>4, <2>5 DEF IsBlock
  <2>. QED
    BY <2>2, <2>6 DEF WholeText
<1>4. /\ i < j /\ IsObject(SubSeq(text, i, j))
      /\ \A k \in 1 .. i - 1 : text[k] \notin {Open, Close, Quote}
  BY <1>1, <1>3, ObjectFacts DEF IsFirstObject
<1>5. /\ region'.first = 1 /\ region'.last = Len(text) /\ pos' = 1 /\ depth' = 0 /\ inString' = FALSE
  BY DEF WholeText, Enter
<1>6. text[1] = Open => NoRival(<<1, Len(text)>>, i, j)
  <2>. SUFFICES ASSUME text[1] = Open, IsObject(SubSeq(text, 1, Len(text))), <<1, Len(text)>> # <<i, j>>
                PROVE  FALSE
    BY DEF NoRival
  <2>1. i = 1
    <3>1. i > 1 => 1 \in 1 .. i - 1
      BY <1>2
    <3>. QED
      BY <1>2, <1>4, <3>1
  <2>2. j < Len(text)
    BY <1>2, <2>1
  <2>3. Len(text) \in DOMAIN text
    BY <1>2
  <2>. QED
    BY <1>1, <1>4, <2>1, <2>2, <2>3, OneEnd
<1>7. \A k \in DOMAIN found' : found'[k] = <<1, Len(text)>> /\ text[1] = Open
  BY DEF WholeText
<1>8. (\A k \in DOMAIN found : NoRival(found[k], i, j))'
  BY <1>1, <1>6, <1>7, SameText
<1>9. 1 <= i /\ 1 <= j /\ j <= Len(text)
  BY <1>2
<1>. QED
  BY <1>1, <1>4, <1>5, <1>8, <1>9 DEF Reaches

\* The first of the candidates that is an object is the one found before its rivals.
LEMMA FirstIsFound ==
  ASSUME TypeOK, NEW i, NEW j, FoundFirst(i, j), IsObject(SubSeq(text, i, j))
  PROVE  FirstObject(Candidates) = Loads(SubSeq(text, i, j))
<1> DEFINE objects == {k \in DOMAIN Candidates : Loads(Candidates[k]) # NotAnObject}
<1>1. found \in Seq(Nat \X Nat) /\ DOMAIN Candidates = DOMAIN found
      /\ \A k \in DOMAIN found : Candidates[k] = SubSeq(text, found[k][1], found[k][2])
  BY DEF TypeOK, Candidates
<1>2. PICK k \in DOMAIN found : found[k] = <<i, j>> /\ \A l \in 1 .. k : NoRival(found[l], i, j)
  BY DEF FoundFirst
<1>3. <<i, j>>[1] = i /\ <<i, j>>[2] = j
  OBVIOUS
<1>4. k \in objects
  BY <1>1, <1>2, <1>3 DEF IsObject
<1>5. objects \in SUBSET Nat
  BY <1>1
<1>6. PICK m : m = CHOOSE x \in objects : \A y \in objects : x <= y
  OBVIOUS
<1>7. m \in objects /\ \A y \in objects : m <= y
  <2> HIDE DEF objects
  <2>1. \E x \in objects : \A y \in objects : x <= y
    BY <1>4, <1>5, LeastNat
  <2>. QED
    BY <1>6, <2>1
<1>8. FirstObject(Candidates) = Loads(Candidates[m])
  BY <1>4, <1>6 DEF FirstObject
<1>9. m \in DOMAIN found /\ m \in 1 .. k
  BY <1>1, <1>2, <1>4, <1>7
<1>10. NoRival(found[m], i, j) /\ Loads(SubSeq(text, found[m][1], found[m][2])) # NotAnObject
  BY <1>1, <1>2, <1>7, <1>9
<1>11. found[m] = <<i, j>>
  BY <1>10 DEF NoRival, IsObject
<1>. QED
  BY <1>1, <1>3, <1>8, <1>9, <1>11

LEMMA ObjectKept ==
  ASSUME TypeOK, ScannerOK, AnswerFirst, ObjectComes, [Next]_vars
  PROVE  ObjectComes'
<1>1. CASE UNCHANGED <<stage, text, lexer, found, decision>>
  <2>1. Candidates' = Candidates
    BY <1>1 DEF Candidates
  <2>2. \A i, j : (FoundFirst(i, j)' <=> FoundFirst(i, j)) /\ (Reaches(i, j)' <=> Reaches(i, j))
    BY <1>1, SameText DEF FoundFirst, Reaches, lexer
  <2>. QED
    BY <1>1, <2>1, <2>2, SameText DEF ObjectComes, lexer
<1>2. ASSUME NEW t, Judge(t), stage \in {"waiting", "comments"}
      PROVE  ObjectComes'
  <2>1. region' = Outset /\ found' = <<>> /\ (stage' = "scan" \/ (stage' = "load" /\ text' = NoText))
    BY <1>2 DEF Judge, AnswerFirst, lexer
  <2>. QED
    BY <2>1 DEF ObjectComes
<1>3. CASE ReadComments \/ \E t \in Answers \union {NoText} : ReadReply(t)
  BY <1>2, <1>3 DEF ReadComments, ReadReply
<1>4. CASE ReadStatus
  BY <1>4 DEF ReadStatus, ObjectComes
<1>5. ASSUME stage = "scan", stage' = "scan", text' = text,
             \A i, j \in DOMAIN text : Leads(i, j) => Reaches(i, j)' \/ FoundFirst(i, j)'
      PROVE  ObjectComes'
  BY <1>5, SameText DEF ObjectComes
<1>6. ASSUME stage = "scan", text' = text, found' = found \/ \E c \in Nat \X Nat : found' = Append(found, c),
             NEW i, NEW j, FoundFirst(i, j)
      PROVE  FoundFirst(i, j)'
  BY <1>6, FoundStays
<1>7. CASE ScanStep
  <2>1. stage = "scan" /\ stage' = "scan" /\ text' = text /\ region # Outset /\ text # NoText
    BY <1>7
    DEF ScanStep, ScanString, ScanQuote, ScanOpen, ScanClose, ScanOther, Char, TypeOK, ScannerOK
  <2>2. found' = found \/ \E c \in Nat \X Nat : found' = Append(found, c)
    BY <1>7 DEF ScanStep, ScanString, ScanQuote, ScanOpen, ScanClose, ScanOther, Char, TypeOK
  <2>3. ASSUME NEW i \in DOMAIN text, NEW j \in DOMAIN text, Leads(i, j)
        PROVE  Reaches(i, j)' \/ FoundFirst(i, j)'
    <3>1. Reaches(i, j) \/ FoundFirst(i, j)
      BY <2>1, <2>3 DEF ObjectComes
    <3>2. IsObject(SubSeq(text, i, j))
      BY <2>1, <2>3, LeadsToObject
    <3>. QED
      BY <1>6, <1>7, <2>1, <2>2, <3>1, <3>2, CharReaches
  <2>. QED
    BY <1>5, <2>1, <2>3
<1>8. ASSUME EndOfRegion, NEW i, NEW j
      PROVE  ~Reaches(i, j) \/ i \notin DOMAIN text \/ j \notin DOMAIN text
  <2>1. text # NoText /\ pos > region.last /\ pos \in Nat /\ region.last \in Int
    BY <1>8 DEF EndOfRegion, ScannerOK, TypeOK
  <2>2. \A k \in DOMAIN text : k \in Nat
    BY <2>1, TextType
  <2>. QED
    BY <2>1, <2>2 DEF Reaches
<1>9. CASE NextBlock
  <2>1. EndOfRegion /\ stage = "scan" /\ stage' = "scan" /\ text' = text /\ found' = found
    BY <1>9 DEF NextBlock, EndOfRegion
  <2>2. ASSUME NEW i \in DOMAIN text, NEW j \in DOMAIN text, Leads(i, j)
        PROVE  Reaches(i, j)' \/ FoundFirst(i, j)'
    <3>1. (region = Outset /\ found = <<>>) \/ FoundFirst(i, j)
      BY <1>8, <2>1, <2>2 DEF ObjectComes
    <3>. QED
      BY <1>6, <1>9, <2>1, <2>2, <3>1, BlockReaches
  <2>. QED
    BY <1>5, <2>1, <2>2
<1>10. CASE WholeText
  <2>1. EndOfRegion /\ stage = "scan" /\ stage' = "scan" /\ text' = text
    BY <1>10 DEF WholeText, EndOfRegion
  <2>2. found' = found \/ \E c \in Nat \X Nat : found' = Append(found, c)
    <3>1. <<1, Len(text)>> \in Nat \X Nat
      BY <2>1, TextType DEF ScannerOK
    <3>. QED
      BY <1>10, <3>1 DEF WholeText
  <2>3. ASSUME NEW i \in DOMAIN text, NEW j \in DOMAIN text, Leads(i, j)
        PROVE  Reaches(i, j)' \/ FoundFirst(i, j)'
    <3>1. (region = Outset /\ found = <<>>) \/ FoundFirst(i, j)
      BY <1>8, <2>1, <2>3 DEF ObjectComes
    <3>. QED
      BY <1>6, <1>10, <2>1, <2>2, <2>3, <3>1, WholeReaches
  <2>. QED
    BY <1>5, <2>1, <2>3
<1>11. CASE EndScan
  <2>1. /\ EndOfRegion /\ stage = "scan" /\ stage' = "load" /\ text' = text /\ found' = found
        /\ region # Outset
    BY <1>11 DEF EndScan, EndOfRegion
  <2>2. ASSUME NEW i \in DOMAIN text, NEW j \in DOMAIN text, Leads(i, j)
        PROVE  FoundFirst(i, j)'
    <3>1. FoundFirst(i, j)
      BY <1>8, <2>1, <2>2 DEF ObjectComes
    <3>. QED
      BY <1>6, <2>1, <3>1
  <2>. QED
    BY <2>1, <2>2, SameText DEF ObjectComes
<1>12. CASE Load
  <2>1. stage = "load" /\ stage' \in {"branch", "over"} /\ text' = text /\ found' = found
    BY <1>12 DEF Load
  <2>2. stage' = "branch" /\ text # NoText => decision' = Decide(FirstObject(Candidates), text)
    BY <1>12 DEF Load
  <2>3. FirstObject(Candidates)' = FirstObject(Candidates)
    BY <2>1 DEF Candidates, FirstObject
  <2>4. \A i, j : FoundFirst(i, j)' <=> FoundFirst(i, j)
    BY <2>1, SameText DEF FoundFirst
  <2>. QED
    BY <2>1, <2>2, <2>3, <2>4, SameText DEF ObjectComes, Decide, FromWords, Says
<1>13. CASE Branch
  BY <1>13 DEF Branch, ObjectComes
<1>. QED
  BY <1>1, <1>3, <1>4, <1>7, <1>9, <1>10, <1>11, <1>12, <1>13
  DEF Next, Done, Scan, ScanStep, Remark, GiveAnswer, Finish, vars, result

(***************************************************************************)
(* The invariant holds for any texts, remarks, JSON parser and edges.      *)
(***************************************************************************)
THEOREM VerdictInvariant == Spec => []VerdictInv
<1>1. Init => VerdictInv
  <2>. SUFFICES ASSUME Init
                PROVE  VerdictInv
    OBVIOUS
  <2>1. <<>> \in Seq(Remarks \union Answers) /\ Len(<<>>) = 0 /\ <<>> \in Seq(Nat \X Nat)
    OBVIOUS
  <2>2. TypeOK
    <3>1. backend \in Backend /\ expectsObject \in BOOLEAN
      BY DEF Init
    <3>2. region \in [first : Nat, last : Int, whole : BOOLEAN]
      BY DEF Init
    <3>3. comments \in Seq(Remarks \union Answers) /\ final \in 0 .. Len(comments)
          /\ found \in Seq(Nat \X Nat)
      BY <2>1 DEF Init
    <3>. QED
      BY <3>1, <3>2, <3>3 DEF Init, TypeOK
  <2>3. ScannerOK
    BY DEF Init, ScannerOK
  <2>. QED
    BY <2>2, <2>3, VerdictAssumption
    DEF Init, VerdictInv, AnswerFirst, FinalCommentDecides, ApprovalBacked, ObjectComes, Judged
<1>2. VerdictInv /\ [Next]_vars => VerdictInv'
  BY TypeKept, ScannerKept, AnswerKept, FinalKept, ApprovalKept, ObjectKept DEF VerdictInv
<1>. QED
  BY <1>1, <1>2, PTL DEF Spec

(***************************************************************************)
(* What is judged is the agent's answer or a comment made after it.        *)
(***************************************************************************)
THEOREM TheAnswerDecides == Spec => []FinalCommentDecides
<1>1. VerdictInv => FinalCommentDecides
  BY DEF VerdictInv
<1>. QED
  BY <1>1, VerdictInvariant, PTL

(***************************************************************************)
(* No gate is passed by approval unless the judged text says so.           *)
(***************************************************************************)
THEOREM ApprovalMustBeSaid == Spec => []ApprovalIsSaid
<1>1. VerdictInv => ApprovalIsSaid
  BY DEF VerdictInv, ApprovalBacked, ApprovalIsSaid
<1>. QED
  BY <1>1, VerdictInvariant, PTL

\* In a run that goes on to the edges, the object that the answer is about was decided on.
LEMMA LeadingObject ==
  ASSUME VerdictInv, stage = "branch", Judged, NEW i \in DOMAIN text, NEW j \in DOMAIN text,
         Leads(i, j)
  PROVE  decision = Decide(Loads(SubSeq(text, i, j)), text)
<1>1. FoundFirst(i, j) /\ decision = Decide(FirstObject(Candidates), text)
  BY DEF VerdictInv, ObjectComes, Judged
<1>2. IsObject(SubSeq(text, i, j))
  BY LeadsToObject DEF VerdictInv, Judged
<1>. QED
  BY <1>1, <1>2, FirstIsFound DEF VerdictInv

(***************************************************************************)
(* An object in the only code block of an answer, at its end, decides,     *)
(* whatever stands before the block.                                       *)
(***************************************************************************)
THEOREM TheClosingBlockDecides == Spec => []ClosingBlockDecides
<1>1. ASSUME VerdictInv
      PROVE  ClosingBlockDecides
  <2>. SUFFICES ASSUME stage = "branch", Judged, NEW a \in DOMAIN text, IsClosingBlock(a),
                       Loads(SubSeq(text, a + 1, Len(text) - 1)) # Empty
                PROVE  decision = FromObject(Loads(SubSeq(text, a + 1, Len(text) - 1)))
    BY DEF ClosingBlockDecides
  <2>1. /\ a \in Nat /\ a >= 1 /\ a < Len(text) /\ Len(text) \in Nat
        /\ DOMAIN text = 1 .. Len(text)
    BY <1>1, TextType DEF VerdictInv, IsClosingBlock, Judged
  <2>2. a + 1 \in DOMAIN text /\ Len(text) - 1 \in DOMAIN text /\ a + 1 > 1 /\ a + 1 - 1 = a
    BY <2>1
  <2>3. Leads(a + 1, Len(text) - 1)
    BY <2>2 DEF Leads
  <2>4. decision = Decide(Loads(SubSeq(text, a + 1, Len(text) - 1)), text)
    BY <1>1, <2>2, <2>3, LeadingObject
  <2>. QED
    BY <2>4 DEF Decide
<1>. QED
  BY <1>1, VerdictInvariant, PTL

(***************************************************************************)
(* In an answer without code blocks the first object decides, whatever its *)
(* strings hold and whatever follows it.                                   *)
(***************************************************************************)
THEOREM TheBareObjectDecides == Spec => []BareObjectDecides
<1>1. ASSUME VerdictInv
      PROVE  BareObjectDecides
  <2>. SUFFICES ASSUME stage = "branch", Judged, NEW i \in DOMAIN text, NEW j \in DOMAIN text,
                       IsFirstObject(i, j)
                PROVE  decision = Decide(Loads(SubSeq(text, i, j)), text)
    BY DEF BareObjectDecides
  <2>. QED
    BY <1>1, LeadingObject DEF Leads
<1>. QED
  BY <1>1, VerdictInvariant, PTL
=============================================================================
