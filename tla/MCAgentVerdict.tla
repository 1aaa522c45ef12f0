--------------------------- MODULE MCAgentVerdict ---------------------------
(***************************************************************************)
(* Answers for TLC: every text of up to four tokens of the scanner, and    *)
(* texts put together from prose, objects and code blocks.                 *)
(***************************************************************************)
EXTENDS AgentVerdictProperties, SequencesExt, TLC

Members == [approve |-> [key |-> "decision", value |-> "go"],
            revise |-> [key |-> "decision", value |-> "revise"],
            blank |-> [key |-> "decision", value |-> ""],
            route |-> [key |-> "route", value |-> "retry"],
            note |-> [key |-> "note", value |-> "x"]]

Words == {"approved", "needs_revision", "notPassed", "passed", "tellMe", "word"}
Tokens == {"{", "}", "quote", "slash", "fence"} \union DOMAIN Members \union Words

Phrases(t) ==
  CASE t = "approved" -> {"en_approval"}
    [] t = "needs_revision" -> {"en_revision"}
    [] t = "notPassed" -> {"zh_revision", "zh_approval"}    \* one word contains the other
    [] t = "passed" -> {"zh_approval"}
    [] t = "tellMe" -> {"clarification"}
    [] OTHER -> {}

InWordsOfEdges(value) ==
  CASE value = "go" -> "approved"
    [] value \in {"revise", "retry"} -> "needs_revision"
    [] OTHER -> value

Keys == <<"decision", "route">>

(* Objects: members, strings and further objects in braces. *)
Step(s, t) ==
  CASE s.end \/ (s.depth = 0 /\ t # "{") -> [s EXCEPT !.ok = FALSE]
    [] ~s.end /\ s.escape -> [s EXCEPT !.escape = FALSE]
    [] ~s.end /\ ~s.escape /\ s.string ->
         [s EXCEPT !.escape = (t = "slash"), !.string = (t # "quote")]
    [] ~s.end /\ ~s.string /\ t = "{" -> [s EXCEPT !.depth = @ + 1]
    [] ~s.end /\ ~s.string /\ s.depth > 0 /\ t = "}" ->
         [s EXCEPT !.depth = @ - 1, !.end = (s.depth = 1)]
    [] ~s.end /\ ~s.string /\ s.depth > 0 /\ t = "quote" -> [s EXCEPT !.string = TRUE]
    [] ~s.end /\ ~s.string /\ s.depth > 0 /\ t \in DOMAIN Members ->
         IF s.depth = 1 THEN [s EXCEPT !.object = Members[t].key :> Members[t].value @@ @] ELSE s
    [] OTHER -> [s EXCEPT !.ok = FALSE]

JsonLoads(t) ==
  LET s == FoldLeft(LAMBDA acc, x : Step(acc, x),
             [depth |-> 0, string |-> FALSE, escape |-> FALSE, end |-> FALSE, ok |-> TRUE,
              object |-> <<>>], t)
  IN IF s.ok /\ s.end THEN s.object ELSE NotAnObject

(* Texts. *)
Prose == {<<"approved">>, <<"needs_revision">>, <<"notPassed">>, <<"passed">>, <<"word">>,
          <<"tellMe">>}
Objects == {
  <<"{", "approve", "}">>,
  <<"{", "blank", "route", "}">>,
  <<"{", "note", "}">>,
  <<"{", "}">>,
  <<"{", "quote", "}", "slash", "quote", "quote", "revise", "}">>,    \* a brace and a quote in a string
  <<"{", "note", "{", "approve", "}", "}">>,
  <<"{", "word", "approve", "}">>}                    \* no JSON
Strays == {<<"{">>, <<"}">>, <<"quote">>, <<"fence">>}
Blocks == {<<"fence">> \o o \o <<"fence">> : o \in Objects}

Short == UNION {[1 .. n -> {"{", "}", "quote", "slash", "approve"}] : n \in 1 .. 4}
Pairs == {a \o b : a \in Prose \union Objects \union Strays \union Blocks,
                   b \in Prose \union Objects \union Strays \union Blocks}
Triples == {a \o b \o c : a \in Prose, b \in {o \in Objects : Len(o) = 2 \/ Len(o) > 4},
                          c \in Prose \union Blocks}

AllAnswers == Short \union Pairs \union Triples
SomeRemarks == {<<"approved">>, NoText}

Gate == {[when |-> "approved", to |-> "final"], [when |-> "needs_revision", to |-> "plan"]}
=============================================================================
