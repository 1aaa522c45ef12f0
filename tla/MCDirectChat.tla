---------------------------- MODULE MCDirectChat ----------------------------
(***************************************************************************)
(* Instances of DirectChat for TLC.  Questions are interchangeable.        *)
(***************************************************************************)
EXTENDS DirectChatProperties, TLC

CONSTANTS q1, q2
TwoQuestions == {q1, q2}
OneQuestion == {q1}
Symmetric == Permutations(TwoQuestions)
=============================================================================
