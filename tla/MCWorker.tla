------------------------------ MODULE MCWorker ------------------------------
(***************************************************************************)
(* Small instance for TLC: two users' messages and their replies.          *)
(***************************************************************************)
EXTENDS WorkerProperties

CONSTANTS h1, h2

TwoMessages == {h1, h2}
=============================================================================
