---------------------------- MODULE MCThreadpool ----------------------------
(* Small instances of the thread pool for TLC. *)
EXTENDS ThreadpoolProps

CONSTANTS c1, c2, f1

OneClient  == {c1}
TwoClients == {c1, c2}
OneFunc    == {f1}
=============================================================================
