-------------------------- MODULE MCAlkanesMessage --------------------------
(* Two contracts that run, a third to be deployed, and the token of a      *)
(* contract that never runs beside one that its contract mints.            *)
EXTENDS AlkanesMessage

OneOfEach == [t \in Tokens |-> 1]
=============================================================================
