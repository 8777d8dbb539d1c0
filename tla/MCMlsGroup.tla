----------------------------- MODULE MCMlsGroup -----------------------------
(* Small instance of MlsGroup: a leader and one or two other members.      *)
EXTENDS MlsGroup

CONSTANTS alice, bob, carol
=============================================================================
