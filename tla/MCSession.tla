----------------------------- MODULE MCSession ------------------------------
(* An instance of Session for TLC. *)
EXTENDS Session

CONSTANTS r1, r2, f1, f2
=============================================================================
