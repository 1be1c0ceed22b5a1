---------------------------- MODULE MCScoreStore -----------------------------
(* An instance of ScoreStore for TLC: three calls for one attempt. *)
EXTENDS ScoreStore, TLC

CONSTANTS a1, w1, w2, w3, sheet
=============================================================================
