------------------------------ MODULE MCMgPool ------------------------------
(* MgPoolProperties with TLC's values. *)
EXTENDS MgPoolProperties

CONSTANTS w1, w2

TwoWorkers == {w1, w2}
=============================================================================
