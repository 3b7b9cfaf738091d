----------------------------- MODULE MCJtopView -----------------------------
(***************************************************************************)
(* Instances of the client for TLC.                                        *)
(***************************************************************************)
EXTENDS JtopView, TLC

Symmetry == Permutations(Providers)

=============================================================================
