---------------------------- MODULE MCJtopServer ----------------------------
(***************************************************************************)
(* Instances of the server for TLC.                                        *)
(***************************************************************************)
EXTENDS JtopServerFeed, JtopServerLiveness, TLC

\* A clock that ticks with the rounds.
Ticking == [r \in 0 .. MaxRounds |-> r + 1]

\* A clock set from nothing (no sample is taken at 0), that stands still for a
\* round, steps back, and comes to a second it has been in before.
Stepping == [r \in 0 .. MaxRounds |-> <<0, 2, 2, 1, 2, 3>>[r + 1]]

Symmetry == Permutations(Threads) \cup Permutations(Conns)

=============================================================================
