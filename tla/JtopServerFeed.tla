--------------------------- MODULE JtopServerFeed ---------------------------
(***************************************************************************)
(* The threads of JtopServer implement the feed of SampleFeed: the ring,   *)
(* the mutexes and the condition variables are its implementation.         *)
(***************************************************************************)
EXTENDS JtopServer

\* What SampleFeed calls the phase of a connection.
phase == [c \in Conns |-> CASE conn[c] \in {"idle", "pending"} -> "new"
                            [] conn[c] = "accepted" -> "open"
                            [] OTHER -> "closed"]

Feed == INSTANCE SampleFeed
  WITH Samples <- {[timestamp |-> WallClock[r], round |-> r] : r \in 0 .. MaxRounds}

(***************************************************************************)
(* Every step of the server is a step of the feed or leaves it alone, the  *)
(* steps a signal, a failing call or a leaving client put between those of *)
(* a reader included: a frame formatted under info_mutex is written after  *)
(* it is released, so it may be old when it is sent, but it is never       *)
(* torn, never out of order and never sent on a closed descriptor          *)
(* (jtop.c 119-138, 180-224).                                              *)
(***************************************************************************)
ImplementsFeed == Feed!FeedSpec

=============================================================================
