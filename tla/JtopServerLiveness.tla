------------------------- MODULE JtopServerLiveness -------------------------
(***************************************************************************)
(* What must eventually happen in the server of JtopServer, and what the   *)
(* program says will happen and does not.                                  *)
(*                                                                         *)
(* The threads are scheduled fairly: a thread whose next step is possible  *)
(* again and again eventually takes it.  That is strong fairness, because  *)
(* a mutex is free again and again between other threads' sections, and    *)
(* the buffer of a client that reads drains again and again.  Clients,     *)
(* signals and spurious wakeups are under no fairness: they may never      *)
(* come.                                                                   *)
(***************************************************************************)
EXTENDS JtopServerSafety

Fairness == /\ SF_vars(MainStep) /\ SF_vars(DataStep)
            /\ \A t \in Threads : SF_vars(ConnStep(t))

FairSpec == Spec /\ Fairness

-----------------------------------------------------------------------------
(* What holds.                                                             *)

Sent(c, r) == stream[c].last # NoFrame /\ stream[c].last.cur.round >= r

(***************************************************************************)
(* A client that has its thread and keeps reading is sent every sample or  *)
(* a newer one, though its thread is deaf to the broadcast while it        *)
(* formats and writes, and though the clock may stand still for rounds on  *)
(* end: the data thread broadcasts in every round (jtop.c 142-151,         *)
(* 187-189).                                                               *)
(***************************************************************************)
NewestReachesClients ==
  \A c \in Conns, r \in 0 .. MaxRounds :
    (/\ Len(recorded) >= 2 /\ recorded[Len(recorded)].round = r
     /\ \E t \in Serving : Served(t) = c)
      ~> (Sent(c, r) \/ peer[c] # "reading" \/ shuttingdown_flag)

(***************************************************************************)
(* A client that leaves is noticed: its thread learns it from a write,     *)
(* closes the descriptor and comes off active_thread_count                 *)
(* (jtop.c 217-229).                                                       *)
(***************************************************************************)
LeaversReaped ==
  \A t \in Threads :
    (/\ t \in Serving /\ Served(t) # NoConn /\ peer[Served(t)] \in {"left", "reset"}
     /\ Len(recorded) >= 2)
      ~> (pc[t] = "done" \/ shuttingdown_flag)

(***************************************************************************)
(* Once main stops accepting, it does not wait forever for the data        *)
(* thread, whatever the connection threads hold or wait for                *)
(* (jtop.c 143-151, 295-297).                                              *)
(***************************************************************************)
DataThreadStops == data_thread_shutdown_flag ~> (pc[Data] = "done" /\ pc[Main] # "join")

(***************************************************************************)
(* Whatever moment SIGINT came at, a client that asks to connect gets main *)
(* out of its accept loop (jtop.c 272-290).                                *)
(***************************************************************************)
SignalledLoopEnds ==
  (shuttingdown_flag /\ Pending # {} /\ pc[Main] \in {"check", "select"})
    ~> pc[Main] = "join"

(***************************************************************************)
(* If, when main takes active_thread_count_mutex for the drain, no thread  *)
(* is between its test of the flag and its pthread_cond_wait, and no       *)
(* client stalls for good, the process exits, if no pthread_create failed. *)
(* A thread that was asleep is woken, one that was busy sees the flag      *)
(* (jtop.c 186-189, 282-288, 300-309).                                     *)
(***************************************************************************)
InTheGap == \E t \in Threads : pc[t] \in {"wait_lock", "wait"}

DrainEnds ==
  \/ \E c \in Conns : <>[](peer[c] = "stalled")
  \/ (pc[Main] = "drain_lock" /\ ~ InTheGap /\ lost = 0) ~> pc[Main] = "exited"

-----------------------------------------------------------------------------
(* What the program says and does not do.                                  *)

(***************************************************************************)
(* "Make sure threads aren't just sleeping" (jtop.c 302): when main waits  *)
(* for the threads to return, none of them sleeps on new_info_cond, which  *)
(* nobody would signal any more.                                           *)
(***************************************************************************)
NoThreadJustSleeping ==
  Main \in sleepers["active_thread_returned_cond"] => sleepers["new_info_cond"] = {}

=============================================================================
