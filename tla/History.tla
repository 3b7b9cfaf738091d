------------------------------ MODULE History ------------------------------
(***************************************************************************)
(* The sample ring of server/jtop.c: data_history[MAX_HISTORY] and the two *)
(* index computations that the writer and the readers make on it.          *)
(*                                                                         *)
(* A sample is abstracted to the two things the program's behaviour and    *)
(* its properties tell apart: its timestamp (0 marks an unset slot, as in  *)
(* the code) and the sampling round that gathered it, which stands for the *)
(* ten float readings of struct info_data.                                 *)
(***************************************************************************)
EXTENDS Integers

CONSTANT MAX_HISTORY          \* 30 in the code

(***************************************************************************)
(* A frame is computed from the newest slot and the one before it, so the  *)
(* ring needs two slots.                                                   *)
(***************************************************************************)
ASSUME HistoryAssumption == MAX_HISTORY \in Nat /\ MAX_HISTORY >= 2

Slots == 0 .. MAX_HISTORY - 1

Sample == [timestamp : Nat, round : Nat]

Unset == [timestamp |-> 0, round |-> 0]

IsSet(sample) == sample.timestamp # 0

\* Mutant: the index is not taken modulo the size of the ring.
NextSlotUnwrapped(i) == i + 1

\* The slot append_sysinfo moves to.
NextSlot(i) == (i + 1) % MAX_HISTORY

\* Mutant: the slot after the newest is the oldest, not the one before it.
PrevSlotOldest(i) == (i + 1) % MAX_HISTORY

\* The slot a connection thread reads as the sample before the newest.
PrevSlot(i) == (i + MAX_HISTORY - 1) % MAX_HISTORY

=============================================================================
