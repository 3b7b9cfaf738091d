----------------------------- MODULE AcceptQueue -----------------------------
(***************************************************************************)
(* What the thread pool of mongoose promises of the connections it         *)
(* accepts, with no threads, indices or locks: those it takes up wait in   *)
(* the order they came, in a queue of bounded length; each is served by    *)
(* one worker and closed once; and none is dropped before the server is    *)
(* told to stop.                                                           *)
(***************************************************************************)
EXTENDS Integers, Sequences

CONSTANTS
  Sockets,      \* the connections clients make
  Capacity      \* of the queue

VARIABLES
  waiting,      \* accepted connections no worker has taken, oldest first
  phase,        \* of each connection
  stopping      \* the server was told to stop

queueVars == <<waiting, phase, stopping>>

QueueInit ==
  /\ waiting = <<>>
  /\ phase = [s \in Sockets |-> "new"]
  /\ stopping = FALSE

Becomes(s, from, to) ==
  /\ phase[s] = from /\ phase' = [phase EXCEPT ![s] = to]
  /\ UNCHANGED stopping

Accept(s)  == Becomes(s, "new", "accepted") /\ UNCHANGED waiting
Refuse(s)  == Becomes(s, "new", "closed") /\ UNCHANGED waiting
Enqueue(s) == /\ Becomes(s, "accepted", "waiting")
              /\ Len(waiting) < Capacity /\ waiting' = Append(waiting, s)
Dequeue(s) == /\ Becomes(s, "waiting", "taken")
              /\ waiting # <<>> /\ Head(waiting) = s /\ waiting' = Tail(waiting)
Close(s)   == Becomes(s, "taken", "closed") /\ UNCHANGED waiting
Drop(s)    == /\ stopping
              /\ \E from \in {"accepted", "taken"} : Becomes(s, from, "dropped")
              /\ UNCHANGED waiting
Stop       == stopping' = TRUE /\ UNCHANGED <<waiting, phase>>

QueueNext ==
  \/ Stop
  \/ \E s \in Sockets : \/ Accept(s) \/ Refuse(s) \/ Enqueue(s) \/ Dequeue(s)
                        \/ Close(s) \/ Drop(s)

QueueSpec == QueueInit /\ [][QueueNext]_queueVars

=============================================================================
