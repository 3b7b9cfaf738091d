-------------------------- MODULE JtopServerSafety --------------------------
(***************************************************************************)
(* What the threads of JtopServer may never do, and the stronger           *)
(* invariants that explain why and that the proofs use.                    *)
(***************************************************************************)
EXTENDS JtopServer

\* Threads created and not yet taken off active_thread_count.
Live == {t \in Threads : pc[t] \notin {"none", "done"}}

\* Threads that still have their descriptor open, and which one it is.
Serving == {t \in Threads : pc[t] \notin {"none", "return_lock", "return", "done"}}
Served(t) == IF pc[t] = "start" THEN thread_data[t] ELSE sockfd[t]

(***************************************************************************)
(* A frame is made of two samples recorded one right after the other: a    *)
(* reader never sees the ring between the move of last_index and the       *)
(* filling of the slot, however late it comes out of pthread_cond_wait     *)
(* (jtop.c 119-128 against 193-213).                                       *)
(***************************************************************************)
FramesAreConsecutive ==
  \A t \in Threads : content[t] # NoFrame =>
    \E i \in 2 .. Len(recorded) :
      content[t] = [cur |-> recorded[i], prev |-> recorded[i - 1]]

(***************************************************************************)
(* The two rates of a frame divide by a time difference that is not zero,  *)
(* whatever the clock does: the writer drops a sample of the newest one's  *)
(* second without the mutex, and the readers skip unset slots (jtop.c 65,  *)
(* 195, 207-208).                                                          *)
(***************************************************************************)
RatesAreDefined ==
  \A t \in Threads : content[t] # NoFrame =>
    content[t].cur.timestamp - content[t].prev.timestamp # 0

(***************************************************************************)
(* active_thread_count is the threads that have not returned, plus the one *)
(* main is about to create, plus those whose creation failed unnoticed     *)
(* (jtop.c 227, 282, 288).                                                 *)
(***************************************************************************)
CountIsLiveThreads ==
  active_thread_count = Cardinality(Live) + lost
                          + IF pc[Main] = "create" THEN 1 ELSE 0

(***************************************************************************)
(* No two threads share a descriptor and none uses one that is closed:     *)
(* each thread's descriptor reaches it in an int of its own, though main   *)
(* accepts the next connection into the same local before the thread runs  *)
(* (jtop.c 180, 279, 285-288).                                             *)
(***************************************************************************)
DescriptorsAreOwned ==
  /\ \A t \in Serving : Served(t) # NoConn => conn[Served(t)] = "accepted"
  /\ \A t, u \in Serving : t # u /\ Served(t) # NoConn => Served(t) # Served(u)

(***************************************************************************)
(* The process says "Clean shutdown" only after every thread has returned  *)
(* and, unless a thread could not be created, every accepted connection    *)
(* has been closed (jtop.c 224-229, 297-313).                              *)
(***************************************************************************)
CleanShutdown ==
  pc[Main] = "exited" =>
    /\ pc[Data] = "done" /\ Live = {}
    /\ lost = 0 => \A c \in Conns : conn[c] # "accepted"

(***************************************************************************)
(* No thread blocks in a call other than pthread_mutex_lock while it holds *)
(* a mutex: every path out of a critical section releases it, the early    *)
(* continue of the reader included (jtop.c 188, 196, 215, 307).            *)
(***************************************************************************)
NoBlockingUnderMutex ==
  \A m \in Mutexes : owner[m] # Nobody =>
    pc[owner[m]] \notin {"asleep", "drain_asleep", "write", "select", "sleep", "join"}

(***************************************************************************)
(* A client is never sent an older frame after a newer one, although its   *)
(* thread may sleep through any number of samples (jtop.c 186-221).        *)
(***************************************************************************)
FramesInOrder ==
  [][\A c \in Conns : stream[c].last # NoFrame =>
       stream'[c].last.cur.round >= stream[c].last.cur.round]_vars

(***************************************************************************)
(* Only SIGINT cuts a write short, and the flag its handler sets makes a   *)
(* cut frame the last thing on its connection: the client never meets the  *)
(* rest of the stream glued to half a frame (jtop.c 159-177, 186, 217).    *)
(***************************************************************************)
CutFrameIsLast ==
  [][\A c \in Conns : stream[c].cut => stream'[c] = stream[c]]_vars

-----------------------------------------------------------------------------
(* Why the frames are right: the invariant the proofs use.                 *)

\* The slot of the newest sample: the one left behind, while the next is open.
Newest == IF pc[Data] = "append_fill" THEN PrevSlot(last_index) ELSE last_index

(***************************************************************************)
(* Whoever is inside the ring's critical section owns info_mutex, so the   *)
(* writer and a reader are never there together (jtop.c 118-138, 191-215). *)
(***************************************************************************)
RingIsGuarded ==
  /\ pc[Data] \in {"append_advance", "append_fill"} => owner["info_mutex"] = Data
  /\ \A t \in Threads : pc[t] = "read" => owner["info_mutex"] = t

(***************************************************************************)
(* The ring holds the end of the record: the newest slot has its last      *)
(* sample, the slot before has the one before, and a slot that would       *)
(* precede the first sample is still unset.  What the writer is about to   *)
(* store is of another second than the newest (jtop.c 65, 119-138).        *)
(***************************************************************************)
RingHoldsRecord ==
  LET n == Len(recorded) IN
  /\ n = 0 => \A i \in Slots : data_history[i] = Unset
  /\ n = 1 => data_history[PrevSlot(Newest)] = Unset
  /\ n >= 1 => data_history[Newest] = recorded[n]
  /\ n >= 2 => data_history[PrevSlot(Newest)] = recorded[n - 1]
  /\ pc[Data] \in {"append_lock", "append_advance", "append_fill"} =>
       WallClock[round] # data_history[Newest].timestamp
  /\ \A i \in 2 .. n : recorded[i].timestamp # recorded[i - 1].timestamp
  /\ pc[Main] = "init" => n = 0 /\ pc[Data] = "none"

-----------------------------------------------------------------------------
(* Why the exit is clean.                                                  *)

(***************************************************************************)
(* A mutex that is owned is owned by a thread in one of its sections, and  *)
(* the data thread does not run before main creates it (jtop.c 247, and    *)
(* every pthread_mutex_lock and _unlock).                                  *)
(***************************************************************************)
Inside(m, section) == owner[m] # Nobody => pc[owner[m]] \in section

OwnersAreInside ==
  /\ Inside("info_mutex", {"append_advance", "append_fill", "read"})
  /\ Inside("new_info_mutex", {"wake", "wait", "drain_wake"})
  /\ Inside("active_thread_count_mutex",
            {"count_inc", "return", "drain_test", "drain_info_lock",
             "drain_wake", "drain_wait", "drain_unlock"})
  /\ pc[Main] = "init" => pc[Data] = "none"

\* The connection main has accepted and not yet given to a thread.
InHand(c) == socketConnection = c /\ pc[Main] \in {"count_lock", "count_inc", "create"}

(***************************************************************************)
(* Each accepted connection is in main's hand or some one thread's, unless *)
(* the thread made for it never started (jtop.c 180, 224, 279-288).        *)
(***************************************************************************)
ConnectionsAreTended ==
  /\ DescriptorsAreOwned
  /\ \A c \in Conns : InHand(c) =>
       conn[c] = "accepted" /\ \A t \in Serving : Served(t) # c
  /\ lost = 0 => \A c \in Conns : conn[c] = "accepted" =>
       InHand(c) \/ \E t \in Serving : Served(t) = c

Draining == {"drain_lock", "drain_test", "drain_info_lock", "drain_wake",
             "drain_wait", "drain_asleep", "drain_unlock", "exited"}

(***************************************************************************)
(* The drain starts when the data thread is done and ends when no thread   *)
(* is left and none was lost (jtop.c 297-309).                             *)
(***************************************************************************)
DrainIsComplete ==
  /\ pc[Main] \in Draining => pc[Data] = "done"
  /\ pc[Main] \in {"drain_unlock", "exited"} => Live = {} /\ lost = 0

-----------------------------------------------------------------------------
(* Why the streams are in order.                                           *)

FrameAt(i) == [cur |-> recorded[i], prev |-> recorded[i - 1]]

(***************************************************************************)
(* Samples are recorded in the order of their rounds (jtop.c 119-138,      *)
(* 151).                                                                   *)
(***************************************************************************)
RecordIsOrdered ==
  \A j \in 1 .. Len(recorded) :
    /\ recorded[j].round <= round
    /\ \A i \in 1 .. j : recorded[i].round <= recorded[j].round

\* What has been sent on c is no newer than what its thread t has formatted.
Behind(c, t) ==
  stream[c].last # NoFrame =>
    \E i \in 2 .. Len(recorded) :
      /\ content[t] = FrameAt(i)
      /\ \E j \in 2 .. i : stream[c].last = FrameAt(j)

(***************************************************************************)
(* Nothing is sent on a connection before it has a thread; then its thread *)
(* is never behind its stream, and a thread whose frame was cut short is   *)
(* on its way out (jtop.c 186, 191-218).                                   *)
(***************************************************************************)
StreamsFollowRecord ==
  /\ \A c \in Conns : conn[c] \in {"idle", "pending"} \/ InHand(c) =>
       stream[c] = [last |-> NoFrame, cut |-> FALSE]
  /\ \A t \in Threads : pc[t] = "write" => content[t] # NoFrame
  /\ \A t \in Serving : Served(t) # NoConn =>
       /\ Behind(Served(t), t)
       /\ stream[Served(t)].cut => shuttingdown_flag /\ pc[t] \in {"check", "close"}

=============================================================================
