-------------------------- MODULE MgPoolProperties --------------------------
(***************************************************************************)
(* What makes the thread pool of MgPool correct.                           *)
(***************************************************************************)
EXTENDS MgPool

\* A connection the server holds open is in the hands of exactly one thread or
\* in one slot of the ring, and one it closed or forgot is nowhere
\* (mongoose.c:4885-4893, 4966, 4918-4938): a socket is never served twice,
\* closed twice or overwritten in the ring.
InRing(s) == {i \in sq_tail .. sq_head - 1 : queue[i % QueueSize] = s}
ServedBy(s) == {w \in Workers : client[w] = s}
EverySocketOnce ==
  \A s \in Sockets :
    /\ sock[s] = "open" =>
         \/ so = s /\ InRing(s) = {} /\ ServedBy(s) = {}
         \/ so # s /\ (\E i \in InRing(s) : InRing(s) = {i}) /\ ServedBy(s) = {}
         \/ so # s /\ InRing(s) = {} /\ \E w \in ServedBy(s) : ServedBy(s) = {w}
    /\ sock[s] # "open" => so # s /\ InRing(s) = {} /\ ServedBy(s) = {}

\* The mutex and the conditions are destroyed, and the context is freed, only
\* when no worker will touch them again (mongoose.c:5061-5082, 5114-5117):
\* the number of threads, which mg_start counts up with no mutex, is never
\* behind the workers that run, as long as no allocation failed.
NoMemoryFault == \A p \in starved : pc[p] = "none"
Gone(w) == pc[w] \in {"none", "done"}
ContextOutlivesThreads ==
  /\ NoMemoryFault /\ pc[Master] \in {"finish", "done"} => \A w \in Workers : Gone(w)
  /\ freed => pc[Master] = "done"

\* What AcceptQueue speaks of: the accepted connections in the order of the ring,
\* how far each has come, and whether the server was told to stop.
waiting == [i \in 1 .. sq_head - sq_tail |-> queue[(sq_tail + i - 1) % QueueSize]]

Phase(s) ==
  IF sock[s] = "leaked" THEN "dropped"
  ELSE IF sock[s] # "open" THEN sock[s]
  ELSE IF so = s THEN "accepted"
  ELSE IF InRing(s) # {} THEN "waiting"
  ELSE "taken"
phase == [s \in Sockets |-> Phase(s)]

stopping == stop_flag # 0

Abstract == INSTANCE AcceptQueue WITH Capacity <- QueueSize

\* The ring, with its two indices that are wrapped together (mongoose.c:4885-4893,
\* 4964-4967), is the bounded first-in first-out queue of AcceptQueue, and no
\* connection is forgotten before somebody stops the server.
ImplementsQueue == Abstract!QueueSpec

\* While the server runs, every connection it accepts is served and closed
\* (mongoose.c:4896, 4971), as long as one worker could be started: the signals of
\* the two conditions suffice.
NoWorker == pc[App] = "running" /\ \A w \in Workers : Gone(w)
EverySocketServed ==
  \A s \in Sockets : sock[s] = "open" ~> (sock[s] = "closed" \/ stop_flag # 0 \/ NoWorker)

\* mg_stop returns (mongoose.c:5110-5117).
StopReturns == pc[App] = "stopping" ~> pc[App] = "done"

\* A worker has tested stop_flag before it was set, and has not yet gone to
\* sleep when the master wakes the sleepers.
Missed ==
  /\ pc[Master] \in {"join_lock", "join", "join_asleep"}
  /\ \E w \in Workers : pc[w] = "wait"

\* mg_stop returns, whatever the threads are doing when it is called, unless the
\* wake-up of the master was missed, the master was never started or a thread found
\* no memory (mongoose.c:4878, 4906, 4943-4948, 5059-5066, 5201).
StopReturnsUnlessMissed ==
  [](~ Missed /\ NoMemoryFault) /\ <>(pc[Master] # "none") => StopReturns

=============================================================================
