------------------------------- MODULE MgPool -------------------------------
(***************************************************************************)
(* The threads of the mongoose web server (server/mongoose.c): the         *)
(* application thread that calls mg_start and mg_stop, the master thread   *)
(* that accepts connections, and the workers that serve them, with the     *)
(* ring of accepted sockets between master and workers.                    *)
(*                                                                         *)
(* One action is one step between two points where another thread can be   *)
(* observed.  stop_flag is written and read with no mutex, so its tests    *)
(* are steps of their own wherever something follows from them.  What a    *)
(* worker does with a connection is one step here: MgConnection has it.    *)
(***************************************************************************)
EXTENDS Integers, Sequences, FiniteSets

CONSTANTS
  Workers,      \* the worker threads mg_start asks for
  App, Master,  \* the application's thread and the master thread
  Nobody,       \* owner of the free mutex
  NoSocket,     \* INVALID_SOCKET
  QueueSize,    \* ARRAY_SIZE(ctx->queue), 20
  MaxSockets,   \* bound: connections that are told apart
  Denied,       \* connections the access control list turns away
  FaultBudget   \* bound: failing calls of pthread_create and calloc

Sockets == 1 .. MaxSockets
Slots   == 0 .. QueueSize - 1
Procs   == Workers \cup {App, Master}

ASSUME PoolAssumption ==
  /\ IsFiniteSet(Workers)
  /\ App # Master /\ {App, Master, Nobody} \cap Workers = {}
  /\ Nobody \notin {App, Master}
  /\ NoSocket \notin Nat
  /\ QueueSize \in Nat \ {0}
  /\ MaxSockets \in Nat /\ FaultBudget \in Nat
  /\ Denied \subseteq Sockets

VARIABLES
  pc,
  owner,        \* of ctx->mutex
  sleepers,     \* who is asleep on each condition variable
  stop_flag, num_threads,
  queue, sq_head, sq_tail,
  listening,    \* the listening sockets are open
  freed,        \* free_context has run
  so,           \* master's local: the socket just accepted
  client,       \* conn->client of each worker
  readCount,    \* what a thread adds to or takes from num_threads next
  accepted,     \* connections accepted so far: they are numbered as they come
  sock,         \* each connection, on the server's side
  faults, starved   \* failing calls so far; threads that were denied something

syncVars  == <<owner, sleepers>>
ringVars  == <<queue, sq_head, sq_tail>>
countVars == <<num_threads, readCount>>
connVars  == <<so, client, accepted, sock>>
lifeVars  == <<stop_flag, listening, freed>>
faultVars == <<faults, starved>>
vars == <<pc, syncVars, ringVars, countVars, connVars, lifeVars, faultVars>>

Conds == {"sq_full", "sq_empty", "cond"}

AppPC    == {"start_master", "start_worker", "count_read", "count_write",
             "running", "stopping", "free", "done"}
MasterPC == {"none", "start", "check", "poll", "ready", "accept", "lock",
             "produce", "wait", "asleep", "close", "broadcast", "join_lock",
             "join", "join_asleep", "finish", "done"}
WorkerPC == {"none", "start", "lock", "consume", "wait", "asleep", "taken",
             "serve", "exit_lock", "count_read", "count_write", "done"}

TypeOK ==
  /\ pc \in [Procs -> AppPC \cup MasterPC \cup WorkerPC]
  /\ pc[App] \in AppPC /\ pc[Master] \in MasterPC
  /\ \A w \in Workers : pc[w] \in WorkerPC
  /\ owner \in Procs \cup {Nobody}
  /\ sleepers \in [Conds -> SUBSET Procs]
  /\ stop_flag \in 0 .. 2 /\ listening \in BOOLEAN /\ freed \in BOOLEAN
  /\ num_threads \in Int /\ readCount \in [Procs -> Int]
  /\ queue \in [Slots -> Sockets \cup {NoSocket}]
  /\ sq_tail \in 0 .. QueueSize /\ sq_head \in sq_tail .. sq_tail + QueueSize
  /\ so \in Sockets \cup {NoSocket}
  /\ client \in [Workers -> Sockets \cup {NoSocket}]
  /\ accepted \in 0 .. MaxSockets
  /\ sock \in [Sockets -> {"new", "open", "closed", "leaked"}]
  /\ faults \in 0 .. FaultBudget /\ starved \in SUBSET Procs

Init ==
  /\ pc = [p \in Procs |-> IF p = App THEN "start_master" ELSE "none"]
  /\ owner = Nobody /\ sleepers = [c \in Conds |-> {}]
  /\ stop_flag = 0 /\ listening = TRUE /\ freed = FALSE
  /\ num_threads = 0 /\ readCount = [p \in Procs |-> 0]
  /\ queue = [i \in Slots |-> NoSocket] /\ sq_head = 0 /\ sq_tail = 0
  /\ so = NoSocket /\ client = [w \in Workers |-> NoSocket]
  /\ accepted = 0 /\ sock = [s \in Sockets |-> "new"]
  /\ faults = 0 /\ starved = {}

-----------------------------------------------------------------------------
(* Steps every thread takes.                                               *)

Goes(p, from, to) == pc[p] = from /\ pc' = [pc EXCEPT ![p] = to]

\* A step that changes nothing but where p is.
Jump(p, from, to) ==
  /\ Goes(p, from, to)
  /\ UNCHANGED <<syncVars, ringVars, countVars, connVars, lifeVars, faultVars>>

\* pthread_mutex_lock
Lock(p, from, to) ==
  /\ Goes(p, from, to) /\ owner = Nobody /\ owner' = p
  /\ UNCHANGED <<sleepers, ringVars, countVars, connVars, lifeVars, faultVars>>

\* pthread_cond_wait: releases the mutex and sleeps in one step
Sleep(p, from, c, to) ==
  /\ Goes(p, from, to) /\ owner' = Nobody
  /\ sleepers' = [sleepers EXCEPT ![c] = @ \cup {p}]
  /\ UNCHANGED <<ringVars, countVars, connVars, lifeVars, faultVars>>

\* pthread_cond_wait returns, with the mutex, once p is no longer asleep.
Awake(p, from, c, to) == p \notin sleepers[c] /\ Lock(p, from, to)

\* pthread_cond_signal: one of the sleepers, if there are any
Signal(c) ==
  IF sleepers[c] = {} THEN UNCHANGED sleepers
  ELSE \E p \in sleepers[c] : sleepers' = [sleepers EXCEPT ![c] = @ \ {p}]

\* POSIX lets pthread_cond_wait return without a signal.
SpuriousWake(p, c) ==
  /\ p \in sleepers[c] /\ sleepers' = [sleepers EXCEPT ![c] = @ \ {p}]
  /\ UNCHANGED <<pc, owner, ringVars, countVars, connVars, lifeVars, faultVars>>

Fault == faults < FaultBudget /\ faults' = faults + 1

-----------------------------------------------------------------------------
(* The application's thread: mg_start and, once, mg_stop.                  *)

\* mg_start_thread(master_thread, ctx), whose result nobody looks at
AppStartMaster ==
  /\ pc[App] = "start_master"
  /\ \/ /\ pc' = [pc EXCEPT ![App] = "start_worker", ![Master] = "start"]
        /\ UNCHANGED faults
     \/ pc' = [pc EXCEPT ![App] = "start_worker"] /\ Fault
  /\ UNCHANGED <<syncVars, ringVars, countVars, connVars, lifeVars, starved>>

Unstarted == {w \in Workers : pc[w] = "none" /\ w \notin starved}

\* mg_start_thread(worker_thread, ctx): one worker more, or an error message
AppStartWorker ==
  /\ pc[App] = "start_worker"
  /\ \E w \in Unstarted :
       \/ /\ pc' = [pc EXCEPT ![App] = "count_read", ![w] = "start"]
          /\ UNCHANGED faultVars
       \/ /\ Fault /\ starved' = starved \cup {w}
          /\ UNCHANGED pc
  /\ UNCHANGED <<syncVars, ringVars, countVars, connVars, lifeVars>>

AppStarted == Unstarted = {} /\ Jump(App, "start_worker", "running")

\* ctx->num_threads++, without the mutex: a read, and a write
CountRead(p) ==
  /\ Goes(p, "count_read", "count_write")
  /\ readCount' = [readCount EXCEPT ![p] = num_threads]
  /\ UNCHANGED <<syncVars, ringVars, num_threads, connVars, lifeVars, faultVars>>

AppCountWrite ==
  /\ Goes(App, "count_write", "start_worker")
  /\ num_threads' = readCount[App] + 1
  /\ readCount' = [readCount EXCEPT ![App] = 0]
  /\ UNCHANGED <<syncVars, ringVars, connVars, lifeVars, faultVars>>

\* mg_stop
AppStop ==
  /\ Goes(App, "running", "stopping") /\ stop_flag' = 1
  /\ UNCHANGED <<syncVars, ringVars, countVars, connVars, listening, freed, faultVars>>

\* while (ctx->stop_flag != 2) mg_sleep(10)
AppStopSees == stop_flag = 2 /\ Jump(App, "stopping", "free")

\* free_context
AppFree ==
  /\ Goes(App, "free", "done") /\ freed' = TRUE
  /\ UNCHANGED <<syncVars, ringVars, countVars, connVars, stop_flag, listening, faultVars>>

AppStep ==
  \/ AppStartMaster \/ AppStartWorker \/ AppStarted \/ CountRead(App)
  \/ AppCountWrite \/ AppStop \/ AppStopSees \/ AppFree

-----------------------------------------------------------------------------
(* The master thread: master_thread, accept_new_connection and             *)
(* produce_socket.                                                         *)

\* calloc of the poll array, or its failure
MasterStart ==
  \/ Jump(Master, "start", "check")
  \/ /\ Goes(Master, "start", "close") /\ Fault /\ starved' = starved \cup {Master}
     /\ UNCHANGED <<syncVars, ringVars, countVars, connVars, lifeVars>>

\* while (pfd != NULL && ctx->stop_flag == 0)
MasterCheck == Jump(Master, "check", IF stop_flag = 0 THEN "poll" ELSE "close")

\* poll, for 200 ms: a connection is pending, or none is
MasterPoll ==
  \/ accepted < MaxSockets /\ Jump(Master, "poll", "ready")
  \/ Jump(Master, "poll", "check")

\* if (ctx->stop_flag == 0 && ...)
MasterReady == Jump(Master, "ready", IF stop_flag = 0 THEN "accept" ELSE "check")

\* accept; one the access control list denies is closed at once
MasterAccept ==
  LET s == accepted + 1 IN
  /\ pc[Master] = "accept" /\ accepted' = s
  /\ IF s \in Denied
       THEN /\ pc' = [pc EXCEPT ![Master] = "check"]
            /\ sock' = [sock EXCEPT ![s] = "closed"] /\ UNCHANGED so
       ELSE /\ pc' = [pc EXCEPT ![Master] = "lock"]
            /\ sock' = [sock EXCEPT ![s] = "open"] /\ so' = s
  /\ UNCHANGED <<syncVars, ringVars, countVars, client, lifeVars, faultVars>>

MasterLock == Lock(Master, "lock", "produce")

Full == sq_head - sq_tail >= QueueSize

\* while (ctx->stop_flag == 0 && ... >= ARRAY_SIZE(ctx->queue))
ProduceTest == stop_flag = 0 /\ Full /\ Jump(Master, "produce", "wait")

ProduceWait  == Sleep(Master, "wait", "sq_empty", "asleep")
ProduceAwake == Awake(Master, "asleep", "sq_empty", "produce")

\* Mutant: nobody is told.
ProducePutQuiet ==
  /\ ~ Full /\ Goes(Master, "produce", "check")
  /\ queue' = [queue EXCEPT ![sq_head % QueueSize] = so]
  /\ sq_head' = sq_head + 1 /\ so' = NoSocket /\ owner' = Nobody
  /\ UNCHANGED <<sleepers, sq_tail, countVars, client, accepted, sock, lifeVars,
                 faultVars>>

\* The socket is queued.
ProducePut ==
  /\ ~ Full /\ Goes(Master, "produce", "check")
  /\ queue' = [queue EXCEPT ![sq_head % QueueSize] = so]
  /\ sq_head' = sq_head + 1 /\ so' = NoSocket
  /\ owner' = Nobody /\ Signal("sq_full")
  /\ UNCHANGED <<sq_tail, countVars, client, accepted, sock, lifeVars, faultVars>>

\* The server stops while the queue is full: the socket is forgotten.
ProduceForgets ==
  /\ Full /\ stop_flag # 0 /\ Goes(Master, "produce", "check")
  /\ sock' = [sock EXCEPT ![so] = "leaked"] /\ so' = NoSocket
  /\ owner' = Nobody /\ Signal("sq_full")
  /\ UNCHANGED <<ringVars, countVars, client, accepted, lifeVars, faultVars>>

\* close_all_listening_sockets
MasterClose ==
  /\ Goes(Master, "close", "broadcast") /\ listening' = FALSE
  /\ UNCHANGED <<syncVars, ringVars, countVars, connVars, stop_flag, freed, faultVars>>

\* pthread_cond_broadcast(&ctx->sq_full), without the mutex
MasterBroadcast ==
  /\ Goes(Master, "broadcast", "join_lock")
  /\ sleepers' = [sleepers EXCEPT !["sq_full"] = {}]
  /\ UNCHANGED <<owner, ringVars, countVars, connVars, lifeVars, faultVars>>

MasterJoinLock == Lock(Master, "join_lock", "join")

\* while (ctx->num_threads > 0) pthread_cond_wait(&ctx->cond, &ctx->mutex)
MasterJoinWait  == num_threads > 0 /\ Sleep(Master, "join", "cond", "join_asleep")
MasterJoinAwake == Awake(Master, "join_asleep", "cond", "join")

\* Mutant: if instead of while
MasterJoinedOnce ==
  /\ Goes(Master, "join", "finish") /\ owner' = Nobody
  /\ \/ num_threads <= 0 \/ \E w \in Workers : pc[w] = "done"
  /\ UNCHANGED <<sleepers, ringVars, countVars, connVars, lifeVars, faultVars>>

MasterJoined ==
  /\ num_threads <= 0 /\ Goes(Master, "join", "finish") /\ owner' = Nobody
  /\ UNCHANGED <<sleepers, ringVars, countVars, connVars, lifeVars, faultVars>>

\* The mutex and the conditions are destroyed, and ctx->stop_flag = 2.
MasterFinish ==
  /\ Goes(Master, "finish", "done") /\ stop_flag' = 2
  /\ UNCHANGED <<syncVars, ringVars, countVars, connVars, listening, freed, faultVars>>

MasterStep ==
  \/ MasterStart \/ MasterCheck \/ MasterPoll \/ MasterReady \/ MasterAccept
  \/ MasterLock \/ ProduceTest \/ ProduceWait \/ ProduceAwake \/ ProducePut
  \/ ProduceForgets \/ MasterClose \/ MasterBroadcast \/ MasterJoinLock
  \/ MasterJoinWait \/ MasterJoinAwake \/ MasterJoined \/ MasterFinish

-----------------------------------------------------------------------------
(* A worker: worker_thread and consume_socket.                             *)

\* calloc of its connection
WorkerStart(w) ==
  \/ Jump(w, "start", "lock")
  \/ /\ Goes(w, "start", "exit_lock") /\ Fault /\ starved' = starved \cup {w}
     /\ UNCHANGED <<syncVars, ringVars, countVars, connVars, lifeVars>>

WorkerLock(w) == Lock(w, "lock", "consume")

Empty == sq_head = sq_tail

\* while (ctx->sq_head == ctx->sq_tail && ctx->stop_flag == 0)
ConsumeTest(w) == Empty /\ stop_flag = 0 /\ Jump(w, "consume", "wait")

ConsumeWait(w)  == Sleep(w, "wait", "sq_full", "asleep")
ConsumeAwake(w) == Awake(w, "asleep", "sq_full", "consume")

\* Wrap pointers if needed.
Wrap(i) == IF sq_tail + 1 > QueueSize THEN i - QueueSize ELSE i

\* Mutant: only the tail is wrapped.
ConsumeTakeHalfWrapped(w) ==
  /\ sq_head > sq_tail /\ Goes(w, "consume", "taken")
  /\ client' = [client EXCEPT ![w] = queue[sq_tail % QueueSize]]
  /\ sq_tail' = Wrap(sq_tail + 1) /\ owner' = Nobody /\ Signal("sq_empty")
  /\ UNCHANGED <<queue, sq_head, countVars, so, accepted, sock, lifeVars, faultVars>>

\* The oldest socket of the queue, if there is one
ConsumeTake(w) ==
  /\ sq_head > sq_tail /\ Goes(w, "consume", "taken")
  /\ client' = [client EXCEPT ![w] = queue[sq_tail % QueueSize]]
  /\ sq_tail' = Wrap(sq_tail + 1) /\ sq_head' = Wrap(sq_head)
  /\ owner' = Nobody /\ Signal("sq_empty")
  /\ UNCHANGED <<queue, countVars, so, accepted, sock, lifeVars, faultVars>>

ConsumeNothing(w) ==
  /\ Empty /\ stop_flag # 0 /\ Goes(w, "consume", "taken")
  /\ owner' = Nobody /\ Signal("sq_empty")
  /\ UNCHANGED <<ringVars, countVars, connVars, lifeVars, faultVars>>

\* return !ctx->stop_flag: a socket just taken is forgotten when it is set.
WorkerReturns(w) ==
  LET s == client[w] IN
  IF stop_flag = 0 THEN Jump(w, "taken", "serve")
  ELSE /\ Goes(w, "taken", "exit_lock")
       /\ client' = [client EXCEPT ![w] = NoSocket]
       /\ sock' = IF s = NoSocket THEN sock ELSE [sock EXCEPT ![s] = "leaked"]
       /\ UNCHANGED <<syncVars, ringVars, countVars, so, accepted, lifeVars, faultVars>>

\* Mutant: the connection is not forgotten after it is closed.
WorkerServesKept(w) ==
  /\ Goes(w, "serve", "lock")
  /\ sock' = [sock EXCEPT ![client[w]] = "closed"]
  /\ UNCHANGED <<syncVars, ringVars, countVars, so, client, accepted, lifeVars, faultVars>>

\* process_new_connection, if SSL was agreed on, and close_connection
WorkerServes(w) ==
  /\ Goes(w, "serve", "lock")
  /\ sock' = [sock EXCEPT ![client[w]] = "closed"]
  /\ client' = [client EXCEPT ![w] = NoSocket]
  /\ UNCHANGED <<syncVars, ringVars, countVars, so, accepted, lifeVars, faultVars>>

WorkerExitLock(w) == Lock(w, "exit_lock", "count_read")

\* Mutant: the master is not told.
WorkerExitsQuietly(w) ==
  /\ Goes(w, "count_write", "done")
  /\ num_threads' = readCount[w] - 1 /\ readCount' = [readCount EXCEPT ![w] = 0]
  /\ owner' = Nobody /\ UNCHANGED sleepers
  /\ UNCHANGED <<ringVars, connVars, lifeVars, faultVars>>

\* ctx->num_threads--, and a signal to the master
WorkerExits(w) ==
  /\ Goes(w, "count_write", "done")
  /\ num_threads' = readCount[w] - 1 /\ readCount' = [readCount EXCEPT ![w] = 0]
  /\ owner' = Nobody /\ Signal("cond")
  /\ UNCHANGED <<ringVars, connVars, lifeVars, faultVars>>

WorkerStep(w) ==
  \/ WorkerStart(w) \/ WorkerLock(w) \/ ConsumeTest(w) \/ ConsumeWait(w)
  \/ ConsumeAwake(w) \/ ConsumeTake(w) \/ ConsumeNothing(w) \/ WorkerReturns(w)
  \/ WorkerServes(w) \/ WorkerExitLock(w) \/ CountRead(w) \/ WorkerExits(w)

Next ==
  \/ AppStep \/ MasterStep \/ \E w \in Workers : WorkerStep(w)
  \/ \E p \in Procs, c \in Conds : SpuriousWake(p, c)

Spec == Init /\ [][Next]_vars

\* Every thread that can run does, but mg_stop need not be called; and a thread
\* that keeps asking for the mutex gets it.
Fairness ==
  /\ WF_vars(AppStep /\ ~ AppStop) /\ WF_vars(MasterStep)
  /\ SF_vars(MasterLock \/ ProduceAwake \/ MasterJoinLock \/ MasterJoinAwake)
  /\ \A w \in Workers :
       /\ WF_vars(WorkerStep(w))
       /\ SF_vars(WorkerLock(w) \/ ConsumeAwake(w) \/ WorkerExitLock(w))

FairSpec == Spec /\ Fairness

=============================================================================
