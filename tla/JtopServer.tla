----------------------------- MODULE JtopServer -----------------------------
(***************************************************************************)
(* The jtop server process (server/jtop.c): the main thread that accepts   *)
(* connections and shuts the process down, the data thread that samples    *)
(* the system once a second, one thread per accepted connection that sends *)
(* every new sample to its client, and the SIGINT handler.                 *)
(*                                                                         *)
(* One action is one step between two points where another thread can be   *)
(* observed: taking a mutex is an action; what is done under it, with its  *)
(* release, is the next one (two for the ring, whose index moves before    *)
(* the slot is filled).  A blocked pthread_mutex_lock, select, write,      *)
(* pthread_join or pthread_cond_wait is an action that is not enabled.     *)
(***************************************************************************)
EXTENDS History, FiniteSets, Sequences

CONSTANTS
  Threads,      \* connection threads the process can create before pthread_create fails
  Conns,        \* the TCP connections clients make
  Main, Data,   \* the main thread and the data thread
  Nobody,       \* owner of a free mutex
  NoConn,       \* descriptor -1
  NoFrame,      \* nothing formatted, nothing sent
  MaxRounds,    \* bound: rounds of the data thread told apart
  WallClock,    \* what time(NULL) returns in each round
  MaxSignals,   \* bound: SIGINTs sent to the process
  FaultBudget   \* bound: calls of bind, accept and pthread_create that fail

Frame == [cur : Sample, prev : Sample]

(***************************************************************************)
(* The clock is any function of the round: it may stand still between two  *)
(* rounds, jump, or step back.                                             *)
(***************************************************************************)
ASSUME ServerAssumption ==
  /\ IsFiniteSet(Threads)
  /\ Main # Data /\ Nobody \notin {Main, Data}
  /\ {Main, Data, Nobody} \cap Threads = {}
  /\ NoConn \notin Conns
  /\ NoFrame \notin Frame
  /\ MaxRounds \in Nat /\ MaxSignals \in Nat /\ FaultBudget \in Nat
  /\ WallClock \in [0 .. MaxRounds -> Nat]

VARIABLES
  pc,           \* where each thread is
  owner,        \* who holds each mutex
  sleepers,     \* the threads asleep in pthread_cond_wait on each condition
  data_history, last_index,            \* the ring
  recorded,     \* history variable: every sample stored, oldest first
  lost,         \* history variable: calls of pthread_create that failed
  shuttingdown_flag, data_thread_shutdown_flag, active_thread_count,
  socketConnection,                    \* main's local: the descriptor just accepted
  thread_data,                         \* the malloc'ed int handed to each thread
  sockfd, content,                     \* locals of each connection thread
  conn,         \* the server's side of each connection
  peer,         \* the client's side of each connection
  stream,       \* the newest frame written to each connection, and if it was cut short
  round,        \* the second the data thread is in
  signals, faults                      \* environment budgets spent

ringVars  == <<data_history, last_index, recorded>>
flagVars  == <<shuttingdown_flag, data_thread_shutdown_flag>>
localVars == <<socketConnection, thread_data, sockfd, content>>
netVars   == <<conn, peer, stream>>
envVars   == <<round, signals, faults>>
syncVars  == <<owner, sleepers>>
countVars == <<active_thread_count, lost>>
memVars   == <<ringVars, flagVars, countVars, localVars>>

vars == <<pc, syncVars, memVars, netVars, envVars>>

Mutexes == {"info_mutex", "new_info_mutex", "active_thread_count_mutex"}
Conds   == {"new_info_cond", "active_thread_returned_cond"}

MainPC == {"init", "listen", "check", "select", "accept", "count_lock",
           "count_inc", "create", "close", "stop_data", "join", "drain_lock",
           "drain_test", "drain_info_lock", "drain_wake", "drain_wait",
           "drain_asleep", "drain_unlock", "exited", "failed"}
DataPC == {"none", "check", "time", "append_lock", "append_advance",
           "append_fill", "wake_lock", "wake", "sleep", "done"}
ConnPC == {"none", "start", "check", "wait_lock", "wait", "asleep",
           "info_lock", "read", "write", "close", "return_lock", "return",
           "done"}

Procs == Threads \cup {Main, Data}

TypeOK ==
  /\ pc \in [Procs -> MainPC \cup DataPC \cup ConnPC]
  /\ pc[Main] \in MainPC /\ pc[Data] \in DataPC
  /\ \A t \in Threads : pc[t] \in ConnPC
  /\ owner \in [Mutexes -> Procs \cup {Nobody}]
  /\ sleepers \in [Conds -> SUBSET Procs]
  /\ data_history \in [Slots -> Sample] /\ last_index \in Slots
  /\ recorded \in Seq(Sample)
  /\ shuttingdown_flag \in BOOLEAN /\ data_thread_shutdown_flag \in BOOLEAN
  /\ active_thread_count \in Int /\ lost \in Nat
  /\ socketConnection \in Conns \cup {NoConn}
  /\ thread_data \in [Threads -> Conns \cup {NoConn}]
  /\ sockfd \in [Threads -> Conns \cup {NoConn}]
  /\ content \in [Threads -> Frame \cup {NoFrame}]
  /\ conn \in [Conns -> {"idle", "pending", "accepted", "closed", "refused"}]
  /\ peer \in [Conns -> {"reading", "stalled", "left", "reset"}]
  /\ stream \in [Conns -> [last : Frame \cup {NoFrame}, cut : BOOLEAN]]
  /\ round \in 0 .. MaxRounds
  /\ signals \in 0 .. MaxSignals /\ faults \in 0 .. FaultBudget

Init ==
  /\ pc = [p \in Procs |-> IF p = Main THEN "init" ELSE "none"]
  /\ owner = [m \in Mutexes |-> Nobody]
  /\ sleepers = [c \in Conds |-> {}]
  /\ data_history = [i \in Slots |-> Unset] /\ last_index = MAX_HISTORY - 1
  /\ recorded = <<>>
  /\ shuttingdown_flag = FALSE /\ data_thread_shutdown_flag = FALSE
  /\ active_thread_count = 0 /\ lost = 0
  /\ socketConnection = NoConn
  /\ thread_data = [t \in Threads |-> NoConn]
  /\ sockfd = [t \in Threads |-> NoConn]
  /\ content = [t \in Threads |-> NoFrame]
  /\ conn = [c \in Conns |-> "idle"]
  /\ peer = [c \in Conns |-> "reading"]
  /\ stream = [c \in Conns |-> [last |-> NoFrame, cut |-> FALSE]]
  /\ round = 0 /\ signals = 0 /\ faults = 0

-----------------------------------------------------------------------------
(* Steps every thread takes.                                               *)

\* The process exists: returning from main, or exit(), ends every thread.
Running == pc[Main] \notin {"exited", "failed"}

Goes(p, from, to) == pc[p] = from /\ pc' = [pc EXCEPT ![p] = to]

\* A step that changes nothing but where p is.
Jump(p, from, to) ==
  Goes(p, from, to) /\ UNCHANGED <<syncVars, memVars, netVars, envVars>>

Acquire(p, m) == owner[m] = Nobody /\ owner' = [owner EXCEPT ![m] = p]
Release(m)    == owner' = [owner EXCEPT ![m] = Nobody]

\* pthread_mutex_lock
Lock(p, from, m, to) ==
  /\ Goes(p, from, to) /\ Acquire(p, m)
  /\ UNCHANGED <<sleepers, memVars, netVars, envVars>>

\* pthread_cond_wait releases the mutex and sleeps in one step.
Sleep(p, from, c, m, to) ==
  /\ Goes(p, from, to) /\ Release(m)
  /\ sleepers' = [sleepers EXCEPT ![c] = @ \cup {p}]
  /\ UNCHANGED <<memVars, netVars, envVars>>

\* pthread_cond_broadcast
WakeAll(c) == sleepers' = [sleepers EXCEPT ![c] = {}]

\* POSIX lets pthread_cond_wait return without a broadcast.
SpuriousWake(p, c) ==
  /\ p \in sleepers[c]
  /\ sleepers' = [sleepers EXCEPT ![c] = @ \ {p}]
  /\ UNCHANGED <<pc, owner, memVars, netVars, envVars>>

-----------------------------------------------------------------------------
(* The data thread: data_thread_main and the append_sysinfo it calls.      *)

\* Mutant: while (1)
DataCheckForever == Jump(Data, "check", "time")

\* while (data_thread_shutdown_flag == 0)
DataCheck ==
  Jump(Data, "check", IF data_thread_shutdown_flag THEN "done" ELSE "time")

\* Mutant: no test of the timestamp.
DataTimeUntested == Jump(Data, "time", "append_lock")

\* Mutant: only a new sample is worth a broadcast.
DataTimeQuiet ==
  Jump(Data, "time", IF WallClock[round] = data_history[last_index].timestamp
                       THEN "sleep" ELSE "append_lock")

\* append_sysinfo reads the clock and returns at once within the second of the
\* newest sample; otherwise it gathers the readings.  No mutex is held: the
\* data thread is the only writer of the ring.
DataTime ==
  Jump(Data, "time", IF WallClock[round] = data_history[last_index].timestamp
                       THEN "wake_lock" ELSE "append_lock")

\* Mutant: the writer does not take info_mutex.
DataAppendUnlocked == Jump(Data, "append_lock", "append_advance")

DataAppendLock == Lock(Data, "append_lock", "info_mutex", "append_advance")

DataAppendAdvance ==
  /\ Goes(Data, "append_advance", "append_fill")
  /\ last_index' = NextSlot(last_index)
  /\ UNCHANGED <<syncVars, data_history, recorded, flagVars,
                 countVars, localVars, netVars, envVars>>

DataAppendFill ==
  LET sample == [timestamp |-> WallClock[round], round |-> round] IN
  /\ Goes(Data, "append_fill", "wake_lock") /\ Release("info_mutex")
  /\ data_history' = [data_history EXCEPT ![last_index] = sample]
  /\ recorded' = Append(recorded, sample)
  /\ UNCHANGED <<sleepers, last_index, flagVars, countVars,
                 localVars, netVars, envVars>>

DataWakeLock == Lock(Data, "wake_lock", "new_info_mutex", "wake")

DataWake ==
  /\ Goes(Data, "wake", "sleep") /\ Release("new_info_mutex")
  /\ WakeAll("new_info_cond")
  /\ UNCHANGED <<memVars, netVars, envVars>>

\* sleep(1) runs out.  Rounds past MaxRounds are not told apart: the clock
\* then stands still, so nothing more is recorded.
DataSleep ==
  /\ Goes(Data, "sleep", "check")
  /\ round' = IF round < MaxRounds THEN round + 1 ELSE round
  /\ UNCHANGED <<syncVars, memVars, netVars, signals, faults>>

DataStep == /\ Running
            /\ \/ DataCheck \/ DataTime
               \/ DataAppendLock \/ DataAppendAdvance \/ DataAppendFill
               \/ DataWakeLock \/ DataWake \/ DataSleep

-----------------------------------------------------------------------------
(* A connection thread: connection_thread_main.                            *)

\* Mutant: the thread is handed a pointer to main's local.
ConnStartShared(t) ==
  /\ Goes(t, "start", "check")
  /\ sockfd' = [sockfd EXCEPT ![t] = socketConnection]
  /\ UNCHANGED <<syncVars, ringVars, flagVars, countVars,
                 socketConnection, thread_data, content, netVars, envVars>>

\* const int sockfd = *((int*)arg); free(arg)
ConnStart(t) ==
  /\ Goes(t, "start", "check")
  /\ sockfd' = [sockfd EXCEPT ![t] = thread_data[t]]
  /\ UNCHANGED <<syncVars, ringVars, flagVars, countVars,
                 socketConnection, thread_data, content, netVars, envVars>>

\* Mutant: while (1)
ConnCheckForever(t) == Jump(t, "check", "wait_lock")

\* while (!shuttingdown_flag), read without its mutex
ConnCheck(t) ==
  Jump(t, "check", IF shuttingdown_flag THEN "close" ELSE "wait_lock")

ConnWaitLock(t) == Lock(t, "wait_lock", "new_info_mutex", "wait")

ConnWait(t) == Sleep(t, "wait", "new_info_cond", "new_info_mutex", "asleep")

\* A woken thread takes the mutex again and gives it back: nothing happens in
\* between, so the two are one step that needs the mutex free.
ConnAwake(t) ==
  /\ t \notin sleepers["new_info_cond"] /\ owner["new_info_mutex"] = Nobody
  /\ Jump(t, "asleep", "info_lock")

ConnInfoLock(t) == Lock(t, "info_lock", "info_mutex", "read")

\* Mutant: the early continue keeps the mutex.
ConnReadKeepsLock(t) ==
  LET cur   == data_history[last_index]
      prev  == data_history[PrevSlot(last_index)]
      ready == IsSet(cur) /\ IsSet(prev)
  IN
  /\ Goes(t, "read", IF ready THEN "write" ELSE "check")
  /\ IF ready THEN Release("info_mutex") ELSE UNCHANGED owner
  /\ content' = IF ready
                  THEN [content EXCEPT ![t] = [cur |-> cur, prev |-> prev]]
                  ELSE content
  /\ UNCHANGED <<sleepers, ringVars, flagVars, countVars,
                 socketConnection, thread_data, sockfd, netVars, envVars>>

\* The newest sample and the one before it are formatted, if both are set;
\* either way the mutex is released.
ConnRead(t) ==
  LET cur   == data_history[last_index]
      prev  == data_history[PrevSlot(last_index)]
      ready == IsSet(cur) /\ IsSet(prev)
  IN
  /\ Goes(t, "read", IF ready THEN "write" ELSE "check")
  /\ Release("info_mutex")
  /\ content' = IF ready
                  THEN [content EXCEPT ![t] = [cur |-> cur, prev |-> prev]]
                  ELSE content
  /\ UNCHANGED <<sleepers, ringVars, flagVars, countVars,
                 socketConnection, thread_data, sockfd, netVars, envVars>>

\* write returns the whole length.  The kernel also takes the bytes of the
\* first write after the client closed, and answers with a reset.
ConnWrite(t) ==
  LET c == sockfd[t] IN
  /\ Goes(t, "write", "check")
  /\ c # NoConn /\ peer[c] \in {"reading", "left"}
  /\ stream' = [stream EXCEPT ![c] = [last |-> content[t], cut |-> @.cut]]
  /\ peer' = [peer EXCEPT ![c] = IF @ = "left" THEN "reset" ELSE @]
  /\ UNCHANGED <<syncVars, memVars, conn, envVars>>

\* Mutant: the result of write is not looked at.
ConnWriteUnchecked(t) ==
  /\ sockfd[t] # NoConn => peer[sockfd[t]] = "reset"
  /\ Jump(t, "write", "check")

\* if (ret < 0) break: SIGPIPE is ignored, so a reset is an error return, as
\* is writing to the descriptor -1 of a failed accept.
ConnWriteFails(t) ==
  /\ sockfd[t] # NoConn => peer[sockfd[t]] = "reset"
  /\ Jump(t, "write", "close")

\* close(sockfd); closing -1 changes nothing
ConnClose(t) ==
  /\ Goes(t, "close", "return_lock")
  /\ conn' = IF sockfd[t] = NoConn THEN conn
                                   ELSE [conn EXCEPT ![sockfd[t]] = "closed"]
  /\ UNCHANGED <<syncVars, memVars, peer, stream, envVars>>

ConnReturnLock(t) ==
  Lock(t, "return_lock", "active_thread_count_mutex", "return")

\* Mutant: the thread returns without a word.
ConnReturnUncounted(t) ==
  /\ Goes(t, "return", "done") /\ Release("active_thread_count_mutex")
  /\ UNCHANGED <<sleepers, memVars, netVars, envVars>>

ConnReturn(t) ==
  /\ Goes(t, "return", "done") /\ Release("active_thread_count_mutex")
  /\ active_thread_count' = active_thread_count - 1
  /\ WakeAll("active_thread_returned_cond")
  /\ UNCHANGED <<ringVars, flagVars, lost, localVars, netVars, envVars>>

ConnStep(t) == /\ Running
               /\ \/ ConnStart(t) \/ ConnCheck(t)
                  \/ ConnWaitLock(t) \/ ConnWait(t) \/ ConnAwake(t)
                  \/ ConnInfoLock(t) \/ ConnRead(t)
                  \/ ConnWrite(t) \/ ConnWriteFails(t)
                  \/ ConnClose(t) \/ ConnReturnLock(t) \/ ConnReturn(t)

-----------------------------------------------------------------------------
(* The main thread: main.                                                  *)

\* Clear the ring, pthread_create(data_thread_main), which is not looked at and taken to
\* succeed.
MainInit ==
  /\ pc[Main] = "init"
  /\ pc' = [pc EXCEPT ![Main] = "listen", ![Data] = "check"]
  /\ data_history' = [i \in Slots |-> Unset]
  /\ UNCHANGED <<syncVars, last_index, recorded, flagVars,
                 countVars, localVars, netVars, envVars>>

Fault == faults < FaultBudget /\ faults' = faults + 1

\* bsd_signal, socket, bind, listen; a failed bind exits.
MainListen ==
  /\ \/ Goes(Main, "listen", "check") /\ UNCHANGED faults
     \/ Goes(Main, "listen", "failed") /\ Fault
  /\ UNCHANGED <<syncVars, memVars, netVars, round, signals>>

\* Mutant: while (1)
MainCheckForever == Jump(Main, "check", "select")

\* while (!shuttingdown_flag)
MainCheck ==
  Jump(Main, "check", IF shuttingdown_flag THEN "close" ELSE "select")

Pending == {c \in Conns : conn[c] = "pending"}

\* select has no timeout: it returns for a connection, or (see SigInt) EINTR.
MainSelect ==
  Pending # {} /\ Jump(Main, "select", "accept")

\* A failed accept leaves the connection pending; its -1 is not checked.
MainAccept ==
  /\ Goes(Main, "accept", "count_lock")
  /\ \/ \E c \in Pending : /\ socketConnection' = c
                           /\ conn' = [conn EXCEPT ![c] = "accepted"]
                           /\ UNCHANGED faults
     \/ Fault /\ socketConnection' = NoConn /\ UNCHANGED conn
  /\ UNCHANGED <<syncVars, ringVars, flagVars, countVars,
                 thread_data, sockfd, content, peer, stream, round, signals>>

MainCountLock ==
  Lock(Main, "count_lock", "active_thread_count_mutex", "count_inc")

MainCountInc ==
  /\ Goes(Main, "count_inc", "create") /\ Release("active_thread_count_mutex")
  /\ active_thread_count' = active_thread_count + 1
  /\ UNCHANGED <<sleepers, ringVars, flagVars, lost, localVars, netVars,
                 envVars>>

\* No thread is ever joined or detached, so one that has returned keeps its
\* place in Threads.
Unused == {t \in Threads : pc[t] = "none"}

MainCreate ==
  /\ pc[Main] = "create"
  /\ \E t \in Unused :
       /\ pc' = [pc EXCEPT ![Main] = "check", ![t] = "start"]
       /\ thread_data' = [thread_data EXCEPT ![t] = socketConnection]
  /\ UNCHANGED <<syncVars, ringVars, flagVars, countVars,
                 socketConnection, sockfd, content, netVars, envVars>>

\* pthread_create fails, for want of threads or otherwise: nobody looks.
MainCreateFails ==
  /\ Goes(Main, "create", "check")
  /\ \/ Unused = {} /\ UNCHANGED faults
     \/ Fault
  /\ lost' = lost + 1
  /\ UNCHANGED <<syncVars, ringVars, flagVars, active_thread_count, localVars,
                 netVars, round, signals>>

\* Closing the listening socket resets the connections not yet accepted.
MainClose ==
  /\ Goes(Main, "close", "stop_data")
  /\ conn' = [c \in Conns |-> IF c \in Pending THEN "refused" ELSE conn[c]]
  /\ UNCHANGED <<syncVars, memVars, peer, stream, envVars>>

MainStopData ==
  /\ Goes(Main, "stop_data", "join")
  /\ data_thread_shutdown_flag' = TRUE
  /\ UNCHANGED <<syncVars, ringVars, shuttingdown_flag, countVars,
                 localVars, netVars, envVars>>

\* pthread_join(data_thread)
MainJoin ==
  pc[Data] = "done" /\ Jump(Main, "join", "drain_lock")

MainDrainLock ==
  Lock(Main, "drain_lock", "active_thread_count_mutex", "drain_test")

\* while (active_thread_count > 0)
MainDrainTest ==
  Jump(Main, "drain_test", IF active_thread_count > 0 THEN "drain_info_lock"
                                                      ELSE "drain_unlock")

MainDrainInfoLock ==
  Lock(Main, "drain_info_lock", "new_info_mutex", "drain_wake")

\* Mutant: main only waits for the threads.
MainDrainSilent ==
  /\ Goes(Main, "drain_wake", "drain_wait") /\ Release("new_info_mutex")
  /\ UNCHANGED <<sleepers, memVars, netVars, envVars>>

MainDrainWake ==
  /\ Goes(Main, "drain_wake", "drain_wait") /\ Release("new_info_mutex")
  /\ WakeAll("new_info_cond")
  /\ UNCHANGED <<memVars, netVars, envVars>>

MainDrainWait == Sleep(Main, "drain_wait", "active_thread_returned_cond",
                       "active_thread_count_mutex", "drain_asleep")

\* Mutant: if (active_thread_count > 0) in place of while.
MainDrainOnce ==
  /\ Main \notin sleepers["active_thread_returned_cond"]
  /\ Lock(Main, "drain_asleep", "active_thread_count_mutex", "drain_unlock")

MainDrainAwake ==
  /\ Main \notin sleepers["active_thread_returned_cond"]
  /\ Lock(Main, "drain_asleep", "active_thread_count_mutex", "drain_test")

\* Unlock and return 0 from main: the process ends.
MainReturn ==
  /\ Goes(Main, "drain_unlock", "exited")
  /\ Release("active_thread_count_mutex")
  /\ UNCHANGED <<sleepers, memVars, netVars, envVars>>

MainStep ==
  \/ MainInit \/ MainListen \/ MainCheck \/ MainSelect \/ MainAccept
  \/ MainCountLock \/ MainCountInc \/ MainCreate \/ MainCreateFails
  \/ MainClose \/ MainStopData \/ MainJoin
  \/ MainDrainLock \/ MainDrainTest \/ MainDrainInfoLock \/ MainDrainWake
  \/ MainDrainWait \/ MainDrainAwake \/ MainReturn

-----------------------------------------------------------------------------
(* SIGINT.  The kernel may run sig_handler in any thread of the process.   *)

Alive(p) == pc[p] \notin {"none", "done", "init", "listen"}

\* sig_handler: the test and set of the flag is one step, since only handlers
\* take shuttingdown_flag_mutex.  Of the calls a thread may be blocked in,
\* select and sleep return early; a write that has moved some bytes returns
\* that count, one that has moved none is restarted (bsd_signal sets
\* SA_RESTART), as are the others.
SigInt(p) ==
  /\ Running /\ Alive(Main) /\ Alive(p)
  /\ signals < MaxSignals /\ signals' = signals + 1
  /\ shuttingdown_flag' = TRUE
  /\ IF \/ p = Main /\ pc[p] = "select"
        \/ p = Data /\ pc[p] = "sleep"
       THEN pc' = [pc EXCEPT ![p] = "check"] ELSE UNCHANGED pc
  /\ UNCHANGED <<syncVars, ringVars, data_thread_shutdown_flag,
                 countVars, localVars, netVars, round, faults>>

SigIntCutsWrite(t) ==
  /\ Running
  /\ signals < MaxSignals /\ signals' = signals + 1
  /\ shuttingdown_flag' = TRUE
  /\ Goes(t, "write", "check")
  /\ sockfd[t] # NoConn /\ peer[sockfd[t]] \in {"reading", "stalled"}
  /\ stream' = [stream EXCEPT ![sockfd[t]] = [last |-> content[t], cut |-> TRUE]]
  /\ UNCHANGED <<syncVars, ringVars, data_thread_shutdown_flag,
                 countVars, localVars, conn, peer, round, faults>>

-----------------------------------------------------------------------------
(* Clients, as the server's sockets show them.                             *)

Listening == pc[Main] \in {"check", "select", "accept", "count_lock",
                           "count_inc", "create", "close"}

ClientConnect(c) ==
  /\ Listening /\ conn[c] = "idle"
  /\ conn' = [conn EXCEPT ![c] = "pending"]
  /\ UNCHANGED <<pc, syncVars, memVars, peer, stream, envVars>>

\* A client that stops reading fills the socket's buffer and blocks write; one
\* that leaves with unread data resets the connection at once.
ClientStep(c) ==
  /\ conn[c] \in {"pending", "accepted"}
  /\ \E next \in {"reading", "stalled", "left", "reset"} :
       /\ <<peer[c], next>> \in {<<"reading", "stalled">>, <<"stalled", "reading">>,
                                 <<"reading", "left">>, <<"stalled", "reset">>}
       /\ peer' = [peer EXCEPT ![c] = next]
  /\ UNCHANGED <<pc, syncVars, memVars, conn, stream, envVars>>

Environment ==
  \/ \E p \in Procs : SigInt(p)
  \/ \E t \in Threads : SigIntCutsWrite(t)
  \/ \E c \in Conns : ClientConnect(c) \/ ClientStep(c)
  \/ \E t \in Threads : Running /\ SpuriousWake(t, "new_info_cond")
  \/ Running /\ SpuriousWake(Main, "active_thread_returned_cond")

Next == \/ MainStep \/ DataStep
        \/ \E t \in Threads : ConnStep(t)
        \/ Environment

Spec == Init /\ [][Next]_vars

=============================================================================
