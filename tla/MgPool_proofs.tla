---------------------------- MODULE MgPool_proofs ----------------------------
(***************************************************************************)
(* Proofs about the thread pool of MgPool, for every number of workers,    *)
(* every length of the queue, every number of connections and failures.    *)
(***************************************************************************)
EXTENDS MgPoolProperties, FiniteSetTheorems, SequenceTheorems, TLAPS

(***************************************************************************)
(* The two indices stay between 0 and twice the length of the ring, where  *)
(* a slot is the index itself or the index less one turn.                  *)
(***************************************************************************)
LEMMA SlotOf ==
  ASSUME NEW i \in 0 .. 2 * QueueSize - 1
  PROVE  /\ i % QueueSize = IF i < QueueSize THEN i ELSE i - QueueSize
         /\ i % QueueSize \in Slots
<1> USE PoolAssumption
<1> DEFINE r == i % QueueSize
           q == i \div QueueSize
<1>1. r \in 0 .. QueueSize - 1 /\ q \in Int /\ i = QueueSize * q + r
  OBVIOUS
<1>2. q = 0 \/ q = 1
  BY <1>1
<1> QED
  BY <1>1, <1>2 DEF Slots

-----------------------------------------------------------------------------
(* Type correctness.                                                       *)

\* Master takes up only connections that there are.
TypeInv == TypeOK /\ (pc[Master] \in {"ready", "accept"} => accepted < MaxSockets)

LEMMA InitTypeInv == Init => TypeInv
<1> SUFFICES ASSUME Init PROVE TypeInv
  OBVIOUS
<1> USE PoolAssumption DEF Init, Procs
<1>1. /\ pc \in [Procs -> AppPC \cup MasterPC \cup WorkerPC]
      /\ pc[App] \in AppPC /\ pc[Master] \in MasterPC
      /\ \A w \in Workers : pc[w] \in WorkerPC
      /\ pc[Master] = "none"
  BY DEF AppPC, MasterPC, WorkerPC
<1>2. owner \in Procs \cup {Nobody} /\ sleepers \in [Conds -> SUBSET Procs]
  OBVIOUS
<1>3. stop_flag \in 0 .. 2 /\ num_threads \in Int /\ readCount \in [Procs -> Int]
  OBVIOUS
<1>4. listening \in BOOLEAN /\ freed \in BOOLEAN
  BY Zenon
<1>5. /\ queue \in [Slots -> Sockets \cup {NoSocket}]
      /\ sq_tail \in 0 .. QueueSize /\ sq_head \in sq_tail .. sq_tail + QueueSize
  OBVIOUS
<1>6. /\ so \in Sockets \cup {NoSocket} /\ client \in [Workers -> Sockets \cup {NoSocket}]
      /\ accepted \in 0 .. MaxSockets
      /\ sock \in [Sockets -> {"new", "open", "closed", "leaked"}]
      /\ faults \in 0 .. FaultBudget /\ starved \in SUBSET Procs
  OBVIOUS
<1> HIDE DEF Init, Procs
<1> QED
  BY <1>1, <1>2, <1>3, <1>4, <1>5, <1>6, Zenon DEF TypeInv, TypeOK

LEMMA AppTypeInv == ASSUME TypeInv, AppStep PROVE TypeInv'
<1> USE PoolAssumption DEF TypeInv, TypeOK, Procs, Goes, Jump, Fault, syncVars, ringVars,
        countVars, connVars, lifeVars, faultVars, AppPC, MasterPC, WorkerPC
<1>1. CASE AppStartMaster  BY <1>1 DEF AppStartMaster
<1>2. CASE AppStartWorker  BY <1>2 DEF AppStartWorker, Unstarted
<1>3. CASE AppStarted      BY <1>3 DEF AppStarted
<1>4. CASE CountRead(App)  BY <1>4 DEF CountRead
<1>5. CASE AppCountWrite   BY <1>5 DEF AppCountWrite
<1>6. CASE AppStop         BY <1>6 DEF AppStop
<1>7. CASE AppStopSees     BY <1>7 DEF AppStopSees
<1>8. CASE AppFree         BY <1>8 DEF AppFree
<1> QED
  BY <1>1, <1>2, <1>3, <1>4, <1>5, <1>6, <1>7, <1>8 DEF AppStep

LEMMA SignalType ==
  ASSUME TypeOK, NEW c \in Conds, Signal(c)
  PROVE  sleepers' \in [Conds -> SUBSET Procs]
BY DEF TypeOK, Signal

LEMMA MasterTypeInv == ASSUME TypeInv, MasterStep PROVE TypeInv'
<1> USE PoolAssumption DEF TypeInv, TypeOK, Procs, Goes, Jump, Lock, Sleep, Awake, Fault,
        Conds, syncVars, ringVars, countVars, connVars, lifeVars, faultVars, AppPC,
        MasterPC, WorkerPC
<1>1. CASE MasterStart     BY <1>1 DEF MasterStart
<1>2. CASE MasterCheck     BY <1>2 DEF MasterCheck
<1>3. CASE MasterPoll      BY <1>3 DEF MasterPoll
<1>4. CASE MasterReady     BY <1>4 DEF MasterReady
<1>5. CASE MasterAccept
  <2>1. accepted' = accepted + 1 /\ accepted' \in 0 .. MaxSockets
    BY <1>5 DEF MasterAccept
  <2>2. accepted + 1 \in Sockets
    BY <1>5 DEF MasterAccept, Sockets
  <2>3. CASE accepted + 1 \in Denied
    BY <1>5, <2>1, <2>2, <2>3 DEF MasterAccept
  <2>4. CASE accepted + 1 \notin Denied
    BY <1>5, <2>1, <2>2, <2>4 DEF MasterAccept
  <2> QED
    BY <2>3, <2>4
<1>6. CASE MasterLock      BY <1>6 DEF MasterLock
<1>7. CASE ProduceTest     BY <1>7 DEF ProduceTest
<1>8. CASE ProduceWait     BY <1>8 DEF ProduceWait
<1>9. CASE ProduceAwake    BY <1>9 DEF ProduceAwake
<1>10. CASE ProducePut
  <2>1. sq_head' \in sq_tail .. sq_tail + QueueSize /\ UNCHANGED sq_tail
    BY <1>10 DEF ProducePut, Full
  <2>2. sleepers' \in [Conds -> SUBSET Procs]
    BY <1>10, SignalType DEF ProducePut
  <2>3. queue' \in [Slots -> Sockets \cup {NoSocket}]
    BY <1>10 DEF ProducePut
  <2> QED
    BY <1>10, <2>1, <2>2, <2>3 DEF ProducePut
<1>11. CASE ProduceForgets  BY <1>11, SignalType DEF ProduceForgets
<1>12. CASE MasterClose    BY <1>12 DEF MasterClose
<1>13. CASE MasterBroadcast  BY <1>13 DEF MasterBroadcast
<1>14. CASE MasterJoinLock  BY <1>14 DEF MasterJoinLock
<1>15. CASE MasterJoinWait  BY <1>15 DEF MasterJoinWait
<1>16. CASE MasterJoinAwake  BY <1>16 DEF MasterJoinAwake
<1>17. CASE MasterJoined   BY <1>17 DEF MasterJoined
<1>18. CASE MasterFinish   BY <1>18 DEF MasterFinish
<1> QED
  BY <1>1, <1>2, <1>3, <1>4, <1>5, <1>6, <1>7, <1>8, <1>9, <1>10, <1>11, <1>12,
     <1>13, <1>14, <1>15, <1>16, <1>17, <1>18 DEF MasterStep

LEMMA WorkerTypeInv == ASSUME TypeInv, NEW w \in Workers, WorkerStep(w) PROVE TypeInv'
<1> USE PoolAssumption DEF TypeInv, TypeOK, Procs, Goes, Jump, Lock, Sleep, Awake, Fault,
        Conds, syncVars, ringVars, countVars, connVars, lifeVars, faultVars, AppPC,
        MasterPC, WorkerPC
<1>1. CASE WorkerStart(w)   BY <1>1 DEF WorkerStart
<1>2. CASE WorkerLock(w)    BY <1>2 DEF WorkerLock
<1>3. CASE ConsumeTest(w)   BY <1>3 DEF ConsumeTest
<1>4. CASE ConsumeWait(w)   BY <1>4 DEF ConsumeWait
<1>5. CASE ConsumeAwake(w)  BY <1>5 DEF ConsumeAwake
<1>6. CASE ConsumeTake(w)
  <2>1. sq_tail \in 0 .. 2 * QueueSize - 1 /\ queue[sq_tail % QueueSize] \in Sockets \cup {NoSocket}
    BY SlotOf
  <2>2. sq_tail' \in 0 .. QueueSize /\ sq_head' \in sq_tail' .. sq_tail' + QueueSize
    BY <1>6 DEF ConsumeTake, Wrap
  <2> QED
    BY <1>6, <2>1, <2>2, SignalType DEF ConsumeTake
<1>7. CASE ConsumeNothing(w)  BY <1>7, SignalType DEF ConsumeNothing
<1>8. CASE WorkerReturns(w)   BY <1>8 DEF WorkerReturns
<1>9. CASE WorkerServes(w)    BY <1>9 DEF WorkerServes
<1>10. CASE WorkerExitLock(w)  BY <1>10 DEF WorkerExitLock
<1>11. CASE CountRead(w)      BY <1>11 DEF CountRead
<1>12. CASE WorkerExits(w)    BY <1>12, SignalType DEF WorkerExits
<1> QED
  BY <1>1, <1>2, <1>3, <1>4, <1>5, <1>6, <1>7, <1>8, <1>9, <1>10, <1>11, <1>12
  DEF WorkerStep

LEMMA StepTypeInv == TypeInv /\ [Next]_vars => TypeInv'
<1> SUFFICES ASSUME TypeInv, [Next]_vars PROVE TypeInv'
  OBVIOUS
<1>1. ASSUME NEW p \in Procs, NEW c \in Conds, SpuriousWake(p, c) PROVE TypeInv'
  BY <1>1 DEF TypeInv, TypeOK, SpuriousWake, ringVars, countVars, connVars, lifeVars, faultVars
<1>2. CASE UNCHANGED vars
  BY <1>2 DEF TypeInv, TypeOK, vars, syncVars, ringVars, countVars, connVars, lifeVars, faultVars
<1> QED
  BY <1>1, <1>2, AppTypeInv, MasterTypeInv, WorkerTypeInv DEF Next

LEMMA TypeInvariant == Spec => []TypeInv
<1> QED
  BY InitTypeInv, StepTypeInv, PTL DEF Spec

(***************************************************************************)
(* The two indices stay within one turn of each other, and everything else *)
(* has its type: no connection beyond the bound is numbered.               *)
(***************************************************************************)
THEOREM TypeCorrect == Spec => []TypeOK
<1>1. TypeInv => TypeOK
  BY DEF TypeInv
<1> QED
  BY <1>1, TypeInvariant, PTL

-----------------------------------------------------------------------------
(* The ring.                                                               *)

Waiting == sq_tail .. sq_head - 1
At(i)   == queue[i % QueueSize]

LEMMA SlotsDiffer ==
  ASSUME TypeOK, NEW i \in sq_tail .. sq_tail + QueueSize - 1,
         NEW j \in sq_tail .. sq_tail + QueueSize - 1, i # j
  PROVE  /\ i % QueueSize \in Slots /\ i % QueueSize # j % QueueSize
<1>1. i \in 0 .. 2 * QueueSize - 1 /\ j \in 0 .. 2 * QueueSize - 1
  BY PoolAssumption DEF TypeOK
<1>2. PICK a \in Slots : a = i % QueueSize /\ a \in {i, i - QueueSize}
  BY <1>1, SlotOf
<1>3. PICK b \in Slots : b = j % QueueSize /\ b \in {j, j - QueueSize}
  BY <1>1, SlotOf
<1>4. a # b
  BY <1>2, <1>3, PoolAssumption DEF TypeOK, Slots
<1> QED
  BY <1>2, <1>3, <1>4

\* What is put in the ring comes behind what was there, which stays where it is.
LEMMA RingAfterPut ==
  ASSUME TypeOK, ProducePut
  PROVE  /\ sq_head \notin Waiting /\ Waiting' = Waiting \cup {sq_head}
         /\ \A i \in Waiting' : At(i)' = IF i = sq_head THEN so ELSE At(i)
<1> USE PoolAssumption DEF TypeOK
<1>1. /\ sq_head < sq_tail + QueueSize /\ sq_head' = sq_head + 1 /\ sq_tail' = sq_tail
      /\ queue' = [queue EXCEPT ![sq_head % QueueSize] = so]
  BY DEF ProducePut, Full
<1>2. sq_head \notin Waiting /\ Waiting' = Waiting \cup {sq_head}
  BY <1>1 DEF Waiting
<1>3. sq_head \in 0 .. 2 * QueueSize - 1
  BY <1>1
<1>4. queue'[sq_head % QueueSize] = so
  BY <1>1, <1>3, SlotOf
<1>5. ASSUME NEW i \in Waiting PROVE queue'[i % QueueSize] = queue[i % QueueSize]
  <2>1. i \in sq_tail .. sq_tail + QueueSize - 1 /\ i # sq_head
    BY <1>1 DEF Waiting
  <2>2. sq_head \in sq_tail .. sq_tail + QueueSize - 1
    BY <1>1
  <2>3. i % QueueSize \in Slots /\ i % QueueSize # sq_head % QueueSize
    BY <2>1, <2>2, SlotsDiffer
  <2> QED
    BY <1>1, <2>3
<1> QED
  BY <1>2, <1>4, <1>5, Zenon DEF At

\* The oldest is taken out; when that makes the indices wrap, they do so together.
LEMMA RingAfterTake ==
  ASSUME TypeOK, NEW w \in Workers, ConsumeTake(w)
  PROVE  \E d \in {0, QueueSize} :
           /\ sq_tail' = sq_tail + 1 - d /\ sq_head' = sq_head - d
           /\ sq_tail \in Waiting
           /\ \A i \in Waiting : i # sq_tail => i - d \in Waiting' /\ At(i - d)' = At(i)
           /\ \A i \in Waiting' : /\ i + d \in Waiting /\ i + d # sq_tail
                                  /\ At(i)' = At(i + d)
<1> USE PoolAssumption DEF TypeOK
<1>1. PICK d \in {0, QueueSize} :
        /\ sq_tail' = sq_tail + 1 - d /\ sq_head' = sq_head - d
        /\ d = QueueSize => sq_tail = QueueSize
        /\ sq_head > sq_tail
  BY DEF ConsumeTake, Wrap
<1>2. queue' = queue
  BY DEF ConsumeTake
<1>3. ASSUME NEW i \in Waiting, i # sq_tail
      PROVE  i - d \in Waiting' /\ (i - d) % QueueSize = i % QueueSize
  <2>1. i - d \in Waiting'
    BY <1>1, <1>3 DEF Waiting
  <2>2. CASE d = 0
    BY <2>1, <2>2 DEF Waiting
  <2>3. CASE d = QueueSize
    <3>1. i \in 0 .. 2 * QueueSize - 1 /\ i - d \in 0 .. 2 * QueueSize - 1 /\ i > QueueSize
      BY <1>1, <1>3, <2>3 DEF Waiting
    <3>2. i % QueueSize = i - QueueSize
      BY <3>1, SlotOf
    <3>3. (i - d) % QueueSize = i - d
      BY <3>1, <2>3, SlotOf
    <3> QED
      BY <2>1, <2>3, <3>2, <3>3
  <2> QED
    BY <2>2, <2>3
<1>4. ASSUME NEW i \in Waiting'
      PROVE  i + d \in Waiting /\ i + d # sq_tail /\ (i + d) - d = i
  BY <1>1 DEF Waiting
<1>5. sq_tail \in Waiting
  BY <1>1 DEF Waiting
<1>6. ASSUME NEW i \in Waiting, i # sq_tail PROVE At(i - d)' = At(i)
  BY <1>2, <1>3, <1>6 DEF At
<1>7. ASSUME NEW i \in Waiting' PROVE At(i)' = At(i + d)
  BY <1>2, <1>3, <1>4 DEF At
<1> QED
  BY <1>1, <1>3, <1>4, <1>5, <1>6, <1>7

-----------------------------------------------------------------------------
(* Who has a connection.                                                   *)

\* Master and the workers have a connection only between taking it up and handing
\* it on, and the connections are numbered as they come.
HandsInv ==
  /\ pc[App] = "start_master" => pc[Master] = "none"
  /\ so # NoSocket <=> pc[Master] \in {"lock", "produce", "wait", "asleep"}
  /\ \A w \in Workers : client[w] # NoSocket => pc[w] \in {"taken", "serve"}
  /\ \A s \in Sockets : sock[s] = "new" <=> s > accepted

\* Whoever has a connection has an open one that nobody else has, and every open
\* one is had by somebody.
OnceInv ==
  /\ \A i \in Waiting : At(i) \in Sockets /\ sock[At(i)] = "open" /\ At(i) # so
  /\ \A i, j \in Waiting : At(i) = At(j) => i = j
  /\ so # NoSocket => sock[so] = "open"
  /\ \A w \in Workers : client[w] # NoSocket =>
       /\ sock[client[w]] = "open" /\ client[w] # so
       /\ \A i \in Waiting : At(i) # client[w]
  /\ \A v, w \in Workers : client[v] # NoSocket /\ client[v] = client[w] => v = w
  /\ \A s \in Sockets : sock[s] = "open" =>
       so = s \/ (\E i \in Waiting : At(i) = s) \/ \E w \in Workers : client[w] = s

SocketInv == TypeInv /\ HandsInv /\ OnceInv

LEMMA InitSocketInv == Init => SocketInv
<1> SUFFICES ASSUME Init PROVE SocketInv
  OBVIOUS
<1>1. TypeInv
  BY InitTypeInv
<1>2. HandsInv
  BY PoolAssumption DEF Init, HandsInv, Procs, Sockets
<1>3. Waiting = {}
  BY DEF Init, Waiting
<1>4. OnceInv
  BY <1>3, PoolAssumption DEF Init, OnceInv
<1> QED
  BY <1>1, <1>2, <1>4 DEF SocketInv

\* The steps of the application's thread hand no connection on.
LEMMA AppHands ==
  ASSUME TypeInv, HandsInv, AppStep
  PROVE  HandsInv' /\ UNCHANGED <<ringVars, connVars>>
<1> USE PoolAssumption DEF TypeInv, TypeOK, HandsInv, Procs, Goes, Jump, Fault, syncVars,
        ringVars, connVars, lifeVars, faultVars
<1>1. CASE AppStartMaster  BY <1>1 DEF AppStartMaster
<1>2. CASE AppStartWorker
  <2>1. PICK w \in Unstarted :
          pc' = [pc EXCEPT ![App] = "count_read", ![w] = "start"] \/ UNCHANGED pc
    BY <1>2 DEF AppStartWorker
  <2>2. UNCHANGED <<ringVars, connVars>>
    BY <1>2 DEF AppStartWorker
  <2> QED
    BY <2>1, <2>2 DEF Unstarted
<1>3. CASE AppStarted      BY <1>3 DEF AppStarted
<1>4. CASE CountRead(App)  BY <1>4 DEF CountRead
<1>5. CASE AppCountWrite   BY <1>5 DEF AppCountWrite
<1>6. CASE AppStop         BY <1>6 DEF AppStop
<1>7. CASE AppStopSees     BY <1>7 DEF AppStopSees
<1>8. CASE AppFree         BY <1>8 DEF AppFree
<1> QED
  BY <1>1, <1>2, <1>3, <1>4, <1>5, <1>6, <1>7, <1>8 DEF AppStep

\* Nor do those of master that leave the connections alone.
MasterMoves == MasterAccept \/ ProducePut \/ ProduceForgets

LEMMA MasterHands ==
  ASSUME TypeInv, HandsInv, OnceInv, MasterStep
  PROVE  HandsInv' /\ (~ MasterMoves => UNCHANGED <<ringVars, connVars>>)
<1> USE PoolAssumption DEF TypeInv, TypeOK, HandsInv, MasterMoves, Procs, Goes, Jump, Lock,
        Sleep, Awake, Fault, syncVars, ringVars, connVars, lifeVars, faultVars
<1>1. CASE MasterStart     BY <1>1 DEF MasterStart
<1>2. CASE MasterCheck     BY <1>2 DEF MasterCheck
<1>3. CASE MasterPoll      BY <1>3 DEF MasterPoll
<1>4. CASE MasterReady     BY <1>4 DEF MasterReady
<1>5. CASE MasterAccept
  <2>1. accepted + 1 \in Sockets /\ accepted' = accepted + 1 /\ UNCHANGED client
    BY <1>5 DEF MasterAccept, Sockets
  <2>2. CASE accepted + 1 \in Denied
    BY <1>5, <2>1, <2>2 DEF MasterAccept, Sockets
  <2>3. CASE accepted + 1 \notin Denied
    BY <1>5, <2>1, <2>3 DEF MasterAccept, Sockets
  <2> QED
    BY <2>2, <2>3
<1>6. CASE MasterLock      BY <1>6 DEF MasterLock
<1>7. CASE ProduceTest     BY <1>7 DEF ProduceTest
<1>8. CASE ProduceWait     BY <1>8 DEF ProduceWait
<1>9. CASE ProduceAwake    BY <1>9 DEF ProduceAwake
<1>10. CASE ProducePut     BY <1>10 DEF ProducePut
<1>11. CASE ProduceForgets
  <2>1. /\ so \in Sockets /\ sock' = [sock EXCEPT ![so] = "leaked"]
        /\ so' = NoSocket /\ pc' = [pc EXCEPT ![Master] = "check"]
        /\ UNCHANGED <<client, accepted>>
    BY <1>11 DEF ProduceForgets
  <2>2. sock[so] = "open"
    BY <2>1, PoolAssumption DEF OnceInv, Sockets
  <2>3. \A s \in Sockets : sock'[s] = "new" <=> sock[s] = "new"
    BY <2>1, <2>2
  <2>4. pc[Master] = "produce"
    BY <1>11 DEF ProduceForgets
  <2>5. HandsInv'
    BY <2>1, <2>3, <2>4
  <2> QED
    BY <1>11, <2>5, Zenon DEF MasterMoves
<1>12. CASE MasterClose    BY <1>12 DEF MasterClose
<1>13. CASE MasterBroadcast  BY <1>13 DEF MasterBroadcast
<1>14. CASE MasterJoinLock  BY <1>14 DEF MasterJoinLock
<1>15. CASE MasterJoinWait  BY <1>15 DEF MasterJoinWait
<1>16. CASE MasterJoinAwake  BY <1>16 DEF MasterJoinAwake
<1>17. CASE MasterJoined   BY <1>17 DEF MasterJoined
<1>18. CASE MasterFinish   BY <1>18 DEF MasterFinish
<1> QED
  BY <1>1, <1>2, <1>3, <1>4, <1>5, <1>6, <1>7, <1>8, <1>9, <1>10, <1>11, <1>12,
     <1>13, <1>14, <1>15, <1>16, <1>17, <1>18 DEF MasterStep

WorkerMoves(w) == ConsumeTake(w) \/ WorkerReturns(w) \/ WorkerServes(w)

LEMMA WorkerHands ==
  ASSUME TypeInv, HandsInv, OnceInv, NEW w \in Workers, WorkerStep(w)
  PROVE  HandsInv' /\ (~ WorkerMoves(w) => UNCHANGED <<ringVars, connVars>>)
<1> USE PoolAssumption DEF TypeInv, TypeOK, HandsInv, WorkerMoves, Procs, Goes, Jump, Lock,
        Sleep, Awake, Fault, syncVars, ringVars, connVars, lifeVars, faultVars
<1>1. CASE WorkerStart(w)   BY <1>1 DEF WorkerStart
<1>2. CASE WorkerLock(w)    BY <1>2 DEF WorkerLock
<1>3. CASE ConsumeTest(w)   BY <1>3 DEF ConsumeTest
<1>4. CASE ConsumeWait(w)   BY <1>4 DEF ConsumeWait
<1>5. CASE ConsumeAwake(w)  BY <1>5 DEF ConsumeAwake
<1>6. CASE ConsumeTake(w)
  <2>1. /\ client' = [client EXCEPT ![w] = queue[sq_tail % QueueSize]]
        /\ pc[w] = "consume" /\ pc' = [pc EXCEPT ![w] = "taken"]
        /\ UNCHANGED <<so, sock, accepted>>
    BY <1>6 DEF ConsumeTake
  <2> QED
    BY <1>6, <2>1
<1>7. CASE ConsumeNothing(w)  BY <1>7 DEF ConsumeNothing
<1>8. CASE WorkerReturns(w)
  <2>1. CASE stop_flag = 0
    BY <1>8, <2>1 DEF WorkerReturns
  <2>2. CASE stop_flag # 0
    <3>1. /\ pc[w] = "taken" /\ pc' = [pc EXCEPT ![w] = "exit_lock"]
          /\ client' = [client EXCEPT ![w] = NoSocket] /\ UNCHANGED <<so, accepted>>
          /\ sock' = IF client[w] = NoSocket THEN sock
                     ELSE [sock EXCEPT ![client[w]] = "leaked"]
      BY <1>8, <2>2 DEF WorkerReturns
    <3>2. \A s \in Sockets : sock'[s] = "new" <=> sock[s] = "new"
      BY <3>1 DEF OnceInv
    <3> QED
      BY <1>8, <3>1, <3>2
  <2> QED
    BY <2>1, <2>2
<1>9. CASE WorkerServes(w)
  <2>1. /\ pc[w] = "serve" /\ pc' = [pc EXCEPT ![w] = "lock"]
        /\ client' = [client EXCEPT ![w] = NoSocket] /\ UNCHANGED <<so, accepted>>
        /\ sock' = [sock EXCEPT ![client[w]] = "closed"]
    BY <1>9 DEF WorkerServes
  <2>2. \A s \in Sockets : sock'[s] = "new" <=> sock[s] = "new"
    BY <2>1 DEF OnceInv, Sockets
  <2> QED
    BY <1>9, <2>1, <2>2
<1>10. CASE WorkerExitLock(w)  BY <1>10 DEF WorkerExitLock
<1>11. CASE CountRead(w)      BY <1>11 DEF CountRead
<1>12. CASE WorkerExits(w)    BY <1>12 DEF WorkerExits
<1> QED
  BY <1>1, <1>2, <1>3, <1>4, <1>5, <1>6, <1>7, <1>8, <1>9, <1>10, <1>11, <1>12
  DEF WorkerStep

\* Where nothing moves, everybody keeps what it has.
LEMMA OnceStays ==
  ASSUME OnceInv, UNCHANGED <<ringVars, connVars>>
  PROVE  OnceInv'
BY DEF OnceInv, Waiting, At, ringVars, connVars

\* The next connection is new, so nobody has it.
LEMMA AcceptOnce ==
  ASSUME SocketInv, MasterAccept
  PROVE  OnceInv'
<1> USE PoolAssumption DEF SocketInv, TypeInv, TypeOK, HandsInv
<1> DEFINE s == accepted + 1
<1>1. s \in Sockets /\ s # NoSocket /\ sock[s] = "new" /\ so = NoSocket
  BY DEF MasterAccept, Sockets
<1>2. UNCHANGED <<ringVars, client>>
  BY DEF MasterAccept
<1>3. Waiting' = Waiting /\ \A i \in Waiting : At(i)' = At(i)
  BY <1>2 DEF Waiting, At, ringVars
<1>4. CASE s \in Denied
  <2>1. sock' = [sock EXCEPT ![s] = "closed"] /\ so' = so
    BY <1>4 DEF MasterAccept
  <2> QED
    BY <1>1, <1>2, <1>3, <2>1 DEF OnceInv
<1>5. CASE s \notin Denied
  <2>1. sock' = [sock EXCEPT ![s] = "open"] /\ so' = s /\ client' = client
    BY <1>2, <1>5 DEF MasterAccept
  <2>2. \A i \in Waiting : At(i) # s
    BY <1>1 DEF OnceInv
  <2>3. \A w \in Workers : client[w] # s
    BY <1>1 DEF OnceInv
  <2>4. sock'[s] = "open" /\ \A t \in Sockets : t # s => sock'[t] = sock[t]
    BY <1>1, <2>1
  <2>5. \A w \in Workers : client[w] # NoSocket => sock'[client[w]] = "open"
    BY <2>3, <2>4 DEF OnceInv
  <2>6. \A i \in Waiting : At(i) \in Sockets /\ sock'[At(i)] = "open"
    BY <2>2, <2>4 DEF OnceInv
  <2>7. \A t \in Sockets : sock'[t] = "open" =>
          s = t \/ (\E i \in Waiting : At(i) = t) \/ \E w \in Workers : client[w] = t
    BY <1>1, <2>4 DEF OnceInv, Sockets
  <2> QED
    BY <1>1, <1>3, <2>1, <2>2, <2>3, <2>4, <2>5, <2>6, <2>7 DEF OnceInv
<1> QED
  BY <1>4, <1>5

\* Master's connection goes to the end of the ring.
LEMMA PutOnce ==
  ASSUME SocketInv, ProducePut
  PROVE  OnceInv'
<1> USE PoolAssumption DEF SocketInv, TypeInv, TypeOK, HandsInv
<1>1. /\ sq_head \notin Waiting /\ Waiting' = Waiting \cup {sq_head}
      /\ \A i \in Waiting' : At(i)' = IF i = sq_head THEN so ELSE At(i)
  BY RingAfterPut
<1>2. so \in Sockets /\ so # NoSocket /\ so' = NoSocket /\ UNCHANGED <<sock, client>>
  BY DEF ProducePut, Goes, Sockets
<1>3. NoSocket \notin Sockets
  BY DEF Sockets
<1> QED
  BY <1>1, <1>2, <1>3 DEF OnceInv

\* Master's connection is forgotten.
LEMMA ForgetOnce ==
  ASSUME SocketInv, ProduceForgets
  PROVE  OnceInv'
<1> USE PoolAssumption DEF SocketInv, TypeInv, TypeOK, HandsInv
<1>1. /\ so \in Sockets /\ so # NoSocket /\ so' = NoSocket
      /\ sock' = [sock EXCEPT ![so] = "leaked"] /\ UNCHANGED <<ringVars, client>>
  BY DEF ProduceForgets, Goes, Sockets
<1>2. Waiting' = Waiting /\ \A i \in Waiting : At(i)' = At(i)
  BY <1>1 DEF Waiting, At, ringVars
<1>3. NoSocket \notin Sockets
  BY DEF Sockets
<1> QED
  BY <1>1, <1>2, <1>3 DEF OnceInv

\* The oldest of the ring goes to the worker.
LEMMA TakeOnce ==
  ASSUME SocketInv, NEW w \in Workers, ConsumeTake(w)
  PROVE  OnceInv'
<1> USE PoolAssumption DEF SocketInv, TypeInv, TypeOK, HandsInv
<1>1. PICK d \in {0, QueueSize} :
        /\ sq_tail \in Waiting
        /\ \A i \in Waiting : i # sq_tail => i - d \in Waiting' /\ At(i - d)' = At(i)
        /\ \A i \in Waiting' : /\ i + d \in Waiting /\ i + d # sq_tail
                               /\ At(i)' = At(i + d)
  BY RingAfterTake
<1>2. client' = [client EXCEPT ![w] = At(sq_tail)] /\ UNCHANGED <<sock, so>>
  BY DEF ConsumeTake, At
<1>3. At(sq_tail) \in Sockets /\ NoSocket \notin Sockets /\ client[w] = NoSocket
  BY <1>1 DEF OnceInv, ConsumeTake, Goes, Sockets
<1>4. ASSUME NEW i \in Waiting'
      PROVE  /\ At(i)' \in Sockets /\ sock[At(i)'] = "open" /\ At(i)' # so
             /\ At(i)' # At(sq_tail)
  <2>1. i + d \in Waiting /\ i + d # sq_tail /\ At(i)' = At(i + d)
    BY <1>1
  <2>2. At(i + d) # At(sq_tail)
    BY <1>1, <2>1 DEF OnceInv
  <2> QED
    BY <2>1, <2>2 DEF OnceInv
<1>5. \A i, j \in Waiting' : At(i)' = At(j)' => i = j
  <2> SUFFICES ASSUME NEW i \in Waiting', NEW j \in Waiting', At(i)' = At(j)' PROVE i = j
    OBVIOUS
  <2>1. i \in Int /\ j \in Int /\ d \in Int
    BY <1>1 DEF Waiting
  <2>2. PICK a \in Waiting : a = i + d /\ At(i)' = At(a)
    BY <1>1
  <2>3. PICK b \in Waiting : b = j + d /\ At(j)' = At(b)
    BY <1>1
  <2>4. At(a) = At(b)
    BY <2>2, <2>3, Zenon
  <2>5. a = b
    BY <2>4 DEF OnceInv
  <2> QED
    BY <2>1, <2>2, <2>3, <2>5
<1>6. \A v \in Workers : client'[v] # NoSocket =>
        /\ sock[client'[v]] = "open" /\ client'[v] # so
        /\ \A i \in Waiting' : At(i)' # client'[v]
  <2> SUFFICES ASSUME NEW v \in Workers, client'[v] # NoSocket
               PROVE  /\ sock[client'[v]] = "open" /\ client'[v] # so
                      /\ \A i \in Waiting' : At(i)' # client'[v]
    OBVIOUS
  <2>1. CASE v = w
    BY <1>1, <1>2, <1>4, <2>1 DEF OnceInv
  <2>2. CASE v # w
    <3>1. client'[v] = client[v]
      BY <1>2, <2>2
    <3>2. ASSUME NEW i \in Waiting' PROVE At(i)' # client[v]
      <4>1. i + d \in Waiting /\ At(i)' = At(i + d)
        BY <1>1
      <4> QED
        BY <3>1, <4>1 DEF OnceInv
    <3> QED
      BY <3>1, <3>2 DEF OnceInv
  <2> QED
    BY <2>1, <2>2
<1>7. \A u, v \in Workers : client'[u] # NoSocket /\ client'[u] = client'[v] => u = v
  BY <1>1, <1>2, <1>3 DEF OnceInv
<1>8. \A s \in Sockets : sock[s] = "open" =>
        so = s \/ (\E i \in Waiting' : At(i)' = s) \/ \E v \in Workers : client'[v] = s
  <2> SUFFICES ASSUME NEW s \in Sockets, sock[s] = "open", so # s
               PROVE  (\E i \in Waiting' : At(i)' = s) \/ \E v \in Workers : client'[v] = s
    OBVIOUS
  <2>1. CASE \E i \in Waiting : At(i) = s
    BY <1>1, <1>2, <2>1
  <2>2. CASE \E v \in Workers : client[v] = s
    BY <1>2, <1>3, <2>2
  <2> QED
    BY <2>1, <2>2 DEF OnceInv
<1> QED
  BY <1>2, <1>4, <1>5, <1>6, <1>7, <1>8 DEF OnceInv

\* A worker lets its connection go: it is closed, or forgotten.
LEMMA LetGoOnce ==
  ASSUME SocketInv, NEW w \in Workers, NEW how \in {"closed", "leaked"},
         client' = [client EXCEPT ![w] = NoSocket],
         \/ client[w] = NoSocket /\ sock' = sock
         \/ client[w] # NoSocket /\ sock' = [sock EXCEPT ![client[w]] = how],
         UNCHANGED <<ringVars, so>>
  PROVE  OnceInv'
<1> USE PoolAssumption DEF SocketInv, TypeInv, TypeOK, HandsInv
<1>1. Waiting' = Waiting /\ \A i \in Waiting : At(i)' = At(i)
  BY DEF Waiting, At, ringVars
<1>2. NoSocket \notin Sockets /\ so' = so
  BY DEF Sockets
<1>3. CASE client[w] = NoSocket
  <2>1. client' = client /\ sock' = sock
    BY <1>3
  <2> QED
    BY <1>1, <1>2, <2>1 DEF OnceInv
<1>4. CASE client[w] # NoSocket
  <2> DEFINE s == client[w]
  <2>1. /\ s \in Sockets /\ sock[s] = "open" /\ so # s
        /\ sock' = [sock EXCEPT ![s] = how]
        /\ \A i \in Waiting : At(i) # s
        /\ \A v \in Workers : v # w => client[v] # s
    BY <1>4 DEF OnceInv
  <2>2. /\ sock'[s] # "open" /\ \A t \in Sockets : t # s => sock'[t] = sock[t]
        /\ client'[w] = NoSocket /\ \A v \in Workers : v # w => client'[v] = client[v]
    BY <2>1
  <2>3. \A i \in Waiting : At(i) \in Sockets /\ sock'[At(i)] = "open" /\ At(i) # so
    BY <2>1, <2>2 DEF OnceInv
  <2>4. so # NoSocket => sock'[so] = "open"
    BY <2>1, <2>2 DEF OnceInv
  <2>5. \A v \in Workers : client'[v] # NoSocket =>
          /\ sock'[client'[v]] = "open" /\ client'[v] # so
          /\ \A i \in Waiting : At(i) # client'[v]
    BY <2>1, <2>2 DEF OnceInv
  <2>6. \A u, v \in Workers : client'[u] # NoSocket /\ client'[u] = client'[v] => u = v
    BY <2>2 DEF OnceInv
  <2>7. \A t \in Sockets : sock'[t] = "open" =>
          so = t \/ (\E i \in Waiting : At(i) = t) \/ \E v \in Workers : client'[v] = t
    BY <2>1, <2>2 DEF OnceInv
  <2>8. \A i, j \in Waiting : At(i) = At(j) => i = j
    BY DEF OnceInv
  <2> HIDE DEF SocketInv, TypeInv, TypeOK, HandsInv
  <2> QED
    BY <1>1, <1>2, <2>3, <2>4, <2>5, <2>6, <2>7, <2>8 DEF OnceInv
<1> QED
  BY <1>3, <1>4

LEMMA WorkerOnce ==
  ASSUME SocketInv, NEW w \in Workers, WorkerMoves(w)
  PROVE  OnceInv'
<1>1. CASE ConsumeTake(w)
  BY <1>1, TakeOnce
<1>2. CASE WorkerReturns(w)
  <2>1. CASE stop_flag = 0
    BY <1>2, <2>1, OnceStays DEF WorkerReturns, Jump, SocketInv
  <2>2. CASE stop_flag # 0
    <3>1. /\ client' = [client EXCEPT ![w] = NoSocket]
          /\ sock' = IF client[w] = NoSocket THEN sock
                     ELSE [sock EXCEPT ![client[w]] = "leaked"]
          /\ UNCHANGED <<ringVars, so>>
      BY <1>2, <2>2 DEF WorkerReturns
    <3> QED
      BY <3>1, LetGoOnce
  <2> QED
    BY <2>1, <2>2
<1>3. CASE WorkerServes(w)
  <2>1. /\ client' = [client EXCEPT ![w] = NoSocket]
        /\ sock' = [sock EXCEPT ![client[w]] = "closed"]
        /\ UNCHANGED <<ringVars, so>>
    BY <1>3 DEF WorkerServes
  <2>2. client[w] = NoSocket => sock' = sock
    BY <2>1, PoolAssumption DEF SocketInv, TypeInv, TypeOK, Sockets
  <2> QED
    BY <2>1, <2>2, LetGoOnce
<1> QED
  BY <1>1, <1>2, <1>3 DEF WorkerMoves

LEMMA StepSocketInv == SocketInv /\ [Next]_vars => SocketInv'
<1> SUFFICES ASSUME SocketInv, [Next]_vars PROVE SocketInv'
  OBVIOUS
<1> USE DEF SocketInv
<1>1. TypeInv'
  BY StepTypeInv
<1>2. CASE AppStep
  BY <1>1, <1>2, AppHands, OnceStays
<1>3. CASE MasterStep
  BY <1>1, <1>3, MasterHands, OnceStays, AcceptOnce, PutOnce, ForgetOnce DEF MasterMoves
<1>4. ASSUME NEW w \in Workers, WorkerStep(w) PROVE SocketInv'
  BY <1>1, <1>4, WorkerHands, OnceStays, WorkerOnce
<1>5. ASSUME NEW p \in Procs, NEW c \in Conds, SpuriousWake(p, c) PROVE SocketInv'
  <2>1. UNCHANGED <<ringVars, connVars>> /\ pc' = pc
    BY <1>5 DEF SpuriousWake
  <2> QED
    BY <1>1, <2>1, OnceStays DEF HandsInv, connVars
<1>6. CASE UNCHANGED vars
  <2>1. UNCHANGED <<ringVars, connVars>> /\ pc' = pc
    BY <1>6 DEF vars
  <2> QED
    BY <1>1, <2>1, OnceStays DEF HandsInv, connVars
<1> QED
  BY <1>2, <1>3, <1>4, <1>5, <1>6 DEF Next

LEMMA SocketInvariant == Spec => []SocketInv
<1> QED
  BY InitSocketInv, StepSocketInv, PTL DEF Spec

LEMMA OnceFromInv == SocketInv => EverySocketOnce
<1> SUFFICES ASSUME SocketInv, NEW s \in Sockets
             PROVE /\ sock[s] = "open" =>
                      \/ so = s /\ InRing(s) = {} /\ ServedBy(s) = {}
                      \/ so # s /\ (\E i \in InRing(s) : InRing(s) = {i}) /\ ServedBy(s) = {}
                      \/ so # s /\ InRing(s) = {} /\ \E w \in ServedBy(s) : ServedBy(s) = {w}
                   /\ sock[s] # "open" => so # s /\ InRing(s) = {} /\ ServedBy(s) = {}
  BY DEF EverySocketOnce
<1>1. InRing(s) = {i \in Waiting : At(i) = s}
  BY DEF InRing, Waiting, At
<1>2. s # NoSocket
  BY PoolAssumption DEF Sockets
<1>3. so = s => sock[s] = "open" /\ InRing(s) = {} /\ ServedBy(s) = {}
  BY <1>1, <1>2 DEF ServedBy, SocketInv, OnceInv
<1>4. ASSUME NEW i \in InRing(s)
      PROVE  sock[s] = "open" /\ so # s /\ InRing(s) = {i} /\ ServedBy(s) = {}
  BY <1>1, <1>2 DEF ServedBy, SocketInv, OnceInv
<1>5. ASSUME NEW w \in ServedBy(s)
      PROVE  sock[s] = "open" /\ so # s /\ InRing(s) = {} /\ ServedBy(s) = {w}
  BY <1>1, <1>2 DEF ServedBy, SocketInv, OnceInv
<1>6. sock[s] = "open" => so = s \/ InRing(s) # {} \/ ServedBy(s) # {}
  BY <1>1 DEF ServedBy, SocketInv, OnceInv
<1> QED
  BY <1>3, <1>4, <1>5, <1>6

(***************************************************************************)
(* A connection that is open is in exactly one place, and one that is      *)
(* closed or forgotten is in none: never two workers on one socket, and    *)
(* no slot overwritten while its socket waits.                             *)
(***************************************************************************)
THEOREM SocketsCorrect == Spec => []EverySocketOnce
<1> QED
  BY SocketInvariant, OnceFromInv, PTL

-----------------------------------------------------------------------------
(* The threads and their number.                                           *)

\* The mutex belongs to who is between its locking and unlocking.
MutexInv ==
  /\ pc[Master] \in {"produce", "wait", "join"} => owner = Master
  /\ \A w \in Workers :
       pc[w] \in {"consume", "wait", "count_read", "count_write"} => owner = w

LEMMA AppMutex ==
  ASSUME TypeInv, HandsInv, MutexInv, AppStep PROVE MutexInv'
<1> USE PoolAssumption DEF TypeInv, TypeOK, HandsInv, MutexInv, Procs, Goes, Jump, Fault,
        syncVars
<1>1. CASE AppStartMaster  BY <1>1 DEF AppStartMaster
<1>2. CASE AppStartWorker
  <2>1. PICK w \in Unstarted :
          pc' = [pc EXCEPT ![App] = "count_read", ![w] = "start"] \/ UNCHANGED pc
    BY <1>2 DEF AppStartWorker
  <2>2. owner' = owner
    BY <1>2 DEF AppStartWorker
  <2> QED
    BY <2>1, <2>2 DEF Unstarted
<1>3. CASE AppStarted      BY <1>3 DEF AppStarted
<1>4. CASE CountRead(App)  BY <1>4 DEF CountRead
<1>5. CASE AppCountWrite   BY <1>5 DEF AppCountWrite
<1>6. CASE AppStop         BY <1>6 DEF AppStop
<1>7. CASE AppStopSees     BY <1>7 DEF AppStopSees
<1>8. CASE AppFree         BY <1>8 DEF AppFree
<1> QED
  BY <1>1, <1>2, <1>3, <1>4, <1>5, <1>6, <1>7, <1>8 DEF AppStep

LEMMA MasterMutex ==
  ASSUME TypeInv, MutexInv, MasterStep PROVE MutexInv'
<1> USE PoolAssumption DEF TypeInv, TypeOK, MutexInv, Procs, Goes, Jump, Lock, Sleep,
        Awake, syncVars
<1>1. CASE MasterStart     BY <1>1 DEF MasterStart
<1>2. CASE MasterCheck     BY <1>2 DEF MasterCheck
<1>3. CASE MasterPoll      BY <1>3 DEF MasterPoll
<1>4. CASE MasterReady     BY <1>4 DEF MasterReady
<1>5. CASE MasterAccept    BY <1>5 DEF MasterAccept
<1>6. CASE MasterLock      BY <1>6 DEF MasterLock
<1>7. CASE ProduceTest     BY <1>7 DEF ProduceTest
<1>8. CASE ProduceWait     BY <1>8 DEF ProduceWait
<1>9. CASE ProduceAwake    BY <1>9 DEF ProduceAwake
<1>10. CASE ProducePut     BY <1>10 DEF ProducePut
<1>11. CASE ProduceForgets  BY <1>11 DEF ProduceForgets
<1>12. CASE MasterClose    BY <1>12 DEF MasterClose
<1>13. CASE MasterBroadcast  BY <1>13 DEF MasterBroadcast
<1>14. CASE MasterJoinLock  BY <1>14 DEF MasterJoinLock
<1>15. CASE MasterJoinWait  BY <1>15 DEF MasterJoinWait
<1>16. CASE MasterJoinAwake  BY <1>16 DEF MasterJoinAwake
<1>17. CASE MasterJoined   BY <1>17 DEF MasterJoined
<1>18. CASE MasterFinish   BY <1>18 DEF MasterFinish
<1> QED
  BY <1>1, <1>2, <1>3, <1>4, <1>5, <1>6, <1>7, <1>8, <1>9, <1>10, <1>11, <1>12,
     <1>13, <1>14, <1>15, <1>16, <1>17, <1>18 DEF MasterStep

LEMMA WorkerMutex ==
  ASSUME TypeInv, MutexInv, NEW w \in Workers, WorkerStep(w) PROVE MutexInv'
<1> USE PoolAssumption DEF TypeInv, TypeOK, MutexInv, Procs, Goes, Jump, Lock, Sleep,
        Awake, syncVars
<1>1. CASE WorkerStart(w)   BY <1>1 DEF WorkerStart
<1>2. CASE WorkerLock(w)    BY <1>2 DEF WorkerLock
<1>3. CASE ConsumeTest(w)   BY <1>3 DEF ConsumeTest
<1>4. CASE ConsumeWait(w)   BY <1>4 DEF ConsumeWait
<1>5. CASE ConsumeAwake(w)  BY <1>5 DEF ConsumeAwake
<1>6. CASE ConsumeTake(w)   BY <1>6 DEF ConsumeTake
<1>7. CASE ConsumeNothing(w)  BY <1>7 DEF ConsumeNothing
<1>8. CASE WorkerReturns(w)
  <2>1. /\ owner' = owner /\ pc[w] = "taken"
        /\ pc' = [pc EXCEPT ![w] = "serve"] \/ pc' = [pc EXCEPT ![w] = "exit_lock"]
    BY <1>8 DEF WorkerReturns
  <2> QED
    BY <2>1
<1>9. CASE WorkerServes(w)    BY <1>9 DEF WorkerServes
<1>10. CASE WorkerExitLock(w)  BY <1>10 DEF WorkerExitLock
<1>11. CASE CountRead(w)      BY <1>11 DEF CountRead
<1>12. CASE WorkerExits(w)    BY <1>12 DEF WorkerExits
<1> QED
  BY <1>1, <1>2, <1>3, <1>4, <1>5, <1>6, <1>7, <1>8, <1>9, <1>10, <1>11, <1>12
  DEF WorkerStep

\* The application frees the context only when master has set stop_flag to 2,
\* which is the last thing it does.
LifeInv ==
  /\ freed => pc[App] = "done"
  /\ pc[App] \in {"free", "done"} => pc[Master] = "done"
  /\ stop_flag = 2 => pc[Master] = "done"

LEMMA StepLifeInv == TypeInv /\ HandsInv /\ LifeInv /\ [Next]_vars => LifeInv'
<1> SUFFICES ASSUME TypeInv, HandsInv, LifeInv, [Next]_vars PROVE LifeInv'
  OBVIOUS
<1> USE PoolAssumption DEF TypeInv, TypeOK, HandsInv, LifeInv, Procs, Goes, Jump, lifeVars
<1>1. CASE AppStep
  <2>1. CASE AppStartMaster  BY <2>1 DEF AppStartMaster
  <2>2. CASE AppStartWorker
    <3>1. PICK w \in Unstarted :
            pc' = [pc EXCEPT ![App] = "count_read", ![w] = "start"] \/ UNCHANGED pc
      BY <2>2 DEF AppStartWorker
    <3>2. UNCHANGED <<stop_flag, freed>>
      BY <2>2 DEF AppStartWorker
    <3>3. pc[App] = "start_worker"
      BY <2>2 DEF AppStartWorker
    <3> QED
      BY <3>1, <3>2, <3>3 DEF Unstarted
  <2>3. CASE AppStarted      BY <2>3 DEF AppStarted
  <2>4. CASE CountRead(App)  BY <2>4 DEF CountRead
  <2>5. CASE AppCountWrite   BY <2>5 DEF AppCountWrite
  <2>6. CASE AppStop         BY <2>6 DEF AppStop
  <2>7. CASE AppStopSees     BY <2>7 DEF AppStopSees
  <2>8. CASE AppFree         BY <2>8 DEF AppFree
  <2> QED
    BY <1>1, <2>1, <2>2, <2>3, <2>4, <2>5, <2>6, <2>7, <2>8 DEF AppStep
<1>2. CASE MasterStep
  <2>1. freed' = freed /\ pc'[App] = pc[App] /\ pc[Master] # "done"
    BY <1>2 DEF MasterStep, MasterStart, MasterCheck, MasterPoll, MasterReady, MasterAccept,
       MasterLock, ProduceTest, ProduceWait, ProduceAwake, ProducePut, ProduceForgets,
       MasterClose, MasterBroadcast, MasterJoinLock, MasterJoinWait, MasterJoinAwake,
       MasterJoined, MasterFinish, Lock, Sleep, Awake
  <2>2. stop_flag' = stop_flag \/ pc'[Master] = "done"
    BY <1>2 DEF MasterStep, MasterStart, MasterCheck, MasterPoll, MasterReady, MasterAccept,
       MasterLock, ProduceTest, ProduceWait, ProduceAwake, ProducePut, ProduceForgets,
       MasterClose, MasterBroadcast, MasterJoinLock, MasterJoinWait, MasterJoinAwake,
       MasterJoined, MasterFinish, Lock, Sleep, Awake
  <2> QED
    BY <2>1, <2>2
<1>3. ASSUME NEW w \in Workers, WorkerStep(w) PROVE LifeInv'
  <2>1. UNCHANGED <<stop_flag, freed>> /\ pc'[App] = pc[App] /\ pc'[Master] = pc[Master]
    BY <1>3 DEF WorkerStep, WorkerStart, WorkerLock, ConsumeTest, ConsumeWait, ConsumeAwake,
       ConsumeTake, ConsumeNothing, WorkerReturns, WorkerServes, WorkerExitLock, CountRead,
       WorkerExits, Lock, Sleep, Awake
  <2> QED
    BY <2>1
<1>4. ASSUME NEW p \in Procs, NEW c \in Conds, SpuriousWake(p, c) PROVE LifeInv'
  BY <1>4 DEF SpuriousWake
<1>5. CASE UNCHANGED vars
  BY <1>5 DEF vars
<1> QED
  BY <1>1, <1>2, <1>3, <1>4, <1>5 DEF Next

-----------------------------------------------------------------------------
(* What the number of threads is.                                          *)

Live == {w \in Workers : ~ Gone(w)}
Uncounted == IF pc[App] \in {"count_read", "count_write"} THEN 1 ELSE 0

Starting == {"start_master", "start_worker", "count_read", "count_write", "running"}
Leaving  == {"exit_lock", "count_read", "count_write", "done"}
Stopping == {"close", "broadcast", "join_lock", "join", "join_asleep", "finish", "done"}

\* As long as no allocation failed: nobody leaves before the server is stopped, and
\* it is not stopped before it was started, so that the application, which counts
\* the workers up with no mutex, and the workers, which count themselves down, are
\* never at it together; the number is that of the workers that run, but for the one
\* that is being counted; and when master finishes none of them runs.
CountInv ==
  NoMemoryFault =>
    /\ pc[App] \in Starting => stop_flag = 0
    /\ stop_flag = 0 => /\ pc[Master] \notin Stopping
                        /\ \A w \in Workers : pc[w] \notin Leaving
    /\ num_threads = Cardinality(Live) - Uncounted
    /\ pc[App] = "count_write" => readCount[App] = num_threads
    /\ \A w \in Workers : pc[w] = "count_write" => readCount[w] = num_threads
    /\ pc[Master] \in {"finish", "done"} => Live = {}

LEMMA LiveFinite == IsFiniteSet(Live) /\ Cardinality(Live) \in Nat
<1>1. Live \in SUBSET Workers
  BY DEF Live
<1>2. IsFiniteSet(Live)
  BY <1>1, PoolAssumption, FS_Subset
<1> QED
  BY <1>2, FS_CardinalityType

\* Nobody who found no memory is forgotten.
LEMMA FaultsStay ==
  ASSUME TypeInv, HandsInv, [Next]_vars, NoMemoryFault' PROVE NoMemoryFault
<1> USE PoolAssumption DEF TypeInv, TypeOK, Procs
<1>1. starved \subseteq starved' /\ \A p \in Procs : pc[p] # "none" => pc'[p] # "none"
  <2> USE DEF Goes, Jump, Lock, Sleep, Awake, Fault, faultVars
  <2>1. CASE AppStep
    BY <2>1 DEF AppStep, AppStartMaster, AppStartWorker, AppStarted, CountRead, AppCountWrite,
       AppStop, AppStopSees, AppFree
  <2>2. CASE MasterStep
    BY <2>2 DEF MasterStep, MasterStart, MasterCheck, MasterPoll, MasterReady, MasterAccept,
       MasterLock, ProduceTest, ProduceWait, ProduceAwake, ProducePut, ProduceForgets,
       MasterClose, MasterBroadcast, MasterJoinLock, MasterJoinWait, MasterJoinAwake,
       MasterJoined, MasterFinish
  <2>3. ASSUME NEW w \in Workers, WorkerStep(w)
        PROVE  starved \subseteq starved' /\ \A p \in Procs : pc[p] # "none" => pc'[p] # "none"
    BY <2>3 DEF WorkerStep, WorkerStart, WorkerLock, ConsumeTest, ConsumeWait, ConsumeAwake,
       ConsumeTake, ConsumeNothing, WorkerReturns, WorkerServes, WorkerExitLock, CountRead,
       WorkerExits
  <2>4. ASSUME NEW p \in Procs, NEW c \in Conds, SpuriousWake(p, c)
        PROVE  UNCHANGED <<starved, pc>>
    BY <2>4 DEF SpuriousWake
  <2>5. CASE UNCHANGED vars
    BY <2>5 DEF vars
  <2> QED
    BY <2>1, <2>2, <2>3, <2>4, <2>5 DEF Next
<1> QED
  BY <1>1 DEF NoMemoryFault

LEMMA InitCountInv == Init => MutexInv /\ LifeInv /\ CountInv
<1> SUFFICES ASSUME Init PROVE MutexInv /\ LifeInv /\ CountInv
  OBVIOUS
<1> USE PoolAssumption DEF Init, Procs
<1>1. /\ pc[App] = "start_master" /\ pc[Master] = "none"
      /\ \A w \in Workers : pc[w] = "none"
  OBVIOUS
<1>2. Live = {} /\ Cardinality(Live) = 0
  BY <1>1, FS_EmptySet DEF Live, Gone
<1>3. CountInv
  BY <1>1, <1>2 DEF CountInv, Uncounted, Starting, Stopping, Leaving
<1>4. LifeInv
  BY <1>1 DEF LifeInv
<1>5. MutexInv
  BY <1>1 DEF MutexInv
<1> QED
  BY <1>3, <1>4, <1>5

\* Where no thread comes or goes, the set of those that run stays.
LEMMA LiveStays ==
  ASSUME \A w \in Workers : Gone(w)' <=> Gone(w) PROVE Live' = Live
BY DEF Live

LEMMA AppCount ==
  ASSUME TypeInv, HandsInv, LifeInv, CountInv, NoMemoryFault, AppStep
  PROVE  CountInv'
<1> SUFFICES ASSUME NoMemoryFault' PROVE CountInv'
  BY DEF CountInv
<1> USE PoolAssumption DEF TypeInv, TypeOK, CountInv, Procs, Goes, Jump, Uncounted, Starting,
        Stopping, Leaving, countVars, lifeVars
<1>1. CASE AppStartMaster
  <2>1. /\ pc'[App] = "start_worker" /\ pc[App] = "start_master"
        /\ \A w \in Workers : pc'[w] = pc[w]
        /\ pc'[Master] \in {"none", "start"} /\ UNCHANGED <<countVars, lifeVars>>
    BY <1>1 DEF AppStartMaster, HandsInv
  <2>2. Live' = Live
    BY <2>1, LiveStays DEF Gone
  <2> QED
    BY <2>1, <2>2
<1>2. CASE AppStartWorker
  <2>1. UNCHANGED <<countVars, lifeVars>> /\ pc[App] = "start_worker"
    BY <1>2 DEF AppStartWorker
  <2>2. CASE UNCHANGED pc
    BY <2>1, <2>2, LiveStays DEF Gone
  <2>3. ASSUME NEW w \in Unstarted, pc' = [pc EXCEPT ![App] = "count_read", ![w] = "start"]
        PROVE  CountInv'
    <3>1. /\ w \in Workers /\ pc[w] = "none" /\ pc'[w] = "start" /\ pc'[App] = "count_read"
          /\ pc'[Master] = pc[Master] /\ \A v \in Workers : v # w => pc'[v] = pc[v]
      BY <2>3 DEF Unstarted
    <3>2. w \notin Live /\ Live' = Live \cup {w}
      BY <3>1 DEF Live, Gone
    <3>3. Cardinality(Live') = Cardinality(Live) + 1
      BY <3>2, LiveFinite, FS_AddElement
    <3> QED
      BY <2>1, <3>1, <3>3, LiveFinite
  <2> QED
    BY <1>2, <2>2, <2>3 DEF AppStartWorker
<1>3. CASE AppStarted
  BY <1>3, LiveStays DEF AppStarted, Gone
<1>4. CASE CountRead(App)
  <2>1. Live' = Live
    BY <1>4, LiveStays DEF CountRead, Gone
  <2> QED
    BY <1>4, <2>1 DEF CountRead
<1>5. CASE AppCountWrite
  <2>1. Live' = Live
    BY <1>5, LiveStays DEF AppCountWrite, Gone
  <2>2. num_threads' = num_threads + 1 /\ stop_flag = 0
    BY <1>5 DEF AppCountWrite
  <2> QED
    BY <1>5, <2>1, <2>2, LiveFinite DEF AppCountWrite
<1>6. CASE AppStop
  BY <1>6, LiveStays DEF AppStop, Gone
<1>7. CASE AppStopSees
  BY <1>7, LiveStays DEF AppStopSees, Gone
<1>8. CASE AppFree
  BY <1>8, LiveStays DEF AppFree, Gone
<1> QED
  BY <1>1, <1>2, <1>3, <1>4, <1>5, <1>6, <1>7, <1>8 DEF AppStep

LEMMA MasterCount ==
  ASSUME TypeInv, CountInv, NoMemoryFault, MasterStep
  PROVE  CountInv'
<1> SUFFICES ASSUME NoMemoryFault' PROVE CountInv'
  BY DEF CountInv
<1> USE PoolAssumption DEF TypeInv, TypeOK, CountInv, Procs, Goes, Jump, Lock, Sleep, Awake,
        Uncounted, Starting, Stopping, Leaving, countVars, lifeVars, faultVars
<1>1. /\ UNCHANGED countVars /\ pc'[App] = pc[App] /\ \A w \in Workers : pc'[w] = pc[w]
  BY DEF MasterStep, MasterStart, MasterCheck, MasterPoll, MasterReady, MasterAccept,
     MasterLock, ProduceTest, ProduceWait, ProduceAwake, ProducePut, ProduceForgets,
     MasterClose, MasterBroadcast, MasterJoinLock, MasterJoinWait, MasterJoinAwake,
     MasterJoined, MasterFinish
<1>2. Live' = Live
  BY <1>1, LiveStays DEF Gone
<1>3. /\ stop_flag' = stop_flag \/ (stop_flag # 0 /\ stop_flag' # 0)
      /\ stop_flag = 0 => pc'[Master] \notin Stopping
      /\ pc'[Master] \in {"finish", "done"} =>
           pc[Master] \in {"finish", "done"} \/ (num_threads <= 0 /\ stop_flag # 0)
  <2>1. CASE MasterStart
    BY <2>1 DEF MasterStart, Fault, NoMemoryFault
  <2>2. CASE MasterCheck \/ MasterPoll \/ MasterReady \/ MasterAccept
    BY <2>2 DEF MasterCheck, MasterPoll, MasterReady, MasterAccept
  <2>3. CASE MasterLock \/ ProduceTest \/ ProduceWait \/ ProduceAwake \/ ProducePut \/ ProduceForgets
    BY <2>3 DEF MasterLock, ProduceTest, ProduceWait, ProduceAwake, ProducePut, ProduceForgets
  <2>4. CASE MasterClose \/ MasterBroadcast \/ MasterJoinLock \/ MasterJoinWait \/ MasterJoinAwake
    BY <2>4 DEF MasterClose, MasterBroadcast, MasterJoinLock, MasterJoinWait, MasterJoinAwake
  <2>5. CASE MasterJoined \/ MasterFinish
    BY <2>5 DEF MasterJoined, MasterFinish
  <2> QED
    BY <2>1, <2>2, <2>3, <2>4, <2>5 DEF MasterStep
<1>4. num_threads <= 0 /\ stop_flag # 0 => Live = {}
  BY LiveFinite, FS_EmptySet
<1> QED
  BY <1>1, <1>2, <1>3, <1>4

LEMMA WorkerCount ==
  ASSUME TypeInv, MutexInv, CountInv, NoMemoryFault, NEW w \in Workers, WorkerStep(w)
  PROVE  CountInv'
<1> SUFFICES ASSUME NoMemoryFault' PROVE CountInv'
  BY DEF CountInv
<1> USE PoolAssumption DEF TypeInv, TypeOK, CountInv, Procs, Goes, Jump, Lock, Sleep, Awake,
        Uncounted, Starting, Stopping, Leaving, countVars, lifeVars, faultVars
<1>1. /\ stop_flag' = stop_flag /\ pc'[App] = pc[App] /\ pc'[Master] = pc[Master]
      /\ \A v \in Workers : v # w => pc'[v] = pc[v]
      /\ pc[w] \notin {"none", "done"} /\ pc'[w] # "none"
  BY DEF WorkerStep, WorkerStart, WorkerLock, ConsumeTest, ConsumeWait, ConsumeAwake,
     ConsumeTake, ConsumeNothing, WorkerReturns, WorkerServes, WorkerExitLock, CountRead,
     WorkerExits
<1>2. stop_flag = 0 => pc'[w] \notin Leaving
  <2>1. CASE WorkerStart(w)
    BY <2>1 DEF WorkerStart, Fault, NoMemoryFault
  <2>2. CASE WorkerReturns(w)
    BY <2>2 DEF WorkerReturns
  <2>3. CASE WorkerExitLock(w) \/ CountRead(w) \/ WorkerExits(w)
    BY <2>3 DEF WorkerExitLock, CountRead, WorkerExits
  <2>4. CASE WorkerLock(w) \/ ConsumeTest(w) \/ ConsumeWait(w) \/ ConsumeAwake(w)
    BY <2>4 DEF WorkerLock, ConsumeTest, ConsumeWait, ConsumeAwake
  <2>5. CASE ConsumeTake(w) \/ ConsumeNothing(w) \/ WorkerServes(w)
    BY <2>5 DEF ConsumeTake, ConsumeNothing, WorkerServes
  <2> QED
    BY <2>1, <2>2, <2>3, <2>4, <2>5 DEF WorkerStep
<1>3. CASE WorkerExits(w)
  <2>1. /\ pc[w] = "count_write" /\ pc'[w] = "done" /\ num_threads' = num_threads - 1
        /\ \A p \in Procs : p # w => readCount'[p] = readCount[p]
    BY <1>3 DEF WorkerExits
  <2>2. stop_flag # 0
    BY <2>1
  <2>3. w \in Live /\ Live' = Live \ {w}
    BY <1>1, <2>1 DEF Live, Gone
  <2>4. Cardinality(Live') = Cardinality(Live) - 1
    BY <2>3, LiveFinite, FS_RemoveElement
  <2>5. \A v \in Workers : v # w => pc[v] # "count_write"
    BY <2>1 DEF MutexInv
  <2> QED
    BY <1>1, <1>2, <2>1, <2>2, <2>3, <2>4, <2>5, LiveFinite
<1>4. CASE ~ WorkerExits(w)
  <2>1. pc'[w] # "done" /\ num_threads' = num_threads
    BY <1>4 DEF WorkerStep, WorkerStart, WorkerLock, ConsumeTest, ConsumeWait, ConsumeAwake,
       ConsumeTake, ConsumeNothing, WorkerReturns, WorkerServes, WorkerExitLock, CountRead
  <2>2. Live' = Live
    BY <1>1, <2>1, LiveStays DEF Gone
  <2>3. CASE CountRead(w)
    <3>1. readCount' = [readCount EXCEPT ![w] = num_threads]
      BY <2>3 DEF CountRead
    <3> QED
      BY <1>1, <1>2, <2>1, <2>2, <3>1
  <2>4. CASE ~ CountRead(w)
    <3>1. readCount' = readCount /\ pc'[w] # "count_write"
      BY <1>4, <2>4 DEF WorkerStep, WorkerStart, WorkerLock, ConsumeTest, ConsumeWait,
         ConsumeAwake, ConsumeTake, ConsumeNothing, WorkerReturns, WorkerServes, WorkerExitLock
    <3> QED
      BY <1>1, <1>2, <2>1, <2>2, <3>1
  <2> QED
    BY <2>3, <2>4
<1> QED
  BY <1>3, <1>4

PoolInv == SocketInv /\ MutexInv /\ LifeInv /\ CountInv

LEMMA StepPoolInv == PoolInv /\ [Next]_vars => PoolInv'
<1> SUFFICES ASSUME PoolInv, [Next]_vars PROVE PoolInv'
  OBVIOUS
<1> USE DEF PoolInv, SocketInv
<1>1. SocketInv' /\ LifeInv'
  BY StepSocketInv, StepLifeInv
<1>2. CASE UNCHANGED <<pc, owner, countVars, stop_flag, starved>>
  <2>1. MutexInv'
    BY <1>2 DEF MutexInv
  <2>2. Live' = Live
    BY <1>2 DEF Live, Gone
  <2>3. CountInv'
    BY <1>2, <2>2 DEF CountInv, NoMemoryFault, Uncounted, countVars
  <2> QED
    BY <1>1, <2>1, <2>3
<1>3. ASSUME NoMemoryFault => CountInv' PROVE CountInv'
  BY <1>3, FaultsStay DEF CountInv
<1>4. CASE AppStep
  BY <1>1, <1>3, <1>4, AppMutex, AppCount
<1>5. CASE MasterStep
  BY <1>1, <1>3, <1>5, MasterMutex, MasterCount
<1>6. ASSUME NEW w \in Workers, WorkerStep(w) PROVE PoolInv'
  BY <1>1, <1>3, <1>6, WorkerMutex, WorkerCount
<1>7. ASSUME NEW p \in Procs, NEW c \in Conds, SpuriousWake(p, c) PROVE PoolInv'
  BY <1>2, <1>7 DEF SpuriousWake, lifeVars, faultVars
<1>8. CASE UNCHANGED vars
  BY <1>2, <1>8 DEF vars, syncVars, lifeVars, faultVars
<1> QED
  BY <1>4, <1>5, <1>6, <1>7, <1>8 DEF Next

LEMMA PoolInvariant == Spec => []PoolInv
<1>1. Init => PoolInv
  BY InitSocketInv, InitCountInv DEF PoolInv
<1> QED
  BY <1>1, StepPoolInv, PTL DEF Spec

(***************************************************************************)
(* Master destroys the mutex and the application frees the context only    *)
(* when no worker is left, whatever the order in which the workers are     *)
(* counted up, count themselves down and are waited for.                   *)
(***************************************************************************)
THEOREM ContextCorrect == Spec => []ContextOutlivesThreads
<1>1. PoolInv => ContextOutlivesThreads
  BY DEF PoolInv, ContextOutlivesThreads, CountInv, LifeInv, Live
<1> QED
  BY <1>1, PoolInvariant, PTL

-----------------------------------------------------------------------------
(* The ring is a queue.                                                    *)

LEMMA WaitingIsSeq ==
  ASSUME SocketInv
  PROVE  /\ waiting \in Seq(Sockets) /\ Len(waiting) = sq_head - sq_tail
         /\ sq_head - sq_tail \in Nat
         /\ \A i \in 1 .. sq_head - sq_tail :
              waiting[i] = At(sq_tail + i - 1) /\ sq_tail + i - 1 \in Waiting
<1>1. sq_head - sq_tail \in Nat /\ sq_tail \in Nat /\ sq_head \in Nat
  BY PoolAssumption DEF SocketInv, TypeInv, TypeOK
<1>2. ASSUME NEW i \in 1 .. sq_head - sq_tail
      PROVE  waiting[i] = At(sq_tail + i - 1) /\ sq_tail + i - 1 \in Waiting
  BY <1>1 DEF waiting, At, Waiting
<1>3. ASSUME NEW i \in 1 .. sq_head - sq_tail PROVE waiting[i] \in Sockets
  BY <1>2 DEF SocketInv, OnceInv
<1>4. waiting \in [1 .. sq_head - sq_tail -> Sockets]
  BY <1>3 DEF waiting
<1> QED
  BY <1>1, <1>2, <1>4

LEMMA InRingIs ==
  ASSUME NEW s PROVE InRing(s) = {i \in Waiting : At(i) = s}
BY DEF InRing, Waiting, At

\* A connection whose place did not change has not changed its phase.
LEMMA PhaseMoves ==
  ASSUME NEW s \in Sockets,
         \A t \in Sockets : t # s =>
           /\ sock'[t] = sock[t] /\ (so' = t <=> so = t)
           /\ (\E i \in Waiting' : At(i)' = t) <=> (\E i \in Waiting : At(i) = t)
  PROVE  phase' = [phase EXCEPT ![s] = Phase(s)']
<1>1. ASSUME NEW t \in Sockets, t # s PROVE Phase(t)' = Phase(t)
  <2>1. InRing(t) = {} <=> ~ \E i \in Waiting : At(i) = t
    BY InRingIs
  <2>2. InRing(t)' = {} <=> ~ \E i \in Waiting' : At(i)' = t
    BY DEF InRing, Waiting, At
  <2> QED
    BY <1>1, <2>1, <2>2 DEF Phase
<1> QED
  BY <1>1 DEF phase

LEMMA PhaseStays ==
  ASSUME UNCHANGED <<queue, sq_head, sq_tail, so, sock>>
  PROVE  phase' = phase /\ waiting' = waiting
BY DEF phase, waiting, Phase, InRing

LEMMA AcceptIsAccept ==
  ASSUME SocketInv, MasterAccept
  PROVE  \E s \in Sockets : Abstract!Accept(s) \/ Abstract!Refuse(s)
<1> USE PoolAssumption DEF SocketInv, TypeInv, TypeOK, HandsInv
<1>0. NoSocket \notin Sockets /\ so = NoSocket
  BY DEF MasterAccept, Sockets
<1>1. PICK s \in Sockets : s = accepted + 1 /\ sock[s] = "new"
  BY DEF MasterAccept, Sockets
<1>2. UNCHANGED <<queue, sq_head, sq_tail, client, stop_flag>>
  BY DEF MasterAccept, ringVars, lifeVars
<1>3. Waiting' = Waiting /\ \A i \in Waiting : At(i)' = At(i)
  BY <1>2 DEF Waiting, At
<1>4. waiting' = waiting /\ stopping' = stopping
  BY <1>2 DEF waiting, stopping
<1>5. phase[s] = "new"
  BY <1>1 DEF phase, Phase
<1>6. /\ sock' = [sock EXCEPT ![s] = IF s \in Denied THEN "closed" ELSE "open"]
      /\ so' = IF s \in Denied THEN so ELSE s
  BY <1>1 DEF MasterAccept
<1>7. Phase(s)' = IF s \in Denied THEN "closed" ELSE "accepted"
  BY <1>0, <1>1, <1>6 DEF Phase
<1>8. phase' = [phase EXCEPT ![s] = Phase(s)']
  <2>1. \A t \in Sockets : t # s => sock'[t] = sock[t] /\ (so' = t <=> so = t)
    BY <1>0, <1>1, <1>6
  <2> QED
    BY <1>1, <1>3, <2>1, PhaseMoves
<1> QED
  BY <1>1, <1>4, <1>5, <1>7, <1>8 DEF Abstract!Accept, Abstract!Refuse, Abstract!Becomes

LEMMA AppendIs ==
  ASSUME NEW S, NEW q \in Seq(S), NEW e \in S, NEW n \in Nat, n = Len(q),
         NEW f, f = [i \in 1 .. n + 1 |-> f[i]],
         f[n + 1] = e, \A i \in 1 .. n : f[i] = q[i]
  PROVE  f = Append(q, e)
<1>1. /\ Append(q, e) \in Seq(S) /\ Len(Append(q, e)) = n + 1
      /\ \A i \in 1 .. n : Append(q, e)[i] = q[i]
      /\ Append(q, e)[n + 1] = e
  BY AppendProperties
<1> DEFINE g == Append(q, e)
<1>2. g \in [1 .. n + 1 -> S]
  BY <1>1, LenProperties
<1>3. \A i \in 1 .. n + 1 : f[i] = g[i]
  BY <1>1
<1> HIDE DEF g
<1>4. g = [i \in 1 .. n + 1 |-> g[i]]
  BY <1>2
<1>5. [i \in 1 .. n + 1 |-> f[i]] = [i \in 1 .. n + 1 |-> g[i]]
  BY <1>3, Zenon
<1>6. f = g
  BY <1>4, <1>5, Zenon
<1> QED
  BY <1>6 DEF g

LEMMA TailIs ==
  ASSUME NEW S, NEW q \in Seq(S), q # <<>>
  PROVE  Tail(q) = [i \in 1 .. Len(q) - 1 |-> q[i + 1]]
<1>1. /\ Tail(q) \in Seq(S) /\ Len(Tail(q)) = Len(q) - 1
      /\ \A i \in 1 .. Len(Tail(q)) : Tail(q)[i] = q[i + 1]
  BY HeadTailProperties
<1>2. Tail(q) \in [1 .. Len(q) - 1 -> S]
  BY <1>1, LenProperties
<1> QED
  BY <1>1, <1>2

\* Each step that moves a connection is the step of the queue with its name.
LEMMA PutIsEnqueue ==
  ASSUME SocketInv, ProducePut
  PROVE  \E s \in Sockets : Abstract!Enqueue(s)
<1> USE PoolAssumption DEF SocketInv, TypeInv, TypeOK, HandsInv
<1>1. PICK s \in Sockets : s = so /\ s # NoSocket
  BY DEF ProducePut, Goes, Sockets
<1>2. /\ so' = NoSocket /\ sock' = sock /\ sq_tail' = sq_tail /\ sq_head' = sq_head + 1
      /\ sq_head - sq_tail < QueueSize /\ stopping' = stopping
  BY DEF ProducePut, Full, stopping, lifeVars
<1>3. /\ sq_head \notin Waiting /\ Waiting' = Waiting \cup {sq_head}
      /\ \A i \in Waiting' : At(i)' = IF i = sq_head THEN so ELSE At(i)
  BY RingAfterPut
<1>4. sock[s] = "open" /\ phase[s] = "accepted"
  BY <1>1 DEF OnceInv, phase, Phase
<1>5. Phase(s)' = "waiting"
  <2>1. InRing(s)' = {i \in Waiting' : At(i)' = s}
    BY DEF InRing, Waiting, At
  <2>2. InRing(s)' # {}
    BY <1>1, <1>3, <2>1
  <2> QED
    BY <1>1, <1>2, <1>4, <2>2 DEF Phase
<1>6. phase' = [phase EXCEPT ![s] = "waiting"]
  <2>1. ASSUME NEW t \in Sockets, t # s
        PROVE  /\ sock'[t] = sock[t] /\ (so' = t <=> so = t)
               /\ (\E i \in Waiting' : At(i)' = t) <=> (\E i \in Waiting : At(i) = t)
    BY <1>1, <1>2, <1>3, <2>1 DEF Sockets
  <2> QED
    BY <1>5, <2>1, PhaseMoves
<1>7. waiting' = Append(waiting, s)
  <2>1. /\ waiting \in Seq(Sockets) /\ Len(waiting) = sq_head - sq_tail
        /\ sq_head - sq_tail \in Nat
        /\ \A i \in 1 .. sq_head - sq_tail :
             waiting[i] = At(sq_tail + i - 1) /\ sq_tail + i - 1 \in Waiting
    BY WaitingIsSeq
  <2> DEFINE n == sq_head - sq_tail
  <2>2. waiting' = [i \in 1 .. n + 1 |-> queue'[(sq_tail + i - 1) % QueueSize]]
    BY <1>2 DEF waiting
  <2>3. ASSUME NEW i \in 1 .. n
        PROVE  queue'[(sq_tail + i - 1) % QueueSize] = waiting[i]
    <3>1. sq_tail + i - 1 \in Waiting /\ sq_tail + i - 1 # sq_head
      BY <1>3, <2>1, Zenon
    <3>2. PICK j \in Waiting : j = sq_tail + i - 1 /\ j # sq_head
      BY <3>1
    <3>3. At(j)' = At(j)
      BY <1>3, <3>2
    <3> QED
      BY <2>1, <3>2, <3>3 DEF At
  <2>4. queue'[(sq_tail + (n + 1) - 1) % QueueSize] = s
    <3>1. PICK h \in Waiting' : h = sq_head
      BY <1>3
    <3>2. At(h)' = s
      BY <1>1, <1>3, <3>1
    <3>3. sq_tail + (n + 1) - 1 = h
      BY <3>1
    <3> QED
      BY <3>2, <3>3 DEF At
  <2>5. n = Len(waiting) /\ n \in Nat /\ n + 1 \in 1 .. n + 1
    BY <2>1
  <2>6. waiting'[n + 1] = s /\ \A i \in 1 .. n : waiting'[i] = waiting[i]
    <3>1. \A i \in 1 .. n : i \in 1 .. n + 1
      BY <2>5
    <3> HIDE DEF n
    <3> QED
      BY <2>2, <2>3, <2>4, <2>5, <3>1
  <2>7. waiting' = [i \in 1 .. n + 1 |-> waiting'[i]]
    BY <2>2, Zenon
  <2>8. s \in Sockets /\ waiting \in Seq(Sockets)
    BY <2>1
  <2> HIDE DEF n
  <2> HIDE PoolAssumption DEF SocketInv, TypeInv, TypeOK, HandsInv
  <2> QED
    BY <2>5, <2>6, <2>7, <2>8, AppendIs
<1>8. Len(waiting) < QueueSize
  BY <1>2, WaitingIsSeq
<1> QED
  BY <1>2, <1>4, <1>6, <1>7, <1>8 DEF Abstract!Enqueue, Abstract!Becomes

LEMMA TakeIsDequeue ==
  ASSUME SocketInv, NEW w \in Workers, ConsumeTake(w)
  PROVE  \E s \in Sockets : Abstract!Dequeue(s)
<1> USE PoolAssumption DEF SocketInv, TypeInv, TypeOK, HandsInv
<1>1. PICK d \in {0, QueueSize} :
        /\ sq_tail' = sq_tail + 1 - d /\ sq_head' = sq_head - d
        /\ sq_tail \in Waiting
        /\ \A i \in Waiting : i # sq_tail => i - d \in Waiting' /\ At(i - d)' = At(i)
        /\ \A i \in Waiting' : /\ i + d \in Waiting /\ i + d # sq_tail
                               /\ At(i)' = At(i + d)
  BY RingAfterTake
<1>2. so' = so /\ sock' = sock /\ stopping' = stopping
  BY DEF ConsumeTake, stopping, lifeVars
<1>3. PICK s \in Sockets : s = At(sq_tail) /\ sock[s] = "open" /\ so # s
  BY <1>1 DEF OnceInv
<1>4. phase[s] = "waiting"
  <2>1. InRing(s) # {}
    BY <1>1, <1>3, InRingIs
  <2> QED
    BY <1>3, <2>1 DEF phase, Phase
<1>5. Phase(s)' = "taken"
  <2>1. InRing(s)' = {i \in Waiting' : At(i)' = s}
    BY DEF InRing, Waiting, At
  <2>2. ASSUME NEW i \in Waiting' PROVE At(i)' # s
    <3>1. i + d \in Waiting /\ i + d # sq_tail /\ At(i)' = At(i + d)
      BY <1>1
    <3>2. At(i + d) # At(sq_tail)
      BY <1>1, <3>1 DEF OnceInv
    <3> QED
      BY <1>3, <3>1, <3>2
  <2> QED
    BY <1>2, <1>3, <2>1, <2>2 DEF Phase
<1>6. phase' = [phase EXCEPT ![s] = "taken"]
  <2>1. ASSUME NEW t \in Sockets, t # s
        PROVE  /\ sock'[t] = sock[t] /\ (so' = t <=> so = t)
               /\ (\E i \in Waiting' : At(i)' = t) <=> (\E i \in Waiting : At(i) = t)
    BY <1>1, <1>2, <1>3, <2>1
  <2> QED
    BY <1>5, <2>1, PhaseMoves
<1>7. /\ waiting \in Seq(Sockets) /\ Len(waiting) = sq_head - sq_tail
      /\ sq_head - sq_tail \in Nat \ {0}
      /\ \A i \in 1 .. sq_head - sq_tail :
           waiting[i] = At(sq_tail + i - 1) /\ sq_tail + i - 1 \in Waiting
  BY <1>1, WaitingIsSeq DEF Waiting
<1>8. waiting # <<>> /\ Head(waiting) = s
  <2>1. waiting[1] = At(sq_tail)
    BY <1>7
  <2> QED
    BY <1>3, <1>7, <2>1
<1>9. waiting' = Tail(waiting)
  <2> DEFINE n == sq_head - sq_tail
  <2>1. waiting' = [i \in 1 .. n - 1 |-> queue'[((sq_tail + 1 - d) + i - 1) % QueueSize]]
    <3>1. sq_head' - sq_tail' = n - 1
      BY <1>1
    <3> QED
      BY <1>1, <3>1 DEF waiting
  <2>2. ASSUME NEW i \in 1 .. n - 1
        PROVE  queue'[((sq_tail + 1 - d) + i - 1) % QueueSize] = waiting[i + 1]
    <3>1. /\ sq_tail + i \in Waiting /\ sq_tail + i # sq_tail
          /\ waiting[i + 1] = At(sq_tail + i)
      <4>1. i + 1 \in 1 .. sq_head - sq_tail /\ sq_tail + (i + 1) - 1 = sq_tail + i
        BY <1>7
      <4> QED
        BY <1>7, <4>1
    <3>2. PICK j \in Waiting : j = sq_tail + i /\ j # sq_tail
      BY <3>1
    <3>3. At(j - d)' = At(j)
      BY <1>1, <3>2
    <3>4. (sq_tail + 1 - d) + i - 1 = j - d
      BY <3>2
    <3> QED
      BY <3>1, <3>2, <3>3, <3>4 DEF At
  <2>3. Tail(waiting) = [i \in 1 .. n - 1 |-> waiting[i + 1]]
    BY <1>7, <1>8, TailIs
  <2> HIDE DEF n
  <2> QED
    BY <2>1, <2>2, <2>3
<1> QED
  BY <1>2, <1>3, <1>4, <1>6, <1>8, <1>9 DEF Abstract!Dequeue, Abstract!Becomes

LEMMA ForgetIsDrop ==
  ASSUME SocketInv, ProduceForgets
  PROVE  \E s \in Sockets : Abstract!Drop(s)
<1> USE PoolAssumption DEF SocketInv, TypeInv, TypeOK, HandsInv
<1>1. PICK s \in Sockets : s = so /\ s # NoSocket
  BY DEF ProduceForgets, Goes, Sockets
<1>2. /\ so' = NoSocket /\ sock' = [sock EXCEPT ![s] = "leaked"]
      /\ UNCHANGED <<queue, sq_tail, sq_head, stop_flag>> /\ stop_flag # 0
  BY <1>1 DEF ProduceForgets, ringVars, lifeVars
<1>3. phase[s] = "accepted"
  BY <1>1 DEF OnceInv, phase, Phase
<1>4. Phase(s)' = "dropped"
  BY <1>2 DEF Phase
<1>5. phase' = [phase EXCEPT ![s] = "dropped"]
  <2>1. ASSUME NEW t \in Sockets, t # s
        PROVE  /\ sock'[t] = sock[t] /\ (so' = t <=> so = t)
               /\ (\E i \in Waiting' : At(i)' = t) <=> (\E i \in Waiting : At(i) = t)
    BY <1>1, <1>2, <2>1 DEF Sockets, Waiting, At
  <2> QED
    BY <1>4, <2>1, PhaseMoves
<1>6. waiting' = waiting /\ stopping /\ stopping' = stopping
  BY <1>2 DEF waiting, stopping
<1> QED
  BY <1>3, <1>5, <1>6 DEF Abstract!Drop, Abstract!Becomes

\* A connection a worker has is taken, and when it is let go it is what it became.
LEMMA LetGoMoves ==
  ASSUME SocketInv, NEW w \in Workers, client[w] # NoSocket,
         NEW how \in {"closed", "leaked"}, sock' = [sock EXCEPT ![client[w]] = how],
         UNCHANGED <<ringVars, so>>
  PROVE  /\ client[w] \in Sockets /\ phase[client[w]] = "taken" /\ waiting' = waiting
         /\ phase' = [phase EXCEPT ![client[w]] = IF how = "leaked" THEN "dropped" ELSE how]
<1> USE PoolAssumption DEF SocketInv, TypeInv, TypeOK, HandsInv
<1>1. PICK s \in Sockets : s = client[w]
  OBVIOUS
<1>2. sock[s] = "open" /\ so # s /\ InRing(s) = {}
  BY <1>1, InRingIs DEF OnceInv
<1>3. phase[s] = "taken"
  BY <1>2 DEF phase, Phase
<1>4. sock' = [sock EXCEPT ![s] = how]
  BY <1>1
<1>5. Phase(s)' = IF how = "leaked" THEN "dropped" ELSE how
  BY <1>4 DEF Phase
<1>6. phase' = [phase EXCEPT ![s] = Phase(s)']
  <2>1. ASSUME NEW t \in Sockets, t # s
        PROVE  /\ sock'[t] = sock[t] /\ (so' = t <=> so = t)
               /\ (\E i \in Waiting' : At(i)' = t) <=> (\E i \in Waiting : At(i) = t)
    BY <1>4, <2>1 DEF ringVars, Waiting, At
  <2> QED
    BY <2>1, PhaseMoves
<1>7. waiting' = waiting
  BY DEF waiting, ringVars
<1> QED
  BY <1>1, <1>3, <1>5, <1>6, <1>7

LEMMA ServeIsClose ==
  ASSUME SocketInv, NEW w \in Workers, WorkerServes(w)
  PROVE  [\E s \in Sockets : Abstract!Close(s)]_<<waiting, phase, stopping>>
<1>1. /\ sock' = [sock EXCEPT ![client[w]] = "closed"] /\ UNCHANGED <<ringVars, so>>
      /\ stopping' = stopping
  BY DEF WorkerServes, stopping, lifeVars
<1>2. CASE client[w] = NoSocket
  <2>1. sock' = sock
    BY <1>1, <1>2, PoolAssumption DEF SocketInv, TypeInv, TypeOK, Sockets
  <2> QED
    BY <1>1, <2>1, PhaseStays DEF ringVars
<1>3. CASE client[w] # NoSocket
  <2>1. /\ client[w] \in Sockets /\ phase[client[w]] = "taken" /\ waiting' = waiting
        /\ phase' = [phase EXCEPT ![client[w]] = "closed"]
    BY <1>1, <1>3, LetGoMoves
  <2> QED
    BY <1>1, <2>1 DEF Abstract!Close, Abstract!Becomes
<1> QED
  BY <1>2, <1>3

LEMMA ReturnIsDrop ==
  ASSUME SocketInv, NEW w \in Workers, WorkerReturns(w)
  PROVE  [\E s \in Sockets : Abstract!Drop(s)]_<<waiting, phase, stopping>>
<1>1. UNCHANGED <<ringVars, so>> /\ stop_flag' = stop_flag
  BY DEF WorkerReturns, Jump, connVars, lifeVars
<1>2. CASE stop_flag = 0 \/ client[w] = NoSocket
  <2>1. sock' = sock
    BY <1>2 DEF WorkerReturns, Jump, connVars
  <2> QED
    BY <1>1, <2>1, PhaseStays DEF ringVars, stopping
<1>3. CASE stop_flag # 0 /\ client[w] # NoSocket
  <2>1. sock' = [sock EXCEPT ![client[w]] = "leaked"]
    BY <1>3 DEF WorkerReturns
  <2>2. /\ client[w] \in Sockets /\ phase[client[w]] = "taken" /\ waiting' = waiting
        /\ phase' = [phase EXCEPT ![client[w]] = "dropped"]
    BY <1>1, <1>3, <2>1, LetGoMoves
  <2>3. stopping /\ stopping' = stopping
    BY <1>1, <1>3 DEF stopping
  <2> QED
    BY <2>2, <2>3 DEF Abstract!Drop, Abstract!Becomes
<1> QED
  BY <1>2, <1>3

\* The other steps at most stop the server.
LEMMA OthersStop ==
  ASSUME SocketInv, UNCHANGED <<ringVars, connVars>>,
         stop_flag' = stop_flag \/ stop_flag' # 0
  PROVE  [Abstract!Stop]_<<waiting, phase, stopping>>
<1>1. waiting' = waiting /\ phase' = phase
  BY PhaseStays DEF ringVars, connVars
<1>2. stopping' = stopping \/ stopping' = TRUE
  BY DEF stopping
<1> QED
  BY <1>1, <1>2 DEF Abstract!Stop

\* Nobody takes the order to stop back.
LEMMA StopStays ==
  ASSUME [Next]_vars PROVE stop_flag' = stop_flag \/ stop_flag' # 0
<1> USE DEF Goes, Jump, Lock, Sleep, Awake, Fault, lifeVars
<1>1. CASE AppStep
  BY <1>1 DEF AppStep, AppStartMaster, AppStartWorker, AppStarted, CountRead, AppCountWrite,
     AppStop, AppStopSees, AppFree
<1>2. CASE MasterStep
  BY <1>2 DEF MasterStep, MasterStart, MasterCheck, MasterPoll, MasterReady, MasterAccept,
     MasterLock, ProduceTest, ProduceWait, ProduceAwake, ProducePut, ProduceForgets,
     MasterClose, MasterBroadcast, MasterJoinLock, MasterJoinWait, MasterJoinAwake,
     MasterJoined, MasterFinish
<1>3. ASSUME NEW w \in Workers, WorkerStep(w) PROVE stop_flag' = stop_flag
  BY <1>3 DEF WorkerStep, WorkerStart, WorkerLock, ConsumeTest, ConsumeWait, ConsumeAwake,
     ConsumeTake, ConsumeNothing, WorkerReturns, WorkerServes, WorkerExitLock, CountRead,
     WorkerExits
<1>4. ASSUME NEW p \in Procs, NEW c \in Conds, SpuriousWake(p, c)
      PROVE  stop_flag' = stop_flag
  BY <1>4 DEF SpuriousWake
<1>5. CASE UNCHANGED vars
  BY <1>5 DEF vars
<1> QED
  BY <1>1, <1>2, <1>3, <1>4, <1>5 DEF Next

(***************************************************************************)
(* The threads, their mutex and the ring with its two indices are a        *)
(* bounded first-in first-out queue, from which nothing is dropped before  *)
(* the server is told to stop.                                             *)
(***************************************************************************)
THEOREM PoolImplementsQueue == Spec => ImplementsQueue
<1>1. Init => Abstract!QueueInit
  <2> SUFFICES ASSUME Init PROVE Abstract!QueueInit
    OBVIOUS
  <2>1. waiting = <<>>
    BY DEF Init, waiting
  <2>2. phase = [s \in Sockets |-> "new"]
    BY DEF Init, phase, Phase
  <2>3. stopping = FALSE
    BY DEF Init, stopping
  <2> QED
    BY <2>1, <2>2, <2>3 DEF Abstract!QueueInit
<1>2. SocketInv /\ [Next]_vars => [Abstract!QueueNext]_(Abstract!queueVars)
  <2> SUFFICES ASSUME SocketInv, [Next]_vars
               PROVE  [Abstract!QueueNext]_<<waiting, phase, stopping>>
    BY DEF Abstract!queueVars
  <2>1. CASE UNCHANGED <<ringVars, connVars>>
    BY <2>1, OthersStop, StopStays DEF Abstract!QueueNext
  <2>2. CASE MasterMoves
    BY <2>2, AcceptIsAccept, PutIsEnqueue, ForgetIsDrop DEF MasterMoves, Abstract!QueueNext
  <2>3. ASSUME NEW w \in Workers, WorkerMoves(w)
        PROVE  [Abstract!QueueNext]_<<waiting, phase, stopping>>
    BY <2>3, TakeIsDequeue, ServeIsClose, ReturnIsDrop DEF WorkerMoves, Abstract!QueueNext
  <2>4. CASE AppStep
    BY <2>1, <2>4, AppHands DEF SocketInv
  <2>5. CASE MasterStep
    BY <2>1, <2>2, <2>5, MasterHands DEF SocketInv
  <2>6. ASSUME NEW w \in Workers, WorkerStep(w)
        PROVE  [Abstract!QueueNext]_<<waiting, phase, stopping>>
    BY <2>1, <2>3, <2>6, WorkerHands DEF SocketInv
  <2>7. ASSUME NEW p \in Procs, NEW c \in Conds, SpuriousWake(p, c)
        PROVE  UNCHANGED <<ringVars, connVars>>
    BY <2>7 DEF SpuriousWake
  <2>8. CASE UNCHANGED vars
    BY <2>1, <2>8 DEF vars
  <2> QED
    BY <2>1, <2>4, <2>5, <2>6, <2>7, <2>8 DEF Next
<1> QED
  BY <1>1, <1>2, SocketInvariant, PTL DEF Spec, ImplementsQueue, Abstract!QueueSpec
=============================================================================
