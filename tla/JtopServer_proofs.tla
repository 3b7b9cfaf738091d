-------------------------- MODULE JtopServer_proofs --------------------------
(***************************************************************************)
(* Proofs about the server of JtopServer for every number of threads and   *)
(* connections, every ring size from 2 up, every clock, every budget and   *)
(* whatever calls fail: its types; a frame is a pair of neighbours in the  *)
(* record, of different seconds; the mutexes, the count, the descriptors   *)
(* and the exit.  A client gets its frames in the order of the record, and *)
(* nothing more after a frame that was cut short; and the server           *)
(* implements the feed of SampleFeed.                                      *)
(***************************************************************************)
EXTENDS JtopServerFeed, JtopServerSafety, FiniteSetTheorems, TLAPS

(***************************************************************************)
(* The two index computations of the ring stay in the ring, and the slot   *)
(* before the next one is the one left: the reader's "sample before the    *)
(* newest" is the sample that was the newest (jtop.c 119, 194).            *)
(***************************************************************************)
LEMMA SlotArithmetic ==
  ASSUME NEW i \in Slots
  PROVE  /\ NextSlot(i) \in Slots
         /\ PrevSlot(i) \in Slots
         /\ PrevSlot(NextSlot(i)) = i
         /\ NextSlot(i) # i
         /\ PrevSlot(i) # i
<1> USE HistoryAssumption DEF Slots
<1>1. NextSlot(i) = IF i = MAX_HISTORY - 1 THEN 0 ELSE i + 1
  BY DEF NextSlot
<1>2. \A j \in Slots : PrevSlot(j) = IF j = 0 THEN MAX_HISTORY - 1 ELSE j - 1
  BY DEF PrevSlot
<1> QED
  BY <1>1, <1>2

-----------------------------------------------------------------------------
(* Type correctness.                                                       *)

(***************************************************************************)
(* The initial state, and what main does with the ring before the data     *)
(* thread exists, are well typed.                                          *)
(***************************************************************************)
LEMMA InitTypeOK == Init => TypeOK
<1> SUFFICES ASSUME Init PROVE TypeOK
  OBVIOUS
<1> USE ServerAssumption, HistoryAssumption DEF Init, Procs
<1>1. pc \in [Procs -> MainPC \cup DataPC \cup ConnPC]
  BY DEF MainPC, DataPC
<1>2. /\ pc[Main] \in MainPC
      /\ pc[Data] \in DataPC
      /\ \A t \in Threads : pc[t] \in ConnPC
  BY DEF MainPC, DataPC, ConnPC
<1>3. data_history \in [Slots -> Sample] /\ last_index \in Slots
  BY DEF Slots, Sample, Unset
<1>4. recorded \in Seq(Sample)
  OBVIOUS
<1>5. /\ owner \in [Mutexes -> Procs \cup {Nobody}]
      /\ sleepers \in [Conds -> SUBSET Procs]
  OBVIOUS
<1>6. /\ thread_data \in [Threads -> Conns \cup {NoConn}]
      /\ sockfd \in [Threads -> Conns \cup {NoConn}]
      /\ content \in [Threads -> Frame \cup {NoFrame}]
      /\ socketConnection \in Conns \cup {NoConn}
  OBVIOUS
<1>7. /\ conn \in [Conns -> {"idle", "pending", "accepted", "closed", "refused"}]
      /\ peer \in [Conns -> {"reading", "stalled", "left", "reset"}]
  OBVIOUS
<1>8. stream \in [Conns -> [last : Frame \cup {NoFrame}, cut : BOOLEAN]]
  OBVIOUS
<1>9. /\ round \in 0 .. MaxRounds
      /\ signals \in 0 .. MaxSignals
      /\ faults \in 0 .. FaultBudget
      /\ active_thread_count \in Int /\ lost \in Nat
  OBVIOUS
<1>10. shuttingdown_flag \in BOOLEAN /\ data_thread_shutdown_flag \in BOOLEAN
  BY Zenon
<1> HIDE DEF Init, Procs
<1> QED
  BY <1>1, <1>2, <1>3, <1>4, <1>5, <1>6, <1>7, <1>8, <1>9, <1>10, Zenon
  DEF TypeOK

\* Every step the data thread takes keeps the types.
LEMMA DataTypeOK == ASSUME TypeOK, DataStep PROVE TypeOK'
<1> USE ServerAssumption DEF TypeOK, Procs, Goes, Jump, Acquire, Release, WakeAll, Lock,
        Mutexes, Conds, DataPC, MainPC, ConnPC, vars, syncVars, memVars, ringVars, flagVars,
        countVars, localVars, netVars, envVars
<1>1. CASE DataCheck  BY <1>1 DEF DataCheck
<1>2. CASE DataTime   BY <1>2 DEF DataTime
<1>3. CASE DataAppendLock  BY <1>3 DEF DataAppendLock
<1>4. CASE DataAppendAdvance  BY <1>4, SlotArithmetic DEF DataAppendAdvance
<1>5. CASE DataAppendFill  BY <1>5 DEF DataAppendFill, Sample
<1>6. CASE DataWakeLock  BY <1>6 DEF DataWakeLock
<1>7. CASE DataWake  BY <1>7 DEF DataWake
<1>8. CASE DataSleep  BY <1>8 DEF DataSleep
<1> QED
  BY <1>1, <1>2, <1>3, <1>4, <1>5, <1>6, <1>7, <1>8 DEF DataStep

\* Every step a connection thread takes keeps the types.
LEMMA ConnTypeOK == ASSUME TypeOK, NEW t \in Threads, ConnStep(t) PROVE TypeOK'
<1> USE ServerAssumption DEF TypeOK, Procs, Goes, Jump, Acquire, Release, WakeAll,
        Lock, Sleep, Mutexes, Conds, DataPC, MainPC, ConnPC, vars, syncVars,
        memVars, ringVars, flagVars, countVars, localVars, netVars, envVars
<1>1. CASE ConnStart(t)  BY <1>1 DEF ConnStart
<1>2. CASE ConnCheck(t)  BY <1>2 DEF ConnCheck
<1>3. CASE ConnWaitLock(t)  BY <1>3 DEF ConnWaitLock
<1>4. CASE ConnWait(t)  BY <1>4 DEF ConnWait
<1>5. CASE ConnAwake(t)  BY <1>5 DEF ConnAwake
<1>6. CASE ConnInfoLock(t)  BY <1>6 DEF ConnInfoLock
<1>7. CASE ConnRead(t)
  <2>1. data_history[last_index] \in Sample
    OBVIOUS
  <2>2. data_history[PrevSlot(last_index)] \in Sample
    BY SlotArithmetic
  <2> QED
    BY <1>7, <2>1, <2>2 DEF ConnRead, Frame
<1>8. CASE ConnWrite(t)
  <2>1. sockfd[t] \in Conns /\ content[t] \in Frame \cup {NoFrame}
    BY <1>8 DEF ConnWrite
  <2>2. peer' \in [Conns -> {"reading", "stalled", "left", "reset"}]
    BY <1>8, <2>1 DEF ConnWrite
  <2>3. stream' \in [Conns -> [last : Frame \cup {NoFrame}, cut : BOOLEAN]]
    BY <1>8, <2>1 DEF ConnWrite
  <2> QED
    BY <1>8, <2>2, <2>3 DEF ConnWrite
<1>9. CASE ConnWriteFails(t)  BY <1>9 DEF ConnWriteFails
<1>10. CASE ConnClose(t)  BY <1>10 DEF ConnClose
<1>11. CASE ConnReturnLock(t)  BY <1>11 DEF ConnReturnLock
<1>12. CASE ConnReturn(t)  BY <1>12 DEF ConnReturn
<1> QED
  BY <1>1, <1>2, <1>3, <1>4, <1>5, <1>6, <1>7, <1>8, <1>9, <1>10, <1>11,
     <1>12 DEF ConnStep

\* Every step the main thread takes keeps the types.
LEMMA MainTypeOK == ASSUME TypeOK, MainStep PROVE TypeOK'
<1> USE ServerAssumption DEF TypeOK, Procs, Goes, Jump, Acquire, Release, WakeAll,
        Lock, Sleep, Mutexes, Conds, DataPC, MainPC, ConnPC, vars, syncVars,
        memVars, ringVars, flagVars, countVars, localVars, netVars, envVars
<1>1. CASE MainInit  BY <1>1 DEF MainInit, Unset, Sample
<1>2. CASE MainListen  BY <1>2 DEF MainListen, Fault
<1>3. CASE MainCheck  BY <1>3 DEF MainCheck
<1>4. CASE MainSelect  BY <1>4 DEF MainSelect
<1>5. CASE MainAccept
  <2>1. /\ socketConnection' \in Conns \cup {NoConn}
        /\ faults' \in 0 .. FaultBudget
    BY <1>5 DEF MainAccept, Fault, Pending
  <2>2. conn' \in [Conns -> {"idle", "pending", "accepted", "closed", "refused"}]
    BY <1>5 DEF MainAccept, Pending
  <2> QED
    BY <1>5, <2>1, <2>2 DEF MainAccept
<1>6. CASE MainCountLock  BY <1>6 DEF MainCountLock
<1>7. CASE MainCountInc  BY <1>7 DEF MainCountInc
<1>8. CASE MainCreate  BY <1>8 DEF MainCreate, Unused
<1>9. CASE MainCreateFails  BY <1>9 DEF MainCreateFails, Fault
<1>10. CASE MainClose  BY <1>10 DEF MainClose
<1>11. CASE MainStopData  BY <1>11 DEF MainStopData
<1>12. CASE MainJoin  BY <1>12 DEF MainJoin
<1>13. CASE MainDrainLock  BY <1>13 DEF MainDrainLock
<1>14. CASE MainDrainTest  BY <1>14 DEF MainDrainTest
<1>15. CASE MainDrainInfoLock  BY <1>15 DEF MainDrainInfoLock
<1>16. CASE MainDrainWake  BY <1>16 DEF MainDrainWake
<1>17. CASE MainDrainWait  BY <1>17 DEF MainDrainWait
<1>18. CASE MainDrainAwake  BY <1>18 DEF MainDrainAwake
<1>19. CASE MainReturn  BY <1>19 DEF MainReturn
<1> QED
  BY <1>1, <1>2, <1>3, <1>4, <1>5, <1>6, <1>7, <1>8, <1>9, <1>10, <1>11,
     <1>12, <1>13, <1>14, <1>15, <1>16, <1>17, <1>18, <1>19 DEF MainStep

\* So do a signal, a client and a spurious wakeup.
LEMMA EnvironmentTypeOK == ASSUME TypeOK, Environment PROVE TypeOK'
<1> USE ServerAssumption DEF TypeOK, Procs, Goes, Jump, SpuriousWake, Mutexes, Conds,
        DataPC, MainPC, ConnPC, vars, syncVars, memVars, ringVars, flagVars,
        countVars, localVars, netVars, envVars
<1>1. ASSUME NEW p \in Procs, SigInt(p) PROVE TypeOK'
  BY <1>1 DEF SigInt
<1>2. ASSUME NEW t \in Threads, SigIntCutsWrite(t) PROVE TypeOK'
  BY <1>2 DEF SigIntCutsWrite
<1>3. ASSUME NEW c \in Conns, ClientConnect(c) PROVE TypeOK'
  BY <1>3 DEF ClientConnect
<1>4. ASSUME NEW c \in Conns, ClientStep(c) PROVE TypeOK'
  BY <1>4 DEF ClientStep
<1>5. ASSUME NEW p \in Procs, NEW c \in Conds, SpuriousWake(p, c) PROVE TypeOK'
  BY <1>5
<1> QED
  BY <1>1, <1>2, <1>3, <1>4, <1>5 DEF Environment

\* Every step of the server keeps the types.
LEMMA TypeStep == ASSUME TypeOK, [Next]_vars PROVE TypeOK'
<1>1. CASE UNCHANGED vars
  BY <1>1 DEF vars, syncVars, memVars, ringVars, flagVars, countVars,
              localVars, netVars, envVars, TypeOK
<1> QED
  BY <1>1, MainTypeOK, DataTypeOK, ConnTypeOK, EnvironmentTypeOK DEF Next

(***************************************************************************)
(* TypeOK is an invariant of the server for every value of the constants.  *)
(***************************************************************************)
THEOREM TypeCorrect == Spec => []TypeOK
BY InitTypeOK, TypeStep, PTL DEF Spec

-----------------------------------------------------------------------------
(* Mutual exclusion in the ring's critical sections.                       *)

LEMMA GuardedByData ==
  ASSUME TypeOK, RingIsGuarded, DataStep PROVE RingIsGuarded'
<1> USE ServerAssumption DEF TypeOK, RingIsGuarded, Procs, Goes, Jump, Acquire,
        Release, WakeAll, Lock, Mutexes
<1>1. CASE DataCheck  BY <1>1 DEF DataCheck, syncVars
<1>2. CASE DataTime   BY <1>2 DEF DataTime, syncVars
<1>3. CASE DataAppendLock  BY <1>3 DEF DataAppendLock
<1>4. CASE DataAppendAdvance  BY <1>4 DEF DataAppendAdvance, syncVars
<1>5. CASE DataAppendFill  BY <1>5 DEF DataAppendFill
<1>6. CASE DataWakeLock  BY <1>6 DEF DataWakeLock
<1>7. CASE DataWake  BY <1>7 DEF DataWake
<1>8. CASE DataSleep  BY <1>8 DEF DataSleep, syncVars
<1> QED
  BY <1>1, <1>2, <1>3, <1>4, <1>5, <1>6, <1>7, <1>8 DEF DataStep

LEMMA GuardedByConn ==
  ASSUME TypeOK, RingIsGuarded, NEW t \in Threads, ConnStep(t) PROVE RingIsGuarded'
<1> USE ServerAssumption DEF TypeOK, RingIsGuarded, Procs, Goes, Jump, Acquire,
        Release, WakeAll, Lock, Sleep, Mutexes, syncVars
<1>1. CASE ConnStart(t)  BY <1>1 DEF ConnStart
<1>2. CASE ConnCheck(t)  BY <1>2 DEF ConnCheck
<1>3. CASE ConnWaitLock(t)  BY <1>3 DEF ConnWaitLock
<1>4. CASE ConnWait(t)  BY <1>4 DEF ConnWait
<1>5. CASE ConnAwake(t)  BY <1>5 DEF ConnAwake
<1>6. CASE ConnInfoLock(t)  BY <1>6 DEF ConnInfoLock
<1>7. CASE ConnRead(t)  BY <1>7 DEF ConnRead
<1>8. CASE ConnWrite(t)  BY <1>8 DEF ConnWrite
<1>9. CASE ConnWriteFails(t)  BY <1>9 DEF ConnWriteFails
<1>10. CASE ConnClose(t)  BY <1>10 DEF ConnClose
<1>11. CASE ConnReturnLock(t)  BY <1>11 DEF ConnReturnLock
<1>12. CASE ConnReturn(t)  BY <1>12 DEF ConnReturn
<1> QED
  BY <1>1, <1>2, <1>3, <1>4, <1>5, <1>6, <1>7, <1>8, <1>9, <1>10, <1>11,
     <1>12 DEF ConnStep

\* Main never takes info_mutex and writes no shared variable of the ring but
\* when it clears it; it starts the data thread and the readers at their tops.
LEMMA MainAndTheRing ==
  ASSUME TypeOK, MainStep
  PROVE  /\ owner'["info_mutex"] = owner["info_mutex"]
         /\ pc'[Data] = pc[Data] \/ (MainInit /\ pc'[Data] = "check")
         /\ data_history' = data_history \/ MainInit
         /\ UNCHANGED <<last_index, recorded, sockfd, content, stream, round>>
         /\ pc[Main] # "init" => pc'[Main] # "init"
         /\ \A t \in Threads : pc'[t] = pc[t] \/ (pc[t] = "none" /\ pc'[t] = "start")
<1> USE ServerAssumption DEF TypeOK, Procs, Goes, Jump, Acquire, Release, WakeAll,
        Lock, Sleep, Mutexes, vars, syncVars, memVars, ringVars, flagVars,
        countVars, localVars, netVars, envVars
<1>1. CASE MainInit  BY <1>1 DEF MainInit
<1>2. CASE MainListen  BY <1>2 DEF MainListen
<1>3. CASE MainCheck  BY <1>3 DEF MainCheck
<1>4. CASE MainSelect  BY <1>4 DEF MainSelect
<1>5. CASE MainAccept  BY <1>5 DEF MainAccept
<1>6. CASE MainCountLock  BY <1>6 DEF MainCountLock
<1>7. CASE MainCountInc  BY <1>7 DEF MainCountInc
<1>8. CASE MainCreate  BY <1>8 DEF MainCreate, Unused
<1>9. CASE MainCreateFails  BY <1>9 DEF MainCreateFails
<1>10. CASE MainClose  BY <1>10 DEF MainClose
<1>11. CASE MainStopData  BY <1>11 DEF MainStopData
<1>12. CASE MainJoin  BY <1>12 DEF MainJoin
<1>13. CASE MainDrainLock  BY <1>13 DEF MainDrainLock
<1>14. CASE MainDrainTest  BY <1>14 DEF MainDrainTest
<1>15. CASE MainDrainInfoLock  BY <1>15 DEF MainDrainInfoLock
<1>16. CASE MainDrainWake  BY <1>16 DEF MainDrainWake
<1>17. CASE MainDrainWait  BY <1>17 DEF MainDrainWait
<1>18. CASE MainDrainAwake  BY <1>18 DEF MainDrainAwake
<1>19. CASE MainReturn  BY <1>19 DEF MainReturn
<1> QED
  BY <1>1, <1>2, <1>3, <1>4, <1>5, <1>6, <1>7, <1>8, <1>9, <1>10, <1>11,
     <1>12, <1>13, <1>14, <1>15, <1>16, <1>17, <1>18, <1>19 DEF MainStep

LEMMA GuardedByMain ==
  ASSUME TypeOK, RingIsGuarded, MainStep PROVE RingIsGuarded'
BY MainAndTheRing DEF RingIsGuarded

\* A signal moves a thread out of select, sleep or write, to its test.
LEMMA GuardedByEnvironment ==
  ASSUME TypeOK, RingIsGuarded, Environment PROVE RingIsGuarded'
<1> USE ServerAssumption DEF TypeOK, RingIsGuarded, Procs, Goes, Mutexes, syncVars
<1>1. ASSUME NEW p \in Procs, SigInt(p) PROVE RingIsGuarded'
  BY <1>1 DEF SigInt
<1>2. ASSUME NEW t \in Threads, SigIntCutsWrite(t) PROVE RingIsGuarded'
  BY <1>2 DEF SigIntCutsWrite
<1>3. ASSUME NEW c \in Conns, ClientConnect(c) \/ ClientStep(c) PROVE RingIsGuarded'
  BY <1>3 DEF ClientConnect, ClientStep
<1>4. ASSUME NEW p \in Procs, NEW c \in Conds, SpuriousWake(p, c) PROVE RingIsGuarded'
  BY <1>4 DEF SpuriousWake
<1> QED
  BY <1>1, <1>2, <1>3, <1>4 DEF Environment, Conds

(***************************************************************************)
(* The writer and the readers exclude each other.                          *)
(***************************************************************************)
THEOREM RingGuarded == Spec => []RingIsGuarded
<1>1. Init => RingIsGuarded
  BY ServerAssumption DEF Init, RingIsGuarded, Procs
<1>2. TypeOK /\ RingIsGuarded /\ [Next]_vars => RingIsGuarded'
  <2> SUFFICES ASSUME TypeOK, RingIsGuarded, [Next]_vars PROVE RingIsGuarded'
    OBVIOUS
  <2>1. CASE UNCHANGED vars
    BY <2>1 DEF vars, syncVars, RingIsGuarded
  <2> QED
    BY <2>1, GuardedByMain, GuardedByData, GuardedByConn, GuardedByEnvironment
    DEF Next
<1> QED
  BY <1>1, <1>2, TypeCorrect, PTL DEF Spec

-----------------------------------------------------------------------------
(* The ring holds the end of the record.                                   *)

\* Connection threads only read the ring.
LEMMA ConnAndTheRing ==
  ASSUME TypeOK, NEW t \in Threads, ConnStep(t)
  PROVE  /\ UNCHANGED <<data_history, last_index, recorded, round>>
         /\ pc'[Data] = pc[Data] /\ pc'[Main] = pc[Main]
         /\ \A u \in Threads \ {t} : UNCHANGED <<pc[u], content[u]>>
         /\ UNCHANGED content \/ ConnRead(t)
<1> USE ServerAssumption DEF TypeOK, Procs, Goes, Jump, Lock, Sleep,
        vars, syncVars, memVars, ringVars, flagVars, countVars, localVars,
        netVars, envVars
<1>1. CASE ConnStart(t)  BY <1>1 DEF ConnStart
<1>2. CASE ConnCheck(t)  BY <1>2 DEF ConnCheck
<1>3. CASE ConnWaitLock(t)  BY <1>3 DEF ConnWaitLock
<1>4. CASE ConnWait(t)  BY <1>4 DEF ConnWait
<1>5. CASE ConnAwake(t)  BY <1>5 DEF ConnAwake
<1>6. CASE ConnInfoLock(t)  BY <1>6 DEF ConnInfoLock
<1>7. CASE ConnRead(t)  BY <1>7 DEF ConnRead
<1>8. CASE ConnWrite(t)  BY <1>8 DEF ConnWrite
<1>9. CASE ConnWriteFails(t)  BY <1>9 DEF ConnWriteFails
<1>10. CASE ConnClose(t)  BY <1>10 DEF ConnClose
<1>11. CASE ConnReturnLock(t)  BY <1>11 DEF ConnReturnLock
<1>12. CASE ConnReturn(t)  BY <1>12 DEF ConnReturn
<1> QED
  BY <1>1, <1>2, <1>3, <1>4, <1>5, <1>6, <1>7, <1>8, <1>9, <1>10, <1>11,
     <1>12 DEF ConnStep

\* Nor do signals, clients and spurious wakeups write it.
LEMMA EnvironmentAndTheRing ==
  ASSUME TypeOK, Environment
  PROVE  /\ UNCHANGED <<data_history, last_index, recorded, round, content>>
         /\ pc'[Data] = pc[Data] \/ (pc[Data] = "sleep" /\ pc'[Data] = "check")
         /\ pc[Main] # "init" => pc'[Main] # "init"
<1> USE ServerAssumption DEF TypeOK, Procs, Goes, vars, syncVars, memVars,
        ringVars, flagVars, countVars, localVars, netVars, envVars
<1>1. CASE \E p \in Procs : SigInt(p)
  BY <1>1 DEF SigInt
<1>2. CASE \E t \in Threads : SigIntCutsWrite(t)
  BY <1>2 DEF SigIntCutsWrite
<1>3. CASE \E c \in Conns : ClientConnect(c) \/ ClientStep(c)
  BY <1>3 DEF ClientConnect, ClientStep
<1>4. CASE \E p \in Procs, c \in Conds : SpuriousWake(p, c)
  BY <1>4 DEF SpuriousWake
<1> QED
  BY <1>1, <1>2, <1>3, <1>4 DEF Environment, Conds

\* A step that leaves the ring alone, and neither enters nor leaves the part of
\* append_sysinfo that stores a sample, keeps the invariant.
LEMMA RingUntouched ==
  ASSUME RingHoldsRecord,
         UNCHANGED <<data_history, last_index, recorded, round>>,
         \/ pc'[Data] = pc[Data]
         \/ /\ pc[Data] \notin {"none", "append_fill"}
            /\ pc'[Data] \notin {"append_lock", "append_advance", "append_fill"},
         pc[Main] # "init" => pc'[Main] # "init"
  PROVE  RingHoldsRecord'
<1>1. Newest' = Newest
  BY DEF Newest
<1> QED
  BY <1>1 DEF RingHoldsRecord

\* The data thread's steps: the two that write the ring, and the test that
\* lets it store a sample.
LEMMA RingByData ==
  ASSUME TypeOK, RingHoldsRecord, DataStep PROVE RingHoldsRecord'
<1> USE ServerAssumption DEF TypeOK, Procs, Goes, Jump, Lock,
        vars, syncVars, memVars, ringVars, flagVars, countVars, localVars,
        netVars, envVars
<1>0. pc[Data] # "none"
  BY DEF DataStep, DataCheck, DataTime, DataAppendLock, DataAppendAdvance,
         DataAppendFill, DataWakeLock, DataWake, DataSleep
<1>1. CASE DataCheck \/ DataWakeLock \/ DataWake
  BY <1>0, <1>1, RingUntouched DEF DataCheck, DataWakeLock, DataWake
<1>2. CASE DataTime
  BY <1>0, <1>2 DEF DataTime, RingHoldsRecord, Newest
<1>3. CASE DataAppendLock
  BY <1>0, <1>3 DEF DataAppendLock, RingHoldsRecord, Newest
<1>4. CASE DataAppendAdvance
  <2>1. Newest' = Newest
    BY <1>4, SlotArithmetic DEF DataAppendAdvance, Newest
  <2> QED
    BY <1>0, <1>4, <2>1 DEF DataAppendAdvance, RingHoldsRecord
<1>5. CASE DataAppendFill
  <2> DEFINE sample == [timestamp |-> WallClock[round], round |-> round]
             n == Len(recorded)
             left == PrevSlot(last_index)
  <2>1. /\ Newest = left /\ Newest' = last_index
        /\ left \in Slots /\ left # last_index
    BY <1>5, SlotArithmetic DEF DataAppendFill, Newest
  <2>2. /\ recorded' = Append(recorded, sample) /\ sample \in Sample
        /\ last_index' = last_index
        /\ data_history'[last_index] = sample
        /\ data_history'[left] = data_history[left]
    BY <1>5, <2>1 DEF DataAppendFill, Sample
  <2>3. /\ n \in Nat /\ Len(recorded') = n + 1
        /\ recorded'[n + 1] = sample
        /\ \A i \in 1 .. n : recorded'[i] = recorded[i]
    BY <2>2
  <2>4. sample.timestamp # data_history[left].timestamp
    BY <1>5, <2>1 DEF RingHoldsRecord, DataAppendFill
  <2>5. n >= 1 => data_history[left] = recorded[n]
    BY <2>1 DEF RingHoldsRecord
  <2>6. n = 0 => data_history[left] = Unset
    BY <2>1 DEF RingHoldsRecord
  <2>7. \A i \in 2 .. n + 1 : recorded'[i].timestamp # recorded'[i - 1].timestamp
    <3>1. ASSUME NEW i \in 2 .. n
          PROVE  recorded'[i].timestamp # recorded'[i - 1].timestamp
      <4>1. i \in 1 .. n /\ i - 1 \in 1 .. n
        BY <2>3
      <4>2. recorded[i].timestamp # recorded[i - 1].timestamp
        BY DEF RingHoldsRecord
      <4> QED
        BY <2>3, <4>1, <4>2
    <3>2. ASSUME n >= 1
          PROVE  recorded'[n + 1].timestamp # recorded'[n].timestamp
      <4>1. recorded'[n] = data_history[left] /\ recorded'[n + 1] = sample
        BY <2>3, <2>5, <3>2
      <4> HIDE DEF sample, left
      <4> QED
        BY <2>4, <4>1
    <3>3. \A i \in 2 .. n + 1 : i \in 2 .. n \/ (n >= 1 /\ i = n + 1 /\ i - 1 = n)
      BY <2>3
    <3> HIDE DEF n
    <3> QED
      BY <3>1, <3>2, <3>3
  <2>8. pc'[Data] = "wake_lock" /\ (pc'[Main] = "init" => pc[Main] = "init")
    BY <1>5 DEF DataAppendFill
  <2>9. pc'[Main] # "init"
    BY <1>0, <2>8 DEF RingHoldsRecord
  <2> HIDE DEF sample, n, left
  <2>10. PrevSlot(Newest)' = left
    BY <2>1, <2>2 DEF left, PrevSlot
  <2> QED
    BY <2>1, <2>2, <2>3, <2>5, <2>6, <2>7, <2>8, <2>9, <2>10 DEF RingHoldsRecord
<1>6. CASE DataSleep
  BY <1>0, <1>6 DEF DataSleep, RingHoldsRecord, Newest
<1> QED
  BY <1>1, <1>2, <1>3, <1>4, <1>5, <1>6 DEF DataStep

LEMMA RingByMain ==
  ASSUME TypeOK, RingHoldsRecord, MainStep PROVE RingHoldsRecord'
<1>1. CASE MainInit
  <2>1. /\ pc[Main] = "init" /\ pc'[Main] = "listen" /\ pc'[Data] = "check"
        /\ recorded' = recorded
        /\ \A i \in Slots : data_history'[i] = Unset
    BY <1>1, ServerAssumption DEF MainInit, TypeOK, Procs
  <2>2. Len(recorded) = 0
    BY <2>1 DEF RingHoldsRecord
  <2> QED
    BY <2>1, <2>2 DEF RingHoldsRecord
<1>2. CASE ~ MainInit
  BY <1>2, MainAndTheRing, RingUntouched
<1> QED
  BY <1>1, <1>2

(***************************************************************************)
(* The two newest samples are always where the readers look for them.      *)
(***************************************************************************)
THEOREM RingRecorded == Spec => []RingHoldsRecord
<1>1. Init => RingHoldsRecord
  BY ServerAssumption DEF Init, RingHoldsRecord, Newest, Procs
<1>2. TypeOK /\ RingHoldsRecord /\ [Next]_vars => RingHoldsRecord'
  <2> SUFFICES ASSUME TypeOK, RingHoldsRecord, [Next]_vars PROVE RingHoldsRecord'
    OBVIOUS
  <2>1. CASE UNCHANGED vars
    BY <2>1, RingUntouched DEF vars, memVars, ringVars, envVars
  <2>2. ASSUME NEW t \in Threads, ConnStep(t) PROVE RingHoldsRecord'
    BY <2>2, ConnAndTheRing, RingUntouched
  <2>3. CASE Environment
    BY <2>3, EnvironmentAndTheRing, RingUntouched
  <2> QED
    BY <2>1, <2>2, <2>3, RingByMain, RingByData DEF Next
<1> QED
  BY <1>1, <1>2, TypeCorrect, PTL DEF Spec

-----------------------------------------------------------------------------
(* The frames.                                                             *)

\* What a reader formats is the newest pair.
LEMMA ReadNewestPair ==
  ASSUME TypeOK, RingIsGuarded, RingHoldsRecord, NEW t \in Threads, ConnRead(t)
  PROVE  \/ content'[t] = content[t]
         \/ /\ Len(recorded) >= 2
            /\ content'[t] = [cur  |-> recorded[Len(recorded)],
                              prev |-> recorded[Len(recorded) - 1]]
<1> DEFINE cur == data_history[last_index]
           prev == data_history[PrevSlot(last_index)]
<1>1. pc[t] = "read" /\ t # Data
  BY ServerAssumption DEF ConnRead, Goes
<1>2. Newest = last_index
  BY <1>1, ServerAssumption DEF RingIsGuarded, Newest
<1>3. CASE IsSet(cur) /\ IsSet(prev)
  <2>1. content'[t] = [cur |-> cur, prev |-> prev]
    BY <1>3 DEF ConnRead, TypeOK
  <2>2. Len(recorded) # 0 /\ Len(recorded) # 1
    BY <1>2, <1>3, SlotArithmetic DEF TypeOK, RingHoldsRecord, IsSet, Unset
  <2>3. Len(recorded) \in Nat
    BY DEF TypeOK
  <2>4. Len(recorded) >= 2
    <3>1. \A n \in Nat : n # 0 /\ n # 1 => n >= 2
      OBVIOUS
    <3> QED
      BY <2>2, <2>3, <3>1, Zenon
  <2>5. /\ cur = recorded[Len(recorded)]
        /\ prev = recorded[Len(recorded) - 1]
    BY <1>2, <2>4 DEF RingHoldsRecord
  <2> QED
    BY <2>1, <2>4, <2>5, Zenon
<1>4. CASE ~ (IsSet(cur) /\ IsSet(prev))
  BY <1>4 DEF ConnRead
<1> QED
  BY <1>3, <1>4

\* The record only grows.
LEMMA RecordGrows ==
  ASSUME TypeOK, [Next]_vars
  PROVE  /\ Len(recorded') >= Len(recorded)
         /\ \A i \in 1 .. Len(recorded) : recorded'[i] = recorded[i]
<1>1. CASE DataAppendFill
  BY <1>1 DEF DataAppendFill, TypeOK, Sample
<1>2. CASE DataStep /\ ~ DataAppendFill
  <2>1. UNCHANGED recorded
    BY <1>2 DEF DataStep, DataCheck, DataTime, DataAppendLock,
         DataAppendAdvance, DataWakeLock, DataWake, DataSleep, Lock, Jump,
         memVars, ringVars
  <2> QED
    BY <2>1 DEF TypeOK
<1>3. CASE ~ DataStep
  <2>1. UNCHANGED recorded
    BY <1>3, MainAndTheRing, ConnAndTheRing, EnvironmentAndTheRing
    DEF Next, vars, memVars, ringVars
  <2> QED
    BY <2>1 DEF TypeOK
<1> QED
  BY <1>1, <1>2, <1>3

\* A formatted frame is a pair of neighbours, and stays one as the record grows.
LEMMA FramesStep ==
  ASSUME TypeOK, RingIsGuarded, RingHoldsRecord, FramesAreConsecutive, [Next]_vars
  PROVE  FramesAreConsecutive'
<1> SUFFICES ASSUME NEW t \in Threads, content'[t] # NoFrame
             PROVE  \E i \in 2 .. Len(recorded') :
                      content'[t] = [cur |-> recorded'[i], prev |-> recorded'[i - 1]]
  BY DEF FramesAreConsecutive
<1>1. /\ Len(recorded) \in Nat /\ Len(recorded') \in Nat
      /\ Len(recorded') >= Len(recorded)
      /\ \A i \in 1 .. Len(recorded) : recorded'[i] = recorded[i]
  <2>1. recorded \in Seq(Sample) /\ recorded' \in Seq(Sample)
    BY TypeStep DEF TypeOK
  <2> QED
    BY <2>1, RecordGrows
<1>2. \/ content'[t] = content[t]
      \/ ConnRead(t)
  <2>1. CASE DataStep
    BY <2>1 DEF DataStep, DataCheck, DataTime, DataAppendLock,
         DataAppendAdvance, DataAppendFill, DataWakeLock, DataWake, DataSleep,
         Lock, Jump, memVars, localVars
  <2>2. ASSUME NEW u \in Threads, ConnStep(u)
        PROVE  content'[t] = content[t] \/ ConnRead(t)
    BY <2>2, ConnAndTheRing
  <2>3. CASE MainStep \/ Environment \/ UNCHANGED vars
    BY <2>3, MainAndTheRing, EnvironmentAndTheRing DEF vars, memVars, localVars
  <2> QED
    BY <2>1, <2>2, <2>3 DEF Next
<1>3. CASE content'[t] = content[t]
  <2>1. PICK i \in 2 .. Len(recorded) :
               content[t] = [cur |-> recorded[i], prev |-> recorded[i - 1]]
    BY <1>3 DEF FramesAreConsecutive
  <2>2. /\ i \in 2 .. Len(recorded')
        /\ recorded'[i] = recorded[i] /\ recorded'[i - 1] = recorded[i - 1]
    BY <1>1
  <2> QED
    BY <1>3, <2>1, <2>2
<1>4. CASE ConnRead(t) /\ content'[t] # content[t]
  <2>1. /\ Len(recorded) >= 2
        /\ content'[t] = [cur  |-> recorded[Len(recorded)],
                          prev |-> recorded[Len(recorded) - 1]]
    BY <1>4, ReadNewestPair
  <2>2. recorded' = recorded
    BY <1>4 DEF ConnRead, ringVars
  <2>3. Len(recorded) \in 2 .. Len(recorded')
    BY <1>1, <2>1, <2>2
  <2> QED
    BY <2>1, <2>2, <2>3
<1> QED
  BY <1>2, <1>3, <1>4

(***************************************************************************)
(* A frame is made of two samples recorded one right after the other.      *)
(***************************************************************************)
THEOREM FramesCorrect == Spec => []FramesAreConsecutive
<1>1. Init => FramesAreConsecutive
  BY DEF Init, FramesAreConsecutive
<1> QED
  BY <1>1, FramesStep, TypeCorrect, RingGuarded, RingRecorded, PTL DEF Spec

(***************************************************************************)
(* The rates of a frame divide by a time difference that is not zero.      *)
(***************************************************************************)
THEOREM RatesCorrect == Spec => []RatesAreDefined
<1>1. TypeOK /\ RingHoldsRecord /\ FramesAreConsecutive => RatesAreDefined
  <2> SUFFICES ASSUME TypeOK, RingHoldsRecord, FramesAreConsecutive,
                      NEW t \in Threads, content[t] # NoFrame
               PROVE  content[t].cur.timestamp - content[t].prev.timestamp # 0
    BY DEF RatesAreDefined
  <2>1. PICK i \in 2 .. Len(recorded) :
               content[t] = [cur |-> recorded[i], prev |-> recorded[i - 1]]
    BY DEF FramesAreConsecutive
  <2>2. recorded[i].timestamp # recorded[i - 1].timestamp
    BY DEF RingHoldsRecord
  <2>3. recorded[i] \in Sample /\ recorded[i - 1] \in Sample
    BY DEF TypeOK
  <2>4. recorded[i].timestamp \in Nat /\ recorded[i - 1].timestamp \in Nat
    BY <2>3 DEF Sample
  <2> QED
    BY <2>1, <2>2, <2>4
<1> QED
  BY <1>1, TypeCorrect, RingRecorded, FramesCorrect, PTL

-----------------------------------------------------------------------------
(* The mutexes.                                                            *)

LEMMA InsideByData ==
  ASSUME TypeOK, OwnersAreInside, DataStep PROVE OwnersAreInside'
<1> USE ServerAssumption DEF TypeOK, OwnersAreInside, Inside, Procs, Goes, Jump,
        Acquire, Release, WakeAll, Lock, Mutexes, syncVars
<1>1. CASE DataCheck  BY <1>1 DEF DataCheck
<1>2. CASE DataTime   BY <1>2 DEF DataTime
<1>3. CASE DataAppendLock  BY <1>3 DEF DataAppendLock
<1>4. CASE DataAppendAdvance  BY <1>4 DEF DataAppendAdvance
<1>5. CASE DataAppendFill  BY <1>5 DEF DataAppendFill
<1>6. CASE DataWakeLock  BY <1>6 DEF DataWakeLock
<1>7. CASE DataWake  BY <1>7 DEF DataWake
<1>8. CASE DataSleep  BY <1>8 DEF DataSleep
<1> QED
  BY <1>1, <1>2, <1>3, <1>4, <1>5, <1>6, <1>7, <1>8 DEF DataStep

LEMMA InsideByConn ==
  ASSUME TypeOK, OwnersAreInside, NEW t \in Threads, ConnStep(t)
  PROVE  OwnersAreInside'
<1> USE ServerAssumption DEF TypeOK, OwnersAreInside, Inside, Procs, Goes, Jump,
        Acquire, Release, WakeAll, Lock, Sleep, Mutexes, syncVars
<1>1. CASE ConnStart(t)  BY <1>1 DEF ConnStart
<1>2. CASE ConnCheck(t)  BY <1>2 DEF ConnCheck
<1>3. CASE ConnWaitLock(t)  BY <1>3 DEF ConnWaitLock
<1>4. CASE ConnWait(t)  BY <1>4 DEF ConnWait
<1>5. CASE ConnAwake(t)  BY <1>5 DEF ConnAwake
<1>6. CASE ConnInfoLock(t)  BY <1>6 DEF ConnInfoLock
<1>7. CASE ConnRead(t)  BY <1>7 DEF ConnRead
<1>8. CASE ConnWrite(t)  BY <1>8 DEF ConnWrite
<1>9. CASE ConnWriteFails(t)  BY <1>9 DEF ConnWriteFails
<1>10. CASE ConnClose(t)  BY <1>10 DEF ConnClose
<1>11. CASE ConnReturnLock(t)  BY <1>11 DEF ConnReturnLock
<1>12. CASE ConnReturn(t)  BY <1>12 DEF ConnReturn
<1> QED
  BY <1>1, <1>2, <1>3, <1>4, <1>5, <1>6, <1>7, <1>8, <1>9, <1>10, <1>11,
     <1>12 DEF ConnStep

LEMMA InsideByMain ==
  ASSUME TypeOK, OwnersAreInside, MainStep PROVE OwnersAreInside'
<1> USE ServerAssumption DEF TypeOK, OwnersAreInside, Inside, Procs, Goes, Jump,
        Acquire, Release, WakeAll, Lock, Sleep, Mutexes, syncVars
<1>1. CASE MainInit  BY <1>1 DEF MainInit
<1>2. CASE MainListen  BY <1>2 DEF MainListen
<1>3. CASE MainCheck  BY <1>3 DEF MainCheck
<1>4. CASE MainSelect  BY <1>4 DEF MainSelect
<1>5. CASE MainAccept  BY <1>5 DEF MainAccept
<1>6. CASE MainCountLock  BY <1>6 DEF MainCountLock
<1>7. CASE MainCountInc  BY <1>7 DEF MainCountInc
<1>8. CASE MainCreate  BY <1>8 DEF MainCreate, Unused
<1>9. CASE MainCreateFails  BY <1>9 DEF MainCreateFails
<1>10. CASE MainClose  BY <1>10 DEF MainClose
<1>11. CASE MainStopData  BY <1>11 DEF MainStopData
<1>12. CASE MainJoin  BY <1>12 DEF MainJoin
<1>13. CASE MainDrainLock  BY <1>13 DEF MainDrainLock
<1>14. CASE MainDrainTest  BY <1>14 DEF MainDrainTest
<1>15. CASE MainDrainInfoLock  BY <1>15 DEF MainDrainInfoLock
<1>16. CASE MainDrainWake  BY <1>16 DEF MainDrainWake
<1>17. CASE MainDrainWait  BY <1>17 DEF MainDrainWait
<1>18. CASE MainDrainAwake  BY <1>18 DEF MainDrainAwake
<1>19. CASE MainReturn  BY <1>19 DEF MainReturn
<1> QED
  BY <1>1, <1>2, <1>3, <1>4, <1>5, <1>6, <1>7, <1>8, <1>9, <1>10, <1>11,
     <1>12, <1>13, <1>14, <1>15, <1>16, <1>17, <1>18, <1>19 DEF MainStep

LEMMA InsideByEnvironment ==
  ASSUME TypeOK, OwnersAreInside, Environment PROVE OwnersAreInside'
<1> USE ServerAssumption DEF TypeOK, OwnersAreInside, Inside, Procs, Goes,
        Mutexes, syncVars
<1>1. ASSUME NEW p \in Procs, SigInt(p) PROVE OwnersAreInside'
  BY <1>1 DEF SigInt
<1>2. ASSUME NEW t \in Threads, SigIntCutsWrite(t) PROVE OwnersAreInside'
  BY <1>2 DEF SigIntCutsWrite
<1>3. ASSUME NEW c \in Conns, ClientConnect(c) \/ ClientStep(c) PROVE OwnersAreInside'
  BY <1>3 DEF ClientConnect, ClientStep
<1>4. ASSUME NEW p \in Procs, NEW c \in Conds, SpuriousWake(p, c) PROVE OwnersAreInside'
  BY <1>4 DEF SpuriousWake
<1> QED
  BY <1>1, <1>2, <1>3, <1>4 DEF Environment, Conds

(***************************************************************************)
(* A mutex is owned only by a thread inside one of its sections.           *)
(***************************************************************************)
THEOREM OwnersCorrect == Spec => []OwnersAreInside
<1>1. Init => OwnersAreInside
  BY ServerAssumption DEF Init, OwnersAreInside, Inside, Mutexes, Procs
<1>2. TypeOK /\ OwnersAreInside /\ [Next]_vars => OwnersAreInside'
  <2> SUFFICES ASSUME TypeOK, OwnersAreInside, [Next]_vars PROVE OwnersAreInside'
    OBVIOUS
  <2>1. CASE UNCHANGED vars
    BY <2>1 DEF vars, syncVars, OwnersAreInside, Inside
  <2> QED
    BY <2>1, InsideByMain, InsideByData, InsideByConn, InsideByEnvironment
    DEF Next
<1> QED
  BY <1>1, <1>2, TypeCorrect, PTL DEF Spec

(***************************************************************************)
(* No thread is in a blocking call with a mutex.                           *)
(***************************************************************************)
THEOREM MutexesDoNotBlock == Spec => []NoBlockingUnderMutex
<1>1. OwnersAreInside => NoBlockingUnderMutex
  BY DEF OwnersAreInside, Inside, NoBlockingUnderMutex, Mutexes
<1> QED
  BY <1>1, OwnersCorrect, PTL

-----------------------------------------------------------------------------
(* The count.                                                              *)

\* A connection thread touches the count only as it returns.
LEMMA ConnAndTheCount ==
  ASSUME TypeOK, NEW t \in Threads, ConnStep(t)
  PROVE  /\ pc'[Main] = pc[Main] /\ pc'[Data] = pc[Data] /\ lost' = lost
         /\ socketConnection' = socketConnection
         /\ \A u \in Threads \ {t} : pc'[u] = pc[u] /\ sockfd'[u] = sockfd[u]
         /\ thread_data' = thread_data
         /\ pc[t] \notin {"none", "done"}
         /\ \/ pc'[t] = "done" /\ active_thread_count' = active_thread_count - 1
            \/ /\ pc'[t] \notin {"none", "done"}
               /\ active_thread_count' = active_thread_count
<1> USE ServerAssumption DEF TypeOK, Procs, Goes, Jump, Acquire, Release, WakeAll,
        Lock, Sleep, vars, syncVars, memVars, ringVars, flagVars, countVars,
        localVars, netVars, envVars
<1>1. CASE ConnStart(t)  BY <1>1 DEF ConnStart
<1>2. CASE ConnCheck(t)  BY <1>2 DEF ConnCheck
<1>3. CASE ConnWaitLock(t)  BY <1>3 DEF ConnWaitLock
<1>4. CASE ConnWait(t)  BY <1>4 DEF ConnWait
<1>5. CASE ConnAwake(t)  BY <1>5 DEF ConnAwake
<1>6. CASE ConnInfoLock(t)  BY <1>6 DEF ConnInfoLock
<1>7. CASE ConnRead(t)  BY <1>7 DEF ConnRead
<1>8. CASE ConnWrite(t)  BY <1>8 DEF ConnWrite
<1>9. CASE ConnWriteFails(t)  BY <1>9 DEF ConnWriteFails
<1>10. CASE ConnClose(t)  BY <1>10 DEF ConnClose
<1>11. CASE ConnReturnLock(t)  BY <1>11 DEF ConnReturnLock
<1>12. CASE ConnReturn(t)  BY <1>12 DEF ConnReturn
<1> QED
  BY <1>1, <1>2, <1>3, <1>4, <1>5, <1>6, <1>7, <1>8, <1>9, <1>10, <1>11,
     <1>12 DEF ConnStep

\* Main creates the threads, and counts each one a little before.
LEMMA MainAndTheCount ==
  ASSUME TypeOK, MainStep
  PROVE  \/ MainCreate \/ MainCreateFails \/ MainCountInc
         \/ /\ pc[Main] # "create" /\ pc'[Main] # "create"
            /\ active_thread_count' = active_thread_count /\ lost' = lost
            /\ \A t \in Threads : pc'[t] = pc[t]
<1> USE ServerAssumption DEF TypeOK, Procs, Goes, Jump, Acquire, Release, WakeAll,
        Lock, Sleep, vars, syncVars, memVars, ringVars, flagVars, countVars,
        localVars, netVars, envVars
<1>1. CASE MainInit  BY <1>1 DEF MainInit
<1>2. CASE MainListen  BY <1>2 DEF MainListen
<1>3. CASE MainCheck  BY <1>3 DEF MainCheck
<1>4. CASE MainSelect  BY <1>4 DEF MainSelect
<1>5. CASE MainAccept  BY <1>5 DEF MainAccept, Pending
<1>6. CASE MainCountLock  BY <1>6 DEF MainCountLock
<1>7. CASE MainCountInc  BY <1>7 DEF MainCountInc
<1>8. CASE MainCreate  BY <1>8 DEF MainCreate, Unused
<1>9. CASE MainCreateFails  BY <1>9 DEF MainCreateFails
<1>10. CASE MainClose  BY <1>10 DEF MainClose, Pending
<1>11. CASE MainStopData  BY <1>11 DEF MainStopData
<1>12. CASE MainJoin  BY <1>12 DEF MainJoin
<1>13. CASE MainDrainLock  BY <1>13 DEF MainDrainLock
<1>14. CASE MainDrainTest  BY <1>14 DEF MainDrainTest
<1>15. CASE MainDrainInfoLock  BY <1>15 DEF MainDrainInfoLock
<1>16. CASE MainDrainWake  BY <1>16 DEF MainDrainWake
<1>17. CASE MainDrainWait  BY <1>17 DEF MainDrainWait
<1>18. CASE MainDrainAwake  BY <1>18 DEF MainDrainAwake
<1>19. CASE MainReturn  BY <1>19 DEF MainReturn
<1> QED
  BY <1>1, <1>2, <1>3, <1>4, <1>5, <1>6, <1>7, <1>8, <1>9, <1>10, <1>11,
     <1>12, <1>13, <1>14, <1>15, <1>16, <1>17, <1>18, <1>19 DEF MainStep

\* A signal, a client or a spurious wakeup neither creates nor ends a thread.
LEMMA EnvironmentAndTheCount ==
  ASSUME TypeOK, Environment
  PROVE  /\ active_thread_count' = active_thread_count /\ lost' = lost
         /\ pc'[Main] = pc[Main] \/ (pc[Main] = "select" /\ pc'[Main] = "check")
         /\ pc'[Data] = pc[Data] \/ (pc[Data] = "sleep" /\ pc'[Data] = "check")
         /\ \A t \in Threads : \/ pc'[t] = pc[t]
                               \/ pc[t] = "write" /\ pc'[t] = "check"
         /\ UNCHANGED <<socketConnection, thread_data, sockfd>>
<1> USE ServerAssumption DEF TypeOK, Procs, Goes, vars, syncVars, memVars,
        ringVars, flagVars, countVars, localVars, netVars, envVars
<1>1. CASE \E p \in Procs : SigInt(p)
  BY <1>1 DEF SigInt
<1>2. CASE \E t \in Threads : SigIntCutsWrite(t)
  BY <1>2 DEF SigIntCutsWrite
<1>3. CASE \E c \in Conns : ClientConnect(c) \/ ClientStep(c)
  BY <1>3 DEF ClientConnect, ClientStep
<1>4. CASE \E p \in Procs, c \in Conds : SpuriousWake(p, c)
  BY <1>4 DEF SpuriousWake
<1> QED
  BY <1>1, <1>2, <1>3, <1>4 DEF Environment, Conds

\* The threads are finitely many, so their number is.
LEMMA LiveFinite ==
  /\ IsFiniteSet(Live)
  /\ Cardinality(Live) \in Nat
<1>1. Live \in SUBSET Threads /\ IsFiniteSet(Threads)
  BY ServerAssumption DEF Live
<1> QED
  BY <1>1, FS_Subset, FS_CardinalityType

\* A step that neither creates nor ends a thread keeps the count right.
LEMMA CountUntouched ==
  ASSUME CountIsLiveThreads,
         active_thread_count' = active_thread_count, lost' = lost,
         pc'[Main] = "create" <=> pc[Main] = "create",
         \A t \in Threads : pc'[t] \in {"none", "done"} <=> pc[t] \in {"none", "done"}
  PROVE  CountIsLiveThreads'
<1>1. Live' = Live
  BY DEF Live
<1>2. (pc'[Main] = "create") = (pc[Main] = "create")
  OBVIOUS
<1> QED
  BY <1>1, <1>2 DEF CountIsLiveThreads

LEMMA CountByConn ==
  ASSUME TypeOK, CountIsLiveThreads, NEW t \in Threads, ConnStep(t)
  PROVE  CountIsLiveThreads'
<1>1. CASE pc'[t] = "done"
  <2>1. Live' = Live \ {t} /\ t \in Live
    BY <1>1, ConnAndTheCount DEF Live
  <2>2. Cardinality(Live') = Cardinality(Live) - 1
    BY <2>1, LiveFinite, FS_RemoveElement
  <2>3. active_thread_count' = active_thread_count - 1 /\ lost' = lost
    BY <1>1, ConnAndTheCount
  <2>4. (pc'[Main] = "create") = (pc[Main] = "create")
    BY ConnAndTheCount
  <2> QED
    BY <2>2, <2>3, <2>4, LiveFinite DEF CountIsLiveThreads, TypeOK
<1>2. CASE pc'[t] # "done"
  BY <1>2, ConnAndTheCount, CountUntouched
<1> QED
  BY <1>1, <1>2

LEMMA CountByMain ==
  ASSUME TypeOK, CountIsLiveThreads, MainStep PROVE CountIsLiveThreads'
<1>1. CASE MainCountInc
  <2>1. /\ pc[Main] = "count_inc" /\ pc'[Main] = "create"
        /\ active_thread_count' = active_thread_count + 1 /\ lost' = lost
        /\ \A t \in Threads : pc'[t] = pc[t]
    BY <1>1, ServerAssumption DEF MainCountInc, Goes, TypeOK, Procs
  <2>2. Live' = Live
    BY <2>1 DEF Live
  <2> QED
    BY <2>1, <2>2, LiveFinite DEF CountIsLiveThreads, TypeOK
<1>2. CASE MainCreate
  <2>1. PICK t \in Threads :
          /\ pc[t] = "none" /\ pc'[t] = "start"
          /\ pc[Main] = "create" /\ pc'[Main] = "check"
          /\ \A u \in Threads \ {t} : pc'[u] = pc[u]
    BY <1>2, ServerAssumption DEF MainCreate, Unused, TypeOK, Procs
  <2>2. Live' = Live \cup {t} /\ t \notin Live
    BY <2>1 DEF Live
  <2>3. Cardinality(Live') = Cardinality(Live) + 1
    BY <2>2, LiveFinite, FS_AddElement
  <2>4. active_thread_count' = active_thread_count /\ lost' = lost
    BY <1>2 DEF MainCreate, countVars
  <2> QED
    BY <2>1, <2>3, <2>4, LiveFinite DEF CountIsLiveThreads, TypeOK
<1>3. CASE MainCreateFails
  <2>1. /\ pc[Main] = "create" /\ pc'[Main] = "check"
        /\ active_thread_count' = active_thread_count /\ lost' = lost + 1
        /\ \A t \in Threads : pc'[t] = pc[t]
    BY <1>3, ServerAssumption DEF MainCreateFails, Goes, TypeOK, Procs
  <2>2. Live' = Live
    BY <2>1 DEF Live
  <2> QED
    BY <2>1, <2>2, LiveFinite DEF CountIsLiveThreads, TypeOK
<1> QED
  BY <1>1, <1>2, <1>3, MainAndTheCount, CountUntouched

(***************************************************************************)
(* active_thread_count is the threads that have not returned, the one      *)
(* about to be created, and those that could not be.                       *)
(***************************************************************************)
THEOREM CountCorrect == Spec => []CountIsLiveThreads
<1>1. Init => CountIsLiveThreads
  <2> SUFFICES ASSUME Init PROVE CountIsLiveThreads
    OBVIOUS
  <2>1. Live = {} /\ pc[Main] = "init"
    BY ServerAssumption DEF Init, Live, Procs
  <2> QED
    BY <2>1, FS_EmptySet DEF Init, CountIsLiveThreads
<1>2. TypeOK /\ CountIsLiveThreads /\ [Next]_vars => CountIsLiveThreads'
  <2> SUFFICES ASSUME TypeOK, CountIsLiveThreads, [Next]_vars
               PROVE  CountIsLiveThreads'
    OBVIOUS
  <2>1. CASE UNCHANGED vars
    BY <2>1, CountUntouched DEF vars, memVars, countVars
  <2>2. CASE DataStep
    <3>1. /\ \A p \in Procs \ {Data} : pc'[p] = pc[p]
          /\ active_thread_count' = active_thread_count /\ lost' = lost
      BY <2>2 DEF DataStep, DataCheck, DataTime, DataAppendLock,
         DataAppendAdvance, DataAppendFill, DataWakeLock, DataWake, DataSleep,
         Lock, Jump, Goes, memVars, countVars, TypeOK
    <3> QED
      BY <3>1, ServerAssumption, CountUntouched DEF Procs
  <2>3. CASE Environment
    BY <2>3, EnvironmentAndTheCount, CountUntouched
  <2> QED
    BY <2>1, <2>2, <2>3, CountByMain, CountByConn DEF Next
<1> QED
  BY <1>1, <1>2, TypeCorrect, PTL DEF Spec

-----------------------------------------------------------------------------
(* The descriptors.                                                        *)

\* What a thread serves is a connection, or the -1 of a failed accept.
LEMMA ServedType == ASSUME TypeOK, NEW t \in Threads PROVE Served(t) \in Conns \cup {NoConn}
BY DEF TypeOK, Served

LEMMA TendedUntouched ==
  ASSUME TypeOK, ConnectionsAreTended, lost' = lost,
         Serving' = Serving, \A t \in Serving : Served(t)' = Served(t),
         \A c \in Conns : conn'[c] = "accepted" <=> conn[c] = "accepted",
         \A c \in Conns : InHand(c)' <=> InHand(c)
  PROVE  ConnectionsAreTended'
<1>1. \A t \in Serving : Served(t) \in Conns \cup {NoConn}
  BY ServedType DEF Serving
<1>2. DescriptorsAreOwned'
  BY <1>1 DEF ConnectionsAreTended, DescriptorsAreOwned
<1>3. \A c \in Conns : InHand(c)' =>
        conn'[c] = "accepted" /\ \A t \in Serving' : Served(t)' # c
  BY DEF ConnectionsAreTended
<1>4. lost' = 0 => \A c \in Conns : conn'[c] = "accepted" =>
        InHand(c)' \/ \E t \in Serving' : Served(t)' = c
  BY DEF ConnectionsAreTended
<1> QED
  BY <1>2, <1>3, <1>4 DEF ConnectionsAreTended

\* Most steps of a thread change neither a connection nor what it serves.
LEMMA TendedByConn ==
  ASSUME TypeOK, ConnectionsAreTended, NEW t \in Threads, ConnStep(t)
  PROVE  ConnectionsAreTended'
<1> USE ServerAssumption
<1>0. /\ lost' = lost /\ pc'[Main] = pc[Main]
      /\ socketConnection' = socketConnection /\ thread_data' = thread_data
      /\ \A u \in Threads \ {t} : pc'[u] = pc[u] /\ sockfd'[u] = sockfd[u]
      /\ \A c \in Conns : InHand(c)' <=> InHand(c)
  BY ConnAndTheCount DEF InHand
<1>1. CASE ConnStart(t)
  <2>1. /\ pc[t] = "start" /\ pc'[t] = "check" /\ sockfd'[t] = thread_data[t]
        /\ conn' = conn
    BY <1>1 DEF ConnStart, Goes, TypeOK, Procs, netVars
  <2>2. Serving' = Serving
    BY <1>0, <2>1 DEF Serving
  <2>3. \A u \in Threads : Served(u)' = Served(u)
    BY <1>0, <2>1 DEF Served
  <2> QED
    BY <1>0, <2>1, <2>2, <2>3, TendedUntouched DEF Serving
<1>2. CASE ConnClose(t)
  <2>1. /\ pc[t] = "close" /\ pc'[t] = "return_lock" /\ sockfd' = sockfd
        /\ conn' = IF sockfd[t] = NoConn THEN conn
                     ELSE [conn EXCEPT ![sockfd[t]] = "closed"]
    BY <1>2 DEF ConnClose, Goes, TypeOK, Procs, memVars, localVars
  <2>2. Serving' = Serving \ {t} /\ t \in Serving /\ Served(t) = sockfd[t]
    BY <1>0, <2>1 DEF Serving, Served
  <2>3. \A u \in Serving' : Served(u)' = Served(u) /\ u \in Serving /\ u # t
    BY <1>0, <2>1, <2>2 DEF Serving, Served
  <2>4. \A u \in Serving : Served(u) \in Conns \cup {NoConn}
    BY ServedType DEF Serving
  <2>5. \A c \in Conns : conn'[c] = IF c = sockfd[t] THEN "closed" ELSE conn[c]
    BY <2>1 DEF TypeOK
  <2>6. DescriptorsAreOwned'
    BY <2>2, <2>3, <2>4, <2>5 DEF ConnectionsAreTended, DescriptorsAreOwned
  <2>7. \A c \in Conns : InHand(c)' =>
          conn'[c] = "accepted" /\ \A u \in Serving' : Served(u)' # c
    BY <1>0, <2>2, <2>3, <2>5 DEF ConnectionsAreTended
  <2>8. lost' = 0 => \A c \in Conns : conn'[c] = "accepted" =>
          InHand(c)' \/ \E u \in Serving' : Served(u)' = c
    BY <1>0, <2>2, <2>3, <2>5 DEF ConnectionsAreTended
  <2> QED
    BY <2>6, <2>7, <2>8 DEF ConnectionsAreTended
<1>3. CASE ~ ConnStart(t) /\ ~ ConnClose(t)
  <2>1. /\ conn' = conn /\ sockfd' = sockfd
        /\ pc[t] # "start" /\ pc'[t] # "start"
        /\ t \in Serving' <=> t \in Serving
    BY <1>3 DEF ConnStep, ConnCheck, ConnWaitLock, ConnWait, ConnAwake,
         ConnInfoLock, ConnRead, ConnWrite, ConnWriteFails, ConnReturnLock,
         ConnReturn, Goes, Jump, Lock, Sleep, TypeOK, Procs, memVars,
         localVars, netVars, Serving
  <2>2. Serving' = Serving
    BY <1>0, <2>1 DEF Serving
  <2>3. \A u \in Threads : Served(u)' = Served(u)
    BY <1>0, <2>1 DEF Served
  <2> QED
    BY <1>0, <2>1, <2>2, <2>3, TendedUntouched DEF Serving
<1> QED
  BY <1>1, <1>2, <1>3

\* The other steps of main leave threads and connections as they are.
LEMMA MainUnhanded ==
  ASSUME TypeOK, MainStep, ~ MainAccept, ~ MainCreate, ~ MainCreateFails
  PROVE  /\ \A t \in Threads : pc'[t] = pc[t]
         /\ lost' = lost /\ sockfd' = sockfd /\ thread_data' = thread_data
         /\ socketConnection' = socketConnection
         /\ \/ conn' = conn
            \/ conn' = [c \in Conns |-> IF c \in Pending THEN "refused" ELSE conn[c]]
         /\ (pc'[Main] \in {"count_lock", "count_inc", "create"}) <=>
              (pc[Main] \in {"count_lock", "count_inc", "create"})
<1> USE ServerAssumption DEF TypeOK, Procs, Goes, Jump, Lock, Sleep, vars,
        syncVars, memVars, countVars, localVars, netVars
<1>1. CASE MainInit  BY <1>1 DEF MainInit
<1>2. CASE MainListen  BY <1>2 DEF MainListen
<1>3. CASE MainCheck  BY <1>3 DEF MainCheck
<1>4. CASE MainSelect  BY <1>4 DEF MainSelect
<1>5. CASE MainCountLock  BY <1>5 DEF MainCountLock
<1>6. CASE MainCountInc  BY <1>6 DEF MainCountInc
<1>7. CASE MainClose  BY <1>7 DEF MainClose
<1>8. CASE MainStopData  BY <1>8 DEF MainStopData
<1>9. CASE MainJoin  BY <1>9 DEF MainJoin
<1>10. CASE MainDrainLock  BY <1>10 DEF MainDrainLock
<1>11. CASE MainDrainTest  BY <1>11 DEF MainDrainTest
<1>12. CASE MainDrainInfoLock  BY <1>12 DEF MainDrainInfoLock
<1>13. CASE MainDrainWake  BY <1>13 DEF MainDrainWake
<1>14. CASE MainDrainWait  BY <1>14 DEF MainDrainWait
<1>15. CASE MainDrainAwake  BY <1>15 DEF MainDrainAwake
<1>16. CASE MainReturn  BY <1>16 DEF MainReturn
<1> QED
  BY <1>1, <1>2, <1>3, <1>4, <1>5, <1>6, <1>7, <1>8, <1>9, <1>10, <1>11,
     <1>12, <1>13, <1>14, <1>15, <1>16 DEF MainStep

\* Main takes a connection in hand, and lets go of it for a thread.
LEMMA TendedByMain ==
  ASSUME TypeOK, ConnectionsAreTended, MainStep PROVE ConnectionsAreTended'
<1> USE ServerAssumption
<1>1. CASE MainAccept
  <2>1. /\ pc[Main] = "accept" /\ pc'[Main] = "count_lock"
        /\ \A t \in Threads : pc'[t] = pc[t]
        /\ lost' = lost /\ sockfd' = sockfd /\ thread_data' = thread_data
    BY <1>1 DEF MainAccept, Goes, TypeOK, Procs, countVars
  <2>2. Serving' = Serving /\ \A t \in Serving : Served(t)' = Served(t)
    BY <2>1 DEF Serving, Served
  <2>3. \A t \in Serving : Served(t) \in Conns \cup {NoConn}
    BY ServedType DEF Serving
  <2>4. CASE socketConnection' = NoConn /\ conn' = conn
    <3>1. \A c \in Conns : ~ InHand(c) /\ ~ InHand(c)'
      BY <2>1, <2>4 DEF InHand
    <3> QED
      BY <2>1, <2>2, <2>4, <3>1, TendedUntouched
  <2>5. ASSUME NEW d \in Conns, conn[d] = "pending", socketConnection' = d,
               conn' = [conn EXCEPT ![d] = "accepted"]
        PROVE  ConnectionsAreTended'
    <3>1. \A c \in Conns : /\ ~ InHand(c) /\ (InHand(c)' <=> c = d)
                           /\ conn'[c] = IF c = d THEN "accepted" ELSE conn[c]
      BY <2>1, <2>5 DEF InHand, TypeOK
    <3>2. DescriptorsAreOwned'
      BY <2>2, <2>3, <3>1 DEF ConnectionsAreTended, DescriptorsAreOwned
    <3>3. \A t \in Serving : Served(t) # d
      BY <2>5 DEF ConnectionsAreTended, DescriptorsAreOwned
    <3> QED
      BY <2>1, <2>2, <3>1, <3>2, <3>3 DEF ConnectionsAreTended
  <2> QED
    BY <1>1, <2>4, <2>5 DEF MainAccept, Pending
<1>2. CASE MainCreate
  <2>1. PICK t \in Threads :
          /\ pc[t] = "none" /\ pc'[t] = "start"
          /\ pc[Main] = "create" /\ pc'[Main] = "check"
          /\ \A u \in Threads \ {t} : pc'[u] = pc[u]
          /\ thread_data' = [thread_data EXCEPT ![t] = socketConnection]
    BY <1>2 DEF MainCreate, Unused, TypeOK, Procs
  <2>2. /\ lost' = lost /\ sockfd' = sockfd /\ conn' = conn
        /\ socketConnection' = socketConnection
    BY <1>2 DEF MainCreate, countVars, netVars
  <2>3. /\ Serving' = Serving \cup {t} /\ t \notin Serving
        /\ Served(t)' = socketConnection
        /\ \A u \in Serving : Served(u)' = Served(u) /\ u # t
    BY <2>1, <2>2 DEF Serving, Served, TypeOK
  <2>4. \A c \in Conns : ~ InHand(c)' /\ (InHand(c) <=> c = socketConnection)
    BY <2>1 DEF InHand
  <2>5. /\ socketConnection \in Conns \cup {NoConn}
        /\ \A u \in Serving : Served(u) \in Conns \cup {NoConn}
    BY ServedType DEF Serving, TypeOK
  <2>6. DescriptorsAreOwned'
    BY <2>2, <2>3, <2>4, <2>5 DEF ConnectionsAreTended, DescriptorsAreOwned
  <2> QED
    BY <2>2, <2>3, <2>4, <2>6 DEF ConnectionsAreTended
<1>3. CASE MainCreateFails
  <2>1. /\ pc[Main] = "create" /\ pc'[Main] = "check"
        /\ \A t \in Threads : pc'[t] = pc[t]
        /\ lost' # 0 /\ conn' = conn /\ sockfd' = sockfd
        /\ thread_data' = thread_data
    BY <1>3 DEF MainCreateFails, Goes, TypeOK, Procs, netVars, localVars
  <2>2. Serving' = Serving /\ \A t \in Serving : Served(t)' = Served(t)
    BY <2>1 DEF Serving, Served
  <2>3. \A c \in Conns : ~ InHand(c)'
    BY <2>1 DEF InHand
  <2> QED
    BY <2>1, <2>2, <2>3 DEF ConnectionsAreTended, DescriptorsAreOwned
<1>4. CASE ~ MainAccept /\ ~ MainCreate /\ ~ MainCreateFails
  <2>1. /\ \A t \in Threads : pc'[t] = pc[t]
        /\ lost' = lost /\ sockfd' = sockfd /\ thread_data' = thread_data
        /\ socketConnection' = socketConnection
        /\ \/ conn' = conn
           \/ conn' = [c \in Conns |-> IF c \in Pending THEN "refused" ELSE conn[c]]
        /\ (pc'[Main] \in {"count_lock", "count_inc", "create"}) <=>
             (pc[Main] \in {"count_lock", "count_inc", "create"})
    BY <1>4, MainUnhanded
  <2>2. Serving' = Serving /\ \A t \in Serving : Served(t)' = Served(t)
    BY <2>1 DEF Serving, Served
  <2>3. \A c \in Conns : /\ conn'[c] = "accepted" <=> conn[c] = "accepted"
                         /\ InHand(c)' <=> InHand(c)
    BY <2>1 DEF Pending, InHand
  <2> QED
    BY <2>1, <2>2, <2>3, TendedUntouched
<1> QED
  BY <1>1, <1>2, <1>3, <1>4

\* The environment makes connections wait, and never touches an accepted one.
LEMMA TendedByEnvironment ==
  ASSUME TypeOK, ConnectionsAreTended, Environment PROVE ConnectionsAreTended'
<1>1. \A c \in Conns : conn'[c] = "accepted" <=> conn[c] = "accepted"
  BY DEF Environment, SigInt, SigIntCutsWrite, ClientConnect, ClientStep,
         SpuriousWake, netVars, TypeOK
<1>2. Serving' = Serving /\ \A t \in Serving : Served(t)' = Served(t)
  BY EnvironmentAndTheCount DEF Serving, Served
<1>3. \A c \in Conns : InHand(c)' <=> InHand(c)
  BY EnvironmentAndTheCount DEF InHand
<1> QED
  BY <1>1, <1>2, <1>3, EnvironmentAndTheCount, TendedUntouched

\* The data thread's steps move no other thread and touch nothing of theirs.
LEMMA DataAndTheThreads ==
  ASSUME TypeOK, DataStep
  PROVE  /\ \A p \in Procs \ {Data} : pc'[p] = pc[p]
         /\ pc[Data] # "done"
         /\ UNCHANGED <<active_thread_count, lost, socketConnection,
                        thread_data, sockfd, content, conn, stream>>
BY DEF DataStep, DataCheck, DataTime, DataAppendLock, DataAppendAdvance,
       DataAppendFill, DataWakeLock, DataWake, DataSleep, Lock, Jump, Goes,
       memVars, countVars, localVars, netVars, TypeOK

(***************************************************************************)
(* Every accepted connection is in main's hand or some one thread's.       *)
(***************************************************************************)
THEOREM ConnectionsCorrect == Spec => []ConnectionsAreTended
<1>1. Init => ConnectionsAreTended
  <2> SUFFICES ASSUME Init PROVE ConnectionsAreTended
    OBVIOUS
  <2>1. /\ Serving = {} /\ \A c \in Conns : ~ InHand(c)
        /\ \A c \in Conns : conn[c] = "idle"
    BY ServerAssumption DEF Init, Serving, InHand, Procs
  <2> QED
    BY <2>1 DEF ConnectionsAreTended, DescriptorsAreOwned
<1>2. TypeOK /\ ConnectionsAreTended /\ [Next]_vars => ConnectionsAreTended'
  <2> SUFFICES ASSUME TypeOK, ConnectionsAreTended, [Next]_vars
               PROVE  ConnectionsAreTended'
    OBVIOUS
  <2>1. CASE UNCHANGED vars
    BY <2>1, TendedUntouched
    DEF vars, memVars, countVars, localVars, netVars, Serving, Served, InHand
  <2>2. CASE DataStep
    <3>1. Serving' = Serving /\ \A t \in Serving : Served(t)' = Served(t)
      BY <2>2, DataAndTheThreads, ServerAssumption DEF Serving, Served, Procs
    <3>2. \A c \in Conns : InHand(c)' <=> InHand(c)
      BY <2>2, DataAndTheThreads, ServerAssumption DEF InHand, Procs
    <3> QED
      BY <2>2, <3>1, <3>2, DataAndTheThreads, TendedUntouched
  <2> QED
    BY <2>1, <2>2, TendedByMain, TendedByConn, TendedByEnvironment DEF Next
<1> QED
  BY <1>1, <1>2, TypeCorrect, PTL DEF Spec

(***************************************************************************)
(* No two threads share a descriptor, and none uses one that is closed.    *)
(***************************************************************************)
THEOREM DescriptorsCorrect == Spec => []DescriptorsAreOwned
<1>1. ConnectionsAreTended => DescriptorsAreOwned
  BY DEF ConnectionsAreTended
<1> QED
  BY <1>1, ConnectionsCorrect, PTL

-----------------------------------------------------------------------------
(* The exit.                                                               *)

\* Where each step of main leads, as far as the drain is concerned.
LEMMA MainAndTheDrain ==
  ASSUME TypeOK, MainStep
  PROVE  /\ pc[Main] \in Draining =>
              \A p \in Procs \ {Main} : pc'[p] = pc[p]
         /\ pc'[Main] \in Draining => pc[Main] \in Draining \/ MainJoin
         /\ pc[Main] \in Draining => lost' = lost
         /\ pc'[Main] \in {"drain_unlock", "exited"} =>
              pc[Main] = "drain_unlock" \/ MainDrainTest
<1> USE ServerAssumption DEF TypeOK, Procs, Goes, Jump, Lock, Sleep, Draining,
        memVars, countVars
<1>1. CASE MainInit  BY <1>1 DEF MainInit
<1>2. CASE MainListen  BY <1>2 DEF MainListen
<1>3. CASE MainCheck  BY <1>3 DEF MainCheck
<1>4. CASE MainSelect  BY <1>4 DEF MainSelect
<1>5. CASE MainAccept  BY <1>5 DEF MainAccept
<1>6. CASE MainCountLock  BY <1>6 DEF MainCountLock
<1>7. CASE MainCountInc  BY <1>7 DEF MainCountInc
<1>8. CASE MainCreate  BY <1>8 DEF MainCreate
<1>9. CASE MainCreateFails  BY <1>9 DEF MainCreateFails
<1>10. CASE MainClose  BY <1>10 DEF MainClose
<1>11. CASE MainStopData  BY <1>11 DEF MainStopData
<1>12. CASE MainJoin  BY <1>12 DEF MainJoin
<1>13. CASE MainDrainLock  BY <1>13 DEF MainDrainLock
<1>14. CASE MainDrainTest  BY <1>14 DEF MainDrainTest
<1>15. CASE MainDrainInfoLock  BY <1>15 DEF MainDrainInfoLock
<1>16. CASE MainDrainWake  BY <1>16 DEF MainDrainWake
<1>17. CASE MainDrainWait  BY <1>17 DEF MainDrainWait
<1>18. CASE MainDrainAwake  BY <1>18 DEF MainDrainAwake
<1>19. CASE MainReturn  BY <1>19 DEF MainReturn
<1> QED
  BY <1>1, <1>2, <1>3, <1>4, <1>5, <1>6, <1>7, <1>8, <1>9, <1>10, <1>11,
     <1>12, <1>13, <1>14, <1>15, <1>16, <1>17, <1>18, <1>19 DEF MainStep

LEMMA DrainByMain ==
  ASSUME TypeOK, DrainIsComplete, CountIsLiveThreads, MainStep
  PROVE  DrainIsComplete'
<1> USE ServerAssumption
<1>1. pc'[Main] \in Draining => pc'[Data] = "done"
  <2>1. CASE pc[Main] \in Draining
    BY <2>1, MainAndTheDrain DEF DrainIsComplete, Procs
  <2>2. CASE MainJoin
    BY <2>2 DEF MainJoin, Jump, Goes, TypeOK, Procs
  <2> QED
    BY <2>1, <2>2, MainAndTheDrain
<1>2. pc'[Main] \in {"drain_unlock", "exited"} => Live' = {} /\ lost' = 0
  <2>1. ASSUME pc[Main] \in Draining PROVE Live' = Live /\ lost' = lost
    BY <2>1, MainAndTheDrain DEF Live, Procs
  <2>2. CASE pc[Main] = "drain_unlock"
    BY <2>1, <2>2 DEF DrainIsComplete, Draining
  <2>3. CASE MainDrainTest /\ pc'[Main] \in {"drain_unlock", "exited"}
    <3>1. pc[Main] = "drain_test" /\ ~ (active_thread_count > 0)
      BY <2>3 DEF MainDrainTest, Jump, Goes, TypeOK, Procs
    <3>2. Cardinality(Live) + lost <= 0
      BY <3>1, LiveFinite DEF CountIsLiveThreads, TypeOK
    <3>3. Cardinality(Live) = 0 /\ lost = 0
      BY <3>2, LiveFinite DEF TypeOK
    <3>4. Live = {}
      BY <3>3, LiveFinite, FS_EmptySet
    <3> QED
      BY <2>1, <3>1, <3>3, <3>4 DEF Draining
  <2> QED
    BY <2>2, <2>3, MainAndTheDrain
<1> QED
  BY <1>1, <1>2 DEF DrainIsComplete

(***************************************************************************)
(* When the drain ends, no thread is left and none was lost.               *)
(***************************************************************************)
THEOREM DrainCorrect == Spec => []DrainIsComplete
<1>1. Init => DrainIsComplete
  BY ServerAssumption DEF Init, DrainIsComplete, Draining, Procs
<1>2. TypeOK /\ CountIsLiveThreads /\ DrainIsComplete /\ [Next]_vars => DrainIsComplete'
  <2> SUFFICES ASSUME TypeOK, CountIsLiveThreads, DrainIsComplete, [Next]_vars
               PROVE  DrainIsComplete'
    OBVIOUS
  <2>1. CASE UNCHANGED vars
    BY <2>1 DEF vars, memVars, countVars, DrainIsComplete, Live
  <2>2. CASE DataStep
    <3>1. pc'[Main] = pc[Main] /\ Live' = Live /\ lost' = lost /\ pc[Data] # "done"
      BY <2>2, DataAndTheThreads, ServerAssumption DEF Live, Procs
    <3> QED
      BY <3>1 DEF DrainIsComplete, Draining
  <2>3. ASSUME NEW t \in Threads, ConnStep(t) PROVE DrainIsComplete'
    <3>1. /\ pc'[Main] = pc[Main] /\ pc'[Data] = pc[Data] /\ lost' = lost
          /\ t \in Live
      BY <2>3, ConnAndTheCount DEF Live
    <3> QED
      BY <3>1 DEF DrainIsComplete
  <2>4. CASE Environment
    <3>1. Live' = Live
      BY <2>4, EnvironmentAndTheCount DEF Live
    <3> QED
      BY <2>4, <3>1, EnvironmentAndTheCount DEF DrainIsComplete, Draining
  <2> QED
    BY <2>1, <2>2, <2>3, <2>4, DrainByMain DEF Next
<1> QED
  BY <1>1, <1>2, TypeCorrect, CountCorrect, PTL DEF Spec

(***************************************************************************)
(* "Clean shutdown." is said when every thread has returned and every      *)
(* accepted connection is closed.                                          *)
(***************************************************************************)
THEOREM ShutdownIsClean == Spec => []CleanShutdown
<1>1. DrainIsComplete /\ ConnectionsAreTended => CleanShutdown
  <2> SUFFICES ASSUME DrainIsComplete, ConnectionsAreTended, pc[Main] = "exited"
               PROVE  /\ pc[Data] = "done" /\ Live = {}
                      /\ \A c \in Conns : conn[c] # "accepted"
    BY DEF CleanShutdown
  <2>1. pc[Data] = "done" /\ Live = {} /\ lost = 0
    BY DEF DrainIsComplete, Draining
  <2>2. Serving = {} /\ \A c \in Conns : ~ InHand(c)
    BY <2>1 DEF Serving, Live, InHand
  <2> QED
    BY <2>1, <2>2 DEF ConnectionsAreTended
<1> QED
  BY <1>1, DrainCorrect, ConnectionsCorrect, PTL

-----------------------------------------------------------------------------
(* The record is in order.                                                 *)

(***************************************************************************)
(* Samples are recorded in the order of their rounds.                      *)
(***************************************************************************)
THEOREM RecordCorrect == Spec => []RecordIsOrdered
<1>1. Init => RecordIsOrdered
  BY DEF Init, RecordIsOrdered
<1>2. TypeOK /\ RecordIsOrdered /\ [Next]_vars => RecordIsOrdered'
  <2> SUFFICES ASSUME TypeOK, RecordIsOrdered, [Next]_vars
               PROVE  RecordIsOrdered'
    OBVIOUS
  <2>1. CASE DataAppendFill
    <3> DEFINE n == Len(recorded)
    <3>1. /\ n \in Nat /\ Len(recorded') = n + 1
          /\ recorded'[n + 1].round = round
          /\ \A i \in 1 .. n : recorded'[i] = recorded[i]
          /\ round' = round /\ round \in Nat
      BY <2>1 DEF DataAppendFill, TypeOK, Sample, envVars
    <3>2. \A i \in 1 .. n + 1 : i \in 1 .. n \/ i = n + 1
      BY <3>1
    <3>3. \A j \in 1 .. n : recorded'[j].round <= round'
      BY <3>1 DEF RecordIsOrdered
    <3>4. \A j \in 1 .. n : \A i \in 1 .. j : recorded'[i].round <= recorded'[j].round
      BY <3>1 DEF RecordIsOrdered
    <3>5. \A i \in 1 .. n + 1 : recorded'[i].round <= recorded'[n + 1].round
      <4> HIDE DEF n
      <4> QED
        BY <3>1, <3>2, <3>3
    <3> HIDE DEF n
    <3> QED
      BY <3>1, <3>2, <3>3, <3>4, <3>5 DEF RecordIsOrdered
  <2>2. CASE ~ DataAppendFill
    <3>1. recorded' = recorded /\ round' \in Nat /\ round' >= round /\ round \in Nat
      <4>1. CASE DataStep
        BY <2>2, <4>1, ServerAssumption
        DEF DataStep, DataCheck, DataTime, DataAppendLock, DataAppendAdvance,
            DataWakeLock, DataWake, DataSleep, Lock, Jump, memVars, ringVars,
            envVars, TypeOK
      <4>2. CASE ~ DataStep
        BY <4>2, MainAndTheRing, ConnAndTheRing, EnvironmentAndTheRing
        DEF Next, vars, memVars, ringVars, envVars, TypeOK
      <4> QED
        BY <4>1, <4>2
    <3>2. \A j \in 1 .. Len(recorded) : recorded[j].round \in Nat
      <4>1. \A j \in 1 .. Len(recorded) : recorded[j] \in Sample
        BY DEF TypeOK
      <4>2. \A s \in Sample : s.round \in Nat
        BY DEF Sample
      <4> QED
        BY <4>1, <4>2
    <3>3. \A r, s, u \in Nat : r <= s /\ u >= s => r <= u
      OBVIOUS
    <3>4. \A j \in 1 .. Len(recorded) : recorded[j].round <= round'
      BY <3>1, <3>2, <3>3, Zenon DEF RecordIsOrdered
    <3> QED
      BY <3>1, <3>4 DEF RecordIsOrdered
  <2> QED
    BY <2>1, <2>2
<1> QED
  BY <1>1, <1>2, TypeCorrect, PTL DEF Spec

-----------------------------------------------------------------------------
(* The streams follow the record.                                          *)

\* A frame stays what it is as the record grows.
LEMMA FramesStay ==
  ASSUME TypeOK, [Next]_vars, NEW i \in 2 .. Len(recorded)
  PROVE  i \in 2 .. Len(recorded') /\ FrameAt(i)' = FrameAt(i)
<1>1. recorded \in Seq(Sample) /\ recorded' \in Seq(Sample)
  BY TypeStep DEF TypeOK
<1>2. Len(recorded) \in Nat /\ Len(recorded') \in Nat
  BY <1>1
<1>3. i \in 1 .. Len(recorded) /\ i - 1 \in 1 .. Len(recorded)
  BY <1>2
<1> QED
  BY <1>2, <1>3, RecordGrows DEF FrameAt

LEMMA BehindStays ==
  ASSUME TypeOK, [Next]_vars, NEW c \in Conns, NEW t \in Threads, Behind(c, t),
         stream'[c] = stream[c], content'[t] = content[t]
  PROVE  Behind(c, t)'
<1> SUFFICES ASSUME stream[c].last # NoFrame
             PROVE  \E i \in 2 .. Len(recorded') :
                      /\ content[t] = FrameAt(i)'
                      /\ \E j \in 2 .. i : stream[c].last = FrameAt(j)'
  BY DEF Behind
<1>1. PICK i \in 2 .. Len(recorded) :
             /\ content[t] = FrameAt(i)
             /\ \E j \in 2 .. i : stream[c].last = FrameAt(j)
  BY DEF Behind
<1>2. PICK j \in 2 .. i : stream[c].last = FrameAt(j)
  BY <1>1
<1>3. j \in 2 .. Len(recorded)
  <2>1. Len(recorded) \in Nat
    BY DEF TypeOK
  <2> QED
    BY <2>1
<1> QED
  BY <1>1, <1>2, <1>3, FramesStay

\* A step that sends nothing, starts no thread and formats nothing.
LEMMA StreamsUntouched ==
  ASSUME TypeOK, [Next]_vars, StreamsFollowRecord,
         stream' = stream,
         \A c \in Conns : conn'[c] \in {"idle", "pending"} \/ InHand(c)' =>
                            conn[c] \in {"idle", "pending"} \/ InHand(c),
         \A t \in Threads : pc'[t] = "write" => content'[t] # NoFrame,
         \A t \in Serving' : /\ t \in Serving /\ Served(t)' = Served(t)
                             /\ content'[t] = content[t],
         \A t \in Serving' : shuttingdown_flag /\ pc[t] \in {"check", "close"} =>
                               shuttingdown_flag' /\ pc'[t] \in {"check", "close"}
  PROVE  StreamsFollowRecord'
<1>1. ASSUME NEW t \in Serving', Served(t)' # NoConn
      PROVE  /\ Behind(Served(t), t)'
             /\ stream'[Served(t)'].cut =>
                  shuttingdown_flag' /\ pc'[t] \in {"check", "close"}
  <2>1. t \in Threads /\ t \in Serving /\ Served(t)' = Served(t) /\ Served(t) \in Conns
    BY <1>1, ServedType DEF Serving
  <2>2. Behind(Served(t), t)
    BY <1>1, <2>1 DEF StreamsFollowRecord
  <2>3. ASSUME NEW c \in Conns, Behind(c, t), c = Served(t) PROVE Behind(c, t)'
    BY <2>1, <2>3, BehindStays
  <2>4. Behind(Served(t), t)'
    BY <2>1, <2>2, <2>3 DEF Behind
  <2> QED
    BY <1>1, <2>1, <2>4 DEF StreamsFollowRecord
<1> QED
  BY <1>1 DEF StreamsFollowRecord
\* The frame sent, if the step is a write of thread t, whole or cut short.
Writes(t, cut) ==
  /\ pc[t] = "write" /\ pc'[t] = "check" /\ sockfd[t] \in Conns
  /\ stream' = [stream EXCEPT ![sockfd[t]] = [last |-> content[t], cut |-> cut]]
  /\ cut => shuttingdown_flag'
  /\ \A p \in Procs \ {t} : pc'[p] = pc[p]
  /\ UNCHANGED <<recorded, content, conn, socketConnection, thread_data, sockfd>>

\* A thread that is to write has not been cut short before.
LEMMA WritesByConn ==
  ASSUME TypeOK, StreamsFollowRecord, NEW t \in Threads, ConnWrite(t)
  PROVE  Writes(t, FALSE)
<1>1. /\ pc[t] = "write" /\ sockfd[t] \in Conns /\ pc'[t] = "check"
      /\ \A p \in Procs \ {t} : pc'[p] = pc[p]
  BY DEF ConnWrite, Goes, TypeOK, Procs
<1>2. t \in Serving /\ Served(t) = sockfd[t] /\ sockfd[t] # NoConn
  BY <1>1, ServerAssumption DEF Serving, Served
<1>3. ~ stream[sockfd[t]].cut
  BY <1>1, <1>2 DEF StreamsFollowRecord
<1>4. stream[sockfd[t]].cut = FALSE
  BY <1>1, <1>3, Zenon DEF TypeOK
<1>5. stream' = [stream EXCEPT ![sockfd[t]] = [last |-> content[t], cut |-> FALSE]]
  BY <1>1, <1>4, Zenon DEF ConnWrite
<1> QED
  BY <1>1, <1>5 DEF Writes, ConnWrite, memVars, ringVars, localVars

LEMMA WritesBySignal ==
  ASSUME TypeOK, NEW t \in Threads, SigIntCutsWrite(t)
  PROVE  Writes(t, TRUE)
BY DEF SigIntCutsWrite, Writes, Goes, TypeOK, Procs, ringVars, localVars

\* A write sends the frame its thread formatted, on its own connection.
LEMMA StreamsByWrite ==
  ASSUME TypeOK, [Next]_vars, StreamsFollowRecord, FramesAreConsecutive,
         ConnectionsAreTended, NEW t \in Threads, NEW cut \in BOOLEAN, Writes(t, cut),
         shuttingdown_flag => shuttingdown_flag'
  PROVE  StreamsFollowRecord'
<1> USE ServerAssumption
<1>0. PICK d \in Conns : d = sockfd[t]
  BY DEF Writes
<1>1. /\ d # NoConn /\ t \in Serving /\ Served(t) = d
      /\ pc[t] = "write" /\ content[t] # NoFrame /\ pc'[Main] = pc[Main]
  BY <1>0 DEF Writes, Serving, Served, StreamsFollowRecord, Procs
<1>2. conn[d] = "accepted" /\ ~ InHand(d)
  BY <1>1 DEF ConnectionsAreTended, DescriptorsAreOwned
<1>3. /\ stream'[d] = [last |-> content[t], cut |-> cut]
      /\ \A c \in Conns \ {d} : stream'[c] = stream[c]
  BY <1>0 DEF Writes, TypeOK
<1>4. \A u \in Threads : /\ u \in Serving' <=> u \in Serving
                         /\ Served(u)' = Served(u) /\ content'[u] = content[u]
                         /\ u # t => pc'[u] = pc[u]
  BY DEF Writes, Serving, Served, Procs
<1>5. \A c \in Conns : conn'[c] \in {"idle", "pending"} \/ InHand(c)' =>
        stream'[c] = [last |-> NoFrame, cut |-> FALSE]
  BY <1>1, <1>2, <1>3 DEF Writes, InHand, StreamsFollowRecord
<1>6. \A u \in Threads : pc'[u] = "write" => content'[u] # NoFrame
  BY <1>4 DEF StreamsFollowRecord, Writes
<1>7. Behind(d, t)'
  <2>1. PICK i \in 2 .. Len(recorded) : content[t] = FrameAt(i)
    BY <1>1 DEF FramesAreConsecutive, FrameAt
  <2>2. i \in 2 .. i
    OBVIOUS
  <2>3. i \in 2 .. Len(recorded') /\ FrameAt(i)' = FrameAt(i)
    BY <2>1, FramesStay
  <2>4. content'[t] = content[t] /\ stream'[d].last = content[t]
    BY <1>3, <1>4
  <2> QED
    BY <2>1, <2>2, <2>3, <2>4 DEF Behind, Writes
<1>8. ASSUME NEW u \in Threads, u # t, u \in Serving, Served(u) # NoConn
      PROVE  /\ Behind(Served(u), u)'
             /\ stream'[Served(u)].cut => shuttingdown_flag' /\ pc'[u] \in {"check", "close"}
  <2>1. Served(u) \in Conns \ {d}
    BY <1>1, <1>8, ServedType DEF ConnectionsAreTended, DescriptorsAreOwned
  <2>2. stream'[Served(u)] = stream[Served(u)]
    BY <1>3, <2>1
  <2>3. ASSUME NEW c \in Conns, Behind(c, u), c = Served(u) PROVE Behind(c, u)'
    BY <1>4, <2>2, <2>3, BehindStays
  <2>4. Behind(Served(u), u)'
    BY <1>8, <1>4, <2>1, <2>3 DEF Behind, StreamsFollowRecord
  <2> QED
    BY <1>4, <1>8, <2>2, <2>4 DEF StreamsFollowRecord
<1>9. stream'[d].cut => shuttingdown_flag' /\ pc'[t] \in {"check", "close"}
  <2>1. pc'[t] = "check" /\ (cut => shuttingdown_flag')
    BY Zenon DEF Writes
  <2>2. stream'[d].cut = cut
    BY <1>3
  <2> QED
    BY <2>1, <2>2, Zenon
<1>10. ASSUME NEW u \in Serving', Served(u)' # NoConn
       PROVE  /\ Behind(Served(u), u)'
              /\ stream'[Served(u)'].cut =>
                   shuttingdown_flag' /\ pc'[u] \in {"check", "close"}
  <2>1. u \in Threads /\ u \in Serving /\ Served(u)' = Served(u)
    BY <1>4, <1>10 DEF Serving
  <2>2. CASE u = t
    BY <1>1, <1>7, <1>9, <2>1, <2>2 DEF Behind
  <2>3. CASE u # t
    BY <1>8, <1>10, <2>1, <2>3
  <2> QED
    BY <2>2, <2>3
<1> QED
  BY <1>5, <1>6, <1>10 DEF StreamsFollowRecord

-----------------------------------------------------------------------------
(* The steps that send nothing.                                            *)

LEMMA FlagStays ==
  ASSUME TypeOK, [Next]_vars PROVE shuttingdown_flag => shuttingdown_flag'
<1> USE DEF Jump, Lock, Sleep, memVars, flagVars
<1>1. CASE DataStep
  BY <1>1 DEF DataStep, DataCheck, DataTime, DataAppendLock, DataAppendAdvance,
     DataAppendFill, DataWakeLock, DataWake, DataSleep
<1>2. ASSUME NEW t \in Threads, ConnStep(t)
      PROVE  shuttingdown_flag => shuttingdown_flag'
  BY <1>2 DEF ConnStep, ConnStart, ConnCheck, ConnWaitLock, ConnWait, ConnAwake,
     ConnInfoLock, ConnRead, ConnWrite, ConnWriteFails, ConnClose,
     ConnReturnLock, ConnReturn
<1>3. CASE MainStep
  BY <1>3 DEF MainStep, MainInit, MainListen, MainCheck, MainSelect, MainAccept,
     MainCountLock, MainCountInc, MainCreate, MainCreateFails, MainClose,
     MainStopData, MainJoin, MainDrainLock, MainDrainTest, MainDrainInfoLock,
     MainDrainWake, MainDrainWait, MainDrainAwake, MainReturn
<1>4. CASE Environment
  BY <1>4 DEF Environment, SigInt, SigIntCutsWrite, ClientConnect, ClientStep,
     SpuriousWake
<1> QED
  BY <1>1, <1>2, <1>3, <1>4 DEF Next, vars

\* A reader is not behind: it formats the newest pair.
LEMMA StreamsByRead ==
  ASSUME TypeOK, [Next]_vars, StreamsFollowRecord, RingIsGuarded,
         RingHoldsRecord, NEW t \in Threads, ConnRead(t)
  PROVE  StreamsFollowRecord'
<1> USE ServerAssumption
<1>1. /\ pc[t] = "read" /\ pc'[t] \in {"write", "check"}
      /\ \A p \in Procs \ {t} : pc'[p] = pc[p]
      /\ UNCHANGED <<stream, conn, socketConnection, thread_data, sockfd,
                     recorded>>
      /\ \A u \in Threads \ {t} : content'[u] = content[u]
  BY DEF ConnRead, Goes, TypeOK, Procs, ringVars, netVars
<1>2. Len(recorded) \in Nat
  BY DEF TypeOK
<1>3. pc'[t] = "write" => content'[t] # NoFrame
  BY SlotArithmetic DEF ConnRead, Goes, TypeOK, Frame
<1>4. \A u \in Threads : /\ u \in Serving' <=> u \in Serving
                         /\ Served(u)' = Served(u)
  BY <1>1 DEF Serving, Served, Procs
<1>5. \A c \in Conns : InHand(c)' <=> InHand(c)
  BY <1>1 DEF InHand, Procs
<1>6. ASSUME NEW u \in Serving', Served(u)' # NoConn
      PROVE  /\ Behind(Served(u), u)'
             /\ stream'[Served(u)'].cut =>
                  shuttingdown_flag' /\ pc'[u] \in {"check", "close"}
  <2>1. u \in Threads /\ u \in Serving
    BY <1>4, <1>6 DEF Serving
  <2>2. PICK c \in Conns : c = Served(u)
    BY <1>4, <1>6, <2>1, ServedType
  <2>3. Served(u)' = c /\ Behind(c, u)
    BY <1>4, <1>6, <2>1, <2>2 DEF StreamsFollowRecord
  <2>4. stream'[c].cut => shuttingdown_flag' /\ pc'[u] \in {"check", "close"}
    <3>1. stream[c].cut => shuttingdown_flag /\ pc[u] \in {"check", "close"}
      BY <1>4, <1>6, <2>1, <2>2 DEF StreamsFollowRecord
    <3>2. pc[u] \in {"check", "close"} => pc'[u] = pc[u]
      BY <1>1, <2>1 DEF Procs
    <3> QED
      BY <1>1, <3>1, <3>2, FlagStays
  <2>5. CASE content'[u] = content[u]
    BY <1>1, <2>1, <2>3, <2>4, <2>5, BehindStays DEF Behind
  <2>6. CASE content'[u] # content[u]
    <3>1. u = t
      BY <1>1, <2>1, <2>6
    <3>2. Len(recorded) >= 2 /\ content'[u] = FrameAt(Len(recorded))
      BY <2>6, <3>1, ReadNewestPair DEF FrameAt
    <3>3. ASSUME stream[c].last # NoFrame
          PROVE  \E j \in 2 .. Len(recorded) : stream[c].last = FrameAt(j)
      <4>1. PICK i \in 2 .. Len(recorded) :
                   \E j \in 2 .. i : stream[c].last = FrameAt(j)
        BY <2>3, <3>3 DEF Behind
      <4>2. PICK j \in 2 .. i : stream[c].last = FrameAt(j)
        BY <4>1
      <4>3. j \in 2 .. Len(recorded)
        BY <1>2
      <4> QED
        BY <4>2, <4>3
    <3>4. Behind(c, u)'
      <4>1. /\ Len(recorded') = Len(recorded) /\ stream'[c] = stream[c]
            /\ \A i \in 2 .. Len(recorded) : FrameAt(i)' = FrameAt(i)
        BY <1>1 DEF FrameAt
      <4>2. Len(recorded) \in 2 .. Len(recorded)
        BY <1>2, <3>2
      <4> QED
        BY <3>2, <3>3, <4>1, <4>2 DEF Behind
    <3> QED
      BY <2>3, <2>4, <3>4 DEF Behind
  <2> QED
    BY <2>5, <2>6
<1>7. \A u \in Threads : pc'[u] = "write" => content'[u] # NoFrame
  BY <1>1, <1>3 DEF StreamsFollowRecord, Procs
<1>8. \A c \in Conns : conn'[c] \in {"idle", "pending"} \/ InHand(c)' =>
        stream'[c] = [last |-> NoFrame, cut |-> FALSE]
  BY <1>1, <1>5 DEF StreamsFollowRecord
<1> QED
  BY <1>6, <1>7, <1>8 DEF StreamsFollowRecord

LEMMA StreamsByConn ==
  ASSUME TypeOK, [Next]_vars, StreamsFollowRecord, NEW t \in Threads, ConnStep(t),
         ~ ConnRead(t), ~ ConnWrite(t)
  PROVE  StreamsFollowRecord'
<1> USE ServerAssumption
<1>1. /\ stream' = stream /\ pc'[t] # "write"
      /\ \A c \in Conns : conn'[c] = conn[c] \/ conn'[c] = "closed"
      /\ t \in Serving' => t \in Serving /\ Served(t)' = Served(t)
      /\ t \in Serving' /\ shuttingdown_flag /\ pc[t] \in {"check", "close"} =>
           pc'[t] \in {"check", "close"}
  <2> USE DEF TypeOK, Procs, Goes, Jump, Lock, Sleep, memVars, localVars, netVars,
              Serving, Served
  <2>1. CASE ConnStart(t)  BY <2>1 DEF ConnStart
  <2>2. CASE ConnCheck(t)  BY <2>2 DEF ConnCheck
  <2>3. CASE ConnWaitLock(t)  BY <2>3 DEF ConnWaitLock
  <2>4. CASE ConnWait(t)  BY <2>4 DEF ConnWait
  <2>5. CASE ConnAwake(t)  BY <2>5 DEF ConnAwake
  <2>6. CASE ConnInfoLock(t)  BY <2>6 DEF ConnInfoLock
  <2>7. CASE ConnWriteFails(t)  BY <2>7 DEF ConnWriteFails
  <2>8. CASE ConnClose(t)  BY <2>8 DEF ConnClose
  <2>9. CASE ConnReturnLock(t)  BY <2>9 DEF ConnReturnLock
  <2>10. CASE ConnReturn(t)  BY <2>10 DEF ConnReturn
  <2> QED
    BY <2>1, <2>2, <2>3, <2>4, <2>5, <2>6, <2>7, <2>8, <2>9, <2>10 DEF ConnStep
<1>2. /\ content' = content
      /\ \A u \in Threads \ {t} : pc'[u] = pc[u] /\ Served(u)' = Served(u)
      /\ \A c \in Conns : InHand(c)' <=> InHand(c)
  BY ConnAndTheRing, ConnAndTheCount DEF Served, InHand
<1>3. \A u \in Serving' : u \in Serving /\ Served(u)' = Served(u)
  BY <1>1, <1>2 DEF Serving
<1>4. \A u \in Serving' : shuttingdown_flag /\ pc[u] \in {"check", "close"} =>
        shuttingdown_flag' /\ pc'[u] \in {"check", "close"}
  BY <1>1, <1>2, FlagStays DEF Serving
<1>5. \A u \in Threads : pc'[u] = "write" => content'[u] # NoFrame
  BY <1>1, <1>2 DEF StreamsFollowRecord
<1> QED
  BY <1>1, <1>2, <1>3, <1>4, <1>5, StreamsUntouched

\* A step that moves no connection thread, hands out no connection and sends
\* nothing.
LEMMA StreamsIfStill ==
  ASSUME TypeOK, [Next]_vars, StreamsFollowRecord,
         \A t \in Threads : pc'[t] = pc[t],
         UNCHANGED <<stream, content, sockfd, thread_data>>,
         \A c \in Conns : conn'[c] \in {"idle", "pending"} \/ InHand(c)' =>
                            conn[c] \in {"idle", "pending"} \/ InHand(c)
  PROVE  StreamsFollowRecord'
<1>1. /\ Serving' = Serving
      /\ \A t \in Serving : Served(t)' = Served(t) /\ pc'[t] = pc[t]
  BY DEF Serving, Served
<1>2. \A u \in Threads : pc'[u] = "write" => content'[u] # NoFrame
  BY DEF StreamsFollowRecord
<1> QED
  BY <1>1, <1>2, FlagStays, StreamsUntouched

\* A connection has no stream before it has a thread.
LEMMA StreamsByMain ==
  ASSUME TypeOK, [Next]_vars, StreamsFollowRecord, MainStep
  PROVE  StreamsFollowRecord'
<1> USE ServerAssumption
<1>0. UNCHANGED <<stream, content, sockfd, recorded>>
  BY MainAndTheRing
<1>1. CASE MainAccept
  <2>1. /\ pc[Main] = "accept" /\ \A t \in Threads : pc'[t] = pc[t]
        /\ thread_data' = thread_data
    BY <1>1 DEF MainAccept, Goes, TypeOK, Procs
  <2>2. \A c \in Conns : conn'[c] \in {"idle", "pending"} \/ InHand(c)' =>
                           conn[c] \in {"idle", "pending"} \/ InHand(c)
    BY <1>1 DEF MainAccept, InHand, Pending, TypeOK
  <2> QED
    BY <1>0, <2>1, <2>2, StreamsIfStill
<1>2. CASE MainCreate
  <2>1. PICK t \in Threads :
          /\ pc[t] = "none" /\ pc'[t] = "start"
          /\ pc[Main] = "create" /\ pc'[Main] = "check"
          /\ \A u \in Threads \ {t} : pc'[u] = pc[u]
          /\ thread_data' = [thread_data EXCEPT ![t] = socketConnection]
    BY <1>2 DEF MainCreate, Unused, TypeOK, Procs
  <2>2. conn' = conn
    BY <1>2 DEF MainCreate, netVars
  <2>3. /\ Served(t)' = socketConnection /\ socketConnection \in Conns \cup {NoConn}
        /\ \A u \in Threads \ {t} :
             (u \in Serving' <=> u \in Serving) /\ Served(u)' = Served(u)
    BY <1>0, <2>1 DEF Serving, Served, TypeOK
  <2>4. \A c \in Conns : ~ InHand(c)' /\ (c = socketConnection => InHand(c))
    BY <2>1 DEF InHand
  <2>5. socketConnection # NoConn =>
          stream[socketConnection] = [last |-> NoFrame, cut |-> FALSE]
    BY <2>3, <2>4 DEF StreamsFollowRecord
  <2>6. ASSUME NEW u \in Serving', Served(u)' # NoConn
        PROVE  /\ Behind(Served(u), u)'
               /\ stream'[Served(u)'].cut =>
                    shuttingdown_flag' /\ pc'[u] \in {"check", "close"}
    <3>1. u \in Threads
      BY DEF Serving
    <3>2. CASE u = t
      BY <1>0, <2>3, <2>5, <2>6, <3>2 DEF Behind
    <3>3. CASE u # t
      <4>1. u \in Serving /\ Served(u)' = Served(u) /\ pc'[u] = pc[u]
        BY <2>1, <2>3, <3>1, <3>3
      <4>2. PICK c \in Conns : c = Served(u)
        BY <2>6, <3>1, <4>1, ServedType
      <4>3. Behind(c, u)'
        BY <1>0, <2>6, <3>1, <4>1, <4>2, BehindStays DEF StreamsFollowRecord
      <4>4. Behind(Served(u), u)'
        BY <4>1, <4>2, <4>3 DEF Behind
      <4> QED
        BY <1>0, <2>6, <4>1, <4>4, FlagStays DEF StreamsFollowRecord
    <3> QED
      BY <3>2, <3>3
  <2>7. \A u \in Threads : pc'[u] = "write" => content'[u] # NoFrame
    BY <1>0, <2>1 DEF StreamsFollowRecord
  <2>8. \A c \in Conns : conn'[c] \in {"idle", "pending"} \/ InHand(c)' =>
          stream'[c] = [last |-> NoFrame, cut |-> FALSE]
    BY <1>0, <2>2, <2>4 DEF StreamsFollowRecord
  <2> QED
    BY <2>6, <2>7, <2>8 DEF StreamsFollowRecord
<1>3. CASE MainCreateFails
  BY <1>0, <1>3, StreamsIfStill
  DEF MainCreateFails, Goes, TypeOK, Procs, netVars, localVars, InHand
<1>4. CASE ~ MainAccept /\ ~ MainCreate /\ ~ MainCreateFails
  BY <1>0, <1>4, MainUnhanded, StreamsIfStill DEF InHand, Pending
<1> QED
  BY <1>1, <1>2, <1>3, <1>4

LEMMA StreamsByEnvironment ==
  ASSUME TypeOK, [Next]_vars, StreamsFollowRecord, Environment,
         \A t \in Threads : ~ SigIntCutsWrite(t)
  PROVE  StreamsFollowRecord'
<1>1. /\ stream' = stream /\ \A t \in Threads : pc'[t] = pc[t]
      /\ \A c \in Conns : conn'[c] \in {"idle", "pending"} => conn[c] \in {"idle", "pending"}
  BY ServerAssumption
  DEF Environment, SigInt, ClientConnect, ClientStep, SpuriousWake, netVars,
      TypeOK, Procs
<1> QED
  BY <1>1, EnvironmentAndTheRing, EnvironmentAndTheCount, StreamsIfStill DEF InHand

(***************************************************************************)
(* A thread is never behind the stream it writes.                          *)
(***************************************************************************)
THEOREM StreamsCorrect == Spec => []StreamsFollowRecord
<1>1. Init => StreamsFollowRecord
  <2> SUFFICES ASSUME Init PROVE StreamsFollowRecord
    OBVIOUS
  <2>1. /\ Serving = {} /\ \A t \in Threads : pc[t] = "none"
        /\ \A c \in Conns : stream[c] = [last |-> NoFrame, cut |-> FALSE]
    BY ServerAssumption DEF Init, Serving, Procs
  <2> QED
    BY <2>1 DEF StreamsFollowRecord
<1>2. /\ TypeOK /\ RingIsGuarded /\ RingHoldsRecord /\ FramesAreConsecutive
      /\ ConnectionsAreTended /\ StreamsFollowRecord /\ [Next]_vars
      => StreamsFollowRecord'
  <2> SUFFICES ASSUME TypeOK, RingIsGuarded, RingHoldsRecord,
                      FramesAreConsecutive, ConnectionsAreTended,
                      StreamsFollowRecord, [Next]_vars
               PROVE  StreamsFollowRecord'
    OBVIOUS
  <2>1. CASE UNCHANGED vars
    BY <2>1, StreamsIfStill
    DEF vars, memVars, localVars, netVars, InHand
  <2>2. CASE DataStep
    BY <2>2, DataAndTheThreads, StreamsIfStill, ServerAssumption DEF InHand, Procs
  <2>3. ASSUME NEW t \in Threads, ConnStep(t) PROVE StreamsFollowRecord'
    BY <2>3, FlagStays, StreamsByRead, WritesByConn, StreamsByWrite, StreamsByConn
  <2>4. CASE Environment
    BY <2>4, FlagStays, WritesBySignal, StreamsByWrite, StreamsByEnvironment
  <2> QED
    BY <2>1, <2>2, <2>3, <2>4, StreamsByMain DEF Next
<1> QED
  BY <1>1, <1>2, TypeCorrect, RingGuarded, RingRecorded, FramesCorrect,
     ConnectionsCorrect, PTL DEF Spec

-----------------------------------------------------------------------------
(* What a step does to a stream.                                           *)

\* Only a write changes a stream.
LEMMA StreamsChangeByWrite ==
  ASSUME TypeOK, StreamsFollowRecord, [Next]_vars
  PROVE  \/ stream' = stream
         \/ \E t \in Threads, cut \in BOOLEAN : Writes(t, cut)
<1>1. ASSUME NEW t \in Threads, ConnStep(t), ~ ConnWrite(t) PROVE stream' = stream
  BY <1>1
  DEF ConnStep, ConnStart, ConnCheck, ConnWaitLock, ConnWait, ConnAwake,
      ConnInfoLock, ConnRead, ConnWriteFails, ConnClose, ConnReturnLock,
      ConnReturn, Jump, Lock, Sleep, netVars
<1>2. CASE Environment /\ \A t \in Threads : ~ SigIntCutsWrite(t)
  BY <1>2 DEF Environment, SigInt, ClientConnect, ClientStep, SpuriousWake, netVars
<1> QED
  BY <1>1, <1>2, WritesByConn, WritesBySignal, DataAndTheThreads, MainAndTheRing
  DEF Next, vars, netVars

\* A frame is written on a connection whose stream has not been cut, and is no
\* older than the last.
LEMMA WriteIsNext ==
  ASSUME TypeOK, StreamsFollowRecord, FramesAreConsecutive,
         NEW t \in Threads, NEW cut \in BOOLEAN, Writes(t, cut)
  PROVE  \E i \in 2 .. Len(recorded) :
           /\ content[t] = FrameAt(i)
           /\ ~ stream[sockfd[t]].cut
           /\ stream[sockfd[t]].last # NoFrame =>
                \E j \in 2 .. i : stream[sockfd[t]].last = FrameAt(j)
<1>1. /\ pc[t] = "write" /\ sockfd[t] \in Conns /\ sockfd[t] # NoConn
      /\ t \in Serving /\ Served(t) = sockfd[t]
  BY ServerAssumption DEF Writes, Serving, Served
<1>2. ~ stream[sockfd[t]].cut /\ Behind(sockfd[t], t) /\ content[t] # NoFrame
  BY <1>1 DEF StreamsFollowRecord
<1>3. CASE stream[sockfd[t]].last # NoFrame
  BY <1>2, <1>3 DEF Behind
<1>4. CASE stream[sockfd[t]].last = NoFrame
  BY <1>2, <1>4 DEF FramesAreConsecutive, FrameAt
<1> QED
  BY <1>3, <1>4

(***************************************************************************)
(* A client is never sent an older frame after a newer one.                *)
(***************************************************************************)
THEOREM StreamsInOrder == Spec => FramesInOrder
<1>1. TypeOK /\ RecordIsOrdered /\ StreamsFollowRecord /\ FramesAreConsecutive
      /\ [Next]_vars =>
        [\A c \in Conns : stream[c].last # NoFrame =>
           stream'[c].last.cur.round >= stream[c].last.cur.round]_vars
  <2> SUFFICES ASSUME TypeOK, RecordIsOrdered, StreamsFollowRecord,
                      FramesAreConsecutive, [Next]_vars,
                      NEW c \in Conns, stream[c].last # NoFrame
               PROVE  stream'[c].last.cur.round >= stream[c].last.cur.round
    OBVIOUS
  <2>1. stream[c].last.cur.round \in Nat
    BY DEF TypeOK, Frame, Sample
  <2>2. CASE stream'[c] = stream[c]
    BY <2>1, <2>2
  <2>3. ASSUME NEW t \in Threads, NEW cut \in BOOLEAN, Writes(t, cut), c = sockfd[t]
        PROVE  stream'[c].last.cur.round >= stream[c].last.cur.round
    <3>1. PICK i \in 2 .. Len(recorded) :
                 /\ content[t] = FrameAt(i)
                 /\ \E j \in 2 .. i : stream[c].last = FrameAt(j)
      BY <2>3, WriteIsNext
    <3>2. PICK j \in 2 .. i : stream[c].last = FrameAt(j)
      BY <3>1
    <3>3. i \in 1 .. Len(recorded) /\ j \in 1 .. i
      BY DEF TypeOK
    <3>4. recorded[i].round \in Nat /\ recorded[j].round <= recorded[i].round
      <4>1. recorded[i] \in Sample
        BY <3>3 DEF TypeOK
      <4> QED
        BY <3>3, <4>1 DEF RecordIsOrdered, Sample
    <3>5. stream'[c].last = content[t]
      BY <2>3 DEF Writes, TypeOK
    <3> QED
      BY <2>1, <3>1, <3>2, <3>4, <3>5 DEF FrameAt
  <2>4. stream'[c] = stream[c] \/
          \E t \in Threads, cut \in BOOLEAN : Writes(t, cut) /\ c = sockfd[t]
    BY StreamsChangeByWrite DEF Writes, TypeOK
  <2> QED
    BY <2>2, <2>3, <2>4
<1> QED
  BY <1>1, TypeCorrect, RecordCorrect, StreamsCorrect, FramesCorrect, PTL
  DEF Spec, FramesInOrder

(***************************************************************************)
(* A frame that was cut short is the last thing on its connection.         *)
(***************************************************************************)
THEOREM NothingAfterACut == Spec => CutFrameIsLast
<1>1. TypeOK /\ StreamsFollowRecord /\ FramesAreConsecutive /\ [Next]_vars =>
        [\A c \in Conns : stream[c].cut => stream'[c] = stream[c]]_vars
  <2> SUFFICES ASSUME TypeOK, StreamsFollowRecord, FramesAreConsecutive,
                      [Next]_vars, NEW c \in Conns, stream[c].cut
               PROVE  stream'[c] = stream[c]
    OBVIOUS
  <2>1. ASSUME NEW t \in Threads, NEW cut \in BOOLEAN, Writes(t, cut)
        PROVE  stream'[c] = stream[c]
    <3>1. c # sockfd[t]
      BY <2>1, WriteIsNext
    <3> QED
      BY <2>1, <3>1 DEF Writes, TypeOK
  <2> QED
    BY <2>1, StreamsChangeByWrite
<1> QED
  BY <1>1, TypeCorrect, StreamsCorrect, FramesCorrect, PTL
  DEF Spec, CutFrameIsLast

-----------------------------------------------------------------------------
(* The refinement.                                                         *)

\* The only steps of the data thread, of a connection thread, of main and of
\* the environment that the feed sees.
LEMMA OtherDataSteps ==
  ASSUME TypeOK, DataStep, ~ DataAppendFill
  PROVE  UNCHANGED <<recorded, stream, conn>>
BY DEF DataStep, DataCheck, DataTime, DataAppendLock, DataAppendAdvance,
       DataWakeLock, DataWake, DataSleep, Lock, Jump, memVars, ringVars, netVars

LEMMA OtherConnSteps ==
  ASSUME TypeOK, NEW t \in Threads, ConnStep(t), ~ ConnWrite(t), ~ ConnClose(t)
  PROVE  UNCHANGED <<recorded, stream, conn>>
BY DEF ConnStep, ConnStart, ConnCheck, ConnWaitLock, ConnWait, ConnAwake,
       ConnInfoLock, ConnRead, ConnWriteFails, ConnReturnLock, ConnReturn,
       Jump, Lock, Sleep, memVars, ringVars, netVars

LEMMA OtherMainSteps ==
  ASSUME TypeOK, MainStep, ~ MainAccept, ~ MainClose
  PROVE  UNCHANGED <<recorded, stream, conn>>
BY DEF MainStep, MainInit, MainListen, MainCheck, MainSelect, MainCountLock,
       MainCountInc, MainCreate, MainCreateFails, MainStopData, MainJoin,
       MainDrainLock, MainDrainTest, MainDrainInfoLock, MainDrainWake,
       MainDrainWait, MainDrainAwake, MainReturn, Jump, Lock, Sleep, memVars,
       ringVars, netVars

LEMMA OtherEnvironmentSteps ==
  ASSUME TypeOK, Environment, \A t \in Threads : ~ SigIntCutsWrite(t)
  PROVE  /\ UNCHANGED <<recorded, stream>>
         /\ \A c \in Conns : conn'[c] = conn[c] \/ (conn[c] = "idle" /\ conn'[c] = "pending")
BY DEF Environment, SigInt, ClientConnect, ClientStep, SpuriousWake, memVars,
       ringVars, netVars, TypeOK

LEMMA PhaseStays ==
  ASSUME \A c \in Conns : conn'[c] = conn[c] \/ (conn[c] = "idle" /\ conn'[c] = "pending")
  PROVE  phase' = phase
BY DEF phase

-----------------------------------------------------------------------------
(* The steps of the feed.                                                  *)

\* A sample is stored: it is of another second than its predecessor.
LEMMA FillRecords ==
  ASSUME TypeOK, RingHoldsRecord, DataAppendFill
  PROVE  \E sample \in {[timestamp |-> WallClock[r], round |-> r] : r \in 0 .. MaxRounds} :
           Feed!Record(sample)
<1> DEFINE sample == [timestamp |-> WallClock[round], round |-> round]
<1>1. sample \in {[timestamp |-> WallClock[r], round |-> r] : r \in 0 .. MaxRounds}
  BY DEF TypeOK
<1>2. recorded # <<>> => recorded[Len(recorded)].timestamp # sample.timestamp
  <2> SUFFICES ASSUME recorded # <<>>
               PROVE  recorded[Len(recorded)].timestamp # WallClock[round]
    OBVIOUS
  <2>1. Len(recorded) \in Nat /\ Len(recorded) >= 1
    BY DEF TypeOK
  <2> QED
    BY <2>1 DEF DataAppendFill, Goes, RingHoldsRecord
<1>3. recorded' = Append(recorded, sample) /\ stream' = stream /\ phase' = phase
  BY PhaseStays DEF DataAppendFill, netVars
<1> QED
  BY <1>1, <1>2, <1>3 DEF Feed!Record

\* A frame is written, whole or cut short by a signal.
LEMMA WriteDelivers ==
  ASSUME TypeOK, StreamsFollowRecord, FramesAreConsecutive, ConnectionsAreTended,
         NEW t \in Threads, NEW cut \in BOOLEAN, Writes(t, cut)
  PROVE  \E c \in Conns, i \in 2 .. Len(recorded) : Feed!Deliver(c, i, cut)
<1>1. PICK i \in 2 .. Len(recorded) :
             /\ content[t] = FrameAt(i)
             /\ ~ stream[sockfd[t]].cut
             /\ stream[sockfd[t]].last # NoFrame =>
                  \E j \in 2 .. i : stream[sockfd[t]].last = FrameAt(j)
  BY WriteIsNext
<1>2. /\ sockfd[t] \in Conns /\ sockfd[t] # NoConn
      /\ t \in Serving /\ Served(t) = sockfd[t]
  BY ServerAssumption DEF Writes, Serving, Served
<1>3. phase[sockfd[t]] = "open"
  BY <1>2 DEF ConnectionsAreTended, DescriptorsAreOwned, phase
<1>4. phase' = phase /\ recorded' = recorded
  BY PhaseStays DEF Writes
<1>5. \A j : Feed!FrameAt(j) = FrameAt(j)
  BY DEF Feed!FrameAt, FrameAt
<1>6. stream' = [stream EXCEPT ![sockfd[t]] = [last |-> Feed!FrameAt(i), cut |-> cut]]
  BY <1>1, <1>5, Zenon DEF Writes
<1>7. Feed!Deliver(sockfd[t], i, cut)
  BY <1>1, <1>3, <1>4, <1>5, <1>6, Zenon DEF Feed!Deliver
<1> QED
  BY <1>2, <1>7

\* Main takes a connection up.
LEMMA AcceptOpens ==
  ASSUME TypeOK, MainAccept
  PROVE  [\E c \in Conns : Feed!Open(c)]_<<recorded, phase, stream>>
<1>1. recorded' = recorded /\ stream' = stream
  BY DEF MainAccept, ringVars
<1>2. CASE conn' = conn
  BY <1>1, <1>2, PhaseStays
<1>3. ASSUME NEW c \in Conns, conn[c] = "pending",
             conn' = [conn EXCEPT ![c] = "accepted"]
      PROVE  Feed!Open(c)
  BY <1>1, <1>3 DEF Feed!Open, phase, TypeOK
<1> QED
  BY <1>2, <1>3 DEF MainAccept, Pending

\* A thread closes its connection.
LEMMA CloseCloses ==
  ASSUME TypeOK, ConnectionsAreTended, NEW t \in Threads, ConnClose(t)
  PROVE  [\E c \in Conns : phase[c] = "open" /\ Feed!Close({c})]_<<recorded, phase, stream>>
<1>1. recorded' = recorded /\ stream' = stream /\ pc[t] = "close"
  BY DEF ConnClose, Goes, memVars, ringVars
<1>2. CASE sockfd[t] = NoConn
  <2>1. conn' = conn
    BY <1>2 DEF ConnClose
  <2> QED
    BY <1>1, <2>1, PhaseStays
<1>3. CASE sockfd[t] # NoConn
  <2>1. /\ sockfd[t] \in Conns /\ conn' = [conn EXCEPT ![sockfd[t]] = "closed"]
        /\ t \in Serving /\ Served(t) = sockfd[t]
    BY <1>1, <1>3 DEF ConnClose, TypeOK, Serving, Served
  <2>2. phase[sockfd[t]] = "open"
    BY <1>3, <2>1 DEF ConnectionsAreTended, DescriptorsAreOwned, phase
  <2>3. Feed!Close({sockfd[t]})
    BY <1>1, <2>1 DEF Feed!Close, phase, TypeOK
  <2> QED
    BY <2>1, <2>2, <2>3
<1> QED
  BY <1>2, <1>3

\* Main turns away what it never took up.
LEMMA CloseRefuses ==
  ASSUME TypeOK, MainClose
  PROVE  [\E C \in SUBSET Conns : (\A c \in C : phase[c] = "new") /\ Feed!Close(C)]_<<recorded, phase, stream>>
<1>1. /\ recorded' = recorded /\ stream' = stream
      /\ conn' = [c \in Conns |-> IF c \in Pending THEN "refused" ELSE conn[c]]
  BY DEF MainClose, memVars, ringVars
<1>2. CASE Pending = {}
  BY <1>1, <1>2, PhaseStays
<1>3. CASE Pending # {}
  <2>1. Pending \in SUBSET Conns /\ \A c \in Pending : phase[c] = "new"
    BY DEF Pending, phase
  <2>2. phase' = [c \in Conns |-> IF c \in Pending THEN "closed" ELSE phase[c]]
    BY <1>1 DEF phase
  <2>3. Feed!Close(Pending)
    BY <1>1, <1>3, <2>2 DEF Feed!Close
  <2> QED
    BY <2>1, <2>3
<1> QED
  BY <1>2, <1>3

-----------------------------------------------------------------------------
(***************************************************************************)
(* Every step of the server is a step of the feed or leaves it alone.      *)
(***************************************************************************)
THEOREM ServerImplementsFeed == Spec => ImplementsFeed
<1>1. Init => Feed!FeedInit
  BY DEF Init, Feed!FeedInit, phase
<1>2. /\ TypeOK /\ RingHoldsRecord /\ FramesAreConsecutive
      /\ ConnectionsAreTended /\ StreamsFollowRecord /\ [Next]_vars
      => [Feed!FeedNext]_(Feed!feedVars)
  <2> SUFFICES ASSUME TypeOK, RingHoldsRecord, FramesAreConsecutive,
                      ConnectionsAreTended, StreamsFollowRecord, [Next]_vars
               PROVE  [Feed!FeedNext]_<<recorded, phase, stream>>
    BY DEF Feed!feedVars
  <2>1. CASE UNCHANGED vars
    BY <2>1, PhaseStays DEF vars, memVars, ringVars, netVars
  <2>2. CASE DataStep
    BY <2>2, FillRecords, OtherDataSteps, PhaseStays DEF Feed!FeedNext
  <2>3. ASSUME NEW t \in Threads, NEW cut \in BOOLEAN, Writes(t, cut)
        PROVE  Feed!FeedNext
    BY <2>3, WriteDelivers DEF Feed!FeedNext
  <2>4. ASSUME NEW t \in Threads, ConnClose(t)
        PROVE  [Feed!FeedNext]_<<recorded, phase, stream>>
    BY <2>4, CloseCloses DEF Feed!FeedNext
  <2>5. ASSUME NEW t \in Threads, ConnStep(t)
        PROVE  [Feed!FeedNext]_<<recorded, phase, stream>>
    BY <2>3, <2>4, <2>5, WritesByConn, OtherConnSteps, PhaseStays
  <2>6. CASE MainStep
    BY <2>6, AcceptOpens, CloseRefuses, OtherMainSteps, PhaseStays DEF Feed!FeedNext
  <2>7. CASE Environment
    BY <2>3, <2>7, WritesBySignal, OtherEnvironmentSteps, PhaseStays
  <2> QED
    BY <2>1, <2>2, <2>5, <2>6, <2>7 DEF Next
<1> QED
  BY <1>1, <1>2, TypeCorrect, RingRecorded, FramesCorrect, ConnectionsCorrect,
     StreamsCorrect, PTL DEF Spec, ImplementsFeed, Feed!FeedSpec

=============================================================================
