--------------------------- MODULE JtopView_proofs ---------------------------
(***************************************************************************)
(* What holds of the client for buffers, frames and histories of every     *)
(* size: its types, one provider at a time, a history in order, graphs     *)
(* that catch up, and packets that only a read that began before them can  *)
(* tear.                                                                   *)
(*                                                                         *)
(* The invariant of a provider (ProviderInv) is about Rest, the bytes it   *)
(* has not handled: they are frames one after the other, baos is the       *)
(* beginning of the first of them unless it began in the middle of a read, *)
(* and what was added to the history is not newer than they are.           *)
(***************************************************************************)
EXTENDS JtopView, SequenceTheorems, WellFoundedInduction, TLAPS

LEMMA InitTypeOK == Init => TypeOK
<1> SUFFICES ASSUME Init PROVE TypeOK
  OBVIOUS
<1>1. 0 \in 0 .. BufferSize /\ 0 \in 0 .. BufferSize + 1 /\ 0 \in 0 .. MaxFrames
      /\ 0 \in 0 .. MaxRedraws /\ 0 \in 0 .. FrameLength /\ 0 <= HistorySize
  BY ClientAssumption
<1>2. Null \in Byte
  BY <1>1 DEF Null, Byte
<1>3. <<>> \in Seq(Byte) /\ <<>> \in Seq(Frames \cup {Torn}) /\ Len(<<>>) = 0
      /\ <<>> \in Seq(Frames \cup {Torn, NoPoint})
  OBVIOUS
<1>4. /\ app \in {"paused", "resumed", "pausing", "crashed"}
      /\ dataProviderMain \in Providers \cup {NoProvider}
      /\ shouldShutdown \in [Providers -> BOOLEAN]
      /\ pc \in [Providers -> Connected \cup
                   {"none", "outer", "connect", "close", "sleep", "done"}]
  BY DEF Init
<1>5. /\ buffer \in [Providers -> [Indices -> Byte]]
      /\ nread \in [Providers -> 0 .. BufferSize]
      /\ startIndex \in [Providers -> 0 .. BufferSize + 1]
  BY <1>1, <1>2, Zenon DEF Init
<1>6. /\ baos \in [Providers -> Seq(Byte)] /\ wire \in [Providers -> Seq(Byte)]
      /\ triggerRedraw \in [Providers -> BOOLEAN]
      /\ carried \in [Providers -> BOOLEAN] /\ lost \in [Providers -> BOOLEAN]
  BY <1>3, Zenon DEF Init
<1> QED
  BY <1>1, <1>3, <1>4, <1>5, <1>6 DEF Init, TypeOK

\* A set of naturals that is not empty has a least element.
LEMMA LeastNatural ==
  ASSUME NEW S \in SUBSET Nat, S # {} PROVE \E i \in S : \A j \in S : i <= j
<1> DEFINE R == {ss \in Nat \X Nat : ss[1] < ss[2]}
<1>1. IsWellFoundedOn(R, Nat)
  BY NatLessThanWellFounded DEF OpToRel
<1>2. PICK i \in S : \A j \in S : ~ (<<j, i>> \in R)
  <2> HIDE DEF R
  <2> QED
    BY <1>1, WFMin
<1>3. \A j \in S : ~ (j < i)
  BY <1>2
<1> QED
  BY <1>3

\* The end of a packet, or of the read, lies between startIndex and nread.
LEMMA NullByteBounds ==
  ASSUME TypeOK, NEW p \in Providers
  PROVE  /\ NullByte(p) \in 0 .. BufferSize
         /\ NullByte(p) = nread[p] \/ NullByte(p) \in startIndex[p] .. nread[p] - 1
<1> DEFINE here == {i \in startIndex[p] .. nread[p] - 1 : buffer[p][i] = Null}
<1>0. nread[p] \in 0 .. BufferSize /\ startIndex[p] \in 0 .. BufferSize + 1
  BY DEF TypeOK
<1>1. CASE here = {}
  BY <1>0, <1>1 DEF NullByte
<1>2. CASE here # {}
  <2>1. here \in SUBSET Nat
    BY <1>0
  <2>2. \E i \in here : \A j \in here : i <= j
    <3> HIDE DEF here
    <3> QED
      BY <1>2, <2>1, LeastNatural
  <2>3. NullByte(p) \in here
    BY <1>2, <2>2 DEF NullByte
  <2> QED
    BY <1>0, <2>3, ClientAssumption
<1> QED
  BY <1>1, <1>2

-----------------------------------------------------------------------------
(* Types.                                                                  *)

Places == Connected \cup {"none", "outer", "connect", "close", "sleep", "done"}

LEMMA JumpTypeOK ==
  ASSUME TypeOK, NEW p \in Providers, NEW from, NEW to \in Places, Jump(p, from, to)
  PROVE  TypeOK'
<1>1. pc' \in [Providers -> Places]
  BY Zenon DEF TypeOK, Jump, Goes, Places
<1> QED
  BY <1>1 DEF TypeOK, Jump, uiVars, readVars, packetVars, netVars, drawVars, Places

\* The steps that only move the provider's thread.
LEMMA JumpsTypeOK ==
  ASSUME TypeOK, NEW p \in Providers,
         \/ OuterCheck(p) \/ Connect(p) \/ ConnectFails(p) \/ InnerCheck(p)
         \/ ReadEnds(p) \/ SleepEnds(p)
  PROVE  TypeOK'
<1>1. \E from, to \in Places : Jump(p, from, to)
  BY Zenon DEF OuterCheck, Connect, ConnectFails, InnerCheck, ReadEnds, SleepEnds,
     Places, Connected
<1> QED
  BY <1>1, JumpTypeOK

LEMMA ReadTypeOK ==
  ASSUME TypeOK, NEW p \in Providers, Read(p) PROVE TypeOK'
<1>1. PICK n \in 1 .. BufferSize :
        /\ n <= Len(wire[p])
        /\ nread' = [nread EXCEPT ![p] = n]
        /\ buffer' = [buffer EXCEPT ![p] =
                        [i \in Indices |-> IF i < n THEN wire[p][i + 1] ELSE @[i]]]
        /\ wire' = [wire EXCEPT ![p] = SubSeq(@, n + 1, Len(@))]
  BY DEF Read
<1>2. wire[p] \in Seq(Byte) /\ buffer[p] \in [Indices -> Byte]
  BY DEF TypeOK
<1>3. \A i \in Indices : i < n => wire[p][i + 1] \in Byte
  <2> TAKE i \in Indices
  <2> HAVE i < n
  <2>1. i + 1 \in 1 .. Len(wire[p])
    BY <1>1, <1>2, ClientAssumption DEF Indices
  <2> QED
    BY <1>2, <2>1
<1>4. [i \in Indices |-> IF i < n THEN wire[p][i + 1] ELSE buffer[p][i]]
        \in [Indices -> Byte]
  BY <1>2, <1>3
<1>5. buffer' \in [Providers -> [Indices -> Byte]]
  BY <1>1, <1>4, Zenon DEF TypeOK
<1>6. SubSeq(wire[p], n + 1, Len(wire[p])) \in Seq(Byte)
  BY <1>1, <1>2, ClientAssumption
<1>7. wire' \in [Providers -> Seq(Byte)]
  BY <1>1, <1>6, Zenon DEF TypeOK
<1>8. n \in 0 .. BufferSize /\ 0 \in 0 .. BufferSize + 1
  BY ClientAssumption
<1>9. /\ nread' \in [Providers -> 0 .. BufferSize]
      /\ startIndex' \in [Providers -> 0 .. BufferSize + 1]
      /\ triggerRedraw' \in [Providers -> BOOLEAN]
  BY <1>1, <1>8, Zenon DEF TypeOK, Read
<1>10. pc' \in [Providers -> Places]
  BY Zenon DEF TypeOK, Read, Goes, Places, Connected
<1> QED
  BY <1>5, <1>7, <1>9, <1>10
  DEF TypeOK, Read, Places, uiVars, packetVars, drawVars

\* What baos holds after a write that fits.
LEMMA WrittenType ==
  ASSUME TypeOK, NEW p \in Providers, Fits(p) PROVE Written(p) \in Seq(Byte)
<1>1. NullByte(p) \in 0 .. BufferSize /\ startIndex[p] \in 0 .. BufferSize + 1
  BY NullByteBounds DEF TypeOK
<1>2. baos[p] \in Seq(Byte) /\ buffer[p] \in [Indices -> Byte]
  BY DEF TypeOK
<1>3. \A k \in 1 .. NullByte(p) : buffer[p][startIndex[p] + k - 1] \in Byte
  <2> TAKE k \in 1 .. NullByte(p)
  <2>1. startIndex[p] + k - 1 \in Indices
    BY <1>1, ClientAssumption DEF Fits, Indices
  <2> QED
    BY <1>2, <2>1
<1>4. [k \in 1 .. NullByte(p) |-> buffer[p][startIndex[p] + k - 1]] \in Seq(Byte)
  BY <1>1, <1>3
<1> QED
  BY <1>2, <1>4 DEF Written

LEMMA PacketContinuesTypeOK ==
  ASSUME TypeOK, NEW p \in Providers, PacketContinues(p) PROVE TypeOK'
<1>1. baos' \in [Providers -> Seq(Byte)]
  BY WrittenType, Zenon DEF TypeOK, PacketContinues
<1>2. nread[p] + 1 \in 0 .. BufferSize + 1
  BY ClientAssumption DEF TypeOK
<1>3. startIndex' \in [Providers -> 0 .. BufferSize + 1]
  BY <1>2, Zenon DEF TypeOK, PacketContinues
<1>4. carried' \in [Providers -> BOOLEAN]
  <2>1. (carried[p] \/ startIndex[p] > 0) \in BOOLEAN
    BY Zenon
  <2> QED
    BY <2>1, Zenon DEF TypeOK, PacketContinues
<1>5. pc' \in [Providers -> Places]
  BY Zenon DEF TypeOK, PacketContinues, Goes, Places, Connected
<1> QED
  BY <1>1, <1>3, <1>4, <1>5
  DEF TypeOK, PacketContinues, Places, uiVars, netVars, drawVars

\* The history keeps its size.
LEMMA AddedType ==
  ASSUME NEW S, NEW h \in Seq(S), NEW packet \in S, Len(h) <= HistorySize
  PROVE  Added(h, packet) \in Seq(S) /\ Len(Added(h, packet)) <= HistorySize
<1>1. /\ Append(h, packet) \in Seq(S) /\ Len(Append(h, packet)) = Len(h) + 1
      /\ Append(h, packet) # <<>> /\ Len(h) \in Nat
  OBVIOUS
<1>2. Tail(Append(h, packet)) \in Seq(S) /\ Len(Tail(Append(h, packet))) = Len(h)
  BY <1>1
<1> QED
  BY <1>1, <1>2, ClientAssumption DEF Added

LEMMA ParsedType ==
  ASSUME NEW text, NEW packet \in Parsed(text) \ {Malformed}
  PROVE  packet \in Frames \cup {Torn}
BY Zenon DEF Parsed

LEMMA PacketEndsTypeOK ==
  ASSUME TypeOK, NEW p \in Providers, PacketEnds(p) PROVE TypeOK'
<1>1. PICK packet \in Parsed(Written(p)) \ {Malformed} :
        dataHistory' = Added(dataHistory, packet)
  BY Zenon DEF PacketEnds
<1>2. dataHistory' \in Seq(Frames \cup {Torn}) /\ Len(dataHistory') <= HistorySize
  <2>1. packet \in Frames \cup {Torn}
    BY ParsedType
  <2>2. dataHistory \in Seq(Frames \cup {Torn}) /\ Len(dataHistory) <= HistorySize
    BY DEF TypeOK
  <2> QED
    BY <1>1, <2>1, <2>2, AddedType, Zenon
<1>3. <<>> \in Seq(Byte)
  OBVIOUS
<1>4. NullByte(p) + 1 \in 0 .. BufferSize + 1
  BY NullByteBounds, ClientAssumption
<1>5. /\ startIndex' \in [Providers -> 0 .. BufferSize + 1]
      /\ baos' \in [Providers -> Seq(Byte)]
      /\ carried' \in [Providers -> BOOLEAN] /\ triggerRedraw' \in [Providers -> BOOLEAN]
  BY <1>3, <1>4, Zenon DEF TypeOK, PacketEnds
<1>6. pc' \in [Providers -> Places]
  BY Zenon DEF TypeOK, PacketEnds, Goes, Places, Connected
<1> QED
  BY <1>2, <1>5, <1>6
  DEF TypeOK, PacketEnds, Places, uiVars, netVars, drawVars

\* The locals of the loop, when it is left.
LEMMA ForgetReadType ==
  ASSUME TypeOK, NEW p \in Providers, ForgetRead(p)
  PROVE  /\ buffer' \in [Providers -> [Indices -> Byte]]
         /\ nread' \in [Providers -> 0 .. BufferSize]
         /\ startIndex' \in [Providers -> 0 .. BufferSize + 1]
         /\ triggerRedraw' \in [Providers -> BOOLEAN]
<1>1. 0 \in 0 .. BufferSize /\ 0 \in 0 .. BufferSize + 1
  BY ClientAssumption
<1> QED
  BY <1>1, Zenon DEF TypeOK, ForgetRead

LEMMA PacketFailsTypeOK ==
  ASSUME TypeOK, NEW p \in Providers, PacketFails(p) PROVE TypeOK'
<1>1. ForgetRead(p)
  BY DEF PacketFails
<1>2. unposted' \in BOOLEAN
  BY Zenon DEF TypeOK, PacketFails
<1>3. pc' \in [Providers -> Places]
  BY Zenon DEF TypeOK, PacketFails, Goes, Places, Connected
<1> QED
  BY <1>1, <1>2, <1>3, ForgetReadType
  DEF TypeOK, PacketFails, Places, uiVars, packetVars, netVars

LEMMA PostTypeOK ==
  ASSUME TypeOK, NEW p \in Providers, Post(p) PROVE TypeOK'
<1>1. ForgetRead(p)
  BY DEF Post
<1>2. redraws' \in 0 .. MaxRedraws
  BY ClientAssumption DEF TypeOK, Post
<1>3. unposted' \in BOOLEAN
  BY Zenon DEF TypeOK, Post
<1>4. pc' \in [Providers -> Places]
  BY Zenon DEF TypeOK, Post, Goes, Places, Connected
<1> QED
  BY <1>1, <1>2, <1>3, <1>4, ForgetReadType
  DEF TypeOK, Post, Places, uiVars, packetVars, netVars

LEMMA CloseTypeOK ==
  ASSUME TypeOK, NEW p \in Providers, Close(p) PROVE TypeOK'
<1>1. <<>> \in Seq(Byte)
  OBVIOUS
<1>2. /\ baos' \in [Providers -> Seq(Byte)] /\ wire' \in [Providers -> Seq(Byte)]
      /\ carried' \in [Providers -> BOOLEAN] /\ lost' \in [Providers -> BOOLEAN]
  BY <1>1, Zenon DEF TypeOK, Close
<1>3. pc' \in [Providers -> Places]
  BY Zenon DEF TypeOK, Close, Goes, Places, Connected
<1> QED
  BY <1>2, <1>3 DEF TypeOK, Close, Places, uiVars, readVars, drawVars

LEMMA ProviderStepTypeOK ==
  ASSUME TypeOK, NEW p \in Providers, ProviderStep(p) PROVE TypeOK'
<1>1. CASE WriteFails(p)
  BY <1>1 DEF TypeOK, WriteFails, readVars, packetVars, netVars, drawVars
<1> QED
  BY <1>1, JumpsTypeOK, ReadTypeOK, PacketContinuesTypeOK, PacketEndsTypeOK,
     PacketFailsTypeOK, PostTypeOK, CloseTypeOK DEF ProviderStep

LEMMA UIStepTypeOK ==
  ASSUME TypeOK, UIStep PROVE TypeOK'
<1>1. CASE OnResume
  <2>1. PICK p \in Providers :
          pc' = [pc EXCEPT ![p] = "outer"] /\ dataProviderMain' = p
    BY <1>1 DEF OnResume
  <2>2. pc' \in [Providers -> Places]
    BY <2>1, Zenon DEF TypeOK, Places
  <2> QED
    BY <1>1, <2>1, <2>2
    DEF TypeOK, OnResume, Places, readVars, packetVars, netVars, drawVars
<1>2. CASE OnPause
  <2>1. shouldShutdown' \in [Providers -> BOOLEAN]
    BY <1>2, Zenon DEF TypeOK, OnPause
  <2> QED
    BY <1>2, <2>1 DEF TypeOK, OnPause, readVars, packetVars, netVars, drawVars
<1>3. CASE OnPauseJoined
  BY <1>3 DEF TypeOK, OnPauseJoined, readVars, packetVars, netVars, drawVars
<1>4. CASE Redraw
  <2>1. series' \in Seq(Frames \cup {Torn, NoPoint})
    <3>1. dataHistory \in Seq(Frames \cup {Torn}) /\ Len(dataHistory) \in Nat
      BY DEF TypeOK
    <3>2. \A i \in 1 .. Len(dataHistory) : dataHistory[i] \in Frames \cup {Torn}
      BY <3>1
    <3> QED
      BY <1>4, <3>1, <3>2 DEF Redraw, Points
  <2>2. redraws' \in 0 .. MaxRedraws
    BY <1>4, ClientAssumption DEF TypeOK, Redraw
  <2> QED
    BY <1>4, <2>1, <2>2
    DEF TypeOK, Redraw, uiVars, readVars, packetVars, netVars
<1> QED
  BY <1>1, <1>2, <1>3, <1>4 DEF UIStep

\* What the server sends is bytes.
LEMMA FrameType ==
  ASSUME NEW f \in Frames PROVE Append(Text(f), Null) \in Seq(Byte)
<1>1. f \in 0 .. MaxFrames /\ 0 \in 0 .. MaxFrames /\ 0 \in 0 .. FrameLength
  BY ClientAssumption DEF Frames
<1>2. Null \in Byte
  BY <1>1 DEF Null, Byte
<1>3. \A k \in 1 .. FrameLength : [frame |-> f, pos |-> k] \in Byte
  BY <1>1, ClientAssumption DEF Byte
<1>4. Text(f) \in Seq(Byte)
  BY <1>3, ClientAssumption DEF Text
<1> QED
  BY <1>2, <1>4

LEMMA ServerStepTypeOK ==
  ASSUME TypeOK, NEW p \in Providers, ServerSends(p) \/ ServerLost(p) PROVE TypeOK'
<1>0. wire[p] \in Seq(Byte)
  BY DEF TypeOK
<1>1. CASE ServerSends(p)
  <2>1. newest' \in Frames /\ newest' \in 0 .. MaxFrames
    BY <1>1 DEF ServerSends, Frames
  <2>2. wire[p] \o Append(Text(newest'), Null) \in Seq(Byte)
    BY <1>0, <2>1, FrameType
  <2>3. wire' \in [Providers -> Seq(Byte)]
    BY <1>1, <2>2, Zenon DEF TypeOK, ServerSends
  <2> QED
    BY <1>1, <2>1, <2>3
    DEF TypeOK, ServerSends, uiVars, readVars, packetVars, drawVars
<1>2. CASE ServerLost(p)
  <2>1. PICK n \in 0 .. Len(wire[p]) : wire' = [wire EXCEPT ![p] = SubSeq(@, 1, n)]
    BY <1>2 DEF ServerLost
  <2>2. SubSeq(wire[p], 1, n) \in Seq(Byte)
    BY <1>0
  <2>3. wire' \in [Providers -> Seq(Byte)] /\ lost' \in [Providers -> BOOLEAN]
    BY <1>2, <2>1, <2>2, Zenon DEF TypeOK, ServerLost
  <2> QED
    BY <1>2, <2>3 DEF TypeOK, ServerLost, uiVars, readVars, packetVars, drawVars
<1> QED
  BY <1>1, <1>2

LEMMA StutterTypeOK ==
  ASSUME TypeOK, UNCHANGED vars PROVE TypeOK'
BY DEF TypeOK, vars, uiVars, readVars, packetVars, netVars, drawVars

LEMMA NextTypeOK == TypeOK /\ [Next]_vars => TypeOK'
BY UIStepTypeOK, ProviderStepTypeOK, ServerStepTypeOK, StutterTypeOK DEF Next

(***************************************************************************)
(* The variables keep their types; in it, dataHistory never holds more     *)
(* than HistorySize packets, and every index into the read buffer lies in  *)
(* it (JtopView.java 154, 165-189).                                        *)
(***************************************************************************)
THEOREM TypeCorrect == Spec => []TypeOK
<1> QED
  BY InitTypeOK, NextTypeOK, PTL DEF Spec

-----------------------------------------------------------------------------
(* One provider.                                                           *)

\* The provider that runs is the one onPause will stop and join.
MainIsJoined ==
  /\ \A p \in Providers : Alive(p) => p = dataProviderMain
  /\ app = "paused" => \A p \in Providers : ~ Alive(p)

\* A provider's step is made by a provider that runs, and starts no other.
LEMMA ProviderStepAlone ==
  ASSUME NEW p \in Providers, ProviderStep(p)
  PROVE  /\ Alive(p)
         /\ pc' = pc \/ \E place : pc' = [pc EXCEPT ![p] = place]
         /\ dataProviderMain' = dataProviderMain
         /\ app' \in {app, "crashed"}
<1>1. CASE \E from \in Places \ {"none", "done"} : \E to : Jump(p, from, to)
  BY <1>1, Zenon DEF Jump, Goes, Alive, uiVars
<1>2. CASE WriteFails(p)
  BY <1>2, Zenon DEF WriteFails, Alive
<1>3. CASE Read(p) \/ PacketContinues(p) \/ PacketEnds(p)
  BY <1>3, Zenon DEF Read, PacketContinues, PacketEnds, Goes, Alive, uiVars
<1>4. CASE PacketFails(p) \/ Post(p) \/ Close(p)
  BY <1>4, Zenon DEF PacketFails, Post, Close, Goes, Alive, uiVars
<1>5. CASE OuterCheck(p) \/ Connect(p) \/ ConnectFails(p) \/ InnerCheck(p)
           \/ ReadEnds(p) \/ SleepEnds(p)
  <2>1. \E from \in Places \ {"none", "done"} : \E to : Jump(p, from, to)
    BY <1>5, Zenon DEF OuterCheck, Connect, ConnectFails, InnerCheck, ReadEnds,
       SleepEnds, Places, Connected
  <2> QED
    BY <1>1, <2>1
<1> QED
  BY <1>2, <1>3, <1>4, <1>5 DEF ProviderStep

LEMMA ProviderKeepsMain ==
  ASSUME TypeOK, MainIsJoined, NEW p \in Providers, ProviderStep(p)
  PROVE  MainIsJoined'
<1>1. Alive(p) /\ dataProviderMain' = dataProviderMain /\ app' \in {app, "crashed"}
  BY ProviderStepAlone
<1>2. pc' = pc \/ \E place : pc' = [pc EXCEPT ![p] = place]
  BY ProviderStepAlone
<1>3. \A q \in Providers : Alive(q)' => Alive(q)
  BY <1>1, <1>2 DEF TypeOK, Alive
<1>4. app' # "paused"
  BY <1>1 DEF MainIsJoined
<1> QED
  BY <1>1, <1>3, <1>4 DEF MainIsJoined

LEMMA UIKeepsMain ==
  ASSUME TypeOK, MainIsJoined, UIStep PROVE MainIsJoined'
<1>1. CASE OnResume
  <2>1. PICK p \in Providers :
          pc' = [pc EXCEPT ![p] = "outer"] /\ dataProviderMain' = p
    BY <1>1 DEF OnResume
  <2>2. app = "paused" /\ app' = "resumed"
    BY <1>1 DEF OnResume
  <2>3. \A q \in Providers : Alive(q)' => q = p
    BY <2>1, <2>2 DEF TypeOK, MainIsJoined, Alive
  <2> QED
    BY <2>1, <2>2, <2>3 DEF MainIsJoined
<1>2. CASE OnPause
  BY <1>2 DEF OnPause, MainIsJoined, Alive
<1>3. CASE OnPauseJoined
  <2>1. pc' = pc /\ dataProviderMain' = dataProviderMain
        /\ pc[dataProviderMain] = "done"
    BY <1>3 DEF OnPauseJoined
  <2>2. \A q \in Providers : ~ Alive(q)
    BY <2>1 DEF MainIsJoined, Alive
  <2> QED
    BY <2>1, <2>2 DEF MainIsJoined, Alive
<1>4. CASE Redraw
  BY <1>4 DEF Redraw, MainIsJoined, Alive, uiVars
<1> QED
  BY <1>1, <1>2, <1>3, <1>4 DEF UIStep

LEMMA NextKeepsMain == TypeOK /\ MainIsJoined /\ [Next]_vars => MainIsJoined'
<1> SUFFICES ASSUME TypeOK, MainIsJoined, [Next]_vars PROVE MainIsJoined'
  OBVIOUS
<1>1. CASE \E p \in Providers : ServerSends(p) \/ ServerLost(p)
  <2>1. pc' = pc /\ UNCHANGED uiVars
    BY <1>1, Zenon DEF ServerSends, ServerLost
  <2> QED
    BY <2>1 DEF MainIsJoined, Alive, uiVars
<1>2. CASE UNCHANGED vars
  BY <1>2 DEF vars, uiVars, MainIsJoined, Alive
<1> QED
  BY <1>1, <1>2, ProviderKeepsMain, UIKeepsMain DEF Next

(***************************************************************************)
(* However the activity is paused and resumed, at most one provider runs,  *)
(* and none while it is paused: dataHistory has one writer (JtopView.java  *)
(* 120-139).                                                               *)
(***************************************************************************)
THEOREM OneProviderCorrect == Spec => []OneProvider
<1>1. Init => MainIsJoined
  BY DEF Init, MainIsJoined, Alive
<1>2. MainIsJoined => OneProvider
  BY DEF MainIsJoined, OneProvider
<1> QED
  BY <1>1, <1>2, NextKeepsMain, TypeCorrect, PTL DEF Spec

-----------------------------------------------------------------------------
(* The graphs catch up.                                                    *)

\* A redraw is queued, or its post is on the way, or an exception took it.
LEMMA NextRedraw == TypeOK /\ RedrawIsComing /\ [Next]_vars => RedrawIsComing'
<1> SUFFICES ASSUME TypeOK, RedrawIsComing, [Next]_vars PROVE RedrawIsComing'
  OBVIOUS
<1> USE DEF TypeOK, RedrawIsComing, Goes, uiVars, readVars, packetVars, netVars, drawVars
<1>1. ASSUME NEW p \in Providers, PacketEnds(p) PROVE RedrawIsComing'
  BY <1>1 DEF PacketEnds
<1>2. ASSUME NEW p \in Providers, PacketFails(p) PROVE RedrawIsComing'
  BY <1>2 DEF PacketFails, ForgetRead
<1>3. ASSUME NEW p \in Providers, Post(p) PROVE RedrawIsComing'
  BY <1>3, ClientAssumption DEF Post, ForgetRead
<1>4. ASSUME NEW p \in Providers, Read(p) PROVE RedrawIsComing'
  BY <1>4 DEF Read
<1>5. ASSUME NEW p \in Providers, PacketContinues(p) PROVE RedrawIsComing'
  BY <1>5 DEF PacketContinues
<1>6. ASSUME NEW p \in Providers,
             NEW from \in Places \ {"parse", "post"}, NEW to, Jump(p, from, to)
      PROVE  RedrawIsComing'
  BY <1>6 DEF Jump
<1>7. ASSUME NEW p \in Providers,
             \/ OuterCheck(p) \/ Connect(p) \/ ConnectFails(p) \/ InnerCheck(p)
             \/ ReadEnds(p) \/ SleepEnds(p)
      PROVE  RedrawIsComing'
  <2>1. \E from \in Places \ {"parse", "post"} : \E to : Jump(p, from, to)
    BY <1>7, Zenon DEF OuterCheck, Connect, ConnectFails, InnerCheck, ReadEnds,
       SleepEnds, Places, Connected
  <2> QED
    BY <1>6, <2>1
<1>8. ASSUME NEW p \in Providers, Close(p) PROVE RedrawIsComing'
  BY <1>8 DEF Close
<1>9. ASSUME NEW p \in Providers, WriteFails(p) \/ ServerSends(p) \/ ServerLost(p)
      PROVE  RedrawIsComing'
  BY <1>9 DEF WriteFails, ServerSends, ServerLost
<1>10. CASE Redraw
  BY <1>10 DEF Redraw, Points
<1>11. CASE OnResume
  BY <1>11 DEF OnResume
<1>12. CASE OnPause \/ OnPauseJoined
  BY <1>12 DEF OnPause, OnPauseJoined
<1>13. CASE UNCHANGED vars
  BY <1>13 DEF vars
<1> QED
  BY <1>1, <1>2, <1>3, <1>4, <1>5, <1>7, <1>8, <1>9, <1>10, <1>11, <1>12, <1>13
  DEF Next, UIStep, ProviderStep

(***************************************************************************)
(* Whatever the provider and the UI thread are at, the graphs show the     *)
(* history unless a redraw is coming or an exception took it               *)
(* (JtopView.java 190, 200-239).                                           *)
(***************************************************************************)
THEOREM RedrawCorrect == Spec => []RedrawIsComing
<1>1. Init => RedrawIsComing
  BY DEF Init, RedrawIsComing, Points
<1> QED
  BY <1>1, NextRedraw, TypeCorrect, PTL DEF Spec

-----------------------------------------------------------------------------
(* The stream of bytes.                                                    *)

\* The byte in place j of frame f, a null byte behind its last one.
Expected(f, j) == IF j = FrameLength + 1 THEN Null ELSE [frame |-> f, pos |-> j]

IsByte(x, top) ==
  x = Null \/ \E f \in Frames, j \in 1 .. FrameLength : x = Expected(f, j) /\ f <= top

Follows(x, y) ==
  IF x = Null THEN \E f \in Frames : y = Expected(f, 1)
  ELSE y = Expected(x.frame, x.pos + 1)

Before(x, y) == y # Null => x.frame <= y.frame

\* Frames one after the other, never an older behind a newer one.
IsStream(s, top) ==
  /\ \A k \in 1 .. Len(s) : IsByte(s[k], top)
  /\ \A k, l \in 1 .. Len(s) : l = k + 1 => Follows(s[k], s[l])
  /\ \A k, l \in 1 .. Len(s) : k < l => Before(s[k], s[l])

\* What is left when the first d bytes have been handled, and some at the end
\* may be lost.
Rests(t, s, d) == Len(t) + d <= Len(s) /\ \A k \in 1 .. Len(t) : t[k] = s[k + d]

LEMMA PieceOfStream ==
  ASSUME NEW s \in Seq(Byte), NEW t \in Seq(Byte), NEW d \in Nat, NEW top,
         Rests(t, s, d), IsStream(s, top)
  PROVE  IsStream(t, top)
<1>0. Len(s) \in Nat /\ Len(t) \in Nat
  OBVIOUS
<1>1. \A k \in 1 .. Len(t) : k + d \in 1 .. Len(s) /\ t[k] = s[k + d]
  BY <1>0 DEF Rests
<1>2. \A k \in 1 .. Len(t) : IsByte(t[k], top)
  BY <1>1 DEF IsStream
<1>3. ASSUME NEW k \in 1 .. Len(t), NEW l \in 1 .. Len(t), l = k + 1
      PROVE  Follows(t[k], t[l])
  <2>1. l + d = (k + d) + 1
    BY <1>0, <1>3
  <2> QED
    BY <1>1, <2>1 DEF IsStream
<1>4. ASSUME NEW k \in 1 .. Len(t), NEW l \in 1 .. Len(t), k < l
      PROVE  Before(t[k], t[l])
  <2>1. k + d < l + d
    BY <1>0, <1>4
  <2> QED
    BY <1>1, <2>1 DEF IsStream
<1> QED
  BY <1>2, <1>3, <1>4 DEF IsStream

\* What the server sends next: the newest frame and a null byte.
LEMMA FrameBytes ==
  ASSUME NEW f \in Frames
  PROVE  LET t == Append(Text(f), Null) IN
         /\ t \in Seq(Byte) /\ Len(t) = FrameLength + 1
         /\ \A k \in 1 .. FrameLength + 1 : t[k] = Expected(f, k)
<1>1. Append(Text(f), Null) \in Seq(Byte)
  BY FrameType
<1>2. FrameLength \in Nat \ {0}
  BY ClientAssumption
<1>3. Text(f) \in Seq(Byte) /\ Len(Text(f)) = FrameLength
  <2>1. \A k \in 1 .. FrameLength : [frame |-> f, pos |-> k] \in Byte
    BY <1>2, ClientAssumption DEF Byte, Frames
  <2> QED
    BY <1>2, <2>1 DEF Text
<1>4. \A k \in 1 .. FrameLength : Text(f)[k] = Expected(f, k)
  BY <1>2 DEF Text, Expected
<1>5. Expected(f, FrameLength + 1) = Null
  BY DEF Expected
<1> HIDE DEF Text
<1> QED
  BY <1>1, <1>2, <1>3, <1>4, <1>5, AppendProperties

LEMMA ExpectedByte ==
  ASSUME NEW f, NEW j \in 1 .. FrameLength
  PROVE  /\ Expected(f, j) = [frame |-> f, pos |-> j] /\ Expected(f, j) # Null
         /\ Expected(f, j).frame = f /\ Expected(f, j).pos = j
BY ClientAssumption DEF Expected, Null

LEMMA Joined ==
  ASSUME NEW s \in Seq(Byte), NEW a \in Seq(Byte), NEW t, t = s \o a
  PROVE  /\ t \in Seq(Byte) /\ Len(t) = Len(s) + Len(a) /\ Len(s) \in Nat /\ Len(a) \in Nat
         /\ \A k \in 1 .. Len(s) : t[k] = s[k]
         /\ \A k \in 1 .. Len(a) : t[Len(s) + k] = a[k]
<1>1. /\ t \in Seq(Byte) /\ Len(t) = Len(s) + Len(a)
      /\ \A i \in 1 .. Len(s) + Len(a) : t[i] = IF i <= Len(s) THEN s[i] ELSE a[i - Len(s)]
  BY ConcatProperties
<1>2. Len(s) \in Nat /\ Len(a) \in Nat
  OBVIOUS
<1>3. ASSUME NEW k \in 1 .. Len(s) PROVE t[k] = s[k]
  BY <1>1, <1>2
<1>4. ASSUME NEW k \in 1 .. Len(a) PROVE t[Len(s) + k] = a[k]
  <2>1. Len(s) + k \in 1 .. Len(s) + Len(a) /\ ~ (Len(s) + k <= Len(s))
        /\ (Len(s) + k) - Len(s) = k
    BY <1>2
  <2> QED
    BY <1>1, <2>1
<1> QED
  BY <1>1, <1>2, <1>3, <1>4

LEMMA FrameAppended ==
  ASSUME NEW s \in Seq(Byte), NEW f \in Frames, NEW t, t = s \o Append(Text(f), Null)
  PROVE  /\ t \in Seq(Byte) /\ Len(t) = Len(s) + FrameLength + 1
         /\ \A k \in 1 .. Len(s) : t[k] = s[k]
         /\ \A k \in 1 .. FrameLength + 1 : t[Len(s) + k] = Expected(f, k)
<1> DEFINE a == Append(Text(f), Null)
<1>1. a \in Seq(Byte) /\ Len(a) = FrameLength + 1
      /\ \A k \in 1 .. FrameLength + 1 : a[k] = Expected(f, k)
  BY FrameBytes
<1>2. FrameLength \in Nat \ {0} /\ Len(s) \in Nat /\ t = s \o a
  BY ClientAssumption
<1> HIDE DEF a
<1>3. t \in Seq(Byte) /\ Len(t) = Len(s) + Len(a)
  BY <1>1, <1>2, Joined
<1>4. /\ \A k \in 1 .. Len(s) : t[k] = s[k]
      /\ \A k \in 1 .. Len(a) : t[Len(s) + k] = a[k]
  BY <1>1, <1>2, Joined
<1>5. Len(t) = Len(s) + FrameLength + 1
  BY <1>1, <1>2, <1>3
<1> QED
  BY <1>1, <1>3, <1>4, <1>5

LEMMA StreamGrows ==
  ASSUME NEW s \in Seq(Byte), NEW top \in Nat, NEW f \in Frames, top <= f,
         IsStream(s, top), s = <<>> \/ s[Len(s)] = Null,
         NEW t \in Seq(Byte), Len(t) = Len(s) + FrameLength + 1,
         \A k \in 1 .. Len(s) : t[k] = s[k],
         \A k \in 1 .. FrameLength + 1 : t[Len(s) + k] = Expected(f, k)
  PROVE  IsStream(t, f) /\ t # <<>> /\ t[Len(t)] = Null
<1>2. FrameLength \in Nat \ {0} /\ Len(s) \in Nat /\ f \in Nat
  BY ClientAssumption DEF Frames
<1>3. /\ t \in Seq(Byte) /\ Len(t) = Len(s) + FrameLength + 1
      /\ \A k \in 1 .. Len(s) : t[k] = s[k]
  OBVIOUS
<1>4. \A k \in 1 .. FrameLength + 1 : t[Len(s) + k] = Expected(f, k)
  OBVIOUS
<1>5. t[Len(t)] = Null /\ t # <<>>
  <2>1. t[Len(s) + (FrameLength + 1)] = Expected(f, FrameLength + 1)
    BY <1>2, <1>4
  <2> QED
    BY <1>2, <1>3, <2>1 DEF Expected
<1>6. ASSUME NEW k \in 1 .. Len(t)
      PROVE  \/ k \in 1 .. Len(s) /\ t[k] = s[k]
             \/ \E j \in 1 .. FrameLength + 1 : k = Len(s) + j /\ t[k] = Expected(f, j)
  <2>1. k \in 1 .. Len(s) \/ k - Len(s) \in 1 .. FrameLength + 1
    BY <1>2, <1>3
  <2>2. CASE k - Len(s) \in 1 .. FrameLength + 1
    <3>1. k = Len(s) + (k - Len(s))
      BY <1>2
    <3> QED
      BY <1>4, <2>2, <3>1
  <2> QED
    BY <1>3, <2>1, <2>2
<1>7. ASSUME NEW x, IsByte(x, top)
      PROVE  IsByte(x, f) /\ x.frame \in Nat /\ x.frame <= f
  <2>1. CASE x = Null
    BY <1>2, <2>1 DEF IsByte, Null
  <2>2. ASSUME NEW g \in Frames, NEW j \in 1 .. FrameLength, x = Expected(g, j), g <= top
        PROVE  IsByte(x, f) /\ x.frame \in Nat /\ x.frame <= f
    <3>1. g \in Nat /\ g <= f
      BY <1>2, <2>2 DEF Frames
    <3> QED
      BY <2>2, <3>1, ExpectedByte DEF IsByte
  <2> QED
    BY <1>7, <2>1, <2>2 DEF IsByte
<1>8. ASSUME NEW j \in 1 .. FrameLength + 1
      PROVE  /\ IsByte(Expected(f, j), f)
             /\ Expected(f, j) # Null => j \in 1 .. FrameLength /\ Expected(f, j).frame = f
  <2>1. CASE j = FrameLength + 1
    BY <2>1 DEF Expected, IsByte
  <2>2. CASE j \in 1 .. FrameLength
    BY <1>2, <2>2, ExpectedByte DEF IsByte
  <2> QED
    BY <1>2, <2>1, <2>2
<1>9. ASSUME NEW k \in 1 .. Len(t) PROVE IsByte(t[k], f)
  <2>1. CASE k \in 1 .. Len(s) /\ t[k] = s[k]
    BY <1>7, <2>1 DEF IsStream
  <2> QED
    BY <1>6, <1>8, <2>1
<1>10. ASSUME NEW k \in 1 .. Len(t), NEW l \in 1 .. Len(t), l = k + 1
       PROVE  Follows(t[k], t[l])
  <2>1. CASE k \in 1 .. Len(s) /\ l \in 1 .. Len(s)
    BY <1>3, <1>10, <2>1 DEF IsStream
  <2>2. CASE k \in 1 .. Len(s) /\ l \notin 1 .. Len(s)
    <3>1. k = Len(s) /\ l = Len(s) + 1
      BY <1>2, <1>10, <2>2
    <3>2. t[k] = Null
      BY <1>2, <1>3, <2>2, <3>1
    <3>3. t[l] = Expected(f, 1)
      BY <1>2, <1>4, <3>1
    <3> QED
      BY <3>2, <3>3 DEF Follows
  <2>3. CASE k \notin 1 .. Len(s)
    <3>1. PICK j \in 1 .. FrameLength + 1 : k = Len(s) + j /\ t[k] = Expected(f, j)
      BY <1>6, <2>3
    <3>2. j \in 1 .. FrameLength /\ j + 1 \in 1 .. FrameLength + 1 /\ l = Len(s) + (j + 1)
      BY <1>2, <1>3, <1>10, <3>1
    <3>3. t[l] = Expected(f, j + 1)
      BY <1>4, <3>2
    <3> QED
      BY <3>1, <3>2, <3>3, ExpectedByte DEF Follows
  <2> QED
    BY <2>1, <2>2, <2>3
<1>11. ASSUME NEW k \in 1 .. Len(t), NEW l \in 1 .. Len(t), k < l
       PROVE  Before(t[k], t[l])
  <2>1. CASE l \in 1 .. Len(s)
    <3>1. k \in 1 .. Len(s)
      BY <1>2, <1>11, <2>1
    <3> QED
      BY <1>3, <1>11, <2>1, <3>1 DEF IsStream
  <2>2. CASE l \notin 1 .. Len(s)
    <3>1. t[l] # Null => t[l].frame = f
      BY <1>6, <1>8, <2>2
    <3>2. t[k].frame \in Nat /\ t[k].frame <= f
      <4>1. CASE k \in 1 .. Len(s) /\ t[k] = s[k]
        BY <1>7, <4>1 DEF IsStream
      <4>2. ASSUME NEW j \in 1 .. FrameLength + 1, t[k] = Expected(f, j)
            PROVE  t[k].frame \in Nat /\ t[k].frame <= f
        BY <1>2, <1>8, <4>2 DEF Null
      <4> QED
        BY <1>6, <4>1, <4>2
    <3> QED
      BY <3>1, <3>2 DEF Before
  <2> QED
    BY <2>1, <2>2
<1>12. IsStream(t, f)
  BY <1>9, <1>10, <1>11 DEF IsStream
<1> QED
  BY <1>5, <1>12

\* Bytes that are not null carry one frame on, to its end.
LEMMA RunOfBytes ==
  ASSUME NEW s \in Seq(Byte), NEW top, IsStream(s, top),
         NEW f \in Nat, NEW n \in 0 .. FrameLength, NEW m \in Nat, m <= Len(s),
         m > 0 => s[1] = Expected(f, n + 1),
         \A k \in 1 .. m : s[k] # Null
  PROVE  /\ n + m <= FrameLength
         /\ \A k \in 1 .. m : s[k] = [frame |-> f, pos |-> n + k]
         /\ 0 < m /\ m < Len(s) => s[m + 1] = Expected(f, n + m + 1)
<1>0. FrameLength \in Nat \ {0} /\ Len(s) \in Nat
  BY ClientAssumption
<1> DEFINE bad == {k \in 1 .. m : ~ (n + k <= FrameLength /\ s[k] = Expected(f, n + k))}
<1>1. bad = {}
  <2> SUFFICES ASSUME bad # {} PROVE FALSE
    OBVIOUS
  <2>1. PICK k \in bad : \A j \in bad : k <= j
    <3>1. bad \in SUBSET Nat
      OBVIOUS
    <3> HIDE DEF bad
    <3> QED
      BY <3>1, LeastNatural
  <2>2. k \in 1 .. m /\ k \in 1 .. Len(s) /\ s[k] # Null
    BY <1>0
  <2>3. CASE k = 1
    <3>1. s[1] = Expected(f, n + 1) /\ s[1] # Null
      BY <1>0, <2>2, <2>3
    <3>2. n + 1 # FrameLength + 1
      BY <3>1 DEF Expected
    <3> QED
      BY <1>0, <2>2, <2>3, <3>1, <3>2
  <2>4. CASE k # 1
    <3>1. k - 1 \in 1 .. m /\ k - 1 \in 1 .. Len(s) /\ k = (k - 1) + 1 /\ k - 1 \notin bad
      <4>1. k - 1 \in 1 .. m /\ k - 1 \in 1 .. Len(s) /\ k = (k - 1) + 1 /\ ~ (k <= k - 1)
        BY <1>0, <2>2, <2>4
      <4> HIDE DEF bad
      <4> QED
        BY <2>1, <4>1
    <3>2. n + (k - 1) \in 1 .. FrameLength /\ s[k - 1] = Expected(f, n + (k - 1))
      BY <3>1
    <3>3. s[k - 1] # Null /\ s[k - 1].frame = f /\ s[k - 1].pos = n + (k - 1)
      BY <3>2, ExpectedByte
    <3>4. s[k] = Expected(f, n + k)
      <4>1. Follows(s[k - 1], s[k])
        BY <2>2, <3>1 DEF IsStream
      <4>2. (n + (k - 1)) + 1 = n + k
        BY <2>2
      <4> QED
        BY <3>3, <4>1, <4>2 DEF Follows
    <3>5. n + k <= FrameLength
      BY <1>0, <2>2, <3>2, <3>4 DEF Expected
    <3> QED
      BY <3>4, <3>5
  <2> QED
    BY <2>3, <2>4
<1>2. \A k \in 1 .. m : n + k \in 1 .. FrameLength /\ s[k] = Expected(f, n + k)
  <2> TAKE k \in 1 .. m
  <2>1. n + k <= FrameLength /\ s[k] = Expected(f, n + k)
    BY <1>1
  <2> QED
    BY <1>0, <2>1
<1>3. \A k \in 1 .. m : s[k] = [frame |-> f, pos |-> n + k]
  BY <1>2, ExpectedByte
<1>4. n + m <= FrameLength
  <2>1. CASE m = 0
    BY <1>0, <2>1
  <2>2. CASE m # 0
    <3>1. m \in 1 .. m
      BY <2>2
    <3> QED
      BY <1>2, <3>1
  <2> QED
    BY <2>1, <2>2
<1>5. ASSUME 0 < m, m < Len(s) PROVE s[m + 1] = Expected(f, n + m + 1)
  <2>1. m \in 1 .. m /\ m \in 1 .. Len(s) /\ m + 1 \in 1 .. Len(s)
    BY <1>0, <1>5
  <2>2. Follows(s[m], s[m + 1])
    BY <2>1 DEF IsStream
  <2>3. s[m].frame = f /\ s[m].pos = n + m /\ s[m] # Null
    <3>1. s[m] = [frame |-> f, pos |-> n + m]
      BY <1>3, <2>1
    <3>2. s[m] # Null
      BY <2>1
    <3> QED
      BY <3>1, <3>2
  <2> QED
    BY <2>2, <2>3 DEF Follows
<1> QED
  BY <1>3, <1>4, <1>5

-----------------------------------------------------------------------------
(* The bytes a provider has before it.                                     *)

\* Those of buffer b from place i to place n, then those of the socket.
RestOf(b, i, n, w) == [k \in 1 .. n - i |-> b[i + k - 1]] \o w

Rest(p) == RestOf(buffer[p], startIndex[p], nread[p], wire[p])

LEMMA RestIsSeq ==
  ASSUME NEW b \in [Indices -> Byte], NEW i \in 0 .. BufferSize + 1,
         NEW n \in 0 .. BufferSize, NEW w \in Seq(Byte)
  PROVE  LET r == RestOf(b, i, n, w)
             d == IF i < n THEN n - i ELSE 0 IN
         /\ r \in Seq(Byte) /\ Len(w) \in Nat /\ Len(r) = d + Len(w)
         /\ \A k \in 1 .. d : r[k] = b[i + k - 1] /\ i + k - 1 \in Indices
         /\ \A k \in 1 .. Len(w) : r[d + k] = w[k]
<1> DEFINE d == IF i < n THEN n - i ELSE 0
           v == [k \in 1 .. d |-> b[i + k - 1]]
<1>0. BufferSize \in Nat \ {0} /\ d \in Nat /\ 1 .. n - i = 1 .. d
  BY ClientAssumption
<1>1. \A k \in 1 .. d : i + k - 1 \in Indices
  BY <1>0 DEF Indices
<1>2. \A k \in 1 .. d : b[i + k - 1] \in Byte
  BY <1>1
<1> HIDE DEF d
<1>3. v \in Seq(Byte) /\ Len(v) = d /\ \A k \in 1 .. d : v[k] = b[i + k - 1]
  BY <1>0, <1>2
<1>4. RestOf(b, i, n, w) = v \o w
  BY <1>0, Zenon DEF RestOf
<1> HIDE DEF v
<1>5. /\ RestOf(b, i, n, w) \in Seq(Byte) /\ Len(w) \in Nat
      /\ Len(RestOf(b, i, n, w)) = Len(v) + Len(w)
  BY <1>3, <1>4, Joined
<1>6. /\ \A k \in 1 .. Len(v) : RestOf(b, i, n, w)[k] = v[k]
      /\ \A k \in 1 .. Len(w) : RestOf(b, i, n, w)[Len(v) + k] = w[k]
  <2>1. PICK r : r = RestOf(b, i, n, w)
    OBVIOUS
  <2>2. /\ \A k \in 1 .. Len(v) : r[k] = v[k]
        /\ \A k \in 1 .. Len(w) : r[Len(v) + k] = w[k]
    BY <1>3, <1>4, <2>1, Joined
  <2> QED
    BY <2>1, <2>2
<1>7. /\ RestOf(b, i, n, w) \in Seq(Byte) /\ Len(w) \in Nat
      /\ Len(RestOf(b, i, n, w)) = d + Len(w)
      /\ \A k \in 1 .. d : RestOf(b, i, n, w)[k] = b[i + k - 1]
      /\ \A k \in 1 .. Len(w) : RestOf(b, i, n, w)[d + k] = w[k]
  BY <1>3, <1>5, <1>6
<1> QED
  BY <1>1, <1>7 DEF d

\* Handling the buffer up to another place drops bytes at the head.
LEMMA RestDrops ==
  ASSUME NEW b \in [Indices -> Byte], NEW i \in 0 .. BufferSize + 1,
         NEW j \in 0 .. BufferSize + 1,
         NEW n \in 0 .. BufferSize, NEW w \in Seq(Byte), i <= j, i < n
  PROVE  Rests(RestOf(b, j, n, w), RestOf(b, i, n, w), IF j < n THEN j - i ELSE n - i)
<1> DEFINE r == RestOf(b, i, n, w)
           q == RestOf(b, j, n, w)
<1>0. BufferSize \in Nat \ {0} /\ Len(w) \in Nat
  BY ClientAssumption
<1>1. /\ r \in Seq(Byte) /\ Len(r) = (n - i) + Len(w)
      /\ \A k \in 1 .. n - i : r[k] = b[i + k - 1]
      /\ \A k \in 1 .. Len(w) : r[(n - i) + k] = w[k]
  BY RestIsSeq
<1>2. CASE j < n
  <2>1. /\ q \in Seq(Byte) /\ Len(q) = (n - j) + Len(w)
        /\ \A k \in 1 .. n - j : q[k] = b[j + k - 1]
        /\ \A k \in 1 .. Len(w) : q[(n - j) + k] = w[k]
    BY <1>2, RestIsSeq
  <2> HIDE DEF r, q
  <2>2. ASSUME NEW k \in 1 .. Len(q) PROVE q[k] = r[k + (j - i)]
    <3>1. CASE k <= n - j
      <4>1. k \in 1 .. n - j /\ k + (j - i) \in 1 .. n - i
            /\ i + (k + (j - i)) - 1 = j + k - 1
        BY <1>0, <2>1, <3>1
      <4> QED
        BY <1>1, <2>1, <4>1
    <3>2. CASE ~ (k <= n - j)
      <4>1. PICK h \in 1 .. Len(w) : k = (n - j) + h
        <5>1. k - (n - j) \in 1 .. Len(w) /\ k = (n - j) + (k - (n - j))
          BY <1>0, <2>1, <3>2
        <5> QED
          BY <5>1
      <4>2. k + (j - i) = (n - i) + h
        BY <1>0, <4>1
      <4> QED
        BY <1>1, <2>1, <4>1, <4>2
    <3> QED
      BY <3>1, <3>2
  <2>3. Len(q) + (j - i) <= Len(r)
    BY <1>0, <1>1, <2>1
  <2> QED
    BY <1>2, <2>2, <2>3 DEF Rests, r, q
<1>3. CASE ~ (j < n)
  <2>1. q \in Seq(Byte) /\ Len(q) = Len(w) /\ \A k \in 1 .. Len(w) : q[0 + k] = w[k]
    BY <1>0, <1>3, RestIsSeq
  <2> HIDE DEF r, q
  <2>2. ASSUME NEW k \in 1 .. Len(q) PROVE q[k] = r[k + (n - i)]
    <3>1. k \in 1 .. Len(w) /\ k + (n - i) = (n - i) + k /\ 0 + k = k
      BY <1>0, <2>1
    <3> QED
      BY <1>1, <2>1, <3>1
  <2>3. Len(q) + (n - i) <= Len(r)
    BY <1>0, <1>1, <2>1
  <2> QED
    BY <1>3, <2>2, <2>3 DEF Rests, r, q
<1> QED
  BY <1>2, <1>3

-----------------------------------------------------------------------------
(* The invariant of one provider and of the history.                       *)

\* Where a provider's locals and its socket are in use.
Control(p) ==
  /\ pc[p] \in {"none", "outer", "connect", "sleep", "done"} =>
       wire[p] = <<>> /\ baos[p] = <<>> /\ ~ carried[p] /\ ~ lost[p]
  /\ pc[p] = "parse" => startIndex[p] < nread[p]
  /\ pc[p] = "post" => nread[p] <= startIndex[p]
  /\ pc[p] \notin {"parse", "post"} => nread[p] = 0 /\ startIndex[p] = 0

\* A connection that is not lost ends with a whole frame, in baos or behind it.
Ends(t, s) == IF s = <<>> THEN t = <<>> ELSE s[Len(s)] = Null

\* t is the beginning of the frame that s goes on with.
Begins(t, s) ==
  \E f \in 0 .. MaxFrames, n \in 0 .. FrameLength :
    /\ n > 0 => f \in Frames
    /\ Len(t) = n /\ \A k \in 1 .. n : t[k] = [frame |-> f, pos |-> k]
    /\ s # <<>> => s[1] = Expected(f, n + 1)

\* t is of no newer frame than what follows it.
InFront(t, s, top) ==
  t # <<>> => /\ t[1].frame \in Nat /\ t[1].frame <= top
              /\ \A k \in 1 .. Len(s) : Before(t[1], s[k])

ProviderInv(p) ==
  /\ Control(p)
  /\ IsStream(Rest(p), newest)
  /\ pc[p] \in Connected /\ ~ lost[p] => Ends(baos[p], Rest(p))
  /\ pc[p] \in Connected /\ ~ carried[p] => Begins(baos[p], Rest(p))
  /\ InFront(baos[p], Rest(p), newest)

\* The history is older than what is to come.
Behind(f, t, s, top) ==
  /\ f <= top /\ (t # <<>> => f <= t[1].frame)
  /\ \A k \in 1 .. Len(s) : s[k] # Null => f <= s[k].frame

HistoryInv ==
  \A i \in 1 .. Len(dataHistory) : dataHistory[i] # Torn =>
    \A p \in Providers : Behind(dataHistory[i], baos[p], Rest(p), newest)

ClientInv ==
  /\ MainIsJoined /\ HistoryInOrder /\ HistoryInv
  /\ \A p \in Providers : ProviderInv(p)

LEMMA RestTyped ==
  ASSUME TypeOK, TypeOK', NEW p \in Providers
  PROVE  /\ Rest(p) \in Seq(Byte) /\ Rest(p)' \in Seq(Byte)
         /\ baos[p] \in Seq(Byte) /\ baos[p]' \in Seq(Byte)
         /\ newest \in Nat /\ newest' \in Nat
<1>1. /\ buffer[p] \in [Indices -> Byte] /\ startIndex[p] \in 0 .. BufferSize + 1
      /\ nread[p] \in 0 .. BufferSize /\ wire[p] \in Seq(Byte)
  BY DEF TypeOK
<1>2. /\ buffer[p]' \in [Indices -> Byte] /\ startIndex[p]' \in 0 .. BufferSize + 1
      /\ nread[p]' \in 0 .. BufferSize /\ wire[p]' \in Seq(Byte)
  BY DEF TypeOK
<1>3. Rest(p) \in Seq(Byte)
  BY <1>1, RestIsSeq DEF Rest
<1>4. Rest(p)' \in Seq(Byte)
  BY <1>2, RestIsSeq DEF Rest
<1> QED
  BY <1>3, <1>4 DEF TypeOK

LEMMA PieceInFront ==
  ASSUME NEW s \in Seq(Byte), NEW s2 \in Seq(Byte), NEW t, NEW top, NEW d \in Nat,
         Rests(s2, s, d), InFront(t, s, top)
  PROVE  InFront(t, s2, top)
<1>1. \A k \in 1 .. Len(s2) : k + d \in 1 .. Len(s) /\ s2[k] = s[k + d]
  BY DEF Rests
<1> QED
  BY <1>1 DEF InFront

LEMMA PieceBehind ==
  ASSUME NEW s \in Seq(Byte), NEW s2 \in Seq(Byte), NEW t, NEW t2, NEW top, NEW d \in Nat,
         NEW f, Rests(s2, s, d), t2 \in {t, <<>>}, Behind(f, t, s, top)
  PROVE  Behind(f, t2, s2, top)
<1>1. \A k \in 1 .. Len(s2) : k + d \in 1 .. Len(s) /\ s2[k] = s[k + d]
  BY DEF Rests
<1> QED
  BY <1>1 DEF Behind

LEMMA EqualRests == ASSUME NEW s \in Seq(Byte) PROVE Rests(s, s, 0)
BY DEF Rests

LEMMA NewerStream ==
  ASSUME NEW s \in Seq(Byte), NEW top \in Nat, NEW top2 \in Nat, top <= top2,
         IsStream(s, top)
  PROVE  IsStream(s, top2)
<1>1. ASSUME NEW x, IsByte(x, top) PROVE IsByte(x, top2)
  <2>1. ASSUME NEW f \in Frames, f <= top PROVE f <= top2
    BY <2>1 DEF Frames
  <2> QED
    BY <1>1, <2>1 DEF IsByte
<1> QED
  BY <1>1 DEF IsStream

\* A step that leaves the history of what is to come behind.
KeepsBehind(p) ==
  \A f \in Frames : Behind(f, baos[p], Rest(p), newest) =>
                      Behind(f, baos[p], Rest(p), newest)'

\* Another provider's step.
Same(p) ==
  /\ pc[p]' = pc[p] /\ buffer[p]' = buffer[p] /\ nread[p]' = nread[p]
  /\ startIndex[p]' = startIndex[p] /\ wire[p]' = wire[p] /\ baos[p]' = baos[p]
  /\ carried[p]' = carried[p] /\ lost[p]' = lost[p]

LEMMA SameKeeps ==
  ASSUME TypeOK, TypeOK', NEW p \in Providers, ProviderInv(p), Same(p), newest <= newest'
  PROVE  ProviderInv(p)' /\ KeepsBehind(p)
<1>1. Rest(p)' = Rest(p)
  BY DEF Same, Rest, RestOf
<1>2. Rest(p) \in Seq(Byte) /\ newest \in Nat /\ newest' \in Nat /\ baos[p]' = baos[p]
  BY RestTyped DEF Same
<1>3. Control(p)'
  BY DEF ProviderInv, Control, Same
<1>4. IsStream(Rest(p), newest)'
  <2>1. IsStream(Rest(p), newest')
    BY <1>2, NewerStream DEF ProviderInv
  <2> QED
    BY <1>1, <2>1
<1>5. InFront(baos[p], Rest(p), newest)'
  <2>1. InFront(baos[p], Rest(p), newest')
    BY <1>2 DEF ProviderInv, InFront
  <2> QED
    BY <1>1, <1>2, <2>1
<1>6. (pc[p] \in Connected /\ ~ lost[p] => Ends(baos[p], Rest(p)))'
  BY <1>1 DEF ProviderInv, Same
<1>7. (pc[p] \in Connected /\ ~ carried[p] => Begins(baos[p], Rest(p)))'
  BY <1>1 DEF ProviderInv, Same
<1>8. KeepsBehind(p)
  <2> SUFFICES ASSUME NEW f \in Frames, Behind(f, baos[p], Rest(p), newest)
               PROVE  Behind(f, baos[p], Rest(p), newest')
    BY <1>1, <1>2 DEF KeepsBehind
  <2>1. f \in Nat
    BY DEF Frames
  <2> QED
    BY <1>2, <2>1 DEF Behind
<1> QED
  BY <1>3, <1>4, <1>5, <1>6, <1>7, <1>8 DEF ProviderInv

-----------------------------------------------------------------------------
(* The provider's steps keep its invariant.                                *)

LEMMA RestMoves ==
  ASSUME TypeOK, TypeOK', NEW p \in Providers, ProviderInv(p), NEW d \in Nat,
         Rests(Rest(p)', Rest(p), d), newest' = newest, baos[p]' \in {baos[p], <<>>}
  PROVE  IsStream(Rest(p), newest)' /\ InFront(baos[p], Rest(p), newest)' /\ KeepsBehind(p)
<1>0. Rest(p) \in Seq(Byte) /\ Rest(p)' \in Seq(Byte)
  BY RestTyped
<1>1. IsStream(Rest(p)', newest)
  BY <1>0, PieceOfStream DEF ProviderInv
<1>2. InFront(baos[p], Rest(p)', newest)
  BY <1>0, PieceInFront DEF ProviderInv
<1>3. InFront(baos[p]', Rest(p)', newest)
  BY <1>2 DEF InFront
<1>4. \A f \in Frames : Behind(f, baos[p], Rest(p), newest) =>
                          Behind(f, baos[p]', Rest(p)', newest)
  BY <1>0, PieceBehind
<1> QED
  BY <1>1, <1>3, <1>4 DEF KeepsBehind

LEMMA JumpKeeps ==
  ASSUME TypeOK, TypeOK', NEW p \in Providers, ProviderInv(p),
         \/ OuterCheck(p) \/ Connect(p) \/ ConnectFails(p) \/ InnerCheck(p)
         \/ ReadEnds(p) \/ SleepEnds(p)
  PROVE  ProviderInv(p)' /\ KeepsBehind(p)
<1>1. /\ buffer' = buffer /\ nread' = nread /\ startIndex' = startIndex /\ wire' = wire
      /\ baos' = baos /\ carried' = carried /\ lost' = lost /\ newest' = newest
  BY DEF OuterCheck, Connect, ConnectFails, InnerCheck, ReadEnds, SleepEnds, Jump,
         readVars, packetVars, netVars
<1>2. Rest(p)' = Rest(p) /\ Rest(p) \in Seq(Byte)
  BY <1>1, RestTyped DEF Rest
<1>3. IsStream(Rest(p), newest)' /\ InFront(baos[p], Rest(p), newest)' /\ KeepsBehind(p)
  BY <1>1, <1>2, EqualRests, RestMoves
<1>4. \/ pc[p] \in {"inner", "read"} /\ pc'[p] \in {"read", "close"}
      \/ pc[p] = "connect" /\ pc'[p] \in {"inner", "close"}
      \/ pc[p] \in {"outer", "sleep"} /\ pc'[p] \in {"done", "connect", "outer"}
  BY DEF TypeOK, OuterCheck, Connect, ConnectFails, InnerCheck, ReadEnds, SleepEnds,
         Jump, Goes
<1>5. Control(p)'
  BY <1>1, <1>4 DEF ProviderInv, Control
<1>6. CASE pc[p] \in {"inner", "read"}
  BY <1>1, <1>2, <1>3, <1>4, <1>5, <1>6 DEF ProviderInv, Connected
<1>7. CASE pc[p] = "connect"
  <2>1. wire[p] = <<>> /\ baos[p] = <<>> /\ nread[p] = 0 /\ startIndex[p] = 0
    BY <1>7 DEF ProviderInv, Control
  <2>2. Rest(p) = <<>>
    <3>1. Rest(p) = <<>> \o <<>>
      BY <2>1 DEF Rest, RestOf
    <3> QED
      BY <3>1
  <2>3. Ends(<<>>, <<>>) /\ Begins(<<>>, <<>>)
    <3>1. 0 \in 0 .. MaxFrames /\ 0 \in 0 .. FrameLength /\ Len(<<>>) = 0
      BY ClientAssumption
    <3> QED
      BY <3>1 DEF Ends, Begins
  <2> QED
    BY <1>1, <1>2, <1>3, <1>5, <2>1, <2>2, <2>3 DEF ProviderInv
<1>8. CASE pc[p] \in {"outer", "sleep"}
  <2>1. pc'[p] \notin Connected
    BY <1>4, <1>8 DEF Connected
  <2> QED
    BY <1>3, <1>5, <2>1 DEF ProviderInv
<1> QED
  BY <1>4, <1>6, <1>7, <1>8

LEMMA ReadKeeps ==
  ASSUME TypeOK, TypeOK', NEW p \in Providers, ProviderInv(p), Read(p)
  PROVE  ProviderInv(p)' /\ KeepsBehind(p)
<1>1. PICK n \in 1 .. BufferSize :
        /\ n <= Len(wire[p])
        /\ nread' = [nread EXCEPT ![p] = n]
        /\ buffer' = [buffer EXCEPT ![p] =
                        [i \in Indices |-> IF i < n THEN wire[p][i + 1] ELSE @[i]]]
        /\ wire' = [wire EXCEPT ![p] = SubSeq(@, n + 1, Len(@))]
  BY DEF Read
<1>2. /\ pc[p] = "read" /\ pc'[p] = "parse" /\ startIndex'[p] = 0
      /\ baos' = baos /\ carried' = carried /\ lost' = lost /\ newest' = newest
  BY DEF Read, TypeOK, Goes, packetVars
<1>3. nread[p] = 0 /\ startIndex[p] = 0
  BY <1>2 DEF ProviderInv, Control
<1>4. /\ nread'[p] = n /\ wire'[p] = SubSeq(wire[p], n + 1, Len(wire[p]))
      /\ buffer'[p] = [i \in Indices |-> IF i < n THEN wire[p][i + 1] ELSE buffer[p][i]]
  BY <1>1 DEF TypeOK
<1>5. Rest(p)' = Rest(p)
  <2>0. /\ buffer[p] \in [Indices -> Byte] /\ wire[p] \in Seq(Byte)
        /\ buffer'[p] \in [Indices -> Byte] /\ wire'[p] \in Seq(Byte)
        /\ BufferSize \in Nat \ {0} /\ Len(wire[p]) \in Nat
    <3>1. buffer[p] \in [Indices -> Byte] /\ wire[p] \in Seq(Byte)
      BY DEF TypeOK
    <3>2. buffer'[p] \in [Indices -> Byte] /\ wire'[p] \in Seq(Byte)
      BY DEF TypeOK
    <3> QED
      BY <3>1, <3>2, ClientAssumption
  <2>1. Rest(p) \in Seq(Byte) /\ Len(Rest(p)) = Len(wire[p])
        /\ \A k \in 1 .. Len(wire[p]) : Rest(p)[k] = wire[p][k]
    <3>1. 0 \in 0 .. BufferSize + 1 /\ 0 \in 0 .. BufferSize
      BY <2>0
    <3>2. /\ RestOf(buffer[p], 0, 0, wire[p]) \in Seq(Byte)
          /\ Len(RestOf(buffer[p], 0, 0, wire[p])) = 0 + Len(wire[p])
          /\ \A k \in 1 .. Len(wire[p]) : RestOf(buffer[p], 0, 0, wire[p])[0 + k] = wire[p][k]
      BY <2>0, <3>1, RestIsSeq
    <3> QED
      BY <1>3, <2>0, <3>2 DEF Rest
  <2>2. /\ Rest(p)' \in Seq(Byte) /\ Len(Rest(p)') = n + Len(wire'[p])
        /\ \A k \in 1 .. n : Rest(p)'[k] = buffer'[p][0 + k - 1] /\ 0 + k - 1 \in Indices
        /\ \A k \in 1 .. Len(wire'[p]) : Rest(p)'[n + k] = wire'[p][k]
    <3>1. 0 \in 0 .. BufferSize + 1 /\ n \in 0 .. BufferSize /\ n - 0 = n /\ 0 < n
      BY <2>0
    <3>2. Rest(p)' = RestOf(buffer'[p], 0, n, wire'[p])
      BY <1>2, <1>4 DEF Rest
    <3>3. PICK r : r = RestOf(buffer'[p], 0, n, wire'[p])
      OBVIOUS
    <3>4. r \in Seq(Byte) /\ Len(r) = n + Len(wire'[p])
      BY <2>0, <3>1, <3>3, RestIsSeq
    <3>5. \A k \in 1 .. n : r[k] = buffer'[p][0 + k - 1] /\ 0 + k - 1 \in Indices
      BY <2>0, <3>1, <3>3, RestIsSeq
    <3>6. \A k \in 1 .. Len(wire'[p]) : r[n + k] = wire'[p][k]
      BY <2>0, <3>1, <3>3, RestIsSeq
    <3> QED
      BY <3>2, <3>3, <3>4, <3>5, <3>6
  <2>3. Len(wire'[p]) = Len(wire[p]) - n
        /\ \A k \in 1 .. Len(wire[p]) - n : wire'[p][k] = wire[p][n + k]
    BY <1>1, <1>4, <2>0
  <2>4. ASSUME NEW k \in 1 .. Len(wire[p]) PROVE Rest(p)'[k] = wire[p][k]
    <3>1. CASE k <= n
      <4>1. k \in 1 .. n /\ 0 + k - 1 < n /\ (0 + k - 1) + 1 = k
        BY <1>1, <3>1
      <4> QED
        BY <1>4, <2>2, <4>1
    <3>2. CASE ~ (k <= n)
      <4>1. k - n \in 1 .. Len(wire[p]) - n /\ n + (k - n) = k
        BY <1>1, <2>0, <3>2
      <4> QED
        BY <2>2, <2>3, <4>1
    <3> QED
      BY <3>1, <3>2
  <2>5. Len(Rest(p)') = Len(Rest(p))
    BY <2>0, <2>1, <2>2, <2>3
  <2> QED
    BY <2>1, <2>2, <2>4, <2>5, SeqEqual
<1>6. IsStream(Rest(p), newest)' /\ InFront(baos[p], Rest(p), newest)' /\ KeepsBehind(p)
  BY <1>2, <1>5, RestTyped, EqualRests, RestMoves
<1>7. Control(p)'
  BY <1>2, <1>4 DEF Control
<1> QED
  BY <1>2, <1>5, <1>6, <1>7 DEF ProviderInv, Connected

\* The bytes of a provider's read that are not handled yet.
LEMMA RestOfRead ==
  ASSUME TypeOK, NEW p \in Providers, startIndex[p] < nread[p]
  PROVE  /\ nread[p] - startIndex[p] \in Nat
         /\ nread[p] - startIndex[p] <= Len(Rest(p))
         /\ \A k \in 1 .. nread[p] - startIndex[p] : Rest(p)[k] = buffer[p][startIndex[p] + k - 1]
<1>1. /\ buffer[p] \in [Indices -> Byte] /\ startIndex[p] \in 0 .. BufferSize + 1
      /\ nread[p] \in 0 .. BufferSize /\ wire[p] \in Seq(Byte)
  BY DEF TypeOK
<1>2. nread[p] - startIndex[p] \in Nat
  BY <1>1, ClientAssumption
<1>3. Len(Rest(p)) = (nread[p] - startIndex[p]) + Len(wire[p]) /\ Len(wire[p]) \in Nat
  BY <1>1, RestIsSeq DEF Rest
<1>4. \A k \in 1 .. nread[p] - startIndex[p] : Rest(p)[k] = buffer[p][startIndex[p] + k - 1]
  BY <1>1, RestIsSeq DEF Rest
<1> QED
  BY <1>2, <1>3, <1>4

\* The bytes before the one where a packet ends are not null.
LEMMA FirstNull ==
  ASSUME TypeOK, NEW p \in Providers, startIndex[p] < nread[p],
         NEW m, m = NullByte(p) - startIndex[p]
  PROVE  /\ m \in Nat /\ m <= nread[p] - startIndex[p]
         /\ NullByte(p) = nread[p] <=> m = nread[p] - startIndex[p]
         /\ \A k \in 1 .. m : Rest(p)[k] # Null
         /\ m < nread[p] - startIndex[p] => Rest(p)[m + 1] = Null
<1> DEFINE here == {i \in startIndex[p] .. nread[p] - 1 : buffer[p][i] = Null}
<1>0. nread[p] \in 0 .. BufferSize /\ startIndex[p] \in 0 .. BufferSize + 1
      /\ BufferSize \in Nat \ {0}
  BY ClientAssumption DEF TypeOK
<1>1. /\ NullByte(p) \in startIndex[p] .. nread[p]
      /\ \A i \in startIndex[p] .. nread[p] - 1 : i < NullByte(p) => buffer[p][i] # Null
      /\ NullByte(p) < nread[p] => buffer[p][NullByte(p)] = Null
  <2>1. CASE here = {}
    BY <1>0, <2>1 DEF NullByte
  <2>2. CASE here # {}
    <3>1. here \in SUBSET Nat
      BY <1>0
    <3>2. \E i \in here : \A j \in here : i <= j
      <4> HIDE DEF here
      <4> QED
        BY <2>2, <3>1, LeastNatural
    <3>3. NullByte(p) \in here /\ \A j \in here : NullByte(p) <= j
      BY <2>2, <3>2 DEF NullByte
    <3>4. NullByte(p) \in startIndex[p] .. nread[p]
      BY <1>0, <3>3
    <3>5. ASSUME NEW i \in startIndex[p] .. nread[p] - 1, i < NullByte(p)
          PROVE  buffer[p][i] # Null
      <4>1. ~ (NullByte(p) <= i)
        BY <1>0, <3>4, <3>5
      <4> QED
        BY <3>3, <4>1
    <3> QED
      BY <3>3, <3>4, <3>5
  <2> QED
    BY <2>1, <2>2
<1>2. m \in Nat /\ m <= nread[p] - startIndex[p]
      /\ (NullByte(p) = nread[p] <=> m = nread[p] - startIndex[p])
  BY <1>0, <1>1
<1>3. ASSUME NEW k \in 1 .. m PROVE Rest(p)[k] # Null
  <2>1. k \in 1 .. nread[p] - startIndex[p]
        /\ startIndex[p] + k - 1 \in startIndex[p] .. nread[p] - 1
        /\ startIndex[p] + k - 1 < NullByte(p)
    BY <1>0, <1>1, <1>2
  <2> QED
    BY <1>1, <2>1, RestOfRead
<1>4. ASSUME m < nread[p] - startIndex[p] PROVE Rest(p)[m + 1] = Null
  <2>1. m + 1 \in 1 .. nread[p] - startIndex[p] /\ NullByte(p) < nread[p]
        /\ startIndex[p] + (m + 1) - 1 = NullByte(p)
    BY <1>0, <1>1, <1>2, <1>4
  <2> QED
    BY <1>1, <2>1, RestOfRead
<1> QED
  BY <1>2, <1>3, <1>4

\* What the write to baos makes of it.
LEMMA WrittenBytes ==
  ASSUME TypeOK, NEW p \in Providers, startIndex[p] < nread[p], Fits(p)
  PROVE  /\ Written(p) \in Seq(Byte) /\ Len(Written(p)) = Len(baos[p]) + NullByte(p)
         /\ Len(baos[p]) \in Nat /\ NullByte(p) \in Nat
         /\ \A k \in 1 .. Len(baos[p]) : Written(p)[k] = baos[p][k]
         /\ \A k \in 1 .. NullByte(p) : k <= nread[p] - startIndex[p] =>
              Written(p)[Len(baos[p]) + k] = Rest(p)[k]
<1> DEFINE v == [k \in 1 .. NullByte(p) |-> buffer[p][startIndex[p] + k - 1]]
<1>1. NullByte(p) \in 0 .. BufferSize /\ startIndex[p] \in 0 .. BufferSize + 1
      /\ nread[p] \in 0 .. BufferSize /\ BufferSize \in Nat \ {0}
  BY NullByteBounds, ClientAssumption DEF TypeOK
<1>2. baos[p] \in Seq(Byte) /\ buffer[p] \in [Indices -> Byte] /\ Len(baos[p]) \in Nat
  BY DEF TypeOK
<1>3. \A k \in 1 .. NullByte(p) : buffer[p][startIndex[p] + k - 1] \in Byte
  <2> TAKE k \in 1 .. NullByte(p)
  <2>1. startIndex[p] + k - 1 \in Indices
    BY <1>1 DEF Fits, Indices
  <2> QED
    BY <1>2, <2>1
<1>4. v \in Seq(Byte) /\ Len(v) = NullByte(p)
      /\ \A k \in 1 .. NullByte(p) : v[k] = buffer[p][startIndex[p] + k - 1]
  BY <1>1, <1>3
<1>5. Written(p) = baos[p] \o v
  BY DEF Written
<1> HIDE DEF v
<1>6. Written(p) \in Seq(Byte) /\ Len(Written(p)) = Len(baos[p]) + Len(v)
  BY <1>2, <1>4, <1>5, Joined
<1>7. \A k \in 1 .. Len(baos[p]) : Written(p)[k] = baos[p][k]
  BY <1>2, <1>4, <1>5, Joined
<1>8. \A k \in 1 .. Len(v) : Written(p)[Len(baos[p]) + k] = v[k]
  BY <1>2, <1>4, <1>5, Joined
<1>9. ASSUME NEW k \in 1 .. NullByte(p), k <= nread[p] - startIndex[p]
      PROVE  Written(p)[Len(baos[p]) + k] = Rest(p)[k]
  <2>1. k \in 1 .. nread[p] - startIndex[p] /\ k \in 1 .. Len(v)
    BY <1>1, <1>4, <1>9
  <2> QED
    BY <1>4, <1>8, <2>1, RestOfRead
<1> QED
  BY <1>1, <1>2, <1>4, <1>6, <1>7, <1>9

\* Bytes that are dropped or lost.
LEMMA RestForgotten ==
  ASSUME NEW b \in [Indices -> Byte], NEW i \in 0 .. BufferSize + 1,
         NEW n \in 0 .. BufferSize, NEW w \in Seq(Byte)
  PROVE  Rests(RestOf(b, 0, 0, w), RestOf(b, i, n, w), IF i < n THEN n - i ELSE 0)
<1> DEFINE d == IF i < n THEN n - i ELSE 0
<1>0. 0 \in 0 .. BufferSize + 1 /\ 0 \in 0 .. BufferSize /\ Len(w) \in Nat /\ d \in Nat
  BY ClientAssumption
<1>1. PICK q : q = RestOf(b, 0, 0, w)
  OBVIOUS
<1>2. PICK r : r = RestOf(b, i, n, w)
  OBVIOUS
<1>3. q \in Seq(Byte) /\ Len(q) = 0 + Len(w)
  BY <1>0, <1>1, RestIsSeq
<1>4. \A k \in 1 .. Len(w) : q[0 + k] = w[k]
  BY <1>0, <1>1, RestIsSeq
<1>5. Len(r) = d + Len(w)
  BY <1>2, RestIsSeq
<1>6. \A k \in 1 .. Len(w) : r[d + k] = w[k]
  BY <1>2, RestIsSeq
<1> HIDE DEF d
<1>7. ASSUME NEW k \in 1 .. Len(q) PROVE q[k] = r[k + d]
  <2>1. k \in 1 .. Len(w) /\ 0 + k = k /\ d + k = k + d
    BY <1>0, <1>3
  <2> QED
    BY <1>4, <1>6, <2>1
<1>8. Len(q) + d <= Len(r)
  BY <1>0, <1>3, <1>5
<1> QED
  BY <1>1, <1>2, <1>7, <1>8 DEF Rests, d

LEMMA RestUnread ==
  ASSUME NEW b \in [Indices -> Byte], NEW i \in 0 .. BufferSize + 1,
         NEW n \in 0 .. BufferSize, NEW w \in Seq(Byte), n <= i
  PROVE  RestOf(b, i, n, w) = w
<1>1. n - i <= 0 /\ n - i \in Int
  BY ClientAssumption
<1>2. 1 .. n - i = {}
  BY <1>1
<1>3. [k \in 1 .. n - i |-> b[i + k - 1]] = <<>>
  BY <1>2
<1> QED
  BY <1>3, ConcatEmptySeq DEF RestOf

LEMMA RestGrows ==
  ASSUME NEW b \in [Indices -> Byte], NEW i \in 0 .. BufferSize + 1,
         NEW n \in 0 .. BufferSize, NEW w \in Seq(Byte), NEW a \in Seq(Byte)
  PROVE  RestOf(b, i, n, w \o a) = RestOf(b, i, n, w) \o a
<1> DEFINE v == [k \in 1 .. n - i |-> b[i + k - 1]]
<1>0. BufferSize \in Nat \ {0}
  BY ClientAssumption
<1>1. v \in Seq(Byte)
  <2>1. CASE i < n
    <3>1. n - i \in Nat /\ \A k \in 1 .. n - i : i + k - 1 \in Indices
      BY <1>0, <2>1 DEF Indices
    <3>2. \A k \in 1 .. n - i : b[i + k - 1] \in Byte
      BY <3>1
    <3> QED
      BY <3>1, <3>2
  <2>2. CASE ~ (i < n)
    <3>1. n - i <= 0 /\ n - i \in Int
      BY <1>0, <2>2
    <3>2. v = <<>>
      BY <3>1
    <3> QED
      BY <3>2, EmptySeq
  <2> QED
    BY <2>1, <2>2
<1> HIDE DEF v
<1>2. (v \o w) \o a = v \o (w \o a)
  BY <1>1, ConcatAssociative
<1> QED
  BY <1>2 DEF RestOf, v

LEMMA BeginsMoves ==
  ASSUME NEW t, NEW s \in Seq(Byte), NEW s2 \in Seq(Byte), Begins(t, s),
         Rests(s2, s, 0)
  PROVE  Begins(t, s2)
<1>1. s2 # <<>> => s # <<>> /\ s2[1] = s[1]
  BY DEF Rests
<1> QED
  BY <1>1 DEF Begins

LEMMA ForgetKeeps ==
  ASSUME TypeOK, TypeOK', NEW p \in Providers, ProviderInv(p),
         PacketFails(p) \/ Post(p)
  PROVE  ProviderInv(p)' /\ KeepsBehind(p)
<1> DEFINE d == IF startIndex[p] < nread[p] THEN nread[p] - startIndex[p] ELSE 0
<1>0. /\ buffer[p] \in [Indices -> Byte] /\ startIndex[p] \in 0 .. BufferSize + 1
      /\ nread[p] \in 0 .. BufferSize /\ wire[p] \in Seq(Byte)
  BY DEF TypeOK
<1>1. /\ buffer' = buffer /\ wire' = wire /\ nread'[p] = 0 /\ startIndex'[p] = 0
      /\ baos' = baos /\ carried' = carried /\ lost' = lost /\ newest' = newest
  BY DEF TypeOK, PacketFails, Post, ForgetRead, packetVars, netVars
<1>2. d \in Nat
  BY <1>0, ClientAssumption
<1>3. Rests(Rest(p)', Rest(p), d)
  <2>1. Rest(p)' = RestOf(buffer[p], 0, 0, wire[p])
    BY <1>1 DEF Rest
  <2> QED
    BY <1>0, <2>1, RestForgotten DEF Rest
<1> HIDE DEF d
<1>4. IsStream(Rest(p), newest)' /\ InFront(baos[p], Rest(p), newest)' /\ KeepsBehind(p)
  BY <1>1, <1>2, <1>3, RestMoves
<1>5. CASE PacketFails(p)
  <2>1. pc'[p] = "close"
    BY <1>5 DEF PacketFails, Goes, TypeOK
  <2> QED
    BY <1>1, <1>4, <2>1 DEF ProviderInv, Control, Connected
<1>6. CASE Post(p)
  <2>1. pc[p] = "post" /\ pc'[p] = "inner"
    BY <1>6 DEF Post, Goes, TypeOK
  <2>2. Rest(p)' = Rest(p)
    <3>1. nread[p] <= startIndex[p]
      BY <2>1 DEF ProviderInv, Control
    <3>2. RestOf(buffer[p], startIndex[p], nread[p], wire[p]) = wire[p]
      BY <1>0, <3>1, RestUnread
    <3>3. RestOf(buffer[p], 0, 0, wire[p]) = wire[p]
      BY <1>0, RestUnread, ClientAssumption
    <3> QED
      BY <1>1, <3>2, <3>3 DEF Rest
  <2> QED
    BY <1>1, <1>4, <2>1, <2>2 DEF ProviderInv, Control, Connected
<1> QED
  BY <1>5, <1>6

LEMMA CloseKeeps ==
  ASSUME TypeOK, TypeOK', NEW p \in Providers, ProviderInv(p), Close(p)
  PROVE  ProviderInv(p)' /\ KeepsBehind(p)
<1>1. /\ pc[p] = "close" /\ pc'[p] = "sleep" /\ wire'[p] = <<>> /\ baos'[p] = <<>>
      /\ ~ carried'[p] /\ ~ lost'[p] /\ newest' = newest
      /\ nread' = nread /\ startIndex' = startIndex /\ buffer' = buffer
  BY DEF Close, Goes, TypeOK, readVars
<1>2. nread[p] = 0 /\ startIndex[p] = 0
  BY <1>1 DEF ProviderInv, Control
<1>3. Rest(p)' = <<>>
  <2>1. Rest(p)' = RestOf(buffer[p], 0, 0, <<>>)
    BY <1>1, <1>2 DEF Rest
  <2>2. <<>> \in Seq(Byte) /\ buffer[p] \in [Indices -> Byte]
        /\ 0 \in 0 .. BufferSize + 1 /\ 0 \in 0 .. BufferSize
    BY ClientAssumption DEF TypeOK
  <2>3. PICK w \in Seq(Byte) : w = <<>>
    BY <2>2
  <2>4. RestOf(buffer[p], 0, 0, w) = w
    BY <2>2, RestUnread
  <2> QED
    BY <2>1, <2>3, <2>4
<1>4. Rests(Rest(p)', Rest(p), 0)
  BY <1>3, RestTyped DEF Rests
<1>5. IsStream(Rest(p), newest)' /\ InFront(baos[p], Rest(p), newest)' /\ KeepsBehind(p)
  BY <1>1, <1>4, RestMoves
<1> QED
  BY <1>1, <1>2, <1>5 DEF ProviderInv, Control, Connected

LEMMA LostKeeps ==
  ASSUME TypeOK, TypeOK', NEW p \in Providers, ProviderInv(p), ServerLost(p)
  PROVE  ProviderInv(p)' /\ KeepsBehind(p)
<1>1. /\ pc' = pc /\ lost'[p] /\ baos' = baos /\ carried' = carried /\ newest' = newest
      /\ nread' = nread /\ startIndex' = startIndex /\ buffer' = buffer /\ pc[p] \in Connected
  BY DEF ServerLost, TypeOK, readVars, packetVars
<1>2. PICK n \in 0 .. Len(wire[p]) : wire'[p] = SubSeq(wire[p], 1, n)
  BY DEF ServerLost, TypeOK
<1>3. Rests(Rest(p)', Rest(p), 0)
  <2> DEFINE d == IF startIndex[p] < nread[p] THEN nread[p] - startIndex[p] ELSE 0
  <2>0. /\ buffer[p] \in [Indices -> Byte] /\ startIndex[p] \in 0 .. BufferSize + 1
        /\ nread[p] \in 0 .. BufferSize /\ wire[p] \in Seq(Byte) /\ Len(wire[p]) \in Nat
    <3>1. /\ buffer[p] \in [Indices -> Byte] /\ startIndex[p] \in 0 .. BufferSize + 1
          /\ nread[p] \in 0 .. BufferSize /\ wire[p] \in Seq(Byte)
      BY DEF TypeOK
    <3> QED
      BY <3>1
  <2>1. /\ wire'[p] \in Seq(Byte) /\ Len(wire'[p]) = n
        /\ \A k \in 1 .. n : wire'[p][k] = wire[p][k]
    BY <1>2, <2>0
  <2>2. PICK r : r = RestOf(buffer[p], startIndex[p], nread[p], wire[p])
    OBVIOUS
  <2>3. PICK q : q = RestOf(buffer[p], startIndex[p], nread[p], wire'[p])
    OBVIOUS
  <2>4. q \in Seq(Byte) /\ Len(q) = d + n /\ Len(r) = d + Len(wire[p]) /\ d \in Nat
    <3>1. q \in Seq(Byte) /\ Len(q) = d + Len(wire'[p])
      BY <2>0, <2>1, <2>3, RestIsSeq
    <3>2. Len(r) = d + Len(wire[p])
      BY <2>0, <2>2, RestIsSeq
    <3>3. d \in Nat
      BY <2>0, ClientAssumption
    <3> QED
      BY <2>1, <3>1, <3>2, <3>3
  <2>5. /\ \A k \in 1 .. d : q[k] = buffer[p][startIndex[p] + k - 1]
        /\ \A k \in 1 .. d : r[k] = buffer[p][startIndex[p] + k - 1]
    <3>1. \A k \in 1 .. d : q[k] = buffer[p][startIndex[p] + k - 1]
      <4> TAKE k \in 1 .. d
      <4>1. RestOf(buffer[p], startIndex[p], nread[p], wire'[p])[k]
              = buffer[p][startIndex[p] + k - 1]
        BY <2>0, <2>1, RestIsSeq
      <4> QED
        BY <2>3, <4>1
    <3>2. \A k \in 1 .. d : r[k] = buffer[p][startIndex[p] + k - 1]
      <4> TAKE k \in 1 .. d
      <4>1. RestOf(buffer[p], startIndex[p], nread[p], wire[p])[k]
              = buffer[p][startIndex[p] + k - 1]
        BY <2>0, RestIsSeq
      <4> QED
        BY <2>2, <4>1
    <3> QED
      BY <3>1, <3>2
  <2>6. \A k \in 1 .. n : q[d + k] = wire'[p][k]
    BY <2>0, <2>1, <2>3, RestIsSeq
  <2>7. \A k \in 1 .. Len(wire[p]) : r[d + k] = wire[p][k]
    BY <2>0, <2>2, RestIsSeq
  <2> HIDE DEF d
  <2>8. ASSUME NEW k \in 1 .. Len(q) PROVE q[k] = r[k + 0]
    <3>1. CASE k \in 1 .. d
      <4>1. k + 0 = k
        OBVIOUS
      <4> QED
        BY <2>5, <3>1, <4>1
    <3>2. CASE k \notin 1 .. d
      <4>1. k - d \in 1 .. n /\ k - d \in 1 .. Len(wire[p]) /\ d + (k - d) = k /\ k + 0 = k
        BY <1>2, <2>0, <2>4, <3>2
      <4> QED
        BY <2>1, <2>6, <2>7, <4>1
    <3> QED
      BY <3>1, <3>2
  <2>9. Len(q) + 0 <= Len(r)
    BY <1>2, <2>0, <2>4
  <2> QED
    BY <1>1, <2>2, <2>3, <2>8, <2>9 DEF Rest, Rests
<1>4. IsStream(Rest(p), newest)' /\ InFront(baos[p], Rest(p), newest)' /\ KeepsBehind(p)
  BY <1>1, <1>3, RestMoves
<1>5. ~ carried[p] => Begins(baos[p], Rest(p)')
  BY <1>1, <1>3, BeginsMoves, RestTyped DEF ProviderInv
<1>6. Control(p)'
  BY <1>1 DEF ProviderInv, Control, Connected
<1> QED
  BY <1>1, <1>4, <1>5, <1>6 DEF ProviderInv

\* What a write begins with.
LEMMA FirstWritten ==
  ASSUME TypeOK, NEW p \in Providers, startIndex[p] < nread[p], Fits(p),
         Written(p) # <<>>
  PROVE  \/ baos[p] # <<>> /\ Written(p)[1] = baos[p][1]
         \/ baos[p] = <<>> /\ Rest(p) # <<>> /\ Written(p)[1] = Rest(p)[1]
<1>1. baos[p] \in Seq(Byte) /\ Len(baos[p]) \in Nat /\ nread[p] - startIndex[p] \in Nat
      /\ nread[p] - startIndex[p] >= 1
  BY ClientAssumption DEF TypeOK
<1>2. /\ Written(p) \in Seq(Byte) /\ Len(Written(p)) = Len(baos[p]) + NullByte(p)
      /\ NullByte(p) \in Nat
      /\ \A k \in 1 .. Len(baos[p]) : Written(p)[k] = baos[p][k]
  BY WrittenBytes
<1>3. \A k \in 1 .. NullByte(p) : k <= nread[p] - startIndex[p] =>
        Written(p)[Len(baos[p]) + k] = Rest(p)[k]
  BY WrittenBytes
<1>4. CASE baos[p] # <<>>
  <2>1. 1 \in 1 .. Len(baos[p])
    BY <1>1, <1>4, EmptySeq
  <2> QED
    BY <1>2, <1>4, <2>1
<1>5. CASE baos[p] = <<>>
  <2>1. Len(baos[p]) = 0
    BY <1>5
  <2>2. NullByte(p) # 0
    BY <1>2, <2>1, EmptySeq
  <2>3. 1 \in 1 .. NullByte(p) /\ Len(baos[p]) + 1 = 1
    BY <1>2, <2>1, <2>2
  <2>4. Written(p)[1] = Rest(p)[1]
    BY <1>1, <1>3, <2>3
  <2>5. Rest(p) # <<>>
    BY <1>1, RestOfRead, EmptySeq
  <2> QED
    BY <1>5, <2>4, <2>5
<1> QED
  BY <1>4, <1>5

LEMMA ContinuesKeeps ==
  ASSUME TypeOK, TypeOK', NEW p \in Providers, ProviderInv(p), PacketContinues(p)
  PROVE  ProviderInv(p)' /\ KeepsBehind(p)
<1> DEFINE m == nread[p] - startIndex[p]
<1>1. /\ pc[p] = "parse" /\ pc'[p] = "post" /\ Fits(p) /\ NullByte(p) = nread[p]
      /\ buffer' = buffer /\ nread' = nread /\ wire' = wire /\ lost' = lost
      /\ newest' = newest /\ startIndex'[p] = nread[p] + 1
      /\ baos'[p] = Written(p) /\ carried'[p] = (carried[p] \/ startIndex[p] > 0)
  BY DEF PacketContinues, Goes, TypeOK, netVars
<1>2. startIndex[p] < nread[p]
  BY <1>1 DEF ProviderInv, Control
<1>3. /\ buffer[p] \in [Indices -> Byte] /\ startIndex[p] \in 0 .. BufferSize + 1
      /\ nread[p] \in 0 .. BufferSize /\ wire[p] \in Seq(Byte)
  BY DEF TypeOK
<1>4. m \in Nat /\ m > 0 /\ Len(wire[p]) \in Nat
  BY <1>2, <1>3, ClientAssumption
<1>5. Rests(Rest(p)', Rest(p), m)
  <2>1. Rest(p)' = RestOf(buffer[p], nread[p] + 1, nread[p], wire[p])
    BY <1>1 DEF Rest
  <2>2. nread[p] + 1 \in 0 .. BufferSize + 1 /\ startIndex[p] <= nread[p] + 1
        /\ ~ (nread[p] + 1 < nread[p])
    BY <1>2, <1>3, ClientAssumption
  <2> QED
    BY <1>2, <1>3, <2>1, <2>2, RestDrops DEF Rest
<1>6. Len(Rest(p)) = m + Len(wire[p]) /\ Rest(p)' = wire[p]
  <2>1. Len(Rest(p)) = m + Len(wire[p])
    BY <1>2, <1>3, RestIsSeq DEF Rest
  <2>2. RestOf(buffer[p], nread[p] + 1, nread[p], wire[p]) = wire[p]
    <3>1. nread[p] + 1 \in 0 .. BufferSize + 1 /\ nread[p] <= nread[p] + 1
      BY <1>3, ClientAssumption
    <3> QED
      BY <1>3, <3>1, RestUnread
  <2> QED
    BY <1>1, <2>1, <2>2 DEF Rest
<1>7. m <= Len(Rest(p)) /\ \A k \in 1 .. m : Rest(p)[k] # Null
  BY <1>1, <1>2, <1>4, <1>6, FirstNull
<1>8. Rest(p) \in Seq(Byte) /\ Rest(p)' \in Seq(Byte) /\ newest \in Nat
      /\ IsStream(Rest(p), newest)
  BY RestTyped DEF ProviderInv
<1> HIDE DEF m
<1>9. IsStream(Rest(p), newest)'
  BY <1>1, <1>4, <1>5, <1>8, PieceOfStream
<1>10. 1 \in 1 .. m /\ 1 \in 1 .. Len(Rest(p)) /\ Rest(p)[1] # Null
  BY <1>4, <1>6, <1>7
<1>11. Rest(p)[1].frame \in Nat /\ Rest(p)[1].frame <= newest
       /\ \A k \in 1 .. Len(Rest(p)) : Before(Rest(p)[1], Rest(p)[k])
  <2>1. PICK f \in Frames, j \in 1 .. FrameLength : Rest(p)[1] = Expected(f, j) /\ f <= newest
    BY <1>8, <1>10 DEF IsStream, IsByte
  <2>2. Rest(p)[1].frame = f /\ f \in Nat
    BY <2>1, ExpectedByte DEF Frames
  <2>3. ASSUME NEW k \in 1 .. Len(Rest(p)) PROVE Before(Rest(p)[1], Rest(p)[k])
    <3>1. CASE k = 1
      BY <2>2, <3>1 DEF Before
    <3>2. CASE k # 1
      <4>1. 1 < k
        BY <3>2, <1>6, <1>4
      <4> QED
        BY <1>8, <1>10, <4>1 DEF IsStream
    <3> QED
      BY <3>1, <3>2
  <2> QED
    BY <2>1, <2>2, <2>3
<1>12. Written(p) # <<>> =>
         \/ baos[p] # <<>> /\ Written(p)[1] = baos[p][1]
         \/ baos[p] = <<>> /\ Written(p)[1] = Rest(p)[1]
  BY <1>1, <1>2, FirstWritten
<1>13. InFront(baos[p], Rest(p), newest)'
  <2>1. InFront(Written(p), Rest(p), newest)
    BY <1>11, <1>12 DEF ProviderInv, InFront
  <2>2. InFront(Written(p), Rest(p)', newest)
    BY <1>4, <1>5, <1>8, <2>1, PieceInFront
  <2> QED
    BY <1>1, <2>2
<1>14. KeepsBehind(p)
  <2> SUFFICES ASSUME NEW f \in Frames, Behind(f, baos[p], Rest(p), newest)
               PROVE  Behind(f, Written(p), Rest(p)', newest)
    BY <1>1 DEF KeepsBehind
  <2>1. Behind(f, Written(p), Rest(p), newest)
    BY <1>10, <1>12 DEF Behind
  <2> QED
    BY <1>4, <1>5, <1>8, <2>1, PieceBehind
<1>15. ~ lost'[p] => Ends(Written(p), Rest(p)')
  <2> SUFFICES ASSUME ~ lost[p] PROVE Ends(Written(p), Rest(p)')
    BY <1>1
  <2>1. Rest(p)[Len(Rest(p))] = Null
    <3>1. Rest(p) # <<>>
      BY <1>10
    <3> QED
      BY <1>1, <3>1 DEF ProviderInv, Ends, Connected
  <2>2. Len(Rest(p)) # m
    BY <1>4, <1>7, <2>1
  <2>3. Len(wire[p]) \in 1 .. Len(wire[p]) /\ Len(wire[p]) + m = Len(Rest(p))
    BY <1>4, <1>6, <2>2
  <2>4. Rest(p)'[Len(Rest(p)')] = Rest(p)[Len(Rest(p))]
    BY <1>5, <1>6, <2>3 DEF Rests
  <2>5. Rest(p)' # <<>>
    BY <1>6, <2>3, EmptySeq
  <2> QED
    BY <2>1, <2>4, <2>5 DEF Ends
<1>16. ~ carried'[p] => Begins(Written(p), Rest(p)')
  <2> SUFFICES ASSUME ~ carried'[p] PROVE Begins(Written(p), Rest(p)')
    OBVIOUS
  <2>1. ~ carried[p] /\ startIndex[p] = 0 /\ m = nread[p]
    <3>1. ~ carried[p] /\ ~ (startIndex[p] > 0)
      BY <1>1, Zenon
    <3> QED
      BY <1>3, <3>1, ClientAssumption DEF m
  <2>2. PICK f \in 0 .. MaxFrames, n \in 0 .. FrameLength :
          /\ n > 0 => f \in Frames
          /\ Len(baos[p]) = n /\ \A k \in 1 .. n : baos[p][k] = [frame |-> f, pos |-> k]
          /\ Rest(p) # <<>> => Rest(p)[1] = Expected(f, n + 1)
    BY <1>1, <2>1 DEF ProviderInv, Begins, Connected
  <2>3. Rest(p) # <<>> /\ f \in Nat
    BY <1>10
  <2>4. /\ n + m <= FrameLength
        /\ \A k \in 1 .. m : Rest(p)[k] = [frame |-> f, pos |-> n + k]
        /\ 0 < m /\ m < Len(Rest(p)) => Rest(p)[m + 1] = Expected(f, n + m + 1)
    BY <1>4, <1>7, <1>8, <2>2, <2>3, RunOfBytes
  <2>5. /\ Written(p) \in Seq(Byte) /\ Len(Written(p)) = n + m
        /\ \A k \in 1 .. n : Written(p)[k] = baos[p][k]
    BY <1>1, <1>2, <2>1, <2>2, WrittenBytes
  <2>6. \A k \in 1 .. m : Written(p)[n + k] = Rest(p)[k]
    <3>1. \A k \in 1 .. NullByte(p) : k <= nread[p] - startIndex[p] =>
            Written(p)[Len(baos[p]) + k] = Rest(p)[k]
      BY <1>1, <1>2, WrittenBytes
    <3>2. NullByte(p) = m /\ nread[p] - startIndex[p] = m /\ Len(baos[p]) = n
      BY <1>1, <2>1, <2>2 DEF m
    <3> QED
      BY <1>4, <3>1, <3>2
  <2>7. ASSUME NEW k \in 1 .. n + m PROVE Written(p)[k] = [frame |-> f, pos |-> k]
    <3>1. CASE k <= n
      <4>1. k \in 1 .. n
        BY <1>4, <3>1, ClientAssumption
      <4> QED
        BY <2>2, <2>5, <4>1
    <3>2. CASE ~ (k <= n)
      <4>1. k - n \in 1 .. m /\ n + (k - n) = k
        BY <1>4, <3>2
      <4> QED
        BY <2>4, <2>6, <4>1
    <3> QED
      BY <3>1, <3>2
  <2>8. Rest(p)' # <<>> => Rest(p)'[1] = Expected(f, n + m + 1)
    <3> SUFFICES ASSUME Rest(p)' # <<>> PROVE Rest(p)'[1] = Expected(f, n + m + 1)
      OBVIOUS
    <3>1. 1 \in 1 .. Len(Rest(p)') /\ m < Len(Rest(p)) /\ 1 + m = m + 1
      BY <1>4, <1>6, EmptySeq
    <3> QED
      BY <1>4, <1>5, <2>4, <3>1 DEF Rests
  <2>9. n + m \in 0 .. FrameLength
    BY <1>4, <2>4, ClientAssumption
  <2>10. f \in Frames
    <3>1. Rest(p)[1] = [frame |-> f, pos |-> n + 1]
      BY <1>10, <2>4
    <3>2. PICK h \in Frames, j \in 1 .. FrameLength : Rest(p)[1] = Expected(h, j)
      BY <1>8, <1>10 DEF IsStream, IsByte
    <3>3. Rest(p)[1].frame = h /\ Rest(p)[1].frame = f
      BY <3>1, <3>2, ExpectedByte
    <3> QED
      BY <3>3
  <2> QED
    BY <2>5, <2>7, <2>8, <2>9, <2>10 DEF Begins
<1>17. Control(p)'
  BY <1>1, <1>3 DEF Control
<1> QED
  BY <1>1, <1>9, <1>13, <1>14, <1>15, <1>16, <1>17 DEF ProviderInv

LEMMA EndsKeeps ==
  ASSUME TypeOK, TypeOK', NEW p \in Providers, ProviderInv(p), PacketEnds(p)
  PROVE  ProviderInv(p)' /\ KeepsBehind(p)
<1> DEFINE m == NullByte(p) - startIndex[p]
           d == m + 1
<1>1. /\ pc[p] = "parse" /\ Fits(p) /\ NullByte(p) < nread[p]
      /\ pc'[p] = (IF NullByte(p) + 1 < nread[p] THEN "parse" ELSE "post")
      /\ buffer' = buffer /\ nread' = nread /\ wire' = wire /\ lost' = lost
      /\ newest' = newest /\ startIndex'[p] = NullByte(p) + 1
      /\ baos'[p] = <<>> /\ ~ carried'[p]
  BY DEF PacketEnds, Goes, TypeOK, netVars
<1>2. startIndex[p] < nread[p]
  BY <1>1 DEF ProviderInv, Control
<1>3. /\ buffer[p] \in [Indices -> Byte] /\ startIndex[p] \in 0 .. BufferSize + 1
      /\ nread[p] \in 0 .. BufferSize /\ wire[p] \in Seq(Byte)
  BY DEF TypeOK
<1>4. NullByte(p) \in 0 .. BufferSize
  BY NullByteBounds
<1>5. m \in Nat /\ m < nread[p] - startIndex[p] /\ Rest(p)[m + 1] = Null
  <2>1. m \in Nat /\ (NullByte(p) = nread[p] <=> m = nread[p] - startIndex[p])
        /\ m <= nread[p] - startIndex[p]
    BY <1>2, FirstNull
  <2>2. m # nread[p] - startIndex[p]
    BY <1>1, <1>3, <1>4, <2>1
  <2>3. m < nread[p] - startIndex[p]
    BY <1>3, <1>4, <2>1, <2>2, ClientAssumption
  <2> QED
    BY <1>2, <2>1, <2>3, FirstNull
<1>6. d \in Nat /\ d > 0 /\ Rest(p)[d] = Null /\ Len(wire[p]) \in Nat
  BY <1>3, <1>5
<1>7. /\ Rests(Rest(p)', Rest(p), d) /\ Len(Rest(p)') + d = Len(Rest(p))
      /\ Rest(p) \in Seq(Byte) /\ Rest(p)' \in Seq(Byte)
  <2> DEFINE j == NullByte(p) + 1
  <2>1. /\ j \in 0 .. BufferSize + 1 /\ startIndex[p] <= j /\ j <= nread[p]
        /\ d = (IF j < nread[p] THEN j - startIndex[p] ELSE nread[p] - startIndex[p])
        /\ d = j - startIndex[p]
    BY <1>1, <1>2, <1>3, <1>4, <1>5, ClientAssumption
  <2>2. Rest(p)' = RestOf(buffer[p], j, nread[p], wire[p])
    BY <1>1 DEF Rest
  <2> HIDE DEF j, d
  <2>3. Rests(Rest(p)', Rest(p), d)
    BY <1>2, <1>3, <2>1, <2>2, RestDrops DEF Rest
  <2>4. Len(Rest(p)) = (nread[p] - startIndex[p]) + Len(wire[p])
    BY <1>2, <1>3, RestIsSeq DEF Rest
  <2>5. Len(Rest(p)') = (IF j < nread[p] THEN nread[p] - j ELSE 0) + Len(wire[p])
    <3>1. Len(RestOf(buffer[p], j, nread[p], wire[p]))
            = (IF j < nread[p] THEN nread[p] - j ELSE 0) + Len(wire[p])
      BY <1>3, <2>1, RestIsSeq
    <3> QED
      BY <2>2, <3>1
  <2>6. Len(Rest(p)') + d = Len(Rest(p))
    <3>1. CASE j < nread[p]
      <4>1. Len(Rest(p)') = (nread[p] - j) + Len(wire[p]) /\ d = j - startIndex[p]
        BY <2>1, <2>5, <3>1
      <4>2. nread[p] \in Int /\ startIndex[p] \in Int /\ j \in Int
        BY <1>3, <2>1, ClientAssumption
      <4>3. ASSUME NEW x \in Nat PROVE
              ((nread[p] - j) + x) + (j - startIndex[p]) = (nread[p] - startIndex[p]) + x
        BY <4>2
      <4> QED
        BY <1>6, <2>4, <4>1, <4>3
    <3>2. CASE ~ (j < nread[p])
      <4>1. j = nread[p] /\ Len(Rest(p)') = Len(wire[p])
        BY <1>3, <1>6, <2>1, <2>5, <3>2, ClientAssumption
      <4> QED
        BY <1>3, <1>6, <2>1, <2>4, <4>1, ClientAssumption
    <3> QED
      BY <3>1, <3>2
  <2> QED
    BY <2>3, <2>6, RestTyped
<1> HIDE DEF d, m
<1>8. IsStream(Rest(p), newest)' /\ InFront(baos[p], Rest(p), newest)' /\ KeepsBehind(p)
  BY <1>1, <1>6, <1>7, RestMoves
<1>9. ASSUME Rest(p)' # <<>>
      PROVE  /\ Len(Rest(p)') \in 1 .. Len(Rest(p)') /\ 1 \in 1 .. Len(Rest(p)')
             /\ Rest(p) # <<>>
  <2>1. Len(Rest(p)') \in Nat /\ Len(Rest(p)') # 0 /\ Len(Rest(p)) # 0
    BY <1>6, <1>7, <1>9, EmptySeq
  <2> QED
    BY <2>1
<1>10. ~ lost'[p] => Ends(<<>>, Rest(p)')
  <2> SUFFICES ASSUME ~ lost[p], Rest(p)' # <<>> PROVE Rest(p)'[Len(Rest(p)')] = Null
    BY <1>1 DEF Ends
  <2>1. Rest(p)[Len(Rest(p))] = Null
    BY <1>1, <1>9 DEF ProviderInv, Ends, Connected
  <2> QED
    BY <1>7, <1>9, <2>1 DEF Rests
<1>11. Begins(<<>>, Rest(p)')
  <2>0. Len(<<>>) = 0 /\ 0 \in 0 .. FrameLength /\ 0 + 1 = 1 /\ 0 \in 0 .. MaxFrames
    BY ClientAssumption
  <2>1. CASE Rest(p)' = <<>>
    BY <2>0, <2>1 DEF Begins
  <2>2. CASE Rest(p)' # <<>>
    <3>1. d \in 1 .. Len(Rest(p)) /\ d + 1 \in 1 .. Len(Rest(p))
          /\ Rest(p)'[1] = Rest(p)[d + 1]
      <4>1. Rest(p)'[1] = Rest(p)[1 + d] /\ 1 + d = d + 1
        BY <1>6, <1>7, <1>9, <2>2 DEF Rests
      <4>2. d \in 1 .. Len(Rest(p)) /\ d + 1 \in 1 .. Len(Rest(p))
        BY <1>6, <1>7, <1>9, <2>2
      <4> QED
        BY <4>1, <4>2
    <3>2. Follows(Rest(p)[d], Rest(p)[d + 1])
      BY <3>1 DEF ProviderInv, IsStream
    <3>3. PICK f \in Frames : Rest(p)'[1] = Expected(f, 1)
      BY <1>6, <3>1, <3>2 DEF Follows
    <3>4. f \in 0 .. MaxFrames
      BY ClientAssumption DEF Frames
    <3> QED
      BY <2>0, <3>3, <3>4 DEF Begins
  <2> QED
    BY <2>1, <2>2
<1>12. Control(p)'
  BY <1>1, <1>3, <1>4 DEF Control
<1> QED
  BY <1>1, <1>8, <1>10, <1>11, <1>12 DEF ProviderInv

LEMMA SendsKeeps ==
  ASSUME TypeOK, TypeOK', NEW p \in Providers, ProviderInv(p), ServerSends(p)
  PROVE  ProviderInv(p)' /\ KeepsBehind(p)
<1>1. /\ pc' = pc /\ pc[p] \in Connected /\ lost' = lost /\ ~ lost[p] /\ baos' = baos
      /\ carried' = carried /\ nread' = nread /\ startIndex' = startIndex
      /\ buffer' = buffer /\ newest' \in Frames /\ newest <= newest'
      /\ wire'[p] = wire[p] \o Append(Text(newest'), Null)
  <2>1. /\ pc' = pc /\ pc[p] \in Connected /\ lost' = lost /\ ~ lost[p] /\ baos' = baos
        /\ carried' = carried /\ nread' = nread /\ startIndex' = startIndex
        /\ buffer' = buffer /\ newest' \in Frames /\ newest' \in {newest, newest + 1}
    BY DEF ServerSends, readVars, packetVars
  <2>2. newest \in Nat
    BY DEF TypeOK
  <2>3. wire'[p] = wire[p] \o Append(Text(newest'), Null)
    BY Zenon DEF ServerSends, TypeOK
  <2> QED
    BY <2>1, <2>2, <2>3
<1>2. /\ buffer[p] \in [Indices -> Byte] /\ startIndex[p] \in 0 .. BufferSize + 1
      /\ nread[p] \in 0 .. BufferSize /\ wire[p] \in Seq(Byte)
  BY DEF TypeOK
<1>3. Append(Text(newest'), Null) \in Seq(Byte)
  BY <1>1, FrameType
<1>4. Rest(p)' = Rest(p) \o Append(Text(newest'), Null)
  <2>1. PICK a \in Seq(Byte) : a = Append(Text(newest'), Null)
    BY <1>3
  <2>2. RestOf(buffer[p], startIndex[p], nread[p], wire[p] \o a)
          = RestOf(buffer[p], startIndex[p], nread[p], wire[p]) \o a
    BY <1>2, RestGrows
  <2> QED
    BY <1>1, <2>1, <2>2 DEF Rest
<1>5. Rest(p) \in Seq(Byte) /\ newest \in Nat /\ newest' \in Nat /\ IsStream(Rest(p), newest)
      /\ baos[p] \in Seq(Byte)
  BY RestTyped DEF ProviderInv
<1>6. Ends(baos[p], Rest(p))
  BY <1>1 DEF ProviderInv
<1>7. PICK s : s = Rest(p)
  OBVIOUS
<1>8. PICK t : t = Rest(p)'
  OBVIOUS
<1>9. PICK f \in Frames : f = newest' /\ f \in Nat
  BY <1>1, <1>5
<1>21. /\ s \in Seq(Byte) /\ newest <= f /\ IsStream(s, newest)
       /\ (s = <<>> \/ s[Len(s)] = Null)
  BY <1>1, <1>5, <1>6, <1>7, <1>9 DEF Ends
<1>10. t \in Seq(Byte) /\ Len(t) = Len(s) + FrameLength + 1
  <2>1. t = s \o Append(Text(f), Null)
    BY <1>4, <1>7, <1>8, <1>9
  <2> QED
    BY <1>21, <2>1, FrameAppended
<1>11. /\ \A k \in 1 .. Len(s) : t[k] = s[k]
       /\ \A k \in 1 .. FrameLength + 1 : t[Len(s) + k] = Expected(f, k)
  <2>1. t = s \o Append(Text(f), Null)
    BY <1>4, <1>7, <1>8, <1>9
  <2> QED
    BY <1>21, <2>1, FrameAppended
<1>22. IsStream(t, f) /\ t # <<>> /\ t[Len(t)] = Null
  <2>1. PICK top \in Nat : top = newest
    BY <1>5
  <2>2. top <= f /\ IsStream(s, top)
    BY <1>21, <2>1
  <2>3. s \in Seq(Byte) /\ (s = <<>> \/ s[Len(s)] = Null)
    BY <1>21
  <2>4. IsStream(t, f)
    BY <1>10, <1>11, <2>2, <2>3, StreamGrows
  <2>5. t # <<>> /\ t[Len(t)] = Null
    BY <1>10, <1>11, <2>2, <2>3, StreamGrows
  <2> QED
    BY <2>4, <2>5
<1>12. Len(s) \in Nat /\ FrameLength \in Nat \ {0}
  BY <1>5, <1>7, ClientAssumption
<1>13. ASSUME NEW k \in 1 .. Len(t), t[k] # Null
       PROVE  (k \in 1 .. Len(s) /\ t[k] = s[k]) \/ t[k].frame = f
  <2>1. CASE k \in 1 .. Len(s)
    BY <1>11, <2>1
  <2>2. CASE k \notin 1 .. Len(s)
    <3>1. PICK j \in 1 .. FrameLength + 1 : k = Len(s) + j
      <4>1. k - Len(s) \in 1 .. FrameLength + 1 /\ k = Len(s) + (k - Len(s))
        BY <1>10, <1>12, <2>2
      <4> QED
        BY <4>1
    <3>2. t[k] = Expected(f, j)
      BY <1>11, <3>1
    <3>3. j # FrameLength + 1
      BY <1>13, <3>2 DEF Expected
    <3> QED
      BY <1>12, <3>2, <3>3, ExpectedByte
  <2> QED
    BY <2>1, <2>2
<1>14. InFront(baos[p], Rest(p), newest)'
  <2>1. InFront(baos[p], s, newest)
    BY <1>7 DEF ProviderInv
  <2>2. InFront(baos[p], t, f)
    <3> SUFFICES ASSUME baos[p] # <<>>
                 PROVE  /\ baos[p][1].frame \in Nat /\ baos[p][1].frame <= f
                        /\ \A k \in 1 .. Len(t) : Before(baos[p][1], t[k])
      BY DEF InFront
    <3>1. baos[p][1].frame \in Nat /\ baos[p][1].frame <= f
      BY <1>1, <1>5, <1>9, <2>1 DEF InFront
    <3>2. ASSUME NEW k \in 1 .. Len(t) PROVE Before(baos[p][1], t[k])
      BY <1>13, <2>1, <3>1 DEF InFront, Before
    <3> QED
      BY <3>1, <3>2
  <2> QED
    BY <1>1, <1>8, <1>9, <2>2
<1>15. KeepsBehind(p)
  <2> SUFFICES ASSUME NEW g \in Frames, Behind(g, baos[p], s, newest)
               PROVE  Behind(g, baos[p], t, f)
    BY <1>1, <1>7, <1>8, <1>9 DEF KeepsBehind
  <2>1. g <= f
    BY <1>1, <1>5, <1>9 DEF Behind, Frames
  <2>2. ASSUME NEW k \in 1 .. Len(t), t[k] # Null PROVE g <= t[k].frame
    BY <1>13, <2>1, <2>2 DEF Behind
  <2> QED
    BY <2>1, <2>2 DEF Behind
<1>16. ~ carried[p] => Begins(baos[p], t)
  <2> SUFFICES ASSUME ~ carried[p] PROVE Begins(baos[p], t)
    OBVIOUS
  <2>1. Begins(baos[p], s)
    BY <1>1, <1>7 DEF ProviderInv
  <2>2. CASE s # <<>>
    <3>1. 1 \in 1 .. Len(s)
      BY <1>5, <1>7, <1>12, <2>2, EmptySeq
    <3> QED
      BY <1>11, <2>1, <2>2, <3>1 DEF Begins
  <2>3. CASE s = <<>>
    <3>1. baos[p] = <<>>
      BY <1>6, <1>7, <2>3 DEF Ends
    <3>2. t[1] = Expected(f, 1)
      <4>1. Len(s) = 0 /\ 1 \in 1 .. FrameLength + 1
        BY <1>12, <2>3
      <4>2. Len(s) + 1 = 1
        BY <4>1
      <4> QED
        BY <1>11, <4>1, <4>2
    <3>3. Len(<<>>) = 0 /\ 0 \in 0 .. FrameLength /\ 0 + 1 = 1 /\ f \in 0 .. MaxFrames
      BY ClientAssumption DEF Frames
    <3> QED
      BY <3>1, <3>2, <3>3 DEF Begins
  <2> QED
    BY <2>2, <2>3
<1>17. Control(p)'
  BY <1>1 DEF ProviderInv, Control, Connected
<1>18. Ends(baos[p], t)
  BY <1>22 DEF Ends
<1> QED
  BY <1>1, <1>8, <1>9, <1>22, <1>14, <1>15, <1>16, <1>17, <1>18 DEF ProviderInv

-----------------------------------------------------------------------------
(* The history.                                                            *)

\* A packet that is a frame of the server is the one baos begins with, or the
\* bytes that come.
LEMMA PacketFrame ==
  ASSUME TypeOK, TypeOK', NEW p \in Providers, ProviderInv(p), PacketEnds(p),
         NEW f \in Frames, f \in Parsed(Written(p))
  PROVE  /\ f <= newest /\ Behind(f, <<>>, Rest(p)', newest')
         /\ \A g \in Frames : Behind(g, baos[p], Rest(p), newest) => g <= f
<1>1. /\ pc[p] = "parse" /\ Fits(p) /\ newest' = newest /\ baos'[p] = <<>>
  BY DEF PacketEnds, Goes, TypeOK, netVars
<1>2. startIndex[p] < nread[p]
  BY <1>1 DEF ProviderInv, Control
<1>3. Len(Written(p)) >= FrameLength /\ SubSeq(Written(p), 1, FrameLength) = Text(f)
  <2> DEFINE whole == {h \in Frames : /\ Len(Written(p)) >= FrameLength
                                      /\ SubSeq(Written(p), 1, FrameLength) = Text(h)}
  <2>1. f # Torn /\ f # Malformed
    BY ClientAssumption DEF Frames, Malformed
  <2>2. f \in whole
    BY <2>1, Zenon DEF Parsed
  <2> QED
    BY <2>2
<1>4. FrameLength \in Nat \ {0} /\ Written(p) \in Seq(Byte)
  BY <1>1, <1>2, WrittenBytes, ClientAssumption
<1>5. Written(p)[1] = [frame |-> f, pos |-> 1]
  <2>1. 1 \in 1 .. FrameLength /\ 1 \in 1 .. Len(Written(p))
    BY <1>3, <1>4
  <2>2. Text(f)[1] = [frame |-> f, pos |-> 1]
    BY <2>1 DEF Text
  <2>3. SubSeq(Written(p), 1, FrameLength)[1] = Written(p)[1]
    BY <1>3, <1>4, <2>1
  <2> QED
    BY <1>3, <2>2, <2>3
<1>6. Written(p) # <<>>
  BY <1>3, <1>4, EmptySeq
<1>7. \/ baos[p] # <<>> /\ Written(p)[1] = baos[p][1]
      \/ baos[p] = <<>> /\ Rest(p) # <<>> /\ Written(p)[1] = Rest(p)[1]
  BY <1>1, <1>2, <1>6, FirstWritten
<1>8. PICK x : x = Written(p)[1] /\ x.frame = f /\ x.pos = 1 /\ x # Null
  BY <1>5 DEF Null
<1>9. Rest(p) \in Seq(Byte) /\ Rest(p)' \in Seq(Byte) /\ newest \in Nat
  BY RestTyped
<1>10. CASE baos[p] # <<>> /\ x = baos[p][1]
  <2>1. f <= newest /\ \A k \in 1 .. Len(Rest(p)) : Before(x, Rest(p)[k])
    BY <1>8, <1>10 DEF ProviderInv, InFront
  <2>2. Behind(f, <<>>, Rest(p), newest)
    BY <1>8, <2>1 DEF Behind, Before
  <2>3. \A g \in Frames : Behind(g, baos[p], Rest(p), newest) => g <= f
    BY <1>8, <1>10 DEF Behind
  <2>4. Behind(f, baos[p], Rest(p), newest)
    BY <1>8, <1>10, <2>2 DEF Behind, Frames
  <2>5. KeepsBehind(p)
    BY EndsKeeps
  <2> QED
    BY <1>1, <2>1, <2>3, <2>4, <2>5 DEF KeepsBehind
<1>11. CASE baos[p] = <<>> /\ Rest(p) # <<>> /\ x = Rest(p)[1]
  <2>0. 1 \in 1 .. Len(Rest(p))
    BY <1>9, <1>11, EmptySeq
  <2>1. f <= newest
    <3>1. PICK h \in Frames, j \in 1 .. FrameLength : x = Expected(h, j) /\ h <= newest
      BY <1>8, <1>11, <2>0 DEF ProviderInv, IsStream, IsByte
    <3> QED
      BY <1>8, <3>1, ExpectedByte
  <2>2. \A k \in 1 .. Len(Rest(p)) : Before(x, Rest(p)[k])
    <3> TAKE k \in 1 .. Len(Rest(p))
    <3>1. CASE k = 1
      BY <1>8, <1>11, <3>1 DEF Before, Frames
    <3>2. CASE k # 1
      <4>1. 1 < k
        BY <1>9, <3>2
      <4> QED
        BY <1>11, <2>0, <4>1 DEF ProviderInv, IsStream
    <3> QED
      BY <3>1, <3>2
  <2>3. Behind(f, baos[p], Rest(p), newest)
    BY <1>8, <1>11, <2>1, <2>2 DEF Behind, Before
  <2>4. \A g \in Frames : Behind(g, baos[p], Rest(p), newest) => g <= f
    BY <1>8, <1>11, <2>0 DEF Behind
  <2>5. KeepsBehind(p)
    BY EndsKeeps
  <2> QED
    BY <1>1, <2>1, <2>3, <2>4, <2>5 DEF KeepsBehind
<1> QED
  BY <1>7, <1>8, <1>10, <1>11

\* What is added comes last, and only the first is removed.
LEMMA AddedOrder ==
  ASSUME NEW S, NEW h \in Seq(S), NEW x \in S
  PROVE  \E e \in {0, 1} :
           /\ Len(Added(h, x)) = Len(h) + 1 - e
           /\ \A i \in 1 .. Len(h) + 1 - e :
                Added(h, x)[i] = IF i + e <= Len(h) THEN h[i + e] ELSE x
<1> DEFINE longer == Append(h, x)
<1>1. /\ longer \in Seq(S) /\ Len(longer) = Len(h) + 1 /\ longer # <<>> /\ Len(h) \in Nat
      /\ \A i \in 1 .. Len(h) + 1 : longer[i] = IF i <= Len(h) THEN h[i] ELSE x
  OBVIOUS
<1> HIDE DEF longer
<1>2. CASE Len(longer) > HistorySize
  <2>1. Added(h, x) = Tail(longer)
    BY <1>2 DEF Added, longer
  <2>2. Len(Tail(longer)) = Len(h)
        /\ \A i \in 1 .. Len(h) : Tail(longer)[i] = longer[i + 1]
    BY <1>1, HeadTailProperties
  <2>3. ASSUME NEW i \in 1 .. Len(h) + 1 - 1
        PROVE  Added(h, x)[i] = IF i + 1 <= Len(h) THEN h[i + 1] ELSE x
    <3>1. i \in 1 .. Len(h) /\ i + 1 \in 1 .. Len(h) + 1
      BY <1>1
    <3> QED
      BY <1>1, <2>1, <2>2, <3>1
  <2> QED
    BY <1>1, <2>1, <2>2, <2>3
<1>3. CASE ~ (Len(longer) > HistorySize)
  <2>1. Added(h, x) = longer
    BY <1>3 DEF Added, longer
  <2>2. ASSUME NEW i \in 1 .. Len(h) + 1 - 0
        PROVE  Added(h, x)[i] = IF i + 0 <= Len(h) THEN h[i + 0] ELSE x
    <3>1. i + 0 = i /\ i \in 1 .. Len(h) + 1
      BY <1>1
    <3> QED
      BY <1>1, <2>1, <3>1
  <2> QED
    BY <1>1, <2>1, <2>2
<1> QED
  BY <1>2, <1>3

LEMMA OthersSame ==
  ASSUME TypeOK, NEW p \in Providers, NEW q \in Providers, p # q,
         ProviderStep(p) \/ ServerSends(p) \/ ServerLost(p)
  PROVE  Same(q)
<1> USE DEF TypeOK, Same, Goes, uiVars, readVars, packetVars, netVars, drawVars
<1>1. CASE Read(p)
  BY <1>1 DEF Read
<1>2. CASE PacketContinues(p)
  BY <1>2 DEF PacketContinues
<1>3. CASE PacketEnds(p)
  BY <1>3 DEF PacketEnds
<1>4. CASE PacketFails(p) \/ Post(p)
  BY <1>4 DEF PacketFails, Post, ForgetRead
<1>5. CASE Close(p)
  BY <1>5 DEF Close
<1>6. CASE \/ OuterCheck(p) \/ Connect(p) \/ ConnectFails(p) \/ InnerCheck(p)
           \/ ReadEnds(p) \/ SleepEnds(p)
  BY <1>6 DEF OuterCheck, Connect, ConnectFails, InnerCheck, ReadEnds, SleepEnds, Jump
<1>7. CASE WriteFails(p)
  BY <1>7 DEF WriteFails
<1>8. CASE ServerSends(p)
  BY <1>8 DEF ServerSends
<1>9. CASE ServerLost(p)
  BY <1>9 DEF ServerLost
<1> QED
  BY <1>1, <1>2, <1>3, <1>4, <1>5, <1>6, <1>7, <1>8, <1>9 DEF ProviderStep

LEMMA ProviderKeeps ==
  ASSUME TypeOK, TypeOK', NEW p \in Providers, ProviderInv(p),
         ProviderStep(p) \/ ServerSends(p) \/ ServerLost(p)
  PROVE  ProviderInv(p)' /\ KeepsBehind(p)
<1>1. CASE WriteFails(p)
  <2>1. Same(p) /\ newest' = newest
    BY <1>1 DEF WriteFails, Same, readVars, packetVars, netVars
  <2>2. newest <= newest'
    BY <2>1, RestTyped
  <2> QED
    BY <2>1, <2>2, SameKeeps
<1> QED
  BY <1>1, ReadKeeps, ContinuesKeeps, EndsKeeps, ForgetKeeps, CloseKeeps, JumpKeeps,
     SendsKeeps, LostKeeps DEF ProviderStep

LEMMA NewestGrows ==
  ASSUME TypeOK, [Next]_vars PROVE newest <= newest'
<1>0. newest \in Nat
  BY DEF TypeOK
<1>1. ASSUME NEW p \in Providers, ServerSends(p) PROVE newest <= newest'
  BY <1>0, <1>1 DEF ServerSends
<1>2. ASSUME NEW p \in Providers, ServerLost(p) \/ ProviderStep(p) PROVE newest' = newest
  BY <1>2, Zenon DEF ServerLost, ProviderStep, OuterCheck, Connect, ConnectFails,
     InnerCheck, ReadEnds, SleepEnds, Jump, Read, WriteFails, PacketContinues,
     PacketEnds, PacketFails, Post, Close, netVars
<1>3. CASE UIStep
  BY <1>3, <1>0 DEF UIStep, OnResume, OnPause, OnPauseJoined, Redraw, netVars
<1>4. CASE UNCHANGED vars
  BY <1>4, <1>0 DEF vars, netVars
<1> QED
  BY <1>0, <1>1, <1>2, <1>3, <1>4 DEF Next

LEMMA UIKeeps ==
  ASSUME TypeOK, TypeOK', NEW q \in Providers, ProviderInv(q), UIStep
  PROVE  ProviderInv(q)' /\ KeepsBehind(q)
<1>0. newest <= newest'
  BY NewestGrows DEF Next
<1>1. CASE OnResume
  <2>1. PICK p \in Providers : pc[p] = "none" /\ pc' = [pc EXCEPT ![p] = "outer"]
    BY <1>1 DEF OnResume
  <2>2. UNCHANGED <<readVars, packetVars, netVars>>
    BY <1>1 DEF OnResume
  <2>3. CASE q # p
    <3>1. Same(q)
      BY <2>1, <2>2, <2>3 DEF TypeOK, Same, readVars, packetVars, netVars
    <3> QED
      BY <1>0, <3>1, SameKeeps
  <2>4. CASE q = p
    <3>1. Rest(q)' = Rest(q) /\ baos' = baos /\ newest' = newest
      BY <2>2 DEF Rest, readVars, packetVars, netVars
    <3>2. IsStream(Rest(q), newest)' /\ InFront(baos[q], Rest(q), newest)' /\ KeepsBehind(q)
      BY <3>1, RestTyped, EqualRests, RestMoves
    <3>3. pc'[q] = "outer"
      BY <2>1, <2>4 DEF TypeOK
    <3>4. Control(q)'
      BY <2>1, <2>2, <2>4, <3>3
      DEF ProviderInv, Control, readVars, packetVars, netVars
    <3> QED
      BY <3>2, <3>3, <3>4 DEF ProviderInv, Connected
  <2> QED
    BY <2>3, <2>4
<1>2. CASE OnPause \/ OnPauseJoined \/ Redraw
  <2>1. Same(q)
    BY <1>2 DEF OnPause, OnPauseJoined, Redraw, Same, readVars, packetVars, netVars
  <2> QED
    BY <1>0, <2>1, SameKeeps
<1> QED
  BY <1>1, <1>2 DEF UIStep

LEMMA NextProvider ==
  ASSUME TypeOK, TypeOK', NEW q \in Providers, ProviderInv(q), [Next]_vars
  PROVE  ProviderInv(q)' /\ KeepsBehind(q)
<1>0. newest <= newest'
  BY NewestGrows
<1>1. ASSUME NEW p \in Providers, ProviderStep(p) \/ ServerSends(p) \/ ServerLost(p)
      PROVE  ProviderInv(q)' /\ KeepsBehind(q)
  <2>1. CASE p = q
    BY <1>1, <2>1, ProviderKeeps
  <2>2. CASE p # q
    <3>1. Same(q)
      BY <1>1, <2>2, OthersSame
    <3> QED
      BY <1>0, <3>1, SameKeeps
  <2> QED
    BY <2>1, <2>2
<1>2. CASE UNCHANGED vars
  <2>1. Same(q)
    BY <1>2 DEF vars, Same, readVars, packetVars, netVars
  <2> QED
    BY <1>0, <2>1, SameKeeps
<1> QED
  BY <1>1, <1>2, UIKeeps DEF Next

LEMMA HistoryKept ==
  ASSUME [Next]_vars
  PROVE  dataHistory' = dataHistory \/ \E p \in Providers : PacketEnds(p)
<1>1. ASSUME NEW p \in Providers, ProviderStep(p), ~ PacketEnds(p)
      PROVE  dataHistory' = dataHistory
  BY <1>1, Zenon DEF ProviderStep, OuterCheck, Connect, ConnectFails, InnerCheck,
     ReadEnds, SleepEnds, Jump, Read, WriteFails, PacketContinues, PacketFails, Post, Close
<1>2. ASSUME NEW p \in Providers, ServerSends(p) \/ ServerLost(p)
      PROVE  dataHistory' = dataHistory
  BY <1>2, Zenon DEF ServerSends, ServerLost
<1>3. CASE UIStep
  BY <1>3, Zenon DEF UIStep, OnResume, OnPause, OnPauseJoined, Redraw
<1>4. CASE UNCHANGED vars
  BY <1>4, Zenon DEF vars
<1> QED
  BY <1>1, <1>2, <1>3, <1>4 DEF Next

\* The provider that adds a packet is the only one with bytes before it.
LEMMA OnlyReader ==
  ASSUME TypeOK, MainIsJoined, NEW p \in Providers, NEW q \in Providers, p # q,
         pc[p] = "parse", ProviderInv(q)
  PROVE  baos[q] = <<>> /\ Rest(q) = <<>>
<1>1. pc[q] \in {"none", "done"}
  BY DEF MainIsJoined, Alive
<1>2. wire[q] = <<>> /\ baos[q] = <<>> /\ nread[q] = 0 /\ startIndex[q] = 0
  BY <1>1 DEF ProviderInv, Control
<1>3. Rest(q) = <<>> \o <<>>
  BY <1>2 DEF Rest, RestOf
<1> QED
  BY <1>2, <1>3

\* What the step of a packet makes of the history.
LEMMA PacketAdded ==
  ASSUME TypeOK, TypeOK', ClientInv, NEW p \in Providers, PacketEnds(p)
  PROVE  \E packet \in Parsed(Written(p)) \cap (Frames \cup {Torn}), e \in {0, 1} :
           /\ Len(dataHistory') = Len(dataHistory) + 1 - e
           /\ \A i \in 1 .. Len(dataHistory) + 1 - e :
                dataHistory'[i] = IF i + e <= Len(dataHistory) THEN dataHistory[i + e]
                                  ELSE packet
<1>1. PICK packet \in Parsed(Written(p)) \ {Malformed} :
        dataHistory' = Added(dataHistory, packet)
  BY Zenon DEF PacketEnds
<1>2. packet \in Frames \cup {Torn}
  BY ParsedType
<1>3. dataHistory \in Seq(Frames \cup {Torn})
  BY DEF TypeOK
<1> QED
  BY <1>1, <1>2, <1>3, AddedOrder

LEMMA NextHistory ==
  ASSUME TypeOK, TypeOK', ClientInv, [Next]_vars PROVE HistoryInOrder' /\ HistoryInv'
<1>0. \A q \in Providers : ProviderInv(q)' /\ KeepsBehind(q)
  BY NextProvider DEF ClientInv
<1>1. /\ dataHistory \in Seq(Frames \cup {Torn}) /\ Len(dataHistory) \in Nat
      /\ newest \in Nat /\ Torn \notin Frames
  <2>1. dataHistory \in Seq(Frames \cup {Torn}) /\ newest \in Nat
    BY DEF TypeOK
  <2>2. Torn \notin Frames
    BY ClientAssumption DEF Frames
  <2> QED
    BY <2>1, <2>2
<1>2. ASSUME NEW i \in 1 .. Len(dataHistory), dataHistory[i] # Torn
      PROVE  /\ dataHistory[i] \in Frames
             /\ \A q \in Providers : Behind(dataHistory[i], baos[q], Rest(q), newest)
  BY <1>1, <1>2 DEF ClientInv, HistoryInv
<1>3. ASSUME NEW f \in Frames, NEW i \in 1 .. Len(dataHistory), f = dataHistory[i]
      PROVE  \A q \in Providers : Behind(f, baos[q], Rest(q), newest)'
  <2>1. \A q \in Providers : Behind(f, baos[q], Rest(q), newest)
    BY <1>1, <1>2, <1>3
  <2> QED
    BY <1>0, <2>1 DEF KeepsBehind
<1>4. CASE dataHistory' = dataHistory
  <2>1. HistoryInOrder'
    BY <1>4 DEF ClientInv, HistoryInOrder
  <2>2. ASSUME NEW i \in 1 .. Len(dataHistory'), dataHistory'[i] # Torn, NEW q \in Providers
        PROVE  Behind(dataHistory'[i], baos[q]', Rest(q)', newest')
    <3>1. i \in 1 .. Len(dataHistory) /\ dataHistory'[i] = dataHistory[i]
      BY <1>4
    <3>2. PICK f \in Frames : f = dataHistory[i]
      BY <1>2, <2>2, <3>1
    <3> QED
      BY <1>3, <3>1, <3>2
  <2> QED
    BY <2>1, <2>2 DEF HistoryInv
<1>5. ASSUME NEW p \in Providers, PacketEnds(p) PROVE HistoryInOrder' /\ HistoryInv'
  <2>0. pc[p] = "parse" /\ newest' = newest
    BY <1>5 DEF PacketEnds, Goes, netVars
  <2>1. PICK packet \in Parsed(Written(p)) \cap (Frames \cup {Torn}), e \in {0, 1} :
          /\ Len(dataHistory') = Len(dataHistory) + 1 - e
          /\ \A i \in 1 .. Len(dataHistory) + 1 - e :
               dataHistory'[i] = IF i + e <= Len(dataHistory) THEN dataHistory[i + e]
                                 ELSE packet
    BY <1>5, PacketAdded
  <2>2. ASSUME NEW i \in 1 .. Len(dataHistory')
        PROVE  \/ i + e \in 1 .. Len(dataHistory) /\ dataHistory'[i] = dataHistory[i + e]
               \/ i + e = Len(dataHistory) + 1 /\ dataHistory'[i] = packet
    BY <1>1, <2>1
  <2>3. ASSUME packet \in Frames
        PROVE  /\ packet <= newest /\ Behind(packet, <<>>, Rest(p)', newest')
               /\ \A g \in Frames : Behind(g, baos[p], Rest(p), newest) => g <= packet
    BY <1>5, <2>1, <2>3, PacketFrame DEF ClientInv
  <2>4. ASSUME packet \in Frames, NEW q \in Providers
        PROVE  Behind(packet, baos[q]', Rest(q)', newest')
    <3>1. CASE q = p
      <4>1. baos'[p] = <<>>
        BY <1>5 DEF PacketEnds, TypeOK
      <4> QED
        BY <2>3, <2>4, <3>1, <4>1
    <3>2. CASE q # p
      <4>1. baos[q] = <<>> /\ Rest(q) = <<>>
        BY <2>0, <3>2, OnlyReader DEF ClientInv
      <4>2. Same(q)
        BY <1>5, <3>2, OthersSame DEF ProviderStep
      <4>3. baos[q]' = <<>> /\ Rest(q)' = <<>>
        BY <4>1, <4>2 DEF Same, Rest
      <4>4. Len(<<>>) = 0
        OBVIOUS
      <4> QED
        BY <2>0, <2>3, <2>4, <4>3, <4>4 DEF Behind
    <3> QED
      BY <3>1, <3>2
  <2>5. HistoryInv'
    <3> SUFFICES ASSUME NEW i \in 1 .. Len(dataHistory'), dataHistory'[i] # Torn,
                        NEW q \in Providers
                 PROVE  Behind(dataHistory'[i], baos[q]', Rest(q)', newest')
      BY DEF HistoryInv
    <3>1. CASE i + e \in 1 .. Len(dataHistory) /\ dataHistory'[i] = dataHistory[i + e]
      <4>1. PICK f \in Frames : f = dataHistory[i + e]
        BY <1>2, <3>1
      <4> QED
        BY <1>3, <3>1, <4>1
    <3>2. CASE dataHistory'[i] = packet
      BY <2>1, <2>4, <3>2
    <3> QED
      BY <2>2, <3>1, <3>2
  <2>6. HistoryInOrder'
    <3> SUFFICES ASSUME NEW i \in 1 .. Len(dataHistory'), NEW j \in 1 .. Len(dataHistory'),
                        i < j, dataHistory'[i] # Torn, dataHistory'[j] # Torn
                 PROVE  dataHistory'[i] <= dataHistory'[j]
      BY DEF HistoryInOrder
    <3>1. i + e \in 1 .. Len(dataHistory) /\ dataHistory'[i] = dataHistory[i + e]
      BY <1>1, <2>1, <2>2
    <3>2. CASE j + e \in 1 .. Len(dataHistory) /\ dataHistory'[j] = dataHistory[j + e]
      <4>1. i + e < j + e
        BY <2>1
      <4> QED
        BY <3>1, <3>2, <4>1 DEF ClientInv, HistoryInOrder
    <3>3. CASE dataHistory'[j] = packet
      <4>1. packet \in Frames
        BY <2>1, <3>3
      <4>2. PICK g \in Frames : g = dataHistory[i + e] /\ Behind(g, baos[p], Rest(p), newest)
        BY <1>2, <3>1
      <4> QED
        BY <2>3, <3>1, <3>3, <4>1, <4>2
    <3> QED
      BY <2>2, <3>2, <3>3
  <2> QED
    BY <2>5, <2>6
<1> QED
  BY <1>4, <1>5, HistoryKept

LEMMA InitClient == Init => ClientInv
<1> SUFFICES ASSUME Init PROVE ClientInv
  OBVIOUS
<1>1. TypeOK
  BY InitTypeOK
<1>2. MainIsJoined
  BY DEF Init, MainIsJoined, Alive
<1>3. HistoryInOrder /\ HistoryInv
  BY DEF Init, HistoryInOrder, HistoryInv
<1>4. ASSUME NEW p \in Providers PROVE ProviderInv(p)
  <2>1. /\ pc[p] = "none" /\ wire[p] = <<>> /\ baos[p] = <<>> /\ nread[p] = 0
        /\ startIndex[p] = 0 /\ ~ carried[p] /\ ~ lost[p]
    BY DEF Init
  <2>2. Rest(p) = <<>>
    <3>1. Rest(p) = <<>> \o <<>>
      BY <2>1 DEF Rest, RestOf
    <3> QED
      BY <3>1
  <2>3. IsStream(<<>>, newest) /\ InFront(<<>>, <<>>, newest)
    BY DEF IsStream, InFront
  <2> QED
    BY <2>1, <2>2, <2>3 DEF ProviderInv, Control, Connected
<1> QED
  BY <1>2, <1>3, <1>4 DEF ClientInv

LEMMA NextClient == TypeOK /\ TypeOK' /\ ClientInv /\ [Next]_vars => ClientInv'
<1> SUFFICES ASSUME TypeOK, TypeOK', ClientInv, [Next]_vars PROVE ClientInv'
  OBVIOUS
<1>1. MainIsJoined'
  BY NextKeepsMain DEF ClientInv
<1>2. HistoryInOrder' /\ HistoryInv'
  BY NextHistory
<1>3. \A p \in Providers : ProviderInv(p)'
  BY NextProvider DEF ClientInv
<1> QED
  BY <1>1, <1>2, <1>3 DEF ClientInv

LEMMA ClientCorrect == Spec => [](TypeOK /\ ClientInv)
<1>1. TypeOK /\ ClientInv /\ [Next]_vars => (TypeOK /\ ClientInv)'
  BY NextTypeOK, NextClient
<1> QED
  BY <1>1, InitTypeOK, InitClient, PTL DEF Spec

(***************************************************************************)
(* However the stream is cut into reads and the activity is paused and     *)
(* resumed, whatever connections are lost: the graphs run forward in time  *)
(* (JtopView.java 146, 186-189, 253-255).                                  *)
(***************************************************************************)
THEOREM HistoryCorrect == Spec => []HistoryInOrder
<1>1. ClientInv => HistoryInOrder
  BY DEF ClientInv
<1> QED
  BY <1>1, ClientCorrect, PTL

(***************************************************************************)
(* However many reads a packet comes in, baos is the beginning of one      *)
(* frame if it began at the head of a read (JtopView.java 162-194).        *)
(***************************************************************************)
THEOREM ReadsCorrect == Spec => []ReadsAreReassembled
<1>1. TypeOK /\ ClientInv => ReadsAreReassembled
  <2> SUFFICES ASSUME TypeOK, ClientInv, NEW p \in Providers, pc[p] \in Connected,
                      ~ carried[p]
               PROVE  \E f \in Frames \cup {0}, n \in 0 .. FrameLength :
                        baos[p] = SubSeq(Text(f), 1, n)
    BY DEF ReadsAreReassembled
  <2>1. PICK f \in 0 .. MaxFrames, n \in 0 .. FrameLength :
          Len(baos[p]) = n /\ \A k \in 1 .. n : baos[p][k] = [frame |-> f, pos |-> k]
    BY DEF ClientInv, ProviderInv, Begins
  <2>2. f \in Frames \cup {0} /\ FrameLength \in Nat \ {0} /\ f \in 0 .. MaxFrames
    BY ClientAssumption DEF Frames
  <2>3. \A k \in 1 .. FrameLength : Text(f)[k] = [frame |-> f, pos |-> k]
    BY DEF Text
  <2>4. \A k \in 1 .. n : k \in 1 .. FrameLength /\ Text(f)[k] \in Byte
    <3> TAKE k \in 1 .. n
    <3>1. k \in 1 .. FrameLength /\ k \in 0 .. FrameLength
      BY <2>2
    <3>2. [frame |-> f, pos |-> k] \in Byte
      BY <2>2, <3>1 DEF Byte
    <3> QED
      BY <2>3, <3>1, <3>2
  <2>5. /\ SubSeq(Text(f), 1, n) \in Seq(Byte) /\ Len(SubSeq(Text(f), 1, n)) = n
        /\ \A k \in 1 .. n : SubSeq(Text(f), 1, n)[k] = Text(f)[k]
    BY <2>2, <2>4, SubSeqProperties
  <2>6. baos[p] = SubSeq(Text(f), 1, n)
    <3>1. baos[p] \in Seq(Byte)
      BY DEF TypeOK
    <3>2. \A k \in 1 .. n : baos[p][k] = SubSeq(Text(f), 1, n)[k]
      BY <2>1, <2>3, <2>4, <2>5
    <3> QED
      BY <2>1, <2>5, <3>1, <3>2, SeqEqual
  <2> QED
    BY <2>2, <2>6
<1> QED
  BY <1>1, ClientCorrect, PTL

\* A packet that began at the head of a read is a frame, whatever the write to
\* baos puts behind it.
LEMMA UncarriedWhole ==
  ASSUME TypeOK, NEW p \in Providers, ProviderInv(p), pc[p] = "parse", ~ carried[p],
         Fits(p), NullByte(p) < nread[p]
  PROVE  Parsed(Written(p)) \subseteq Frames
<1> DEFINE m == NullByte(p) - startIndex[p]
<1>1. startIndex[p] < nread[p] /\ IsStream(Rest(p), newest)
  BY DEF ProviderInv, Control
<1>2. /\ buffer[p] \in [Indices -> Byte] /\ startIndex[p] \in 0 .. BufferSize + 1
      /\ nread[p] \in 0 .. BufferSize /\ wire[p] \in Seq(Byte)
  BY DEF TypeOK
<1>3. NullByte(p) \in 0 .. BufferSize /\ FrameLength \in Nat \ {0}
  BY NullByteBounds, ClientAssumption
<1>4. /\ m \in Nat /\ m <= nread[p] - startIndex[p]
      /\ (NullByte(p) = nread[p] <=> m = nread[p] - startIndex[p])
      /\ \A k \in 1 .. m : Rest(p)[k] # Null
      /\ m < nread[p] - startIndex[p] => Rest(p)[m + 1] = Null
  BY <1>1, FirstNull
<1>5. m < nread[p] - startIndex[p] /\ m <= NullByte(p)
  BY <1>2, <1>3, <1>4, ClientAssumption
<1>6. Rest(p) \in Seq(Byte) /\ nread[p] - startIndex[p] <= Len(Rest(p))
      /\ nread[p] - startIndex[p] \in Nat
  <2>1. Rest(p) \in Seq(Byte)
    BY <1>2, RestIsSeq DEF Rest
  <2> QED
    BY <1>1, <2>1, RestOfRead
<1> HIDE DEF m
<1>7. m < Len(Rest(p)) /\ Rest(p) # <<>> /\ Len(Rest(p)) \in Nat
  BY <1>4, <1>5, <1>6, EmptySeq
<1>8. PICK f \in 0 .. MaxFrames, n \in 0 .. FrameLength :
        /\ n > 0 => f \in Frames
        /\ Len(baos[p]) = n /\ \A k \in 1 .. n : baos[p][k] = [frame |-> f, pos |-> k]
        /\ Rest(p) # <<>> => Rest(p)[1] = Expected(f, n + 1)
  BY DEF ProviderInv, Begins, Connected
<1>9. /\ n + m <= FrameLength
      /\ \A k \in 1 .. m : Rest(p)[k] = [frame |-> f, pos |-> n + k]
      /\ 0 < m /\ m < Len(Rest(p)) => Rest(p)[m + 1] = Expected(f, n + m + 1)
  <2>1. f \in Nat /\ m <= Len(Rest(p))
    BY <1>4, <1>7
  <2>2. Rest(p)[1] = Expected(f, n + 1) /\ \A k \in 1 .. m : Rest(p)[k] # Null
    BY <1>4, <1>7, <1>8
  <2>3. m \in Nat /\ Rest(p) \in Seq(Byte) /\ IsStream(Rest(p), newest)
    BY <1>1, <1>4, <1>6
  <2> QED
    BY <2>1, <2>2, <2>3, RunOfBytes
<1>10. n + m = FrameLength
  <2>1. Expected(f, n + m + 1) = Null
    <3>1. CASE m = 0
      <4>1. n + m + 1 = n + 1 /\ m + 1 = 1
        BY <3>1
      <4> QED
        BY <1>4, <1>5, <1>7, <1>8, <4>1
    <3>2. CASE m # 0
      BY <1>4, <1>5, <1>7, <1>9, <3>2
    <3> QED
      BY <3>1, <3>2
  <2>2. n + m + 1 \notin 1 .. FrameLength
    BY <2>1, ExpectedByte
  <2>3. n + m <= FrameLength
    BY <1>9
  <2>4. n \in Nat /\ m \in Nat /\ FrameLength \in Nat
    BY <1>3, <1>4
  <2> QED
    BY <2>2, <2>3, <2>4
<1>11. f \in Frames
  <2>1. CASE n > 0
    BY <1>8, <2>1
  <2>2. CASE ~ (n > 0)
    <3>1. 1 \in 1 .. m /\ 1 \in 1 .. Len(Rest(p))
      BY <1>3, <1>4, <1>7, <1>10, <2>2
    <3>2. Rest(p)[1] = [frame |-> f, pos |-> n + 1] /\ Rest(p)[1] # Null
      BY <1>4, <1>9, <3>1
    <3>3. PICK h \in Frames, j \in 1 .. FrameLength : Rest(p)[1] = Expected(h, j)
      BY <1>1, <3>1, <3>2 DEF IsStream, IsByte
    <3>4. Rest(p)[1].frame = h /\ Rest(p)[1].frame = f
      BY <3>2, <3>3, ExpectedByte
    <3> QED
      BY <3>4
  <2> QED
    BY <2>1, <2>2
<1>12. /\ Written(p) \in Seq(Byte) /\ Len(Written(p)) = n + NullByte(p)
       /\ \A k \in 1 .. n : Written(p)[k] = baos[p][k]
  BY <1>1, <1>8, WrittenBytes
<1>13. \A k \in 1 .. m : Written(p)[n + k] = Rest(p)[k]
  <2>1. \A k \in 1 .. NullByte(p) : k <= nread[p] - startIndex[p] =>
          Written(p)[Len(baos[p]) + k] = Rest(p)[k]
    BY <1>1, WrittenBytes
  <2> TAKE k \in 1 .. m
  <2>2. k \in 1 .. NullByte(p) /\ k <= nread[p] - startIndex[p]
    BY <1>3, <1>4, <1>5, <1>6
  <2> QED
    BY <1>8, <2>1, <2>2
<1>14. \A k \in 1 .. FrameLength : Written(p)[k] = [frame |-> f, pos |-> k]
  <2> TAKE k \in 1 .. FrameLength
  <2>1. CASE k <= n
    <3>1. k \in 1 .. n
      BY <2>1
    <3> QED
      BY <1>8, <1>12, <3>1
  <2>2. CASE ~ (k <= n)
    <3>1. k - n \in 1 .. m /\ n + (k - n) = k
      BY <1>3, <1>4, <1>10, <2>2
    <3> QED
      BY <1>9, <1>13, <3>1
  <2> QED
    BY <2>1, <2>2
<1>15. Len(Written(p)) >= FrameLength
  BY <1>3, <1>4, <1>5, <1>10, <1>12
<1>16. SubSeq(Written(p), 1, FrameLength) = Text(f)
  <2>1. /\ SubSeq(Written(p), 1, FrameLength) \in Seq(Byte)
        /\ Len(SubSeq(Written(p), 1, FrameLength)) = FrameLength
        /\ \A k \in 1 .. FrameLength : SubSeq(Written(p), 1, FrameLength)[k] = Written(p)[k]
    BY <1>3, <1>12, <1>15
  <2>2. Text(f) \in Seq(Byte) /\ Len(Text(f)) = FrameLength
        /\ \A k \in 1 .. FrameLength : Text(f)[k] = [frame |-> f, pos |-> k]
    <3>1. \A k \in 1 .. FrameLength : [frame |-> f, pos |-> k] \in Byte
      BY <1>3 DEF Byte
    <3> QED
      BY <1>3, <3>1 DEF Text
  <2> HIDE DEF Text
  <2> QED
    BY <1>14, <2>1, <2>2, SeqEqual
<1> QED
  BY <1>11, <1>15, <1>16 DEF Parsed

(***************************************************************************)
(* Only a packet that began in the middle of a read is refused or taken    *)
(* for another: any other, whatever baos.write adds to it, is handled as   *)
(* the frame it is (JtopView.java 179, 183-188).                           *)
(***************************************************************************)
THEOREM TornCorrect == Spec => OnlyCarriedPacketsAreTorn
<1>1. ASSUME TypeOK, TypeOK', ClientInv, [Next]_vars, NEW p \in Providers,
             pc[p] = "parse", ~ carried[p]
      PROVE  /\ pc'[p] # "close"
             /\ dataHistory' # dataHistory => dataHistory'[Len(dataHistory')] # Torn
  <2>1. \A q \in Providers : q # p => ~ Alive(q)
    BY <1>1 DEF ClientInv, MainIsJoined, Alive
  <2>2. ~ PacketFails(p)
    <3> SUFFICES ASSUME PacketFails(p) PROVE FALSE
      OBVIOUS
    <3>1. Parsed(Written(p)) \subseteq Frames
      BY <1>1, UncarriedWhole DEF PacketFails, ClientInv
    <3> QED
      BY <3>1 DEF PacketFails, Malformed, Frames
  <2>3. pc'[p] # "close"
    <3>1. ASSUME NEW q \in Providers, ProviderStep(q) PROVE pc'[p] # "close"
      <4>1. Alive(q) /\ q = p
        BY <2>1, <3>1, ProviderStepAlone
      <4>2. WriteFails(p) \/ PacketContinues(p) \/ PacketEnds(p)
        BY <1>1, <2>2, <3>1, <4>1
        DEF ProviderStep, OuterCheck, Connect, ConnectFails, InnerCheck, ReadEnds,
            SleepEnds, Jump, Goes, Read, Post, Close
      <4> QED
        BY <1>1, <4>2 DEF WriteFails, PacketContinues, PacketEnds, Goes, TypeOK
    <3>2. ASSUME NEW q \in Providers, ServerSends(q) \/ ServerLost(q)
          PROVE  pc'[p] # "close"
      BY <1>1, <3>2 DEF ServerSends, ServerLost
    <3>3. CASE UIStep
      BY <1>1, <3>3 DEF UIStep, OnResume, OnPause, OnPauseJoined, Redraw, TypeOK
    <3>4. CASE UNCHANGED vars
      BY <1>1, <3>4 DEF vars
    <3> QED
      BY <1>1, <3>1, <3>2, <3>3, <3>4 DEF Next
  <2>4. ASSUME dataHistory' # dataHistory
        PROVE  dataHistory'[Len(dataHistory')] # Torn
    <3>1. PICK q \in Providers : PacketEnds(q)
      BY <1>1, <2>4, HistoryKept
    <3>2. q = p
      BY <2>1, <3>1 DEF PacketEnds, Goes, Alive
    <3>3. PICK packet \in Parsed(Written(p)), e \in {0, 1} :
            /\ Len(dataHistory') = Len(dataHistory) + 1 - e
            /\ \A i \in 1 .. Len(dataHistory) + 1 - e :
                 dataHistory'[i] = IF i + e <= Len(dataHistory) THEN dataHistory[i + e]
                                   ELSE packet
      BY <1>1, <3>1, <3>2, PacketAdded
    <3>4. packet \in Frames
      BY <1>1, <3>1, <3>2, <3>3, UncarriedWhole DEF PacketEnds, ClientInv
    <3>5. dataHistory \in Seq(Frames \cup {Torn}) /\ dataHistory' \in Seq(Frames \cup {Torn})
      BY <1>1 DEF TypeOK
    <3>6. Len(dataHistory) + 1 - e # 0
      <4> SUFFICES ASSUME Len(dataHistory) + 1 - e = 0 PROVE FALSE
        OBVIOUS
      <4>1. Len(dataHistory) = 0 /\ Len(dataHistory') = 0
        BY <3>3, <3>5
      <4> QED
        BY <2>4, <3>5, <4>1, EmptySeq
    <3>7. dataHistory'[Len(dataHistory')] = packet
      BY <3>3, <3>5, <3>6
    <3> QED
      BY <3>4, <3>7, ClientAssumption DEF Frames
  <2> QED
    BY <2>3, <2>4
<1>2. TypeOK /\ TypeOK' /\ ClientInv /\ [Next]_vars =>
        \A p \in Providers : pc[p] = "parse" /\ ~ carried[p] =>
          /\ pc'[p] # "close"
          /\ dataHistory' # dataHistory => dataHistory'[Len(dataHistory')] # Torn
  BY <1>1
<1> QED
  BY <1>2, ClientCorrect, PTL DEF Spec, OnlyCarriedPacketsAreTorn
=============================================================================
