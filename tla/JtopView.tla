------------------------------ MODULE JtopView ------------------------------
(***************************************************************************)
(* The Android client (client/.../JtopView.java): the UI thread, which     *)
(* starts a provider thread in onResume and joins it in onPause, and the   *)
(* provider, which reads the server's stream, cuts it at null bytes,       *)
(* parses each packet and keeps the last ones for the UI thread to draw.   *)
(*                                                                         *)
(* A byte of the stream is the frame it belongs to and its place in it.    *)
(* Whoever writes dataHistory or copies it holds its monitor, so each of   *)
(* the two is one step.  The interrupt of onPause only ends a sleep that   *)
(* ends anyway, and is left out.                                           *)
(***************************************************************************)
EXTENDS Integers, Sequences, FiniteSets

CONSTANTS
  Providers,    \* DataProviderMain objects, one per onResume
  NoProvider,   \* none yet
  FrameLength,  \* bytes of a frame, without the null byte that ends it
  BufferSize,   \* 4096
  HistorySize,  \* 30
  MaxFrames,    \* bound: frames the server sends that are told apart
  MaxWire,      \* bound: bytes the network holds for the client
  MaxRedraws,   \* bound: queued redraws told apart
  BadFrames,    \* frames that lack a value or have one that is not a number
  Torn          \* an object the server never sent

ASSUME ClientAssumption ==
  /\ NoProvider \notin Providers
  /\ FrameLength \in Nat \ {0} /\ BufferSize \in Nat \ {0}
  /\ HistorySize \in Nat \ {0} /\ MaxFrames \in Nat
  /\ MaxWire \in Nat /\ MaxRedraws \in Nat \ {0}
  /\ Torn \notin Nat
  /\ BadFrames \subseteq 1 .. MaxFrames \cup {Torn}

VARIABLES
  app,                \* the activity: "paused", "resumed", "pausing", "crashed"
  dataProviderMain,   \* the provider onResume made last
  shouldShutdown,     \* its field
  pc,                 \* where each provider's thread is
  buffer, nread, startIndex, baos, triggerRedraw,   \* locals of run()
  carried,            \* history variable: baos began in the middle of a read
  wire, lost,         \* the socket: bytes to be read, and no more will come
  newest,             \* the newest frame the server has sent
  dataHistory,
  redraws,            \* runnables in the queue of mhandler
  unposted,           \* history variable: a packet was added and no redraw posted
  series              \* what the graphs show

uiVars     == <<app, dataProviderMain, shouldShutdown>>
readVars   == <<buffer, nread, startIndex, triggerRedraw>>
packetVars == <<baos, carried>>
netVars    == <<wire, lost, newest>>
drawVars   == <<redraws, unposted, series>>
vars == <<pc, uiVars, readVars, packetVars, netVars, dataHistory, drawVars>>

Frames  == 1 .. MaxFrames
Byte    == [frame : 0 .. MaxFrames, pos : 0 .. FrameLength]
Null    == [frame |-> 0, pos |-> 0]
Text(f) == [k \in 1 .. FrameLength |-> [frame |-> f, pos |-> k]]
Indices == 0 .. BufferSize - 1

\* A point of a graph that was never filled.
NoPoint == 0
Connected == {"inner", "read", "parse", "post"}

TypeOK ==
  /\ app \in {"paused", "resumed", "pausing", "crashed"}
  /\ dataProviderMain \in Providers \cup {NoProvider}
  /\ shouldShutdown \in [Providers -> BOOLEAN]
  /\ pc \in [Providers -> Connected \cup
               {"none", "outer", "connect", "close", "sleep", "done"}]
  /\ buffer \in [Providers -> [Indices -> Byte]]
  /\ nread \in [Providers -> 0 .. BufferSize]
  /\ startIndex \in [Providers -> 0 .. BufferSize + 1]
  /\ baos \in [Providers -> Seq(Byte)]
  /\ triggerRedraw \in [Providers -> BOOLEAN] /\ carried \in [Providers -> BOOLEAN]
  /\ wire \in [Providers -> Seq(Byte)] /\ lost \in [Providers -> BOOLEAN]
  /\ newest \in 0 .. MaxFrames
  /\ dataHistory \in Seq(Frames \cup {Torn}) /\ Len(dataHistory) <= HistorySize
  /\ redraws \in 0 .. MaxRedraws /\ unposted \in BOOLEAN
  /\ series \in Seq(Frames \cup {Torn, NoPoint})

Init ==
  /\ app = "paused" /\ dataProviderMain = NoProvider
  /\ shouldShutdown = [p \in Providers |-> FALSE]
  /\ pc = [p \in Providers |-> "none"]
  /\ buffer = [p \in Providers |-> [i \in Indices |-> Null]]
  /\ nread = [p \in Providers |-> 0] /\ startIndex = [p \in Providers |-> 0]
  /\ baos = [p \in Providers |-> <<>>]
  /\ triggerRedraw = [p \in Providers |-> FALSE]
  /\ carried = [p \in Providers |-> FALSE]
  /\ wire = [p \in Providers |-> <<>>] /\ lost = [p \in Providers |-> FALSE]
  /\ newest = 0
  /\ dataHistory = <<>>
  /\ redraws = 0 /\ unposted = FALSE /\ series = <<>>

-----------------------------------------------------------------------------
(* The provider's thread: run.                                             *)

Goes(p, from, to) ==
  /\ app # "crashed"
  /\ pc[p] = from /\ pc' = [pc EXCEPT ![p] = to]

Jump(p, from, to) ==
  /\ Goes(p, from, to)
  /\ UNCHANGED <<uiVars, readVars, packetVars, netVars, dataHistory, drawVars>>

\* while (!shouldShutdown)
OuterCheck(p) ==
  Jump(p, "outer", IF shouldShutdown[p] THEN "done" ELSE "connect")

\* new Socket, getInputStream, a new baos
Connect(p) == Jump(p, "connect", "inner")

\* UnknownHostException or IOException
ConnectFails(p) == Jump(p, "connect", "close")

\* Mutant: while (true)
InnerCheckForever(p) == Jump(p, "inner", "read")

\* while (!shouldShutdown)
InnerCheck(p) ==
  Jump(p, "inner", IF shouldShutdown[p] THEN "close" ELSE "read")

\* istream.read(buffer) returns any number of the bytes that have come.
Read(p) ==
  /\ Goes(p, "read", "parse")
  /\ \E n \in 1 .. BufferSize :
       /\ n <= Len(wire[p])
       /\ nread' = [nread EXCEPT ![p] = n]
       /\ buffer' = [buffer EXCEPT ![p] =
                       [i \in Indices |-> IF i < n THEN wire[p][i + 1] ELSE @[i]]]
       /\ wire' = [wire EXCEPT ![p] = SubSeq(@, n + 1, Len(@))]
  /\ startIndex' = [startIndex EXCEPT ![p] = 0]
  /\ triggerRedraw' = [triggerRedraw EXCEPT ![p] = FALSE]
  /\ UNCHANGED <<uiVars, packetVars, lost, newest, dataHistory, drawVars>>

\* Mutant: the end of the stream is no reason to leave the loop.
ReadEndIgnored(p) == lost[p] /\ Jump(p, "read", "inner")

\* read returns -1, or throws: the rest of a reset connection is not read.
ReadEnds(p) == lost[p] /\ Jump(p, "read", "close")

\* The first null byte at or after startIndex, or nread.
NullByte(p) ==
  LET here == {i \in startIndex[p] .. nread[p] - 1 : buffer[p][i] = Null} IN
  IF here = {} THEN nread[p] ELSE CHOOSE i \in here : \A j \in here : i <= j

\* Mutant: a new baos for every read.
WrittenAfresh(p) == [k \in 1 .. NullByte(p) |-> buffer[p][startIndex[p] + k - 1]]

\* baos.write(buffer, startIndex, nullByte): the third argument is a length,
\* so bytes after the packet, of this read or an older one, follow it into
\* baos unless it starts at 0.
Fits(p) == startIndex[p] + NullByte(p) <= BufferSize
Written(p) ==
  baos[p] \o [k \in 1 .. NullByte(p) |-> buffer[p][startIndex[p] + k - 1]]

\* The write is out of bounds: nobody catches the exception.
WriteFails(p) ==
  /\ app # "crashed" /\ pc[p] = "parse" /\ ~ Fits(p)
  /\ app' = "crashed"
  /\ UNCHANGED <<pc, dataProviderMain, shouldShutdown, readVars, packetVars,
                 netVars, dataHistory, drawVars>>

\* No null byte is left in this read.
PacketContinues(p) ==
  /\ Goes(p, "parse", "post") /\ Fits(p) /\ NullByte(p) = nread[p]
  /\ baos' = [baos EXCEPT ![p] = Written(p)]
  /\ carried' = [carried EXCEPT ![p] = @ \/ startIndex[p] > 0]
  /\ startIndex' = [startIndex EXCEPT ![p] = nread[p] + 1]
  /\ UNCHANGED <<uiVars, buffer, nread, triggerRedraw, netVars, dataHistory,
                 drawVars>>

\* What new JSONObject(json) may make of a text.  The parser stops at the
\* brace that closes the first object; a text that goes wrong after its first
\* byte may be refused or, spliced in the right place, taken for an object.
Malformed == 0
Parsed(text) ==
  LET whole == {f \in Frames : /\ Len(text) >= FrameLength
                               /\ SubSeq(text, 1, FrameLength) = Text(f)} IN
  IF whole # {} THEN whole
  ELSE IF text # <<>> /\ text[1].pos = 1 THEN {Torn, Malformed}
  ELSE {Malformed}

\* Mutant: nothing is removed.
AddedUntrimmed(h, packet) == Append(h, packet)

\* dataHistory.add, and remove(0) while there are too many
Added(h, packet) ==
  LET longer == Append(h, packet) IN
  IF Len(longer) > HistorySize THEN Tail(longer) ELSE longer

\* A null byte ends the packet, and it is an object.
PacketEnds(p) ==
  LET next == NullByte(p) + 1 IN
  /\ Goes(p, "parse", IF next < nread[p] THEN "parse" ELSE "post")
  /\ Fits(p) /\ NullByte(p) < nread[p]
  /\ \E packet \in Parsed(Written(p)) \ {Malformed} :
       dataHistory' = Added(dataHistory, packet)
  /\ triggerRedraw' = [triggerRedraw EXCEPT ![p] = TRUE]
  /\ baos' = [baos EXCEPT ![p] = <<>>] /\ carried' = [carried EXCEPT ![p] = FALSE]
  /\ startIndex' = [startIndex EXCEPT ![p] = next]
  /\ UNCHANGED <<uiVars, buffer, nread, netVars, drawVars>>

\* What run() declares inside its loop goes out of scope.
ForgetRead(p) ==
  /\ nread' = [nread EXCEPT ![p] = 0] /\ startIndex' = [startIndex EXCEPT ![p] = 0]
  /\ triggerRedraw' = [triggerRedraw EXCEPT ![p] = FALSE]
  /\ UNCHANGED buffer

\* JSONException: the redraw of the packets before it is not posted.
PacketFails(p) ==
  /\ Goes(p, "parse", "close")
  /\ Fits(p) /\ NullByte(p) < nread[p] /\ Malformed \in Parsed(Written(p))
  /\ unposted' = (unposted \/ triggerRedraw[p])
  /\ ForgetRead(p)
  /\ UNCHANGED <<uiVars, packetVars, netVars, dataHistory, redraws, series>>

\* if (triggerRedraw) mhandler.post(...)
Post(p) ==
  /\ Goes(p, "post", "inner")
  /\ IF triggerRedraw[p]
       THEN /\ redraws' = IF redraws < MaxRedraws THEN redraws + 1 ELSE redraws
            /\ unposted' = FALSE
       ELSE UNCHANGED <<redraws, unposted>>
  /\ ForgetRead(p)
  /\ UNCHANGED <<uiVars, packetVars, netVars, dataHistory, series>>

\* Mutant: baos outlives its connection.
CloseKeepsPacket(p) ==
  /\ Goes(p, "close", "sleep")
  /\ wire' = [wire EXCEPT ![p] = <<>>] /\ lost' = [lost EXCEPT ![p] = FALSE]
  /\ UNCHANGED <<uiVars, readVars, packetVars, newest, dataHistory, drawVars>>

\* socket.close, istream.close; baos went with the try block.
Close(p) ==
  /\ Goes(p, "close", "sleep")
  /\ baos' = [baos EXCEPT ![p] = <<>>] /\ carried' = [carried EXCEPT ![p] = FALSE]
  /\ wire' = [wire EXCEPT ![p] = <<>>] /\ lost' = [lost EXCEPT ![p] = FALSE]
  /\ UNCHANGED <<uiVars, readVars, newest, dataHistory, drawVars>>

\* Thread.sleep(1000L), whole or interrupted
SleepEnds(p) == Jump(p, "sleep", "outer")

ProviderStep(p) ==
  \/ OuterCheck(p) \/ Connect(p) \/ ConnectFails(p) \/ InnerCheck(p)
  \/ Read(p) \/ ReadEnds(p) \/ WriteFails(p) \/ PacketContinues(p)
  \/ PacketEnds(p) \/ PacketFails(p) \/ Post(p) \/ Close(p) \/ SleepEnds(p)

-----------------------------------------------------------------------------
(* The UI thread.                                                          *)

OnResume ==
  /\ app = "paused" /\ app' = "resumed"
  /\ \E p \in Providers :
       /\ pc[p] = "none" /\ pc' = [pc EXCEPT ![p] = "outer"]
       /\ dataProviderMain' = p
  /\ UNCHANGED <<shouldShutdown, readVars, packetVars, netVars, dataHistory, drawVars>>

OnPause ==
  /\ app = "resumed" /\ app' = "pausing"
  /\ shouldShutdown' = [shouldShutdown EXCEPT ![dataProviderMain] = TRUE]
  /\ UNCHANGED <<pc, dataProviderMain, readVars, packetVars, netVars,
                 dataHistory, drawVars>>

\* Mutant: no bgThread.join()
OnPauseUnjoined ==
  /\ app = "pausing" /\ app' = "paused"
  /\ UNCHANGED <<pc, dataProviderMain, shouldShutdown, readVars, packetVars,
                 netVars, dataHistory, drawVars>>

\* bgThread.join() returns
OnPauseJoined ==
  /\ app = "pausing" /\ pc[dataProviderMain] = "done" /\ app' = "paused"
  /\ UNCHANGED <<pc, dataProviderMain, shouldShutdown, readVars, packetVars,
                 netVars, dataHistory, drawVars>>

\* The points of a history: a value that cannot be had ends the loop, and the
\* rest of the arrays stays empty.
Points(h) ==
  [i \in 1 .. Len(h) |-> IF \E j \in 1 .. i : h[j] \in BadFrames THEN NoPoint ELSE h[i]]

\* Mutant: a paused activity is not drawn.
RedrawResumed ==
  /\ app \in {"paused", "resumed"} /\ redraws > 0
  /\ redraws' = redraws - 1
  /\ series' = IF app = "resumed" THEN Points(dataHistory) ELSE series
  /\ UNCHANGED <<pc, uiVars, readVars, packetVars, netVars, dataHistory, unposted>>

\* The runnable posted to mhandler.  The UI thread runs it when onPause does
\* not hold it.
Redraw ==
  /\ app \in {"paused", "resumed"} /\ redraws > 0
  /\ redraws' = redraws - 1 /\ series' = Points(dataHistory)
  /\ UNCHANGED <<pc, uiVars, readVars, packetVars, netVars, dataHistory, unposted>>

UIStep == OnResume \/ OnPause \/ OnPauseJoined \/ Redraw

-----------------------------------------------------------------------------
(* The server, as the client's socket shows it.                            *)

\* The server sends the newest frame, again or for the first time.
ServerSends(p) ==
  /\ app # "crashed" /\ pc[p] \in Connected /\ ~ lost[p]
  /\ Len(wire[p]) + FrameLength + 1 <= MaxWire
  /\ newest' \in {newest, newest + 1} \cap Frames
  /\ wire' = [wire EXCEPT ![p] = @ \o Append(Text(newest'), Null)]
  /\ UNCHANGED <<pc, uiVars, readVars, packetVars, lost, dataHistory, drawVars>>

\* The connection ends, perhaps in the middle of a frame.
ServerLost(p) ==
  /\ app # "crashed" /\ pc[p] \in Connected /\ ~ lost[p]
  /\ lost' = [lost EXCEPT ![p] = TRUE]
  /\ \E n \in 0 .. Len(wire[p]) : wire' = [wire EXCEPT ![p] = SubSeq(@, 1, n)]
  /\ UNCHANGED <<pc, uiVars, readVars, packetVars, newest, dataHistory, drawVars>>

Next == \/ UIStep
        \/ \E p \in Providers : ProviderStep(p) \/ ServerSends(p) \/ ServerLost(p)

Spec == Init /\ [][Next]_vars

(***************************************************************************)
(* The provider and the UI thread are scheduled; the server may be silent  *)
(* for ever.                                                               *)
(***************************************************************************)
Fairness ==
  /\ \A p \in Providers : WF_vars(ProviderStep(p))
  /\ WF_vars(OnPauseJoined) /\ WF_vars(Redraw)

FairSpec == Spec /\ Fairness

-----------------------------------------------------------------------------
(* Properties.                                                             *)

Alive(p) == pc[p] \notin {"none", "done"}

(***************************************************************************)
(* One provider at most is running, and none while the activity is paused: *)
(* onPause joins the thread before onResume makes another, so only one     *)
(* adds to dataHistory (JtopView.java 120-139).                            *)
(***************************************************************************)
OneProvider ==
  /\ \A p, q \in Providers : Alive(p) /\ Alive(q) => p = q
  /\ app = "paused" => \A p \in Providers : ~ Alive(p)

(***************************************************************************)
(* The graphs run forward in time across reconnects, pauses and the        *)
(* trimming of the history: no frame follows a newer one (146, 186-189,    *)
(* 253-255).                                                               *)
(***************************************************************************)
HistoryInOrder ==
  \A i, j \in 1 .. Len(dataHistory) :
    i < j /\ Torn \notin {dataHistory[i], dataHistory[j]} =>
      dataHistory[i] <= dataHistory[j]

(***************************************************************************)
(* A packet that starts at the head of a read is put together right,       *)
(* however many reads it comes in: baos is the beginning of one frame      *)
(* (162-194).                                                              *)
(***************************************************************************)
ReadsAreReassembled ==
  \A p \in Providers : pc[p] \in Connected /\ ~ carried[p] =>
    \E f \in Frames \cup {0}, n \in 0 .. FrameLength : baos[p] = SubSeq(Text(f), 1, n)

(***************************************************************************)
(* A packet is refused or mistaken for another only if it started in the   *)
(* middle of a read and ended in a later one: then alone the bytes that    *)
(* baos.write adds by its wrong length stand before the packet's end       *)
(* (179, 183-188).                                                         *)
(***************************************************************************)
OnlyCarriedPacketsAreTorn ==
  [][\A p \in Providers : pc[p] = "parse" /\ ~ carried[p] =>
       /\ pc'[p] # "close"
       /\ dataHistory' # dataHistory => dataHistory'[Len(dataHistory')] # Torn]_vars

(***************************************************************************)
(* The graphs show the history, or a redraw is on its way, or an exception *)
(* took the redraw with it (190, 200-239).                                 *)
(***************************************************************************)
RedrawIsComing ==
  series # Points(dataHistory) =>
    \/ redraws > 0 \/ unposted
    \/ \E p \in Providers : pc[p] \in {"parse", "post"} /\ triggerRedraw[p]

\* The provider waits in read for a server that has nothing to say.
Silent == \E p \in Providers : pc[p] = "read" /\ wire[p] = <<>> /\ ~ lost[p]

(***************************************************************************)
(* onPause returns, unless the server falls silent for good without        *)
(* closing: nothing interrupts the provider's read (128-139, 164-166).     *)
(***************************************************************************)
PauseEnds == <>[]Silent \/ (app = "pausing" ~> app # "pausing")

(***************************************************************************)
(* A connection that is lost is followed by an attempt at another, or by   *)
(* the end of the provider that was asked to stop (166-168, 242-256).      *)
(***************************************************************************)
ProviderReconnects ==
  \A p \in Providers :
    lost[p] ~> pc[p] \in {"connect", "done"} \/ app = "crashed"

(***************************************************************************)
(* "We have a complete packet, so handle it" (181): what is handled at a   *)
(* null byte is one packet of the server.                                  *)
(***************************************************************************)
PacketsAreComplete == \A i \in 1 .. Len(dataHistory) : dataHistory[i] # Torn

=============================================================================
