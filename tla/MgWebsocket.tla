----------------------------- MODULE MgWebsocket -----------------------------
(***************************************************************************)
(* read_websocket (server/mongoose.c): frames that arrive in pieces are    *)
(* cut from the connection's buffer and given to websocket_data.  A byte   *)
(* is its place in the stream, so the buffer behind the request is an      *)
(* interval of it: it starts at `base' and has body_len bytes.  A read     *)
(* that fails, as at a timeout, is not noticed while a payload is awaited: *)
(* the loop goes on, and takes what is next in the stream for a header.    *)
(***************************************************************************)
EXTENDS Integers, Sequences, SequencesExt

CONSTANTS
  Frames,     \* what a header may say, [form, masked, size, close]: those that a
              \* client sends, and those that other bytes are taken for
  Room,       \* conn->buf_size - conn->request_len
  Mem,        \* sizeof(mem): larger payloads are allocated
  IntBound,   \* 2^31: pull_all is told a length as an int
  MaxFrames,  \* bound: frames of the client
  MaxTold     \* bound: payloads after which websocket_data says to end

Forms == {2, 4, 10}  \* bytes of a header, by the width of the length in it

MgWebsocketAssumption ==
  /\ Frames \subseteq [form : Forms, masked : BOOLEAN, size : Nat, close : BOOLEAN]
  /\ Room \in Nat /\ Mem \in Nat /\ IntBound \in Nat \ {0} /\ MaxFrames \in Nat /\ MaxTold \in Nat

VARIABLES pc,         \* "read", "done", or "abort" of an assert
          sent,       \* frames of the client
          base, body_len,
          head,       \* what the bytes from base on say as a header
          told        \* payloads given to websocket_data: where they start, the size
                      \* that the header says, how much was read, and if it closes
vars == <<pc, sent, base, body_len, head, told>>

MaskLen(f) == IF f.masked THEN 4 ELSE 0
HeaderLen(f) == f.form + MaskLen(f)
Ends == LET end[i \in 0 .. Len(sent)] ==
              IF i = 0 THEN 0 ELSE end[i - 1] + HeaderLen(sent[i]) + sent[i].size IN
        end
Stream == Ends[Len(sent)]

\* Where a frame starts, its header; elsewhere the bytes may say anything.
HeadsAt(b) ==
  LET starts == {i \in DOMAIN sent : Ends[i - 1] = b} IN
  IF starts = {} THEN Frames ELSE {sent[i] : i \in starts}

\* assert(content_len == 0): not of a request that announces a body
Init == /\ sent \in BoundedSeq(Frames, MaxFrames)
        /\ pc \in {"read", "abort"} /\ base = 0 /\ body_len \in 0 .. Room /\ body_len <= Stream
        /\ head \in HeadsAt(0) /\ told = <<>>

\* header_len > 0: of the shortest form the mask alone is asked for, without the 2
\* bytes before it.
HeaderKnown ==
  /\ body_len >= 2
  /\ body_len >= (IF head.form = 2 THEN MaskLen(head) ELSE HeaderLen(head))

Frame ==
  /\ pc = "read" /\ body_len >= 2 /\ HeaderKnown
  /\ UNCHANGED sent

\* websocket_data gets the payload, of which this much was read, and the loop ends if
\* it says so or the frame closes.
Tell(got) ==
  /\ told' = Append(told, [at |-> base + HeaderLen(head), size |-> head.size, got |-> got,
                           close |-> head.close])
  /\ pc' \in {"done", IF head.close \/ Len(told) + 1 >= MaxTold THEN "done" ELSE "read"}

\* The buffer starts where the next bytes are.
Moves(b) == base' = b /\ head' \in HeadsAt(b)

\* assert(body_len >= header_len)
FrameCut ==
  /\ Frame /\ body_len < HeaderLen(head)
  /\ pc' = "abort" /\ UNCHANGED <<base, body_len, head, told>>

\* All of it is in the buffer, and what follows is moved to the front.
FrameBuffered ==
  /\ Frame /\ body_len >= HeaderLen(head) + head.size
  /\ Tell(head.size)
  /\ Moves(base + HeaderLen(head) + head.size)
  /\ body_len' = body_len - HeaderLen(head) - head.size

\* len of pull_all
Asked(n) == IF n % (2 * IntBound) < IntBound THEN n % (2 * IntBound) ELSE 0

\* pull_all reads the rest, or what has come when the client leaves, the read fails
\* or the length is not one of an int: the payload is given all the same, and the
\* next bytes are taken for a header.
FramePulled ==
  /\ Frame /\ body_len >= HeaderLen(head) /\ body_len < HeaderLen(head) + head.size
  /\ \E n \in 0 .. Asked(HeaderLen(head) + head.size - body_len) :
       /\ base + body_len + n <= Stream
       /\ Tell(body_len - HeaderLen(head) + n)
       /\ Moves(base + body_len + n)
  /\ body_len' = 0

NoMemory ==
  /\ Frame /\ head.size > Mem
  /\ pc' = "done" /\ UNCHANGED <<base, body_len, head, told>>

\* some of what the client has sent, if there is room in the buffer
Pull ==
  /\ pc = "read" /\ body_len < Room /\ base + body_len < Stream
  /\ body_len < 2 \/ ~ HeaderKnown
  /\ \E n \in 1 .. Stream - base - body_len : body_len + n <= Room /\ body_len' = body_len + n
  /\ UNCHANGED <<pc, sent, base, head, told>>

\* The client has left, the read fails, or the buffer is full.
PullNothing ==
  /\ pc = "read" /\ (body_len < 2 \/ ~ HeaderKnown)
  /\ pc' = "done" /\ UNCHANGED <<sent, base, body_len, head, told>>

Next == FrameCut \/ FrameBuffered \/ FramePulled \/ NoMemory \/ Pull \/ PullNothing
Spec == Init /\ [][Next]_vars

-----------------------------------------------------------------------------
(* Properties.                                                             *)

\* as far as payload i
WholeBefore(i) == \A j \in DOMAIN told : j < i => told[j].got = told[j].size

\* websocket_data gets the payloads of the frames, each once and in their order, in
\* whatever pieces they arrived, up to the first that was not read in full; that one
\* still has the place and the size of its frame (mongoose.c:3899-3981).
PayloadsInOrder ==
  \A i \in DOMAIN told : WholeBefore(i) =>
    /\ i <= Len(sent)
    /\ told[i].at = Ends[i - 1] + HeaderLen(sent[i]) /\ told[i].size = sent[i].size

\* Between frames the buffer starts with the next one, unless a read within one
\* before has failed (mongoose.c:3940-3951).
BufferStartsAFrame ==
  pc = "read" /\ WholeBefore(Len(told) + 1) => Len(told) <= Len(sent) /\ base = Ends[Len(told)]

\* What the bytes behind a failed read are taken for comes from further on in the
\* stream: no byte is given twice, and none that the client has not sent
\* (mongoose.c:3938-3951).
NothingTwice ==
  /\ base + body_len <= Stream
  /\ \A i \in DOMAIN told :
       told[i].at + told[i].got <= (IF i = Len(told) THEN base ELSE told[i + 1].at)

\* Nothing is given after a frame that closes, even if it and the next came in one
\* piece (mongoose.c:3960-3971).
NothingAfterClose == \A i \in DOMAIN told : told[i].close => i = Len(told)

=============================================================================
