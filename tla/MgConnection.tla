---------------------------- MODULE MgConnection ----------------------------
(***************************************************************************)
(* One connection of the mongoose web server, from process_new_connection  *)
(* to its end (server/mongoose.c): the requests of a client, one after     *)
(* another, through one buffer that may hold the end of one and the        *)
(* beginning of the next; and the bodies, which handlers read from the     *)
(* buffer and then from the socket, or do not read.                        *)
(*                                                                         *)
(* The client sends the messages of a script, in pieces of any size.  A    *)
(* byte is its position in the stream: the buffer holds the bytes after    *)
(* base, up to base + data_len, and the socket continues after pos.        *)
(***************************************************************************)
EXTENDS Integers, Sequences, FiniteSetsExt

CONSTANTS
  Scripts,      \* sequences of messages a client may send: records of head
                \* (bytes), body (bytes), length ("given", or "absent"),
                \* method, form ("good", "bad_uri" or "bad") and close (the
                \* client asks for it, by header or by version)
  Configs,      \* the values of enable_keep_alive: "yes", "YES" or "no"
  BufSize,      \* MAX_REQUEST_SIZE, 16384
  ChunkSize     \* MG_BUF_LEN, 8192: what forward_body_data pulls at once

\* A client frames a body by its length: without one it sends none.
Messages ==
  {m \in [head : Nat \ {0}, body : Nat, length : {"given", "absent"}, method : STRING,
          form : {"good", "bad_uri", "bad"}, close : BOOLEAN] :
     m.length = "absent" => m.body = 0}

ConnectionAssumption ==
  /\ Scripts \subseteq Seq(Messages)
  /\ BufSize \in Nat \ {0} /\ ChunkSize \in Nat \ {0} /\ Configs \subseteq {"yes", "YES", "no"}

VARIABLES
  script, avail,    \* the messages, and how many bytes of them the client sends
  enable_keep_alive, stop_flag,
  pc, pos, base, data_len, request_len, content_len, consumed_content,
  must_close, unauthorized,  \* the status is 401
  asksToClose,      \* what Connection header and version of the request say
  announced,        \* the Connection header of the response
  requests,         \* where the requests taken from the buffer began
  got, success,     \* the bytes of a body a handler was given, and whether
                    \* forward_body_data or mg_read was content
  torn, strayed     \* a body was not stored in full; a body, or a part of one,
                    \* was left in the socket

clientVars   == <<script, avail, enable_keep_alive, stop_flag>>
bufferVars   == <<base, data_len>>
requestVars  == <<request_len, content_len, asksToClose, requests, strayed>>
bodyVars     == <<got, success, torn, consumed_content>>
responseVars == <<must_close, unauthorized, announced>>
vars == <<clientVars, pc, pos, bufferVars, requestVars, bodyVars, responseVars>>

-----------------------------------------------------------------------------
(* The stream.                                                             *)

Size(m) == m.head + m.body

\* The bytes before the k-th message
Offset(messages, k) ==
  LET before[i \in 0 .. Len(messages)] ==
        IF i = 0 THEN 0 ELSE before[i - 1] + Size(messages[i])
  IN  before[k - 1]
Start(k) == Offset(script, k)
Total == Start(Len(script) + 1)

\* The message that begins at base, if one does
AtBase  == {k \in 1 .. Len(script) : Start(k) = base}
Aligned == AtBase # {}
Message == script[CHOOSE k \in AtBase : TRUE]

\* get_request_len: up to the first blank line of the buffer, if there is one
RequestLen ==
  LET ends == {Start(k) + script[k].head - base : k \in 1 .. Len(script)}
      here == {n \in ends : 0 < n /\ n <= data_len}
  IN  IF here = {} THEN 0 ELSE Min(here)

TypeOK ==
  /\ script \in Scripts /\ avail \in 0 .. Total /\ stop_flag \in BOOLEAN
  /\ enable_keep_alive \in Configs
  /\ pc \in {"read", "handle", "forward", "returned", "closed"}
  /\ pos \in 0 .. avail /\ base \in 0 .. pos
  /\ data_len \in 0 .. BufSize /\ base + data_len <= pos
  /\ request_len \in -1 .. data_len
  /\ content_len \in -1 .. Total
  /\ consumed_content \in Nat /\ (content_len >= 0 => consumed_content <= content_len)
  /\ must_close \in BOOLEAN /\ unauthorized \in BOOLEAN /\ asksToClose \in BOOLEAN
  /\ announced \in {"nothing", "keep-alive", "close"}
  /\ requests \in Seq(0 .. Total) /\ got \in Seq(1 .. Total)
  /\ success \in {"none", "yes", "no"} /\ torn \in BOOLEAN /\ strayed \in BOOLEAN

Init ==
  /\ script \in Scripts /\ avail \in 0 .. Total
  /\ enable_keep_alive \in Configs /\ stop_flag = FALSE
  /\ pc = "read" /\ pos = 0 /\ base = 0 /\ data_len = 0
  /\ request_len = 0 /\ content_len = 0 /\ consumed_content = 0
  /\ must_close = FALSE /\ unauthorized = FALSE /\ announced = "nothing"
  /\ asksToClose = FALSE /\ requests = <<>> /\ got = <<>> /\ success = "none"
  /\ torn = FALSE /\ strayed = FALSE

-----------------------------------------------------------------------------
(* should_keep_alive, of the request whose headers are in the buffer        *)

ShouldKeepAlive(close, denied, closing) ==
  ~ closing /\ ~ denied /\ enable_keep_alive # "no" /\ ~ close

Suggested(close, denied, closing) ==
  IF ShouldKeepAlive(close, denied, closing) THEN "keep-alive" ELSE "close"

\* send_http_error, with the status of an error that is not 401
SendError(close) ==
  announced' = Suggested(close, FALSE, must_close) /\ UNCHANGED unauthorized

-----------------------------------------------------------------------------
(* getreq                                                                  *)

\* recv returns some of what the client sent.
ReadRequest ==
  /\ pc = "read" /\ RequestLen = 0 /\ data_len < BufSize /\ ~ stop_flag
  /\ \E n \in 1 .. Min({BufSize - data_len, avail - pos}) :
       pos' = pos + n /\ data_len' = data_len + n
  /\ UNCHANGED <<clientVars, pc, base, requestVars, bodyVars, responseVars>>

\* "Server Error": request_info is still of the request before, if of any.
GetreqFails ==
  /\ pc' = "returned" /\ must_close' = TRUE
  /\ \E close \in BOOLEAN : SendError(close)
  /\ UNCHANGED <<clientVars, pos, bufferVars, content_len, asksToClose, requests,
                 strayed, bodyVars>>

\* The client has closed its end, recv failed or timed out, or the server stops.
NoRequest == /\ pc = "read" /\ RequestLen = 0 /\ data_len < BufSize
             /\ request_len' = -1 /\ GetreqFails

RequestTooLarge == /\ pc = "read" /\ RequestLen = 0 /\ data_len = BufSize
                   /\ request_len' = 0 /\ GetreqFails

\* parse_http_message fails: of a bad message, or of bytes that are none.
BadRequest ==
  /\ pc = "read" /\ RequestLen > 0 /\ (Aligned => Message.form = "bad")
  /\ request_len' = RequestLen /\ GetreqFails

ContentLen(m) == IF m.length = "given" THEN m.body
                 ELSE IF m.method = "POST" THEN -1 ELSE 0

\* A request is valid, and goes to its handler or is refused for its URI.
ValidRequest ==
  /\ pc = "read" /\ RequestLen > 0 /\ (Aligned => Message.form # "bad")
  /\ request_len' = RequestLen /\ requests' = Append(requests, base)
  /\ IF Aligned THEN content_len' = ContentLen(Message) /\ asksToClose' = Message.close
                ELSE /\ content_len' \in -1 .. Total - base - RequestLen
                     /\ asksToClose' \in BOOLEAN
  /\ \/ /\ Aligned => Message.form = "good"
        /\ pc' = "handle" /\ UNCHANGED responseVars
     \/ /\ Aligned => Message.form = "bad_uri"
        /\ pc' = "returned" /\ SendError(asksToClose') /\ UNCHANGED must_close
  /\ UNCHANGED <<clientVars, pos, bufferVars, strayed, bodyVars>>

-----------------------------------------------------------------------------
(* The bodies.                                                             *)

Left     == content_len - consumed_content
Body     == base + request_len
Buffered == base + data_len - (Body + consumed_content)
Bytes(from, n) == [i \in 1 .. n |-> from + i]

\* mg_read: buffered data, and then data from the socket until len is reached,
\* the stream ends, or an error, which is returned in place of the count.
MgRead ==
  /\ pc = "handle" /\ success # "no"
  /\ \E len \in 1 .. Left :
     LET buffered == Max({0, Min({len, Buffered})}) IN
     \E n \in 0 .. Min({len - buffered, avail - pos}) : \E error \in BOOLEAN :
       /\ n = len - buffered => ~ error
       /\ (stop_flag /\ n < len - buffered) => n = 0 /\ error
       /\ (~ error /\ n < len - buffered) => pos + n = avail
       /\ got' = got \o IF error THEN <<>>
                        ELSE Bytes(Body + consumed_content, buffered) \o Bytes(pos, n)
       /\ pos' = pos + n
       /\ consumed_content' = consumed_content + buffered + n
       /\ success' = IF error \/ n < len - buffered THEN "no" ELSE "yes"
  /\ UNCHANGED <<clientVars, pc, bufferVars, requestVars, torn, responseVars>>

\* forward_body_data: the length is given and there is no odd Expect header.
\* What is buffered goes to the file; whether it all went is not looked at.
ForwardBuffered ==
  /\ pc = "handle" /\ success = "none" /\ content_len >= 0
  /\ LET n == Min({Max({0, Buffered}), content_len}) IN
     \E k \in 0 .. n : /\ got' = Bytes(Body, k) /\ torn' = (k < n)
                       /\ consumed_content' = n
  /\ pc' = "forward"
  /\ UNCHANGED <<clientVars, pos, bufferVars, requestVars, success, responseVars>>

\* 411 or 417
ForwardRefused ==
  /\ pc = "handle" /\ success = "none" /\ pc' = "returned" /\ SendError(asksToClose)
  /\ UNCHANGED <<clientVars, pos, bufferVars, requestVars, bodyVars, must_close>>

\* Mutant: a piece that could not be stored counts.
ForwardPieceUnchecked ==
  /\ pc = "forward" /\ ~ stop_flag
  /\ \E n \in 1 .. Min({ChunkSize, Left, avail - pos}) : \E k \in {0, n} :
       /\ pos' = pos + n /\ consumed_content' = consumed_content + n
       /\ got' = got \o Bytes(pos, k)
  /\ UNCHANGED <<clientVars, pc, bufferVars, requestVars, success, torn, responseVars>>

\* A piece from the socket goes to the file.
ForwardPiece ==
  /\ pc = "forward" /\ ~ stop_flag
  /\ \E n \in 1 .. Min({ChunkSize, Left, avail - pos}) :
       /\ pos' = pos + n /\ consumed_content' = consumed_content + n
       /\ got' = got \o Bytes(pos, n)
  /\ UNCHANGED <<clientVars, pc, bufferVars, requestVars, success, torn, responseVars>>

\* A piece does not come, or cannot be stored: 577.
ForwardFails ==
  /\ pc = "forward" /\ Left > 0
  /\ \E n \in 0 .. Min({ChunkSize, Left, avail - pos}) : pos' = pos + n
  /\ success' = "no" /\ pc' = "returned" /\ SendError(asksToClose)
  /\ UNCHANGED <<clientVars, bufferVars, requestVars, got, torn, consumed_content,
                 must_close>>

ForwardDone ==
  /\ pc = "forward" /\ Left = 0 /\ success' = "yes" /\ pc' = "handle"
  /\ UNCHANGED <<clientVars, pos, bufferVars, requestVars, got, torn,
                 consumed_content, responseVars>>

\* A handler answers and returns, whether it has read the body or not: with a
\* 401, with a response that is ended by closing, or with one that says how the
\* connection goes on.
HandlerReturns ==
  /\ pc = "handle" /\ pc' = "returned"
  /\ \E denied, closes \in BOOLEAN :
       /\ unauthorized' = denied /\ must_close' = closes
       /\ announced' = IF denied THEN "nothing" ELSE Suggested(asksToClose, denied, closes)
  /\ UNCHANGED <<clientVars, pos, bufferVars, requestVars, bodyVars>>

-----------------------------------------------------------------------------
(* The end of process_new_connection's loop.                               *)

\* Mutant: the bytes of the request, without those of its body
DiscardLenHead ==
  IF content_len >= 0 /\ request_len > 0 /\ request_len + content_len < data_len
    THEN request_len ELSE data_len

DiscardLen ==
  IF content_len >= 0 /\ request_len > 0 /\ request_len + content_len < data_len
    THEN request_len + content_len ELSE data_len

KeepAlive ==
  /\ ~ stop_flag /\ enable_keep_alive = "yes" /\ content_len >= 0
  /\ ShouldKeepAlive(asksToClose, unauthorized, must_close)

\* reset_per_request_attributes
ResetAttributes ==
  /\ request_len' = 0 /\ consumed_content' = 0
  /\ must_close' = FALSE /\ unauthorized' = FALSE /\ announced' = "nothing"
  /\ got' = <<>> /\ success' = "none" /\ torn' = FALSE

\* close_connection
CloseConnection ==
  /\ must_close' = TRUE /\ request_len' = -1
  /\ UNCHANGED <<bodyVars, unauthorized, announced, strayed>>

\* The data of this request is discarded, and the next is read; or the
\* connection is closed.
NextRequest ==
  /\ pc = "returned"
  /\ data_len' = data_len - DiscardLen
  /\ base' = IF DiscardLen = data_len THEN pos ELSE base + DiscardLen
  /\ \/ /\ KeepAlive /\ ResetAttributes /\ pc' = "read"
        /\ strayed' = (strayed \/ pos < Body + content_len)
     \/ ~ KeepAlive /\ CloseConnection /\ pc' = "closed"
  /\ UNCHANGED <<clientVars, pos, content_len, asksToClose, requests>>

\* mg_stop, in another thread
Stop ==
  /\ ~ stop_flag /\ stop_flag' = TRUE
  /\ UNCHANGED <<script, avail, enable_keep_alive, pc, pos, bufferVars, requestVars,
                 bodyVars, responseVars>>

WorkerStep ==
  \/ ReadRequest \/ NoRequest \/ RequestTooLarge \/ BadRequest \/ ValidRequest
  \/ MgRead \/ ForwardBuffered \/ ForwardRefused \/ ForwardPiece \/ ForwardFails
  \/ ForwardDone \/ HandlerReturns \/ NextRequest

Next == WorkerStep \/ Stop

Spec == Init /\ [][Next]_vars

-----------------------------------------------------------------------------
(* Properties.                                                             *)

\* Every request the server takes from its buffer is one of the client's
\* messages, in the order they were sent and none twice, whatever pieces they
\* came in, however much of the next one was read ahead and whatever the
\* handlers did with the bodies (mongoose.c:2992-3005, 4764-4793, 4860-4866), as
\* long as none of a body was left in the socket.
RequestsAreMessages ==
  strayed \/ \A i \in 1 .. Len(requests) : i <= Len(script) /\ requests[i] = Start(i)

\* The only way to leave some of a body in the socket is a handler that does not
\* read it all (mongoose.c:1543-1574, 3083-3107): what is counted as consumed
\* did come from the socket or the buffer.
ReadBodiesDoNotStray ==
  strayed' # strayed => consumed_content < content_len

\* A handler is given the bytes of its request's body, from the first on, none
\* twice and none of the next request, across the border between buffer and
\* socket (mongoose.c:1556-1571, 3083-3107), unless the buffered part could not
\* be stored.
BodyIsContiguous ==
  (pc \in {"handle", "forward", "returned"} /\ ~ torn) =>
    Len(got) <= Max({0, content_len}) /\ got = Bytes(Body, Len(got))

\* When forward_body_data succeeds, the file or the program has the whole body
\* (mongoose.c:3088-3111), but for a buffered part that could not be stored.
ForwardedUnlessTorn == ForwardDone /\ ~ torn => got = Bytes(Body, content_len)

\* A client that was told "Connection: close" finds the connection closed: the
\* test that chose the header and the one that ends the loop, which the code
\* makes at different times, agree (mongoose.c:917-932, 4853-4858).
AnnouncedCloseCloses ==
  pc = "returned" /\ announced = "close" => pc' # "read"

=============================================================================
