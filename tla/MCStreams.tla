----------------------------- MODULE MCStreams -----------------------------
(***************************************************************************)
(* The parts of mongoose that handle what one client sends, or is sent, in *)
(* pieces: MgConnection, MgWebsocket, MgUpload, MgSsi, MgThrottle, MgCgi   *)
(* and MgDispatch, with TLC's values.  They share nothing, so one run      *)
(* checks all: a behaviour is one of the part that "what" names, and the   *)
(* variables of the others are Blank.                                      *)
(***************************************************************************)
EXTENDS Integers, Sequences, SequencesExt

CONSTANTS
  Scripts, Configs, BufSize, ChunkSize,           \* MgConnection's
  Frames, Room, Mem, IntBound, MaxFrames, MaxTold,\* MgWebsocket's
  Bodies, Boundary, UploadBuf, Names,             \* MgUpload's
  Texts, Included, OpenTag, SsiBuf, MaxLevel,     \* MgSsi's
  Specs, Requests, MaxLen,                        \* MgThrottle's
  w1, w2,                                         \* MgCgi's
  Uris, Methods, Settings, Verdicts, Tree, Hidden, Index, PathMax  \* MgDispatch's

VARIABLES
  what,  \* the part of the server that runs
  stop_flag, pc, base, sent, written, method, short,  \* of several parts
  script, avail, enable_keep_alive, pos, data_len, request_len, content_len,
  consumed_content, must_close, unauthorized, asksToClose, announced, requests, got,
  success, torn, strayed,
  body_len, head, told,
  rest, buf, fname, files, count, body, refused, lost,
  text, stack,
  spec, closed, throttle, last_throttle_bytes, current, len, total, allowed, result,
  program, open, locals, child, held, in, out, posted, read, responses, misclosed,
  forkFailed, faults,
  conf, says, uri, asked, path, last, answer

connVars == <<script, avail, enable_keep_alive, pos, data_len, request_len, content_len,
              consumed_content, must_close, unauthorized, asksToClose, announced,
              requests, got, success, torn, strayed>>
wsVars == <<body_len, head, told>>
uploadVars == <<rest, buf, fname, files, count, body, refused, lost>>
ssiVars == <<text, stack>>
writeVars == <<spec, closed, throttle, last_throttle_bytes, current, len, total,
               allowed, result>>
cgiVars == <<program, open, locals, child, held, in, out, posted, read, responses,
             misclosed, forkFailed, faults>>
dispatchVars == <<conf, says, uri, asked, path, last, answer>>
vars == <<what, stop_flag, pc, base, sent, written, method, short, connVars, wsVars,
          uploadVars, ssiVars, writeVars, cgiVars, dispatchVars>>

\* of the parts that do not run
Blank == "-"

NoConn ==
  /\ script = Blank /\ avail = Blank /\ enable_keep_alive = Blank /\ pos = Blank
  /\ data_len = Blank /\ request_len = Blank /\ content_len = Blank
  /\ consumed_content = Blank /\ must_close = Blank /\ unauthorized = Blank
  /\ asksToClose = Blank /\ announced = Blank /\ requests = Blank /\ got = Blank
  /\ success = Blank /\ torn = Blank /\ strayed = Blank
NoWs ==
  /\ body_len = Blank /\ head = Blank /\ told = Blank
NoUpload ==
  /\ rest = Blank /\ buf = Blank /\ fname = Blank /\ files = Blank /\ count = Blank
  /\ body = Blank /\ refused = Blank /\ lost = Blank
NoSsi ==
  /\ text = Blank /\ stack = Blank
NoWrite ==
  /\ spec = Blank /\ closed = Blank /\ throttle = Blank /\ last_throttle_bytes = Blank
  /\ current = Blank /\ len = Blank /\ total = Blank /\ allowed = Blank
  /\ result = Blank
NoCgi ==
  /\ program = Blank /\ open = Blank /\ locals = Blank /\ child = Blank /\ held = Blank
  /\ in = Blank /\ out = Blank /\ posted = Blank /\ read = Blank /\ responses = Blank
  /\ misclosed = Blank /\ forkFailed = Blank /\ faults = Blank
NoDispatch ==
  /\ conf = Blank /\ says = Blank /\ uri = Blank /\ asked = Blank /\ path = Blank
  /\ last = Blank /\ answer = Blank

-----------------------------------------------------------------------------
(* The parts.                                                              *)

Connection == INSTANCE MgConnection
Websocket == INSTANCE MgWebsocket
Upload == INSTANCE MgUpload WITH BufLen <- UploadBuf, Uploads <- {"u1"}
Ssi == INSTANCE MgSsi WITH Open <- OpenTag, BufLen <- SsiBuf, Memory <- {}
Throttle == INSTANCE MgThrottle
\* programs that read what they are told to, and calls that succeed
Cgi == INSTANCE MgCgi WITH
  Workers <- {w1, w2}, Programs <- {"counts"}, BodySize <- 1, OutputSize <- 1,
  PipeSize <- 1, FaultBudget <- 0
Dispatch == INSTANCE MgDispatch

ASSUME PartsAssumption ==
  /\ Connection!ConnectionAssumption /\ Websocket!MgWebsocketAssumption
  /\ Upload!MgUploadAssumption /\ Ssi!MgSsiAssumption /\ Throttle!ThrottleAssumption
  /\ Cgi!CgiAssumption /\ Dispatch!MgDispatchAssumption

-----------------------------------------------------------------------------
(* TLC's values.                                                           *)

\* MgConnection: messages a client sends one after another
Sent(h, b, l, m, f, c) ==
  [head |-> h, body |-> b, length |-> l, method |-> m, form |-> f, close |-> c]
Get     == Sent(1, 0, "absent", "GET", "good", FALSE)
Post    == Sent(1, 2, "given", "POST", "good", FALSE)
LongPut == Sent(2, 3, "given", "POST", "good", FALSE)
NoLen   == Sent(2, 0, "absent", "POST", "good", FALSE)
BadUri  == Sent(2, 1, "given", "GET", "bad_uri", FALSE)
Bad     == Sent(1, 0, "absent", "GET", "bad", FALSE)
Closing == Sent(2, 0, "absent", "GET", "good", TRUE)
TooLong == Sent(5, 0, "absent", "GET", "good", FALSE)
Messages == {Get, Post, LongPut, NoLen, BadUri, Bad, Closing, TooLong}
SomeScripts == {<<a, Post>> : a \in Messages} \union {<<LongPut, b>> : b \in Messages}
               \union {<<Post, LongPut, Get>>}

\* MgWebsocket: lengths of one byte and of three, masked or not; the longest payload
\* is allocated
WsFrame(form, masked, size, close) ==
  [form |-> form, masked |-> masked, size |-> size, close |-> close]
SomeFrames == {WsFrame(2, FALSE, 0, FALSE), WsFrame(2, TRUE, 3, FALSE),
               WsFrame(4, FALSE, 5, FALSE), WsFrame(4, TRUE, 3, FALSE),
               WsFrame(2, TRUE, 0, TRUE)}

\* MgUpload: a header, F, and what may look like the boundary
SomeBodies == {<<"F">> \o s : s \in BoundedSeq({"F", "r", "b", "x"}, 4)
                                     \union BoundedSeq({"r", "b", "x"}, 5)}
              \union {<<"F", "x", "r", "b", "N", "x", "r", "b", "x">>,
                      <<"x", "F", "r", "b", "G", "x", "x", "r", "b", "x">>}
SomeBoundary == <<"r", "b">>

\* MgSsi: tags, halves of tags, and a file that includes itself or another
SomeTexts == BoundedSeq({"<", "!", "1", ">"}, 5) \union BoundedSeq({"<", ">", "x"}, 4)
             \union {<<"x", "<", "!", "1", ">", "x">>, <<"<", "!", "1", ">", "<", "!", "1", ">">>}
SomeIncluded == {<<>>, <<"y">>, <<"y", "<", "!", "1", ">", "y", "<">>, <<"<", "!", "0", ">">>}
SomeOpen == <<"<", "!">>

\* MgThrottle: rules of which the last that matches counts
Rule(matches, number, mult) == [matches |-> matches, number |-> number, mult |-> mult]
Everyone == {"index", "film"}
TwoLimits == {<<Rule(Everyone, 2, ",")>>,
              <<Rule(Everyone, 1, "k"), Rule({"film"}, 1, ",")>>,
              <<Rule({"film"}, 1, "m"), Rule(Everyone, 3, "x"), Rule({"index"}, -1, ",")>>}

\* MgDispatch: /d is a directory, /e one with an index file, /f a hidden file, /c a
\* program; the names come with what may stand before and behind them, and from
\* settings that allow everything one at a time is taken
Slash == 47
Dot == 46
Percent == 37
D == 100
E == 101
SomeTree == [p \in {<<>>, <<Slash, D>>, <<Slash, E>>, <<Slash, E, Slash, 105>>, <<Slash, 102>>, <<Slash, 99>>,
                    <<Slash, D, Slash, 115>>} |->
             CASE p = <<>> -> "dir"
                 [] p = <<Slash, 99>> -> "cgi"
                 [] p[Len(p)] = 115 -> "ssi"
                 [] Len(p) < 3 /\ p # <<Slash, 102>> -> "dir"
                 [] OTHER -> "file"]
Escaped == <<Percent, 50, 102>>
SomeUris ==
  {<<Slash, 102>>, <<Slash, D, Slash, 115>>} \union
  {<<Slash>> \o a \o n \o z :
     a \in {<<>>, <<Dot, Dot, Slash>>},
     n \in {<<>>, <<D>>, <<E>>, <<99>>, <<Percent, 54, 52>>, <<122>>},
     z \in {<<>>, <<Slash>>, <<Slash, Slash>>, Escaped, <<Slash, 120>>}}
Usual == [ssl_redir |-> FALSE, document_root |-> TRUE, put_passwords |-> TRUE, listing |-> TRUE]
Fine  == [authorized |-> TRUE, put_authorized |-> TRUE, callback |-> FALSE, websocket |-> FALSE,
          not_modified |-> FALSE]
SomeSettings == {Usual} \union {[Usual EXCEPT ![o] = ~ @] : o \in DOMAIN Usual}
SomeVerdicts == {Fine} \union {[Fine EXCEPT ![x] = ~ @] : x \in DOMAIN Fine}
SomeHidden == {<<Slash, 102>>}
SomeIndex == <<<<106>>, <<105>>>>

-----------------------------------------------------------------------------
(* A behaviour of one of them.                                             *)

Init ==
  \/ what = "connection" /\ Connection!Init
     /\ short = Blank /\ sent = Blank /\ written = Blank /\ method = Blank
     /\ NoWs /\ NoUpload /\ NoSsi /\ NoWrite /\ NoCgi /\ NoDispatch
  \/ what = "websocket" /\ Websocket!Init
     /\ short = Blank /\ stop_flag = Blank /\ written = Blank /\ method = Blank
     /\ NoConn /\ NoUpload /\ NoSsi /\ NoWrite /\ NoCgi /\ NoDispatch
  \/ what = "upload" /\ Upload!Init
     /\ stop_flag = Blank /\ base = Blank /\ sent = Blank /\ method = Blank
     /\ NoConn /\ NoWs /\ NoSsi /\ NoWrite /\ NoCgi /\ NoDispatch
  \/ what = "ssi" /\ Ssi!Init
     /\ short = Blank /\ stop_flag = Blank /\ pc = Blank /\ base = Blank /\ written = Blank
     /\ method = Blank
     /\ NoConn /\ NoWs /\ NoUpload /\ NoWrite /\ NoCgi /\ NoDispatch
  \/ what = "throttle" /\ Throttle!Init /\ base = Blank /\ written = Blank /\ method = Blank
     /\ NoConn /\ NoWs /\ NoUpload /\ NoSsi /\ NoCgi /\ NoDispatch
  \/ what = "cgi" /\ Cgi!Init
     /\ short = Blank /\ stop_flag = Blank /\ base = Blank /\ sent = Blank
     /\ NoConn /\ NoWs /\ NoUpload /\ NoSsi /\ NoWrite /\ NoDispatch
  \/ what = "dispatch" /\ Dispatch!Init
     /\ short = Blank /\ stop_flag = Blank /\ base = Blank /\ sent = Blank /\ written = Blank
     /\ NoConn /\ NoWs /\ NoUpload /\ NoSsi /\ NoWrite /\ NoCgi

OfConnection == /\ what = "connection"
                /\ UNCHANGED <<what, short, sent, written, method, wsVars, uploadVars,
                          ssiVars, writeVars, cgiVars, dispatchVars>>
OfWebsocket == /\ what = "websocket"
               /\ UNCHANGED <<what, short, stop_flag, written, method, connVars,
                          uploadVars, ssiVars, writeVars, cgiVars, dispatchVars>>
OfUpload == /\ what = "upload"
            /\ UNCHANGED <<what, stop_flag, base, sent, method, connVars, wsVars,
                          ssiVars, writeVars, cgiVars, dispatchVars>>
OfSsi == /\ what = "ssi"
         /\ UNCHANGED <<what, short, stop_flag, pc, base, written, method, connVars,
                          wsVars, uploadVars, writeVars, cgiVars, dispatchVars>>
OfThrottle == /\ what = "throttle"
              /\ UNCHANGED <<what, base, written, method, connVars, wsVars, uploadVars,
                          ssiVars, cgiVars, dispatchVars>>
OfCgi == /\ what = "cgi"
         /\ UNCHANGED <<what, short, stop_flag, base, sent, connVars, wsVars,
                          uploadVars, ssiVars, writeVars, dispatchVars>>
OfDispatch == /\ what = "dispatch"
              /\ UNCHANGED <<what, short, stop_flag, base, sent, written, connVars,
                          wsVars, uploadVars, ssiVars, writeVars, cgiVars>>

Next == \/ OfConnection /\ Connection!Next
        \/ OfWebsocket /\ Websocket!Next
        \/ OfUpload /\ Upload!Next
        \/ OfSsi /\ Ssi!Next
        \/ OfThrottle /\ Throttle!Next
        \/ OfCgi /\ Cgi!Next
        \/ OfDispatch /\ Dispatch!Next

(***************************************************************************)
(* The worker that handles the request is scheduled, time goes on while it *)
(* sleeps, and a CGI program that was sent its input reads it, answers and *)
(* exits.  A behaviour has the steps of one part, so the parts can share a *)
(* condition.                                                              *)
(***************************************************************************)
WorkerSteps ==
  \/ OfConnection /\ Connection!WorkerStep
  \/ OfUpload /\ Upload!Step("u1")
  \/ OfSsi /\ Ssi!Next
  \/ OfThrottle /\ (Throttle!WriteReturns \/ Throttle!WriteMore \/ Throttle!Wake)
  \/ OfCgi /\ Cgi!WorkerStep(w1)
  \/ OfDispatch /\ Dispatch!Next
OtherSteps ==
  \/ OfThrottle /\ pc = "asleep" /\ Throttle!Tick
  \/ OfCgi /\ Cgi!WorkerStep(w2)
Moves(w) == OfCgi /\ (Cgi!ChildReads(w) \/ Cgi!ChildWrites(w))
Exits(w) == OfCgi /\ written[w] = 1 /\ Cgi!ChildExits(w)

Fairness == /\ WF_vars(WorkerSteps) /\ WF_vars(OtherSteps)
            /\ \A w \in {w1, w2} : WF_vars(Moves(w)) /\ WF_vars(Exits(w))

Spec == Init /\ [][Next]_vars /\ Fairness

-----------------------------------------------------------------------------
(* Properties.                                                             *)

(***************************************************************************)
(* However the bytes fall into reads and buffers: the requests are the     *)
(* client's messages and their bodies their own bytes (mongoose.c          *)
(* 1543-1574, 2992-3005, 4764-4793, 4860-4866), as long as no handler left *)
(* a body in the socket; a websocket gives the payloads in order until one *)
(* is not read in full, no byte of them twice even then, and nothing after *)
(* a closing frame (3899-3981); no part of an upload is passed over, if    *)
(* its file opens and no read fails (4104-4180); the client is sent the    *)
(* text with the files in the place of their tags (3504-3545, 3573-3634);  *)
(* a second in which no send fails sees no more than twice the limit       *)
(* (1580-1606); and a directory is sent under a URI that ends with a slash *)
(* although decoding has moved its characters (4223-4268).  The types of   *)
(* MgConnection and MgThrottle are part of it.                             *)
(***************************************************************************)
PiecesMakeTheWhole ==
  CASE what = "connection" -> /\ Connection!TypeOK /\ Connection!RequestsAreMessages
                              /\ Connection!BodyIsContiguous
    [] what = "websocket"  -> /\ Websocket!PayloadsInOrder /\ Websocket!BufferStartsAFrame
                              /\ Websocket!NothingTwice /\ Websocket!NothingAfterClose
    [] what = "upload"     -> Upload!AllPartsCount
    [] what = "ssi"        -> Ssi!TagsAreReplaced /\ Ssi!PlainIsCopied
    [] what = "throttle"   -> Throttle!TypeOK /\ Throttle!RateAtMostDouble
    [] what = "dispatch"   -> Dispatch!LinksResolve
    [] OTHER               -> TRUE

(***************************************************************************)
(* What a step says is true when it says it: the only bodies left in the   *)
(* socket are those a handler did not read (mongoose.c 1543-1574,          *)
(* 3083-3107); a body that was forwarded was forwarded in full, but for a  *)
(* buffered part that could not be stored (3088-3111); "Connection: close" *)
(* closes (917-932, 4853-4858); an upload is counted with its file         *)
(* complete, if no read and no write of it has failed (4150-4177); and a   *)
(* limited write that returns less than it was given has a reason          *)
(* (1585-1606).                                                            *)
(***************************************************************************)
SaidIsDone ==
  [][CASE what = "connection" -> /\ Connection!ReadBodiesDoNotStray
                                 /\ Connection!ForwardedUnlessTorn
                                 /\ Connection!AnnouncedCloseCloses
       [] what = "upload"     -> Upload!FilesAreParts
       [] what = "throttle"   -> Throttle!WritesInFull
       [] OTHER               -> TRUE]_vars

\* the parts that come to an end for good
Over ==
  CASE what = "connection" -> pc = "closed"
    [] what = "upload"     -> pc["u1"] = "done"
    [] what = "ssi"        -> stack = <<>>
    [] what = "dispatch"   -> Dispatch!Cleaned(asked) # asked \/ pc = "answered"
    [] OTHER               -> TRUE

(***************************************************************************)
(* The worker is free again, whatever the client does: a connection ends   *)
(* (mongoose.c 4828-4869), an upload without a boundary ends (4104-4180),  *)
(* files that include each other end (3578-3584), a client that asks for a *)
(* clean URI and follows redirects is answered (4223-4306), a write at its *)
(* limit's pace returns (1593-1605), and so does a request to a program,   *)
(* though other programs were born with the ends of its pipes (1413,       *)
(* 3348-3408).                                                             *)
(***************************************************************************)
WorkersComeBack ==
  /\ <>Over
  /\ []<>(what = "throttle" => pc = "idle")
  /\ \A w \in {w1, w2} : []<>(what = "cgi" => pc[w] = "idle")

=============================================================================
