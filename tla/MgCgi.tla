------------------------------- MODULE MgCgi -------------------------------
(***************************************************************************)
(* CGI programs of the mongoose web server (handle_cgi_request and         *)
(* spawn_process in server/mongoose.c): each worker runs one program at a  *)
(* time, with a pipe to its standard input and one from its output.        *)
(*                                                                         *)
(* A pipe lasts as long as a process has one of its ends open, and a child *)
(* is born with every end its parent has open at that moment, its own and  *)
(* those of the other workers: no one marks them close-on-exec.            *)
(***************************************************************************)
EXTENDS Integers, FiniteSets

CONSTANTS
  Workers,
  Programs,     \* what the programs do: "counts" reads as much as the request
                \* says and then answers, "to_eof" reads to the end and then
                \* answers, "filter" answers to every piece as it reads
  BodySize, OutputSize,  \* in pieces; the header is the first of the output
  PipeSize,     \* pieces a pipe holds
  FaultBudget   \* bound: calls of pipe, fork and fdopen that fail

CgiAssumption ==
  /\ BodySize \in Nat /\ OutputSize \in Nat /\ PipeSize \in Nat \ {0}
  /\ FaultBudget \in Nat
  /\ Programs \subseteq {"counts", "to_eof", "filter"}

VARIABLES
  pc,           \* of each worker
  method, program,
  open,         \* the ends the server has open
  locals,       \* ends of its own that the variables of a worker name
  child, held,  \* the program of each worker, and the ends it has open
  in, out,      \* pieces in the pipes
  posted, read, written,  \* pieces the server has sent, the child read and wrote
  responses,    \* status lines sent for the request
  misclosed, forkFailed, faults

procVars == <<child, held>>
fdVars   == <<open, locals, misclosed>>
dataVars == <<in, out, posted, read, written>>
reqVars  == <<method, program, responses, forkFailed>>
vars == <<pc, procVars, fdVars, dataVars, reqVars, faults>>

Ends == {"in_r", "in_w", "out_r", "out_w"}
EndsOf(w) == {w} \X Ends

TypeOK ==
  /\ pc \in [Workers -> {"idle", "pipe_in", "pipe_out", "fork", "forked", "failed",
                         "streams", "post", "close", "headers", "output", "done"}]
  /\ method \in [Workers -> {"GET", "POST"}] /\ program \in [Workers -> Programs]
  /\ open \subseteq Workers \X Ends /\ locals \in [Workers -> SUBSET Ends]
  /\ child \in [Workers -> {"none", "running", "gone"}]
  /\ held \in [Workers -> SUBSET (Workers \X Ends)]
  /\ in \in [Workers -> 0 .. PipeSize] /\ out \in [Workers -> 0 .. PipeSize]
  /\ posted \in [Workers -> 0 .. BodySize] /\ read \in [Workers -> 0 .. BodySize]
  /\ written \in [Workers -> 0 .. OutputSize] /\ responses \in [Workers -> 0 .. 2]
  /\ misclosed \in BOOLEAN /\ forkFailed \in [Workers -> BOOLEAN]
  /\ faults \in 0 .. FaultBudget
  /\ \A w \in Workers : read[w] + in[w] = posted[w] \/ child[w] # "running"

Init ==
  /\ pc = [w \in Workers |-> "idle"]
  /\ method = [w \in Workers |-> "GET"] /\ program \in [Workers -> Programs]
  /\ open = {} /\ locals = [w \in Workers |-> {}]
  /\ child = [w \in Workers |-> "none"] /\ held = [w \in Workers |-> {}]
  /\ in = [w \in Workers |-> 0] /\ out = [w \in Workers |-> 0]
  /\ posted = [w \in Workers |-> 0] /\ read = [w \in Workers |-> 0]
  /\ written = [w \in Workers |-> 0] /\ responses = [w \in Workers |-> 0]
  /\ misclosed = FALSE /\ forkFailed = [w \in Workers |-> FALSE] /\ faults = 0

Goes(w, from, to) == pc[w] = from /\ pc' = [pc EXCEPT ![w] = to]
Fault == faults < FaultBudget /\ faults' = faults + 1
Answer(w) == responses' = [responses EXCEPT ![w] = @ + 1]

\* close, of ends a worker's variables name
Close(w, ends) ==
  /\ open' = open \ ({w} \X ends)
  /\ misclosed' = (misclosed \/ ~ ({w} \X ends \subseteq open))

\* Some process could still write to the pipe, or read from it.
Exists(end) == end \in open \/ \E c \in Workers : child[c] = "running" /\ end \in held[c]

-----------------------------------------------------------------------------
(* handle_cgi_request                                                      *)

Begin(w) ==
  /\ Goes(w, "idle", "pipe_in")
  /\ \E m \in {"GET", "POST"} : method' = [method EXCEPT ![w] = m]
  /\ \E p \in Programs : program' = [program EXCEPT ![w] = p]
  /\ responses' = [responses EXCEPT ![w] = 0]
  /\ forkFailed' = [forkFailed EXCEPT ![w] = FALSE]
  /\ child' = [child EXCEPT ![w] = "none"]
  /\ in' = [in EXCEPT ![w] = 0] /\ out' = [out EXCEPT ![w] = 0]
  /\ posted' = [posted EXCEPT ![w] = 0] /\ read' = [read EXCEPT ![w] = 0]
  /\ written' = [written EXCEPT ![w] = 0]
  /\ UNCHANGED <<held, fdVars, faults>>

\* A call fails: an error is sent, and what there is is cleaned up.
Fails(w, from) ==
  /\ Goes(w, from, "done") /\ Fault /\ Answer(w)
  /\ UNCHANGED <<procVars, fdVars, dataVars, method, program, forkFailed>>

Pipe(w, from, ends, to) ==
  \/ /\ Goes(w, from, to)
     /\ open' = open \cup ({w} \X ends)
     /\ locals' = [locals EXCEPT ![w] = @ \cup ends]
     /\ UNCHANGED <<procVars, misclosed, dataVars, reqVars, faults>>
  \/ Fails(w, from)

PipeIn(w)  == Pipe(w, "pipe_in", {"in_r", "in_w"}, "pipe_out")
PipeOut(w) == Pipe(w, "pipe_out", {"out_r", "out_w"}, "fork")

\* fork: the child keeps every end but two, which become its input and output.
Fork(w) ==
  \/ /\ Goes(w, "fork", "forked")
     /\ child' = [child EXCEPT ![w] = "running"]
     /\ held' = [held EXCEPT ![w] = open]
     /\ UNCHANGED <<fdVars, dataVars, reqVars, faults>>
  \/ /\ Goes(w, "fork", "failed") /\ Fault /\ Answer(w)
     /\ forkFailed' = [forkFailed EXCEPT ![w] = TRUE]
     /\ UNCHANGED <<procVars, fdVars, dataVars, method, program>>

\* Mutant: the child's ends stay open in the server.
SpawnedKeepsEnds(w) ==
  /\ pc[w] \in {"forked", "failed"}
  /\ locals' = [locals EXCEPT ![w] = @ \ {"in_r", "out_w"}]
  /\ IF pc[w] = "forked"
       THEN pc' = [pc EXCEPT ![w] = "streams"] /\ UNCHANGED responses
       ELSE pc' = [pc EXCEPT ![w] = "done"] /\ Answer(w)
  /\ UNCHANGED <<procVars, open, misclosed, dataVars, method, program, forkFailed, faults>>

\* Mutant: the variables still name the ends that were closed.
SpawnedForgetsToMark(w) ==
  /\ pc[w] \in {"forked", "failed"}
  /\ Close(w, {"in_r", "out_w"}) /\ UNCHANGED locals
  /\ IF pc[w] = "forked"
       THEN pc' = [pc EXCEPT ![w] = "streams"] /\ UNCHANGED responses
       ELSE pc' = [pc EXCEPT ![w] = "done"] /\ Answer(w)
  /\ UNCHANGED <<procVars, dataVars, method, program, forkFailed, faults>>

\* spawn_process returns: the child's ends are closed in the server.  If there
\* is no child, another error is sent.
Spawned(w) ==
  /\ pc[w] \in {"forked", "failed"}
  /\ Close(w, {"in_r", "out_w"})
  /\ locals' = [locals EXCEPT ![w] = @ \ {"in_r", "out_w"}]
  /\ IF pc[w] = "forked"
       THEN pc' = [pc EXCEPT ![w] = "streams"] /\ UNCHANGED responses
       ELSE pc' = [pc EXCEPT ![w] = "done"] /\ Answer(w)
  /\ UNCHANGED <<procVars, dataVars, method, program, forkFailed, faults>>

\* fdopen, twice
Streams(w) ==
  \/ /\ Goes(w, "streams", IF method[w] = "POST" THEN "post" ELSE "close")
     /\ UNCHANGED <<procVars, fdVars, dataVars, reqVars, faults>>
  \/ Fails(w, "streams")

\* forward_body_data: a piece is written when there is room in the pipe.
Post(w) ==
  /\ pc[w] = "post" /\ posted[w] < BodySize /\ in[w] < PipeSize
  /\ child[w] = "running" \/ Exists(<<w, "in_r">>)
  /\ in' = [in EXCEPT ![w] = @ + 1] /\ posted' = [posted EXCEPT ![w] = @ + 1]
  /\ UNCHANGED <<pc, procVars, fdVars, out, read, written, reqVars, faults>>

\* All of it is sent; or it had come with the request, and that part is written
\* without looking whether somebody reads it.
Posted(w) ==
  /\ posted[w] = BodySize \/ ~ Exists(<<w, "in_r">>)
  /\ Goes(w, "post", "close")
  /\ UNCHANGED <<procVars, fdVars, dataVars, reqVars, faults>>

\* Nobody reads any more, or the client does not send its body: 577.
PostFails(w) ==
  /\ posted[w] < BodySize /\ (~ Exists(<<w, "in_r">>) \/ in[w] < PipeSize)
  /\ Goes(w, "post", "done") /\ Answer(w)
  /\ UNCHANGED <<procVars, fdVars, dataVars, method, program, forkFailed, faults>>

\* fclose(in), so the child gets an end of file
CloseIn(w) ==
  /\ Goes(w, "close", "headers") /\ Close(w, {"in_w"})
  /\ locals' = [locals EXCEPT ![w] = @ \ {"in_w"}]
  /\ UNCHANGED <<procVars, dataVars, reqVars, faults>>

\* read_request, from the program; and the status line and its headers
Headers(w) ==
  \/ /\ out[w] > 0 /\ Goes(w, "headers", "output") /\ Answer(w)
     /\ out' = [out EXCEPT ![w] = @ - 1]
     /\ UNCHANGED <<procVars, fdVars, in, posted, read, written, method, program,
                    forkFailed, faults>>
  \/ /\ out[w] = 0 /\ ~ Exists(<<w, "out_w">>)
     /\ Goes(w, "headers", "done") /\ Answer(w)
     /\ UNCHANGED <<procVars, fdVars, dataVars, method, program, forkFailed, faults>>

\* send_file_data, until the program's end of file, or the client is gone
Output(w) ==
  \/ /\ pc[w] = "output" /\ out[w] > 0 /\ out' = [out EXCEPT ![w] = @ - 1]
     /\ pc' = pc \/ pc' = [pc EXCEPT ![w] = "done"]
     /\ UNCHANGED <<procVars, fdVars, in, posted, read, written, reqVars, faults>>
  \/ /\ out[w] = 0 /\ ~ Exists(<<w, "out_w">>) /\ Goes(w, "output", "done")
     /\ UNCHANGED <<procVars, fdVars, dataVars, reqVars, faults>>

\* The program is killed, and every end that is still named closed.
Done(w) ==
  /\ Goes(w, "done", "idle")
  /\ child' = [child EXCEPT ![w] = IF @ = "running" THEN "gone" ELSE @]
  /\ held' = [held EXCEPT ![w] = {}]
  /\ Close(w, locals[w]) /\ locals' = [locals EXCEPT ![w] = {}]
  /\ UNCHANGED <<dataVars, reqVars, faults>>

WorkerStep(w) ==
  \/ PipeIn(w) \/ PipeOut(w) \/ Fork(w) \/ Spawned(w) \/ Streams(w)
  \/ Post(w) \/ Posted(w) \/ PostFails(w) \/ CloseIn(w) \/ Headers(w) \/ Output(w)
  \/ Done(w)

-----------------------------------------------------------------------------
(* The programs.                                                           *)

Expected(w) == IF method[w] = "POST" THEN BodySize ELSE 0

ChildReads(w) ==
  /\ child[w] = "running" /\ in[w] > 0
  /\ program[w] = "filter" => written[w] > read[w] \/ written[w] = OutputSize
  /\ in' = [in EXCEPT ![w] = @ - 1] /\ read' = [read EXCEPT ![w] = @ + 1]
  /\ UNCHANGED <<pc, procVars, fdVars, out, posted, written, reqVars, faults>>

HasRead(w) ==
  CASE program[w] = "counts" -> read[w] = Expected(w)
    [] program[w] = "to_eof" -> in[w] = 0 /\ ~ Exists(<<w, "in_w">>)
    [] program[w] = "filter" -> written[w] <= read[w] \/ read[w] = Expected(w)

ChildWrites(w) ==
  /\ child[w] = "running" /\ HasRead(w) /\ written[w] < OutputSize /\ out[w] < PipeSize
  /\ out' = [out EXCEPT ![w] = @ + 1] /\ written' = [written EXCEPT ![w] = @ + 1]
  /\ UNCHANGED <<pc, procVars, fdVars, in, posted, read, reqVars, faults>>

\* It is done, it fails, or nobody reads what it writes.
ChildExits(w) ==
  /\ child[w] = "running"
  /\ child' = [child EXCEPT ![w] = "gone"] /\ held' = [held EXCEPT ![w] = {}]
  /\ UNCHANGED <<pc, fdVars, dataVars, reqVars, faults>>

ChildStep(w) == ChildReads(w) \/ ChildWrites(w) \/ ChildExits(w)

Next == \E w \in Workers : Begin(w) \/ WorkerStep(w) \/ ChildStep(w)

Spec == Init /\ [][Next]_vars

-----------------------------------------------------------------------------
(* Properties.                                                             *)

\* A request leaves nothing behind, whichever of its calls failed: no end of its
\* pipes is open in the server, none was closed that was not open (another
\* thread may have been given its number by then), and no program runs on
\* (mongoose.c:1448-1450, 3325-3329, 3410-3431).
NothingLeftBehind ==
  /\ ~ misclosed
  /\ \A w \in Workers : pc[w] = "idle" =>
       open \cap EndsOf(w) = {} /\ child[w] # "running"

\* A request is answered with one status line, whatever failed (mongoose.c:3317-
\* 3408); only a failing fork is reported twice, by spawn_process and its caller.
OneResponse ==
  \A w \in Workers : pc[w] = "done" => responses[w] = IF forkFailed[w] THEN 2 ELSE 1

=============================================================================
