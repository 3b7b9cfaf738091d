------------------------------ MODULE MgFiles ------------------------------
(***************************************************************************)
(* Files of the mongoose web server: workers that send, store and remove   *)
(* one file at the same time (handle_file_request, put_file, put_dir and   *)
(* mg_stat in server/mongoose.c).  A request looks at the file with stat   *)
(* and opens it by its name later; what it announces is what stat saw.     *)
(*                                                                         *)
(* The file is in a directory that PUT makes when it is not there.  What   *)
(* is in the file is a sequence of marks: a PUT leaves its own.            *)
(***************************************************************************)
EXTENDS Integers, Sequences

CONSTANTS
  Workers,
  Methods,      \* of the requests; "PUT/" is a PUT of the directory
  Ranges,       \* range headers: <<>> for none, <<r1>> and <<r1, r2>>
  Packed,       \* {FALSE}, or BOOLEAN: the file may be a pre-gzipped one
  Original,     \* what is in the file at first; <<>> when there is no directory
  MaxBody,      \* bound: marks a PUT stores
  Late,         \* seconds of January and February of leap years: of these
  Day,          \* parse_date_string makes the same time of the next day
  MaxRequests,  \* bound: requests
  LastTime      \* bound: seconds

FilesAssumption ==
  /\ Methods \subseteq {"GET", "HEAD", "PUT", "PUT/", "DELETE"}
  /\ MaxBody \in Nat /\ MaxRequests \in Nat /\ LastTime \in Nat \ {0, 1}
  /\ Late \subseteq Nat /\ Day \in Nat
  /\ \A r \in Ranges : r \in Seq(Nat) /\ Len(r) <= 2
  /\ Packed \subseteq BOOLEAN /\ Original \in Seq(Nat)

VARIABLES
  now, requests,       \* seconds, and how many requests there have been
  dir,                 \* the directory is there
  name,                \* the file that has the name now, 0 for none
  data, mtime,         \* of each file
  pc, req,             \* of each worker, and what its client asks for
  st,                  \* what stat has seen; an mtime of 0 is no file
  fp,                  \* the file a worker has open, 0 for none
  cl, sent, status,    \* of the response: length announced, marks sent, code
  taken, stored,       \* of a body: marks accepted, and written to the file
  cache,               \* a client's copy of the file, from the last full answer
  excused,             \* the file has been changed since, the client has left, or
                       \* a call has failed
  seen                 \* what was in the file when stat saw it

fileVars == <<dir, name, data, mtime>>
respVars == <<cl, sent, status>>
bodyVars == <<taken, stored>>
ghosts   == <<cache, excused, seen>>
vars == <<now, requests, fileVars, pc, req, st, fp, respVars, bodyVars, ghosts>>

Files == 1 .. MaxRequests + 1

TypeOK ==
  /\ now \in 1 .. LastTime /\ requests \in 0 .. MaxRequests
  /\ name \in 0 .. MaxRequests + 1 /\ (name # 0 => dir)
  /\ \A f \in Files : mtime[f] <= now
  /\ \A w \in Workers :
       /\ fp[w] \in 0 .. MaxRequests + 1 /\ (pc[w] \in {"send", "body"} => fp[w] # 0)
       /\ status[w] \in {0, 200, 201, 206, 304, 404, 500, 501, 577}
       /\ stored[w] <= taken[w] /\ taken[w] <= MaxBody
       /\ Len(sent[w]) <= cl[w] \/ sent[w] = <<>>

Init ==
  /\ now = 2 /\ requests = 0
  /\ dir = (Original # <<>>) /\ name = (IF dir THEN 1 ELSE 0)
  /\ data = [f \in Files |-> IF f = 1 THEN Original ELSE <<>>]
  /\ mtime = [f \in Files |-> 1]
  /\ pc = [w \in Workers |-> "idle"] /\ req = [w \in Workers |-> <<>>]
  /\ st = [w \in Workers |-> [size |-> 0, mtime |-> 0]] /\ fp = [w \in Workers |-> 0]
  /\ cl = [w \in Workers |-> 0] /\ sent = [w \in Workers |-> <<>>]
  /\ status = [w \in Workers |-> 0]
  /\ taken = [w \in Workers |-> 0] /\ stored = [w \in Workers |-> 0]
  /\ cache = <<>> /\ excused = [w \in Workers |-> FALSE]
  /\ seen = [w \in Workers |-> [content |-> <<>>, racy |-> FALSE]]

At(w, here) == pc[w] = here
To(w, there) == pc' = [pc EXCEPT ![w] = there]
Status(w, code) == status' = [status EXCEPT ![w] = code]
Ends(w, code) == To(w, "done") /\ Status(w, code)

\* A change of the file concerns the other requests under way.
Disturbs(w) == excused' = [v \in Workers |-> excused[v] \/ v # w]

-----------------------------------------------------------------------------
(* handle_request                                                          *)

\* convert_uri_to_file_name: first of all, mg_stat of the name, or of the same
\* with ".gz".
Begin(w) ==
  /\ At(w, "idle") /\ To(w, "dispatch")
  /\ requests < MaxRequests /\ requests' = requests + 1
  /\ \E m \in Methods, r \in Ranges, g \in Packed, b \in 1 .. MaxBody,
        c \in {<<>>, cache} :
       /\ m = "PUT" \/ b = 1
       /\ req' = [req EXCEPT ![w] = [method |-> m, range |-> r, gzipped |-> g,
                            body |-> b, cached |-> c, mark |-> requests + 1]]
  /\ st' = [st EXCEPT ![w] = IF name = 0 THEN [size |-> 0, mtime |-> 0]
                             ELSE [size |-> Len(data[name]), mtime |-> mtime[name]]]
  /\ seen' = [seen EXCEPT ![w] = IF name = 0 THEN [content |-> <<>>, racy |-> FALSE]
                ELSE [content |-> data[name], racy |-> mtime[name] = now]]
  /\ excused' = [excused EXCEPT ![w] = FALSE]
  /\ fp' = [fp EXCEPT ![w] = 0]
  /\ cl' = [cl EXCEPT ![w] = 0] /\ sent' = [sent EXCEPT ![w] = <<>>] /\ Status(w, 0)
  /\ taken' = [taken EXCEPT ![w] = 0] /\ stored' = [stored EXCEPT ![w] = 0]
  /\ UNCHANGED <<now, fileVars, cache>>

\* Mutant: an etag of the size alone, and no date.
IsNotModifiedSize(w) ==
  req[w].cached # <<>> /\ st[w].size = req[w].cached.file.size

\* parse_date_string of the Last-Modified that a client gives back
ParsedDate(time) == IF time \in Late THEN time + Day ELSE time

\* The client has a copy of this etag, or from a time not before the file's.
IsNotModified(w) ==
  req[w].cached # <<>> /\ (\/ st[w] = req[w].cached.file
                           \/ st[w].mtime <= ParsedDate(req[w].cached.file.mtime))

\* On to what serves this method and this file.
Dispatch(w) ==
  /\ At(w, "dispatch")
  /\ CASE req[w].method \in {"PUT", "PUT/"} -> To(w, "put") /\ UNCHANGED status
       [] req[w].method = "DELETE" -> To(w, "remove") /\ UNCHANGED status
       [] OTHER -> IF st[w].mtime = 0 THEN Ends(w, 404)
                   ELSE IF IsNotModified(w) THEN Ends(w, 304)
                   ELSE To(w, "open") /\ UNCHANGED status
  /\ UNCHANGED <<now, requests, fileVars, req, st, fp, cl, sent, bodyVars, ghosts>>

\* mg_remove
Remove(w) ==
  /\ At(w, "remove") /\ Ends(w, IF name # 0 THEN 200 ELSE 500)
  /\ name' = 0 /\ IF name # 0 THEN Disturbs(w) ELSE UNCHANGED excused
  /\ UNCHANGED <<now, requests, dir, data, mtime, req, st, fp, cl, sent, bodyVars,
                 cache, seen>>

\* The request is over; a client keeps the whole file that it got.
Done(w) ==
  /\ At(w, "done") /\ To(w, "idle")
  /\ cache' = IF req[w].method = "GET" /\ status[w] = 200 /\ Len(sent[w]) = cl[w]
                THEN [file |-> st[w], content |-> sent[w],
                      racy |-> excused[w] \/ seen[w].racy]
                ELSE cache
  /\ UNCHANGED <<now, requests, fileVars, req, st, fp, respVars, bodyVars, excused, seen>>

-----------------------------------------------------------------------------
(* handle_file_request                                                     *)

IsRange(w) == req[w].range # <<>>
R1(w) == IF IsRange(w) THEN req[w].range[1] ELSE 0

\* cl
ContentLength(w) ==
  LET r == req[w].range  size == st[w].size IN
  CASE Len(r) = 2 -> (IF r[2] > size THEN size ELSE r[2]) - r[1] + 1
    [] Len(r) = 1 -> size - r[1]
    [] OTHER      -> size

\* The file is opened by its name, and the headers sent; CallFails otherwise.
Open(w) ==
  /\ At(w, "open")
  /\ fp' = [fp EXCEPT ![w] = name]
  /\ IF name = 0 THEN Ends(w, 500) /\ UNCHANGED cl
     ELSE IF IsRange(w) /\ req[w].gzipped THEN Ends(w, 501) /\ UNCHANGED cl
     ELSE /\ Status(w, IF IsRange(w) THEN 206 ELSE 200)
          /\ cl' = [cl EXCEPT ![w] = ContentLength(w)]
          /\ To(w, IF req[w].method = "HEAD" THEN "close" ELSE "send")
  /\ UNCHANGED <<now, requests, fileVars, req, st, sent, bodyVars, ghosts>>

\* send_file_data: where the next piece is, from an offset within what stat saw
Next1(w) ==
  (IF R1(w) > st[w].size THEN st[w].size ELSE R1(w)) + Len(sent[w]) + 1

\* A piece is read and sent; or all is, or the file has ended; or the client left,
\* or fread failed.
Send(w) ==
  /\ At(w, "send")
  /\ \/ /\ Len(sent[w]) < cl[w] /\ Next1(w) <= Len(data[fp[w]])
        /\ sent' = [sent EXCEPT ![w] = Append(@, data[fp[w]][Next1(w)])]
        /\ UNCHANGED <<pc, excused>>
     \/ /\ Len(sent[w]) >= cl[w] \/ Next1(w) > Len(data[fp[w]])
        /\ To(w, "close") /\ UNCHANGED <<sent, excused>>
     \/ /\ Len(sent[w]) < cl[w] /\ To(w, "close")
        /\ excused' = [excused EXCEPT ![w] = TRUE] /\ UNCHANGED sent
  /\ UNCHANGED <<now, requests, fileVars, req, st, fp, cl, status, bodyVars, cache, seen>>

-----------------------------------------------------------------------------
(* put_file                                                                *)

IsDir(w) == req[w].method = "PUT/"

\* mg_stat tells whether what is put is new.
Put(w) ==
  /\ At(w, "put") /\ To(w, "put_dir")
  /\ Status(w, IF (IF IsDir(w) THEN dir ELSE name # 0) THEN 200 ELSE 201)
  /\ UNCHANGED <<now, requests, fileVars, req, st, fp, cl, sent, bodyVars, ghosts>>

\* put_dir: mg_stat of the directory, and then mg_mkdir if it is not there; a PUT of
\* the directory is answered then.
AfterDir(w) == IF IsDir(w) THEN "done" ELSE "put_open"

PutDir(w) ==
  /\ At(w, "put_dir") /\ To(w, IF dir THEN AfterDir(w) ELSE "mkdir")
  /\ UNCHANGED <<now, requests, fileVars, req, st, fp, respVars, bodyVars, ghosts>>

MkDir(w) ==
  /\ At(w, "mkdir") /\ dir' = TRUE
  /\ IF dir THEN Ends(w, 500) ELSE To(w, AfterDir(w)) /\ UNCHANGED status
  /\ UNCHANGED <<now, requests, name, data, mtime, req, st, fp, cl, sent, bodyVars, ghosts>>

\* mg_fopen with "wb+": the file is made, or emptied, even for a part of it.
PutOpen(w) ==
  LET f == IF name = 0 THEN req[w].mark + 1 ELSE name IN
  /\ At(w, "put_open") /\ To(w, "body")
  /\ name' = f /\ fp' = [fp EXCEPT ![w] = f]
  /\ data' = [data EXCEPT ![f] = <<>>] /\ mtime' = [mtime EXCEPT ![f] = now]
  /\ IF IsRange(w) THEN Status(w, 206) ELSE UNCHANGED status
  /\ Disturbs(w)
  /\ UNCHANGED <<now, requests, dir, req, st, cl, sent, bodyVars, cache, seen>>

\* forward_body_data takes the body into the buffer of the stream; the answer is
\* sent when all is taken, or the client has left.
Take(w) ==
  /\ At(w, "body")
  /\ \/ /\ taken[w] < req[w].body /\ taken' = [taken EXCEPT ![w] = @ + 1]
        /\ UNCHANGED <<pc, status>>
     \/ taken[w] < req[w].body /\ To(w, "close") /\ Status(w, 577) /\ UNCHANGED taken
     \/ taken[w] = req[w].body /\ To(w, "close") /\ UNCHANGED <<taken, status>>
  /\ UNCHANGED <<now, requests, fileVars, req, st, fp, cl, sent, stored, ghosts>>

\* What is in a file when a mark is put at a place in it.
Put1(s, i, mark) ==
  [j \in 1 .. (IF i > Len(s) THEN i ELSE Len(s)) |->
     IF j = i THEN mark ELSE IF j <= Len(s) THEN s[j] ELSE 0]

\* The stream writes what is in its buffer, at the latest when it is closed.
Write(w) ==
  /\ pc[w] \in {"body", "close"} /\ stored[w] < taken[w]
  /\ stored' = [stored EXCEPT ![w] = @ + 1]
  /\ data' = [data EXCEPT ![fp[w]] = Put1(@, R1(w) + stored[w] + 1, req[w].mark)]
  /\ mtime' = [mtime EXCEPT ![fp[w]] = now] /\ Disturbs(w)
  /\ UNCHANGED <<now, requests, dir, name, pc, req, st, fp, respVars, taken, cache, seen>>

\* The disk is full: what the stream could not write stays in it, until forward_body_data
\* finds out with the next piece, or all is taken, the answer sent and fclose fails.
WriteFails(w) ==
  /\ pc[w] \in {"body", "close"} /\ stored[w] < taken[w]
  /\ stored' = [stored EXCEPT ![w] = taken[w]]
  /\ To(w, "close")
  /\ IF At(w, "body") /\ taken[w] < req[w].body THEN Status(w, 577) ELSE UNCHANGED status
  /\ excused' = [excused EXCEPT ![w] = TRUE]
  /\ UNCHANGED <<now, requests, fileVars, req, st, fp, cl, sent, taken, cache, seen>>

\* mg_fclose
Close(w) ==
  /\ At(w, "close") /\ stored[w] = taken[w] /\ To(w, "done")
  /\ fp' = [fp EXCEPT ![w] = 0]
  /\ UNCHANGED <<now, requests, fileVars, req, st, respVars, bodyVars, ghosts>>

\* fopen, mkdir or remove fails, whatever there is.
CallFails(w) ==
  /\ pc[w] \in {"open", "put_open", "mkdir", "remove"} /\ Ends(w, 500)
  /\ excused' = [excused EXCEPT ![w] = TRUE]
  /\ UNCHANGED <<now, requests, fileVars, req, st, fp, cl, sent, bodyVars, cache, seen>>

Tick ==
  /\ now < LastTime /\ now' = now + 1
  /\ UNCHANGED <<requests, fileVars, pc, req, st, fp, respVars, bodyVars, ghosts>>

Next ==
  \/ \E w \in Workers :
       \/ Begin(w) \/ Dispatch(w) \/ Remove(w) \/ Done(w) \/ Open(w) \/ Send(w)
       \/ Put(w) \/ PutDir(w) \/ MkDir(w) \/ PutOpen(w) \/ Take(w) \/ Write(w) \/ Close(w)
       \/ WriteFails(w) \/ CallFails(w)
  \/ Tick

Spec == Init /\ [][Next]_vars

-----------------------------------------------------------------------------
(* Properties.                                                             *)

Served(w) == At(w, "done") /\ req[w].method = "GET" /\ status[w] \in {200, 206}

\* The range of the request is one of what stat saw.
Satisfiable(w) ==
  LET r == req[w].range  size == st[w].size IN
  CASE Len(r) = 2 -> r[1] <= r[2] /\ r[2] < size
    [] Len(r) = 1 -> r[1] <= size
    [] OTHER      -> TRUE

\* A file that is not changed between stat and the last read is sent as it was
\* announced, if no call fails: as many marks as the header says, from where the
\* range begins (mongoose.c:2856-2919, 2788-2818); and it is opened.
SentAsAnnounced ==
  \A w \in Workers : ~ excused[w] =>
    /\ Served(w) /\ Satisfiable(w) =>
         /\ sent[w] = SubSeq(seen[w].content, R1(w) + 1, R1(w) + cl[w])
         /\ Len(req[w].range) = 2 => cl[w] = req[w].range[2] - R1(w) + 1
    /\ At(w, "done") /\ req[w].method \in {"GET", "HEAD"} => status[w] # 500

\* The file has been changed within a day after the copy, and that day is lost.
InLostDay(w) ==
  LET time == req[w].cached.file.mtime IN
  time \in Late /\ st[w].mtime \in time + 1 .. time + Day

\* 304 tells a client that its copy is what the file holds, if the copy was made
\* in a later second than the file and while nobody wrote it (3055-3063, 4301), and
\* but for a change within a day of a copy from a January or February of a leap
\* year (1895-1898).
NotModifiedIsTrue ==
  \A w \in Workers :
    At(w, "done") /\ status[w] = 304 /\ ~ req[w].cached.racy /\ ~ InLostDay(w) =>
      req[w].cached.content = seen[w].content

\* A PUT that is answered as a success leaves the file with its body, from where
\* its range begins, if nothing else changes the file meanwhile and every write
\* succeeds (3475-3497).
PutIsStored ==
  \A w \in Workers :
    /\ At(w, "done") /\ req[w].method = "PUT" /\ status[w] \in {200, 201, 206}
    /\ ~ excused[w]
    => /\ name # 0
       /\ data[name] = [i \in 1 .. R1(w) + req[w].body |->
                          IF i <= R1(w) THEN 0 ELSE req[w].mark]

\* No request leaves the file open, but one for a range of a gzipped file, which
\* returns without closing it (2884-2887, 2920, 3483, 3497).
FilesAreClosed ==
  \A w \in Workers : At(w, "done") /\ fp[w] # 0 => status[w] = 501

=============================================================================
