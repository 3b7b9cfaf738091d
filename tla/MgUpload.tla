------------------------------ MODULE MgUpload ------------------------------
(***************************************************************************)
(* mg_upload (server/mongoose.c): the parts of a multipart body are        *)
(* written into files, through one buffer that slides over the body.       *)
(* A header is one character, "N" without a file name; a boundary, with    *)
(* the \r\n-- before it, is the sequence Boundary.  A read may fail when it *)
(* has taken a part of the body, and a write may fail: the code looks at   *)
(* neither, beyond that a read has given nothing.                          *)
(***************************************************************************)
EXTENDS Integers, Sequences

CONSTANTS
  Bodies,    \* what clients send
  Boundary,  \* \r\n--<boundary>
  BufLen,    \* MG_BUF_LEN
  Names,     \* headers with a file name, which is the header
  Uploads    \* threads in mg_upload

MgUploadAssumption ==
  /\ Bodies \subseteq Seq(STRING) /\ Boundary \in Seq(STRING)
  /\ BufLen \in Nat /\ BufLen > Len(Boundary)

VARIABLES pc,       \* of each: "headers", "open", "scan", "read", "done"
          rest,     \* of the body: what mg_read has yet to give
          buf,      \* the first len characters of the buffer
          fname,
          files,    \* of the server: file names to contents
          written,  \* by each thread to its file: where it stands in it
          count,    \* num_uploaded_files
          body,     \* what the client has sent
          refused,  \* its file could not be opened
          lost,     \* a read has failed; what it had taken is lost
          short     \* a file lacks what could not be written
ghosts == <<body, refused, lost, short>>
vars == <<pc, rest, buf, fname, files, written, count, ghosts>>

bl == Len(Boundary)
Headers == Names \union {"N"}

Init == /\ body \in [Uploads -> Bodies] /\ rest = body
        /\ pc = [u \in Uploads |-> "headers"]
        /\ buf = [u \in Uploads |-> <<>>] /\ fname = [u \in Uploads |-> ""]
        /\ files = [n \in Names |-> <<>>] /\ written = [u \in Uploads |-> 0]
        /\ count = [u \in Uploads |-> 0] /\ refused = [u \in Uploads |-> FALSE]
        /\ lost = [u \in Uploads |-> FALSE] /\ short = [u \in Uploads |-> FALSE]

\* mg_read: n more characters
Read(u, n) ==
  /\ buf' = [buf EXCEPT ![u] = @ \o SubSeq(rest[u], 1, n)]
  /\ rest' = [rest EXCEPT ![u] = SubSeq(@, n + 1, Len(@))]

Smaller(a, b) == IF a < b THEN a ELSE b

\* mg_read returns -1 although pull_all has taken some of what there is room for.
ReadLoses(u) ==
  /\ Len(buf[u]) < BufLen /\ rest[u] # <<>>
  /\ \E k \in 0 .. Smaller(BufLen - Len(buf[u]), Len(rest[u])) :
       rest' = [rest EXCEPT ![u] = SubSeq(@, k + 1, Len(@))]
  /\ lost' = [lost EXCEPT ![u] = TRUE]
  /\ UNCHANGED buf

\* at the place where this thread's stream stands
Writes(u, data) ==
  LET f == files[fname[u]]  at == written[u]
      over(i) == IF i > at /\ i <= at + Len(data) THEN data[i - at]
                 ELSE IF i \in DOMAIN f THEN f[i] ELSE "0" IN
  /\ files' = [files EXCEPT ![fname[u]] =
                 [i \in 1 .. (IF data # <<>> /\ at + Len(data) > Len(f) THEN at + Len(data) ELSE Len(f)) |-> over(i)]]
  /\ written' = [written EXCEPT ![u] = at + Len(data)]

\* fwrite, of which some may not get to the file, at the latest in fclose
Fwrite(u, data) ==
  \E k \in 0 .. Len(data) :
    /\ Writes(u, SubSeq(data, 1, k))
    /\ short' = [short EXCEPT ![u] = @ \/ k < Len(data)]

\* where headers are, behind the first i characters, and get_request_len
HeadersIn(s, i) == {j \in i + 1 .. Len(s) : s[j] \in Headers}
HeadersLen(s) == CHOOSE j \in HeadersIn(s, 0) : \A k \in HeadersIn(s, 0) : j <= k

\* It reads until the buffer is full, the body ends or a read fails, and looks for a
\* header.
PullHeaders(u) ==
  /\ pc[u] = "headers"
  /\ \/ Read(u, Smaller(BufLen - Len(buf[u]), Len(rest[u]))) /\ UNCHANGED lost
     \/ ReadLoses(u)
  /\ IF HeadersIn(buf'[u], 0) = {} THEN pc' = [pc EXCEPT ![u] = "done"] /\ UNCHANGED fname
     ELSE /\ fname' = [fname EXCEPT ![u] = buf'[u][HeadersLen(buf'[u])]]
          /\ pc' = [pc EXCEPT ![u] = IF fname'[u] = "N" THEN "done" ELSE "open"]
  /\ UNCHANGED <<files, written, count, body, refused, short>>

\* The header is moved out of the buffer, and the file opened and emptied.
Open(u) ==
  /\ pc[u] = "open"
  /\ buf' = [buf EXCEPT ![u] = SubSeq(@, HeadersLen(@) + 1, Len(@))]
  /\ files' = [files EXCEPT ![fname[u]] = <<>>]
  /\ written' = [written EXCEPT ![u] = 0]
  /\ pc' = [pc EXCEPT ![u] = "scan"]
  /\ UNCHANGED <<rest, fname, count, ghosts>>

OpenFails(u) ==
  /\ pc[u] = "open" /\ pc' = [pc EXCEPT ![u] = "done"]
  /\ refused' = [refused EXCEPT ![u] = TRUE]
  /\ UNCHANGED <<rest, buf, fname, files, written, count, body, lost, short>>

\* Boundaries that are looked at: one character must follow
Boundaries(u) ==
  {i \in 0 .. Len(buf[u]) - bl - 1 : SubSeq(buf[u], i + 1, i + bl) = Boundary}

\* of what was scanned without a boundary
Kept == bl

ScanFinds(u) ==
  /\ pc[u] = "scan" /\ Boundaries(u) # {}
  /\ LET first == CHOOSE i \in Boundaries(u) : \A j \in Boundaries(u) : i <= j IN
     /\ Fwrite(u, SubSeq(buf[u], 1, first))
     /\ buf' = [buf EXCEPT ![u] = SubSeq(@, first + bl + 1, Len(@))]
  /\ count' = [count EXCEPT ![u] = @ + 1]
  /\ pc' = [pc EXCEPT ![u] = "headers"]
  /\ UNCHANGED <<rest, fname, body, refused, lost>>

\* All but as many characters as a boundary has are written.
ScanSlides(u) ==
  /\ pc[u] = "scan" /\ Boundaries(u) = {}
  /\ IF Len(buf[u]) > bl
       THEN /\ Fwrite(u, SubSeq(buf[u], 1, Len(buf[u]) - Kept))
            /\ buf' = [buf EXCEPT ![u] = SubSeq(@, Len(@) - Kept + 1, Len(@))]
       ELSE UNCHANGED <<files, written, buf, short>>
  /\ pc' = [pc EXCEPT ![u] = "read"]
  /\ UNCHANGED <<rest, fname, count, body, refused, lost>>

ReadMore(u) ==
  /\ pc[u] = "read" /\ pc' = [pc EXCEPT ![u] = "scan"]
  /\ \E n \in 1 .. Len(rest[u]) : Len(buf[u]) + n <= BufLen /\ Read(u, n)
  /\ UNCHANGED <<fname, files, written, count, ghosts>>

\* The body has ended without a boundary: the next look for a header finds none.
ReadEnds(u) ==
  /\ pc[u] = "read" /\ (rest[u] = <<>> \/ Len(buf[u]) = BufLen)
  /\ pc' = [pc EXCEPT ![u] = "headers"]
  /\ UNCHANGED <<rest, buf, fname, files, written, count, ghosts>>

\* The file is closed and not counted, and what is left searched for a header.
ReadFails(u) ==
  /\ pc[u] = "read" /\ pc' = [pc EXCEPT ![u] = "headers"]
  /\ ReadLoses(u)
  /\ UNCHANGED <<fname, files, written, count, body, refused, short>>

Step(u) == \/ PullHeaders(u) \/ Open(u) \/ OpenFails(u) \/ ScanFinds(u)
           \/ ScanSlides(u) \/ ReadMore(u) \/ ReadEnds(u) \/ ReadFails(u)
Next == \E u \in Uploads : Step(u)

\* mg_read returns: the client sends the rest or leaves, or the read times out.
Spec == Init /\ [][Next]_vars /\ \A u \in Uploads : WF_vars(Step(u))

-----------------------------------------------------------------------------
(* Properties.                                                             *)

\* where a boundary stands, with a character behind it
Whole(b) == {i \in DOMAIN b : i + bl <= Len(b) /\ SubSeq(b, i, i + bl - 1) = Boundary}
\* Of what is behind the first i characters: the header of the next part, and the
\* boundary that ends it, as RFC 2046 divides the body
HeadAt(b, i) == CHOOSE j \in HeadersIn(b, i) : \A k \in HeadersIn(b, i) : j <= k
EndsAt(b, i) == {j \in Whole(b) : j > HeadAt(b, i)}
EndAt(b, i)  == CHOOSE j \in EndsAt(b, i) : \A k \in EndsAt(b, i) : j <= k

IsPart(b, i) == HeadersIn(b, i) # {} /\ b[HeadAt(b, i)] # "N" /\ EndsAt(b, i) # {}
Part(b, i)   == [name |-> b[HeadAt(b, i)], data |-> SubSeq(b, HeadAt(b, i) + 1, EndAt(b, i) - 1)]

\* how many characters are before each part
Begins(b) ==
  LET at[k \in 0 .. Len(b)] ==
        IF k = 0 THEN 0
        ELSE IF IsPart(b, at[k - 1]) THEN EndAt(b, at[k - 1]) + bl - 1
        ELSE at[k - 1] IN
  at

\* An upload is counted with all of its data in its file and nothing else, wherever
\* the pieces that were read and the end of the buffer have fallen in it, if no read
\* of the request and no write has failed: then it is counted all the same
\* (mongoose.c:4150-4177).
FilesAreParts ==
  \A u \in Uploads : count'[u] # count[u] /\ ~ lost[u] /\ ~ short'[u] =>
    LET i == Begins(body[u])[count[u]] IN
    /\ IsPart(body[u], i)
    /\ Part(body[u], i) = [name |-> fname[u], data |-> files'[fname[u]]]

\* What precedes the data of each part fits the buffer.
HeadersFit(b) ==
  \A k \in DOMAIN Begins(b) :
    LET i == Begins(b)[k] IN IsPart(b, i) => HeadAt(b, i) - i <= BufLen

\* No part is passed over, if its file could be opened and no read has failed,
\* whatever became of what was written (mongoose.c:4104-4180).
AllPartsCount ==
  \A u \in Uploads : pc[u] = "done" /\ HeadersFit(body[u]) =>
    ~ IsPart(body[u], Begins(body[u])[count[u]]) \/ refused[u] \/ lost[u]

=============================================================================
