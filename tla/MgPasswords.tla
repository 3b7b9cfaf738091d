---------------------------- MODULE MgPasswords ----------------------------
(***************************************************************************)
(* mg_modify_passwords_file (server/mongoose.c): the record of a user is   *)
(* added, changed or removed in a copy of the file, which then takes its   *)
(* place.  The process may be stopped between any two steps and called     *)
(* again, and any call may fail, though the code looks only at fopen.  A   *)
(* file is a sequence of lines; only the last may lack its end.            *)
(***************************************************************************)
EXTENDS Integers, Sequences

CONSTANTS
  Users,      \* user:domain
  Passwords,
  Originals,  \* the file at first
  MaxCalls    \* bound

None == "none"
Record(u, p) == [user |-> u, pass |-> p]   \* "user:domain:hash"
\* "other" is a line that is no record, or of nobody in Users
Lines == {Record(u, p) : u \in Users, p \in Passwords} \union {[user |-> "other", pass |-> None]}

MgPasswordsAssumption ==
  /\ None \notin Passwords /\ "other" \notin Users /\ MaxCalls \in Nat
  /\ \A f \in Originals : f.lines \in Seq(Lines) /\ f.ended \in BOOLEAN

NoFile == [lines |-> <<>>, ended |-> TRUE, there |-> FALSE]
Empty  == [NoFile EXCEPT !.there = TRUE]

VARIABLES
  file, tmp,      \* fname, and fname.tmp, as they are on the disk
  pc,             \* "idle", "copy", "close", "remove", "rename"
  user, pass,     \* arguments; pass may be None
  at, out, found, \* lines read; what is written to tmp and not yet flushed
  before,         \* the file when the call began, or its copy if only that was left
  short,          \* something of the copy has been lost in this call
  lost,           \* a call has found only the copy, and begun with an empty file
  calls
vars == <<file, tmp, pc, user, pass, at, out, found, before, short, lost, calls>>

Init == /\ \E f \in Originals \union {NoFile} :
             file = [lines |-> f.lines, ended |-> f.ended, there |-> f # NoFile]
        /\ tmp = NoFile /\ pc = "idle" /\ user = None /\ pass = None
        /\ at = 0 /\ out = Empty /\ found = FALSE /\ before = file
        /\ short = FALSE /\ lost = FALSE /\ calls = 0

-----------------------------------------------------------------------------
\* A line whose end is another's or is missing; its record has no password that fits.
Broken(line) == [line EXCEPT !.pass = "broken"]

\* fprintf of a line: what follows a line without an end becomes part of it.
Written(f, line, ended) ==
  [f EXCEPT !.lines = IF f.ended THEN Append(@, line)
                      ELSE Append(SubSeq(@, 1, Len(@) - 1), Broken(@[Len(@)])),
            !.ended = ended]

\* fopen(fname, "a+") creates the file if there is none, though its copy may be there.
Create ==
  /\ file' = [file EXCEPT !.there = TRUE]
  /\ before' = IF ~ file.there /\ tmp.there THEN tmp ELSE file'
  /\ lost' = (lost \/ (~ file.there /\ tmp.there))
  /\ short' = FALSE

\* Both files are opened, and the copy is emptied.
Begin ==
  /\ pc = "idle" /\ calls < MaxCalls /\ calls' = calls + 1
  /\ user' \in Users /\ pass' \in Passwords \union {None}
  /\ Create /\ tmp' = Empty /\ out' = Empty
  /\ at' = 0 /\ found' = FALSE /\ pc' = "copy"

\* One of the files cannot be opened; the other may have been created.
OpenFails ==
  /\ pc = "idle" /\ calls < MaxCalls /\ calls' = calls + 1
  /\ Create \/ UNCHANGED <<file, before, short, lost>>
  /\ UNCHANGED <<tmp, pc, user, pass, at, out, found>>

\* Lines that are no records are left out.
Copy ==
  /\ pc = "copy" /\ at < Len(file.lines) /\ at' = at + 1
  /\ LET line == file.lines[at + 1]
         ended == at + 1 < Len(file.lines) \/ file.ended IN
     IF line.user = "other" THEN UNCHANGED <<out, found>>
     ELSE IF line.user = user THEN
       /\ found' = TRUE
       /\ out' = IF pass = None THEN out ELSE Written(out, Record(user, pass), TRUE)
     ELSE out' = Written(out, line, ended) /\ UNCHANGED found
  /\ UNCHANGED <<file, tmp, pc, user, pass, before, short, lost, calls>>

\* fgets fails as it does at the end of the file.
ReadFails ==
  /\ pc = "copy" /\ at < Len(file.lines) /\ at' = Len(file.lines) /\ short' = TRUE
  /\ UNCHANGED <<file, tmp, pc, user, pass, out, found, before, lost, calls>>

\* A new user is added.
Add ==
  /\ pc = "copy" /\ at = Len(file.lines) /\ pc' = "close"
  /\ out' = IF ~ found /\ pass # None THEN Written(out, Record(user, pass), TRUE) ELSE out
  /\ UNCHANGED <<file, tmp, user, pass, at, found, before, short, lost, calls>>

\* stdio writes what it has when it likes, at the latest in fclose.
Flush ==
  /\ pc \in {"copy", "close", "remove", "rename"} /\ tmp # out
  /\ tmp' = out
  /\ UNCHANGED <<file, pc, user, pass, at, out, found, before, short, lost, calls>>

\* A write fails, in fprintf or in fclose, and nobody looks: some of what stdio held is
\* not written, and the last line that is may be cut.
WriteFails ==
  /\ pc \in {"copy", "close"} /\ tmp # out /\ short' = TRUE
  /\ \/ out' = tmp
     \/ \E n \in Len(tmp.lines) + 1 .. Len(out.lines) :
          LET whole == SubSeq(out.lines, 1, n) IN
          \/ n < Len(out.lines) /\ out' = [out EXCEPT !.lines = whole, !.ended = TRUE]
          \/ out' = [out EXCEPT !.lines = [whole EXCEPT ![n] = Broken(@)], !.ended = FALSE]
  /\ tmp' = out'
  /\ UNCHANGED <<file, pc, user, pass, at, found, before, lost, calls>>

Close ==
  /\ pc = "close" /\ pc' = "remove" /\ tmp' = out
  /\ UNCHANGED <<file, user, pass, at, out, found, before, short, lost, calls>>

\* It may fail, and rename may still take the name.
RemoveFile ==
  /\ pc = "remove" /\ pc' = "rename" /\ file' \in {NoFile, file}
  /\ UNCHANGED <<tmp, user, pass, at, out, found, before, short, lost, calls>>

\* It may fail; the call returns 1 all the same.
Rename ==
  /\ pc = "rename" /\ pc' = "idle"
  /\ \/ file' = tmp /\ tmp' = NoFile
     \/ UNCHANGED <<file, tmp>>
  /\ UNCHANGED <<user, pass, at, out, found, before, short, lost, calls>>

\* The process is stopped: what stdio held is lost.
Crash ==
  /\ pc # "idle" /\ pc' = "idle"
  /\ UNCHANGED <<file, tmp, user, pass, at, out, found, before, short, lost, calls>>

Next == \/ Begin \/ OpenFails \/ Copy \/ ReadFails \/ Add \/ Flush \/ WriteFails
        \/ Close \/ RemoveFile \/ Rename \/ Crash
Spec == Init /\ [][Next]_vars

-----------------------------------------------------------------------------
(* Properties.                                                             *)

RecordsOf(f, u) == {i \in DOMAIN f.lines : f.lines[i].user = u}
\* the lines of a user, in their order
LinesOf(s, u) ==
  LET of[n \in 0 .. Len(s)] ==
        IF n = 0 THEN <<>>
        ELSE IF s[n].user = u THEN Append(of[n - 1], s[n]) ELSE of[n - 1] IN
  of[Len(s)]
\* The file after the call: the records of the others as they were, and the user's.
Changed(f) ==
  /\ \A u \in Users \ {user} : LinesOf(f.lines, u) = LinesOf(before.lines, u)
  /\ \A i \in RecordsOf(f, user) : f.lines[i].pass = pass
  /\ RecordsOf(f, user) = {} <=> pass = None

\* Wherever the process is stopped, and whether remove and rename do their work or not,
\* under the name of the file is what it was, or what it should become; or nothing, and
\* then the copy is complete.  It does not hold if the last line had no end, for the new
\* record is written behind it; if a line could not be read or written, for the short
\* copy takes the place of the file (mongoose.c:2508-2536); and once a call was made when
\* there was nothing but the copy, for it begins with an empty file and empties the copy
\* (2495, 2502).
OldOrNew ==
  calls > 0 /\ before.ended /\ ~ short /\ ~ lost =>
               \/ file = before
               \/ ~ file.there /\ Changed(tmp)
               \/ Changed(file)

=============================================================================
