---------------------------- MODULE FileToBuffer ----------------------------
(***************************************************************************)
(* file_to_buffer (server/glibtop/common.c): a file is read, in as many    *)
(* pieces as read() gives, into a buffer with room for a terminator.       *)
(* nread and len are unsigned, and the -1 of a read that fails is added    *)
(* like any other length.  A byte is its number in the file.               *)
(***************************************************************************)
EXTENDS Integers

CONSTANTS
  BufSize,  \* bufsize
  Word,     \* 2^32: len is counted modulo Word
  MaxSize   \* bound: bytes of the file

ASSUME FileToBufferAssumption ==
  BufSize \in Nat /\ Word \in Nat /\ MaxSize \in Nat /\ BufSize > 1 /\ Word > BufSize

VARIABLES size,    \* bytes of the file
          opened,  \* open() has succeeded
          pos,     \* bytes read from it
          failed,  \* reads that have failed
          len,     \* len
          buffer,  \* the bytes before the last of the buffer; 0 is none yet
          end,     \* where the terminator was written, -1 before
          pc
vars == <<size, opened, pos, failed, len, buffer, end, pc>>

Places == 0 .. BufSize - 2

Init == /\ size \in 0 .. MaxSize /\ opened \in BOOLEAN
        /\ pos = 0 /\ failed = 0 /\ len = 0 /\ end = -1
        /\ buffer = [i \in Places |-> 0]
        /\ pc = "read"

Reading == pc = "read" /\ len < BufSize - 1

\* Mutant: every piece is stored at the beginning.
ReadSomeFirst ==
  /\ Reading /\ opened
  /\ \E n \in 1 .. (size - pos) :
       /\ n <= BufSize - 1 - len
       /\ pos' = pos + n /\ len' = len + n
       /\ buffer' = [i \in Places |-> IF i < n THEN pos + i + 1 ELSE buffer[i]]
  /\ UNCHANGED <<size, opened, failed, end, pc>>

ReadSome ==
  /\ Reading /\ opened
  /\ \E n \in 1 .. (size - pos) :
       /\ n <= BufSize - 1 - len
       /\ pos' = pos + n /\ len' = len + n
       /\ buffer' = [i \in Places |->
                       IF i >= len /\ i < len + n THEN pos + i - len + 1 ELSE buffer[i]]
  /\ UNCHANGED <<size, opened, failed, end, pc>>

\* nread is 0
ReadEnd ==
  /\ Reading /\ opened /\ pos = size
  /\ pc' = "close"
  /\ UNCHANGED <<size, opened, pos, failed, len, buffer, end>>

\* Mutant: a length of 1 is added.
ReadFailsAhead ==
  /\ Reading
  /\ failed' = failed + 1 /\ len' = (len + 1) % Word
  /\ UNCHANGED <<size, opened, pos, buffer, end, pc>>

\* nread is 2^32 - 1, for a file that was not opened or an error of the device
ReadFails ==
  /\ Reading
  /\ failed' = failed + 1 /\ len' = (len + Word - 1) % Word
  /\ UNCHANGED <<size, opened, pos, buffer, end, pc>>

Terminate ==
  /\ pc = "close" \/ (pc = "read" /\ len >= BufSize - 1)
  /\ end' = len /\ pc' = "done"
  /\ UNCHANGED <<size, opened, pos, failed, len, buffer>>

Next == ReadSome \/ ReadEnd \/ ReadFails \/ Terminate

Spec == Init /\ [][Next]_vars

-----------------------------------------------------------------------------
(* Properties.                                                             *)

\* A read failed when nothing was left in the buffer.
Emptied == failed > pos

TypeOK ==
  /\ size \in 0 .. MaxSize /\ opened \in BOOLEAN /\ pos \in 0 .. size /\ failed \in Nat
  /\ len \in 0 .. Word - 1 /\ buffer \in [Places -> 0 .. size]
  /\ end \in -1 .. Word - 1 /\ pc \in {"read", "close", "done"}

\* Without a failed read, the buffer ends where the file does, or where the room
\* does, and holds its bytes up to there, in however many pieces they came
\* (common.c:22-34).
BufferIsFile ==
  (pc = "done" /\ failed = 0) =>
    /\ end = pos /\ pos <= BufSize - 1 /\ (pos = size \/ pos = BufSize - 1)
    /\ \A i \in 0 .. pos - 1 : buffer[i] = i + 1

\* The terminator is written in the buffer, behind bytes of the file in their order,
\* unless a read failed when nothing was left in the buffer (common.c:27-33).
TerminatorInside ==
  (pc = "done" /\ ~ Emptied) =>
    /\ end <= BufSize - 1 /\ end = pos - failed
    /\ \A i, j \in 0 .. end - 1 : i < j => 0 < buffer[i] /\ buffer[i] < buffer[j]

=============================================================================
