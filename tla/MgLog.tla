------------------------------- MODULE MgLog -------------------------------
(***************************************************************************)
(* log_access and cry (server/mongoose.c): every line is written to a      *)
(* stream of its own, that is opened for it.  flockfile locks this stream, *)
(* which no other thread has; what keeps lines together is its buffer,     *)
(* and that the file is opened to append.                                  *)
(***************************************************************************)
EXTENDS Integers, Sequences, FiniteSets

CONSTANTS
  Workers,
  Pieces,    \* what lines consist of: numbers of pieces that are printed
  Room,      \* pieces that a stream's buffer holds
  MaxLines   \* bound: lines of a worker

MgLogAssumption ==
  Pieces \subseteq Nat \ {0} /\ Room \in Nat \ {0} /\ MaxLines \in Nat

VARIABLES
  log,      \* the file: pieces, as the worker and the number of its line
  pc,       \* of each worker: "idle", "print", "flushed"
  line,     \* how many lines it has begun
  left,     \* pieces it has yet to print
  size,     \* of each line that was begun
  buffer    \* of its stream: how many pieces
vars == <<log, pc, line, left, size, buffer>>

Init == /\ log = <<>>
        /\ pc = [w \in Workers |-> "idle"] /\ line = [w \in Workers |-> 0]
        /\ left = [w \in Workers |-> 0] /\ buffer = [w \in Workers |-> 0]
        /\ size = [w \in Workers |-> <<>>]

Piece(w) == <<w, line[w]>>

\* fopen, for a line of some length; if it fails, the line is not written.
Open(w) ==
  /\ pc[w] = "idle" /\ line[w] < MaxLines
  /\ line' = [line EXCEPT ![w] = @ + 1]
  /\ \E n \in Pieces : left' = [left EXCEPT ![w] = n] /\ size' = [size EXCEPT ![w] = Append(@, n)]
  /\ pc' = [pc EXCEPT ![w] = "print"]
  /\ UNCHANGED <<log, buffer>>

OpenFails(w) ==
  /\ pc[w] = "idle" /\ line[w] < MaxLines
  /\ line' = [line EXCEPT ![w] = @ + 1] /\ size' = [size EXCEPT ![w] = Append(@, 0)]
  /\ UNCHANGED <<log, pc, left, buffer>>

\* write(2), to the end of the file
Write(w) == log' = log \o [i \in 1 .. buffer[w] |-> Piece(w)]

BufferFull(w) == buffer[w] = Room

\* fprintf, fputc: the buffer is written when the next piece does not fit
Put(w) ==
  /\ pc[w] = "print" /\ left[w] > 0
  /\ left' = [left EXCEPT ![w] = @ - 1]
  /\ IF BufferFull(w) THEN Write(w) /\ buffer' = [buffer EXCEPT ![w] = 1]
     ELSE buffer' = [buffer EXCEPT ![w] = @ + 1] /\ UNCHANGED log
  /\ UNCHANGED <<pc, line, size>>

\* fflush, or fclose in cry
Flush(w) ==
  /\ pc[w] = "print" /\ left[w] = 0
  /\ Write(w) /\ buffer' = [buffer EXCEPT ![w] = 0]
  /\ pc' = [pc EXCEPT ![w] = "flushed"]
  /\ UNCHANGED <<line, left, size>>

Close(w) ==
  /\ pc[w] = "flushed" /\ pc' = [pc EXCEPT ![w] = "idle"]
  /\ UNCHANGED <<log, line, left, size, buffer>>

Next == \E w \in Workers : Open(w) \/ OpenFails(w) \/ Put(w) \/ Flush(w) \/ Close(w)
Spec == Init /\ [][Next]_vars

-----------------------------------------------------------------------------
(* Properties.                                                             *)

Places(w, l) == {i \in DOMAIN log : log[i] = <<w, l>>}

\* A line that fits the buffer of a stream is never broken by another, however many
\* workers log at the same time (mongoose.c:4417-4447, 612-649).
ShortLinesAreWhole ==
  \A w \in Workers : \A l \in 1 .. line[w] : size[w][l] <= Room =>
    \A i, j \in Places(w, l) : \A k \in i .. j : log[k] = <<w, l>>

\* When a line has been flushed all of it is in the file, and stays there
\* (mongoose.c:4417-4447, 612-649).
LinesAreLogged ==
  \A w \in Workers : \A l \in 1 .. line[w] :
    (l < line[w] \/ pc[w] # "print") => Cardinality(Places(w, l)) = size[w][l]

=============================================================================
