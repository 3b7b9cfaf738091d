----------------------------- MODULE MgDigests -----------------------------
(***************************************************************************)
(* SHA1Update, SHA1Final, MD5Update and MD5Final (server/mongoose.c): a    *)
(* message that comes in pieces is cut into blocks, counted and padded.    *)
(* What the transforms make of a block is left out: a digest is the        *)
(* sequence of its blocks.  The byte at a place of the message is its      *)
(* place.                                                                  *)
(***************************************************************************)
EXTENDS Integers, Sequences, SequencesExt

CONSTANTS
  Block,     \* 64 bytes
  LenBytes,  \* 8 of them hold the length: here one for each word of it
  Word,      \* 2^32, the range of a counter
  MaxPiece,  \* bound: bytes of a piece
  MaxBytes   \* bound: of a message

MgDigestsAssumption ==
  /\ Block \in Nat /\ LenBytes = 2 /\ Block > LenBytes
  /\ Word \in Nat \ {0} /\ Word % (8 * Block) = 0
  /\ MaxPiece \in Nat /\ MaxBytes \in Nat

Mark == "80"
Zero == "00"

VARIABLES total,        \* bytes of the message so far
          sha1, md5,    \* contexts: count, buffer, and the blocks that were transformed
          finalcount,   \* of SHA1Final
          pc            \* "update", "pad", "done"
vars == <<total, sha1, md5, finalcount, pc>>

New == [count |-> <<0, 0>>, buffer |-> [i \in 1 .. Block |-> Zero], blocks |-> <<>>]
Init == /\ total = 0 /\ sha1 = New /\ md5 = New /\ finalcount = <<>> /\ pc = "update"

Piece(n) == [i \in 1 .. n |-> total + i]

-----------------------------------------------------------------------------
\* Both words after so many bytes more: a carry of the low word, and what of the
\* bits does not fit it.
Counted(count, len) ==
  LET low == (count[1] + ((8 * len) % Word)) % Word IN
  <<low, (count[2] + (IF low < count[1] THEN 1 ELSE 0) + ((8 * len) \div Word)) % Word>>

Place(count) == (count[1] \div 8) % Block

\* memcpy into a buffer, behind its first j bytes
Put(buffer, j, data) ==
  [i \in 1 .. Block |-> IF i > j /\ i <= j + Len(data) THEN data[i - j] ELSE buffer[i]]

\* n blocks of the data, behind its first i bytes
Cut(data, i, n) == [k \in 1 .. n |-> SubSeq(data, i + (k - 1) * Block + 1, i + k * Block)]

SHA1Update(c, data) ==
  LET len == Len(data)  j == Place(c.count)
      first == Block - j              \* fills the buffer
      n == (len - first) \div Block   \* more blocks
      filled == Put(c.buffer, j, SubSeq(data, 1, first)) IN
  [count  |-> Counted(c.count, len),
   buffer |-> IF j + len > Block - 1
                THEN Put(filled, 0, SubSeq(data, first + n * Block + 1, len))
              ELSE Put(c.buffer, j, data),
   blocks |-> IF j + len > Block - 1 THEN Append(c.blocks, filled) \o Cut(data, first, n)
              ELSE c.blocks]

MD5Update(c, data) ==
  LET len == Len(data)  t == Place(c.count)
      first == IF t = 0 THEN 0 ELSE Block - t
      n == (len - first) \div Block
      filled == Put(c.buffer, t, SubSeq(data, 1, first))
      \* the last whole block is still in the buffer
      last == IF n > 0 THEN SubSeq(data, first + (n - 1) * Block + 1, first + n * Block)
              ELSE IF t = 0 THEN c.buffer ELSE filled IN
  [count  |-> Counted(c.count, len),
   buffer |-> IF len < first THEN Put(c.buffer, t, data)
              ELSE Put(last, 0, SubSeq(data, first + n * Block + 1, len)),
   blocks |-> IF len < first THEN c.blocks
              ELSE c.blocks \o (IF t = 0 THEN <<>> ELSE <<filled>>) \o Cut(data, first, n)]

NeedsBlock(room) == room < LenBytes

\* the mark, zeros, and the length with its low word first
MD5Final(c) ==
  LET count == Place(c.count)
      room  == Block - 1 - count   \* behind the mark
      marked == Put(c.buffer, count, <<Mark>> \o [i \in 1 .. room |-> Zero]) IN
  [c EXCEPT !.blocks =
     IF NeedsBlock(room)
       THEN @ \o <<marked, [i \in 1 .. Block - LenBytes |-> Zero] \o c.count>>
     ELSE Append(@, Put(marked, Block - LenBytes, c.count))]

-----------------------------------------------------------------------------
Update ==
  /\ pc = "update"
  /\ \E n \in 0 .. MaxPiece :
       /\ total + n <= MaxBytes /\ total' = total + n
       /\ sha1' = SHA1Update(sha1, Piece(n)) /\ md5' = MD5Update(md5, Piece(n))
  /\ UNCHANGED <<finalcount, pc>>

\* SHA1Final keeps the length, high word first, and puts the mark.
Final ==
  /\ pc = "update" /\ pc' = "pad"
  /\ finalcount' = <<sha1.count[2], sha1.count[1]>>
  /\ sha1' = SHA1Update(sha1, <<Mark>>) /\ md5' = MD5Final(md5)
  /\ UNCHANGED total

Pad ==
  /\ pc = "pad" /\ Place(sha1.count) # Block - LenBytes
  /\ sha1' = SHA1Update(sha1, <<Zero>>)
  /\ UNCHANGED <<total, md5, finalcount, pc>>

PutLength ==
  /\ pc = "pad" /\ Place(sha1.count) = Block - LenBytes
  /\ sha1' = SHA1Update(sha1, finalcount) /\ pc' = "done"
  /\ UNCHANGED <<total, md5, finalcount>>

Next == Update \/ Final \/ Pad \/ PutLength
Spec == Init /\ [][Next]_vars

-----------------------------------------------------------------------------
(* Properties.                                                             *)

Message == [i \in 1 .. total |-> i]
BitsLow == (8 * total) % Word
BitsHigh == ((8 * total) \div Word) % Word
\* as the standards pad a message
Padded(length) ==
  LET zeros == CHOOSE k \in 0 .. Block - 1 : (total + 1 + k + LenBytes) % Block = 0 IN
  Message \o <<Mark>> \o [i \in 1 .. zeros |-> Zero] \o length

\* However the message is divided into pieces, its blocks and the buffer hold it, and
\* both words count its bits (mongoose.c:2153-2187, 3804-3823).
PiecesAreMessage ==
  pc = "update" => \A c \in {sha1, md5} :
    /\ FlattenSeq(c.blocks) \o SubSeq(c.buffer, 1, total % Block) = Message
    /\ c.count = <<BitsLow, BitsHigh>>

\* The blocks of a digest are those of the padded message, also when the mark or the
\* length do not fit the last one (mongoose.c:2189-2217, 3825-3846).
DigestIsOfMessage ==
  /\ pc = "done" => FlattenSeq(sha1.blocks) = Padded(<<BitsHigh, BitsLow>>)
  /\ pc \in {"pad", "done"} => FlattenSeq(md5.blocks) = Padded(<<BitsLow, BitsHigh>>)

=============================================================================
