-------------------------------- MODULE MgSsi --------------------------------
(***************************************************************************)
(* send_ssi_file and do_ssi_include (server/mongoose.c): a file is copied  *)
(* to the client, and the files that its tags name in their place.  A file *)
(* is named by one character; a tag is Open, such a character, and ">".    *)
(* Everything is copied through one buffer for each file that is open.     *)
(***************************************************************************)
EXTENDS Integers, Sequences, SequencesExt

CONSTANTS
  Texts,      \* of the file that is asked for, "0"
  Included,   \* of the file "1"
  Open,       \* <!--#
  BufLen,     \* MG_BUF_LEN
  MaxLevel,   \* 10
  Memory      \* files that open_file gives from memory

Files == {"0", "1"}

MgSsiAssumption ==
  /\ Texts \subseteq Seq(STRING) /\ Included \subseteq Seq(STRING)
  /\ Open \in Seq(STRING) /\ Open # <<>> /\ Head(Open) = "<" /\ \A i \in DOMAIN Open : Open[i] # ">"
  /\ BufLen \in Nat /\ BufLen > Len(Open) + 2 /\ MaxLevel \in Nat

VARIABLES text,   \* of the files
          stack,  \* of send_ssi_file: [file, at, buf, in_ssi_tag], the deepest last
          sent
vars == <<text, stack, sent>>

Called(f) == [file |-> f, at |-> 1, buf |-> <<>>, in_ssi_tag |-> FALSE]

Init == /\ \E asked \in Texts, other \in Included : text = [f \in Files |-> IF f = "0" THEN asked ELSE other]
        /\ stack = <<Called("0")>> /\ sent = <<>>

Top == stack[Len(stack)]
SetTop(frame) == stack' = [stack EXCEPT ![Len(stack)] = frame]

\* mg_fgetc: of a file in memory the first character, as offset stays 0
AtEnd == IF Top.file \in Memory THEN text[Top.file] = <<>> ELSE Top.at > Len(text[Top.file])
Char  == text[Top.file][IF Top.file \in Memory THEN 1 ELSE Top.at]
Next1 == [Top EXCEPT !.at = @ + 1]

-----------------------------------------------------------------------------
\* A tag ends: it is copied, if it is none; another file is sent in its place; or it
\* is not known, and dropped.
TagEnds ==
  /\ Top.in_ssi_tag /\ Char = ">"
  /\ LET tag == Append(Top.buf, ">")
         after == [Next1 EXCEPT !.in_ssi_tag = FALSE, !.buf = <<>>]
         command == tag[Len(Open) + 1] IN
     IF Len(tag) < Len(Open) + 1 \/ SubSeq(tag, 1, Len(Open)) # Open
       THEN sent' = sent \o tag /\ SetTop(after)
     ELSE /\ IF command \in Files /\ Len(stack) <= MaxLevel
               THEN stack' = Append([stack EXCEPT ![Len(stack)] = after], Called(command))
               ELSE SetTop(after)
          /\ UNCHANGED sent

\* A tag goes on, as long as it starts like one; what is too large is forgotten.
TagGoesOn ==
  /\ Top.in_ssi_tag /\ Char # ">"
  /\ LET noTag == Len(Top.buf) = Len(Open) /\ Top.buf # Open
         large == ~ noTag /\ Len(Top.buf) = BufLen - 2 IN
     SetTop([Next1 EXCEPT !.in_ssi_tag = ~ noTag,
                          !.buf = Append(IF large THEN <<>> ELSE @, Char)])
  /\ UNCHANGED sent

TagStarts ==
  /\ ~ Top.in_ssi_tag /\ Char = "<"
  /\ sent' = sent \o Top.buf
  /\ SetTop([Next1 EXCEPT !.in_ssi_tag = TRUE, !.buf = <<"<">>])

TextGoesOn ==
  /\ ~ Top.in_ssi_tag /\ Char # "<"
  /\ LET b == Append(Top.buf, Char) IN
     IF Len(b) = BufLen THEN sent' = sent \o b /\ SetTop([Next1 EXCEPT !.buf = <<>>])
     ELSE SetTop([Next1 EXCEPT !.buf = b]) /\ UNCHANGED sent

FileEnds ==
  /\ sent' = sent \o Top.buf
  /\ stack' = SubSeq(stack, 1, Len(stack) - 1)

Next == /\ stack # <<>>
        /\ UNCHANGED text
        /\ \/ AtEnd /\ FileEnds
           \/ ~ AtEnd /\ (TagEnds \/ TagGoesOn \/ TagStarts \/ TextGoesOn)
Spec == Init /\ [][Next]_vars /\ WF_vars(Next)

-----------------------------------------------------------------------------
(* Properties.                                                             *)

TagAt(t, i) == i + Len(Open) - 1 <= Len(t) /\ SubSeq(t, i, i + Len(Open) - 1) = Open
EndsOf(t, i) == {j \in i .. Len(t) : t[j] = ">"}

\* No "<" stands shortly before a tag, and every tag fits the buffer.
Regular(t) ==
  \A i \in {i \in DOMAIN t : TagAt(t, i)} :
    /\ \A j \in DOMAIN t : (j < i /\ t[j] = "<") => j + Len(Open) < i \/ \E k \in j .. i : t[k] = ">"
    /\ \/ EndsOf(t, i) = {} /\ Len(t) - i + 1 <= BufLen - 2
       \/ \E j \in EndsOf(t, i) : j - i + 1 <= BufLen - 1

\* What is behind each place of a text, with its tags replaced by what they name
Replaced(t, named) ==
  LET IsTag(i) == TagAt(t, i) /\ EndsOf(t, i) # {}
      end(i)   == CHOOSE j \in EndsOf(t, i) : \A k \in EndsOf(t, i) : j <= k
      r[i \in 1 .. Len(t) + 1] ==
        IF i > Len(t) THEN <<>>
        ELSE IF ~ IsTag(i) THEN <<t[i]>> \o r[i + 1]
        ELSE (IF t[i + Len(Open)] \in Files THEN named[t[i + Len(Open)]] ELSE <<>>)
             \o r[end(i) + 1] IN
  r

\* The files with their tags replaced, from each level down
Expanded ==
  LET e[level \in 0 .. MaxLevel + 1] ==
        [f \in Files |-> IF level > MaxLevel THEN <<>> ELSE Replaced(text[f], e[level + 1])[1]] IN
  e

\* The client is sent the text with the files in the place of their tags, however the
\* text falls into the buffer (mongoose.c:3573-3634, 3504-3545).
TagsAreReplaced ==
  (\A f \in Files : Regular(text[f])) =>
    /\ IsPrefix(sent, Expanded[0]["0"])
    /\ stack = <<>> => sent = Expanded[0]["0"]

\* A text without tags is sent as it is, with any number of "<" and ">" in it
\* (mongoose.c:3584-3633).
PlainIsCopied ==
  (stack = <<>> /\ \A i \in DOMAIN text["0"] : ~ TagAt(text["0"], i)) => sent = text["0"]

=============================================================================
