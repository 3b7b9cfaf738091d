------------------------------- MODULE MgUris -------------------------------
(***************************************************************************)
(* The functions of server/mongoose.c that take a URI to a path: it is     *)
(* decoded, and double dots and double slashes are removed.  A text is a   *)
(* sequence of character codes; positions count from 1 here and from 0     *)
(* there.                                                                  *)
(***************************************************************************)
EXTENDS Integers, Sequences

LF == 10   CR == 13   Space == 32   Quote == 34   Percent == 37   Amp == 38
Plus == 43   Comma == 44   Dot == 46   Slash == 47   Colon == 58   Semi == 59
Equal == 61   Ask == 63   Star == 42   Dollar == 36   Backslash == 92   Bar == 124

First(S) == CHOOSE i \in S : \A j \in S : i <= j
From(s, i) == SubSeq(s, i, Len(s))
Positions(s, set) == {i \in DOMAIN s : s[i] \in set}
Lower(c) == IF c \in 65 .. 90 THEN c + 32 ELSE c

IsDigit(c) == c \in 48 .. 57
IsHex(c)   == IsDigit(c) \/ Lower(c) \in 97 .. 102
HexToI(c)  == IF IsDigit(c) THEN c - 48 ELSE Lower(c) - 87

IsEscape(s) == s[1] = Percent /\ Len(s) > 2 /\ IsHex(s[2]) /\ IsHex(s[3])

\* All of a text decoded, were there room for it.
Decoded(s, form) ==
  LET d[i \in 1 .. Len(s) + 1] ==
        IF i > Len(s) THEN <<>>
        ELSE IF IsEscape(From(s, i))
          THEN <<16 * HexToI(s[i + 1]) + HexToI(s[i + 2])>> \o d[i + 3]
        ELSE <<IF form /\ s[i] = Plus THEN Space ELSE s[i]>> \o d[i + 1] IN
  d[1]

Slashes == {Slash, Backslash}

\* slashes and pairs of dots are skipped
SkipDots(s, from) ==
  LET skip[i \in 1 .. Len(s) + 1] ==
        IF i <= Len(s) /\ s[i] \in Slashes THEN skip[i + 1]
        ELSE IF i < Len(s) /\ s[i] = Dot /\ s[i + 1] = Dot THEN skip[i + 2] ELSE i IN
  skip[from]

\* remove_double_dots_and_double_slashes
RemoveDoubleDots(s) ==
  LET kept[i \in 1 .. Len(s) + 1] ==
        IF i > Len(s) THEN <<>>
        ELSE <<s[i]>> \o kept[IF s[i] \in Slashes THEN SkipDots(s, i + 1) ELSE i + 1] IN
  kept[1]

=============================================================================
