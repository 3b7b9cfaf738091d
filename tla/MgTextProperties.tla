-------------------------- MODULE MgTextProperties --------------------------
(***************************************************************************)
(* MgText over every text of up to MaxLen characters of an alphabet, and   *)
(* every pattern of up to MaxPattern: texts grow by a character at a time, *)
(* as they do when they arrive.                                            *)
(***************************************************************************)
EXTENDS MgText

CONSTANTS
  Alphabet, MaxLen,             \* of the texts
  PatternAlphabet, MaxPattern,  \* of the patterns
  Name,                         \* of a variable, or a cookie
  Room                          \* of a buffer, or of an array of headers

TextAssumption ==
  /\ MaxLen \in Nat /\ MaxPattern \in Nat /\ Room \in Nat /\ Len(Name) > 0
  /\ Alphabet \subseteq 1 .. 255 /\ PatternAlphabet \subseteq 1 .. 255

VARIABLES text, pattern
vars == <<text, pattern>>

Init == text = <<>> /\ pattern = <<>>

Grow == /\ Len(text) < MaxLen
        /\ \E c \in Alphabet : text' = Append(text, c) /\ UNCHANGED pattern

GrowPattern == /\ Len(pattern) < MaxPattern
               /\ \E c \in PatternAlphabet : pattern' = Append(pattern, c) /\ UNCHANGED text

Next == Grow \/ GrowPattern
Spec == Init /\ [][Next]_vars

-----------------------------------------------------------------------------
(* The end of a request (mongoose.c:1836-1859).                            *)

\* What has been found out of a request does not change when more of it comes:
\* neither its length nor that it is malformed.
RequestLenIsFinal ==
  LET before == GetRequestLen(SubSeq(text, 1, Len(text) - 1)) IN
  text # <<>> /\ before # 0 => GetRequestLen(text) = before

EndsBlank(s) ==
  \/ Len(s) > 1 /\ From(s, Len(s) - 1) = <<LF, LF>>
  \/ Len(s) > 2 /\ From(s, Len(s) - 2) = <<LF, CR, LF>>

\* A length is that of the shortest beginning which ends with a blank line; a
\* request is malformed if a control character comes before one.
RequestEndIsFirst ==
  LET r == GetRequestLen(text)
      ends == {i \in DOMAIN text : EndsBlank(SubSeq(text, 1, i))} IN
  /\ r > 0 => r = First(ends) /\ \A i \in 1 .. r - 1 : ~ IsControl(text[i])
  /\ r = 0 => ends = {}
  /\ r < 0 => \E i \in DOMAIN text :
       IsControl(text[i]) /\ \A e \in ends : i < e

-----------------------------------------------------------------------------
(* Words, headers, options (767-811, 821-834, 842-873, 2935-2945).         *)

\* A word ends at the first comma that no backslash precedes; the backslashes of
\* the others are dropped, and one at the end of the text (771-811).
WordsAreUnquoted ==
  LET ends == {i \in DOMAIN text :
                 text[i] = Comma /\ (i = 1 \/ text[i - 1] # Backslash)}
      w    == IF ends = {} THEN Len(text) + 1 ELSE First(ends)
      kept(i) == ~ (text[i] = Backslash /\ (i = Len(text) \/ text[i + 1] = Comma))
      kept1 == {i \in 1 .. w - 1 : kept(i)}
      word == [k \in 1 .. Cardinality(kept1) |->
                 text[CHOOSE i \in kept1 : Cardinality({j \in kept1 : j <= i}) = k]]
      spaces == {i \in w + 1 .. Len(text) + 1 :
                   (i = Len(text) + 1 \/ text[i] # Space)} IN
  SkipQuoted(text, {Comma}, {Space}, Backslash) =
    [word |-> word, rest |-> IF ends = {} THEN <<>> ELSE From(text, First(spaces))]

RECURSIVE Lines(_)
Lines(s) ==
  LET n == CSpan(s, {CR, LF}) IN
  IF s = <<>> THEN <<>>
  ELSE IF n = 0 THEN Lines(Tail(s))
  ELSE <<SubSeq(s, 1, n)>> \o Lines(From(s, n + 1))

Header(line) ==
  LET c == CSpan(line, {Colon})  v == From(line, c + 2) IN
  [name |-> SubSeq(line, 1, c), value |-> From(v, Span(v, {Space}) + 1)]

\* Where every line has a name and a colon, the headers are the lines, as far as
\* there is room for them, however many line ends there are between them.
HeadersAreLines ==
  LET lines == Lines(text) IN
  /\ text # <<>> /\ text[1] \notin {CR, LF}
  /\ \A i \in DOMAIN lines : CSpan(lines[i], {Colon}) \in 1 .. Len(lines[i]) - 1
  => ParseHttpHeaders(text, Room) =
       [i \in 1 .. (IF Len(lines) < Room THEN Len(lines) ELSE Room) |-> Header(lines[i])]

RECURSIVE Joined(_)
Joined(values) ==
  IF Len(values) <= 1 THEN IF values = <<>> THEN <<>> ELSE values[1]
  ELSE values[1] \o <<Comma>> \o Joined(Tail(values))

\* The values of a list are what is between its commas; only an empty one at the
\* end is not one of them (842-873).
OptionsArePieces ==
  LET o == Options(text) IN
  /\ \A i \in DOMAIN o : Positions(o[i], {Comma}) = {}
  /\ text = Joined(o) \/ text = Joined(o) \o <<Comma>>

-----------------------------------------------------------------------------
(* Patterns (875-912).                                                     *)

\* How much of the text a pattern can take, in all ways.
RECURSIVE Takes(_, _)
Takes(p, s) ==
  IF p = <<>> THEN {0}
  ELSE IF p[1] = Dollar THEN IF s = <<>> THEN {0} ELSE {}
  ELSE IF p[1] = Star THEN
    LET two  == Len(p) > 1 /\ p[2] = Star
        most == IF two THEN Len(s) ELSE CSpan(s, {Slash}) IN
    UNION {{n + k : k \in Takes(From(p, IF two THEN 3 ELSE 2), From(s, n + 1))} :
             n \in 0 .. most}
  ELSE IF s = <<>> \/ p[1] \notin {Ask, s[1]} THEN {}
  ELSE {1 + k : k \in Takes(Tail(p), Tail(s))}

RECURSIVE Alternatives(_)
Alternatives(p) ==
  LET b == CSpan(p, {Bar}) IN
  {SubSeq(p, 1, b)} \cup IF b = Len(p) THEN {} ELSE Alternatives(From(p, b + 2))

\* A pattern matches a text if one of its alternatives takes some of it in some
\* way, and what is reported is one of those ways: trying the longest piece first
\* for each star, one star after the other, misses none.
PatternsMatch ==
  LET ways == UNION {Takes(p, text) : p \in Alternatives(pattern)}
      r == MatchPrefix(pattern, text) IN
  IF ways \subseteq {0} THEN r <= 0 ELSE r \in ways \ {0}

-----------------------------------------------------------------------------
(* Encodings (1614-1770, 2572-2590) and paths (1904-1925).                 *)

\* A text that is encoded is what comes out when it is decoded.
EncodingIsUndone ==
  UrlDecode(UrlEncode(text), 3 * MaxLen + 1, FALSE) = [text |-> text, len |-> Len(text)]

\* -1 is returned when the buffer is too small, and then it holds as much of the
\* decoded text as there is room for; otherwise all of it.
DecodingTellsRoom ==
  LET whole == UrlDecode(text, MaxLen + 1, TRUE)  d == UrlDecode(text, Room, TRUE) IN
  IF whole.len < Room THEN d = whole
  ELSE d = [text |-> SubSeq(whole.text, 1, Room - 1), len |-> -1]

\* a bit of a sequence of numbers of so many bits
Bit(s, width, n) == (s[(n \div width) + 1] \div 2 ^ (width - 1 - (n % width))) % 2

\* The digits of base64_encode have the bits of the bytes, and zeros behind them; "="
\* fills the last four (3849-3872).
Base64HasTheBits ==
  LET e == Base64Encode(text)  bits == 8 * Len(text)
      digits == CSpan(e, {64}) IN
  /\ Len(e) = 4 * ((Len(text) + 2) \div 3) /\ digits = (bits + 5) \div 6
  /\ \A n \in 0 .. 6 * digits - 1 : Bit(e, 6, n) = IF n < bits THEN Bit(text, 8, n) ELSE 0
  /\ \A i \in digits + 1 .. Len(e) : e[i] = 64

RECURSIVE Pieces(_, _)
Pieces(s, c) ==
  LET n == CSpan(s, {c}) IN
  IF n = Len(s) THEN <<s>> ELSE <<SubSeq(s, 1, n)>> \o Pieces(From(s, n + 2), c)

IsVar(piece) == /\ Len(piece) > Len(Name) /\ piece[Len(Name) + 1] = Equal
                /\ SameText(SubSeq(piece, 1, Len(Name)), Name)

\* A variable is the first piece between ampersands that begins with its name and
\* an equal sign, and nothing of another is taken for it (1686-1731).
VarsAreFound ==
  LET pieces == Pieces(text, Amp)
      at == {i \in DOMAIN pieces : IsVar(pieces[i])}
      v  == UrlDecode(From(pieces[First(at)], Len(Name) + 2), Room, TRUE) IN
  GetVar(text, Name, Room) =
    IF at = {} THEN [len |-> -1, text |-> <<>>]
    ELSE [len |-> IF v.len = -1 THEN -2 ELSE v.len, text |-> v.text]

Unsemi(s) == IF s # <<>> /\ s[Len(s)] = Semi THEN SubSeq(s, 1, Len(s) - 1) ELSE s
Bare(s) ==
  IF Len(s) > 1 /\ s[1] = Quote /\ s[Len(s)] = Quote THEN SubSeq(s, 2, Len(s) - 1) ELSE s

Cookies == LET pieces == Pieces(text, Space) IN
           [i \in DOMAIN pieces |-> Unsemi(pieces[i])]
FirstCookie ==
  LET at == {i \in DOMAIN Cookies : IsVar(Cookies[i])} IN
  IF at = {} THEN <<>> ELSE Bare(From(Cookies[First(at)], Len(Name) + 2))
HasCookie == \E i \in DOMAIN Cookies : IsVar(Cookies[i])

\* Somewhere a name that is looked for is the end of another, or of a value.
Hidden ==
  \E i \in DOMAIN text : /\ i > 1 /\ text[i - 1] # Space
                         /\ IsVar(From(text, i))

\* If the name with an equal sign is nowhere but at the beginning of a cookie, the
\* value is that of the first cookie of that name, without its quotes and the
\* semicolon, if there is room for it (1748-1766).
CookiesAreFound ==
  ~ Hidden =>
    LET c == GetCookie(text, Name, Room) IN
    IF ~ HasCookie THEN c.len = -1
    ELSE IF Len(FirstCookie) < Room THEN c = [len |-> Len(FirstCookie), text |-> FirstCookie]
    ELSE c.len < -1 /\ c.text = <<>>

\* No slash of a path is followed by another, or by two dots; a path that is so
\* already is left as it is, and doing it again changes nothing (1904-1925).
PathsAreClean ==
  LET clean(s) == \A i \in DOMAIN s \ {Len(s)} : s[i] \in Slashes =>
        /\ s[i + 1] \notin Slashes
        /\ ~ (i + 2 <= Len(s) /\ s[i + 1] = Dot /\ s[i + 2] = Dot)
      r == RemoveDoubleDots(text) IN
  clean(r) /\ (clean(text) => r = text) /\ RemoveDoubleDots(r) = r

\* A message is sent as it is, but for one that fills the buffer to the last byte
\* (1617-1653).
PrintedUnlessExact == Len(text) # Room => Printed(text, Room) = text

=============================================================================
