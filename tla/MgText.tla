------------------------------ MODULE MgText ------------------------------
(***************************************************************************)
(* The functions of server/mongoose.c that take texts apart: the end of a  *)
(* request, headers, quoted words, lists of options, patterns of paths,    *)
(* encoded variables, cookies; MgUris has those of URIs.                   *)
(***************************************************************************)
EXTENDS MgUris, FiniteSets

SameText(s, t) == Len(s) = Len(t) /\ \A i \in DOMAIN s : Lower(s[i]) = Lower(t[i])

\* strcspn, strspn: how many characters at the start are not, or are, in a set
Span(s, set) ==
  LET out == DOMAIN s \ Positions(s, set) IN IF out = {} THEN Len(s) ELSE First(out) - 1
CSpan(s, set) ==
  LET in == Positions(s, set) IN IF in = {} THEN Len(s) ELSE First(in) - 1

-----------------------------------------------------------------------------
(* The end of a request.                                                   *)

IsControl(c) == (c < 32 /\ c \notin {CR, LF}) \/ c = 127

\* the length of the request if it ends with the blank line that begins at i
EndAt(s, i) ==
  IF s[i] = LF /\ s[i + 1] = LF THEN i + 1
  ELSE IF s[i] = LF /\ i + 2 <= Len(s) /\ s[i + 1] = CR /\ s[i + 2] = LF THEN i + 2
  ELSE 0

GetRequestLen(s) ==
  LET stops == {i \in 1 .. Len(s) - 1 : IsControl(s[i]) \/ EndAt(s, i) > 0} IN
  IF stops = {} THEN 0
  ELSE IF IsControl(s[First(stops)]) THEN -1 ELSE EndAt(s, First(stops))

-----------------------------------------------------------------------------
(* Words and headers.                                                      *)

\* The word as skip_quoted leaves it, when the text up to the next delimiter is
\* head and the text from that delimiter on is tail: a delimiter that follows the
\* quote takes its place, and what is up to the next one goes with it.
RECURSIVE Unquoted(_, _, _, _)
Unquoted(head, tail, delimiters, quote) ==
  IF head = <<>> \/ head[Len(head)] # quote THEN [word |-> head, rest |-> tail]
  ELSE IF tail = <<>>
    THEN [word |-> SubSeq(head, 1, Len(head) - 1), rest |-> tail]
    ELSE LET off == CSpan(Tail(tail), delimiters) IN
         Unquoted(SubSeq(head, 1, Len(head) - 1) \o SubSeq(tail, 1, off + 1),
                  From(tail, off + 2), delimiters, quote)

\* A word, and what follows its delimiter and the white space after that.
SkipQuoted(s, delimiters, whitespace, quote) ==
  LET w == CSpan(s, delimiters)
      u == Unquoted(SubSeq(s, 1, w), From(s, w + 1), delimiters, quote) IN
  [word |-> u.word,
   rest |-> IF u.rest = <<>> THEN <<>>
            ELSE From(u.rest, 2 + Span(Tail(u.rest), whitespace))]

Skip(s, delimiters) == SkipQuoted(s, delimiters, delimiters, 0)

\* parse_http_headers, into an array with room for some
RECURSIVE ParseHttpHeaders(_, _)
ParseHttpHeaders(s, room) ==
  LET n == SkipQuoted(s, {Colon}, {Space}, 0)  v == Skip(n.rest, {CR, LF}) IN
  IF room = 0 \/ n.word = <<>> THEN <<>>
  ELSE <<[name |-> n.word, value |-> v.word]>> \o ParseHttpHeaders(v.rest, room - 1)

-----------------------------------------------------------------------------
(* Options and patterns.                                                   *)

\* The values that next_option yields until it returns NULL.
RECURSIVE Options(_)
Options(list) ==
  LET c == CSpan(list, {Comma}) IN
  IF list = <<>> THEN <<>> ELSE <<SubSeq(list, 1, c)>> \o Options(From(list, c + 2))

\* match_prefix without alternatives: how much of the text the pattern takes
RECURSIVE MatchOne(_, _)
MatchOne(p, s) ==
  IF p = <<>> THEN 0
  ELSE IF p[1] = Dollar THEN IF s = <<>> THEN 0 ELSE -1
  ELSE IF p[1] = Star THEN
    LET two  == Len(p) > 1 /\ p[2] = Star
        rest == From(p, IF two THEN 3 ELSE 2)
        most == IF two THEN Len(s) ELSE CSpan(s, {Slash})
        good == {n \in 0 .. most : MatchOne(rest, From(s, n + 1)) # -1}
        n    == CHOOSE k \in good : \A j \in good : j <= k IN
    IF rest = <<>> THEN most
    ELSE IF good = {} THEN -1 ELSE n + MatchOne(rest, From(s, n + 1))
  ELSE IF s = <<>> \/ p[1] \notin {Ask, s[1]} THEN -1
  ELSE LET r == MatchOne(Tail(p), Tail(s)) IN IF r = -1 THEN -1 ELSE r + 1

RECURSIVE MatchPrefix(_, _)
MatchPrefix(p, s) ==
  LET b == CSpan(p, {Bar})  r == MatchOne(SubSeq(p, 1, b), s) IN
  IF b = Len(p) \/ r > 0 THEN r ELSE MatchPrefix(From(p, b + 2), s)

-----------------------------------------------------------------------------
(* Encodings.                                                              *)

IsAlnum(c) == IsDigit(c) \/ Lower(c) \in 97 .. 122
IToHex(n)  == IF n < 10 THEN n + 48 ELSE n + 87
DontEscape == {46, 95, 45, 36, 44, 59, 126, 40, 41}

\* mg_url_decode, into a buffer with room for so many
UrlDecode(s, room, form) ==
  LET d == Decoded(s, form) IN
  [text |-> IF Len(d) < room THEN d ELSE SubSeq(d, 1, room - 1),
   len  |-> IF Len(d) < room THEN Len(d) ELSE -1]

\* mg_url_encode, into a buffer that is large enough
RECURSIVE UrlEncode(_)
UrlEncode(s) ==
  IF s = <<>> THEN <<>>
  ELSE (IF IsAlnum(s[1]) \/ s[1] \in DontEscape THEN <<s[1]>>
        ELSE <<Percent, IToHex(s[1] \div 16), IToHex(s[1] % 16)>>) \o UrlEncode(Tail(s))

\* Mutant: the name may begin anywhere.
GetVarAnywhere(data, name, room) ==
  LET n  == Len(name)
      at == {i \in 1 .. Len(data) - n :
               data[i + n] = Equal /\ SameText(name, SubSeq(data, i, i + n - 1))}
      value == From(data, First(at) + n + 1)
      v  == UrlDecode(SubSeq(value, 1, CSpan(value, {Amp})), room, TRUE) IN
  IF room = 0 THEN [len |-> -2, text |-> <<>>]
  ELSE IF at = {} THEN [len |-> -1, text |-> <<>>]
  ELSE [len |-> IF v.len = -1 THEN -2 ELSE v.len, text |-> v.text]

\* mg_get_var
GetVar(data, name, room) ==
  LET n  == Len(name)
      at == {i \in 1 .. Len(data) - n :
               /\ i = 1 \/ data[i - 1] = Amp
               /\ data[i + n] = Equal /\ SameText(name, SubSeq(data, i, i + n - 1))}
      value == From(data, First(at) + n + 1)
      v  == UrlDecode(SubSeq(value, 1, CSpan(value, {Amp})), room, TRUE) IN
  IF room = 0 THEN [len |-> -2, text |-> <<>>]
  ELSE IF at = {} THEN [len |-> -1, text |-> <<>>]
  ELSE [len |-> IF v.len = -1 THEN -2 ELSE v.len, text |-> v.text]

\* mg_strcasestr goes from one occurrence of the name on to the next; the cookie
\* is the first that is followed by "=".
RECURSIVE FindCookie(_, _)
FindCookie(s, name) ==
  LET n  == Len(name)
      at == {i \in 1 .. Len(s) - n + 1 : SameText(name, SubSeq(s, i, i + n - 1))}
      after == From(s, First(at) + n) IN
  IF at = {} THEN <<>>
  ELSE IF after # <<>> /\ after[1] = Equal THEN after ELSE FindCookie(after, name)

\* Up to a space, without a semicolon before it and without quotes around it.
CookieValue(s) ==
  LET v == SubSeq(s, 1, CSpan(s, {Space}))
      w == IF v # <<>> /\ v[Len(v)] = Semi THEN SubSeq(v, 1, Len(v) - 1) ELSE v IN
  IF Len(w) > 1 /\ w[1] = Quote /\ w[Len(w)] = Quote THEN SubSeq(w, 2, Len(w) - 1) ELSE w

\* mg_get_cookie
GetCookie(header, name, room) ==
  LET found == FindCookie(header, name)  v == CookieValue(Tail(found)) IN
  IF room = 0 THEN [len |-> -2, text |-> <<>>]
  ELSE IF found = <<>> THEN [len |-> -1, text |-> <<>>]
  ELSE IF Len(v) < room THEN [len |-> Len(v), text |-> v]
  ELSE [len |-> -3, text |-> <<>>]

\* the four digits of three bytes
Base64Group(a, b, c) == <<a \div 4, (a % 4) * 16 + (b \div 16), (b % 16) * 4 + (c \div 64), c % 64>>

\* base64_encode: digits of 6 bits, and 64 for "="
Base64Encode(s) ==
  LET byte(i) == IF i > Len(s) THEN 0 ELSE s[i]
      group[i \in 1 .. Len(s) + 3] ==
        IF i > Len(s) THEN <<>>
        ELSE SubSeq(Base64Group(s[i], byte(i + 1), byte(i + 2)), 1, IF Len(s) - i < 2 THEN Len(s) - i + 2 ELSE 4)
             \o group[i + 3]
      pad == (4 - Len(group[1])) % 4 IN
  group[1] \o [i \in 1 .. pad |-> 64]

-----------------------------------------------------------------------------
(* Messages.                                                               *)

\* mg_vprintf: what is sent of a message, printed into a buffer of that size
\* unless alloc_vprintf takes another; 0 is the end of what vsnprintf has printed
Printed(s, size) ==
  IF Len(s) > size THEN s
  ELSE [i \in 1 .. Len(s) |-> IF i < size THEN s[i] ELSE 0]

=============================================================================
