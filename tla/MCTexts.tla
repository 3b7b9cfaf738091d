------------------------------ MODULE MCTexts ------------------------------
(***************************************************************************)
(* The functions of mongoose that take texts apart or convert them, over   *)
(* all inputs of some size: MgTextProperties for the characters that       *)
(* matter to each of them, MgDigests and MgDates, with TLC's values.  A    *)
(* behaviour is one of the inputs that "what" names, and the variables of  *)
(* the others are Blank.                                                   *)
(***************************************************************************)
EXTENDS Integers, Sequences

VARIABLES
  what,  \* the part of the server that runs
  text, pattern,
  total, sha1, md5, finalcount, pc,
  year, month, day, number

textVars == <<text, pattern>>
digestVars == <<total, sha1, md5, finalcount, pc>>
dateVars == <<year, month, day, number>>
vars == <<what, textVars, digestVars, dateVars>>

\* of the parts that do not run
Blank == "-"

NoText ==
  /\ text = Blank /\ pattern = Blank
NoDigest ==
  /\ total = Blank /\ sha1 = Blank /\ md5 = Blank /\ finalcount = Blank /\ pc = Blank
NoDate ==
  /\ year = Blank /\ month = Blank /\ day = Blank /\ number = Blank

-----------------------------------------------------------------------------
(* The parts.                                                              *)

\* the characters
LOCAL INSTANCE MgText

\* the same for all texts
Name == <<97>>
Room == 3
PatternAlphabet == {97, Star, Ask, Dollar, Bar, Slash}

Requests == INSTANCE MgTextProperties WITH
  Alphabet <- {97, LF, CR, 9, 127}, MaxLen <- 7, MaxPattern <- 0
Words == INSTANCE MgTextProperties WITH
  Alphabet <- {97, Comma, Space, Backslash}, MaxLen <- 7, MaxPattern <- 0
Headers == INSTANCE MgTextProperties WITH
  Alphabet <- {97, Colon, Space, LF}, MaxLen <- 7, MaxPattern <- 0
Paths == INSTANCE MgTextProperties WITH
  Alphabet <- {97, Slash, Backslash, Dot}, MaxLen <- 7, MaxPattern <- 0
Patterns == INSTANCE MgTextProperties WITH
  Alphabet <- {97, 98, Slash}, MaxLen <- 3, MaxPattern <- 4
Uris == INSTANCE MgTextProperties WITH
  Alphabet <- {Percent, 50, 66, Plus, 200, 10}, MaxLen <- 5, MaxPattern <- 0
Variables == INSTANCE MgTextProperties WITH
  Alphabet <- {97, 65, Equal, Amp, Plus}, MaxLen <- 6, MaxPattern <- 0
Cookies == INSTANCE MgTextProperties WITH
  Alphabet <- {97, 98, Equal, Semi, Space, Quote}, MaxLen <- 6, MaxPattern <- 0

Digests == INSTANCE MgDigests WITH
  Block <- 8, LenBytes <- 2, Word <- 128, MaxPiece <- 19, MaxBytes <- 60
Dates == INSTANCE MgDates WITH FirstYear <- 1971, LastYear <- 2040

ASSUME PartsAssumption ==
  /\ Requests!TextAssumption /\ Words!TextAssumption /\ Headers!TextAssumption
  /\ Paths!TextAssumption /\ Patterns!TextAssumption /\ Uris!TextAssumption
  /\ Variables!TextAssumption /\ Cookies!TextAssumption /\ Digests!MgDigestsAssumption
  /\ Dates!DatesAssumption

-----------------------------------------------------------------------------
(* A behaviour of one of them.                                             *)

Init ==
  \/ what = "requests" /\ Requests!Init /\ NoDigest /\ NoDate
  \/ what = "words" /\ Words!Init /\ NoDigest /\ NoDate
  \/ what = "headers" /\ Headers!Init /\ NoDigest /\ NoDate
  \/ what = "paths" /\ Paths!Init /\ NoDigest /\ NoDate
  \/ what = "patterns" /\ Patterns!Init /\ NoDigest /\ NoDate
  \/ what = "uris" /\ Uris!Init /\ NoDigest /\ NoDate
  \/ what = "variables" /\ Variables!Init /\ NoDigest /\ NoDate
  \/ what = "cookies" /\ Cookies!Init /\ NoDigest /\ NoDate
  \/ what = "digests" /\ Digests!Init
     /\ NoText /\ NoDate
  \/ what = "dates" /\ Dates!Init
     /\ NoText /\ NoDigest

OfText == /\ what \notin {"digests", "dates"}
          /\ UNCHANGED <<what, digestVars, dateVars>>
OfDigests == /\ what = "digests"
             /\ UNCHANGED <<what, textVars, dateVars>>
OfDates == /\ what = "dates"
           /\ UNCHANGED <<what, textVars, digestVars>>

Next == \/ OfText /\ what = "requests" /\ Requests!Next
        \/ OfText /\ what = "words" /\ Words!Next
        \/ OfText /\ what = "headers" /\ Headers!Next
        \/ OfText /\ what = "paths" /\ Paths!Next
        \/ OfText /\ what = "patterns" /\ Patterns!Next
        \/ OfText /\ what = "uris" /\ Uris!Next
        \/ OfText /\ what = "variables" /\ Variables!Next
        \/ OfText /\ what = "cookies" /\ Cookies!Next
        \/ OfDigests /\ Digests!Next
        \/ OfDates /\ Dates!Next

Spec == Init /\ [][Next]_vars

-----------------------------------------------------------------------------
(* Properties.                                                             *)

(***************************************************************************)
(* A text is taken apart where its grammar says: a request ends at its     *)
(* first blank line, and what is known of it stays so when more comes      *)
(* (mongoose.c 1836-1859); words, headers and options are what is between  *)
(* their delimiters (771-873, 2935-2945); no slash of a path is followed   *)
(* by dots or another (1904-1925); a pattern matches what one of its       *)
(* alternatives can take (875-912); variables and cookies are found by     *)
(* their names and no others (1686-1766).                                  *)
(***************************************************************************)
TextsAreTakenApart ==
  CASE what = "requests"  -> Requests!RequestEndIsFirst /\ Requests!RequestLenIsFinal
    [] what = "words"     -> Words!WordsAreUnquoted /\ Words!OptionsArePieces
    [] what = "headers"   -> Headers!HeadersAreLines
    [] what = "paths"     -> Paths!PathsAreClean
    [] what = "patterns"  -> Patterns!PatternsMatch
    [] what = "variables" -> Variables!VarsAreFound
    [] what = "cookies"   -> Cookies!CookiesAreFound
    [] OTHER              -> TRUE

(***************************************************************************)
(* A conversion loses nothing but where it is known to: an encoded text is *)
(* what is decoded, and a buffer too small is told (mongoose.c 1614-1684,  *)
(* 2572-2590); base64 has the bits of the bytes (3849-3872); a message is  *)
(* sent as printed unless it fills the buffer to the last byte             *)
(* (1617-1653); a digest is of the padded message, however it comes        *)
(* (2153-2217, 3804-3846); a date is its day, but for the beginning of a   *)
(* leap year, which is the day after (1872-1899).                          *)
(***************************************************************************)
ConversionsAreExact ==
  CASE what = "uris"     -> /\ Uris!EncodingIsUndone /\ Uris!DecodingTellsRoom
                            /\ Uris!Base64HasTheBits
    [] what = "requests" -> Requests!PrintedUnlessExact
    [] what = "digests"  -> Digests!PiecesAreMessage /\ Digests!DigestIsOfMessage
    [] what = "dates"    -> Dates!DatesButLeapYears
    [] OTHER             -> TRUE

=============================================================================
