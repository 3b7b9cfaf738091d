----------------------------- MODULE MgThrottle -----------------------------
(***************************************************************************)
(* How the mongoose web server limits the rate at which it sends           *)
(* (mg_write, push and set_throttle in server/mongoose.c): one connection, *)
(* whose requests may have different limits, and the writes of their       *)
(* handlers, second by second.                                             *)
(***************************************************************************)
EXTENDS Integers, Sequences, FiniteSetsExt

CONSTANTS
  Specs,        \* values of the throttle option: sequences of rules, records of
                \* matches (the requests it is for), number, and mult (the
                \* character after it)
  Requests,     \* what requests are told apart by: address and URI
  MaxLen        \* bound: the length of a write

VARIABLES
  spec, closed, stop_flag,
  throttle, last_throttle_bytes,
  current,      \* last_throttle_time is the present second
  pc, len, total, allowed,  \* of the mg_write in progress
  sent,         \* bytes sent in this second under a limit to a client that is there,
  short,        \* until a send to it comes short
  result        \* of the last mg_write

connVars  == <<throttle, last_throttle_bytes, current>>
writeVars == <<len, total, allowed, result>>
worldVars == <<spec, closed, stop_flag>>
sentVars  == <<sent, short>>
vars == <<worldVars, connVars, pc, writeVars, sentVars>>

Unit(mult) == IF mult = "k" THEN 2 ELSE IF mult = "m" THEN 4 ELSE 1

\* set_throttle: the last rule that matches, of those that are well formed; 1024
\* and 1048576 are 2 and 4 here.
SetThrottle(rules, r) ==
  LET fit  == {i \in DOMAIN rules : /\ r \in rules[i].matches /\ rules[i].number >= 0
                                    /\ rules[i].mult \in {"k", "m", ","}}
      last == rules[CHOOSE i \in fit : \A j \in fit : j <= i]
  IN  IF fit = {} THEN 0 ELSE last.number * Unit(last.mult)

\* The limits are numbers of an int.
Limits == {SetThrottle(s, r) : s \in Specs, r \in Requests} \cup {0}

ThrottleAssumption ==
  /\ MaxLen \in Nat \ {0} /\ IsFiniteSet(Limits)
  /\ Specs \subseteq Seq([matches : SUBSET Requests, number : Int, mult : STRING])

TypeOK ==
  /\ spec \in Specs /\ closed \in BOOLEAN /\ stop_flag \in BOOLEAN
  /\ throttle \in Limits
  /\ current \in BOOLEAN /\ last_throttle_bytes \in 0 .. Max(Limits)
  /\ pc \in {"idle", "more", "asleep", "rested"}
  /\ len \in 0 .. MaxLen /\ total \in 0 .. len
  /\ allowed \in -Max(Limits) .. MaxLen
  /\ sent \in Nat /\ short \in BOOLEAN /\ result \in 0 .. MaxLen

Init ==
  /\ spec \in Specs /\ closed = FALSE /\ stop_flag = FALSE
  /\ throttle = 0 /\ current = FALSE /\ last_throttle_bytes = 0
  /\ pc = "idle" /\ len = 0 /\ total = 0 /\ allowed = 0 /\ result = 0
  /\ sent = 0 /\ short = FALSE

\* A request on the connection, of which many may come one after another
NewRequest ==
  /\ pc = "idle" /\ \E r \in Requests : throttle' = SetThrottle(spec, r)
  /\ UNCHANGED <<worldVars, last_throttle_bytes, current, pc, writeVars, sentVars>>

\* push: all of it, or less when the client is gone or a send fails, as it does after
\* a timeout; a negative length is none.
Push(want, n) == n \in 0 .. Max({0, want})

Sent(want, n) == /\ short' = (short \/ (~ closed /\ n < want))
                 /\ sent' = IF closed \/ short' THEN sent ELSE sent + n

Returns(n) == pc' = "idle" /\ result' = n

\* mg_write with a limit: what is left of it for this second
Write ==
  /\ pc = "idle" /\ throttle > 0
  /\ current' = TRUE
  /\ \E l \in 1 .. MaxLen : \E n \in 0 .. MaxLen :
       LET used == IF current THEN last_throttle_bytes ELSE 0
           want == Min({throttle - used, l})
       IN  /\ len' = l /\ allowed' = want /\ total' = n /\ Push(want, n) /\ Sent(want, n)
           /\ IF n # want THEN Returns(n) /\ last_throttle_bytes' = used
              ELSE pc' = "more" /\ last_throttle_bytes' = used + n /\ UNCHANGED result
  /\ UNCHANGED <<worldVars, throttle>>

\* mg_write without a limit
WriteFreely ==
  /\ pc = "idle" /\ throttle <= 0
  /\ \E l \in 1 .. MaxLen : \E n \in 0 .. MaxLen :
       len' = l /\ total' = n /\ Push(l, n) /\ Returns(n)
  /\ UNCHANGED <<worldVars, connVars, allowed, sentVars>>

\* The loop ends.
WriteReturns ==
  /\ pc = "more" /\ (total = len \/ stop_flag) /\ Returns(total)
  /\ UNCHANGED <<worldVars, connVars, len, total, allowed, sentVars>>

\* A second's worth more, and sleep(1); what a short push has sent is not counted.
WriteMore ==
  /\ pc = "more" /\ total < len /\ ~ stop_flag
  /\ LET want == Min({throttle, len - total}) IN
     \E n \in 0 .. MaxLen :
       /\ Push(want, n) /\ Sent(want, n) /\ allowed' = want
       /\ IF n = want THEN pc' = "asleep" /\ UNCHANGED result ELSE Returns(total)
  /\ UNCHANGED <<worldVars, connVars, len, total>>

\* sleep(1) returns.
Wake ==
  /\ pc = "rested" /\ pc' = "more"
  /\ last_throttle_bytes' = allowed /\ current' = TRUE
  /\ total' = total + allowed
  /\ UNCHANGED <<worldVars, throttle, len, allowed, result, sentVars>>

\* The next second begins.
Tick ==
  /\ current' = FALSE /\ sent' = 0 /\ short' = FALSE
  /\ pc' = IF pc = "asleep" THEN "rested" ELSE pc
  /\ UNCHANGED <<worldVars, throttle, last_throttle_bytes, writeVars>>

ClientCloses ==
  /\ ~ closed /\ closed' = TRUE
  /\ UNCHANGED <<spec, stop_flag, connVars, pc, writeVars, sentVars>>

Stop ==
  /\ ~ stop_flag /\ stop_flag' = TRUE
  /\ UNCHANGED <<spec, closed, connVars, pc, writeVars, sentVars>>

WriteStep == Write \/ WriteFreely \/ WriteReturns \/ WriteMore

Next ==
  \/ NewRequest \/ WriteStep \/ Wake
  \/ Tick \/ ClientCloses \/ Stop

Spec == Init /\ [][Next]_vars

-----------------------------------------------------------------------------
(* Properties.                                                             *)

\* In one second a connection is sent at most twice the largest limit it has
\* (mongoose.c:1580-1606): what is left for the second, and a second's worth; but
\* what a send that comes short has sent is not counted, and no limit is left then.
RateAtMostDouble == throttle > 0 /\ ~ short => sent <= 2 * Max(Limits)

OneLimit == \A r, q \in Requests : SetThrottle(spec, r) = SetThrottle(spec, q)

CameShort == short' /\ (Write => total' < allowed')

\* A limited write that gives up early does so for a reason: the client is gone,
\* the server stops, the send that it has just made came short, or this request's
\* limit is below what another has already sent in this second
\* (mongoose.c:1585-1606).
WritesInFull ==
  (Write \/ WriteReturns \/ WriteMore) /\ pc' = "idle" /\ result' < len' =>
    closed \/ stop_flag \/ CameShort \/ ~ OneLimit

=============================================================================
