--------------------------- MODULE Streams_proofs ---------------------------
(***************************************************************************)
(* Proofs about the streams of mongoose that MCStreams joins: limited      *)
(* writes, websocket frames, redirects and connections, for every script   *)
(* of messages, however the bytes fall into reads, and for every rate and  *)
(* every size of a buffer or a chunk; and, with Transfers_proofs, about    *)
(* all that MCStreams checks but the liveness.                             *)
(*                                                                         *)
(* The invariant of a connection has three parts.  Placed says where the   *)
(* socket stands: at the end of what is buffered, or behind the part of    *)
(* the body that was taken.  InOrder says which message is at base, as     *)
(* long as nothing was left in the socket.  Given says what a handler was  *)
(* given: the first bytes of the body, as many as were counted as          *)
(* consumed.                                                               *)
(***************************************************************************)
EXTENDS Transfers_proofs

-----------------------------------------------------------------------------
(* Limited writes.                                                         *)

\* A finite set of numbers has a bound.
LEMMA FiniteIsBounded ==
  ASSUME NEW S \in SUBSET Nat, IsFiniteSet(S) PROVE \E m \in Nat : \A i \in S : i <= m
<1> DEFINE Bounded(n) == \A f \in [1 .. n -> Nat] : \E m \in Nat : \A i \in 1 .. n : f[i] <= m
           N == {n \in Nat : Bounded(n)}
<1>1. 0 \in N
  OBVIOUS
<1>2. ASSUME NEW n \in N PROVE n + 1 \in N
  <2>1. ASSUME NEW f \in [1 .. n + 1 -> Nat]
        PROVE  \E m \in Nat : \A i \in 1 .. n + 1 : f[i] <= m
    <3> DEFINE g == [i \in 1 .. n |-> f[i]]
    <3>1. g \in [1 .. n -> Nat]
      OBVIOUS
    <3>2. PICK m \in Nat : \A i \in 1 .. n : g[i] <= m
      <4> HIDE DEF g
      <4> QED
        BY <3>1
    <3>3. PICK l \in Nat : l = f[n + 1]
      OBVIOUS
    <3>4. ASSUME NEW i \in 1 .. n + 1 PROVE f[i] <= m + l
      <4>1. CASE i = n + 1
        BY <3>3, <4>1
      <4>2. CASE i # n + 1
        <5>1. i \in 1 .. n /\ f[i] = g[i] /\ g[i] \in Nat /\ g[i] <= m
          BY <3>1, <3>2, <4>2
        <5> QED
          BY <5>1
      <4> QED
        BY <4>1, <4>2
    <3>5. m + l \in Nat
      OBVIOUS
    <3> QED
      BY <3>4, <3>5
  <2>2. Bounded(n + 1)
    BY <2>1
  <2> HIDE DEF Bounded
  <2> QED
    BY <2>2
<1>3. N = Nat
  <2>1. N \in SUBSET Nat
    OBVIOUS
  <2> HIDE DEF N
  <2> QED
    BY <1>1, <1>2, <2>1, EveryNatural
<1>4. PICK n \in Nat : ExistsBijection(1 .. n, S)
  BY FS_NatBijection
<1>5. PICK f \in Bijection(1 .. n, S) : TRUE
  BY <1>4 DEF ExistsBijection
<1>6. f \in [1 .. n -> S] /\ \A s \in S : \E i \in 1 .. n : f[i] = s
  BY <1>5 DEF Bijection, Injection, Surjection
<1>7. PICK m \in Nat : \A i \in 1 .. n : f[i] <= m
  <2>1. n \in N
    <3> HIDE DEF N
    <3> QED
      BY <1>3
  <2>2. Bounded(n)
    <3> HIDE DEF Bounded
    <3> QED
      BY <2>1
  <2>3. f \in [1 .. n -> Nat]
    BY <1>6
  <2> QED
    BY <2>2, <2>3
<1> QED
  BY <1>6, <1>7

\* A set of numbers with a bound has a greatest one.
LEMMA GreatestNatural ==
  ASSUME NEW S \in SUBSET Nat, S # {}, NEW n \in Nat, \A i \in S : i <= n
  PROVE  \E i \in S : \A j \in S : j <= i
<1> DEFINE below == {b \in Nat : \A i \in S : i <= b}
<1>1. below \in SUBSET Nat /\ n \in below
  OBVIOUS
<1>2. PICK b \in below : \A c \in below : b <= c
  <2> HIDE DEF below
  <2> QED
    BY <1>1, LeastNatural
<1>3. b \in S
  <2> SUFFICES ASSUME b \notin S PROVE FALSE
    OBVIOUS
  <2>1. PICK i \in S : TRUE
    OBVIOUS
  <2>2. \A j \in S : j <= b - 1
    OBVIOUS
  <2>3. b - 1 \in below /\ ~ (b <= b - 1)
    BY <2>1, <2>2
  <2> QED
    BY <1>2, <2>3
<1> QED
  BY <1>3

\* A limit is a number.
LEMMA LimitIsNumber ==
  ASSUME Throttle!ThrottleAssumption, NEW s \in Specs, NEW r \in Requests
  PROVE  Throttle!SetThrottle(s, r) \in Nat
<1> DEFINE fit == {i \in DOMAIN s : /\ r \in s[i].matches /\ s[i].number >= 0
                                    /\ s[i].mult \in {"k", "m", ","}}
           at == CHOOSE i \in fit : \A j \in fit : j <= i
<1>1. s \in Seq([matches : SUBSET Requests, number : Int, mult : STRING])
  BY DEF Throttle!ThrottleAssumption
<1>2. PICK n \in Nat : n = Len(s) /\ DOMAIN s = 1 .. n
  BY <1>1, LenProperties
<1>5. \A i \in 1 .. n : s[i] \in [matches : SUBSET Requests, number : Int, mult : STRING]
  BY <1>1, <1>2, ElementOfSeq
<1>6. \A i \in 1 .. n : s[i].number \in Int
  BY <1>5
<1>3. CASE fit = {}
  BY <1>3 DEF Throttle!SetThrottle
<1>4. CASE fit # {}
  <2>1. \E i \in fit : \A j \in fit : j <= i
    <3>1. fit \subseteq 1 .. n
      BY <1>2
    <3>2. fit \in SUBSET Nat /\ \A i \in fit : i <= n
      <4> HIDE DEF fit
      <4> QED
        BY <3>1
    <3> HIDE DEF fit
    <3> QED
      BY <1>4, <3>2, GreatestNatural
  <2>2. at \in fit
    <3> HIDE DEF fit
    <3> QED
      BY <2>1
  <2>3. s[at].number \in Nat
    <3>1. at \in 1 .. n /\ s[at].number >= 0
      BY <1>2, <2>2
    <3> HIDE DEF at
    <3> QED
      BY <1>6, <3>1
  <2>4. PICK v \in Nat : v = s[at].number
    BY <2>3
  <2>5. Throttle!SetThrottle(s, r) = v * Throttle!Unit(s[at].mult)
    BY <1>4, <2>4 DEF Throttle!SetThrottle
  <2>6. \A u : v * Throttle!Unit(u) \in Nat
    <3>1. v * 1 \in Nat /\ v * 2 \in Nat /\ v * 4 \in Nat
      OBVIOUS
    <3> QED
      BY <3>1 DEF Throttle!Unit
  <2> QED
    BY <2>5, <2>6
<1> QED
  BY <1>3, <1>4

\* The largest limit
Most == Throttle!Max(Throttle!Limits)

LEMMA LimitsHaveMost ==
  ASSUME Throttle!ThrottleAssumption
  PROVE  /\ Most \in Nat /\ MaxLen \in Nat /\ 0 \in Throttle!Limits
         /\ \A l \in Throttle!Limits : l \in Nat /\ l <= Most
         /\ \A s \in Specs, r \in Requests : Throttle!SetThrottle(s, r) \in Throttle!Limits
<1>1. Throttle!Limits \in SUBSET Nat /\ 0 \in Throttle!Limits
  BY LimitIsNumber DEF Throttle!Limits
<1>2. IsFiniteSet(Throttle!Limits)
  BY DEF Throttle!ThrottleAssumption, Throttle!IsFiniteSet, IsFiniteSet
<1>3. PICK n \in Nat : \A l \in Throttle!Limits : l <= n
  BY <1>1, <1>2, FiniteIsBounded
<1>4. \E i \in Throttle!Limits : \A j \in Throttle!Limits : j <= i
  BY <1>1, <1>3, GreatestNatural
<1>5. Most \in Throttle!Limits /\ \A l \in Throttle!Limits : l <= Most
  BY <1>1, <1>4 DEF Most, Throttle!Max
<1>6. \A s \in Specs, r \in Requests : Throttle!SetThrottle(s, r) \in Throttle!Limits
  BY DEF Throttle!Limits
<1>7. MaxLen \in Nat
  BY DEF Throttle!ThrottleAssumption
<1> QED
  BY <1>1, <1>5, <1>6, <1>7

LEMMA ThrottleMin ==
  ASSUME NEW a \in Int, NEW b \in Int PROVE Throttle!Min({a, b}) = IF a <= b THEN a ELSE b
<1>1. Throttle!Min({a, b}) \in {a, b} /\ Throttle!Min({a, b}) <= a /\ Throttle!Min({a, b}) <= b
  <2>1. \E x \in {a, b} : \A y \in {a, b} : x <= y
    OBVIOUS
  <2> QED
    BY <2>1 DEF Throttle!Min
<1> QED
  BY <1>1

LEMMA ThrottleMax ==
  ASSUME NEW a \in Int, NEW b \in Int PROVE Throttle!Max({a, b}) = IF b <= a THEN a ELSE b
<1>1. Throttle!Max({a, b}) \in {a, b} /\ a <= Throttle!Max({a, b}) /\ b <= Throttle!Max({a, b})
  <2>1. \E x \in {a, b} : \A y \in {a, b} : x >= y
    OBVIOUS
  <2> QED
    BY <2>1 DEF Throttle!Max
<1> QED
  BY <1>1

\* Under one limit no second has more than it behind it.
OneLimitHolds ==
  Throttle!OneLimit => \A r \in Requests :
    last_throttle_bytes <= Throttle!SetThrottle(spec, r)
    /\ throttle \in {0, Throttle!SetThrottle(spec, r)}

\* What was sent in this second is what last_throttle_bytes says, and while the
\* worker sleeps a second's worth more.
SecondIsCounted ==
  /\ pc \in {"idle", "more"} => sent <= IF current THEN last_throttle_bytes ELSE 0
  /\ pc = "asleep" => sent <= last_throttle_bytes + throttle
  /\ pc = "rested" => sent = 0

\* Only a limited write has a loop, and a piece of what is left was pushed before it sleeps.
PieceIsLeft ==
  /\ pc \in {"more", "asleep", "rested"} => throttle > 0
  /\ pc \in {"asleep", "rested"} => allowed >= 0 /\ allowed <= throttle /\ total + allowed <= len

ThrottleInv == Throttle!TypeOK /\ OneLimitHolds /\ SecondIsCounted /\ PieceIsLeft

LEMMA ThrottleTypes ==
  ASSUME Throttle!ThrottleAssumption
  PROVE  Throttle!TypeOK <=>
         /\ spec \in Specs /\ closed \in BOOLEAN /\ stop_flag \in BOOLEAN
         /\ throttle \in Throttle!Limits
         /\ current \in BOOLEAN /\ last_throttle_bytes \in 0 .. Most
         /\ pc \in {"idle", "more", "asleep", "rested"}
         /\ len \in 0 .. MaxLen /\ total \in 0 .. len
         /\ allowed \in -Most .. MaxLen /\ sent \in Nat /\ short \in BOOLEAN
         /\ result \in 0 .. MaxLen
BY DEF Throttle!TypeOK, Most

\* The same of what is next
LEMMA ThrottleTypesNext ==
  ASSUME Throttle!ThrottleAssumption
  PROVE  Throttle!TypeOK' <=>
         /\ spec' \in Specs /\ closed' \in BOOLEAN /\ stop_flag' \in BOOLEAN
         /\ throttle' \in Throttle!Limits
         /\ current' \in BOOLEAN /\ last_throttle_bytes' \in 0 .. Most
         /\ pc' \in {"idle", "more", "asleep", "rested"}
         /\ len' \in 0 .. MaxLen /\ total' \in 0 .. len'
         /\ allowed' \in -Most .. MaxLen /\ sent' \in Nat /\ short' \in BOOLEAN
         /\ result' \in 0 .. MaxLen
BY DEF Throttle!TypeOK, Throttle!Limits, Most

\* Its numbers
LEMMA ThrottleNumbers ==
  ASSUME Throttle!ThrottleAssumption, ThrottleInv
  PROVE  /\ Most \in Nat /\ MaxLen \in Nat /\ throttle \in Nat /\ throttle <= Most
         /\ last_throttle_bytes \in Nat /\ last_throttle_bytes <= Most
         /\ len \in Nat /\ total \in Nat /\ allowed \in Int /\ sent \in Nat
         /\ \A r \in Requests : Throttle!SetThrottle(spec, r) \in Throttle!Limits
         /\ \A l \in Throttle!Limits : l \in Nat /\ l <= Most
<1>1. /\ spec \in Specs /\ throttle \in Throttle!Limits /\ last_throttle_bytes \in 0 .. Most
      /\ len \in 0 .. MaxLen /\ total \in 0 .. len /\ allowed \in -Most .. MaxLen
      /\ sent \in Nat
  BY ThrottleTypes DEF ThrottleInv
<1>2. /\ Most \in Nat /\ MaxLen \in Nat /\ \A l \in Throttle!Limits : l \in Nat /\ l <= Most
      /\ \A r \in Requests : Throttle!SetThrottle(spec, r) \in Throttle!Limits
  BY <1>1, LimitsHaveMost
<1>3. len \in Nat /\ total \in Nat /\ allowed \in Int
  BY <1>1, <1>2
<1> QED
  BY <1>1, <1>2, <1>3

LEMMA PushSends ==
  ASSUME NEW want \in Int, NEW n \in Nat, Throttle!Push(want, n)
  PROVE  n <= IF want <= 0 THEN 0 ELSE want
BY ThrottleMax DEF Throttle!Push

\* What is sent counts as long as nothing came short.
LEMMA SentSends ==
  ASSUME NEW want \in Int, NEW n \in Nat, Throttle!Sent(want, n)
  PROVE  /\ short' \in BOOLEAN
         /\ \/ sent' = sent
            \/ sent' = sent + n /\ ~ (n < want)
         /\ closed \/ short' \/ ~ (n < want)
BY DEF Throttle!Sent

LEMMA ThrottleInitHolds == ASSUME Throttle!ThrottleAssumption, Throttle!Init PROVE ThrottleInv
<1>1. Most \in Nat /\ MaxLen \in Nat /\ 0 \in Throttle!Limits
  BY LimitsHaveMost
<1>2. Throttle!TypeOK
  <2>1. 0 \in -Most .. MaxLen /\ 0 \in 0 .. Most /\ 0 \in 0 .. MaxLen /\ 0 \in 0 .. 0
    BY <1>1
  <2> QED
    BY <1>1, <2>1, ThrottleTypes DEF Throttle!Init
<1>3. \A r \in Requests : 0 <= Throttle!SetThrottle(spec, r)
  BY LimitIsNumber DEF Throttle!Init
<1>4. OneLimitHolds
  BY <1>3 DEF Throttle!Init, OneLimitHolds
<1>5. SecondIsCounted /\ PieceIsLeft
  BY DEF Throttle!Init, SecondIsCounted, PieceIsLeft
<1> QED
  BY <1>2, <1>4, <1>5 DEF ThrottleInv

LEMMA NewLimitKeeps ==
  ASSUME Throttle!ThrottleAssumption, ThrottleInv, Throttle!NewRequest PROVE ThrottleInv'
<1>1. PICK r \in Requests : throttle' = Throttle!SetThrottle(spec, r)
  BY DEF Throttle!NewRequest
<1>2. /\ UNCHANGED <<spec, closed, stop_flag, last_throttle_bytes, current, pc, len, total,
                     allowed, result, sent, short>> /\ pc = "idle"
  BY DEF Throttle!NewRequest, Throttle!worldVars, Throttle!writeVars, Throttle!sentVars
<1>3. Throttle!TypeOK'
  <2>1. throttle' \in Throttle!Limits
    BY <1>1, ThrottleNumbers
  <2> QED
    BY <1>2, <2>1, ThrottleTypes, ThrottleTypesNext DEF ThrottleInv
<1>4. OneLimitHolds'
  <2> SUFFICES ASSUME Throttle!OneLimit', NEW q \in Requests
               PROVE  /\ last_throttle_bytes' <= Throttle!SetThrottle(spec', q)
                      /\ throttle' \in {0, Throttle!SetThrottle(spec', q)}
    BY DEF OneLimitHolds
  <2>1. Throttle!OneLimit /\ spec' = spec
    BY <1>2 DEF Throttle!OneLimit
  <2>2. throttle' = Throttle!SetThrottle(spec, q)
    BY <1>1, <2>1 DEF Throttle!OneLimit
  <2> QED
    BY <1>2, <2>1, <2>2 DEF ThrottleInv, OneLimitHolds
<1>5. SecondIsCounted' /\ PieceIsLeft'
  BY <1>2 DEF ThrottleInv, SecondIsCounted, PieceIsLeft
<1> QED
  BY <1>3, <1>4, <1>5 DEF ThrottleInv

LEMMA WriteKeeps ==
  ASSUME Throttle!ThrottleAssumption, ThrottleInv, Throttle!Write PROVE ThrottleInv'
<1> DEFINE used == IF current THEN last_throttle_bytes ELSE 0
<1>0. /\ UNCHANGED <<spec, closed, stop_flag, throttle>> /\ pc = "idle" /\ throttle > 0
      /\ current' = TRUE
  BY DEF Throttle!Write, Throttle!worldVars
<1>1. PICK l \in 1 .. MaxLen, n \in 0 .. MaxLen :
        LET want == Throttle!Min({throttle - used, l}) IN
        /\ len' = l /\ allowed' = want /\ total' = n /\ Throttle!Push(want, n)
        /\ Throttle!Sent(want, n)
        /\ IF n # want THEN Throttle!Returns(n) /\ last_throttle_bytes' = used
           ELSE pc' = "more" /\ last_throttle_bytes' = used + n /\ UNCHANGED result
  BY DEF Throttle!Write
<1>2. /\ Most \in Nat /\ MaxLen \in Nat /\ throttle \in Nat /\ throttle <= Most
      /\ last_throttle_bytes \in Nat /\ last_throttle_bytes <= Most /\ sent \in Nat
      /\ sent <= used
  BY <1>0, ThrottleNumbers DEF ThrottleInv, SecondIsCounted
<1>3. PICK u \in Nat : u = used /\ u <= Most
  BY <1>2
<1>4. PICK want \in Int : /\ want = IF throttle - u <= l THEN throttle - u ELSE l
                          /\ want = Throttle!Min({throttle - used, l})
  <2>1. throttle - u \in Int /\ l \in Int
    BY <1>2
  <2> QED
    BY <1>3, <2>1, ThrottleMin
<1>5. n <= IF want <= 0 THEN 0 ELSE want
  BY <1>1, <1>4, PushSends
<1>6. /\ len' = l /\ allowed' = want /\ total' = n /\ short' \in BOOLEAN
      /\ sent' = sent \/ (sent' = sent + n /\ ~ (n < want))
      /\ \/ pc' = "idle" /\ n # want /\ result' = n /\ last_throttle_bytes' = u
         \/ pc' = "more" /\ n = want /\ last_throttle_bytes' = u + n /\ result' = result
  <2>1. short' \in BOOLEAN /\ (sent' = sent \/ (sent' = sent + n /\ ~ (n < want)))
    <3>1. Throttle!Sent(want, n) /\ n \in Nat
      BY <1>1, <1>2, <1>4
    <3> QED
      BY <3>1, SentSends
  <2>2. IF n # want THEN Throttle!Returns(n) /\ last_throttle_bytes' = used
        ELSE pc' = "more" /\ last_throttle_bytes' = used + n /\ UNCHANGED result
    BY <1>1, <1>4
  <2>3. \/ pc' = "idle" /\ n # want /\ result' = n /\ last_throttle_bytes' = u
        \/ pc' = "more" /\ n = want /\ last_throttle_bytes' = u + n /\ result' = result
    BY <1>3, <2>2 DEF Throttle!Returns
  <2>4. len' = l /\ allowed' = want /\ total' = n
    BY <1>1, <1>4
  <2> QED
    BY <2>1, <2>3, <2>4
<1>7. n \in Nat /\ l \in Nat /\ n <= l /\ l <= MaxLen /\ want <= l /\ -Most <= want
      /\ u + want <= throttle
  BY <1>2, <1>3, <1>4, <1>5
<1>8. last_throttle_bytes' \in 0 .. Most
  BY <1>2, <1>3, <1>6, <1>7
<1>9. Throttle!TypeOK'
  <2>1. len' \in 0 .. MaxLen /\ total' \in 0 .. len' /\ allowed' \in -Most .. MaxLen
        /\ pc' \in {"idle", "more", "asleep", "rested"}
    BY <1>2, <1>6, <1>7
  <2>2. sent' \in Nat
    BY <1>2, <1>6, <1>7
  <2>3. result' \in 0 .. MaxLen
    <3>1. result \in 0 .. MaxLen
      BY ThrottleTypes DEF ThrottleInv
    <3> QED
      BY <1>6, <3>1
  <2> QED
    BY <1>0, <1>6, <1>8, <2>1, <2>2, <2>3, ThrottleTypes, ThrottleTypesNext DEF ThrottleInv
<1>10. OneLimitHolds'
  <2> SUFFICES ASSUME Throttle!OneLimit', NEW q \in Requests
               PROVE  /\ last_throttle_bytes' <= Throttle!SetThrottle(spec', q)
                      /\ throttle' \in {0, Throttle!SetThrottle(spec', q)}
    BY DEF OneLimitHolds
  <2>1. Throttle!OneLimit /\ spec' = spec
    BY <1>0 DEF Throttle!OneLimit
  <2>2. /\ last_throttle_bytes <= Throttle!SetThrottle(spec, q)
        /\ throttle \in {0, Throttle!SetThrottle(spec, q)}
    BY <2>1 DEF ThrottleInv, OneLimitHolds
  <2>3. throttle = Throttle!SetThrottle(spec, q)
    BY <1>0, <2>2
  <2>4. u <= throttle
    BY <1>2, <1>3, <2>2, <2>3
  <2>5. last_throttle_bytes' <= throttle
    BY <1>2, <1>6, <1>7, <2>4
  <2> QED
    BY <1>0, <2>1, <2>3, <2>5
<1>11. SecondIsCounted'
  <2>1. sent' <= last_throttle_bytes'
    <3>1. sent <= u
      BY <1>2, <1>3
    <3>2. CASE sent' = sent
      BY <1>2, <1>3, <1>6, <1>7, <3>1, <3>2
    <3>3. CASE sent' = sent + n /\ ~ (n < want)
      <4>1. n = want \/ n = 0
        BY <1>5, <1>7, <3>3
      <4> QED
        BY <1>2, <1>3, <1>6, <1>7, <3>1, <3>3, <4>1
    <3> QED
      BY <1>6, <3>2, <3>3
  <2> QED
    BY <1>0, <1>6, <2>1 DEF SecondIsCounted
<1>12. PieceIsLeft'
  BY <1>0, <1>6 DEF PieceIsLeft
<1> QED
  BY <1>9, <1>10, <1>11, <1>12 DEF ThrottleInv

LEMMA WriteFreelyKeeps ==
  ASSUME Throttle!ThrottleAssumption, ThrottleInv, Throttle!WriteFreely PROVE ThrottleInv'
<1>1. PICK l \in 1 .. MaxLen, n \in 0 .. MaxLen :
        len' = l /\ total' = n /\ Throttle!Push(l, n) /\ Throttle!Returns(n)
  BY DEF Throttle!WriteFreely
<1>2. /\ UNCHANGED <<spec, closed, stop_flag, throttle, last_throttle_bytes, current,
                     allowed, sent, short>> /\ pc = "idle" /\ pc' = "idle" /\ result' = n
  BY <1>1 DEF Throttle!WriteFreely, Throttle!worldVars, Throttle!connVars, Throttle!sentVars,
              Throttle!Returns
<1>3. MaxLen \in Nat
  BY ThrottleNumbers
<1>4. n <= l
  BY <1>1, <1>3, PushSends
<1>5. len' \in 0 .. MaxLen /\ total' \in 0 .. len' /\ result' \in 0 .. MaxLen
  BY <1>1, <1>2, <1>3, <1>4
<1>6. Throttle!TypeOK'
  BY <1>2, <1>5, ThrottleTypes, ThrottleTypesNext DEF ThrottleInv
<1>7. OneLimitHolds' /\ SecondIsCounted' /\ PieceIsLeft'
  BY <1>2 DEF ThrottleInv, OneLimitHolds, Throttle!OneLimit, SecondIsCounted, PieceIsLeft
<1> QED
  BY <1>6, <1>7 DEF ThrottleInv

LEMMA WriteReturnsKeeps ==
  ASSUME Throttle!ThrottleAssumption, ThrottleInv, Throttle!WriteReturns PROVE ThrottleInv'
<1>1. /\ UNCHANGED <<spec, closed, stop_flag, throttle, last_throttle_bytes, current, len,
                     total, allowed, sent, short>>
      /\ pc = "more" /\ pc' = "idle" /\ result' = total
  BY DEF Throttle!WriteReturns, Throttle!worldVars, Throttle!connVars, Throttle!sentVars,
         Throttle!Returns
<1>2. result' \in 0 .. MaxLen
  <2>1. len \in 0 .. MaxLen /\ total \in 0 .. len /\ MaxLen \in Nat
    BY ThrottleTypes, ThrottleNumbers DEF ThrottleInv
  <2> QED
    BY <1>1, <2>1
<1>3. Throttle!TypeOK'
  BY <1>1, <1>2, ThrottleTypes, ThrottleTypesNext DEF ThrottleInv
<1>4. OneLimitHolds' /\ SecondIsCounted' /\ PieceIsLeft'
  BY <1>1 DEF ThrottleInv, OneLimitHolds, Throttle!OneLimit, SecondIsCounted, PieceIsLeft
<1> QED
  BY <1>3, <1>4 DEF ThrottleInv

LEMMA WriteMoreKeeps ==
  ASSUME Throttle!ThrottleAssumption, ThrottleInv, Throttle!WriteMore PROVE ThrottleInv'
<1>0. /\ UNCHANGED <<spec, closed, stop_flag, throttle, last_throttle_bytes, current, len, total>>
      /\ pc = "more" /\ total < len
  BY DEF Throttle!WriteMore, Throttle!worldVars, Throttle!connVars
<1>1. PICK n \in 0 .. MaxLen :
        LET want == Throttle!Min({throttle, len - total}) IN
        /\ Throttle!Push(want, n) /\ Throttle!Sent(want, n) /\ allowed' = want
        /\ IF n = want THEN pc' = "asleep" /\ UNCHANGED result ELSE Throttle!Returns(total)
  BY DEF Throttle!WriteMore
<1>2. /\ Most \in Nat /\ MaxLen \in Nat /\ throttle \in Nat /\ throttle <= Most /\ throttle > 0
      /\ last_throttle_bytes \in Nat /\ sent \in Nat /\ len \in Nat /\ total \in Nat
      /\ len <= MaxLen /\ total <= len /\ sent <= last_throttle_bytes
  <2>1. len \in 0 .. MaxLen /\ total \in 0 .. len
    BY ThrottleTypes DEF ThrottleInv
  <2>2. /\ Most \in Nat /\ MaxLen \in Nat /\ throttle \in Nat /\ throttle <= Most
        /\ last_throttle_bytes \in Nat /\ sent \in Nat /\ len \in Nat /\ total \in Nat
    BY ThrottleNumbers
  <2>3. throttle > 0 /\ sent <= IF current THEN last_throttle_bytes ELSE 0
    BY <1>0 DEF ThrottleInv, PieceIsLeft, SecondIsCounted
  <2>4. sent <= last_throttle_bytes
    BY <2>2, <2>3
  <2> QED
    BY <2>1, <2>2, <2>3, <2>4
<1>3. PICK want \in Int : /\ want = IF throttle <= len - total THEN throttle ELSE len - total
                          /\ want = Throttle!Min({throttle, len - total})
  BY <1>2, ThrottleMin
<1>4. want > 0 /\ want <= throttle /\ total + want <= len /\ want <= MaxLen
  BY <1>0, <1>2, <1>3
<1>5. n \in Nat /\ n <= want
  BY <1>1, <1>2, <1>3, <1>4, PushSends
<1>6. /\ allowed' = want /\ short' \in BOOLEAN
      /\ sent' = sent \/ (sent' = sent + n /\ ~ (n < want))
      /\ \/ pc' = "asleep" /\ n = want /\ result' = result
         \/ pc' = "idle" /\ n # want /\ result' = total
  <2>1. short' \in BOOLEAN /\ (sent' = sent \/ (sent' = sent + n /\ ~ (n < want)))
    <3>1. Throttle!Sent(want, n)
      BY <1>1, <1>3
    <3> QED
      BY <1>5, <3>1, SentSends
  <2>2. IF n = want THEN pc' = "asleep" /\ UNCHANGED result ELSE Throttle!Returns(total)
    BY <1>1, <1>3
  <2>3. allowed' = want
    BY <1>1, <1>3
  <2> QED
    BY <2>1, <2>2, <2>3 DEF Throttle!Returns
<1>7. n # want => sent' = sent
  BY <1>5, <1>6
<1>8. sent' \in Nat /\ sent' <= last_throttle_bytes + throttle
  BY <1>2, <1>4, <1>5, <1>6
<1>9. Throttle!TypeOK'
  <2>1. allowed' \in -Most .. MaxLen /\ pc' \in {"idle", "more", "asleep", "rested"}
    BY <1>2, <1>4, <1>6
  <2>2. result' \in 0 .. MaxLen
    <3>1. result \in 0 .. MaxLen /\ total \in 0 .. MaxLen
      BY <1>2, ThrottleTypes DEF ThrottleInv
    <3> QED
      BY <1>6, <3>1
  <2> QED
    BY <1>0, <1>6, <1>8, <2>1, <2>2, ThrottleTypes, ThrottleTypesNext DEF ThrottleInv
<1>10. OneLimitHolds'
  BY <1>0 DEF ThrottleInv, OneLimitHolds, Throttle!OneLimit
<1>11. SecondIsCounted'
  <2>1. CASE pc' = "asleep"
    BY <1>0, <1>8, <2>1 DEF SecondIsCounted
  <2>2. CASE pc' = "idle"
    <3>1. sent' = sent
      BY <1>6, <1>7, <2>2
    <3> QED
      BY <1>0, <2>2, <3>1 DEF ThrottleInv, SecondIsCounted
  <2> QED
    BY <1>6, <2>1, <2>2
<1>12. PieceIsLeft'
  BY <1>0, <1>2, <1>4, <1>6 DEF PieceIsLeft
<1> QED
  BY <1>9, <1>10, <1>11, <1>12 DEF ThrottleInv

LEMMA WakeKeeps ==
  ASSUME Throttle!ThrottleAssumption, ThrottleInv, Throttle!Wake PROVE ThrottleInv'
<1>0. /\ UNCHANGED <<spec, closed, stop_flag, throttle, len, allowed, result, sent, short>>
      /\ pc = "rested" /\ pc' = "more" /\ last_throttle_bytes' = allowed /\ current' = TRUE
      /\ total' = total + allowed
  BY DEF Throttle!Wake, Throttle!worldVars, Throttle!sentVars
<1>1. /\ allowed \in Nat /\ allowed <= throttle /\ total + allowed <= len /\ throttle > 0
      /\ sent = 0 /\ Most \in Nat /\ throttle \in Nat /\ throttle <= Most /\ total \in Nat
      /\ len \in Nat
  BY <1>0, ThrottleNumbers DEF ThrottleInv, PieceIsLeft, SecondIsCounted
<1>2. Throttle!TypeOK'
  <2>1. last_throttle_bytes' \in 0 .. Most /\ total' \in 0 .. len'
    BY <1>0, <1>1
  <2> QED
    BY <1>0, <2>1, ThrottleTypes, ThrottleTypesNext DEF ThrottleInv
<1>3. OneLimitHolds'
  <2> SUFFICES ASSUME Throttle!OneLimit', NEW q \in Requests
               PROVE  /\ last_throttle_bytes' <= Throttle!SetThrottle(spec', q)
                      /\ throttle' \in {0, Throttle!SetThrottle(spec', q)}
    BY DEF OneLimitHolds
  <2>1. Throttle!OneLimit /\ spec' = spec
    BY <1>0 DEF Throttle!OneLimit
  <2>2. throttle \in {0, Throttle!SetThrottle(spec, q)}
    BY <2>1 DEF ThrottleInv, OneLimitHolds
  <2>3. throttle = Throttle!SetThrottle(spec, q)
    BY <1>1, <2>2
  <2> QED
    BY <1>0, <1>1, <2>1, <2>3
<1>4. SecondIsCounted' /\ PieceIsLeft'
  BY <1>0, <1>1 DEF SecondIsCounted, PieceIsLeft
<1> QED
  BY <1>2, <1>3, <1>4 DEF ThrottleInv

LEMMA TickKeeps ==
  ASSUME Throttle!ThrottleAssumption, ThrottleInv, Throttle!Tick PROVE ThrottleInv'
<1>0. /\ UNCHANGED <<spec, closed, stop_flag, throttle, last_throttle_bytes, len, total, allowed,
                     result>>
      /\ current' = FALSE /\ sent' = 0 /\ short' = FALSE
      /\ pc' = IF pc = "asleep" THEN "rested" ELSE pc
  BY DEF Throttle!Tick, Throttle!worldVars, Throttle!writeVars
<1>1. Throttle!TypeOK'
  BY <1>0, ThrottleTypes, ThrottleTypesNext DEF ThrottleInv
<1>2. OneLimitHolds'
  BY <1>0 DEF ThrottleInv, OneLimitHolds, Throttle!OneLimit
<1>3. PieceIsLeft'
  BY <1>0 DEF ThrottleInv, PieceIsLeft
<1>4. SecondIsCounted'
  <2>1. pc' # "asleep"
    BY <1>0
  <2> QED
    BY <1>0, <2>1 DEF SecondIsCounted
<1> QED
  BY <1>1, <1>2, <1>3, <1>4 DEF ThrottleInv

LEMMA WorldKeeps ==
  ASSUME Throttle!ThrottleAssumption, ThrottleInv, closed' \in BOOLEAN, stop_flag' \in BOOLEAN,
         UNCHANGED <<spec, throttle, last_throttle_bytes, current, pc, len, total, allowed,
                     result, sent, short>>
  PROVE  ThrottleInv'
<1>1. Throttle!TypeOK'
  BY ThrottleTypes, ThrottleTypesNext DEF ThrottleInv
<1>2. OneLimitHolds'
  BY DEF ThrottleInv, OneLimitHolds, Throttle!OneLimit
<1>3. SecondIsCounted' /\ PieceIsLeft'
  BY DEF ThrottleInv, SecondIsCounted, PieceIsLeft
<1> QED
  BY <1>1, <1>2, <1>3 DEF ThrottleInv

LEMMA ThrottleNextKeeps ==
  ASSUME Throttle!ThrottleAssumption, ThrottleInv, [Throttle!Next]_Throttle!vars
  PROVE  ThrottleInv'
<1>1. CASE Throttle!NewRequest
  BY <1>1, NewLimitKeeps
<1>2. CASE Throttle!Write
  BY <1>2, WriteKeeps
<1>3. CASE Throttle!WriteFreely
  BY <1>3, WriteFreelyKeeps
<1>4. CASE Throttle!WriteReturns
  BY <1>4, WriteReturnsKeeps
<1>5. CASE Throttle!WriteMore
  BY <1>5, WriteMoreKeeps
<1>6. CASE Throttle!Wake
  BY <1>6, WakeKeeps
<1>7. CASE Throttle!Tick
  BY <1>7, TickKeeps
<1>8. CASE Throttle!ClientCloses \/ Throttle!Stop \/ UNCHANGED Throttle!vars
  <2>1. closed \in BOOLEAN /\ stop_flag \in BOOLEAN
    BY ThrottleTypes DEF ThrottleInv
  <2>2. /\ closed' \in BOOLEAN /\ stop_flag' \in BOOLEAN
        /\ UNCHANGED <<spec, throttle, last_throttle_bytes, current, pc, len, total, allowed,
                     result, sent, short>>
    BY <1>8, <2>1 DEF Throttle!ClientCloses, Throttle!Stop, Throttle!vars, Throttle!worldVars,
                      Throttle!connVars, Throttle!writeVars, Throttle!sentVars
  <2> QED
    BY <2>2, WorldKeeps
<1> QED
  BY <1>1, <1>2, <1>3, <1>4, <1>5, <1>6, <1>7, <1>8 DEF Throttle!Next, Throttle!WriteStep

\* A second sees no more than twice the largest limit.
LEMMA ThrottleIsRight ==
  ASSUME Throttle!ThrottleAssumption, ThrottleInv
  PROVE  Throttle!TypeOK /\ Throttle!RateAtMostDouble
<1>1. /\ Most \in Nat /\ throttle \in Nat /\ throttle <= Most /\ sent \in Nat
      /\ last_throttle_bytes \in Nat /\ last_throttle_bytes <= Most
  BY ThrottleNumbers
<1>2. sent <= last_throttle_bytes + throttle
  <2>1. pc \in {"idle", "more", "asleep", "rested"} /\ current \in BOOLEAN
    BY ThrottleTypes DEF ThrottleInv
  <2>2. CASE pc \in {"idle", "more"}
    BY <1>1, <2>1, <2>2 DEF ThrottleInv, SecondIsCounted
  <2>3. CASE pc = "asleep"
    BY <2>3 DEF ThrottleInv, SecondIsCounted
  <2>4. CASE pc = "rested"
    BY <1>1, <2>4 DEF ThrottleInv, SecondIsCounted
  <2> QED
    BY <2>1, <2>2, <2>3, <2>4
<1>3. sent <= 2 * Most
  BY <1>1, <1>2
<1>4. Throttle!RateAtMostDouble
  BY <1>3 DEF Throttle!RateAtMostDouble, Most
<1> QED
  BY <1>4 DEF ThrottleInv

\* Under one limit, no more than it is behind this second when a limited write asks.
LEMMA ThrottleWritesInFull ==
  ASSUME Throttle!ThrottleAssumption, ThrottleInv PROVE Throttle!WritesInFull
<1> SUFFICES ASSUME Throttle!Write \/ Throttle!WriteReturns \/ Throttle!WriteMore, pc' = "idle",
                    result' < len', ~ closed, ~ stop_flag, Throttle!OneLimit
             PROVE  Throttle!CameShort
  BY DEF Throttle!WritesInFull
<1>1. CASE Throttle!WriteReturns
  <2>1. total = len /\ result' = total /\ len' = len
    BY <1>1 DEF Throttle!WriteReturns, Throttle!Returns
  <2> QED
    BY <2>1, ThrottleNumbers
<1>2. CASE Throttle!WriteMore
  <2>1. PICK n \in 0 .. MaxLen :
          LET want == Throttle!Min({throttle, len - total}) IN
          /\ Throttle!Push(want, n) /\ Throttle!Sent(want, n)
          /\ IF n = want THEN pc' = "asleep" /\ UNCHANGED result ELSE Throttle!Returns(total)
    BY <1>2 DEF Throttle!WriteMore
  <2>2. pc = "more" /\ total < len
    BY <1>2 DEF Throttle!WriteMore
  <2>3. throttle \in Nat /\ throttle > 0 /\ len \in Nat /\ total \in Nat /\ n \in Nat
    BY <2>2, ThrottleNumbers DEF ThrottleInv, PieceIsLeft
  <2>4. PICK want \in Int : want = Throttle!Min({throttle, len - total}) /\ want > 0
    BY <2>2, <2>3, ThrottleMin
  <2>5. n # want /\ n <= want
    <3>1. Throttle!Push(want, n) /\ (n = want => pc' = "asleep")
      BY <2>1, <2>4
    <3>2. n <= IF want <= 0 THEN 0 ELSE want
      BY <2>3, <3>1, PushSends
    <3> QED
      BY <2>4, <3>1, <3>2
  <2>6. short'
    <3>1. Throttle!Sent(want, n)
      BY <2>1, <2>4
    <3>2. closed \/ short' \/ ~ (n < want)
      BY <2>3, <3>1, SentSends
    <3> QED
      BY <2>3, <2>5, <3>2
  <2>7. ~ Throttle!Write
    BY <2>2 DEF Throttle!Write
  <2> QED
    BY <2>6, <2>7 DEF Throttle!CameShort
<1>3. CASE Throttle!Write
  <2> DEFINE used == IF current THEN last_throttle_bytes ELSE 0
  <2>1. PICK l \in 1 .. MaxLen, n \in 0 .. MaxLen :
          LET want == Throttle!Min({throttle - used, l}) IN
          /\ allowed' = want /\ total' = n /\ Throttle!Push(want, n) /\ Throttle!Sent(want, n)
          /\ IF n # want THEN Throttle!Returns(n) /\ last_throttle_bytes' = used
             ELSE pc' = "more" /\ last_throttle_bytes' = used + n /\ UNCHANGED result
    BY <1>3 DEF Throttle!Write
  <2>2. throttle > 0 /\ pc = "idle" /\ \E r \in Requests : TRUE
    <3>1. throttle > 0 /\ pc = "idle"
      BY <1>3 DEF Throttle!Write
    <3>2. CASE Requests = {}
      <4>1. throttle = 0
        BY <3>2, ThrottleTypes DEF ThrottleInv, Throttle!Limits
      <4> QED
        BY <3>1, <4>1
    <3> QED
      BY <3>1, <3>2
  <2>3. PICK r \in Requests : TRUE
    BY <2>2
  <2>4. last_throttle_bytes <= throttle
    <3>1. /\ last_throttle_bytes <= Throttle!SetThrottle(spec, r)
          /\ throttle \in {0, Throttle!SetThrottle(spec, r)}
      BY DEF ThrottleInv, OneLimitHolds
    <3> QED
      BY <2>2, <3>1
  <2>5. PICK u \in Nat : u = used /\ u <= throttle
    BY <2>4, ThrottleNumbers
  <2>6. throttle \in Nat /\ n \in Nat /\ l \in Nat
    BY ThrottleNumbers
  <2>7. PICK want \in Int : want = Throttle!Min({throttle - used, l}) /\ want >= 0
    BY <2>5, <2>6, ThrottleMin
  <2>8. n < want /\ allowed' = want /\ total' = n
    <3>1. /\ Throttle!Push(want, n) /\ (n = want => pc' = "more")
          /\ allowed' = want /\ total' = n
      BY <2>1, <2>7
    <3>2. n <= IF want <= 0 THEN 0 ELSE want
      BY <2>6, <3>1, PushSends
    <3>3. n # want
      BY <3>1
    <3> QED
      BY <2>6, <2>7, <3>1, <3>2, <3>3
  <2>9. short'
    <3>1. Throttle!Sent(want, n)
      BY <2>1, <2>7
    <3>2. closed \/ short' \/ ~ (n < want)
      BY <2>6, <3>1, SentSends
    <3> QED
      BY <2>8, <3>2
  <2> QED
    BY <2>8, <2>9 DEF Throttle!CameShort
<1> QED
  BY <1>1, <1>2, <1>3

-----------------------------------------------------------------------------
(* Frames of a websocket.                                                  *)

\* The ends of the frames are numbers, each with its frame behind the one before.
LEMMA EndsAre ==
  ASSUME Websocket!MgWebsocketAssumption, sent \in Seq(Frames)
  PROVE  /\ Websocket!Ends \in [0 .. Len(sent) -> Nat] /\ Websocket!Ends[0] = 0
         /\ \A i \in 1 .. Len(sent) :
              Websocket!Ends[i] = Websocket!Ends[i - 1] + Websocket!HeaderLen(sent[i]) + sent[i].size
         /\ \A i \in 1 .. Len(sent) :
              Websocket!HeaderLen(sent[i]) \in Nat /\ Websocket!HeaderLen(sent[i]) >= 2
              /\ sent[i].size \in Nat
<1> DEFINE N == Len(sent)
           h(i) == Websocket!HeaderLen(sent[i])
           G == [i \in 1 .. N |-> [x \in Nat |-> x + h(i) + sent[i].size]]
           A == CHOOSE g : g = [i \in 0 .. N |->
                  IF i = 0 THEN 0 ELSE g[i - 1] + h(i) + sent[i].size]
<1>1. N \in Nat
  BY LenProperties
<1>2. ASSUME NEW i \in 1 .. N PROVE h(i) \in Nat /\ h(i) >= 2 /\ sent[i].size \in Nat
  <2>1. sent[i] \in [form : Websocket!Forms, masked : BOOLEAN, size : Nat, close : BOOLEAN]
    BY ElementOfSeq DEF Websocket!MgWebsocketAssumption
  <2>2. sent[i].form \in {2, 4, 10} /\ sent[i].size \in Nat
    BY <2>1 DEF Websocket!Forms
  <2>3. Websocket!MaskLen(sent[i]) \in {0, 4}
    BY DEF Websocket!MaskLen
  <2> QED
    BY <2>2, <2>3 DEF Websocket!HeaderLen
<1>3. PICK f \in [0 .. N -> Nat] : Follows(f, N, 0, G)
  <2>1. G \in [1 .. N -> [Nat -> Nat]]
    <3>1. \A i \in 1 .. N : \A x \in Nat : x + h(i) + sent[i].size \in Nat
      BY <1>2
    <3> HIDE DEF h
    <3> QED
      BY <3>1
  <2> HIDE DEF G
  <2> QED
    BY <1>1, <2>1, RecursionExists
<1>4. f = [i \in 0 .. N |-> IF i = 0 THEN 0 ELSE f[i - 1] + h(i) + sent[i].size]
  <2>1. ASSUME NEW i \in 0 .. N
        PROVE  f[i] = IF i = 0 THEN 0 ELSE f[i - 1] + h(i) + sent[i].size
    <3>1. CASE i = 0
      BY <1>3, <3>1 DEF Follows
    <3>2. CASE i # 0
      <4>1. i \in 1 .. N /\ i - 1 \in 0 .. N
        BY <1>1, <3>2
      <4>2. f[i] = G[i][f[i - 1]] /\ f[i - 1] \in Nat
        BY <1>3, <4>1 DEF Follows
      <4>3. G[i][f[i - 1]] = f[i - 1] + h(i) + sent[i].size
        <5> HIDE DEF h
        <5> QED
          BY <4>1, <4>2
      <4> QED
        BY <3>2, <4>2, <4>3
    <3> QED
      BY <3>1, <3>2
  <2> HIDE DEF h
  <2> QED
    BY <1>3, <2>1
<1>5. A = [i \in 0 .. N |-> IF i = 0 THEN 0 ELSE A[i - 1] + h(i) + sent[i].size]
  <2> HIDE DEF h
  <2> QED
    BY <1>4
<1>6. Websocket!Ends = A
  BY DEF Websocket!Ends
<1>7. \A i \in 0 .. N : A[i] = IF i = 0 THEN 0 ELSE A[i - 1] + h(i) + sent[i].size
  <2> HIDE DEF h, A
  <2> QED
    BY <1>5
<1>8. A[0] = 0 /\ \A i \in 1 .. N : A[i] = A[i - 1] + h(i) + sent[i].size
  <2>1. \A i \in 1 .. N : i \in 0 .. N /\ i # 0
    OBVIOUS
  <2>2. 0 \in 0 .. N
    BY <1>1
  <2> HIDE DEF h, A
  <2> QED
    BY <1>7, <2>1, <2>2
<1>9. A \in [0 .. N -> Nat]
  <2> DEFINE S == {i \in Nat : i <= N => A[i] \in Nat}
  <2>1. 0 \in S
    BY <1>8
  <2>2. ASSUME NEW i \in S PROVE i + 1 \in S
    <3> SUFFICES ASSUME i + 1 <= N PROVE A[i + 1] \in Nat
      OBVIOUS
    <3>1. i + 1 \in 1 .. N /\ A[i] \in Nat /\ (i + 1) - 1 = i
      <4> HIDE DEF A
      <4> QED
        BY <1>1
    <3>2. A[i + 1] = A[i] + h(i + 1) + sent[i + 1].size
      <4> HIDE DEF A, h
      <4> QED
        BY <1>8, <3>1
    <3>3. h(i + 1) \in Nat /\ sent[i + 1].size \in Nat
      BY <1>2, <3>1
    <3> HIDE DEF A, h
    <3> QED
      BY <3>1, <3>2, <3>3
  <2>3. S = Nat
    <3>1. S \in SUBSET Nat
      OBVIOUS
    <3> HIDE DEF S
    <3> QED
      BY <2>1, <2>2, <3>1, EveryNatural
  <2>4. \A i \in 0 .. N : A[i] \in Nat
    <3> HIDE DEF A
    <3> QED
      BY <1>1, <2>3
  <2>5. DOMAIN A = 0 .. N /\ A = [i \in 0 .. N |-> A[i]]
    <3> DEFINE v(i) == IF i = 0 THEN 0 ELSE A[i - 1] + h(i) + sent[i].size
    <3>1. A = [i \in 0 .. N |-> v(i)]
      BY <1>5
    <3> HIDE DEF A, v
    <3> QED
      BY <3>1
  <2> HIDE DEF A
  <2> QED
    BY <2>4, <2>5
<1> HIDE DEF A
<1> QED
  BY <1>2, <1>6, <1>8, <1>9

\* So they grow.
LEMMA EndsGrow ==
  ASSUME Websocket!MgWebsocketAssumption, sent \in Seq(Frames),
         NEW j \in 0 .. Len(sent), NEW i \in 0 .. Len(sent), i < j
  PROVE  Websocket!Ends[i] < Websocket!Ends[j]
<1> DEFINE En == Websocket!Ends
           N == Len(sent)
           S == {k \in Nat : i < k /\ k <= N => En[i] < En[k]}
<1>0. N \in Nat
  BY LenProperties
<1>1. 0 \in S
  OBVIOUS
<1>2. ASSUME NEW k \in S PROVE k + 1 \in S
  <2> SUFFICES ASSUME i < k + 1, k + 1 <= N PROVE En[i] < En[k + 1]
    OBVIOUS
  <2>1. k + 1 \in 1 .. N /\ (k + 1) - 1 = k /\ k \in 0 .. N
    BY <1>0
  <2>2. En[k + 1] = En[k] + Websocket!HeaderLen(sent[k + 1]) + sent[k + 1].size
    BY <2>1, EndsAre
  <2>3. /\ En[k] \in Nat /\ En[i] \in Nat /\ Websocket!HeaderLen(sent[k + 1]) \in Nat
        /\ Websocket!HeaderLen(sent[k + 1]) >= 2 /\ sent[k + 1].size \in Nat
    BY <2>1, EndsAre
  <2>4. En[k] < En[k + 1]
    BY <2>2, <2>3
  <2>5. CASE i = k
    BY <2>4, <2>5
  <2>6. CASE i < k
    <3>1. En[i] < En[k]
      BY <1>0, <2>1, <2>6
    <3> QED
      BY <2>2, <2>3, <3>1
  <2> QED
    BY <2>5, <2>6
<1>3. S = Nat
  <2>1. S \in SUBSET Nat
    OBVIOUS
  <2> HIDE DEF S
  <2> QED
    BY <1>1, <1>2, <2>1, EveryNatural
<1>4. j \in S
  BY <1>0, <1>3
<1> QED
  BY <1>0, <1>4

\* The payloads before this one were read in full.
Whole(i) == \A j \in 1 .. Len(told) : j < i => told[j].got = told[j].size

\* What was told is of the frames, in their order, as long as reads were whole.
TellsFrames ==
  \A i \in 1 .. Len(told) : Whole(i) =>
    /\ i <= Len(sent)
    /\ told[i].at = Websocket!Ends[i - 1] + Websocket!HeaderLen(sent[i])
    /\ told[i].size = sent[i].size

\* What was told lies in the stream one behind the other, and none before the last closes.
TellsOnce ==
  \A i \in 1 .. Len(told) :
    /\ told[i].at + told[i].got <= IF i = Len(told) THEN base ELSE told[i + 1].at
    /\ told[i].close => i = Len(told)

\* While it reads none closes, and the buffer starts with the next frame.
NextInBuffer ==
  /\ \A i \in 1 .. Len(told) : ~ told[i].close
  /\ Whole(Len(told) + 1) => Len(told) <= Len(sent) /\ base = Websocket!Ends[Len(told)]

Payload == [at : Nat, size : Nat, got : Nat, close : BOOLEAN]
WsInv ==
  /\ sent \in Seq(Frames) /\ told \in Seq(Payload)
  /\ base \in Nat /\ body_len \in Nat /\ base + body_len <= Websocket!Stream
  /\ head \in Websocket!HeadsAt(base)
  /\ TellsFrames /\ TellsOnce
  /\ pc = "read" => NextInBuffer

LEMMA StreamIs ==
  ASSUME Websocket!MgWebsocketAssumption, sent \in Seq(Frames)
  PROVE  Websocket!Stream = Websocket!Ends[Len(sent)] /\ Websocket!Stream \in Nat
         /\ Len(sent) \in Nat
<1>1. Len(sent) \in Nat /\ Len(sent) \in 0 .. Len(sent)
  BY LenProperties
<1> QED
  BY <1>1, EndsAre DEF Websocket!Stream

LEMMA WsInitHolds ==
  ASSUME Websocket!MgWebsocketAssumption, Websocket!Init PROVE WsInv
<1>1. sent \in UNION {[1 .. m -> Frames] : m \in 0 .. MaxFrames}
  BY DEF Websocket!Init, Websocket!BoundedSeq, Websocket!SeqOf
<1>2. sent \in Seq(Frames)
  <2>1. PICK n \in 0 .. MaxFrames : sent \in [1 .. n -> Frames]
    BY <1>1
  <2> QED
    BY <2>1, SeqDef
<1>3. told = <<>> /\ Len(told) = 0 /\ told \in Seq(Payload)
  BY DEF Websocket!Init
<1>4. /\ body_len \in Nat /\ body_len <= Websocket!Stream /\ base = 0
      /\ head \in Websocket!HeadsAt(base)
  BY DEF Websocket!Init, Websocket!MgWebsocketAssumption
<1>5. Websocket!Ends[0] = 0
  BY <1>2, EndsAre
<1>6. Websocket!Stream \in Nat /\ Len(sent) \in Nat
  BY <1>2, StreamIs
<1>7. TellsFrames /\ TellsOnce
  BY <1>3 DEF TellsFrames, TellsOnce
<1>8. NextInBuffer
  BY <1>3, <1>4, <1>5, <1>6 DEF NextInBuffer
<1> QED
  BY <1>2, <1>3, <1>4, <1>6, <1>7, <1>8 DEF WsInv

\* A header says what the headers of Frames say.
LEMMA HeadIs ==
  ASSUME Websocket!MgWebsocketAssumption, WsInv
  PROVE  /\ Websocket!HeaderLen(head) \in Nat /\ head.size \in Nat /\ head.close \in BOOLEAN
         /\ Len(told) \in Nat
<1>1. head \in Frames
  <2>1. \A i \in DOMAIN sent : sent[i] \in Frames
    BY ElementOfSeq, LenProperties DEF WsInv
  <2> QED
    BY <2>1 DEF WsInv, Websocket!HeadsAt
<1>2. head \in [form : Websocket!Forms, masked : BOOLEAN, size : Nat, close : BOOLEAN]
  BY <1>1 DEF Websocket!MgWebsocketAssumption
<1>3. head.form \in {2, 4, 10} /\ head.size \in Nat /\ head.close \in BOOLEAN
  BY <1>2 DEF Websocket!Forms
<1>4. Websocket!MaskLen(head) \in {0, 4}
  BY DEF Websocket!MaskLen
<1>5. Websocket!HeaderLen(head) \in Nat
  BY <1>3, <1>4 DEF Websocket!HeaderLen
<1> QED
  BY <1>3, <1>5, LenProperties DEF WsInv

\* As long as reads were whole, the header is that of the frame after those that were told.
LEMMA FrameIsNext ==
  ASSUME Websocket!MgWebsocketAssumption, WsInv, pc = "read", body_len >= 2, Whole(Len(told) + 1)
  PROVE  /\ base = Websocket!Ends[Len(told)] /\ Len(told) + 1 \in 1 .. Len(sent)
         /\ head = sent[Len(told) + 1]
         /\ Websocket!Ends[Len(told) + 1] = base + Websocket!HeaderLen(head) + head.size
<1> DEFINE En == Websocket!Ends
           n == Len(told)
<1>1. /\ sent \in Seq(Frames) /\ base \in Nat /\ body_len \in Nat /\ n \in Nat /\ n <= Len(sent)
      /\ base + body_len <= En[Len(sent)] /\ Len(sent) \in Nat /\ base = En[n]
  BY StreamIs, LenProperties DEF WsInv, NextInBuffer
<1>2. n # Len(sent)
  <2> SUFFICES ASSUME n = Len(sent) PROVE FALSE
    OBVIOUS
  <2>1. PICK b \in Nat, l \in Nat : b = base /\ l = body_len /\ l >= 2
    BY <1>1
  <2>2. b + l <= b
    BY <1>1, <2>1
  <2> QED
    BY <2>1, <2>2
<1>3. n + 1 \in 1 .. Len(sent) /\ (n + 1) - 1 = n /\ DOMAIN sent = 1 .. Len(sent)
  BY <1>1, <1>2, LenProperties
<1>4. ASSUME NEW i \in DOMAIN sent, En[i - 1] = base PROVE i = n + 1
  <2>1. i \in 1 .. Len(sent) /\ i - 1 \in 0 .. Len(sent) /\ n \in 0 .. Len(sent)
    BY <1>1, <1>3
  <2>2. En[i - 1] \in Nat /\ En[n] \in Nat
    BY <1>1, <2>1, EndsAre
  <2>3. ~ (i - 1 < n) /\ ~ (n < i - 1)
    BY <1>1, <1>4, <2>1, <2>2, EndsGrow
  <2> QED
    BY <1>1, <2>1, <2>3
<1>5. {i \in DOMAIN sent : En[i - 1] = base} = {n + 1}
  <2>1. n + 1 \in DOMAIN sent /\ En[(n + 1) - 1] = base
    BY <1>1, <1>3
  <2> HIDE DEF En, n
  <2> QED
    BY <1>4, <2>1
<1>6. head = sent[n + 1]
  <2>1. Websocket!HeadsAt(base) = {sent[i] : i \in {n + 1}}
    <3>1. {n + 1} # {}
      OBVIOUS
    <3> QED
      BY <1>5, <3>1 DEF Websocket!HeadsAt
  <2>2. head \in Websocket!HeadsAt(base)
    BY DEF WsInv
  <2> HIDE DEF n
  <2> QED
    BY <2>1, <2>2
<1>7. En[n + 1] = En[n] + Websocket!HeaderLen(sent[n + 1]) + sent[n + 1].size
  BY <1>1, <1>3, EndsAre
<1> QED
  BY <1>1, <1>3, <1>6, <1>7

\* The stream does not change.
LEMMA StreamStays ==
  ASSUME sent' = sent
  PROVE  /\ Websocket!Ends' = Websocket!Ends /\ Websocket!Stream' = Websocket!Stream
         /\ \A i : Websocket!HeaderLen(sent[i])' = Websocket!HeaderLen(sent[i])
         /\ \A b : (Websocket!HeadsAt(b))' = Websocket!HeadsAt(b)
<1>1. Websocket!Ends' = Websocket!Ends
  BY DEF Websocket!Ends, Websocket!HeaderLen, Websocket!MaskLen
<1>2. Websocket!Stream' = Websocket!Stream
  BY <1>1 DEF Websocket!Stream
<1> QED
  BY <1>1, <1>2 DEF Websocket!HeaderLen, Websocket!MaskLen, Websocket!HeadsAt

\* A payload, of which k bytes were read, is told as what its header says, and the next bytes
\* are those behind what was read.
LEMMA TellKeeps ==
  ASSUME Websocket!MgWebsocketAssumption, WsInv, Websocket!Frame,
         NEW k \in Nat, Websocket!Tell(k),
         Websocket!Moves(base + Websocket!HeaderLen(head) + k),
         body_len' \in Nat, base' + body_len' <= Websocket!Stream
  PROVE  WsInv'
<1> DEFINE n == Len(told)
           x == [at |-> base + Websocket!HeaderLen(head), size |-> head.size, got |-> k,
                 close |-> head.close]
<1>1. /\ sent \in Seq(Frames) /\ told \in Seq(Payload) /\ base \in Nat /\ sent' = sent
      /\ Websocket!HeaderLen(head) \in Nat /\ head.size \in Nat /\ head.close \in BOOLEAN
      /\ n \in Nat /\ pc = "read" /\ body_len >= 2
  BY HeadIs DEF WsInv, Websocket!Frame
<1>2. /\ base' = base + Websocket!HeaderLen(head) + k /\ head' \in Websocket!HeadsAt(base')
      /\ told' = Append(told, x) /\ (pc' = "read" => ~ head.close)
  BY DEF Websocket!Moves, Websocket!Tell
<1>3. x \in Payload
  BY <1>1 DEF Payload
<1>4. /\ told' \in Seq(Payload) /\ Len(told') = n + 1
      /\ told'[n + 1] = x /\ \A i \in 1 .. n : told'[i] = told[i]
  <2> HIDE DEF x
  <2> QED
    BY <1>1, <1>2, <1>3, AppendProperties
<1>5. \A i \in 1 .. n : told[i] \in Payload
  BY <1>1, ElementOfSeq
<1>6. ASSUME NEW i \in 1 .. n + 1, Whole(i)' PROVE Whole(i)
  <2> SUFFICES ASSUME NEW j \in 1 .. n, j < i PROVE told[j].got = told[j].size
    BY DEF Whole
  <2>1. j \in 1 .. Len(told') /\ told'[j] = told[j]
    BY <1>1, <1>4
  <2> QED
    BY <1>6, <2>1 DEF Whole
<1>7. TellsFrames'
  <2> SUFFICES ASSUME NEW i \in 1 .. n + 1, Whole(i)'
               PROVE  /\ i <= Len(sent)
                      /\ told'[i].at = Websocket!Ends[i - 1] + Websocket!HeaderLen(sent[i])
                      /\ told'[i].size = sent[i].size
    BY <1>1, <1>4, StreamStays DEF TellsFrames
  <2>1. Whole(i)
    BY <1>6
  <2>2. CASE i = n + 1
    <3>1. base = Websocket!Ends[n] /\ n + 1 \in 1 .. Len(sent) /\ head = sent[n + 1]
      BY <1>1, <2>1, <2>2, FrameIsNext
    <3>2. told'[i] = x /\ i - 1 = n /\ Len(sent) \in Nat
      BY <1>1, <1>4, <2>2, LenProperties
    <3>3. n + 1 <= Len(sent)
      BY <1>1, <3>1, <3>2
    <3> QED
      BY <2>2, <3>1, <3>2, <3>3
  <2>3. CASE i # n + 1
    <3>1. i \in 1 .. n
      BY <1>1, <2>3
    <3> QED
      BY <1>4, <2>1, <3>1 DEF WsInv, TellsFrames
  <2> QED
    BY <2>2, <2>3
<1>8. \A i \in 1 .. n : ~ told[i].close
  BY <1>1 DEF WsInv, NextInBuffer
<1>9. TellsOnce'
  <2> SUFFICES ASSUME NEW i \in 1 .. n + 1
               PROVE  /\ told'[i].at + told'[i].got <= IF i = n + 1 THEN base' ELSE told'[i + 1].at
                      /\ told'[i].close => i = n + 1
    BY <1>4 DEF TellsOnce
  <2>1. CASE i = n + 1
    <3>1. told'[i].at = base + Websocket!HeaderLen(head) /\ told'[i].got = k
      BY <1>4, <2>1
    <3> QED
      BY <1>1, <1>2, <2>1, <3>1
  <2>2. CASE i # n + 1
    <3>1. i \in 1 .. n /\ told'[i] = told[i] /\ ~ told[i].close
      BY <1>1, <1>4, <1>8, <2>2
    <3>2. told[i].at + told[i].got <= IF i = n THEN base ELSE told[i + 1].at
      BY <3>1 DEF WsInv, TellsOnce
    <3>3. told[i].at \in Nat /\ told[i].got \in Nat
      BY <1>5, <3>1 DEF Payload
    <3>4. CASE i = n
      <4>1. told'[i + 1].at = base + Websocket!HeaderLen(head)
        BY <1>4, <3>4
      <4>2. told[i].at + told[i].got <= base
        BY <3>2, <3>4
      <4> QED
        BY <1>1, <2>2, <3>1, <3>3, <4>1, <4>2
    <3>5. CASE i # n
      <4>1. i + 1 \in 1 .. n
        BY <1>1, <3>1, <3>5
      <4>2. told'[i + 1] = told[i + 1]
        BY <1>4, <4>1
      <4> QED
        BY <2>2, <3>1, <3>2, <3>5, <4>2
    <3> QED
      BY <3>4, <3>5
  <2> QED
    BY <2>1, <2>2
<1>10. ASSUME pc' = "read" PROVE NextInBuffer'
  <2>1. ASSUME NEW i \in 1 .. n + 1 PROVE ~ told'[i].close
    <3>1. CASE i = n + 1
      BY <1>2, <1>4, <1>10, <3>1
    <3>2. CASE i # n + 1
      <4>1. i \in 1 .. n
        BY <1>1, <3>2
      <4> QED
        BY <1>4, <1>8, <4>1
    <3> QED
      BY <3>1, <3>2
  <2>2. ASSUME Whole(n + 2)'
        PROVE  n + 1 <= Len(sent) /\ base' = Websocket!Ends[n + 1]
    <3>1. ASSUME NEW j \in 1 .. n + 1 PROVE told'[j].got = told'[j].size
      <4>1. j \in 1 .. Len(told') /\ j < n + 2
        BY <1>1, <1>4
      <4> QED
        BY <2>2, <4>1 DEF Whole
    <3>2. Whole(n + 1)
      <4> SUFFICES ASSUME NEW j \in 1 .. n PROVE told[j].got = told[j].size
        BY DEF Whole
      <4>1. j \in 1 .. n + 1
        BY <1>1
      <4> QED
        BY <1>4, <3>1, <4>1
    <3>3. k = head.size
      <4>1. n + 1 \in 1 .. n + 1
        BY <1>1
      <4>2. told'[n + 1].got = k /\ told'[n + 1].size = head.size
        BY <1>4
      <4> QED
        BY <3>1, <4>1, <4>2
    <3>4. /\ n + 1 \in 1 .. Len(sent)
          /\ Websocket!Ends[n + 1] = base + Websocket!HeaderLen(head) + head.size
      BY <1>1, <3>2, FrameIsNext
    <3>5. Len(sent) \in Nat
      BY <1>1, LenProperties
    <3>6. n + 1 <= Len(sent)
      BY <1>1, <3>4, <3>5
    <3> QED
      BY <1>2, <3>3, <3>4, <3>6
  <2>3. Whole(Len(told) + 1)' => Whole(n + 2)'
    <3>1. Len(told') + 1 = n + 2
      BY <1>1, <1>4
    <3> QED
      BY <3>1 DEF Whole
  <2>4. ASSUME Whole(Len(told) + 1)'
        PROVE  Len(told') <= Len(sent') /\ base' = Websocket!Ends'[Len(told')]
    <3>1. n + 1 <= Len(sent) /\ base' = Websocket!Ends[n + 1]
      BY <2>2, <2>3, <2>4
    <3>2. Websocket!Ends' = Websocket!Ends
      BY <1>1, StreamStays
    <3> QED
      BY <1>1, <1>4, <3>1, <3>2
  <2>5. \A i \in 1 .. Len(told') : ~ told'[i].close
    BY <1>4, <2>1
  <2> QED
    BY <2>4, <2>5 DEF NextInBuffer
<1>11. base' \in Nat
  BY <1>1, <1>2
<1>12. head' \in (Websocket!HeadsAt(base))' /\ Websocket!Stream' = Websocket!Stream
  <2>1. (Websocket!HeadsAt(base))' = Websocket!HeadsAt(base')
    BY <1>1, StreamStays DEF Websocket!HeadsAt
  <2> QED
    BY <1>1, <1>2, <2>1, StreamStays
<1> QED
  BY <1>1, <1>4, <1>7, <1>9, <1>10, <1>11, <1>12 DEF WsInv

LEMMA FrameBufferedKeeps ==
  ASSUME Websocket!MgWebsocketAssumption, WsInv, Websocket!FrameBuffered PROVE WsInv'
<1>1. PICK h \in Nat, z \in Nat : h = Websocket!HeaderLen(head) /\ z = head.size
  BY HeadIs
<1>2. /\ base \in Nat /\ body_len \in Nat /\ base + body_len <= Websocket!Stream
      /\ Websocket!Stream \in Nat
  BY StreamIs DEF WsInv
<1>3. /\ Websocket!Frame /\ body_len >= h + z /\ Websocket!Tell(z)
      /\ Websocket!Moves(base + Websocket!HeaderLen(head) + z) /\ body_len' = body_len - h - z
  BY <1>1 DEF Websocket!FrameBuffered
<1>4. base' = base + h + z
  BY <1>1, <1>3 DEF Websocket!Moves
<1>5. body_len' \in Nat /\ base' + body_len' <= Websocket!Stream
  BY <1>2, <1>3, <1>4
<1> QED
  BY <1>3, <1>5, TellKeeps

LEMMA FramePulledKeeps ==
  ASSUME Websocket!MgWebsocketAssumption, WsInv, Websocket!FramePulled PROVE WsInv'
<1>1. PICK h \in Nat, z \in Nat : h = Websocket!HeaderLen(head) /\ z = head.size
  BY HeadIs
<1>2. /\ base \in Nat /\ body_len \in Nat /\ base + body_len <= Websocket!Stream
      /\ Websocket!Stream \in Nat
  BY StreamIs DEF WsInv
<1>3. Websocket!Frame /\ body_len >= h /\ body_len < h + z /\ body_len' = 0
  BY <1>1 DEF Websocket!FramePulled
<1>4. PICK n \in 0 .. Websocket!Asked(h + z - body_len) :
        /\ base + body_len + n <= Websocket!Stream
        /\ Websocket!Tell(body_len - h + n) /\ Websocket!Moves(base + body_len + n)
  BY <1>1 DEF Websocket!FramePulled
<1>5. n \in Nat
  <2>1. PICK y \in Nat : y = h + z - body_len
    BY <1>2, <1>3
  <2>2. PICK m \in Nat : m = 2 * IntBound /\ m > 0
    BY DEF Websocket!MgWebsocketAssumption
  <2>3. y % m \in Int
    BY <2>2
  <2>4. Websocket!Asked(y) = (IF y % m < IntBound THEN y % m ELSE 0)
    BY <2>2 DEF Websocket!Asked
  <2>5. n \in 0 .. (IF y % m < IntBound THEN y % m ELSE 0)
    BY <1>4, <2>1, <2>4
  <2> QED
    BY <2>3, <2>5
<1>6. PICK k \in Nat : k = body_len - h + n
  BY <1>2, <1>3, <1>5
<1>7. base + body_len + n = base + h + k
  BY <1>2, <1>5, <1>6
<1>8. Websocket!Tell(k) /\ Websocket!Moves(base + Websocket!HeaderLen(head) + k)
  BY <1>1, <1>4, <1>6, <1>7
<1>9. base' = base + body_len + n
  BY <1>4 DEF Websocket!Moves
<1>10. body_len' \in Nat /\ base' + body_len' <= Websocket!Stream
  BY <1>2, <1>3, <1>4, <1>5, <1>9
<1> QED
  BY <1>3, <1>8, <1>10, TellKeeps

LEMMA WsNextKeeps ==
  ASSUME Websocket!MgWebsocketAssumption, WsInv, [Websocket!Next]_(Websocket!vars) PROVE WsInv'
<1>1. CASE Websocket!FrameBuffered
  BY <1>1, FrameBufferedKeeps
<1>2. CASE Websocket!FramePulled
  BY <1>2, FramePulledKeeps
<1>3. ASSUME sent' = sent, base' = base, head' = head, told' = told, body_len' \in Nat,
             base + body_len' <= Websocket!Stream, pc' = "read" => pc = "read"
      PROVE  WsInv'
  <2>1. \A i : Whole(i)' <=> Whole(i)
    BY <1>3 DEF Whole
  <2>2. TellsFrames' /\ TellsOnce'
    BY <1>3, <2>1, StreamStays DEF WsInv, TellsFrames, TellsOnce
  <2>3. NextInBuffer => NextInBuffer'
    BY <1>3, <2>1, StreamStays DEF NextInBuffer
  <2>4. (Websocket!HeadsAt(base))' = Websocket!HeadsAt(base)
    BY <1>3, StreamStays DEF Websocket!HeadsAt
  <2>5. Websocket!Stream' = Websocket!Stream
    BY <1>3, StreamStays
  <2> QED
    BY <1>3, <2>2, <2>3, <2>4, <2>5 DEF WsInv
<1>4. base \in Nat /\ body_len \in Nat /\ base + body_len <= Websocket!Stream /\ Websocket!Stream \in Nat
  BY StreamIs DEF WsInv
<1>5. CASE Websocket!FrameCut \/ Websocket!NoMemory \/ Websocket!PullNothing
  <2>1. /\ sent' = sent /\ base' = base /\ head' = head /\ told' = told /\ body_len' = body_len
        /\ pc' # "read"
    BY <1>5 DEF Websocket!FrameCut, Websocket!NoMemory, Websocket!PullNothing, Websocket!Frame
  <2> QED
    BY <1>3, <1>4, <2>1
<1>6. CASE Websocket!Pull
  <2>1. /\ sent' = sent /\ base' = base /\ head' = head /\ told' = told /\ pc' = pc
        /\ base + body_len < Websocket!Stream
    BY <1>6 DEF Websocket!Pull
  <2>2. PICK n \in 1 .. Websocket!Stream - base - body_len : body_len' = body_len + n
    BY <1>6 DEF Websocket!Pull
  <2>3. body_len' \in Nat /\ base + body_len' <= Websocket!Stream
    BY <1>4, <2>1, <2>2
  <2> QED
    BY <1>3, <2>1, <2>3
<1>7. CASE UNCHANGED Websocket!vars
  <2>1. /\ sent' = sent /\ base' = base /\ head' = head /\ told' = told /\ body_len' = body_len
        /\ pc' = pc
    BY <1>7 DEF Websocket!vars
  <2> QED
    BY <1>3, <1>4, <2>1
<1> QED
  BY <1>1, <1>2, <1>5, <1>6, <1>7 DEF Websocket!Next

LEMMA WsIsRight ==
  ASSUME WsInv
  PROVE  /\ Websocket!PayloadsInOrder /\ Websocket!BufferStartsAFrame
         /\ Websocket!NothingTwice /\ Websocket!NothingAfterClose
<1>1. DOMAIN told = 1 .. Len(told)
  BY LenProperties DEF WsInv
<1>2. \A i : Websocket!WholeBefore(i) <=> Whole(i)
  BY <1>1 DEF Websocket!WholeBefore, Whole
<1> QED
  BY <1>1, <1>2 DEF WsInv, TellsFrames, TellsOnce, NextInBuffer, Websocket!PayloadsInOrder,
    Websocket!BufferStartsAFrame, Websocket!NothingTwice, Websocket!NothingAfterClose

-----------------------------------------------------------------------------
(* The path of a URI.                                                      *)

\* What stands for the text from a character on: not longer than that, and if it is as
\* long, the same.
CopiedFrom(f, s, i) ==
  /\ f[i] \in Seq(Nat) /\ Len(f[i]) <= Len(s) + 1 - i
  /\ Len(f[i]) = Len(s) + 1 - i => \A k \in 1 .. Len(f[i]) : f[i][k] = s[i + k - 1]

\* A text that is copied from behind, each time one character and what follows a later
\* one, is not longer than before, and what is as long is the same.
LEMMA CopiesShrink ==
  ASSUME NEW s \in Seq(Nat), NEW f, f[Len(s) + 1] = <<>>,
         \A i \in 1 .. Len(s) : \E x \in Nat, n \in i + 1 .. Len(s) + 1 :
           f[i] = <<x>> \o f[n] /\ (n = i + 1 => x = s[i])
  PROVE  f[1] \in Seq(Nat) /\ Len(f[1]) <= Len(s) /\ (Len(f[1]) = Len(s) => f[1] = s)
<1>0. PICK L \in Nat : L = Len(s) /\ s \in [1 .. L -> Nat]
  BY LenProperties
<1>1. /\ f[L + 1] = <<>>
      /\ \A i \in 1 .. L : \E x \in Nat, n \in i + 1 .. L + 1 :
           f[i] = <<x>> \o f[n] /\ (n = i + 1 => x = s[i])
  BY <1>0
<1> DEFINE S == {i \in 1 .. L + 1 : CopiedFrom(f, s, i)}
<1>2. ASSUME NEW i \in 1 .. L + 1, \A j \in i + 1 .. L + 1 : j \in S PROVE i \in S
  <2>1. CASE i = L + 1
    <3>1. f[i] = <<>> /\ i \in 1 .. L + 1
      BY <1>1, <2>1
    <3>2. Len(f[i]) = 0 /\ f[i] \in Seq(Nat) /\ \A k \in 1 .. Len(f[i]) : FALSE
      BY <3>1
    <3>3. Len(s) + 1 - i = 0
      BY <1>0, <2>1
    <3>4. CopiedFrom(f, s, i)
      BY <3>2, <3>3 DEF CopiedFrom
    <3> QED
      BY <3>4
  <2>2. CASE i # L + 1
    <3>1. i \in 1 .. L
      BY <1>0, <2>2
    <3>2. PICK x \in Nat, n \in i + 1 .. L + 1 : f[i] = <<x>> \o f[n] /\ (n = i + 1 => x = s[i])
      BY <1>1, <3>1
    <3>3. n \in 1 .. L + 1 /\ CopiedFrom(f, s, n)
      BY <1>2
    <3>4. PICK m \in Nat : m = Len(f[n]) /\ f[n] \in Seq(Nat) /\ m <= L + 1 - n
      BY <1>0, <3>3, LenProperties DEF CopiedFrom
    <3>5. Len(f[i]) = 1 + m /\ f[i][1] = x /\ (\A k \in 1 .. m : f[i][k + 1] = f[n][k])
          /\ f[i] \in Seq(Nat)
      BY <3>2, <3>4
    <3>6. Len(f[i]) <= L + 1 - i
      BY <3>1, <3>4, <3>5
    <3>7. ASSUME Len(f[i]) = L + 1 - i, NEW k \in 1 .. Len(f[i]) PROVE f[i][k] = s[i + k - 1]
      <4>1. n = i + 1 /\ m = L + 1 - n
        <5>1. 1 + m = L + 1 - i
          BY <3>5, <3>7
        <5> QED
          BY <3>1, <3>4, <5>1
      <4>2. CASE k = 1
        BY <3>1, <3>2, <3>5, <4>1, <4>2
      <4>3. CASE k # 1
        <5>1. k - 1 \in 1 .. m /\ (k - 1) + 1 = k /\ n + (k - 1) - 1 = i + k - 1
          BY <3>1, <3>4, <3>5, <4>1, <4>3
        <5>2. f[n][k - 1] = s[n + (k - 1) - 1]
          BY <1>0, <3>3, <3>4, <4>1, <5>1 DEF CopiedFrom
        <5> QED
          BY <3>5, <5>1, <5>2
      <4> QED
        BY <4>2, <4>3
    <3> QED
      BY <1>0, <3>5, <3>6, <3>7 DEF CopiedFrom
  <2> QED
    BY <2>1, <2>2
<1>3. 1 \in S
  <2>1. S \in SUBSET Nat /\ 1 \in 1 .. L + 1 /\ 1 \in Nat /\ L + 1 \in Nat
    OBVIOUS
  <2> HIDE DEF S
  <2> QED
    BY <1>2, <2>1, EveryBackward
<1>4. CopiedFrom(f, s, 1)
  BY <1>3
<1>5. f[1] \in [1 .. Len(f[1]) -> Nat] /\ Len(f[1]) \in Nat
  BY <1>4, LenProperties DEF CopiedFrom
<1>6. Len(f[1]) <= L
  BY <1>0, <1>4, <1>5 DEF CopiedFrom
<1>7. ASSUME Len(f[1]) = L PROVE f[1] = s
  <2>1. ASSUME NEW k \in 1 .. L PROVE f[1][k] = s[k]
    <3>1. f[1][k] = s[1 + k - 1] /\ 1 + k - 1 = k
      BY <1>0, <1>4, <1>7 DEF CopiedFrom
    <3> QED
      BY <3>1
  <2>2. f[1] \in [1 .. L -> Nat]
    BY <1>5, <1>7
  <2> QED
    BY <1>0, <2>1, <2>2
<1> QED
  BY <1>0, <1>4, <1>6, <1>7 DEF CopiedFrom

\* What is decoded is not longer, and what is as long is the same.
LEMMA DecodedShrinks ==
  ASSUME NEW s \in Seq(Nat)
  PROVE  LET d == Dispatch!Decoded(s, FALSE) IN
         d \in Seq(Nat) /\ Len(d) <= Len(s) /\ (Len(d) = Len(s) => d = s)
<1> DEFINE L == Len(s)
           esc(i) == Dispatch!IsEscape(Dispatch!From(s, i))
           x(i) == 16 * Dispatch!HexToI(s[i + 1]) + Dispatch!HexToI(s[i + 2])
           y(i) == IF FALSE /\ s[i] = Dispatch!Plus THEN Dispatch!Space ELSE s[i]
           val(i, t) == IF i > L THEN <<>>
                        ELSE IF esc(i) THEN <<x(i)>> \o t[i + 3] ELSE <<y(i)>> \o t[i + 1]
           G == [i \in 1 .. L + 1 |-> [t \in [1 .. L + 1 -> Seq(Nat)] |-> val(i, t)]]
           A == CHOOSE d : d = [i \in 1 .. L + 1 |->
                  IF i > L THEN <<>>
                  ELSE IF esc(i) THEN <<x(i)>> \o d[i + 3] ELSE <<y(i)>> \o d[i + 1]]
<1>0. L \in Nat /\ s \in [1 .. L -> Nat]
  BY LenProperties
<1>1. ASSUME NEW i \in 1 .. L, esc(i) PROVE i + 3 \in 1 .. L + 1 /\ x(i) \in Nat
  <2>1. /\ Len(Dispatch!From(s, i)) = L - i + 1
        /\ Dispatch!From(s, i)[2] = s[i + 1] \/ L < i + 1
        /\ Dispatch!From(s, i)[3] = s[i + 2] \/ L < i + 2
    BY <1>0 DEF Dispatch!From
  <2>2. Len(Dispatch!From(s, i)) > 2 /\ Dispatch!IsHex(Dispatch!From(s, i)[2]) /\ Dispatch!IsHex(Dispatch!From(s, i)[3])
    BY <1>1 DEF Dispatch!IsEscape
  <2>3. i + 2 <= L /\ s[i + 1] \in Nat /\ s[i + 2] \in Nat
    BY <1>0, <2>1, <2>2 DEF Dispatch!From
  <2>4. Dispatch!IsHex(s[i + 1]) /\ Dispatch!IsHex(s[i + 2])
    <3>1. ~ (L < i + 1) /\ ~ (L < i + 2)
      BY <1>0, <2>3
    <3>2. Dispatch!From(s, i)[2] = s[i + 1] /\ Dispatch!From(s, i)[3] = s[i + 2]
      BY <2>1, <3>1
    <3> QED
      BY <2>2, <3>2
  <2>5. \A c \in Nat : Dispatch!IsHex(c) => Dispatch!HexToI(c) \in Nat
    BY DEF Dispatch!IsHex, Dispatch!HexToI, Dispatch!IsDigit, Dispatch!Lower
  <2> QED
    BY <1>0, <2>3, <2>4, <2>5
<1>2. ASSUME NEW i \in 1 .. L PROVE y(i) = s[i] /\ s[i] \in Nat /\ i + 1 \in 1 .. L + 1 /\ ~ (i > L)
  BY <1>0
<1>3. ASSUME NEW i \in 1 .. L + 1, NEW t \in [1 .. L + 1 -> Seq(Nat)] PROVE val(i, t) \in Seq(Nat)
  <2>1. CASE i > L
    BY <2>1
  <2>2. CASE ~ (i > L) /\ esc(i)
    <3>1. i \in 1 .. L
      BY <1>0, <2>2
    <3>2. x(i) \in Nat /\ t[i + 3] \in Seq(Nat) /\ val(i, t) = <<x(i)>> \o t[i + 3]
      BY <1>1, <2>2, <3>1
    <3> HIDE DEF x, val
    <3> QED
      BY <3>2
  <2>3. CASE ~ (i > L) /\ ~ esc(i)
    <3>1. i \in 1 .. L
      BY <1>0, <2>3
    <3>2. y(i) \in Nat /\ t[i + 1] \in Seq(Nat) /\ val(i, t) = <<y(i)>> \o t[i + 1]
      BY <1>2, <2>3, <3>1
    <3> HIDE DEF y, val
    <3> QED
      BY <3>2
  <2> QED
    BY <2>1, <2>2, <2>3
<1>4. PICK f \in [1 .. L + 1 -> Seq(Nat)] : Backward(f, 1, L + 1, G)
  <2>1. G \in [1 .. L + 1 -> [[1 .. L + 1 -> Seq(Nat)] -> Seq(Nat)]]
    <3> HIDE DEF val
    <3> QED
      BY <1>3
  <2>2. ASSUME NEW i \in 1 .. L + 1, NEW g \in [1 .. L + 1 -> Seq(Nat)],
               NEW h \in [1 .. L + 1 -> Seq(Nat)], Agree(g, h, i, L + 1)
        PROVE  G[i][g] = G[i][h]
    <3>1. G[i][g] = val(i, g) /\ G[i][h] = val(i, h)
      <4> HIDE DEF val
      <4> QED
        OBVIOUS
    <3>2. CASE i > L
      BY <3>1, <3>2
    <3>3. CASE ~ (i > L)
      <4>1. i \in 1 .. L /\ g[i + 1] = h[i + 1] /\ (esc(i) => g[i + 3] = h[i + 3])
        <5>1. i \in 1 .. L /\ i + 1 \in i + 1 .. L + 1
          BY <1>0, <3>3
        <5>2. esc(i) => i + 3 \in i + 1 .. L + 1
          <6> HIDE DEF esc, x
          <6> QED
            BY <1>0, <1>1, <5>1
        <5> HIDE DEF esc
        <5> QED
          BY <2>2, <5>1, <5>2 DEF Agree
      <4> HIDE DEF esc, x, y
      <4> QED
        BY <3>1, <4>1
    <3> QED
      BY <3>2, <3>3
  <2>3. Seq(Nat) # {} /\ 1 \in Nat /\ L + 1 \in Nat /\ 1 <= L + 1
    <3>1. <<>> \in Seq(Nat)
      OBVIOUS
    <3> QED
      BY <1>0, <3>1
  <2> HIDE DEF G, L
  <2> QED
    BY <2>1, <2>2, <2>3, BackwardExists
<1>5. f = [i \in 1 .. L + 1 |->
             IF i > L THEN <<>>
             ELSE IF esc(i) THEN <<x(i)>> \o f[i + 3] ELSE <<y(i)>> \o f[i + 1]]
  <2>1. ASSUME NEW i \in 1 .. L + 1 PROVE f[i] = val(i, f)
    <3>1. f[i] = G[i][f]
      <4> HIDE DEF G
      <4> QED
        BY <1>4 DEF Backward
    <3> HIDE DEF val
    <3> QED
      BY <3>1
  <2> HIDE DEF esc, x, y, L
  <2> QED
    BY <2>1
<1>6. A = [i \in 1 .. L + 1 |->
             IF i > L THEN <<>>
             ELSE IF esc(i) THEN <<x(i)>> \o A[i + 3] ELSE <<y(i)>> \o A[i + 1]]
  <2> HIDE DEF esc, x, y, L
  <2> QED
    BY <1>5
<1>7. Dispatch!Decoded(s, FALSE) = A[1]
  BY DEF Dispatch!Decoded
<1>8. PICK a : a = A
  OBVIOUS
<1>9. ASSUME NEW i \in 1 .. L + 1 PROVE a[i] = val(i, a)
  <2>1. a = [j \in 1 .. L + 1 |-> val(j, a)]
    BY <1>6, <1>8
  <2> HIDE DEF val, L
  <2> QED
    BY <2>1
<1>10. a[L + 1] = <<>>
  <2>1. L + 1 > L /\ L + 1 \in 1 .. L + 1
    BY <1>0
  <2>2. a[L + 1] = val(L + 1, a)
    BY <1>9, <2>1
  <2> HIDE DEF esc, x, y, L
  <2> QED
    BY <2>1, <2>2
<1>11. ASSUME NEW i \in 1 .. L
       PROVE  \E z \in Nat, n \in i + 1 .. L + 1 : a[i] = <<z>> \o a[n] /\ (n = i + 1 => z = s[i])
  <2>1. a[i] = val(i, a) /\ ~ (i > L)
    <3>1. i \in 1 .. L + 1 /\ ~ (i > L)
      BY <1>0
    <3> QED
      BY <1>9, <3>1
  <2>2. CASE esc(i)
    <3>1. i + 3 \in i + 1 .. L + 1 /\ x(i) \in Nat /\ i + 3 # i + 1
      <4>1. i + 3 \in 1 .. L + 1 /\ x(i) \in Nat
        BY <1>1, <2>2
      <4> HIDE DEF x
      <4> QED
        BY <1>0, <4>1
    <3>2. a[i] = <<x(i)>> \o a[i + 3]
      <4> HIDE DEF x, esc, y
      <4> QED
        BY <2>1, <2>2
    <3> HIDE DEF x
    <3> QED
      BY <3>1, <3>2
  <2>3. CASE ~ esc(i)
    <3>1. i + 1 \in i + 1 .. L + 1 /\ y(i) = s[i] /\ s[i] \in Nat
      BY <1>0, <1>2
    <3>2. a[i] = <<y(i)>> \o a[i + 1]
      <4> HIDE DEF y, esc, x
      <4> QED
        BY <2>1, <2>3
    <3> HIDE DEF y
    <3> QED
      BY <3>1, <3>2
  <2> QED
    BY <2>2, <2>3
<1>12. a[1] \in Seq(Nat) /\ Len(a[1]) <= L /\ (Len(a[1]) = L => a[1] = s)
  BY <1>10, <1>11, CopiesShrink
<1> HIDE DEF A
<1> QED
  BY <1>7, <1>8, <1>12

\* Skipping slashes and pairs of dots goes on, and not past the end.
LEMMA SkipDotsGoesOn ==
  ASSUME NEW s \in Seq(Nat), NEW from \in 1 .. Len(s) + 1
  PROVE  Dispatch!SkipDots(s, from) \in from .. Len(s) + 1
<1>0. PICK L \in Nat : L = Len(s) /\ s \in [1 .. L -> Nat]
  BY LenProperties
<1> DEFINE one(i) == i <= L /\ s[i] \in Dispatch!Slashes
           two(i) == i < L /\ s[i] = Dispatch!Dot /\ s[i + 1] = Dispatch!Dot
           val(i, t) == IF one(i) THEN t[i + 1] ELSE IF two(i) THEN t[i + 2] ELSE i
           G == [i \in 1 .. L + 1 |-> [t \in [1 .. L + 1 -> Nat] |-> val(i, t)]]
           A == CHOOSE d : d = [i \in 1 .. L + 1 |->
                  IF one(i) THEN d[i + 1] ELSE IF two(i) THEN d[i + 2] ELSE i]
<1>1. ASSUME NEW i \in 1 .. L + 1
      PROVE  /\ one(i) => i + 1 \in i + 1 .. L + 1 /\ i + 1 \in 1 .. L + 1
             /\ two(i) => i + 2 \in i + 1 .. L + 1 /\ i + 2 \in 1 .. L + 1
  OBVIOUS
<1>2. ASSUME NEW i \in 1 .. L + 1, NEW t \in [1 .. L + 1 -> Nat] PROVE val(i, t) \in Nat
  <2> HIDE DEF one, two
  <2> QED
    BY <1>1
<1>3. PICK f \in [1 .. L + 1 -> Nat] : Backward(f, 1, L + 1, G)
  <2>1. G \in [1 .. L + 1 -> [[1 .. L + 1 -> Nat] -> Nat]]
    <3> HIDE DEF val
    <3> QED
      BY <1>2
  <2>2. ASSUME NEW i \in 1 .. L + 1, NEW g \in [1 .. L + 1 -> Nat],
               NEW h \in [1 .. L + 1 -> Nat], Agree(g, h, i, L + 1)
        PROVE  G[i][g] = G[i][h]
    <3>1. G[i][g] = val(i, g) /\ G[i][h] = val(i, h)
      <4> HIDE DEF val
      <4> QED
        OBVIOUS
    <3>2. (one(i) => g[i + 1] = h[i + 1]) /\ (two(i) => g[i + 2] = h[i + 2])
      <4> HIDE DEF one, two
      <4> QED
        BY <1>1, <2>2 DEF Agree
    <3> HIDE DEF one, two, G
    <3> QED
      BY <3>1, <3>2
  <2>3. 1 \in Nat /\ L + 1 \in Nat /\ 1 <= L + 1
    OBVIOUS
  <2>4. Nat # {}
    OBVIOUS
  <2> HIDE DEF G
  <2> QED
    BY <2>1, <2>2, <2>3, <2>4, BackwardExists
<1>4. f = [i \in 1 .. L + 1 |-> IF one(i) THEN f[i + 1] ELSE IF two(i) THEN f[i + 2] ELSE i]
  <2>1. ASSUME NEW i \in 1 .. L + 1 PROVE f[i] = val(i, f)
    <3>1. f[i] = G[i][f]
      <4> HIDE DEF G
      <4> QED
        BY <1>3 DEF Backward
    <3> HIDE DEF val
    <3> QED
      BY <3>1
  <2> HIDE DEF one, two
  <2> QED
    BY <2>1
<1>5. A = [i \in 1 .. L + 1 |-> IF one(i) THEN A[i + 1] ELSE IF two(i) THEN A[i + 2] ELSE i]
  <2> HIDE DEF one, two
  <2> QED
    BY <1>4
<1>6. Dispatch!SkipDots(s, from) = A[from]
  BY <1>0 DEF Dispatch!SkipDots
<1>7. PICK a : a = A
  OBVIOUS
<1>8. ASSUME NEW i \in 1 .. L + 1 PROVE a[i] = val(i, a)
  <2>1. a = [j \in 1 .. L + 1 |-> val(j, a)]
    <3> HIDE DEF A, one, two
    <3> QED
      BY <1>5, <1>7
  <2> HIDE DEF val
  <2> QED
    BY <2>1
<1>9. \A i \in 1 .. L + 1 : a[i] \in i .. L + 1
  <2> DEFINE S == {i \in 1 .. L + 1 : a[i] \in i .. L + 1}
  <2>1. ASSUME NEW i \in 1 .. L + 1, \A j \in i + 1 .. L + 1 : j \in S PROVE i \in S
    <3>1. a[i] = val(i, a)
      BY <1>8
    <3>2. CASE one(i)
      <4>1. a[i] = a[i + 1] /\ i + 1 \in S
        <5> HIDE DEF one, two, S
        <5> QED
          BY <1>1, <2>1, <3>1, <3>2
      <4> QED
        BY <4>1
    <3>3. CASE ~ one(i) /\ two(i)
      <4>1. a[i] = a[i + 2] /\ i + 2 \in S
        <5> HIDE DEF one, two, S
        <5> QED
          BY <1>1, <2>1, <3>1, <3>3
      <4> QED
        BY <4>1
    <3>4. CASE ~ one(i) /\ ~ two(i)
      <4>1. a[i] = i
        <5> HIDE DEF one, two
        <5> QED
          BY <3>1, <3>4
      <4> QED
        BY <4>1
    <3> QED
      BY <3>2, <3>3, <3>4
  <2>2. \A i \in 1 .. L + 1 : i \in S
    <3>1. S \in SUBSET Nat /\ 1 \in Nat /\ L + 1 \in Nat
      OBVIOUS
    <3> HIDE DEF S
    <3> QED
      BY <2>1, <3>1, EveryBackward
  <2> QED
    BY <2>2
<1> HIDE DEF A
<1> QED
  BY <1>0, <1>6, <1>7, <1>9

\* What is left without double dots and double slashes is not longer, and what is as long
\* is the same.
LEMMA CleanedShrinks ==
  ASSUME NEW s \in Seq(Nat)
  PROVE  LET d == Dispatch!RemoveDoubleDots(s) IN
         d \in Seq(Nat) /\ Len(d) <= Len(s) /\ (Len(d) = Len(s) => d = s)
<1>0. PICK L \in Nat : L = Len(s) /\ s \in [1 .. L -> Nat]
  BY LenProperties
<1> DEFINE after(i) == IF s[i] \in Dispatch!Slashes THEN Dispatch!SkipDots(s, i + 1) ELSE i + 1
           val(i, t) == IF i > L THEN <<>> ELSE <<s[i]>> \o t[after(i)]
           G == [i \in 1 .. L + 1 |-> [t \in [1 .. L + 1 -> Seq(Nat)] |-> val(i, t)]]
           A == CHOOSE d : d = [i \in 1 .. L + 1 |->
                  IF i > L THEN <<>> ELSE <<s[i]>> \o d[after(i)]]
<1>1. ASSUME NEW i \in 1 .. L PROVE after(i) \in i + 1 .. L + 1 /\ after(i) \in 1 .. L + 1 /\ s[i] \in Nat
  <2>1. Dispatch!SkipDots(s, i + 1) \in i + 1 .. L + 1
    BY <1>0, SkipDotsGoesOn
  <2> QED
    BY <1>0, <2>1
<1>2. ASSUME NEW i \in 1 .. L + 1, NEW t \in [1 .. L + 1 -> Seq(Nat)] PROVE val(i, t) \in Seq(Nat)
  <2>1. CASE i > L
    BY <2>1
  <2>2. CASE ~ (i > L)
    <3>1. i \in 1 .. L
      BY <2>2
    <3>3. val(i, t) = <<s[i]>> \o t[after(i)]
      <4> HIDE DEF after
      <4> QED
        BY <2>2
    <3>2. t[after(i)] \in Seq(Nat) /\ s[i] \in Nat
      <4> HIDE DEF after
      <4> QED
        BY <1>1, <3>1
    <3> HIDE DEF after, val
    <3> QED
      BY <3>2, <3>3
  <2> QED
    BY <2>1, <2>2
<1>3. PICK f \in [1 .. L + 1 -> Seq(Nat)] : Backward(f, 1, L + 1, G)
  <2>1. G \in [1 .. L + 1 -> [[1 .. L + 1 -> Seq(Nat)] -> Seq(Nat)]]
    <3> HIDE DEF val
    <3> QED
      BY <1>2
  <2>2. ASSUME NEW i \in 1 .. L + 1, NEW g \in [1 .. L + 1 -> Seq(Nat)],
               NEW h \in [1 .. L + 1 -> Seq(Nat)], Agree(g, h, i, L + 1)
        PROVE  G[i][g] = G[i][h]
    <3>1. G[i][g] = val(i, g) /\ G[i][h] = val(i, h)
      <4> HIDE DEF val
      <4> QED
        OBVIOUS
    <3>2. CASE i > L
      BY <3>1, <3>2
    <3>3. CASE ~ (i > L)
      <4>1. g[after(i)] = h[after(i)]
        <5>1. i \in 1 .. L
          BY <3>3
        <5> HIDE DEF after
        <5> QED
          BY <1>1, <2>2, <5>1 DEF Agree
      <4> HIDE DEF after, G
      <4> QED
        BY <3>1, <4>1
    <3> QED
      BY <3>2, <3>3
  <2>3. 1 \in Nat /\ L + 1 \in Nat /\ 1 <= L + 1 /\ Seq(Nat) # {}
    <3>1. <<>> \in Seq(Nat)
      OBVIOUS
    <3> QED
      BY <3>1
  <2> HIDE DEF G
  <2> QED
    BY <2>1, <2>2, <2>3, BackwardExists
<1>4. f = [i \in 1 .. L + 1 |-> IF i > L THEN <<>> ELSE <<s[i]>> \o f[after(i)]]
  <2>1. ASSUME NEW i \in 1 .. L + 1 PROVE f[i] = val(i, f)
    <3>1. f[i] = G[i][f]
      <4> HIDE DEF G
      <4> QED
        BY <1>3 DEF Backward
    <3> HIDE DEF val
    <3> QED
      BY <3>1
  <2> HIDE DEF after
  <2> QED
    BY <2>1
<1>5. A = [i \in 1 .. L + 1 |-> IF i > L THEN <<>> ELSE <<s[i]>> \o A[after(i)]]
  <2> HIDE DEF after
  <2> QED
    BY <1>4
<1>6. Dispatch!RemoveDoubleDots(s) = A[1]
  BY <1>0 DEF Dispatch!RemoveDoubleDots
<1>7. PICK a : a = A
  OBVIOUS
<1>8. ASSUME NEW i \in 1 .. L + 1 PROVE a[i] = val(i, a)
  <2>1. a = [j \in 1 .. L + 1 |-> val(j, a)]
    BY <1>5, <1>7
  <2> HIDE DEF val
  <2> QED
    BY <2>1
<1>9. a[L + 1] = <<>>
  <2>1. L + 1 > L /\ L + 1 \in 1 .. L + 1
    OBVIOUS
  <2>2. a[L + 1] = val(L + 1, a)
    BY <1>8, <2>1
  <2> HIDE DEF after
  <2> QED
    BY <2>1, <2>2
<1>10. ASSUME NEW i \in 1 .. L
       PROVE  \E z \in Nat, n \in i + 1 .. L + 1 : a[i] = <<z>> \o a[n] /\ (n = i + 1 => z = s[i])
  <2>1. a[i] = val(i, a) /\ ~ (i > L)
    <3>1. i \in 1 .. L + 1 /\ ~ (i > L)
      OBVIOUS
    <3> QED
      BY <1>8, <3>1
  <2> HIDE DEF after
  <2> QED
    BY <1>1, <2>1
<1>11. a[1] \in Seq(Nat) /\ Len(a[1]) <= L /\ (Len(a[1]) = L => a[1] = s)
  BY <1>0, <1>9, <1>10, CopiesShrink
<1> HIDE DEF A
<1> QED
  BY <1>0, <1>6, <1>7, <1>11

\* The byte at the end of the URI is a slash only if it is one before it is decoded.
LEMMA LastIsSlash ==
  ASSUME NEW u \in Seq(Nat)
  PROVE  LET d == Dispatch!Decoded(u, FALSE) IN
         Dispatch!LastByte(u, d, Dispatch!RemoveDoubleDots(d)) = Dispatch!Slash
           => u[Len(u)] = Dispatch!Slash
<1> DEFINE d == Dispatch!Decoded(u, FALSE)
           c == Dispatch!RemoveDoubleDots(d)
<1>1. d \in Seq(Nat) /\ Len(d) <= Len(u) /\ (Len(d) = Len(u) => d = u)
  BY DecodedShrinks
<1>2. c \in Seq(Nat) /\ Len(c) <= Len(d) /\ (Len(c) = Len(d) => c = d)
  <2> HIDE DEF d
  <2> QED
    BY <1>1, CleanedShrinks
<1>3. Len(u) \in Nat /\ Len(d) \in Nat /\ Len(c) \in Nat
  <2> HIDE DEF d, c
  <2> QED
    BY <1>1, <1>2, LenProperties
<1>4. SUFFICES ASSUME Dispatch!LastByte(u, d, c) = Dispatch!Slash PROVE u[Len(u)] = Dispatch!Slash
  OBVIOUS
<1> HIDE DEF d, c
<1>5. CASE Len(u) <= Len(c)
  <2>1. Len(c) = Len(d) /\ Len(d) = Len(u)
    BY <1>1, <1>2, <1>3, <1>5
  <2>2. c = u
    BY <1>1, <1>2, <2>1
  <2> QED
    BY <1>4, <1>5, <2>2 DEF Dispatch!LastByte
<1>6. CASE ~ (Len(u) <= Len(c)) /\ (Len(u) = Len(c) + 1 \/ Len(u) = Len(d) + 1)
  BY <1>4, <1>6 DEF Dispatch!LastByte, Dispatch!Slash
<1>7. CASE /\ ~ (Len(u) <= Len(c)) /\ ~ (Len(u) = Len(c) + 1 \/ Len(u) = Len(d) + 1)
           /\ Len(u) <= Len(d)
  <2>1. Len(d) = Len(u)
    BY <1>1, <1>3, <1>7
  <2>2. d = u
    BY <1>1, <2>1
  <2> QED
    BY <1>4, <1>7, <2>2 DEF Dispatch!LastByte
<1>8. CASE /\ ~ (Len(u) <= Len(c)) /\ ~ (Len(u) = Len(c) + 1 \/ Len(u) = Len(d) + 1)
           /\ ~ (Len(u) <= Len(d))
  BY <1>4, <1>8 DEF Dispatch!LastByte
<1> QED
  BY <1>5, <1>6, <1>7, <1>8

\* A directory's list or its index file is sent only if the last byte is taken for a slash.
LEMMA DirectoriesEndInSlash ==
  ASSUME Dispatch!Decision(Dispatch!Branches) \in {"listing", "index"}
  PROVE  last = Dispatch!Slash
<1> DEFINE B == Dispatch!Branches
           taken == {i \in DOMAIN B : B[i][1]}
           k == Dispatch!First(taken)
           dir == Dispatch!IsDirectory(path)
           found == IF dir THEN Dispatch!IndexFile(path) ELSE {}
<1>1. DOMAIN B = 1 .. 18
  BY DEF Dispatch!Branches
<1>2. 18 \in taken
  <2>1. B[18][1] <=> TRUE
    BY DEF Dispatch!Branches
  <2>2. 18 \in DOMAIN B
    BY <1>1
  <2> HIDE DEF B
  <2> QED
    BY <2>1, <2>2
<1>3. taken \in SUBSET Nat /\ taken # {}
  BY <1>1, <1>2
<1>4. k \in taken /\ \A j \in taken : k <= j
  <2>1. \E i \in taken : \A j \in taken : i <= j
    <3> HIDE DEF taken
    <3> QED
      BY <1>3, LeastNatural
  <2> HIDE DEF taken
  <2> QED
    BY <2>1 DEF Dispatch!First
<1>5. B[k][2] \in {"listing", "index"}
  BY DEF Dispatch!Decision
<1>6. k \in 1 .. 18 /\ B[k][1]
  BY <1>1, <1>4
<1>7. k \in {13, 15, 16, 18}
  <2> HIDE DEF k
  <2> QED
    BY <1>5, <1>6 DEF Dispatch!Branches
<1>8. dir
  <2>1. CASE k = 13
    <3>1. B[13][1] <=> dir /\ found = {}
      BY DEF Dispatch!Branches
    <3>2. B[13][1]
      <4> HIDE DEF k, B
      <4> QED
        BY <1>6, <2>1
    <3> QED
      BY <3>1, <3>2
  <2>2. CASE k \in {15, 16, 18}
    <3>1. found # {}
      <4> HIDE DEF k
      <4> QED
        BY <1>5, <2>2 DEF Dispatch!Branches
    <3> QED
      BY <3>1
  <2> QED
    BY <1>7, <2>1, <2>2
<1>9. 11 \notin taken
  <2> HIDE DEF k, taken
  <2> QED
    BY <1>4, <1>7
<1>10. ~ B[11][1]
  BY <1>1, <1>9
<1>11. B[11][1] <=> dir /\ last # Dispatch!Slash
  BY DEF Dispatch!Branches
<1> QED
  BY <1>8, <1>10, <1>11

\* The URI is a text; what was taken for its last character when the path was found is a
\* slash only if it is one; and a directory was sent only under such a URI.
DispatchInv ==
  /\ uri \in Seq(Nat)
  /\ pc = "decide" => (last = Dispatch!Slash => uri[Len(uri)] = Dispatch!Slash)
  /\ Dispatch!LinksResolve

LEMMA DispatchInitHolds ==
  ASSUME Dispatch!MgDispatchAssumption, Dispatch!Init PROVE DispatchInv
BY DEF Dispatch!MgDispatchAssumption, Dispatch!Init, DispatchInv, Dispatch!LinksResolve

LEMMA DispatchNextKeeps ==
  ASSUME Dispatch!MgDispatchAssumption, DispatchInv, [Dispatch!Next]_(Dispatch!vars)
  PROVE  DispatchInv'
<1>1. CASE Dispatch!Receive
  <2>1. uri' = uri /\ answer' = answer /\ uri \in Seq(Nat)
    BY <1>1 DEF Dispatch!Receive, DispatchInv
  <2>2. LET d == Dispatch!Decoded(uri, FALSE) IN
        last' = Dispatch!LastByte(uri, d, Dispatch!RemoveDoubleDots(d))
    BY <1>1 DEF Dispatch!Receive
  <2>3. last' = Dispatch!Slash => uri[Len(uri)] = Dispatch!Slash
    BY <2>1, <2>2, LastIsSlash
  <2> QED
    BY <2>1, <2>3 DEF DispatchInv, Dispatch!LinksResolve
<1>2. CASE Dispatch!Decide
  <2>1. /\ pc = "decide" /\ uri \in Seq(Nat) /\ answer' = Dispatch!Decision(Dispatch!Branches)
        /\ last = Dispatch!Slash => uri[Len(uri)] = Dispatch!Slash
    BY <1>2 DEF Dispatch!Decide, DispatchInv
  <2>2. CASE answer' = "301"
    <3>1. uri' = Append(Dispatch!Cleaned(uri), Dispatch!Slash) /\ pc' = "ask"
      BY <1>2, <2>2 DEF Dispatch!Decide, Dispatch!Location
    <3>2. Dispatch!Cleaned(uri) \in Seq(Nat)
      <4>1. Dispatch!Decoded(uri, FALSE) \in Seq(Nat)
        BY <2>1, DecodedShrinks
      <4> QED
        BY <4>1, CleanedShrinks DEF Dispatch!Cleaned
    <3>3. uri' \in Seq(Nat)
      BY <3>1, <3>2, AppendProperties DEF Dispatch!Slash
    <3> QED
      BY <2>2, <3>1, <3>3 DEF DispatchInv, Dispatch!LinksResolve
  <2>3. CASE answer' # "301"
    <3>1. uri' = uri /\ pc' = "answered"
      BY <1>2, <2>3 DEF Dispatch!Decide
    <3>2. answer' \in {"listing", "index"} => uri[Len(uri)] = Dispatch!Slash
      BY <2>1, DirectoriesEndInSlash
    <3> QED
      BY <2>1, <3>1, <3>2 DEF DispatchInv, Dispatch!LinksResolve
  <2> QED
    BY <2>2, <2>3
<1>3. CASE UNCHANGED Dispatch!vars
  BY <1>3 DEF Dispatch!vars, DispatchInv, Dispatch!LinksResolve
<1> QED
  BY <1>1, <1>2, <1>3 DEF Dispatch!Next

-----------------------------------------------------------------------------
(* A connection.                                                           *)

\* Where the socket stands at each step.  A request that getreq refused may have
\* the content length of the one before it, but it closes the connection.
Placed ==
  /\ content_len < 0 => consumed_content = 0
  /\ pc = "read" => pos = base + data_len /\ consumed_content = 0
  /\ pc \in {"handle", "forward"} =>
       request_len > 0
       /\ pos = IF Connection!Buffered >= 0 THEN base + data_len ELSE Connection!Body + consumed_content
  /\ pc = "forward" => content_len >= 0 /\ (Connection!Left = 0 \/ Connection!Buffered <= 0)
  /\ pc = "returned" =>
       /\ pos >= Connection!Body + consumed_content
       /\ must_close \/ request_len > 0
       /\ (request_len > 0 /\ content_len >= 0) =>
            IF request_len + content_len < data_len THEN pos = base + data_len
                                                    ELSE pos <= Connection!Body + content_len

\* The requests so far are the first messages of the script, and base is where
\* the last of them, or the next, begins.
InOrder ==
  ~ strayed =>
    /\ Len(requests) <= Len(script)
    /\ \A i \in 1 .. Len(requests) : requests[i] = Connection!Start(i)
    /\ pc = "read" => base = Connection!Start(Len(requests) + 1)
    /\ (pc \in {"handle", "forward"} \/ (pc = "returned" /\ ~ must_close)) =>
         /\ Len(requests) > 0 /\ base = Connection!Start(Len(requests))
         /\ request_len = script[Len(requests)].head
         /\ content_len = Connection!ContentLen(script[Len(requests)])

\* What the handler was given of the body.
Given ==
  /\ pc = "read" => got = <<>> /\ success = "none" /\ ~ torn
  /\ (pc = "handle" /\ success = "none") => consumed_content = 0 /\ got = <<>> /\ ~ torn
  /\ pc = "forward" => success = "none"
  /\ (pc \in {"handle", "forward", "returned"} /\ ~ torn) =>
       /\ got = Connection!Bytes(Connection!Body, Len(got)) /\ Len(got) <= consumed_content
       /\ (pc # "returned" /\ success # "no") => Len(got) = consumed_content

\* What the client was told of the connection's end.
Told ==
  (pc = "returned" /\ announced = "close") =>
    ~ Connection!ShouldKeepAlive(asksToClose, unauthorized, must_close)

ConnectionInv == Connection!TypeOK /\ Placed /\ InOrder /\ Given /\ Told
-----------------------------------------------------------------------------
(* The stream.                                                             *)

\* Sums of the numbers of a sequence, one after another: up to every length there
\* is a function of them, and the one without is the least length without.
LEMMA SumsExist ==
  ASSUME NEW n \in Nat, NEW d, \A i \in 1 .. n : d[i] \in Nat
  PROVE  \E f \in [0 .. n -> Nat] :
           f = [i \in 0 .. n |-> IF i = 0 THEN 0 ELSE f[i - 1] + d[i]]
<1> DEFINE Has(m) == \E f \in [0 .. m -> Nat] :
                       f = [i \in 0 .. m |-> IF i = 0 THEN 0 ELSE f[i - 1] + d[i]]
           Hasnt  == {m \in 0 .. n : ~ Has(m)}
<1>1. Has(0)
  <2>1. [i \in 0 .. 0 |-> 0] \in [0 .. 0 -> Nat]
    OBVIOUS
  <2>2. [i \in 0 .. 0 |-> 0] =
          [i \in 0 .. 0 |-> IF i = 0 THEN 0 ELSE [j \in 0 .. 0 |-> 0][i - 1] + d[i]]
    OBVIOUS
  <2> QED
    BY <2>1, <2>2
<1>2. ASSUME NEW m \in 1 .. n, Has(m - 1) PROVE Has(m)
  <2>1. PICK f \in [0 .. m - 1 -> Nat] :
          f = [i \in 0 .. m - 1 |-> IF i = 0 THEN 0 ELSE f[i - 1] + d[i]]
    BY <1>2
  <2> DEFINE g == [i \in 0 .. m |-> IF i = m THEN f[m - 1] + d[m] ELSE f[i]]
  <2>2. f[m - 1] \in Nat /\ d[m] \in Nat
    BY <2>1
  <2>3. g \in [0 .. m -> Nat]
    BY <2>1, <2>2
  <2>4. ASSUME NEW i \in 0 .. m
        PROVE  g[i] = IF i = 0 THEN 0 ELSE g[i - 1] + d[i]
    <3>1. CASE i = m
      BY <3>1
    <3>2. CASE i # m
      <4>1. i \in 0 .. m - 1 /\ g[i] = f[i] /\ (i # 0 => g[i - 1] = f[i - 1])
        BY <3>2
      <4>2. f[i] = IF i = 0 THEN 0 ELSE f[i - 1] + d[i]
        BY <2>1, <4>1
      <4> QED
        BY <4>1, <4>2
    <3> QED
      BY <3>1, <3>2
  <2>5. g = [i \in 0 .. m |-> IF i = 0 THEN 0 ELSE g[i - 1] + d[i]]
    BY <2>4
  <2> HIDE DEF g
  <2> QED
    BY <2>3, <2>5
<1>3. Hasnt = {}
  <2> SUFFICES ASSUME Hasnt # {} PROVE FALSE
    OBVIOUS
  <2>1. Hasnt \in SUBSET Nat
    OBVIOUS
  <2> HIDE DEF Has
  <2>2. PICK m \in Hasnt : \A j \in Hasnt : m <= j
    <3> HIDE DEF Hasnt
    <3> QED
      BY <2>1, LeastNatural
  <2>3. m \in 1 .. n /\ Has(m - 1)
    BY <1>1, <2>2
  <2> QED
    BY <1>2, <2>2, <2>3
<1>4. Has(n)
  <2> HIDE DEF Has
  <2> QED
    BY <1>3
<1> QED
  BY <1>4

\* Where messages begin: the first at 0, and each behind the one before.
LEMMA OffsetStep ==
  ASSUME NEW s \in Seq(Connection!Messages)
  PROVE  /\ Connection!Offset(s, 1) = 0
         /\ \A k \in 1 .. Len(s) + 1 : Connection!Offset(s, k) \in Nat
         /\ \A k \in 1 .. Len(s) : Connection!Offset(s, k + 1) = Connection!Offset(s, k) + Connection!Size(s[k])
<1> DEFINE d == [i \in 1 .. Len(s) |-> Connection!Size(s[i])]
           before == CHOOSE f : f = [i \in 0 .. Len(s) |->
                                      IF i = 0 THEN 0 ELSE f[i - 1] + Connection!Size(s[i])]
<1>1. Len(s) \in Nat /\ \A i \in 1 .. Len(s) : d[i] = Connection!Size(s[i]) /\ d[i] \in Nat
  BY DEF Connection!Size, Connection!Messages
<1>2. PICK f \in [0 .. Len(s) -> Nat] :
        f = [i \in 0 .. Len(s) |-> IF i = 0 THEN 0 ELSE f[i - 1] + d[i]]
  <2> HIDE DEF d
  <2>1. \A i \in 1 .. Len(s) : d[i] \in Nat
    BY <1>1
  <2> QED
    BY <1>1, <2>1, SumsExist, Zenon
<1>3. f = [i \in 0 .. Len(s) |-> IF i = 0 THEN 0 ELSE f[i - 1] + Connection!Size(s[i])]
  <2> HIDE DEF d
  <2>1. ASSUME NEW i \in 0 .. Len(s), i # 0 PROVE d[i] = Connection!Size(s[i])
    BY <1>1, <2>1
  <2> QED
    BY <1>2, <2>1
<1>4. before = [i \in 0 .. Len(s) |-> IF i = 0 THEN 0 ELSE before[i - 1] + Connection!Size(s[i])]
  BY <1>3
<1>5. \A k : Connection!Offset(s, k) = before[k - 1]
  BY DEF Connection!Offset
<1> QED
  OBVIOUS

\* A message ends before the next begins.
LEMMA OffsetGrows ==
  ASSUME NEW s \in Seq(Connection!Messages), NEW k \in 1 .. Len(s)
  PROVE  /\ Connection!Size(s[k]) \in Nat \ {0} /\ s[k].head \in Nat \ {0} /\ s[k].body \in Nat
         /\ Connection!Size(s[k]) = s[k].head + s[k].body
         /\ \A j \in k + 1 .. Len(s) + 1 : Connection!Offset(s, k) + Connection!Size(s[k]) <= Connection!Offset(s, j)
<1>1. Len(s) \in Nat /\ \A i \in 1 .. Len(s) :
        /\ Connection!Size(s[i]) \in Nat \ {0} /\ s[i].head \in Nat \ {0} /\ s[i].body \in Nat
        /\ Connection!Size(s[i]) = s[i].head + s[i].body
  BY DEF Connection!Size, Connection!Messages
<1>2. /\ \A j \in 1 .. Len(s) + 1 : Connection!Offset(s, j) \in Nat
      /\ \A j \in 1 .. Len(s) : Connection!Offset(s, j + 1) = Connection!Offset(s, j) + Connection!Size(s[j])
  BY OffsetStep
<1> DEFINE bad == {j \in k + 1 .. Len(s) + 1 : Connection!Offset(s, k) + Connection!Size(s[k]) > Connection!Offset(s, j)}
<1>3. bad = {}
  <2> SUFFICES ASSUME bad # {} PROVE FALSE
    OBVIOUS
  <2>1. bad \in SUBSET Nat
    BY <1>1
  <2>2. PICK j \in bad : \A i \in bad : j <= i
    <3> HIDE DEF bad
    <3> QED
      BY <2>1, LeastNatural
  <2>3. j - 1 \in 1 .. Len(s) /\ Connection!Offset(s, j) = Connection!Offset(s, j - 1) + Connection!Size(s[j - 1])
    <3>1. j - 1 \in 1 .. Len(s)
      BY <1>1, <2>2
    <3> QED
      BY <1>1, <1>2, <3>1
  <2>4. j # k + 1
    BY <1>1, <1>2, <2>2, <2>3
  <2>5. j - 1 \in k + 1 .. Len(s) + 1 /\ j - 1 \notin bad
    BY <1>1, <2>2, <2>4
  <2>6. Connection!Offset(s, k) \in Nat /\ Connection!Offset(s, j) \in Nat /\ Connection!Offset(s, j - 1) \in Nat
        /\ Connection!Size(s[j - 1]) \in Nat /\ Connection!Size(s[k]) \in Nat
    BY <1>1, <1>2, <2>2, <2>3
  <2>7. Connection!Offset(s, k) + Connection!Size(s[k]) <= Connection!Offset(s, j - 1)
    BY <2>5, <2>6
  <2>8. Connection!Offset(s, k) + Connection!Size(s[k]) > Connection!Offset(s, j)
    BY <2>2
  <2> HIDE DEF bad
  <2> QED
    BY <2>3, <2>6, <2>7, <2>8
<1>4. ASSUME NEW j \in k + 1 .. Len(s) + 1 PROVE Connection!Offset(s, k) + Connection!Size(s[k]) <= Connection!Offset(s, j)
  <2>1. Connection!Offset(s, k) \in Nat /\ Connection!Offset(s, j) \in Nat /\ Connection!Size(s[k]) \in Nat
    BY <1>1, <1>2
  <2>2. ~ (Connection!Offset(s, k) + Connection!Size(s[k]) > Connection!Offset(s, j))
    BY <1>3
  <2> QED
    BY <2>1, <2>2
<1> QED
  BY <1>1, <1>4

\* The same of the connection's script.
LEMMA Stream ==
  ASSUME Connection!ConnectionAssumption, script \in Scripts
  PROVE  /\ script \in Seq(Connection!Messages) /\ Len(script) \in Nat /\ Connection!Total \in Nat
         /\ Connection!Start(1) = 0
         /\ \A k \in 1 .. Len(script) + 1 : Connection!Start(k) \in Nat /\ Connection!Start(k) <= Connection!Total
         /\ \A k \in 1 .. Len(script) :
              /\ script[k] \in Connection!Messages
              /\ script[k].head \in Nat \ {0} /\ script[k].body \in Nat
              /\ Connection!Start(k + 1) = Connection!Start(k) + script[k].head + script[k].body
              /\ \A j \in k + 1 .. Len(script) + 1 : Connection!Start(k + 1) <= Connection!Start(j)
<1>1. script \in Seq(Connection!Messages) /\ Len(script) \in Nat
  BY DEF Connection!ConnectionAssumption
<1>2. /\ Connection!Start(1) = 0
      /\ \A k \in 1 .. Len(script) + 1 : Connection!Start(k) \in Nat
      /\ \A k \in 1 .. Len(script) : Connection!Start(k + 1) = Connection!Start(k) + Connection!Size(script[k])
  BY <1>1, OffsetStep DEF Connection!Start
<1>3. ASSUME NEW k \in 1 .. Len(script)
      PROVE  /\ script[k] \in Connection!Messages
             /\ script[k].head \in Nat \ {0} /\ script[k].body \in Nat
             /\ Connection!Size(script[k]) = script[k].head + script[k].body
             /\ \A j \in k + 1 .. Len(script) + 1 : Connection!Start(k) + Connection!Size(script[k]) <= Connection!Start(j)
  BY <1>1, OffsetGrows DEF Connection!Start
<1>4. Connection!Total \in Nat /\ \A k \in 1 .. Len(script) + 1 : Connection!Start(k) <= Connection!Total
  <2>1. Connection!Total = Connection!Start(Len(script) + 1)
    BY DEF Connection!Total
  <2>2. ASSUME NEW k \in 1 .. Len(script) PROVE Connection!Start(k) <= Connection!Start(Len(script) + 1)
    <3>1. Connection!Start(k) + Connection!Size(script[k]) <= Connection!Start(Len(script) + 1)
      BY <1>1, <1>3
    <3>2. Connection!Start(k) \in Nat /\ Connection!Start(Len(script) + 1) \in Nat
      BY <1>1, <1>2
    <3>3. Connection!Size(script[k]) \in Nat
      BY <1>3
    <3> QED
      BY <3>1, <3>2, <3>3
  <2> QED
    BY <1>1, <1>2, <2>1, <2>2
<1>5. ASSUME NEW k \in 1 .. Len(script)
      PROVE  /\ Connection!Start(k + 1) = Connection!Start(k) + script[k].head + script[k].body
             /\ \A j \in k + 1 .. Len(script) + 1 : Connection!Start(k + 1) <= Connection!Start(j)
  BY <1>1, <1>2, <1>3
<1> QED
  BY <1>1, <1>2, <1>3, <1>4, <1>5

-----------------------------------------------------------------------------
(* The buffer.                                                             *)

LEMMA MinIsLeast ==
  ASSUME NEW S \in SUBSET Int, NEW m \in S, \A n \in S : m <= n PROVE Connection!Min(S) = m
<1>1. Connection!Min(S) \in S /\ \A n \in S : Connection!Min(S) <= n
  BY DEF Connection!Min
<1>2. Connection!Min(S) \in Int /\ m \in Int /\ m <= Connection!Min(S) /\ Connection!Min(S) <= m
  BY <1>1
<1> QED
  BY <1>2

LEMMA MaxIsGreatest ==
  ASSUME NEW S \in SUBSET Int, NEW m \in S, \A n \in S : n <= m PROVE Connection!Max(S) = m
<1>1. Connection!Max(S) \in S /\ \A n \in S : n <= Connection!Max(S)
  BY DEF Connection!Max
<1>2. Connection!Max(S) \in Int /\ m \in Int /\ m <= Connection!Max(S) /\ Connection!Max(S) <= m
  BY <1>1
<1> QED
  BY <1>2

LEMMA MinOfTwo ==
  ASSUME NEW a \in Int, NEW b \in Int PROVE Connection!Min({a, b}) = IF a <= b THEN a ELSE b
BY MinIsLeast

LEMMA MaxOfTwo ==
  ASSUME NEW a \in Int, NEW b \in Int PROVE Connection!Max({a, b}) = IF b <= a THEN a ELSE b
BY MaxIsGreatest

LEMMA MinOfThree ==
  ASSUME NEW a \in Int, NEW b \in Int, NEW c \in Int
  PROVE  Connection!Min({a, b, c}) = IF a <= b /\ a <= c THEN a ELSE IF b <= c THEN b ELSE c
BY MinIsLeast

\* What getreq takes for a request lies in the buffer; if a message begins at base,
\* it is the head of that message, and behind the last there is none.
LEMMA RequestLenIs ==
  ASSUME Connection!ConnectionAssumption, script \in Scripts, base \in Nat, data_len \in Nat
  PROVE  /\ Connection!RequestLen \in 0 .. data_len
         /\ \A k \in 1 .. Len(script) : base = Connection!Start(k) =>
              Connection!RequestLen \in {0, script[k].head} /\ Connection!Aligned /\ Connection!Message = script[k]
         /\ base = Connection!Total => Connection!RequestLen = 0
<1> DEFINE ends == {Connection!Start(k) + script[k].head - base : k \in 1 .. Len(script)}
           here == {n \in ends : 0 < n /\ n <= data_len}
<1>0. Connection!RequestLen = IF here = {} THEN 0 ELSE Connection!Min(here)
  BY DEF Connection!RequestLen
<1>1. ends \in SUBSET Int /\ here \in SUBSET Nat
  <2>1. ASSUME NEW k \in 1 .. Len(script) PROVE Connection!Start(k) + script[k].head - base \in Int
    <3>1. Len(script) \in Nat /\ Connection!Start(k) \in Nat /\ script[k].head \in Nat
      BY Stream
    <3> QED
      BY <3>1
  <2> QED
    BY <2>1
<1>2. ASSUME here # {} PROVE Connection!Min(here) \in here /\ \A n \in here : Connection!Min(here) <= n
  <2> HIDE DEF here
  <2>1. PICK m \in here : \A n \in here : m <= n
    BY <1>1, <1>2, LeastNatural
  <2> QED
    BY <1>1, <2>1, MinIsLeast
<1>3. Connection!RequestLen \in 0 .. data_len
  BY <1>0, <1>1, <1>2
<1>4. ASSUME NEW k \in 1 .. Len(script), base = Connection!Start(k)
      PROVE  Connection!RequestLen \in {0, script[k].head} /\ Connection!Aligned /\ Connection!Message = script[k]
  <2>1. ASSUME NEW j \in 1 .. Len(script), j < k
        PROVE  Connection!Start(j) # base /\ Connection!Start(j) + script[j].head - base <= 0
    <3>1. /\ Len(script) \in Nat /\ Connection!Start(j) \in Nat /\ Connection!Start(k) \in Nat
          /\ script[j].head \in Nat \ {0} /\ script[j].body \in Nat
          /\ Connection!Start(j + 1) = Connection!Start(j) + script[j].head + script[j].body
      BY Stream
    <3>2. Connection!Start(j + 1) <= Connection!Start(k)
      <4>1. k \in j + 1 .. Len(script) + 1
        BY <2>1, <3>1
      <4> QED
        BY <4>1, Stream
    <3> QED
      BY <1>4, <3>1, <3>2
  <2>2. ASSUME NEW j \in 1 .. Len(script), j > k
        PROVE  Connection!Start(j) # base /\ Connection!Start(j) + script[j].head - base > script[k].head
    <3>0. \A i \in 1 .. Len(script) :
            /\ i \in 1 .. Len(script) + 1 /\ Connection!Start(i) \in Nat
            /\ script[i].head \in Nat /\ 0 < script[i].head /\ script[i].body \in Nat
      BY Stream
    <3>1. /\ Len(script) \in Nat /\ Connection!Start(j) \in Nat /\ Connection!Start(k) \in Nat
          /\ script[k].head \in Nat /\ script[k].body \in Nat
          /\ script[j].head \in Nat /\ 0 < script[k].head /\ 0 < script[j].head
      BY <3>0, Stream
    <3>2. Connection!Start(k) + script[k].head + script[k].body <= Connection!Start(j)
      <4>1. j \in k + 1 .. Len(script) + 1
        BY <2>2, <3>1
      <4> QED
        BY <4>1, Stream
    <3>3. \A x, y, hx, bx, hy \in Nat :
            (x + hx + bx <= y /\ 0 < hx /\ 0 < hy) => y # x /\ y + hy - x > hx
      OBVIOUS
    <3> QED
      BY <1>4, <3>1, <3>2, <3>3
  <2>3. Connection!AtBase = {k}
    BY <1>4, <2>1, <2>2 DEF Connection!AtBase
  <2>4. Connection!Aligned /\ Connection!Message = script[k]
    BY <2>3 DEF Connection!Aligned, Connection!Message
  <2>5. script[k].head \in ends /\ script[k].head \in Nat \ {0}
    BY <1>4, Stream
  <2>6. \A n \in here : n >= script[k].head
    <3>1. ASSUME NEW j \in 1 .. Len(script), 0 < Connection!Start(j) + script[j].head - base
          PROVE  Connection!Start(j) + script[j].head - base >= script[k].head
      <4>1. /\ Len(script) \in Nat /\ Connection!Start(j) \in Nat /\ Connection!Start(k) \in Nat
            /\ script[j].head \in Nat /\ script[k].head \in Nat
        BY Stream
      <4>2. j < k \/ j = k \/ j > k
        BY <4>1
      <4> QED
        BY <1>4, <2>1, <2>2, <3>1, <4>1, <4>2
    <3> QED
      BY <3>1
  <2>7. Connection!RequestLen \in {0, script[k].head}
    <3>1. CASE here = {}
      BY <1>0, <3>1
    <3>2. CASE here # {}
      <4>1. script[k].head \in here
        <5>1. PICK n \in here : n >= script[k].head
          BY <2>6, <3>2
        <5>2. n <= data_len /\ n \in Nat /\ 0 < script[k].head
          BY <1>1, <2>5, <5>1
        <5>3. script[k].head <= data_len
          BY <2>5, <5>1, <5>2
        <5>4. 0 < script[k].head /\ script[k].head <= data_len /\ script[k].head \in ends
          BY <2>5, <5>2, <5>3
        <5> HIDE DEF ends
        <5> QED
          BY <5>4
      <4> QED
        <5>1. here \in SUBSET Int /\ \A n \in here : script[k].head <= n
          BY <1>1, <2>6
        <5> HIDE DEF here
        <5>2. Connection!Min(here) = script[k].head
          BY <4>1, <5>1, MinIsLeast
        <5> QED
          BY <1>0, <3>2, <5>2
    <3> QED
      BY <3>1, <3>2
  <2> QED
    BY <2>4, <2>7
<1>5. ASSUME base = Connection!Total PROVE Connection!RequestLen = 0
  <2>1. ASSUME NEW j \in 1 .. Len(script) PROVE Connection!Start(j) + script[j].head - base <= 0
    <3>1. /\ Len(script) \in Nat /\ Connection!Start(j) \in Nat /\ Connection!Total \in Nat
          /\ script[j].head \in Nat /\ script[j].body \in Nat /\ Connection!Start(j + 1) <= Connection!Total
          /\ Connection!Start(j + 1) = Connection!Start(j) + script[j].head + script[j].body
      BY Stream
    <3> QED
      BY <1>5, <3>1
  <2>2. here = {}
    <3>1. ASSUME NEW n \in here PROVE FALSE
      <4>1. n \in Nat /\ 0 < n /\ n \in ends
        BY <1>1
      <4>2. n <= 0
        BY <2>1, <4>1
      <4> QED
        BY <4>1, <4>2
    <3> QED
      BY <3>1
  <2> QED
    BY <1>0, <2>2
<1> QED
  BY <1>3, <1>4, <1>5

-----------------------------------------------------------------------------
(* The bytes of a body.                                                    *)

LEMMA BytesAre ==
  ASSUME NEW from \in Int, NEW n \in Nat
  PROVE  /\ Len(Connection!Bytes(from, n)) = n /\ Connection!Bytes(from, n) \in Seq(from + 1 .. from + n)
         /\ Connection!Bytes(from, 0) = <<>>
         /\ \A i \in 1 .. n : Connection!Bytes(from, n)[i] = from + i
BY DEF Connection!Bytes

LEMMA BytesIn ==
  ASSUME NEW from \in Nat, NEW n \in Nat, NEW m \in Nat, n = 0 \/ from + n <= m
  PROVE  Connection!Bytes(from, n) \in Seq(1 .. m)
BY DEF Connection!Bytes

LEMMA JoinedIn ==
  ASSUME NEW S, NEW s \in Seq(S), NEW t \in Seq(S)
  PROVE  s \o t \in Seq(S) /\ Len(s \o t) = Len(s) + Len(t) /\ Len(s) \in Nat /\ Len(t) \in Nat
OBVIOUS

LEMMA BytesJoin ==
  ASSUME NEW from \in Int, NEW m \in Nat, NEW n \in Nat
  PROVE  Connection!Bytes(from, m) \o Connection!Bytes(from + m, n) = Connection!Bytes(from, m + n)
<1>1. Connection!Bytes(from, m) \in Seq(Int) /\ Connection!Bytes(from + m, n) \in Seq(Int)
      /\ Connection!Bytes(from, m + n) \in Seq(Int)
      /\ Len(Connection!Bytes(from, m)) = m /\ Len(Connection!Bytes(from + m, n)) = n
      /\ Len(Connection!Bytes(from, m + n)) = m + n
  BY DEF Connection!Bytes
<1>2. /\ Connection!Bytes(from, m) \o Connection!Bytes(from + m, n) \in Seq(Int)
      /\ Len(Connection!Bytes(from, m) \o Connection!Bytes(from + m, n)) = m + n
      /\ \A i \in 1 .. m + n : (Connection!Bytes(from, m) \o Connection!Bytes(from + m, n))[i] =
            IF i <= m THEN Connection!Bytes(from, m)[i] ELSE Connection!Bytes(from + m, n)[i - m]
  <2>1. ASSUME NEW s \in Seq(Int), NEW t \in Seq(Int), Len(s) = m, Len(t) = n
        PROVE  /\ s \o t \in Seq(Int) /\ Len(s \o t) = m + n
               /\ \A i \in 1 .. m + n : (s \o t)[i] = IF i <= m THEN s[i] ELSE t[i - m]
    BY <2>1, ConcatProperties
  <2> QED
    BY <1>1, <2>1
<1>3. ASSUME NEW i \in 1 .. m + n
      PROVE  (Connection!Bytes(from, m) \o Connection!Bytes(from + m, n))[i] = Connection!Bytes(from, m + n)[i]
  <2>1. Connection!Bytes(from, m + n)[i] = from + i
    BY DEF Connection!Bytes
  <2>2. i <= m => Connection!Bytes(from, m)[i] = from + i
    BY DEF Connection!Bytes
  <2>3. i > m => Connection!Bytes(from + m, n)[i - m] = from + m + (i - m)
    BY DEF Connection!Bytes
  <2> QED
    BY <1>2, <2>1, <2>2, <2>3
<1> QED
  BY <1>1, <1>2, <1>3, SeqEqual

-----------------------------------------------------------------------------
(* The steps.                                                              *)

LEMMA ConnectionFacts ==
  ASSUME Connection!ConnectionAssumption, Connection!TypeOK
  PROVE  /\ script \in Scripts /\ Connection!Total \in Nat /\ avail \in Nat /\ avail <= Connection!Total
         /\ pos \in Nat /\ pos <= avail /\ base \in Nat /\ base <= pos
         /\ data_len \in Nat /\ data_len <= BufSize /\ base + data_len <= pos
         /\ request_len \in Int /\ -1 <= request_len /\ request_len <= data_len
         /\ content_len \in Int /\ -1 <= content_len /\ content_len <= Connection!Total
         /\ consumed_content \in Nat /\ (content_len >= 0 => consumed_content <= content_len)
         /\ BufSize \in Nat \ {0} /\ ChunkSize \in Nat \ {0}
         /\ Len(requests) \in Nat /\ Len(got) \in Nat
<1>1. script \in Scripts /\ Connection!Total \in Nat
  BY Stream DEF Connection!TypeOK
<1> QED
  BY <1>1 DEF Connection!TypeOK, Connection!ConnectionAssumption

\* mg_read: what is taken from the buffer and then from the socket is contiguous,
\* and the socket stands behind it if it stood behind what was taken before.
LEMMA ReadArithmetic ==
  ASSUME NEW from \in Nat, NEW end \in Nat, NEW p \in Nat, NEW size \in Nat, NEW left \in Int,
         NEW buffered \in Nat, NEW n \in Nat, NEW all \in Nat, NEW sum \in Nat,
         p = IF end - from >= 0 THEN end ELSE from,
         buffered = IF end - from < 0 THEN 0
                    ELSE IF size <= end - from THEN size ELSE end - from,
         n <= size - buffered, n <= all - p, all <= sum, size <= left
  PROVE  /\ n > 0 => from + buffered = p
         /\ buffered > 0 => from + buffered <= sum
         /\ p + n <= all /\ p + n <= sum /\ buffered + n <= left
         /\ p <= p + n
         /\ p + n = IF end - (from + (buffered + n)) >= 0 THEN end ELSE from + (buffered + n)
OBVIOUS

LEMMA ReadRequestKeeps ==
  ASSUME Connection!ConnectionAssumption, ConnectionInv, Connection!ReadRequest PROVE ConnectionInv'
<1>0. PICK n \in Nat : /\ n <= BufSize - data_len /\ n <= avail - pos
                       /\ pos' = pos + n /\ data_len' = data_len + n
  <2>1. BufSize - data_len \in Int /\ avail - pos \in Int
    BY ConnectionFacts DEF ConnectionInv
  <2>2. Connection!Min({BufSize - data_len, avail - pos}) \in Int
        /\ Connection!Min({BufSize - data_len, avail - pos}) <= BufSize - data_len
        /\ Connection!Min({BufSize - data_len, avail - pos}) <= avail - pos
    BY <2>1, MinOfTwo
  <2> QED
    BY <2>1, <2>2 DEF Connection!ReadRequest
<1>1. Connection!TypeOK'
  BY <1>0, ConnectionFacts DEF ConnectionInv, Connection!TypeOK, Connection!Total, Connection!Start,
     Connection!Suggested, Connection!SendError, Connection!ReadRequest,
     Connection!clientVars, Connection!bufferVars, Connection!requestVars, Connection!bodyVars,
     Connection!responseVars
<1>2. Placed'
  BY <1>0, ConnectionFacts DEF ConnectionInv, Connection!TypeOK, Placed, Connection!Body,
     Connection!Left, Connection!Buffered, Connection!ReadRequest,
     Connection!clientVars, Connection!bufferVars, Connection!requestVars, Connection!bodyVars,
     Connection!responseVars
<1>3. InOrder'
  BY <1>0, ConnectionFacts DEF ConnectionInv, Connection!TypeOK, InOrder, Connection!Start,
     Connection!ReadRequest,
     Connection!clientVars, Connection!bufferVars, Connection!requestVars, Connection!bodyVars,
     Connection!responseVars
<1>4. Given'
  BY <1>0, ConnectionFacts, BytesAre DEF ConnectionInv, Given, Placed, Connection!TypeOK,
     Connection!Body, Connection!ReadRequest,
     Connection!clientVars, Connection!bufferVars, Connection!requestVars, Connection!bodyVars,
     Connection!responseVars
<1>5. Told'
  BY <1>0, ConnectionFacts DEF ConnectionInv, Told, Connection!ShouldKeepAlive,
     Connection!Suggested, Connection!SendError, Connection!TypeOK, Connection!ReadRequest,
     Connection!clientVars, Connection!bufferVars, Connection!requestVars, Connection!bodyVars,
     Connection!responseVars
<1> QED
  BY <1>1, <1>2, <1>3, <1>4, <1>5 DEF ConnectionInv

LEMMA NoRequestKeeps ==
  ASSUME Connection!ConnectionAssumption, ConnectionInv, Connection!NoRequest PROVE ConnectionInv'
<1>1. Connection!TypeOK'
  BY ConnectionFacts DEF ConnectionInv, Connection!TypeOK, Connection!Total, Connection!Start,
     Connection!Suggested, Connection!SendError, Connection!NoRequest, Connection!GetreqFails,
     Connection!clientVars, Connection!bufferVars, Connection!requestVars, Connection!bodyVars,
     Connection!responseVars
<1>2. Placed'
  BY ConnectionFacts DEF ConnectionInv, Connection!TypeOK, Placed, Connection!Body, Connection!Left,
     Connection!Buffered, Connection!NoRequest, Connection!GetreqFails,
     Connection!clientVars, Connection!bufferVars, Connection!requestVars, Connection!bodyVars,
     Connection!responseVars
<1>3. InOrder'
  BY ConnectionFacts DEF ConnectionInv, Connection!TypeOK, InOrder, Connection!Start,
     Connection!NoRequest, Connection!GetreqFails,
     Connection!clientVars, Connection!bufferVars, Connection!requestVars, Connection!bodyVars,
     Connection!responseVars
<1>4. Given'
  BY ConnectionFacts, BytesAre DEF ConnectionInv, Given, Placed, Connection!TypeOK, Connection!Body,
     Connection!NoRequest, Connection!GetreqFails,
     Connection!clientVars, Connection!bufferVars, Connection!requestVars, Connection!bodyVars,
     Connection!responseVars
<1>5. Told'
  BY ConnectionFacts DEF ConnectionInv, Told, Connection!ShouldKeepAlive, Connection!Suggested,
     Connection!SendError, Connection!TypeOK, Connection!NoRequest, Connection!GetreqFails,
     Connection!clientVars, Connection!bufferVars, Connection!requestVars, Connection!bodyVars,
     Connection!responseVars
<1> QED
  BY <1>1, <1>2, <1>3, <1>4, <1>5 DEF ConnectionInv

LEMMA RequestTooLargeKeeps ==
  ASSUME Connection!ConnectionAssumption, ConnectionInv, Connection!RequestTooLarge PROVE ConnectionInv'
<1>1. Connection!TypeOK'
  BY ConnectionFacts DEF ConnectionInv, Connection!TypeOK, Connection!Total, Connection!Start,
     Connection!Suggested, Connection!SendError, Connection!RequestTooLarge, Connection!GetreqFails,
     Connection!clientVars, Connection!bufferVars, Connection!requestVars, Connection!bodyVars,
     Connection!responseVars
<1>2. Placed'
  BY ConnectionFacts DEF ConnectionInv, Connection!TypeOK, Placed, Connection!Body, Connection!Left,
     Connection!Buffered, Connection!RequestTooLarge, Connection!GetreqFails,
     Connection!clientVars, Connection!bufferVars, Connection!requestVars, Connection!bodyVars,
     Connection!responseVars
<1>3. InOrder'
  BY ConnectionFacts DEF ConnectionInv, Connection!TypeOK, InOrder, Connection!Start,
     Connection!RequestTooLarge, Connection!GetreqFails,
     Connection!clientVars, Connection!bufferVars, Connection!requestVars, Connection!bodyVars,
     Connection!responseVars
<1>4. Given'
  BY ConnectionFacts, BytesAre DEF ConnectionInv, Given, Placed, Connection!TypeOK, Connection!Body,
     Connection!RequestTooLarge, Connection!GetreqFails,
     Connection!clientVars, Connection!bufferVars, Connection!requestVars, Connection!bodyVars,
     Connection!responseVars
<1>5. Told'
  BY ConnectionFacts DEF ConnectionInv, Told, Connection!ShouldKeepAlive, Connection!Suggested,
     Connection!SendError, Connection!TypeOK, Connection!RequestTooLarge, Connection!GetreqFails,
     Connection!clientVars, Connection!bufferVars, Connection!requestVars, Connection!bodyVars,
     Connection!responseVars
<1> QED
  BY <1>1, <1>2, <1>3, <1>4, <1>5 DEF ConnectionInv

LEMMA BadRequestKeeps ==
  ASSUME Connection!ConnectionAssumption, ConnectionInv, Connection!BadRequest PROVE ConnectionInv'
<1>0. Connection!RequestLen \in 0 .. data_len
  BY ConnectionFacts, RequestLenIs DEF ConnectionInv
<1>1. Connection!TypeOK'
  BY <1>0, ConnectionFacts DEF ConnectionInv, Connection!TypeOK, Connection!Total, Connection!Start,
     Connection!Suggested, Connection!SendError, Connection!BadRequest, Connection!GetreqFails,
     Connection!clientVars, Connection!bufferVars, Connection!requestVars, Connection!bodyVars,
     Connection!responseVars
<1>2. Placed'
  BY <1>0, ConnectionFacts DEF ConnectionInv, Connection!TypeOK, Placed, Connection!Body,
     Connection!Left, Connection!Buffered, Connection!BadRequest, Connection!GetreqFails,
     Connection!clientVars, Connection!bufferVars, Connection!requestVars, Connection!bodyVars,
     Connection!responseVars
<1>3. InOrder'
  BY <1>0, ConnectionFacts DEF ConnectionInv, Connection!TypeOK, InOrder, Connection!Start,
     Connection!BadRequest, Connection!GetreqFails,
     Connection!clientVars, Connection!bufferVars, Connection!requestVars, Connection!bodyVars,
     Connection!responseVars
<1>4. Given'
  BY <1>0, ConnectionFacts, BytesAre DEF ConnectionInv, Given, Placed, Connection!TypeOK,
     Connection!Body, Connection!BadRequest, Connection!GetreqFails,
     Connection!clientVars, Connection!bufferVars, Connection!requestVars, Connection!bodyVars,
     Connection!responseVars
<1>5. Told'
  BY <1>0, ConnectionFacts DEF ConnectionInv, Told, Connection!ShouldKeepAlive,
     Connection!Suggested, Connection!SendError, Connection!TypeOK, Connection!BadRequest,
     Connection!GetreqFails,
     Connection!clientVars, Connection!bufferVars, Connection!requestVars, Connection!bodyVars,
     Connection!responseVars
<1> QED
  BY <1>1, <1>2, <1>3, <1>4, <1>5 DEF ConnectionInv

LEMMA ForwardRefusedKeeps ==
  ASSUME Connection!ConnectionAssumption, ConnectionInv, Connection!ForwardRefused PROVE ConnectionInv'
<1>1. Connection!TypeOK'
  BY ConnectionFacts DEF ConnectionInv, Connection!TypeOK, Connection!Total, Connection!Start,
     Connection!Suggested, Connection!SendError, Connection!ForwardRefused,
     Connection!clientVars, Connection!bufferVars, Connection!requestVars, Connection!bodyVars,
     Connection!responseVars
<1>2. Placed'
  BY ConnectionFacts DEF ConnectionInv, Connection!TypeOK, Placed, Connection!Body, Connection!Left,
     Connection!Buffered, Connection!ForwardRefused,
     Connection!clientVars, Connection!bufferVars, Connection!requestVars, Connection!bodyVars,
     Connection!responseVars
<1>3. InOrder'
  BY ConnectionFacts DEF ConnectionInv, Connection!TypeOK, InOrder, Connection!Start,
     Connection!ForwardRefused,
     Connection!clientVars, Connection!bufferVars, Connection!requestVars, Connection!bodyVars,
     Connection!responseVars
<1>4. Given'
  BY ConnectionFacts, BytesAre DEF ConnectionInv, Given, Placed, Connection!TypeOK, Connection!Body,
     Connection!ForwardRefused,
     Connection!clientVars, Connection!bufferVars, Connection!requestVars, Connection!bodyVars,
     Connection!responseVars
<1>5. Told'
  BY ConnectionFacts DEF ConnectionInv, Told, Connection!ShouldKeepAlive, Connection!Suggested,
     Connection!SendError, Connection!TypeOK, Connection!ForwardRefused,
     Connection!clientVars, Connection!bufferVars, Connection!requestVars, Connection!bodyVars,
     Connection!responseVars
<1> QED
  BY <1>1, <1>2, <1>3, <1>4, <1>5 DEF ConnectionInv

LEMMA HandlerReturnsKeeps ==
  ASSUME Connection!ConnectionAssumption, ConnectionInv, Connection!HandlerReturns PROVE ConnectionInv'
<1>1. Connection!TypeOK'
  BY ConnectionFacts DEF ConnectionInv, Connection!TypeOK, Connection!Total, Connection!Start,
     Connection!Suggested, Connection!SendError, Connection!HandlerReturns,
     Connection!clientVars, Connection!bufferVars, Connection!requestVars, Connection!bodyVars,
     Connection!responseVars
<1>2. Placed'
  BY ConnectionFacts DEF ConnectionInv, Connection!TypeOK, Placed, Connection!Body, Connection!Left,
     Connection!Buffered, Connection!HandlerReturns,
     Connection!clientVars, Connection!bufferVars, Connection!requestVars, Connection!bodyVars,
     Connection!responseVars
<1>3. InOrder'
  BY ConnectionFacts DEF ConnectionInv, Connection!TypeOK, InOrder, Connection!Start,
     Connection!HandlerReturns,
     Connection!clientVars, Connection!bufferVars, Connection!requestVars, Connection!bodyVars,
     Connection!responseVars
<1>4. Given'
  BY ConnectionFacts, BytesAre DEF ConnectionInv, Given, Placed, Connection!TypeOK, Connection!Body,
     Connection!HandlerReturns,
     Connection!clientVars, Connection!bufferVars, Connection!requestVars, Connection!bodyVars,
     Connection!responseVars
<1>5. Told'
  BY ConnectionFacts DEF ConnectionInv, Told, Connection!ShouldKeepAlive, Connection!Suggested,
     Connection!SendError, Connection!TypeOK, Connection!HandlerReturns,
     Connection!clientVars, Connection!bufferVars, Connection!requestVars, Connection!bodyVars,
     Connection!responseVars
<1> QED
  BY <1>1, <1>2, <1>3, <1>4, <1>5 DEF ConnectionInv

LEMMA ForwardDoneKeeps ==
  ASSUME Connection!ConnectionAssumption, ConnectionInv, Connection!ForwardDone PROVE ConnectionInv'
<1>1. Connection!TypeOK'
  BY ConnectionFacts DEF ConnectionInv, Connection!TypeOK, Connection!Total, Connection!Start,
     Connection!Suggested, Connection!SendError, Connection!ForwardDone,
     Connection!clientVars, Connection!bufferVars, Connection!requestVars, Connection!bodyVars,
     Connection!responseVars
<1>2. Placed'
  BY ConnectionFacts DEF ConnectionInv, Connection!TypeOK, Placed, Connection!Body, Connection!Left,
     Connection!Buffered, Connection!ForwardDone,
     Connection!clientVars, Connection!bufferVars, Connection!requestVars, Connection!bodyVars,
     Connection!responseVars
<1>3. InOrder'
  BY ConnectionFacts DEF ConnectionInv, Connection!TypeOK, InOrder, Connection!Start,
     Connection!ForwardDone,
     Connection!clientVars, Connection!bufferVars, Connection!requestVars, Connection!bodyVars,
     Connection!responseVars
<1>4. Given'
  BY ConnectionFacts, BytesAre DEF ConnectionInv, Given, Placed, Connection!TypeOK, Connection!Body,
     Connection!ForwardDone,
     Connection!clientVars, Connection!bufferVars, Connection!requestVars, Connection!bodyVars,
     Connection!responseVars
<1>5. Told'
  BY ConnectionFacts DEF ConnectionInv, Told, Connection!ShouldKeepAlive, Connection!Suggested,
     Connection!SendError, Connection!TypeOK, Connection!ForwardDone,
     Connection!clientVars, Connection!bufferVars, Connection!requestVars, Connection!bodyVars,
     Connection!responseVars
<1> QED
  BY <1>1, <1>2, <1>3, <1>4, <1>5 DEF ConnectionInv

LEMMA StopKeeps ==
  ASSUME Connection!ConnectionAssumption, ConnectionInv, Connection!Stop PROVE ConnectionInv'
<1>1. Connection!TypeOK'
  BY ConnectionFacts DEF ConnectionInv, Connection!TypeOK, Connection!Total, Connection!Start,
     Connection!Suggested, Connection!SendError, Connection!Stop,
     Connection!clientVars, Connection!bufferVars, Connection!requestVars, Connection!bodyVars,
     Connection!responseVars
<1>2. Placed'
  BY ConnectionFacts DEF ConnectionInv, Connection!TypeOK, Placed, Connection!Body, Connection!Left,
     Connection!Buffered, Connection!Stop,
     Connection!clientVars, Connection!bufferVars, Connection!requestVars, Connection!bodyVars,
     Connection!responseVars
<1>3. InOrder'
  BY ConnectionFacts DEF ConnectionInv, Connection!TypeOK, InOrder, Connection!Start, Connection!Stop,
     Connection!clientVars, Connection!bufferVars, Connection!requestVars, Connection!bodyVars,
     Connection!responseVars
<1>4. Given'
  BY ConnectionFacts, BytesAre DEF ConnectionInv, Given, Placed, Connection!TypeOK, Connection!Body,
     Connection!Stop,
     Connection!clientVars, Connection!bufferVars, Connection!requestVars, Connection!bodyVars,
     Connection!responseVars
<1>5. Told'
  BY ConnectionFacts DEF ConnectionInv, Told, Connection!ShouldKeepAlive, Connection!Suggested,
     Connection!SendError, Connection!TypeOK, Connection!Stop,
     Connection!clientVars, Connection!bufferVars, Connection!requestVars, Connection!bodyVars,
     Connection!responseVars
<1> QED
  BY <1>1, <1>2, <1>3, <1>4, <1>5 DEF ConnectionInv

LEMMA ValidRequestKeeps ==
  ASSUME Connection!ConnectionAssumption, ConnectionInv, Connection!ValidRequest PROVE ConnectionInv'
<1>0. /\ pc = "read" /\ request_len' = Connection!RequestLen /\ Connection!RequestLen \in 1 .. data_len
      /\ pc' \in {"handle", "returned"}
      /\ requests' = Append(requests, base) /\ Len(requests') = Len(requests) + 1
  <2>1. Connection!RequestLen \in 0 .. data_len
    BY ConnectionFacts, RequestLenIs DEF ConnectionInv
  <2> QED
    BY <2>1 DEF Connection!ValidRequest, ConnectionInv, Connection!TypeOK
<1>6. ASSUME ~ strayed
      PROVE  LET k == Len(requests) + 1 IN
             /\ k \in 1 .. Len(script) /\ base = Connection!Start(k)
             /\ request_len' = script[k].head /\ content_len' = Connection!ContentLen(script[k])
  <2> DEFINE k == Len(requests) + 1
  <2>1. Len(script) \in Nat /\ Len(requests) \in Nat /\ Len(requests) <= Len(script)
        /\ base = Connection!Start(k)
    BY <1>0, <1>6, ConnectionFacts, Stream DEF ConnectionInv, InOrder
  <2>2. base # Connection!Total
    BY <1>0, ConnectionFacts, RequestLenIs DEF ConnectionInv
  <2>3. k \in 1 .. Len(script)
    BY <2>1, <2>2 DEF Connection!Total
  <2>4. Connection!RequestLen \in {0, script[k].head} /\ Connection!Aligned /\ Connection!Message = script[k]
    BY <2>1, <2>3, ConnectionFacts, RequestLenIs DEF ConnectionInv
  <2> HIDE DEF k
  <2>5. request_len' = script[k].head
    BY <1>0, <2>4
  <2>6. content_len' = Connection!ContentLen(script[k])
    BY <2>4 DEF Connection!ValidRequest
  <2> QED
    BY <2>1, <2>3, <2>5, <2>6 DEF k
<1>7. content_len' \in -1 .. Connection!Total /\ asksToClose' \in BOOLEAN
  <2>1. CASE Connection!Aligned
    <3>1. PICK k \in 1 .. Len(script) : Connection!Message = script[k]
      BY <2>1 DEF Connection!Aligned, Connection!AtBase, Connection!Message
    <3>2. /\ script[k] \in Connection!Messages /\ script[k].head \in Nat /\ script[k].body \in Nat
          /\ Connection!Start(k) \in Nat /\ Connection!Total \in Nat /\ Connection!Start(k + 1) <= Connection!Total
          /\ Connection!Start(k + 1) = Connection!Start(k) + script[k].head + script[k].body
      <4>1. script \in Scripts
        BY ConnectionFacts DEF ConnectionInv
      <4>2. Len(script) \in Nat /\ k \in 1 .. Len(script) + 1 /\ k + 1 \in 1 .. Len(script) + 1
        BY <4>1, Stream
      <4> QED
        BY <4>1, <4>2, Stream
    <3>3. Connection!ContentLen(script[k]) \in {-1, 0, script[k].body} /\ script[k].close \in BOOLEAN
      BY <3>2 DEF Connection!ContentLen, Connection!Messages
    <3>4. script[k].body <= Connection!Total
      BY <3>2
    <3>5. content_len' = Connection!ContentLen(script[k]) /\ asksToClose' = script[k].close
      BY <2>1, <3>1 DEF Connection!ValidRequest
    <3> QED
      BY <3>2, <3>3, <3>4, <3>5
  <2>2. CASE ~ Connection!Aligned
    <3>1. content_len' \in -1 .. Connection!Total - base - Connection!RequestLen /\ asksToClose' \in BOOLEAN
      BY <2>2 DEF Connection!ValidRequest
    <3>2. base \in Nat /\ Connection!Total \in Nat
      BY ConnectionFacts DEF ConnectionInv
    <3> QED
      BY <1>0, <3>1, <3>2
  <2> QED
    BY <2>1, <2>2
<1>8. /\ UNCHANGED <<Connection!clientVars, pos, Connection!bufferVars, strayed, Connection!bodyVars, unauthorized, must_close>>
      /\ announced' \in {"nothing", "keep-alive", "close"}
      /\ pc' = "returned" => announced' = Connection!Suggested(asksToClose', FALSE, must_close)
  BY DEF Connection!ValidRequest, Connection!SendError, Connection!Suggested,
     Connection!responseVars, ConnectionInv, Connection!TypeOK
<1>9. requests' \in Seq(0 .. Connection!Total)
  <2>1. base \in 0 .. Connection!Total /\ requests \in Seq(0 .. Connection!Total)
    BY ConnectionFacts DEF ConnectionInv, Connection!TypeOK
  <2> QED
    BY <1>0, <2>1
<1>1. Connection!TypeOK'
  <2>1. request_len' \in -1 .. data_len'
    BY <1>0, <1>8, ConnectionFacts DEF ConnectionInv, Connection!bufferVars
  <2>2. consumed_content' = 0
    BY <1>0, <1>8 DEF ConnectionInv, Placed, Connection!bodyVars
  <2> QED
    BY <1>0, <1>7, <1>8, <1>9, <2>1, <2>2 DEF ConnectionInv, Connection!TypeOK, Connection!Total,
       Connection!Start, Connection!clientVars,
       Connection!bufferVars, Connection!bodyVars
<1>2. Placed'
  <2>1. consumed_content' = 0 /\ pos' = base' + data_len' /\ base' \in Nat /\ data_len' \in Nat
        /\ request_len' \in 1 .. data_len' /\ content_len' \in Int
    BY <1>0, <1>7, <1>8, ConnectionFacts DEF ConnectionInv, Placed, Connection!bufferVars,
       Connection!bodyVars
  <2>2. Connection!Buffered' >= 0 /\ Connection!Body' + consumed_content' <= pos'
        /\ (content_len' >= 0 /\ ~ (request_len' + content_len' < data_len')
              => pos' <= Connection!Body' + content_len')
    <3>1. Connection!Body' = base' + request_len' /\ Connection!Buffered' = base' + data_len' - (Connection!Body' + consumed_content')
      BY DEF Connection!Body, Connection!Buffered
    <3>2. \A b, d, r, c \in Int : (1 <= r /\ r <= d) =>
            /\ b + d - (b + r + 0) >= 0 /\ b + r + 0 <= b + d
            /\ ~ (r + c < d) => b + d <= b + r + c
      OBVIOUS
    <3>3. base' \in Int /\ data_len' \in Int /\ request_len' \in Int /\ 1 <= request_len'
          /\ request_len' <= data_len'
      BY <2>1
    <3> QED
      BY <2>1, <3>1, <3>2, <3>3
  <2>3. pc' \in {"handle", "returned"} /\ request_len' > 0
    BY <1>0
  <2> QED
    BY <2>1, <2>2, <2>3 DEF Placed
<1>3. InOrder'
  <2> SUFFICES ASSUME ~ strayed' PROVE InOrder'
    BY DEF InOrder
  <2>1. ~ strayed /\ script' = script /\ base' = base
    BY <1>8 DEF Connection!clientVars, Connection!bufferVars
  <2>2. Len(requests) \in Nat /\ \A i \in 1 .. Len(requests) : requests[i] = Connection!Start(i)
    BY <1>0, <2>1, ConnectionFacts DEF ConnectionInv, InOrder
  <2>3. \A i \in 1 .. Len(requests') :
          requests'[i] = IF i = Len(requests) + 1 THEN base ELSE requests[i]
    BY <1>0, <2>2 DEF ConnectionInv, Connection!TypeOK
  <2>4. \A i \in 1 .. Len(requests') : requests'[i] = Connection!Offset(script, i)
    BY <1>0, <1>6, <2>1, <2>2, <2>3 DEF Connection!Start
  <2>5. Len(script) \in Nat
    BY ConnectionFacts, Stream DEF ConnectionInv
  <2>6. /\ Len(requests') > 0 /\ Len(requests') <= Len(script) /\ base = Connection!Offset(script, Len(requests'))
        /\ request_len' = script[Len(requests')].head
        /\ content_len' = Connection!ContentLen(script[Len(requests')])
    <3>1. Len(requests) + 1 = Len(requests') /\ Len(requests') \in Nat
      BY <1>0, <2>2
    <3>2. Len(requests) + 1 \in 1 .. Len(script) /\ base = Connection!Offset(script, Len(requests) + 1)
          /\ request_len' = script[Len(requests) + 1].head
          /\ content_len' = Connection!ContentLen(script[Len(requests) + 1])
      BY <1>6, <2>1 DEF Connection!Start
    <3> QED
      BY <3>1, <3>2, <2>5
  <2>7. /\ Len(requests') <= Len(script') /\ Len(requests') > 0
        /\ \A i \in 1 .. Len(requests') : requests'[i] = Connection!Offset(script', i)
        /\ Connection!Offset(script', Len(requests')) = base'
        /\ request_len' = script'[Len(requests')].head
        /\ content_len' = Connection!ContentLen(script'[Len(requests')])
    BY <2>1, <2>4, <2>6
  <2>8. Len(requests') \in Nat /\ pc' # "read"
    BY <1>0, <2>2
  <2> QED
    BY <2>7, <2>8 DEF InOrder, Connection!Start, Connection!ContentLen
<1>4. Given'
  <2>1. UNCHANGED <<got, success, torn, consumed_content>> /\ got = <<>> /\ consumed_content = 0
        /\ success = "none" /\ ~ torn
    BY <1>0, <1>8 DEF ConnectionInv, Placed, Given, Connection!bodyVars
  <2>2. Connection!Body' \in Int /\ Len(<<>>) = 0
    BY <1>0, <1>8, ConnectionFacts DEF Connection!Body, ConnectionInv, Connection!bufferVars
  <2>3. got' = Connection!Bytes(Connection!Body', Len(got'))
    BY <2>1, <2>2, BytesAre
  <2> QED
    BY <1>0, <2>1, <2>2, <2>3 DEF Given
<1>5. Told'
  BY <1>0, <1>8 DEF Told, Connection!ShouldKeepAlive, Connection!Suggested, Connection!clientVars
<1> QED
  BY <1>1, <1>2, <1>3, <1>4, <1>5 DEF ConnectionInv

LEMMA MgReadKeeps ==
  ASSUME Connection!ConnectionAssumption, ConnectionInv, Connection!MgRead PROVE ConnectionInv'
<1> DEFINE from == Connection!Body + consumed_content
<1>0. PICK size \in 1 .. Connection!Left, buffered \in Nat, n \in Nat, error \in BOOLEAN :
        /\ buffered = IF Connection!Buffered < 0 THEN 0 ELSE IF size <= Connection!Buffered THEN size ELSE Connection!Buffered
        /\ n <= size - buffered /\ n <= avail - pos /\ pos' = pos + n
        /\ got' = got \o IF error THEN <<>>
                         ELSE Connection!Bytes(from, buffered) \o Connection!Bytes(pos, n)
        /\ consumed_content' = consumed_content + buffered + n
        /\ success' = IF error \/ n < size - buffered THEN "no" ELSE "yes"
  <2>1. PICK size \in 1 .. Connection!Left :
          LET buffered == Connection!Max({0, Connection!Min({size, Connection!Buffered})}) IN
          \E n \in 0 .. Connection!Min({size - buffered, avail - pos}) : \E error \in BOOLEAN :
            /\ got' = got \o IF error THEN <<>>
                             ELSE Connection!Bytes(from, buffered) \o Connection!Bytes(pos, n)
            /\ pos' = pos + n
            /\ consumed_content' = consumed_content + buffered + n
            /\ success' = IF error \/ n < size - buffered THEN "no" ELSE "yes"
    BY DEF Connection!MgRead
  <2> DEFINE buffered == Connection!Max({0, Connection!Min({size, Connection!Buffered})})
  <2>2. Connection!Left \in Int /\ Connection!Buffered \in Int /\ size \in Nat /\ avail - pos \in Nat
    <3>1. Connection!Left \in Int /\ Connection!Buffered \in Int
      <4>1. /\ base \in Int /\ data_len \in Int /\ request_len \in Int
            /\ content_len \in Int /\ consumed_content \in Int
        BY ConnectionFacts DEF ConnectionInv
      <4> QED
        BY <4>1 DEF Connection!Left, Connection!Buffered, Connection!Body
    <3>2. avail - pos \in Nat
      BY ConnectionFacts DEF ConnectionInv
    <3> QED
      BY <2>1, <3>1, <3>2
  <2>3. /\ buffered = IF Connection!Buffered < 0 THEN 0 ELSE IF size <= Connection!Buffered THEN size ELSE Connection!Buffered
        /\ buffered \in Nat /\ buffered <= size
    <3>1. Connection!Min({size, Connection!Buffered}) = IF size <= Connection!Buffered THEN size ELSE Connection!Buffered
      BY <2>2, MinOfTwo
    <3>2. buffered = IF Connection!Min({size, Connection!Buffered}) <= 0 THEN 0 ELSE Connection!Min({size, Connection!Buffered})
      BY <2>2, <3>1, MaxOfTwo
    <3> QED
      BY <2>2, <3>1, <3>2
  <2> HIDE DEF buffered
  <2>4. Connection!Min({size - buffered, avail - pos}) =
          IF size - buffered <= avail - pos THEN size - buffered ELSE avail - pos
    BY <2>2, <2>3, MinOfTwo
  <2>5. PICK n \in 0 .. Connection!Min({size - buffered, avail - pos}), error \in BOOLEAN :
            /\ got' = got \o IF error THEN <<>>
                             ELSE Connection!Bytes(from, buffered) \o Connection!Bytes(pos, n)
            /\ pos' = pos + n
            /\ consumed_content' = consumed_content + buffered + n
            /\ success' = IF error \/ n < size - buffered THEN "no" ELSE "yes"
    BY <2>1 DEF buffered
  <2>6. n \in Nat /\ n <= size - buffered /\ n <= avail - pos
    BY <2>2, <2>3, <2>4, <2>5
  <2> QED
    BY <2>3, <2>5, <2>6
<1>6. /\ from \in Nat /\ pos \in Nat /\ Connection!Total \in Nat /\ got \in Seq(1 .. Connection!Total)
      /\ base + data_len \in Nat /\ avail \in Nat
      /\ n > 0 => from + buffered = pos
      /\ buffered > 0 => from + buffered <= Connection!Total
      /\ pos + n <= avail /\ pos + n <= Connection!Total /\ pos <= pos + n /\ buffered + n <= Connection!Left
      /\ pos + n = IF base + data_len - (from + (buffered + n)) >= 0
                   THEN base + data_len ELSE from + (buffered + n)
  <2>1. /\ Connection!Left \in Int /\ Connection!Buffered = base + data_len - from
        /\ avail \in Nat /\ avail <= Connection!Total /\ pos \in Nat /\ Connection!Total \in Nat /\ got \in Seq(1 .. Connection!Total)
        /\ base + data_len \in Nat
    BY ConnectionFacts DEF ConnectionInv, Connection!TypeOK, Connection!Left, Connection!Buffered,
       Connection!Body
  <2>2. from \in Nat /\ pos = IF Connection!Buffered >= 0 THEN base + data_len ELSE from
    <3>1. request_len > 0 /\ pos = IF Connection!Buffered >= 0 THEN base + data_len ELSE from
      BY DEF ConnectionInv, Placed, Connection!MgRead
    <3>2. request_len \in Nat /\ base \in Nat /\ consumed_content \in Nat
      BY <3>1, ConnectionFacts DEF ConnectionInv
    <3> QED
      BY <3>1, <3>2 DEF Connection!Body
  <2>3. size \in Nat /\ size <= Connection!Left
    BY <1>0, <2>1
  <2> HIDE DEF from
  <2>4. pos = IF base + data_len - from >= 0 THEN base + data_len ELSE from
    BY <2>1, <2>2
  <2>5. buffered = IF base + data_len - from < 0 THEN 0
                   ELSE IF size <= base + data_len - from THEN size ELSE base + data_len - from
    BY <1>0, <2>1
  <2>6. n <= size - buffered /\ n <= avail - pos
    BY <1>0
  <2>7. /\ n > 0 => from + buffered = pos
        /\ buffered > 0 => from + buffered <= Connection!Total
        /\ pos + n <= avail /\ pos + n <= Connection!Total /\ buffered + n <= Connection!Left
        /\ pos <= pos + n
        /\ pos + n = IF base + data_len - (from + (buffered + n)) >= 0
                     THEN base + data_len ELSE from + (buffered + n)
    <3> HIDE DEF Connection!Left, Connection!Total
    <3>1. from \in Nat /\ base + data_len \in Nat /\ pos \in Nat /\ size \in Nat /\ Connection!Left \in Int
          /\ avail \in Nat /\ Connection!Total \in Nat /\ avail <= Connection!Total /\ size <= Connection!Left
          /\ buffered \in Nat /\ n \in Nat /\ base \in Nat /\ data_len \in Nat
      BY <1>0, <2>1, <2>2, <2>3, ConnectionFacts DEF ConnectionInv
    <3> QED
      BY <2>4, <2>5, <2>6, <3>1, ReadArithmetic
  <2> QED
    BY <2>1, <2>2, <2>7
<1>7. Connection!Bytes(from, buffered) \o Connection!Bytes(pos, n) = Connection!Bytes(from, buffered + n)
  <2> HIDE DEF from
  <2>1. CASE n > 0
    <3>1. from + buffered = pos /\ from \in Int
      BY <1>6, <2>1
    <3>2. Connection!Bytes(from, buffered) \o Connection!Bytes(from + buffered, n) = Connection!Bytes(from, buffered + n)
      BY <3>1, BytesJoin
    <3> QED
      BY <3>1, <3>2
  <2>2. CASE n = 0
    <3>1. Connection!Bytes(pos, n) = <<>>
      BY <1>6, <2>2, BytesAre
    <3>2. Connection!Bytes(from, buffered) \in Seq(1 .. Connection!Total)
      <4>1. buffered = 0 \/ from + buffered <= Connection!Total
        BY <1>6
      <4> QED
        BY <1>6, <4>1, BytesIn
    <3> QED
      BY <2>2, <3>1, <3>2
  <2> QED
    BY <1>0, <2>1, <2>2
<1>8. Connection!Bytes(from, buffered + n) \in Seq(1 .. Connection!Total)
  <2> HIDE DEF from
  <2>1. buffered + n \in Nat /\ (buffered + n = 0 \/ from + (buffered + n) <= Connection!Total)
    <3>1. CASE n > 0
      BY <1>6, <3>1
    <3>2. CASE n = 0
      BY <1>6, <3>2
    <3> QED
      BY <3>1, <3>2
  <2> QED
    BY <1>6, <2>1, BytesIn
<1>9. got' \in Seq(1 .. Connection!Total) /\ Len(got') = Len(got) + IF error THEN 0 ELSE buffered + n
  <2>1. error => got' = got
    BY <1>0, <1>6
  <2>2. ~ error => got' = got \o Connection!Bytes(from, buffered + n)
    BY <1>0, <1>7
  <2>3. Len(Connection!Bytes(from, buffered + n)) = buffered + n
    <3> HIDE DEF from
    <3>1. buffered + n \in Nat /\ from \in Int
      BY <1>6
    <3> QED
      BY <3>1, BytesAre
  <2> HIDE DEF from
  <2>4. CASE error
    BY <1>6, <2>1, <2>4
  <2>5. CASE ~ error
    BY <1>6, <1>8, <2>2, <2>3, <2>5, JoinedIn
  <2> QED
    BY <1>0, <2>4, <2>5
<1>10. /\ pc = "handle" /\ success # "no" /\ success' \in {"yes", "no"}
       /\ UNCHANGED <<Connection!clientVars, pc, Connection!bufferVars, Connection!requestVars, torn, Connection!responseVars>>
  BY <1>0 DEF Connection!MgRead
<1>11. consumed_content' \in Nat /\ consumed_content' = consumed_content + (buffered + n)
       /\ consumed_content' <= content_len /\ content_len >= 0
  <2>1. consumed_content \in Nat /\ content_len \in Int /\ Connection!Left = content_len - consumed_content
        /\ buffered + n \in Nat
    BY ConnectionFacts DEF ConnectionInv, Connection!Left
  <2>2. consumed_content' = consumed_content + (buffered + n)
    BY <1>0, <2>1
  <2>3. buffered + n <= Connection!Left
    BY <1>6
  <2> QED
    BY <2>1, <2>2, <2>3
<1>1. Connection!TypeOK'
  <2>1. pos' \in 0 .. avail /\ base \in 0 .. pos' /\ base + data_len <= pos'
    <3>1. base \in Nat /\ base <= pos /\ data_len \in Nat /\ base + data_len <= pos
      BY ConnectionFacts DEF ConnectionInv
    <3>2. pos' = pos + n /\ pos' \in Nat
      BY <1>0, <1>6
    <3> QED
      BY <1>6, <3>1, <3>2
  <2> HIDE DEF from
  <2>2. Connection!Total' = Connection!Total
    BY <1>10 DEF Connection!Total, Connection!Start, Connection!clientVars
  <2>3. /\ UNCHANGED <<script, avail, enable_keep_alive, stop_flag, pc, base, data_len, request_len>>
        /\ UNCHANGED <<content_len, asksToClose, requests, strayed, torn>>
        /\ UNCHANGED <<must_close, unauthorized, announced>>
    BY <1>10 DEF Connection!clientVars, Connection!bufferVars, Connection!requestVars,
       Connection!responseVars
  <2> QED
    BY <1>9, <1>10, <1>11, <2>1, <2>2, <2>3 DEF ConnectionInv, Connection!TypeOK
<1>2. Placed'
  <2>1. from' = from + (buffered + n) /\ Connection!Buffered' = base + data_len - (from + (buffered + n))
    <3>1. base \in Int /\ request_len \in Int /\ consumed_content \in Int /\ buffered + n \in Int
          /\ data_len \in Int
      BY ConnectionFacts DEF ConnectionInv
    <3> QED
      BY <1>10, <1>11, <3>1 DEF Connection!Buffered, Connection!Body, Connection!bufferVars,
         Connection!requestVars
  <2>2. pos' = IF Connection!Buffered' >= 0 THEN base + data_len ELSE from'
    BY <1>0, <1>6, <2>1
  <2>3. pc' = "handle" /\ request_len' > 0 /\ content_len' >= 0
    BY <1>10, <1>11 DEF ConnectionInv, Placed, Connection!bufferVars, Connection!requestVars
  <2>4. base' + data_len' = base + data_len
    BY <1>10 DEF Connection!bufferVars
  <2>5. ~ (content_len' < 0)
    <3>1. content_len' = content_len /\ content_len \in Int
      BY <1>10, ConnectionFacts DEF ConnectionInv, Connection!requestVars
    <3> QED
      BY <2>3, <3>1
  <2> QED
    BY <2>2, <2>3, <2>4, <2>5 DEF Placed
<1>3. InOrder'
  BY <1>0, ConnectionFacts DEF ConnectionInv, Connection!TypeOK, InOrder, Connection!Start,
     Connection!MgRead,
     Connection!clientVars, Connection!bufferVars, Connection!requestVars, Connection!bodyVars,
     Connection!responseVars
<1>4. Given'
  <2> SUFFICES ASSUME ~ torn PROVE Given'
    BY <1>10 DEF Given
  <2>1. got = Connection!Bytes(Connection!Body, Len(got)) /\ Len(got) = consumed_content
    BY <1>10 DEF ConnectionInv, Given
  <2>2. Connection!Body' = Connection!Body /\ Connection!Body \in Int /\ consumed_content \in Nat /\ buffered + n \in Nat
    <3>1. base \in Int /\ request_len \in Int /\ consumed_content \in Nat
      BY ConnectionFacts DEF ConnectionInv
    <3> QED
      BY <1>10, <3>1 DEF Connection!Body, Connection!bufferVars, Connection!requestVars
  <2>3. CASE error
    <3>1. got' = got /\ success' = "no"
      BY <1>0, <1>6, <2>3
    <3> QED
      BY <1>10, <1>11, <2>1, <2>2, <3>1 DEF Given
  <2>4. CASE ~ error
    <3>1. got' = Connection!Bytes(Connection!Body, Len(got)) \o Connection!Bytes(Connection!Body + Len(got), buffered + n)
      BY <1>0, <1>7, <2>1, <2>4
    <3>2. got' = Connection!Bytes(Connection!Body, Len(got) + (buffered + n))
      BY <2>1, <2>2, <3>1, BytesJoin
    <3>3. Len(got') = consumed_content' /\ Len(got') = Len(got) + (buffered + n)
      BY <1>9, <1>11, <2>1, <2>4
    <3> QED
      BY <1>10, <1>11, <2>2, <3>2, <3>3 DEF Given
  <2> QED
    BY <1>0, <2>3, <2>4
<1>5. Told'
  BY <1>0, ConnectionFacts DEF ConnectionInv, Told, Connection!ShouldKeepAlive,
     Connection!Suggested, Connection!SendError, Connection!TypeOK, Connection!MgRead,
     Connection!clientVars, Connection!bufferVars, Connection!requestVars, Connection!bodyVars,
     Connection!responseVars
<1> QED
  BY <1>1, <1>2, <1>3, <1>4, <1>5 DEF ConnectionInv

\* forward_body_data reads from the socket only when the buffer has no more of the
\* body, and then what the socket has next is the next of the body.
LEMMA NextOfBody ==
  ASSUME Connection!ConnectionAssumption, ConnectionInv, pc = "forward", Connection!Left > 0
  PROVE  /\ pos = Connection!Body + consumed_content /\ Connection!Buffered <= 0 /\ Connection!Left \in Nat
         /\ Connection!Left = content_len - consumed_content /\ Connection!Body \in Nat /\ content_len >= 0
         /\ request_len > 0 /\ Connection!Buffered = base + data_len - (Connection!Body + consumed_content)
         /\ request_len + content_len >= data_len
<1>1. /\ base \in Nat /\ data_len \in Nat /\ request_len \in Nat /\ consumed_content \in Nat
      /\ content_len \in Nat /\ request_len > 0
  BY ConnectionFacts DEF ConnectionInv, Placed
<1>2. /\ Connection!Body = base + request_len /\ Connection!Left = content_len - consumed_content
      /\ Connection!Buffered = base + data_len - (Connection!Body + consumed_content)
  BY DEF Connection!Body, Connection!Left, Connection!Buffered
<1>3. Connection!Buffered <= 0 /\ pos = IF Connection!Buffered >= 0 THEN base + data_len ELSE Connection!Body + consumed_content
  BY <1>1, <1>2 DEF ConnectionInv, Placed
<1> QED
  BY <1>1, <1>2, <1>3

LEMMA PieceFits ==
  ASSUME Connection!ConnectionAssumption, ConnectionInv, pc = "forward", Connection!Left > 0,
         NEW n \in Nat, n <= Connection!Min({ChunkSize, Connection!Left, avail - pos})
  PROVE  /\ n <= Connection!Left /\ pos + n <= avail /\ pos + n \in Nat /\ pos <= pos + n
<1>1. Connection!Left \in Int /\ ChunkSize \in Int /\ avail \in Nat /\ pos \in Nat /\ avail - pos \in Int
  <2>1. Connection!Left \in Int
    BY NextOfBody
  <2> QED
    BY <2>1, ConnectionFacts DEF ConnectionInv
<1>2. n <= Connection!Left /\ n <= avail - pos
  BY <1>1, MinOfThree
<1> QED
  BY <1>1, <1>2

LEMMA ForwardBufferedKeeps ==
  ASSUME Connection!ConnectionAssumption, ConnectionInv, Connection!ForwardBuffered PROVE ConnectionInv'
<1>0. PICK n \in Nat, k \in Nat :
        /\ n = (IF Connection!Buffered <= content_len THEN Connection!Buffered ELSE content_len) /\ k <= n
        /\ got' = Connection!Bytes(Connection!Body, k) /\ torn' = (k < n) /\ consumed_content' = n
        /\ consumed_content = 0 /\ Connection!Buffered \in Nat /\ content_len \in Nat
        /\ pos = base + data_len /\ Connection!Body \in Nat /\ Connection!Buffered = base + data_len - Connection!Body
        /\ request_len > 0
  <2>1. /\ consumed_content = 0 /\ content_len \in Nat /\ request_len > 0
        /\ base \in Nat /\ data_len \in Nat /\ request_len \in Nat /\ request_len <= data_len
    BY ConnectionFacts DEF ConnectionInv, Placed, Given, Connection!ForwardBuffered
  <2>2. Connection!Body = base + request_len /\ Connection!Buffered = base + data_len - (Connection!Body + consumed_content)
    BY DEF Connection!Body, Connection!Buffered
  <2>3. Connection!Buffered \in Nat /\ Connection!Body \in Nat /\ Connection!Buffered = base + data_len - Connection!Body
    BY <2>1, <2>2
  <2>4. pos = base + data_len
    BY <2>3 DEF ConnectionInv, Placed, Connection!ForwardBuffered
  <2>5. Connection!Max({0, Connection!Buffered}) = Connection!Buffered
    BY <2>3, MaxOfTwo
  <2>6. Connection!Min({Connection!Buffered, content_len}) = IF Connection!Buffered <= content_len THEN Connection!Buffered ELSE content_len
    BY <2>1, <2>3, MinOfTwo
  <2> DEFINE n == Connection!Min({Connection!Max({0, Connection!Buffered}), content_len})
  <2>7. n \in Nat /\ n = IF Connection!Buffered <= content_len THEN Connection!Buffered ELSE content_len
    BY <2>1, <2>3, <2>5, <2>6
  <2>8. PICK k \in 0 .. n : /\ got' = Connection!Bytes(Connection!Body, k) /\ torn' = (k < n)
                            /\ consumed_content' = n
    BY DEF Connection!ForwardBuffered
  <2> HIDE DEF n
  <2>9. k \in Nat /\ k <= n
    BY <2>7, <2>8
  <2> QED
    BY <2>1, <2>3, <2>4, <2>7, <2>8, <2>9
<1>6. /\ pc' = "forward" /\ success = "none"
      /\ UNCHANGED <<script, avail, enable_keep_alive, stop_flag, pos, base, data_len>>
      /\ UNCHANGED <<request_len, content_len, asksToClose, requests, strayed, success>>
      /\ UNCHANGED <<must_close, unauthorized, announced>>
  BY DEF Connection!ForwardBuffered, Connection!clientVars, Connection!bufferVars,
     Connection!requestVars, Connection!responseVars
<1>7. n <= content_len /\ n <= Connection!Buffered /\ Connection!Body + n <= Connection!Total /\ pos \in Nat /\ Connection!Total \in Nat
      /\ base \in Nat /\ data_len \in Nat
  <2>1. base \in Nat /\ data_len \in Nat /\ pos \in Nat /\ Connection!Total \in Nat /\ pos <= avail /\ avail <= Connection!Total
        /\ avail \in Nat
    BY ConnectionFacts DEF ConnectionInv
  <2> QED
    BY <1>0, <2>1
<1>1. Connection!TypeOK'
  <2>1. got' \in Seq(1 .. Connection!Total)
    <3>1. k = 0 \/ Connection!Body + k <= Connection!Total
      BY <1>0, <1>7
    <3> QED
      BY <1>0, <1>7, <3>1, BytesIn
  <2>2. Connection!Total' = Connection!Total
    BY <1>6 DEF Connection!Total, Connection!Start
  <2>3. torn' \in BOOLEAN /\ consumed_content' \in Nat /\ consumed_content' <= content_len
    BY <1>0, <1>7
  <2> QED
    BY <1>6, <2>1, <2>2, <2>3 DEF ConnectionInv, Connection!TypeOK
<1>2. Placed'
  <2>1. Connection!Body' = Connection!Body /\ Connection!Buffered' = base + data_len - (Connection!Body + n) /\ Connection!Left' = content_len - n
    BY <1>0, <1>6 DEF Connection!Body, Connection!Buffered, Connection!Left
  <2>2. Connection!Buffered' >= 0 /\ (Connection!Left' = 0 \/ Connection!Buffered' <= 0) /\ content_len' >= 0
    BY <1>0, <1>6, <1>7, <2>1
  <2> QED
    BY <1>0, <1>6, <2>2 DEF Placed
<1>3. InOrder'
  BY <1>0, ConnectionFacts DEF ConnectionInv, Connection!TypeOK, InOrder, Connection!Start,
     Connection!ForwardBuffered,
     Connection!clientVars, Connection!bufferVars, Connection!requestVars, Connection!bodyVars,
     Connection!responseVars
<1>4. Given'
  <2>1. Connection!Body' = Connection!Body /\ Len(got') = k /\ got' = Connection!Bytes(Connection!Body, k)
    BY <1>0, <1>6, BytesAre DEF Connection!Body
  <2>2. ~ torn' => k = n
    <3>1. ~ torn' => ~ (k < n)
      BY <1>0, Zenon
    <3> QED
      BY <1>0, <3>1
  <2> QED
    BY <1>0, <1>6, <2>1, <2>2 DEF Given
<1>5. Told'
  BY <1>0, ConnectionFacts DEF ConnectionInv, Told, Connection!ShouldKeepAlive,
     Connection!Suggested, Connection!SendError, Connection!TypeOK, Connection!ForwardBuffered,
     Connection!clientVars, Connection!bufferVars, Connection!requestVars, Connection!bodyVars,
     Connection!responseVars
<1> QED
  BY <1>1, <1>2, <1>3, <1>4, <1>5 DEF ConnectionInv

LEMMA ForwardPieceKeeps ==
  ASSUME Connection!ConnectionAssumption, ConnectionInv, Connection!ForwardPiece PROVE ConnectionInv'
<1>0. PICK n \in Nat :
        /\ n <= Connection!Left /\ pos + n <= avail /\ pos + n \in Nat /\ pos <= pos + n
        /\ pos' = pos + n /\ pc = "forward" /\ Connection!Left > 0
        /\ consumed_content' = consumed_content + n /\ got' = got \o Connection!Bytes(pos, n)
  <2>1. Connection!Min({ChunkSize, Connection!Left, avail - pos}) \in Int
        /\ Connection!Min({ChunkSize, Connection!Left, avail - pos}) <= Connection!Left
    <3>1. Connection!Left \in Int /\ ChunkSize \in Int /\ avail - pos \in Int
      BY ConnectionFacts DEF ConnectionInv, Connection!Left
    <3> QED
      BY <3>1, MinOfThree
  <2>2. PICK n \in 1 .. Connection!Min({ChunkSize, Connection!Left, avail - pos}) :
          /\ pos' = pos + n /\ consumed_content' = consumed_content + n
          /\ got' = got \o Connection!Bytes(pos, n)
    BY DEF Connection!ForwardPiece
  <2>3. n \in Nat /\ n <= Connection!Min({ChunkSize, Connection!Left, avail - pos}) /\ Connection!Left > 0 /\ pc = "forward"
    <3>1. Connection!Left \in Int
      BY ConnectionFacts DEF ConnectionInv, Connection!Left
    <3> QED
      BY <2>1, <2>2, <3>1 DEF Connection!ForwardPiece
  <2> QED
    BY <2>2, <2>3, PieceFits
<1>6. /\ UNCHANGED <<script, avail, enable_keep_alive, stop_flag, pc, base, data_len>>
      /\ UNCHANGED <<request_len, content_len, asksToClose, requests, strayed, success, torn>>
      /\ UNCHANGED <<must_close, unauthorized, announced>>
  BY DEF Connection!ForwardPiece, Connection!clientVars, Connection!bufferVars,
     Connection!requestVars, Connection!responseVars
<1>7. /\ base \in Nat /\ data_len \in Nat /\ pos \in Nat /\ Connection!Total \in Nat /\ avail \in Nat
      /\ avail <= Connection!Total /\ consumed_content \in Nat /\ content_len \in Nat
      /\ base <= pos /\ base + data_len <= pos
  <2>1. content_len >= 0
    BY <1>0, NextOfBody
  <2> QED
    BY <2>1, ConnectionFacts DEF ConnectionInv
<1>8. /\ pos = Connection!Body + consumed_content /\ Connection!Buffered <= 0 /\ Connection!Body \in Nat /\ request_len > 0
      /\ Connection!Left = content_len - consumed_content
      /\ Connection!Buffered = base + data_len - (Connection!Body + consumed_content)
  BY <1>0, NextOfBody
<1>9. consumed_content' \in Nat /\ consumed_content' <= content_len
  BY <1>0, <1>7, <1>8

<1>1. Connection!TypeOK'
  <2>1. got' \in Seq(1 .. Connection!Total)
    <3>1. pos + n <= Connection!Total
      BY <1>0, <1>7
    <3>2. Connection!Bytes(pos, n) \in Seq(1 .. Connection!Total) /\ got \in Seq(1 .. Connection!Total)
      BY <1>0, <1>7, <3>1, BytesIn DEF ConnectionInv, Connection!TypeOK
    <3> QED
      BY <1>0, <3>2, JoinedIn
  <2>2. Connection!Total' = Connection!Total
    BY <1>6 DEF Connection!Total, Connection!Start
  <2>3. pos' \in 0 .. avail /\ base \in 0 .. pos' /\ base + data_len <= pos'
    BY <1>0, <1>7
  <2>4. content_len' >= 0 => consumed_content' <= content_len'
    BY <1>6, <1>9
  <2> QED
    <3>1. data_len' \in 0 .. BufSize /\ request_len' \in -1 .. data_len' /\ content_len' \in -1 .. Connection!Total'
      BY <1>6, <2>2 DEF ConnectionInv, Connection!TypeOK
    <3>2. /\ script' \in Scripts /\ avail' \in 0 .. Connection!Total' /\ stop_flag' \in BOOLEAN
          /\ enable_keep_alive' \in Configs
          /\ pc' \in {"read", "handle", "forward", "returned", "closed"}
          /\ must_close' \in BOOLEAN /\ unauthorized' \in BOOLEAN /\ asksToClose' \in BOOLEAN
          /\ announced' \in {"nothing", "keep-alive", "close"}
          /\ requests' \in Seq(0 .. Connection!Total')
          /\ success' \in {"none", "yes", "no"} /\ torn' \in BOOLEAN /\ strayed' \in BOOLEAN
      BY <1>6, <2>2 DEF ConnectionInv, Connection!TypeOK
    <3>3. pos' \in 0 .. avail' /\ base' \in 0 .. pos' /\ base' + data_len' <= pos'
      BY <1>6, <2>3
    <3> QED
      BY <1>9, <2>1, <2>2, <2>4, <3>1, <3>2, <3>3 DEF Connection!TypeOK
<1>2. Placed'
  <2>1. Connection!Body' = Connection!Body /\ Connection!Buffered' = base + data_len - (Connection!Body + (consumed_content + n))
    BY <1>0, <1>6 DEF Connection!Body, Connection!Buffered
  <2>2. Connection!Buffered' <= 0 /\ (Connection!Buffered' >= 0 => pos' = base + data_len)
        /\ pos' = Connection!Body' + consumed_content' /\ ~ (content_len < 0)
    BY <1>0, <1>7, <1>8, <2>1
  <2>3. /\ pc' = "forward" /\ request_len' > 0 /\ content_len' >= 0 /\ ~ (content_len' < 0)
        /\ base' + data_len' = base + data_len
    BY <1>0, <1>6, <1>7, <1>8
  <2>4. pos' = IF Connection!Buffered' >= 0 THEN base' + data_len' ELSE Connection!Body' + consumed_content'
    BY <2>2, <2>3
  <2> QED
    BY <2>2, <2>3, <2>4 DEF Placed
<1>3. InOrder'
  BY <1>0, ConnectionFacts DEF ConnectionInv, Connection!TypeOK, InOrder, Connection!Start,
     Connection!ForwardPiece,
     Connection!clientVars, Connection!bufferVars, Connection!requestVars, Connection!bodyVars,
     Connection!responseVars
<1>4. Given'
  <2> SUFFICES ASSUME ~ torn PROVE Given'
    BY <1>0, <1>6 DEF Given, ConnectionInv
  <2>1. got = Connection!Bytes(Connection!Body, Len(got)) /\ Len(got) = consumed_content /\ success = "none"
    BY <1>0 DEF ConnectionInv, Given
  <2>2. got' = Connection!Bytes(Connection!Body, consumed_content) \o Connection!Bytes(Connection!Body + consumed_content, n)
    BY <1>0, <1>8, <2>1
  <2>3. consumed_content \in Nat /\ n \in Nat /\ Connection!Body \in Int /\ consumed_content + n \in Nat
    BY <1>0, <1>7, <1>8
  <2>4. got' = Connection!Bytes(Connection!Body, consumed_content + n)
    BY <2>2, <2>3, BytesJoin
  <2>5. Len(got') = consumed_content'
    BY <1>0, <2>3, <2>4, BytesAre
  <2>6. Connection!Body' = Connection!Body
    BY <1>6 DEF Connection!Body
  <2> QED
    BY <1>0, <1>6, <1>9, <2>1, <2>4, <2>5, <2>6 DEF Given
<1>5. Told'
  BY <1>0, ConnectionFacts DEF ConnectionInv, Told, Connection!ShouldKeepAlive,
     Connection!Suggested, Connection!SendError, Connection!TypeOK, Connection!ForwardPiece,
     Connection!clientVars, Connection!bufferVars, Connection!requestVars, Connection!bodyVars,
     Connection!responseVars
<1> QED
  BY <1>1, <1>2, <1>3, <1>4, <1>5 DEF ConnectionInv

LEMMA ForwardFailsKeeps ==
  ASSUME Connection!ConnectionAssumption, ConnectionInv, Connection!ForwardFails PROVE ConnectionInv'
<1>0. PICK n \in Nat :
        /\ n <= Connection!Left /\ pos + n <= avail /\ pos + n \in Nat /\ pos <= pos + n
        /\ pos' = pos + n /\ pc = "forward" /\ Connection!Left > 0
  <2>1. Connection!Min({ChunkSize, Connection!Left, avail - pos}) \in Int
    <3>1. Connection!Left \in Int /\ ChunkSize \in Int /\ avail - pos \in Int
      BY ConnectionFacts DEF ConnectionInv, Connection!Left
    <3> QED
      BY <3>1, MinOfThree
  <2>2. PICK n \in 0 .. Connection!Min({ChunkSize, Connection!Left, avail - pos}) : pos' = pos + n
    BY DEF Connection!ForwardFails
  <2>3. n \in Nat /\ n <= Connection!Min({ChunkSize, Connection!Left, avail - pos}) /\ Connection!Left > 0 /\ pc = "forward"
    BY <2>1, <2>2 DEF Connection!ForwardFails
  <2> QED
    BY <2>2, <2>3, PieceFits
<1>6. /\ UNCHANGED <<script, avail, enable_keep_alive, stop_flag, base, data_len>>
      /\ UNCHANGED <<request_len, content_len, asksToClose, requests, strayed, got, torn>>
      /\ UNCHANGED <<must_close, unauthorized, consumed_content>>
      /\ pc' = "returned" /\ success' = "no"
      /\ announced' = Connection!Suggested(asksToClose, FALSE, must_close)
  BY DEF Connection!ForwardFails, Connection!SendError, Connection!clientVars,
     Connection!bufferVars, Connection!requestVars
<1>7. /\ base \in Nat /\ data_len \in Nat /\ pos \in Nat /\ avail \in Nat /\ request_len \in Nat
      /\ consumed_content \in Nat /\ content_len \in Nat
      /\ base <= pos /\ base + data_len <= pos
  <2>1. content_len >= 0 /\ request_len > 0
    BY <1>0, NextOfBody
  <2> QED
    BY <2>1, ConnectionFacts DEF ConnectionInv
<1>8. /\ pos = Connection!Body + consumed_content /\ Connection!Body \in Nat /\ request_len > 0
      /\ Connection!Left = content_len - consumed_content /\ request_len + content_len >= data_len
  BY <1>0, NextOfBody

<1>1. Connection!TypeOK'
  <2>1. Connection!Total' = Connection!Total
    BY <1>6 DEF Connection!Total, Connection!Start
  <2>2. pos' \in 0 .. avail /\ base \in 0 .. pos' /\ base + data_len <= pos'
    BY <1>0, <1>7
  <2>3. announced' \in {"nothing", "keep-alive", "close"}
    BY <1>6 DEF Connection!Suggested
  <2> QED
    BY <1>6, <2>1, <2>2, <2>3 DEF ConnectionInv, Connection!TypeOK
<1>2. Placed'
  <2>1. Connection!Body' = Connection!Body
    BY <1>6 DEF Connection!Body
  <2>2. pos' >= Connection!Body' + consumed_content /\ pos' <= Connection!Body' + content_len
        /\ ~ (request_len + content_len < data_len) /\ ~ (content_len < 0)
    BY <1>0, <1>7, <1>8, <2>1
  <2> QED
    BY <1>6, <1>8, <2>2 DEF Placed
<1>3. InOrder'
  BY <1>0, ConnectionFacts DEF ConnectionInv, Connection!TypeOK, InOrder, Connection!Start,
     Connection!ForwardFails,
     Connection!clientVars, Connection!bufferVars, Connection!requestVars, Connection!bodyVars,
     Connection!responseVars
<1>4. Given'
  BY <1>0, ConnectionFacts, BytesAre DEF ConnectionInv, Given, Placed, Connection!TypeOK,
     Connection!Body, Connection!ForwardFails,
     Connection!clientVars, Connection!bufferVars, Connection!requestVars, Connection!bodyVars,
     Connection!responseVars
<1>5. Told'
  BY <1>0, ConnectionFacts DEF ConnectionInv, Told, Connection!ShouldKeepAlive,
     Connection!Suggested, Connection!SendError, Connection!TypeOK, Connection!ForwardFails,
     Connection!clientVars, Connection!bufferVars, Connection!requestVars, Connection!bodyVars,
     Connection!responseVars
<1> QED
  BY <1>1, <1>2, <1>3, <1>4, <1>5 DEF ConnectionInv

LEMMA NextRequestKeeps ==
  ASSUME Connection!ConnectionAssumption, ConnectionInv, Connection!NextRequest PROVE ConnectionInv'
<1>0. /\ base \in Nat /\ data_len \in Nat /\ pos \in Nat /\ avail \in Nat /\ Connection!Total \in Nat
      /\ avail <= Connection!Total /\ pos <= avail /\ data_len <= BufSize /\ BufSize \in Nat
      /\ base <= pos /\ base + data_len <= pos /\ request_len \in Int /\ content_len \in Int
      /\ consumed_content \in Nat
  BY ConnectionFacts DEF ConnectionInv
<1>6. /\ data_len' = data_len - Connection!DiscardLen
      /\ base' = IF Connection!DiscardLen = data_len THEN pos ELSE base + Connection!DiscardLen
      /\ pc = "returned"
      /\ UNCHANGED <<script, avail, enable_keep_alive, stop_flag, pos, content_len>>
      /\ UNCHANGED <<asksToClose, requests>>
  BY DEF Connection!NextRequest, Connection!clientVars
<1>7. /\ Connection!DiscardLen \in Nat /\ Connection!DiscardLen <= data_len
      /\ (request_len > 0 /\ content_len >= 0 /\ request_len + content_len < data_len)
           => Connection!DiscardLen = request_len + content_len
      /\ ~ (request_len > 0 /\ content_len >= 0 /\ request_len + content_len < data_len)
           => Connection!DiscardLen = data_len
  BY <1>0 DEF Connection!DiscardLen
<1>8. /\ data_len' \in 0 .. BufSize /\ base' \in 0 .. pos /\ base' + data_len' <= pos
      /\ data_len' \in Nat /\ base' \in Nat
  BY <1>0, <1>6, <1>7
<1>9. CASE ~ Connection!KeepAlive /\ Connection!CloseConnection /\ pc' = "closed"
  <2>1. /\ must_close' = TRUE /\ request_len' = -1
        /\ UNCHANGED <<got, success, torn, consumed_content, unauthorized, announced, strayed>>
    BY <1>9 DEF Connection!CloseConnection, Connection!bodyVars
  <2>2. Connection!Total' = Connection!Total
    BY <1>6 DEF Connection!Total, Connection!Start
  <2>3. -1 \in -1 .. data_len'
    BY <1>8
  <2>4. Connection!TypeOK'
    BY <1>6, <1>8, <1>9, <2>1, <2>2, <2>3 DEF ConnectionInv, Connection!TypeOK
  <2>5. Placed'
    BY <1>6, <1>9, <2>1 DEF ConnectionInv, Placed
  <2>6. InOrder'
    BY <1>6, <1>9, <2>1 DEF ConnectionInv, InOrder, Connection!Start
  <2>7. Given' /\ Told'
    BY <1>9 DEF Given, Told
  <2> QED
    BY <2>4, <2>5, <2>6, <2>7 DEF ConnectionInv
<1>10. CASE Connection!KeepAlive /\ Connection!ResetAttributes /\ pc' = "read"
             /\ strayed' = (strayed \/ pos < Connection!Body + content_len)
  <2>1. /\ request_len' = 0 /\ consumed_content' = 0 /\ must_close' = FALSE
        /\ unauthorized' = FALSE /\ announced' = "nothing"
        /\ got' = <<>> /\ success' = "none" /\ torn' = FALSE
    BY <1>10 DEF Connection!ResetAttributes
  <2>2. /\ content_len >= 0 /\ ~ must_close
    BY <1>10 DEF Connection!KeepAlive, Connection!ShouldKeepAlive
  <2>3. request_len > 0 /\ IF request_len + content_len < data_len THEN pos = base + data_len
                                                                  ELSE pos <= Connection!Body + content_len
    BY <1>6, <2>2 DEF ConnectionInv, Placed
  <2>4. base' + data_len' = pos
    BY <1>0, <1>6, <1>7, <2>2, <2>3
  <2>5. Connection!TypeOK'
    <3>1. Connection!Total' = Connection!Total
      BY <1>6 DEF Connection!Total, Connection!Start
    <3>2. 0 \in -1 .. data_len' /\ 0 \in Nat /\ (content_len' >= 0 => 0 <= content_len')
      BY <1>8
    <3>3. strayed' \in BOOLEAN
      BY <1>10 DEF ConnectionInv, Connection!TypeOK
    <3>4. got' \in Seq(1 .. Connection!Total)
      BY <2>1
    <3> QED
      BY <1>6, <1>8, <1>10, <2>1, <3>1, <3>2, <3>3, <3>4 DEF ConnectionInv, Connection!TypeOK
  <2>6. Placed'
    BY <1>6, <1>10, <2>1, <2>4 DEF Placed
  <2>7. InOrder'
    <3> SUFFICES ASSUME ~ strayed' PROVE InOrder'
      BY DEF InOrder
    <3>1. ~ strayed /\ pos >= Connection!Body + content_len
      <4>1. ~ strayed /\ ~ (pos < Connection!Body + content_len)
        BY <1>10
      <4> QED
        BY <1>0, <4>1 DEF Connection!Body
    <3> DEFINE k == Len(requests)
    <3>2. /\ k \in Nat /\ 0 < k /\ k <= Len(script) /\ base = Connection!Start(k)
          /\ request_len = script[k].head /\ content_len = Connection!ContentLen(script[k])
          /\ \A i \in 1 .. k : requests[i] = Connection!Start(i)
      BY <1>6, <2>2, <3>1, ConnectionFacts DEF ConnectionInv, InOrder
    <3> HIDE DEF k
    <3>3. Len(script) \in Nat /\ k \in 1 .. Len(script)
      <4>1. Len(script) \in Nat
        BY ConnectionFacts, Stream DEF ConnectionInv
      <4> QED
        BY <3>2, <4>1
    <3>4. script[k] \in Connection!Messages /\ Connection!Start(k + 1) = Connection!Start(k) + script[k].head + script[k].body
      BY <3>3, ConnectionFacts, Stream DEF ConnectionInv
    <3>5. content_len = script[k].body
      BY <2>2, <3>2, <3>4 DEF Connection!ContentLen, Connection!Messages
    <3>6. base' = base + request_len + content_len
      <4>1. Connection!Body = base + request_len
        BY DEF Connection!Body
      <4> QED
        BY <1>0, <1>6, <1>7, <2>2, <2>3, <3>1, <4>1
    <3>7. base' = Connection!Start(k + 1)
      BY <3>2, <3>4, <3>5, <3>6
    <3> QED
      BY <1>6, <1>10, <3>2, <3>7 DEF InOrder, Connection!Start, k
  <2>8. Given' /\ Told'
    BY <1>10, <2>1 DEF Given, Told
  <2> QED
    BY <2>5, <2>6, <2>7, <2>8 DEF ConnectionInv
<1> QED
  BY <1>9, <1>10 DEF Connection!NextRequest

-----------------------------------------------------------------------------
(* The theorems.                                                           *)

LEMMA InitConnection == ASSUME Connection!ConnectionAssumption, Connection!Init PROVE ConnectionInv
<1>1. Connection!Total \in Nat /\ Connection!Start(1) = 0 /\ Len(script) \in Nat /\ BufSize \in Nat
  BY Stream DEF Connection!Init, Connection!ConnectionAssumption
<1>2. /\ avail \in Nat /\ 0 \in 0 .. avail /\ 0 \in 0 .. BufSize /\ 0 \in -1 .. Connection!Total
      /\ 0 \in -1 .. 0 /\ 0 \in 0 .. 0
  BY <1>1 DEF Connection!Init
<1>3. Connection!TypeOK
  <2>1. /\ script \in Scripts /\ avail \in 0 .. Connection!Total /\ stop_flag \in BOOLEAN
        /\ enable_keep_alive \in Configs
        /\ pc \in {"read", "handle", "forward", "returned", "closed"}
        /\ must_close \in BOOLEAN /\ unauthorized \in BOOLEAN /\ asksToClose \in BOOLEAN
        /\ announced \in {"nothing", "keep-alive", "close"}
        /\ success \in {"none", "yes", "no"} /\ torn \in BOOLEAN /\ strayed \in BOOLEAN
    BY DEF Connection!Init
  <2>2. requests \in Seq(0 .. Connection!Total) /\ got \in Seq(1 .. Connection!Total)
    BY DEF Connection!Init
  <2>3. /\ pos \in 0 .. avail /\ base \in 0 .. pos /\ data_len \in 0 .. BufSize
        /\ base + data_len <= pos /\ request_len \in -1 .. data_len /\ content_len \in -1 .. Connection!Total
        /\ consumed_content \in Nat /\ (content_len >= 0 => consumed_content <= content_len)
    BY <1>2 DEF Connection!Init
  <2> QED
    BY <2>1, <2>2, <2>3 DEF Connection!TypeOK
<1>4. Placed /\ Given /\ Told
  BY DEF Connection!Init, Placed, Given, Told
<1>5. InOrder
  <2>1. Len(requests) = 0 /\ Len(requests) + 1 = 1
    BY DEF Connection!Init
  <2> QED
    BY <1>1, <2>1 DEF Connection!Init, InOrder
<1> QED
  BY <1>3, <1>4, <1>5 DEF ConnectionInv

LEMMA NextConnection == ASSUME Connection!ConnectionAssumption, ConnectionInv, [Connection!Next]_(Connection!vars) PROVE ConnectionInv'
<1>1. CASE Connection!WorkerStep
  BY <1>1, ReadRequestKeeps, NoRequestKeeps, RequestTooLargeKeeps, BadRequestKeeps,
     ValidRequestKeeps, MgReadKeeps, ForwardBufferedKeeps, ForwardRefusedKeeps,
     ForwardPieceKeeps, ForwardFailsKeeps, ForwardDoneKeeps, HandlerReturnsKeeps,
     NextRequestKeeps DEF Connection!WorkerStep
<1>2. CASE Connection!Stop
  BY <1>2, StopKeeps
<1>3. CASE UNCHANGED Connection!vars
  <2>1. UNCHANGED <<Connection!clientVars, pc, pos, Connection!bufferVars, Connection!requestVars,
  Connection!bodyVars, Connection!responseVars>>
    BY <1>3 DEF Connection!vars
  <2>2. Connection!TypeOK'
    BY <2>1 DEF ConnectionInv, Connection!TypeOK, Connection!Total, Connection!Start,
       Connection!clientVars, Connection!bufferVars, Connection!requestVars,
       Connection!bodyVars, Connection!responseVars
  <2>3. Placed' /\ Given' /\ Told'
    BY <2>1 DEF ConnectionInv, Placed, Given, Told, Connection!Left, Connection!Body,
       Connection!Buffered, Connection!ShouldKeepAlive,
       Connection!clientVars, Connection!bufferVars, Connection!requestVars, Connection!bodyVars,
       Connection!responseVars
  <2>4. InOrder'
    BY <2>1 DEF ConnectionInv, InOrder, Connection!Start, Connection!clientVars,
       Connection!bufferVars, Connection!requestVars,
       Connection!responseVars
  <2> QED
    BY <2>2, <2>3, <2>4 DEF ConnectionInv
<1> QED
  BY <1>1, <1>2, <1>3 DEF Connection!Next

LEMMA ConnectionInvariant == ASSUME Connection!ConnectionAssumption PROVE Connection!Spec => []ConnectionInv
<1>1. Connection!Init => ConnectionInv
  BY InitConnection
<1>2. ConnectionInv /\ [Connection!Next]_(Connection!vars) => ConnectionInv'
  BY NextConnection
<1> QED
  BY <1>1, <1>2, PTL DEF Connection!Spec

LEMMA ConnectionTypes == ASSUME ConnectionInv PROVE Connection!TypeOK
BY DEF ConnectionInv

LEMMA RequestsFollow ==
  ASSUME Connection!ConnectionAssumption, ConnectionInv PROVE Connection!RequestsAreMessages
<1>1. Len(requests) \in Nat
  BY DEF ConnectionInv, Connection!TypeOK
<1>2. CASE ~ strayed
  <2>1. Len(script) \in Nat
    BY ConnectionFacts, Stream DEF ConnectionInv
  <2>2. Len(requests) <= Len(script) /\ \A i \in 1 .. Len(requests) : requests[i] = Connection!Start(i)
    BY <1>2 DEF ConnectionInv, InOrder
  <2> QED
    BY <1>1, <2>1, <2>2 DEF Connection!RequestsAreMessages
<1> QED
  BY <1>2 DEF Connection!RequestsAreMessages

LEMMA BodiesFollow ==
  ASSUME Connection!ConnectionAssumption, ConnectionInv PROVE Connection!BodyIsContiguous
<1> SUFFICES ASSUME pc \in {"handle", "forward", "returned"}, ~ torn
             PROVE  Len(got) <= Connection!Max({0, content_len}) /\ got = Connection!Bytes(Connection!Body, Len(got))
  BY DEF Connection!BodyIsContiguous
<1>1. got = Connection!Bytes(Connection!Body, Len(got)) /\ Len(got) <= consumed_content
  BY DEF ConnectionInv, Given
<1>2. content_len \in Int /\ consumed_content \in Nat /\ Len(got) \in Nat
      /\ (content_len >= 0 => consumed_content <= content_len)
      /\ (content_len < 0 => consumed_content = 0)
  BY ConnectionFacts DEF ConnectionInv, Placed
<1>3. Connection!Max({0, content_len}) = IF content_len <= 0 THEN 0 ELSE content_len
  BY <1>2, MaxOfTwo
<1> QED
  BY <1>1, <1>2, <1>3

LEMMA StrayedIsUnread ==
  ASSUME Connection!ConnectionAssumption, ConnectionInv,
  Connection!Next PROVE Connection!ReadBodiesDoNotStray
<1> SUFFICES ASSUME strayed' # strayed PROVE consumed_content < content_len
  BY DEF Connection!ReadBodiesDoNotStray
<1>1. Connection!NextRequest
  BY DEF Connection!Next, Connection!WorkerStep, Connection!vars, Connection!requestVars,
     Connection!ReadRequest, Connection!NoRequest, Connection!RequestTooLarge,
     Connection!BadRequest, Connection!GetreqFails, Connection!ValidRequest, Connection!MgRead,
     Connection!ForwardBuffered, Connection!ForwardRefused,
     Connection!ForwardPiece, Connection!ForwardFails, Connection!ForwardDone,
     Connection!HandlerReturns, Connection!Stop
<1>2. pc = "returned" /\ (strayed' # strayed => strayed' = (strayed \/ pos < Connection!Body + content_len))
  BY <1>1 DEF Connection!NextRequest, Connection!CloseConnection
<1>3. pos < Connection!Body + content_len
  <2>1. strayed \in BOOLEAN
    BY DEF ConnectionInv, Connection!TypeOK
  <2> QED
    BY <1>2, <2>1, Zenon
<1>4. pos >= Connection!Body + consumed_content
  BY <1>2 DEF ConnectionInv, Placed
<1>5. pos \in Int /\ base \in Int /\ request_len \in Int /\ content_len \in Int
      /\ consumed_content \in Int
  BY ConnectionFacts DEF ConnectionInv
<1> QED
  BY <1>3, <1>4, <1>5 DEF Connection!Body

LEMMA ForwardedIsWhole ==
  ASSUME Connection!ConnectionAssumption, ConnectionInv PROVE Connection!ForwardedUnlessTorn
<1> SUFFICES ASSUME Connection!ForwardDone, ~ torn PROVE got = Connection!Bytes(Connection!Body, content_len)
  BY DEF Connection!ForwardedUnlessTorn
<1>1. got = Connection!Bytes(Connection!Body, Len(got)) /\ Len(got) = consumed_content
  BY DEF ConnectionInv, Given, Connection!ForwardDone
<1>2. content_len - consumed_content = 0
  BY DEF Connection!ForwardDone, Connection!Left
<1>3. content_len \in Int /\ consumed_content \in Int
  BY ConnectionFacts DEF ConnectionInv
<1> QED
  BY <1>1, <1>2, <1>3

LEMMA CloseIsMeant == ASSUME ConnectionInv, Connection!Next PROVE Connection!AnnouncedCloseCloses
<1> SUFFICES ASSUME pc = "returned", announced = "close" PROVE pc' # "read"
  BY DEF Connection!AnnouncedCloseCloses
<1>1. ~ Connection!KeepAlive
  BY DEF ConnectionInv, Told, Connection!KeepAlive
<1>2. Connection!NextRequest \/ pc' = pc
  BY DEF Connection!Next, Connection!WorkerStep, Connection!vars, Connection!ReadRequest,
     Connection!NoRequest, Connection!RequestTooLarge,
     Connection!BadRequest, Connection!GetreqFails, Connection!ValidRequest, Connection!MgRead,
     Connection!ForwardBuffered, Connection!ForwardRefused,
     Connection!ForwardPiece, Connection!ForwardFails, Connection!ForwardDone,
     Connection!HandlerReturns, Connection!Stop
<1> QED
  BY <1>1, <1>2 DEF Connection!NextRequest

(***************************************************************************)
(* The variables of a connection have their types: the buffer never holds  *)
(* more than it can, nor bytes that were not received, and no more of a    *)
(* body is counted as consumed than it has.                                *)
(***************************************************************************)
THEOREM ConnectionTypeCorrect ==
  ASSUME Connection!ConnectionAssumption PROVE Connection!Spec => []Connection!TypeOK
<1>1. ConnectionInv => Connection!TypeOK
  BY ConnectionTypes
<1> QED
  BY <1>1, ConnectionInvariant, PTL

(***************************************************************************)
(* The requests the server takes from its buffer are the messages of the   *)
(* client, in their order and none twice, however they were cut into       *)
(* reads, and whatever the handlers read of their bodies, until a part of  *)
(* a body is left in the socket (mongoose.c 2992-3005, 4764-4793,          *)
(* 4860-4866).                                                             *)
(***************************************************************************)
THEOREM RequestsInOrder ==
  ASSUME Connection!ConnectionAssumption PROVE Connection!Spec => []Connection!RequestsAreMessages
<1>1. ConnectionInv => Connection!RequestsAreMessages
  BY RequestsFollow
<1> QED
  BY <1>1, ConnectionInvariant, PTL

(***************************************************************************)
(* What a handler is given of a body are its bytes, from the first on, not *)
(* one of them twice and none of the next request, though they come from   *)
(* the buffer first and then from the socket (mongoose.c 1556-1571,        *)
(* 3083-3107).                                                             *)
(***************************************************************************)
THEOREM BodiesAreContiguous ==
  ASSUME Connection!ConnectionAssumption PROVE Connection!Spec => []Connection!BodyIsContiguous
<1>1. ConnectionInv => Connection!BodyIsContiguous
  BY BodiesFollow
<1> QED
  BY <1>1, ConnectionInvariant, PTL

(***************************************************************************)
(* A part of a body is left in the socket only by a handler that has not   *)
(* read it all: what mg_read and forward_body_data count as consumed was   *)
(* taken from the buffer or the socket (mongoose.c 1543-1574, 3083-3107).  *)
(***************************************************************************)
THEOREM OnlyUnreadBodiesStray ==
  ASSUME Connection!ConnectionAssumption PROVE Connection!Spec => [][Connection!ReadBodiesDoNotStray]_(Connection!vars)
<1>1. ASSUME ConnectionInv, [Connection!Next]_(Connection!vars) PROVE [Connection!ReadBodiesDoNotStray]_(Connection!vars)
  BY <1>1, StrayedIsUnread
<1> QED
  BY <1>1, ConnectionInvariant, PTL DEF Connection!Spec

(***************************************************************************)
(* When forward_body_data reports success, the file or the program was     *)
(* given the whole body, unless the write of the part that had come with   *)
(* the request, whose result is not looked at, was short (mongoose.c       *)
(* 3083-3111).                                                             *)
(***************************************************************************)
THEOREM ForwardedInFull ==
  ASSUME Connection!ConnectionAssumption PROVE Connection!Spec => [][Connection!ForwardedUnlessTorn]_(Connection!vars)
<1>1. ASSUME ConnectionInv, [Connection!Next]_(Connection!vars) PROVE [Connection!ForwardedUnlessTorn]_(Connection!vars)
  BY <1>1, ForwardedIsWhole
<1> QED
  BY <1>1, ConnectionInvariant, PTL DEF Connection!Spec

(***************************************************************************)
(* A client that is told "Connection: close" finds the connection closed,  *)
(* though the header and the end of the loop are decided at different      *)
(* times (mongoose.c 917-932, 4853-4858).                                  *)
(***************************************************************************)
THEOREM CloseIsKept ==
  ASSUME Connection!ConnectionAssumption PROVE Connection!Spec => [][Connection!AnnouncedCloseCloses]_(Connection!vars)
<1>1. ASSUME ConnectionInv, [Connection!Next]_(Connection!vars) PROVE [Connection!AnnouncedCloseCloses]_(Connection!vars)
  BY <1>1, CloseIsMeant
<1> QED
  BY <1>1, ConnectionInvariant, PTL DEF Connection!Spec

-----------------------------------------------------------------------------
(* The parts together.                                                     *)

\* The invariant of the part that runs
StreamsInv ==
  /\ what = "connection" => ConnectionInv
  /\ what = "websocket" => WsInv
  /\ what = "upload" => UploadInv
  /\ what = "ssi" => SsiInv
  /\ what = "throttle" => ThrottleInv
  /\ what = "dispatch" => DispatchInv

LEMMA PartsFit ==
  /\ Connection!ConnectionAssumption /\ Websocket!MgWebsocketAssumption
  /\ Upload!MgUploadAssumption /\ Ssi!MgSsiAssumption /\ Throttle!ThrottleAssumption
  /\ Dispatch!MgDispatchAssumption
BY PartsAssumption

LEMMA StreamsInitHolds == ASSUME Init PROVE StreamsInv
<1>1. CASE what = "connection" /\ Connection!Init
  <2>1. ConnectionInv
    BY <1>1, PartsFit, InitConnection
  <2> QED
    BY <1>1, <2>1 DEF StreamsInv
<1>2. CASE what = "websocket" /\ Websocket!Init
  <2>1. WsInv
    BY <1>2, PartsFit, WsInitHolds
  <2> QED
    BY <1>2, <2>1 DEF StreamsInv
<1>3. CASE what = "upload" /\ Upload!Init
  <2>1. UploadInv
    BY <1>3, PartsFit, UploadInitHolds
  <2> QED
    BY <1>3, <2>1 DEF StreamsInv
<1>4. CASE what = "ssi" /\ Ssi!Init
  <2>1. SsiInv
    BY <1>4, PartsFit, SsiInitHolds
  <2> QED
    BY <1>4, <2>1 DEF StreamsInv
<1>5. CASE what = "throttle" /\ Throttle!Init
  <2>1. ThrottleInv
    BY <1>5, PartsFit, ThrottleInitHolds
  <2> QED
    BY <1>5, <2>1 DEF StreamsInv
<1>6. CASE what = "cgi"
  BY <1>6 DEF StreamsInv
<1>7. CASE what = "dispatch" /\ Dispatch!Init
  <2>1. DispatchInv
    BY <1>7, PartsFit, DispatchInitHolds
  <2> QED
    BY <1>7, <2>1 DEF StreamsInv
<1> QED
  BY <1>1, <1>2, <1>3, <1>4, <1>5, <1>6, <1>7 DEF Init

\* A step of the whole is one of the part that runs, or changes nothing of it.
LEMMA StepsAreOfParts ==
  ASSUME [Next]_vars
  PROVE  /\ what' = what
         /\ what = "connection" => [Connection!Next]_(Connection!vars)
         /\ what = "websocket" => [Websocket!Next]_(Websocket!vars)
         /\ what = "upload" => [Upload!Next]_(Upload!vars)
         /\ what = "ssi" => [Ssi!Next]_(Ssi!vars)
         /\ what = "throttle" => [Throttle!Next]_(Throttle!vars)
         /\ what = "dispatch" => [Dispatch!Next]_(Dispatch!vars)
<1>1. CASE Next
  BY <1>1 DEF Next, OfConnection, OfWebsocket, OfUpload, OfSsi, OfThrottle, OfCgi, OfDispatch
<1>2. CASE UNCHANGED vars
  <2>1. /\ UNCHANGED <<what, stop_flag, pc, base, sent, written, method, short>>
        /\ UNCHANGED connVars /\ UNCHANGED wsVars /\ UNCHANGED uploadVars /\ UNCHANGED ssiVars
        /\ UNCHANGED writeVars /\ UNCHANGED dispatchVars
    BY <1>2 DEF vars
  <2>2. UNCHANGED Connection!vars
    BY <2>1 DEF connVars, Connection!vars, Connection!clientVars, Connection!bufferVars,
       Connection!requestVars, Connection!bodyVars, Connection!responseVars
  <2>3. UNCHANGED Websocket!vars
    BY <2>1 DEF wsVars, Websocket!vars
  <2>4. UNCHANGED Upload!vars
    BY <2>1 DEF uploadVars, Upload!vars, Upload!ghosts
  <2>5. UNCHANGED Ssi!vars
    BY <2>1 DEF ssiVars, Ssi!vars
  <2>6. UNCHANGED Throttle!vars
    BY <2>1 DEF writeVars, Throttle!vars, Throttle!worldVars, Throttle!connVars, Throttle!writeVars,
                Throttle!sentVars
  <2>7. UNCHANGED Dispatch!vars
    BY <2>1 DEF dispatchVars, Dispatch!vars
  <2> QED
    BY <2>1, <2>2, <2>3, <2>4, <2>5, <2>6, <2>7
<1> QED
  BY <1>1, <1>2

LEMMA StreamsNextKeeps == ASSUME StreamsInv, [Next]_vars PROVE StreamsInv'
<1>1. what' = what
  BY StepsAreOfParts
<1>2. ASSUME what = "connection" PROVE ConnectionInv'
  <2>1. ConnectionInv /\ [Connection!Next]_(Connection!vars)
    BY <1>2, StepsAreOfParts DEF StreamsInv
  <2> QED
    BY <2>1, PartsFit, NextConnection
<1>3. ASSUME what = "websocket" PROVE WsInv'
  <2>1. WsInv /\ [Websocket!Next]_(Websocket!vars)
    BY <1>3, StepsAreOfParts DEF StreamsInv
  <2> QED
    BY <2>1, PartsFit, WsNextKeeps
<1>4. ASSUME what = "upload" PROVE UploadInv'
  <2>1. UploadInv /\ [Upload!Next]_(Upload!vars)
    BY <1>4, StepsAreOfParts DEF StreamsInv
  <2> QED
    BY <2>1, PartsFit, UploadNextKeeps
<1>5. ASSUME what = "ssi" PROVE SsiInv'
  <2>1. SsiInv /\ [Ssi!Next]_(Ssi!vars)
    BY <1>5, StepsAreOfParts DEF StreamsInv
  <2> QED
    BY <2>1, PartsFit, SsiNextKeeps
<1>6. ASSUME what = "throttle" PROVE ThrottleInv'
  <2>1. ThrottleInv /\ [Throttle!Next]_(Throttle!vars)
    BY <1>6, StepsAreOfParts DEF StreamsInv
  <2> QED
    BY <2>1, PartsFit, ThrottleNextKeeps
<1>7. ASSUME what = "dispatch" PROVE DispatchInv'
  <2>1. DispatchInv /\ [Dispatch!Next]_(Dispatch!vars)
    BY <1>7, StepsAreOfParts DEF StreamsInv
  <2> QED
    BY <2>1, PartsFit, DispatchNextKeeps
<1> QED
  BY <1>1, <1>2, <1>3, <1>4, <1>5, <1>6, <1>7 DEF StreamsInv

\* What each part promises of its states
LEMMA StreamsAreRight == ASSUME StreamsInv PROVE PiecesMakeTheWhole
<1>1. ASSUME what = "connection"
      PROVE  Connection!TypeOK /\ Connection!RequestsAreMessages /\ Connection!BodyIsContiguous
  <2>1. ConnectionInv
    BY <1>1 DEF StreamsInv
  <2> QED
    BY <2>1, PartsFit, ConnectionTypes, RequestsFollow, BodiesFollow
<1>2. ASSUME what = "websocket"
      PROVE  /\ Websocket!PayloadsInOrder /\ Websocket!BufferStartsAFrame
             /\ Websocket!NothingTwice /\ Websocket!NothingAfterClose
  BY <1>2, WsIsRight DEF StreamsInv
<1>3. ASSUME what = "upload" PROVE Upload!AllPartsCount
  BY <1>3, UploadIsRight DEF StreamsInv
<1>4. ASSUME what = "ssi" PROVE Ssi!TagsAreReplaced /\ Ssi!PlainIsCopied
  BY <1>4, PartsFit, SsiIsRight DEF StreamsInv
<1>5. ASSUME what = "throttle" PROVE Throttle!TypeOK /\ Throttle!RateAtMostDouble
  BY <1>5, PartsFit, ThrottleIsRight DEF StreamsInv
<1>6. ASSUME what = "dispatch" PROVE Dispatch!LinksResolve
  BY <1>6 DEF StreamsInv, DispatchInv
<1> QED
  BY <1>1, <1>2, <1>3, <1>4, <1>5, <1>6 DEF PiecesMakeTheWhole

\* What each part promises of its steps
Said ==
  CASE what = "connection" -> /\ Connection!ReadBodiesDoNotStray
                              /\ Connection!ForwardedUnlessTorn
                              /\ Connection!AnnouncedCloseCloses
    [] what = "upload"     -> Upload!FilesAreParts
    [] what = "throttle"   -> Throttle!WritesInFull
    [] OTHER               -> TRUE

LEMMA StepsTellTheTruth == ASSUME StreamsInv, [Next]_vars PROVE [Said]_vars
<1> SUFFICES ASSUME Next PROVE Said
  OBVIOUS
<1>1. ASSUME what = "connection"
      PROVE  /\ Connection!ReadBodiesDoNotStray /\ Connection!ForwardedUnlessTorn
             /\ Connection!AnnouncedCloseCloses
  <2>1. ConnectionInv
    BY <1>1 DEF StreamsInv
  <2>2. Connection!Next
    BY <1>1 DEF Next, OfConnection, OfWebsocket, OfUpload, OfSsi, OfThrottle, OfCgi, OfDispatch
  <2> QED
    BY <2>1, <2>2, PartsFit, StrayedIsUnread, ForwardedIsWhole, CloseIsMeant
<1>2. ASSUME what = "upload" PROVE Upload!FilesAreParts
  <2>1. UploadInv /\ [Upload!Next]_(Upload!vars)
    BY <1>2, StepsAreOfParts DEF StreamsInv
  <2> QED
    BY <2>1, PartsFit, UploadNextKeeps
<1>3. ASSUME what = "throttle" PROVE Throttle!WritesInFull
  BY <1>3, PartsFit, ThrottleWritesInFull DEF StreamsInv
<1> QED
  BY <1>1, <1>2, <1>3 DEF Said

LEMMA StreamsInvariant == Spec => []StreamsInv
<1>1. Init => StreamsInv
  BY StreamsInitHolds
<1>2. StreamsInv /\ [Next]_vars => StreamsInv'
  BY StreamsNextKeeps
<1> QED
  BY <1>1, <1>2, PTL DEF Spec

(***************************************************************************)
(* What is sent in pieces is taken for what it was, for messages, frames,  *)
(* uploads and files of every length, buffers of every size and every way  *)
(* the bytes fall into reads: requests are the client's messages and       *)
(* bodies their own bytes (mongoose.c 1543-1574, 2992-3005, 4764-4793,     *)
(* 4860-4866); websocket payloads come in order up to the first that a     *)
(* failed read cut short, and none after a closing frame or out of bytes   *)
(* that were given before, whatever fails (3899-3981); no part of an       *)
(* upload is passed over of which every read was whole (4104-4180);        *)
(* included files stand where their tags stood, down to the last level     *)
(* that is sent (3504-3545, 3573-3634); a second sees no more than twice   *)
(* the limit, until a send comes short (1580-1606); and a directory is     *)
(* sent only under a URI from which its links resolve (4223-4268).         *)
(***************************************************************************)
THEOREM StreamsMakeTheWhole == Spec => []PiecesMakeTheWhole
<1>1. StreamsInv => PiecesMakeTheWhole
  BY StreamsAreRight
<1> QED
  BY <1>1, StreamsInvariant, PTL

(***************************************************************************)
(* What a step reports is so: only a body that its handler did not read is *)
(* left in the socket (mongoose.c 1543-1574, 3083-3107), a forwarded body  *)
(* was forwarded whole, but for a buffered part that could not be stored   *)
(* (3088-3111), an announced close closes (917-932, 4853-4858), an upload  *)
(* that is counted is in its file, all of it and nothing else, unless a    *)
(* read lost bytes or a write of that file came short (4150-4177), and a   *)
(* limited write falls short only for a reason (1585-1606).                *)
(***************************************************************************)
THEOREM StreamsTellTheTruth == Spec => SaidIsDone
<1>1. ASSUME StreamsInv, [Next]_vars PROVE [Said]_vars
  BY <1>1, StepsTellTheTruth
<1>2. SaidIsDone <=> [][Said]_vars
  BY DEF SaidIsDone, Said
<1> QED
  BY <1>1, <1>2, StreamsInvariant, PTL DEF Spec

=============================================================================
