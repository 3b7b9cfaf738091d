--------------------------- MODULE Handlers_proofs ---------------------------
(***************************************************************************)
(* Proofs about the parts of mongoose that MCHandlers joins, for every     *)
(* number of workers, every size of a file, of a buffer and of an array,   *)
(* every set of names, users, options and variables, and every failure.    *)
(* Each part has an inductive invariant of its own; MgFiles and MgCgi have *)
(* theirs in their own modules of proofs, which are instantiated here as   *)
(* MCHandlers instantiates the parts.                                      *)
(***************************************************************************)
EXTENDS MCHandlers, FiniteSetTheorems, SequenceTheorems, WellFoundedInduction, TLAPS

-----------------------------------------------------------------------------
(* Numbers and functions of them.  What is defined by recursion over the   *)
(* numbers is a function if each step is one: the least number where it is *)
(* not would be one more than a number where it is.                        *)

\* A set of numbers that is not empty has a least one.
LEMMA LeastNatural ==
  ASSUME NEW S \in SUBSET Nat, S # {} PROVE \E i \in S : \A j \in S : i <= j
<1> DEFINE R == {ss \in Nat \X Nat : ss[1] < ss[2]}
<1>1. IsWellFoundedOn(R, Nat)
  BY NatLessThanWellFounded DEF OpToRel
<1>2. PICK i \in S : \A j \in S : ~ (<<j, i>> \in R)
  <2> HIDE DEF R
  <2> QED
    BY <1>1, WFMin
<1>3. \A j \in S : ~ (j < i)
  BY <1>2
<1> QED
  BY <1>3

\* Induction, over a set of numbers.
LEMMA EveryNatural ==
  ASSUME NEW S \in SUBSET Nat, 0 \in S, \A i \in S : i + 1 \in S PROVE S = Nat
<1> DEFINE missing == Nat \ S
<1> SUFFICES ASSUME missing # {} PROVE FALSE
  OBVIOUS
<1>1. PICK i \in missing : \A j \in missing : i <= j
  <2>1. missing \in SUBSET Nat
    OBVIOUS
  <2> HIDE DEF missing
  <2> QED
    BY <2>1, LeastNatural
<1>2. i # 0 /\ i - 1 \in Nat /\ ~ (i <= i - 1)
  OBVIOUS
<1>3. i - 1 \in S
  BY <1>1, <1>2
<1>4. (i - 1) + 1 \in S /\ (i - 1) + 1 = i
  BY <1>3
<1> QED
  BY <1>4

\* A function of numbers is given by its first value and by the step to each.
Follows(f, n, base, G) == f[0] = base /\ \A i \in 1 .. n : f[i] = G[i][f[i - 1]]

\* What is defined step by step up to a number is a function.
LEMMA RecursionExists ==
  ASSUME NEW V, NEW base \in V, NEW N \in Nat, NEW G \in [1 .. N -> [V -> V]]
  PROVE  \E f \in [0 .. N -> V] : Follows(f, N, base, G)
<1> DEFINE Up(m, f) == Follows(f, m, base, G)
           Have(m) == m <= N => \E f \in [0 .. m -> V] : Up(m, f)
           S == {m \in Nat : Have(m)}
<1>1. 0 \in S
  <2> DEFINE f == [i \in 0 .. 0 |-> base]
  <2>1. f \in [0 .. 0 -> V] /\ Up(0, f)
    BY DEF Follows
  <2>2. Have(0)
    <3> HIDE DEF f, Up
    <3> QED
      BY <2>1
  <2> HIDE DEF Have
  <2> QED
    BY <2>2
<1>2. ASSUME NEW m \in S PROVE m + 1 \in S
  <2>1. Have(m + 1)
    <3> SUFFICES ASSUME m + 1 <= N PROVE \E f \in [0 .. m + 1 -> V] : Up(m + 1, f)
      OBVIOUS
    <3>1. PICK f \in [0 .. m -> V] : Up(m, f)
      OBVIOUS
    <3>2. m + 1 \in 1 .. N /\ G[m + 1] \in [V -> V] /\ f[m] \in V
      OBVIOUS
    <3> DEFINE g == [i \in 0 .. m + 1 |-> IF i = m + 1 THEN G[m + 1][f[m]] ELSE f[i]]
    <3>3. g \in [0 .. m + 1 -> V]
      BY <3>2
    <3>4. ASSUME NEW i \in 1 .. m + 1 PROVE g[i] = G[i][g[i - 1]]
      <4>1. CASE i = m + 1
        <5>1. g[i] = G[m + 1][f[m]] /\ i - 1 = m /\ g[m] = f[m]
          BY <4>1
        <5> QED
          BY <4>1, <5>1
      <4>2. CASE i # m + 1
        <5>1. i \in 1 .. m /\ g[i] = f[i] /\ g[i - 1] = f[i - 1]
          BY <4>2
        <5> QED
          BY <3>1, <5>1 DEF Follows
      <4> QED
        BY <4>1, <4>2
    <3>5. Up(m + 1, g)
      <4>1. g[0] = f[0] /\ f[0] = base
        BY <3>1 DEF Follows
      <4> QED
        BY <3>4, <4>1 DEF Follows
    <3> HIDE DEF g, Up
    <3> QED
      BY <3>3, <3>5
  <2> HIDE DEF Have
  <2> QED
    BY <2>1
<1>3. S = Nat
  <2>1. S \in SUBSET Nat
    OBVIOUS
  <2> HIDE DEF S
  <2> QED
    BY <1>1, <1>2, <2>1, EveryNatural
<1>4. Have(N)
  <2> HIDE DEF Have
  <2> QED
    BY <1>3
<1> QED
  BY <1>4

\* A function on the numbers up to n is a sequence of n.
LEMMA FunctionIsSequence ==
  ASSUME NEW T, NEW N \in Nat, NEW f \in [1 .. N -> T]
  PROVE  f \in Seq(T) /\ Len(f) = N
<1>1. f \in Seq(T)
  BY SeqDef
<1> QED
  BY <1>1, LenProperties


-----------------------------------------------------------------------------
(* The log.                                                                *)

\* The instance's own library counts alike.
LEMMA LogCounts == \A S : Log!Cardinality(S) = Cardinality(S)
BY DEF Log!Cardinality, Cardinality

LogTypes ==
  /\ log \in Seq(Workers \X Nat) /\ pc \in [Workers -> {"idle", "print", "flushed"}]
  /\ line \in [Workers -> Nat] /\ left \in [Workers -> Nat] /\ buffer \in [Workers -> Nat]
  /\ size \in [Workers -> Seq(Nat)]

\* A worker has sized the lines it has begun; between two lines nothing is left; and it
\* has put no more into its buffer than there is room for.
LogStep(w) ==
  /\ Len(size[w]) = line[w] /\ buffer[w] <= StreamSize
  /\ pc[w] = "print" => line[w] > 0
  /\ pc[w] # "print" => left[w] = 0 /\ buffer[w] = 0

Printing(w, l) == pc[w] = "print" /\ l = line[w]
\* What is missing of a line in the log is in the buffer or yet to come.
LineIsCounted(w, l) ==
  l \in 1 .. line[w] =>
    size[w][l] = Cardinality(Log!Places(w, l))
                 + (IF Printing(w, l) THEN left[w] + buffer[w] ELSE 0)

\* Nothing is in the log of a line that is not yet begun, or that is short and not yet
\* printed; and a short line is in one piece.
LineInOnePiece(w, l) ==
  /\ l > line[w] => Log!Places(w, l) = {}
  /\ l \in 1 .. line[w] /\ size[w][l] <= StreamSize =>
       /\ Printing(w, l) => Log!Places(w, l) = {}
       /\ \A i, j \in Log!Places(w, l) : \A k \in i .. j : log[k] = <<w, l>>

LogInv ==
  /\ LogTypes
  /\ \A w \in Workers : LogStep(w)
  /\ \A w \in Workers, l \in Nat : LineIsCounted(w, l)
  /\ \A w \in Workers, l \in Nat : LineInOnePiece(w, l)

\* Where the pieces of a line are in the log is finite.
LEMMA LogPlaces ==
  ASSUME LogTypes, NEW w \in Workers, NEW l \in Nat
  PROVE  /\ IsFiniteSet(Log!Places(w, l)) /\ Cardinality(Log!Places(w, l)) \in Nat
         /\ Log!Places(w, l) = {i \in 1 .. Len(log) : log[i] = <<w, l>>}
         /\ Len(log) \in Nat
<1>1. Log!Places(w, l) = {i \in 1 .. Len(log) : log[i] = <<w, l>>} /\ Len(log) \in Nat
  <2>1. PICK T : log \in Seq(T)
    BY DEF LogTypes
  <2>2. DOMAIN log = 1 .. Len(log) /\ Len(log) \in Nat
    BY <2>1, LenProperties
  <2> QED
    BY <2>2 DEF Log!Places
<1>2. IsFiniteSet(1 .. Len(log))
  BY <1>1, FS_Interval
<1>3. Log!Places(w, l) \in SUBSET (1 .. Len(log))
  BY <1>1
<1> QED
  BY <1>1, <1>2, <1>3, FS_Subset, FS_CardinalityType

\* The log stays, and the sizes of lines that were begun.
LEMMA LogPlacesStay ==
  ASSUME NEW w, NEW l, UNCHANGED log PROVE Log!Places(w, l)' = Log!Places(w, l)
BY DEF Log!Places

\* No worker has begun a line, and the log is empty.
LEMMA LogInitHolds == ASSUME Log!MgLogAssumption, Log!Init PROVE LogInv
<1>1. LogTypes
  BY DEF Log!Init, LogTypes
<1>2. \A w \in Workers : LogStep(w)
  BY DEF Log!Init, LogStep, Log!MgLogAssumption
<1>3. \A w \in Workers, l \in Nat : LineIsCounted(w, l)
  BY DEF Log!Init, LineIsCounted
<1>4. \A w \in Workers, l \in Nat : LineInOnePiece(w, l)
  BY DEF Log!Init, LineInOnePiece, Log!Places
<1> QED
  BY <1>1, <1>2, <1>3, <1>4 DEF LogInv

\* A worker whose variables stay, while the others' lines may come into the log.
LogSame(v) ==
  /\ size'[v] = size[v] /\ line'[v] = line[v] /\ pc'[v] = pc[v]
  /\ left'[v] = left[v] /\ buffer'[v] = buffer[v]

\* Of a worker that is the same, so is each line.
LEMMA LogLineStays ==
  ASSUME NEW v, NEW l, LogSame(v), LineIsCounted(v, l), LineInOnePiece(v, l),
         Log!Places(v, l)' = Log!Places(v, l),
         \A i, j \in Log!Places(v, l) : \A k \in i .. j : log'[k] = log[k]
  PROVE  LineIsCounted(v, l)' /\ LineInOnePiece(v, l)'
<1>1. Printing(v, l)' = Printing(v, l)
  BY DEF LogSame, Printing
<1> QED
  BY <1>1 DEF LogSame, LineIsCounted, LineInOnePiece

\* The other lines of the worker that prints
LEMMA LogOtherLineStays ==
  ASSUME NEW w, NEW l, l # line[w], UNCHANGED <<line, size>>,
         LineIsCounted(w, l), LineInOnePiece(w, l),
         Log!Places(w, l)' = Log!Places(w, l),
         \A i, j \in Log!Places(w, l) : \A k \in i .. j : log'[k] = log[k]
  PROVE  LineIsCounted(w, l)' /\ LineInOnePiece(w, l)'
<1>1. ~ Printing(w, l) /\ ~ Printing(w, l)'
  BY DEF Printing
<1> QED
  BY <1>1 DEF LineIsCounted, LineInOnePiece

LEMMA LogStepStays == ASSUME NEW v, LogSame(v), LogStep(v) PROVE LogStep(v)'
BY DEF LogSame, LogStep

\* A line is begun; of one that cannot be written the size is 0.
LEMMA LogOpenKeeps ==
  ASSUME Log!MgLogAssumption, LogInv, NEW w \in Workers, NEW n \in Nat,
         pc[w] = "idle", UNCHANGED <<log, buffer>>, line' = [line EXCEPT ![w] = @ + 1],
         size' = [size EXCEPT ![w] = Append(@, n)],
         \/ pc' = [pc EXCEPT ![w] = "print"] /\ left' = [left EXCEPT ![w] = n]
         \/ n = 0 /\ UNCHANGED <<pc, left>>
  PROVE  LogInv'
<1>1. /\ Len(size[w]) = line[w] /\ line[w] \in Nat /\ size[w] \in Seq(Nat)
      /\ left[w] = 0 /\ buffer[w] = 0 /\ pc[w] # "print"
  BY DEF LogInv, LogTypes, LogStep
<1>2. /\ size'[w] = Append(size[w], n) /\ line'[w] = line[w] + 1
      /\ \A v \in Workers \ {w} : LogSame(v)
  BY DEF LogInv, LogTypes, LogSame
<1>3. /\ size'[w] \in Seq(Nat) /\ Len(size'[w]) = line'[w] /\ size'[w][line[w] + 1] = n
      /\ \A l \in 1 .. line[w] : size'[w][l] = size[w][l]
      /\ \A l \in 1 .. line[w] + 1 : l \in 1 .. line[w] \/ l = line[w] + 1
  <2>1. \A s \in Seq(Nat) : /\ Append(s, n) \in Seq(Nat) /\ Len(Append(s, n)) = Len(s) + 1
                            /\ Append(s, n)[Len(s) + 1] = n
                            /\ \A l \in 1 .. Len(s) : Append(s, n)[l] = s[l]
    OBVIOUS
  <2> QED
    BY <1>1, <1>2, <2>1
<1>4. LogTypes'
  <2>1. size' \in [Workers -> Seq(Nat)]
    BY <1>2, <1>3 DEF LogInv, LogTypes
  <2>2. /\ pc' \in [Workers -> {"idle", "print", "flushed"}] /\ left' \in [Workers -> Nat]
        /\ line' \in [Workers -> Nat]
    <3>1. /\ pc \in [Workers -> {"idle", "print", "flushed"}] /\ left \in [Workers -> Nat]
          /\ line \in [Workers -> Nat]
      BY ONLY LogInv DEF LogInv, LogTypes
    <3>2. pc' \in [Workers -> {"idle", "print", "flushed"}]
      <4>1. \/ pc' = [pc EXCEPT ![w] = "print"]
            \/ pc' = pc
        OBVIOUS
      <4> QED
        BY ONLY <3>1, <4>1
    <3>3. left' \in [Workers -> Nat]
      <4>1. left' = [left EXCEPT ![w] = n] \/ left' = left
        OBVIOUS
      <4> QED
        BY ONLY <3>1, <4>1, n \in Nat
    <3>4. line' \in [Workers -> Nat]
      BY ONLY <1>1, <3>1, line' = [line EXCEPT ![w] = @ + 1]
    <3> QED
      BY <3>2, <3>3, <3>4
  <2> QED
    BY <2>1, <2>2 DEF LogInv, LogTypes
<1>5. /\ buffer'[w] = 0
      /\ \/ pc'[w] = "print" /\ left'[w] = n
         \/ pc'[w] = "idle" /\ left'[w] = 0 /\ n = 0
  BY <1>1 DEF LogInv, LogTypes
<1>6. \A v, l : Log!Places(v, l)' = Log!Places(v, l)
  BY LogPlacesStay
<1>7. \A v \in Workers : LogStep(v)'
  <2>1. LogStep(w)'
    BY <1>1, <1>2, <1>3, <1>5 DEF LogStep, Log!MgLogAssumption
  <2> QED
    BY <1>2, <2>1, LogStepStays DEF LogInv
<1>8. ASSUME NEW v \in Workers, NEW l \in Nat PROVE LineIsCounted(v, l)' /\ LineInOnePiece(v, l)'
  <2>0. LineIsCounted(v, l) /\ LineInOnePiece(v, l)
    BY DEF LogInv
  <2>1. CASE v # w
    BY <1>2, <1>6, <2>0, <2>1, LogLineStays
  <2>2. CASE v = w /\ l = line[w] + 1
    <3>1. Log!Places(w, l)' = {} /\ Cardinality({}) = 0
      BY <1>1, <1>6, <2>0, <2>2, FS_EmptySet DEF LineInOnePiece
    <3>2. LineIsCounted(w, l)'
      <4>1. size'[w][l] = n /\ (Printing(w, l)' <=> pc'[w] = "print")
        BY <1>2, <1>3, <2>2 DEF Printing
      <4>2. Cardinality(Log!Places(w, l)') = 0
        BY <3>1
      <4>3. n = 0 + (IF Printing(w, l)' THEN left'[w] + buffer'[w] ELSE 0)
        <5>1. CASE pc'[w] = "print"
          BY <1>5, <4>1, <5>1
        <5>2. CASE pc'[w] # "print"
          BY <1>5, <4>1, <5>2
        <5> QED
          BY <5>1, <5>2
      <4> QED
        BY <4>1, <4>2, <4>3 DEF LineIsCounted
    <3>3. LineInOnePiece(w, l)'
      BY <1>1, <1>2, <2>2, <3>1 DEF LineInOnePiece
    <3> QED
      BY <2>2, <3>2, <3>3
  <2>3. CASE v = w /\ l # line[w] + 1
    <3>1. ~ Printing(w, l) /\ ~ Printing(w, l)'
      BY <1>1, <1>2, <2>3 DEF Printing
    <3>2. l \in 1 .. line'[w] => l \in 1 .. line[w] /\ size'[w][l] = size[w][l]
      BY <1>1, <1>2, <1>3, <2>3
    <3>3. l > line'[w] => l > line[w]
      BY <1>1, <1>2
    <3>4. Log!Places(w, l)' = Log!Places(w, l) /\ LineIsCounted(w, l) /\ LineInOnePiece(w, l)
      BY <1>6, <2>0, <2>3
    <3>5. LineIsCounted(w, l)'
      BY <3>1, <3>2, <3>4 DEF LineIsCounted
    <3>6. LineInOnePiece(w, l)'
      BY <3>1, <3>2, <3>3, <3>4 DEF LineInOnePiece
    <3> QED
      BY <2>3, <3>5, <3>6
  <2> QED
    BY <2>1, <2>2, <2>3
<1> QED
  BY <1>4, <1>7, <1>8 DEF LogInv

Wrote(w, l, n) == log' = log \o [i \in 1 .. n |-> <<w, l>>]
\* A worker writes pieces of its line to the end of the file.
LEMMA LogWrites ==
  ASSUME LogTypes, NEW w \in Workers, NEW l0 \in Nat, NEW n \in Nat,
         Wrote(w, l0, n)
  PROVE  /\ log' \in Seq(Workers \X Nat)
         /\ Log!Places(w, l0)' = Log!Places(w, l0) \union Len(log) + 1 .. Len(log) + n
         /\ Cardinality(Log!Places(w, l0)') = Cardinality(Log!Places(w, l0)) + n
         /\ \A v \in Workers, l \in Nat :
              v # w \/ l # l0 =>
                /\ Log!Places(v, l)' = Log!Places(v, l)
                /\ \A i, j \in Log!Places(v, l) : \A k \in i .. j : log'[k] = log[k]
         /\ \A k \in Len(log) + 1 .. Len(log) + n : log'[k] = <<w, l0>>
<1> DEFINE p == <<w, l0>>
           T == Workers \X Nat
           more == [i \in 1 .. n |-> p]
           N == Len(log)
<1>1. log \in Seq(T) /\ p \in T
  BY DEF LogTypes
<1>3. more \in [1 .. n -> T]
  BY <1>1
<1> HIDE DEF T
<1>4. more \in Seq(T) /\ Len(more) = n
  BY <1>3, FunctionIsSequence
<1>5. \A i \in 1 .. n : more[i] = p
  OBVIOUS
<1>6. log' = log \o more
  BY DEF Wrote
<1> HIDE DEF more, p
<1>7. /\ log' \in Seq(T) /\ Len(log') = N + n /\ N \in Nat
      /\ \A k \in 1 .. N + n : log'[k] = IF k <= N THEN log[k] ELSE more[k - N]
      /\ DOMAIN log' = 1 .. N + n /\ DOMAIN log = 1 .. N
  <2>1. /\ log \o more \in Seq(T) /\ Len(log \o more) = Len(log) + Len(more)
        /\ \A k \in 1 .. Len(log) + Len(more) :
             (log \o more)[k] = IF k <= Len(log) THEN log[k] ELSE more[k - Len(log)]
    BY <1>1, <1>4, ConcatProperties
  <2>2. DOMAIN log = 1 .. N /\ N \in Nat
    BY <1>1, LenProperties
  <2>3. DOMAIN log' = 1 .. Len(log')
    BY <1>6, <2>1, LenProperties
  <2> QED
    BY <1>4, <1>6, <2>1, <2>2, <2>3
<1>8. /\ \A k \in 1 .. N : log'[k] = log[k]
      /\ \A k \in N + 1 .. N + n : log'[k] = p
      /\ \A k \in 1 .. N + n : k \in 1 .. N \/ k \in N + 1 .. N + n
  <2>1. \A k \in N + 1 .. N + n : k - N \in 1 .. n /\ k \in 1 .. N + n /\ ~ (k <= N)
    BY <1>7
  <2>2. \A k \in 1 .. N : k \in 1 .. N + n /\ k <= N
    BY <1>7
  <2>3. \A k \in 1 .. N + n : k \in 1 .. N \/ k \in N + 1 .. N + n
    BY <1>7
  <2> QED
    BY <1>5, <1>7, <2>1, <2>2, <2>3
<1>9. \A v, l : /\ Log!Places(v, l) = {k \in 1 .. N : log[k] = <<v, l>>}
                /\ Log!Places(v, l)' = {k \in 1 .. N + n : log'[k] = <<v, l>>}
  BY <1>7 DEF Log!Places
<1>10. Log!Places(w, l0)' = Log!Places(w, l0) \union N + 1 .. N + n
  <2>1. <<w, l0>> = p
    BY DEF p
  <2>2. \A k \in N + 1 .. N + n : k \in 1 .. N + n /\ k \notin 1 .. N
    BY <1>7
  <2>3. \A k \in 1 .. N : k \in 1 .. N + n
    BY <1>7
  <2> QED
    <3>1. /\ Log!Places(w, l0) = {k \in 1 .. N : log[k] = p}
          /\ Log!Places(w, l0)' = {k \in 1 .. N + n : log'[k] = p}
      BY <1>9, <2>1
    <3> QED
      BY <1>8, <2>2, <2>3, <3>1
<1>11. Cardinality(Log!Places(w, l0)') = Cardinality(Log!Places(w, l0)) + n
  <2> DEFINE S == Log!Places(w, l0)
             U == N + 1 .. N + n
  <2>1. IsFiniteSet(S) /\ Cardinality(S) \in Nat
    BY <1>1, LogPlaces
  <2>2. IsFiniteSet(U) /\ Cardinality(U) = n
    <3>1. N + 1 \in Int /\ N + n \in Int /\ (IF N + 1 > N + n THEN 0 ELSE N + n - (N + 1) + 1) = n
      BY <1>7
    <3> QED
      BY <3>1, FS_Interval
  <2>3. S \cap U = {}
    BY <1>7, <1>9
  <2>4. Cardinality(S \cap U) = 0
    BY <2>3, FS_EmptySet
  <2>5. Log!Places(w, l0)' = S \union U
    BY <1>10
  <2> HIDE DEF S, U
  <2>6. Cardinality(S \union U) = Cardinality(S) + Cardinality(U) - Cardinality(S \cap U)
    BY <2>1, <2>2, FS_Union
  <2>7. Cardinality(S \union U) = Cardinality(S) + n
    BY <2>1, <2>2, <2>4, <2>6
  <2>8. Cardinality(Log!Places(w, l0)') = Cardinality(S) + n
    BY <2>5, <2>7
  <2> QED
    BY <2>8 DEF S
<1>12. ASSUME NEW v \in Workers, NEW l \in Nat, v # w \/ l # l0
       PROVE  /\ Log!Places(v, l)' = Log!Places(v, l)
              /\ \A i, j \in Log!Places(v, l) : \A k \in i .. j : log'[k] = log[k]
  <2>1. <<v, l>> # p
    BY <1>12 DEF p
  <2>2. Log!Places(v, l)' = Log!Places(v, l)
    <3>1. \A k \in 1 .. N : k \in 1 .. N + n
      BY <1>7
    <3> QED
      BY <1>8, <1>9, <2>1, <3>1
  <2>3. \A i, j \in 1 .. N : \A k \in i .. j : k \in 1 .. N
    BY <1>7
  <2> QED
    BY <1>8, <1>9, <2>2, <2>3
<1> QED
  BY <1>7, <1>8, <1>10, <1>11, <1>12 DEF p, T

\* What is in the buffer of a line counts as the line's, wherever it is.
LEMMA LogPutKeeps ==
  ASSUME Log!MgLogAssumption, LogInv, NEW w \in Workers, Log!Put(w)
  PROVE  LogInv'
<1>0. LogTypes /\ LogStep(w) /\ StreamSize \in Nat /\ UNCHANGED <<pc, line, size>>
  BY DEF LogInv, Log!Put, Log!MgLogAssumption
<1>00. PICK l0 \in Nat : l0 = line[w]
  BY <1>0 DEF LogTypes
<1>1. /\ pc[w] = "print" /\ l0 \in Nat /\ l0 > 0 /\ left[w] \in Nat /\ left[w] > 0
      /\ buffer[w] \in Nat /\ buffer[w] <= StreamSize
      /\ left' = [left EXCEPT ![w] = left[w] - 1]
  BY <1>0, <1>00 DEF LogTypes, LogStep, Log!Put
<1>2. /\ left' \in [Workers -> Nat] /\ left'[w] = left[w] - 1
      /\ \A v \in Workers \ {w} : left'[v] = left[v]
  <2>1. left \in [Workers -> Nat] /\ left[w] - 1 \in Nat
    BY <1>0, <1>1 DEF LogTypes
  <2> QED
    BY <1>1, <2>1
<1>3. /\ LineIsCounted(w, l0) /\ LineInOnePiece(w, l0) /\ Printing(w, l0) /\ Printing(w, l0)'
      /\ Cardinality(Log!Places(w, l0)) \in Nat
  BY <1>0, <1>00, <1>1, LogPlaces DEF LogInv, Printing
<1>4. size[w][l0] = Cardinality(Log!Places(w, l0)) + (left[w] + buffer[w])
  BY <1>00, <1>1, <1>3 DEF LineIsCounted
<1>5. CASE Log!BufferFull(w)
  <2>0. log' = log \o [i \in 1 .. buffer[w] |-> <<w, l0>>]
    BY <1>00, <1>5 DEF Log!Put, Log!Write, Log!Piece
  <2>1. buffer[w] = StreamSize /\ buffer' = [buffer EXCEPT ![w] = 1]
    BY <1>5 DEF Log!Put, Log!BufferFull
  <2>2. /\ log' \in Seq(Workers \X Nat)
        /\ Log!Places(w, l0)' = Log!Places(w, l0) \union Len(log) + 1 .. Len(log) + buffer[w]
        /\ Cardinality(Log!Places(w, l0)') = Cardinality(Log!Places(w, l0)) + buffer[w]
        /\ \A v \in Workers, l \in Nat :
             v # w \/ l # l0 =>
               /\ Log!Places(v, l)' = Log!Places(v, l)
               /\ \A i, j \in Log!Places(v, l) : \A k \in i .. j : log'[k] = log[k]
        /\ \A k \in Len(log) + 1 .. Len(log) + buffer[w] : log'[k] = <<w, l0>>
    <3>1. LogTypes /\ buffer[w] \in Nat
      BY <1>0, <1>1
    <3>2. Wrote(w, l0, buffer[w])
      BY <2>0 DEF Wrote
    <3> QED
      BY <2>0, <3>1, <3>2, LogWrites
  <2>3. /\ buffer' \in [Workers -> Nat] /\ buffer'[w] = 1
        /\ \A v \in Workers \ {w} : buffer'[v] = buffer[v]
    BY <1>0, <2>1 DEF LogTypes
  <2>4. LogTypes'
    BY <1>0, <1>2, <2>2, <2>3 DEF LogTypes
  <2>5. \A v \in Workers \ {w} : LogSame(v)
    BY <1>0, <1>2, <2>3 DEF LogSame
  <2>6. \A v \in Workers : LogStep(v)'
    <3>1. LogStep(w)'
      BY <1>0, <1>1, <2>1, <2>3 DEF LogStep, Log!MgLogAssumption
    <3> QED
      BY <2>5, <3>1, LogStepStays DEF LogInv
  <2>7. ~ (size[w][l0] <= StreamSize)
    BY <1>0, <1>1, <1>3, <1>4, <2>1
  <2>8. LineIsCounted(w, l0)' /\ LineInOnePiece(w, l0)'
    <3>1. size[w][l0] = Cardinality(Log!Places(w, l0)') + (left'[w] + buffer'[w])
      BY <1>1, <1>2, <1>3, <1>4, <2>2, <2>3
    <3>2. LineIsCounted(w, l0)'
      BY <1>0, <1>00, <1>3, <3>1 DEF LineIsCounted
    <3>3. LineInOnePiece(w, l0)'
      BY <1>0, <1>00, <1>1, <2>7 DEF LineInOnePiece
    <3> QED
      BY <3>2, <3>3
  <2>9. ASSUME NEW v \in Workers, NEW l \in Nat PROVE LineIsCounted(v, l)' /\ LineInOnePiece(v, l)'
    <3>1. CASE v # w
      BY <2>2, <2>5, <3>1, LogLineStays DEF LogInv
    <3>2. CASE v = w /\ l = l0
      BY <2>8, <3>2
    <3>3. CASE v = w /\ l # l0
      BY <1>0, <1>00, <2>2, <3>3, LogOtherLineStays DEF LogInv
    <3> QED
      BY <3>1, <3>2, <3>3
  <2> QED
    BY <2>4, <2>6, <2>9 DEF LogInv
<1>6. CASE ~ Log!BufferFull(w)
  <2>1. buffer[w] # StreamSize /\ buffer' = [buffer EXCEPT ![w] = buffer[w] + 1] /\ log' = log
    BY <1>6 DEF Log!Put, Log!BufferFull
  <2>3. /\ buffer' \in [Workers -> Nat] /\ buffer'[w] = buffer[w] + 1
        /\ \A v \in Workers \ {w} : buffer'[v] = buffer[v]
    <3>1. buffer \in [Workers -> Nat] /\ buffer[w] + 1 \in Nat
      BY <1>0, <1>1 DEF LogTypes
    <3> QED
      BY <2>1, <3>1
  <2>4. LogTypes'
    BY <1>0, <1>2, <2>1, <2>3 DEF LogTypes
  <2>5. \A v \in Workers \ {w} : LogSame(v)
    BY <1>0, <1>2, <2>3 DEF LogSame
  <2>6. \A v \in Workers : LogStep(v)'
    <3>1. LogStep(w)'
      BY <1>0, <1>1, <2>1, <2>3 DEF LogStep
    <3> QED
      BY <2>5, <3>1, LogStepStays DEF LogInv
  <2>7. \A v, l : Log!Places(v, l)' = Log!Places(v, l)
    BY <2>1, LogPlacesStay
  <2>8. LineIsCounted(w, l0)' /\ LineInOnePiece(w, l0)'
    <3>1. size[w][l0] = Cardinality(Log!Places(w, l0)) + (left'[w] + buffer'[w])
      BY <1>1, <1>2, <1>3, <1>4, <2>3
    <3>2. LineIsCounted(w, l0)'
      BY <1>0, <1>00, <1>3, <2>7, <3>1 DEF LineIsCounted
    <3>3. LineInOnePiece(w, l0)'
      BY <1>0, <1>00, <1>3, <2>1, <2>7 DEF LineInOnePiece
    <3> QED
      BY <3>2, <3>3
  <2>9. ASSUME NEW v \in Workers, NEW l \in Nat PROVE LineIsCounted(v, l)' /\ LineInOnePiece(v, l)'
    <3>1. CASE v # w
      BY <2>1, <2>5, <2>7, <3>1, LogLineStays DEF LogInv
    <3>2. CASE v = w /\ l = l0
      BY <2>8, <3>2
    <3>3. CASE v = w /\ l # l0
      BY <1>0, <1>00, <2>1, <2>7, <3>3, LogOtherLineStays DEF LogInv
    <3> QED
      BY <3>1, <3>2, <3>3
  <2> QED
    BY <2>4, <2>6, <2>9 DEF LogInv
<1> QED
  BY <1>5, <1>6

\* fclose writes what is left in the buffer.
LEMMA LogFlushKeeps ==
  ASSUME Log!MgLogAssumption, LogInv, NEW w \in Workers, Log!Flush(w)
  PROVE  LogInv'
<1>0. LogTypes /\ LogStep(w) /\ UNCHANGED <<line, left, size>>
  BY DEF LogInv, Log!Flush
<1>00. PICK l0 \in Nat : l0 = line[w]
  BY <1>0 DEF LogTypes
<1>1. /\ pc[w] = "print" /\ l0 \in Nat /\ l0 > 0 /\ left[w] = 0 /\ buffer[w] \in Nat
      /\ buffer' = [buffer EXCEPT ![w] = 0] /\ pc' = [pc EXCEPT ![w] = "flushed"]
      /\ log' = log \o [i \in 1 .. buffer[w] |-> <<w, l0>>]
  BY <1>0, <1>00 DEF LogTypes, LogStep, Log!Flush, Log!Write, Log!Piece
<1>2. /\ buffer' \in [Workers -> Nat] /\ buffer'[w] = 0
      /\ pc' \in [Workers -> {"idle", "print", "flushed"}] /\ pc'[w] = "flushed"
      /\ \A v \in Workers \ {w} : buffer'[v] = buffer[v] /\ pc'[v] = pc[v]
  BY <1>0, <1>1 DEF LogTypes
<1>3. /\ LineIsCounted(w, l0) /\ LineInOnePiece(w, l0) /\ Printing(w, l0) /\ ~ Printing(w, l0)'
      /\ Cardinality(Log!Places(w, l0)) \in Nat
  BY <1>0, <1>00, <1>1, <1>2, LogPlaces DEF LogInv, Printing
<1>4. size[w][l0] = Cardinality(Log!Places(w, l0)) + buffer[w]
  BY <1>00, <1>1, <1>3 DEF LineIsCounted
<1>5. /\ log' \in Seq(Workers \X Nat)
      /\ Log!Places(w, l0)' = Log!Places(w, l0) \union Len(log) + 1 .. Len(log) + buffer[w]
      /\ Cardinality(Log!Places(w, l0)') = Cardinality(Log!Places(w, l0)) + buffer[w]
      /\ \A v \in Workers, l \in Nat :
           v # w \/ l # l0 =>
             /\ Log!Places(v, l)' = Log!Places(v, l)
             /\ \A i, j \in Log!Places(v, l) : \A k \in i .. j : log'[k] = log[k]
      /\ \A k \in Len(log) + 1 .. Len(log) + buffer[w] : log'[k] = <<w, l0>>
  <2>1. PICK n \in Nat : n = buffer[w]
    BY <1>1
  <2>2. Wrote(w, l0, n)
    BY <1>1, <2>1 DEF Wrote
  <2>3. /\ log' \in Seq(Workers \X Nat)
        /\ Log!Places(w, l0)' = Log!Places(w, l0) \union Len(log) + 1 .. Len(log) + n
        /\ Cardinality(Log!Places(w, l0)') = Cardinality(Log!Places(w, l0)) + n
        /\ \A v \in Workers, l \in Nat :
             v # w \/ l # l0 =>
               /\ Log!Places(v, l)' = Log!Places(v, l)
               /\ \A i, j \in Log!Places(v, l) : \A k \in i .. j : log'[k] = log[k]
        /\ \A k \in Len(log) + 1 .. Len(log) + n : log'[k] = <<w, l0>>
    BY <1>0, <1>1, <2>2, LogWrites
  <2> QED
    BY <2>1, <2>3
<1>6. LogTypes'
  BY <1>0, <1>2, <1>5 DEF LogTypes
<1>7. \A v \in Workers \ {w} : LogSame(v)
  BY <1>0, <1>2 DEF LogSame
<1>8. \A v \in Workers : LogStep(v)'
  <2>1. LogStep(w)'
    BY <1>0, <1>1, <1>2 DEF LogStep, Log!MgLogAssumption
  <2> QED
    BY <1>7, <2>1, LogStepStays DEF LogInv
<1>9. LineIsCounted(w, l0)' /\ LineInOnePiece(w, l0)'
  <2>1. size[w][l0] = Cardinality(Log!Places(w, l0)') + 0
    BY <1>1, <1>3, <1>4, <1>5
  <2>2. LineIsCounted(w, l0)'
    BY <1>0, <1>00, <1>3, <2>1 DEF LineIsCounted
  <2>3. ASSUME size[w][l0] <= StreamSize
        PROVE  \A i, j \in Log!Places(w, l0)' : \A k \in i .. j : log'[k] = <<w, l0>>
    <3>1. Log!Places(w, l0)' = Len(log) + 1 .. Len(log) + buffer[w]
      BY <1>00, <1>1, <1>3, <1>5, <2>3 DEF LineInOnePiece
    <3>2. Len(log) \in Nat
      BY <1>0, <1>1, LogPlaces
    <3>3. \A a, b \in Nat : \A i, j \in a + 1 .. a + b : \A k \in i .. j : k \in a + 1 .. a + b
      OBVIOUS
    <3> QED
      BY <1>1, <1>5, <3>1, <3>2, <3>3
  <2>4. LineInOnePiece(w, l0)'
    <3>1. ~ (l0 > line'[w]) /\ size'[w][l0] = size[w][l0]
      BY <1>0, <1>00
    <3> QED
      BY <1>3, <2>3, <3>1 DEF LineInOnePiece
  <2> QED
    BY <2>2, <2>4
<1>10. ASSUME NEW v \in Workers, NEW l \in Nat PROVE LineIsCounted(v, l)' /\ LineInOnePiece(v, l)'
  <2>1. CASE v # w
    BY <1>5, <1>7, <2>1, LogLineStays DEF LogInv
  <2>2. CASE v = w /\ l = l0
    BY <1>9, <2>2
  <2>3. CASE v = w /\ l # l0
    BY <1>0, <1>00, <1>5, <2>3, LogOtherLineStays DEF LogInv
  <2> QED
    BY <2>1, <2>2, <2>3
<1> QED
  BY <1>6, <1>8, <1>10 DEF LogInv

\* The next line may begin.
LEMMA LogCloseKeeps ==
  ASSUME LogInv, NEW w \in Workers, Log!Close(w)
  PROVE  LogInv'
<1>0. LogTypes /\ LogStep(w) /\ UNCHANGED <<log, line, left, size, buffer>>
  BY DEF LogInv, Log!Close
<1>1. /\ pc[w] = "flushed" /\ pc' \in [Workers -> {"idle", "print", "flushed"}]
      /\ pc'[w] = "idle" /\ \A v \in Workers \ {w} : pc'[v] = pc[v]
  BY <1>0 DEF LogTypes, Log!Close
<1>2. LogTypes'
  BY <1>0, <1>1 DEF LogTypes
<1>3. \A v \in Workers \ {w} : LogSame(v)
  BY <1>0, <1>1 DEF LogSame
<1>4. \A v, l : Log!Places(v, l)' = Log!Places(v, l)
  BY <1>0, LogPlacesStay
<1>5. \A v \in Workers : LogStep(v)'
  <2>1. LogStep(w)'
    BY <1>0, <1>1 DEF LogStep
  <2> QED
    BY <1>3, <2>1, LogStepStays DEF LogInv
<1>6. ASSUME NEW v \in Workers, NEW l \in Nat PROVE LineIsCounted(v, l)' /\ LineInOnePiece(v, l)'
  <2>1. (Printing(v, l)' <=> Printing(v, l)) /\ LineIsCounted(v, l) /\ LineInOnePiece(v, l)
    BY <1>0, <1>1 DEF Printing, LogInv
  <2> QED
    BY <1>0, <1>4, <2>1 DEF LineIsCounted, LineInOnePiece
<1> QED
  BY <1>2, <1>5, <1>6 DEF LogInv

\* Every step of a worker keeps the invariant.
LEMMA LogNextKeeps == ASSUME Log!MgLogAssumption, LogInv, Log!Next PROVE LogInv'
<1> SUFFICES ASSUME NEW w \in Workers,
                    Log!Open(w) \/ Log!OpenFails(w) \/ Log!Put(w) \/ Log!Flush(w) \/ Log!Close(w)
             PROVE  LogInv'
  BY DEF Log!Next
<1>1. CASE Log!Open(w)
  <2>1. PICK n \in Nat : left' = [left EXCEPT ![w] = n] /\ size' = [size EXCEPT ![w] = Append(@, n)]
    BY <1>1 DEF Log!Open, Log!MgLogAssumption
  <2> QED
    BY <1>1, <2>1, LogOpenKeeps DEF Log!Open
<1>2. CASE Log!OpenFails(w)
  BY <1>2, LogOpenKeeps DEF Log!OpenFails
<1> QED
  BY <1>1, <1>2, LogPutKeeps, LogFlushKeeps, LogCloseKeeps

LEMMA LogStutterKeeps ==
  ASSUME LogInv, UNCHANGED <<log, pc, line, left, size, buffer>> PROVE LogInv'
<1>1. \A v, l : Log!Places(v, l)' = Log!Places(v, l)
  BY LogPlacesStay
<1>2. \A v \in Workers : LogSame(v)
  BY DEF LogSame
<1>3. LogTypes'
  BY DEF LogInv, LogTypes
<1>4. \A v \in Workers : LogStep(v)'
  BY <1>2, LogStepStays DEF LogInv
<1>5. \A v \in Workers, l \in Nat : LineIsCounted(v, l)' /\ LineInOnePiece(v, l)'
  BY <1>1, <1>2, LogLineStays DEF LogInv
<1> QED
  BY <1>3, <1>4, <1>5 DEF LogInv

\* A line that was closed is all there, and in one piece if it fits the buffer.
LEMMA LogIsRight == ASSUME LogInv PROVE Log!ShortLinesAreWhole /\ Log!LinesAreLogged
<1>0. \A w \in Workers : line[w] \in Nat
  BY DEF LogInv, LogTypes
<1>1. ASSUME NEW w \in Workers, NEW l \in 1 .. line[w]
      PROVE  LineIsCounted(w, l) /\ LineInOnePiece(w, l) /\ Cardinality(Log!Places(w, l)) \in Nat
  <2>1. l \in Nat
    BY <1>0
  <2> QED
    BY <2>1, LogPlaces DEF LogInv
<1>2. Log!ShortLinesAreWhole
  BY <1>0, <1>1 DEF Log!ShortLinesAreWhole, LineInOnePiece
<1>3. Log!LinesAreLogged
  <2> SUFFICES ASSUME NEW w \in Workers, NEW l \in 1 .. line[w], l < line[w] \/ pc[w] # "print"
               PROVE  Cardinality(Log!Places(w, l)) = size[w][l]
    BY LogCounts DEF Log!LinesAreLogged
  <2>1. ~ Printing(w, l)
    BY <1>0 DEF Printing
  <2> QED
    BY <1>1, <2>1 DEF LineIsCounted
<1> QED
  BY <1>2, <1>3

-----------------------------------------------------------------------------
(* The list of a directory.                                                *)

\* The instance's own library counts alike.
LEMMA DirCounts == \A S : Directory!Cardinality(S) = Cardinality(S)
BY DEF Directory!Cardinality, Cardinality

FileStats == [is_directory : BOOLEAN, size : Nat, mtime : Nat]
DirEntries == [name : Nat, is_directory : BOOLEAN, size : Nat, mtime : Nat]

DirTypes ==
  /\ stat \in [Directory!Shown -> FileStats] /\ query \in {"n", "s", "d", "?"} \X {"a", "d"}
  /\ pc \in {"scan", "done"} /\ read \subseteq Names /\ entries \in Seq(DirEntries)
  /\ arr_size \in Nat \ {0} /\ allocated \in Nat /\ failed \in BOOLEAN

\* What the code holds for the size of the array is its size, or there is no array.
DirRoom ==
  \/ allocated = 0 /\ entries = <<>>
  \/ allocated = arr_size /\ Len(entries) <= allocated

\* The entries are of shown names that were read, and of each if memory has not ended.
DirNames ==
  /\ \A i \in 1 .. Len(entries) : entries[i].name \in read \ Hidden
  /\ \A i, j \in 1 .. Len(entries) : entries[i].name = entries[j].name => i = j
  /\ ~ failed => \A n \in read \ Hidden : \E i \in 1 .. Len(entries) : entries[i].name = n

\* As many names are allocated as there are entries, until they are printed.
DirStrings ==
  strings \in Int /\ (~ failed => strings = IF pc = "scan" THEN Len(entries) ELSE 0)

DirInv == DirTypes /\ DirRoom /\ DirStrings /\ DirNames /\ Directory!ListIsDirectory

\* Nothing is read.
LEMMA DirInitHolds == ASSUME Directory!MgDirectoryAssumption, Directory!Init PROVE DirInv
<1>1. stat \in [Directory!Shown -> FileStats]
  <2>1. PICK sizes \in [Directory!Shown -> Numbers], times \in [Directory!Shown -> Numbers] :
          stat = [n \in Directory!Shown |->
                    [is_directory |-> n \in Dirs, size |-> sizes[n], mtime |-> times[n]]]
    BY DEF Directory!Init
  <2>2. Numbers \subseteq Nat
    BY DEF Directory!MgDirectoryAssumption
  <2>3. ASSUME NEW n \in Directory!Shown
        PROVE  [is_directory |-> n \in Dirs, size |-> sizes[n], mtime |-> times[n]] \in FileStats
    <3>1. sizes[n] \in Nat /\ times[n] \in Nat
      BY <2>2
    <3>2. (n \in Dirs) \in BOOLEAN
      OBVIOUS
    <3> QED
      BY <3>1, <3>2 DEF FileStats
  <2> QED
    BY <2>1, <2>3
<1>2. DirTypes
  <2>1. query \in {"n", "s", "d", "?"} \X {"a", "d"}
    BY DEF Directory!Init, Directory!MgDirectoryAssumption
  <2>2. arr_size \in Nat \ {0} /\ allocated \in Nat /\ failed \in BOOLEAN
    BY DEF Directory!Init, Directory!MgDirectoryAssumption
  <2>3. entries = <<>> /\ read = {} /\ pc = "scan"
    BY DEF Directory!Init
  <2>4. entries \in Seq(DirEntries)
    BY <2>3
  <2> QED
    BY <1>1, <2>1, <2>2, <2>3, <2>4 DEF DirTypes
<1>3. DirRoom /\ DirStrings /\ DirNames
  <2>1. entries = <<>> /\ Len(<<>>) = 0
    BY DEF Directory!Init
  <2> QED
    BY <2>1 DEF Directory!Init, DirRoom, DirStrings, DirNames
<1>4. Directory!ListIsDirectory
  BY DEF Directory!Init, Directory!ListIsDirectory
<1> QED
  BY <1>2, <1>3, <1>4 DEF DirInv

\* An entry tells its name and what stat told of it.
LEMMA EntryOf ==
  ASSUME NEW n \in Nat, NEW one \in FileStats
  PROVE  Directory!Entry(n, one) \in DirEntries /\ Directory!Entry(n, one).name = n
BY DEF Directory!Entry, FileStats, DirEntries

\* An entry is stored behind those that there are, or alone.
LEMMA DirScanKeeps ==
  ASSUME Directory!MgDirectoryAssumption, DirInv, Directory!Scan PROVE DirInv'
<1>0. /\ DirTypes /\ DirRoom /\ DirStrings /\ DirNames /\ UNCHANGED <<stat, query, pc, printed>>
      /\ pc = "scan"
  BY DEF DirInv, Directory!Scan
<1>1. Directory!ListIsDirectory'
  BY <1>0 DEF Directory!ListIsDirectory
<1>2. PICK n \in Names \ read :
        /\ read' = read \union {n}
        /\ IF n \in Hidden THEN UNCHANGED <<entries, strings, arr_size, allocated, failed>>
           ELSE \E one \in {stat[n], Directory!Gone} :
                  IF Directory!Full
                    THEN \/ Directory!Store(2 * arr_size, Directory!Entry(n, one))
                         \/ Directory!NoMemory(2 * arr_size)
                    ELSE Directory!Store(arr_size, Directory!Entry(n, one))
  BY DEF Directory!Scan
<1>3. CASE n \in Hidden
  <2>1. UNCHANGED <<entries, strings, arr_size, allocated, failed>>
        /\ read' \ Hidden = read \ Hidden /\ read' \subseteq Names
    BY <1>0, <1>2, <1>3 DEF DirTypes
  <2>2. DirTypes'
    BY <1>0, <2>1 DEF DirTypes
  <2>3. DirRoom' /\ DirStrings' /\ DirNames'
    BY <1>0, <2>1 DEF DirRoom, DirStrings, DirNames
  <2> QED
    BY <1>1, <2>2, <2>3 DEF DirInv
<1>4. CASE n \notin Hidden
  <2>1. PICK one \in {stat[n], Directory!Gone} :
          IF Directory!Full
            THEN \/ Directory!Store(2 * arr_size, Directory!Entry(n, one))
                 \/ Directory!NoMemory(2 * arr_size)
            ELSE Directory!Store(arr_size, Directory!Entry(n, one))
    BY <1>2, <1>4
  <2>2. n \in Nat /\ n \in Directory!Shown /\ n \notin read /\ Names \subseteq Nat
    BY <1>2, <1>4 DEF Directory!MgDirectoryAssumption, Directory!Shown
  <2>3. one \in FileStats
    <3>1. stat[n] \in FileStats
      BY <1>0, <2>2 DEF DirTypes
    <3>2. Directory!Gone \in FileStats
      BY DEF Directory!Gone, FileStats
    <3> QED
      BY <3>1, <3>2
  <2>4. PICK e \in DirEntries : e = Directory!Entry(n, one) /\ e.name = n
    BY <2>2, <2>3, EntryOf
  <2>5. /\ read' \subseteq Names /\ read' \ Hidden = (read \ Hidden) \union {n}
        /\ entries \in Seq(DirEntries) /\ Len(entries) \in Nat
        /\ arr_size \in Nat \ {0} /\ allocated \in Nat
    BY <1>0, <1>2, <1>4 DEF DirTypes
  <2>6. CASE Directory!Full /\ Directory!NoMemory(2 * arr_size)
    <3>1. /\ arr_size' = 2 * arr_size /\ allocated' = 0 /\ failed' = TRUE /\ entries' = <<>>
          /\ arr_size' \in Nat \ {0} /\ strings' = strings
      BY <2>5, <2>6 DEF Directory!NoMemory
    <3>2. DirTypes'
      BY <1>0, <2>5, <3>1 DEF DirTypes
    <3>3. DirRoom' /\ DirStrings' /\ DirNames'
      BY <1>0, <3>1 DEF DirRoom, DirStrings, DirNames
    <3> QED
      BY <1>1, <3>2, <3>3 DEF DirInv
  <2>7. CASE \E s \in Nat \ {0} : /\ s = (IF Directory!Full THEN 2 * arr_size ELSE arr_size)
                                  /\ Directory!Store(s, e)
    <3>1. PICK s \in Nat \ {0} : /\ s = (IF Directory!Full THEN 2 * arr_size ELSE arr_size)
                                 /\ Directory!Store(s, e)
      BY <2>7
    <3>2. /\ arr_size' = s /\ allocated' = s /\ entries' = Append(entries, e)
          /\ failed' = failed /\ strings' = strings + 1
      BY <3>1 DEF Directory!Store
    <3> DEFINE N == Len(entries)
    <3>3. /\ entries' \in Seq(DirEntries) /\ Len(entries') = N + 1 /\ N \in Nat
          /\ \A i \in 1 .. N : entries'[i] = entries[i]
          /\ entries'[N + 1] = e
          /\ \A i \in 1 .. N + 1 : i \in 1 .. N \/ i = N + 1
      BY <2>5, <3>2
    <3>4. N + 1 <= s
      BY <1>0, <2>5, <3>1, <3>3 DEF DirRoom, Directory!Full
    <3>5. DirTypes'
      BY <1>0, <2>5, <3>2, <3>3 DEF DirTypes
    <3>6. DirRoom'
      BY <3>2, <3>3, <3>4 DEF DirRoom
    <3>15. DirStrings'
      BY <1>0, <3>2, <3>3 DEF DirStrings
    <3> HIDE DEF N
    <3>7. \A i \in 1 .. N : entries[i].name \in read \ Hidden
      BY <1>0 DEF DirNames, N
    <3>8. \A i, j \in 1 .. N : entries[i].name = entries[j].name => i = j
      BY <1>0 DEF DirNames, N
    <3>9. ~ failed => \A m \in read \ Hidden : \E i \in 1 .. N : entries[i].name = m
      BY <1>0 DEF DirNames, N
    <3>10. \A i \in 1 .. N + 1 : entries'[i].name \in read' \ Hidden
      BY <2>4, <2>5, <3>3, <3>7
    <3>11. \A i, j \in 1 .. N + 1 : entries'[i].name = entries'[j].name => i = j
      BY <2>2, <2>4, <3>3, <3>7, <3>8
    <3>12. N + 1 \in 1 .. N + 1 /\ \A i \in 1 .. N : i \in 1 .. N + 1
      BY <3>3
    <3>13. ~ failed => \A m \in read' \ Hidden : \E i \in 1 .. N + 1 : entries'[i].name = m
      BY <2>4, <2>5, <3>3, <3>9, <3>12
    <3>14. DirNames'
      BY <3>2, <3>3, <3>10, <3>11, <3>13 DEF DirNames
    <3> QED
      BY <1>1, <3>5, <3>6, <3>14, <3>15 DEF DirInv
  <2>8. 2 * arr_size \in Nat \ {0}
    BY <2>5
  <2> QED
    BY <2>1, <2>4, <2>5, <2>6, <2>7, <2>8
<1> QED
  BY <1>3, <1>4

\* What is compared, if both are directories or none is
DirKey(e) ==
  CASE query[1] = "n" -> e.name
    [] query[1] = "s" -> e.size
    [] query[1] = "d" -> e.mtime
    [] OTHER -> 0

\* Two directories, or two files, compare as their keys do.
LEMMA CompareOf ==
  ASSUME NEW a \in DirEntries, NEW b \in DirEntries, query \in {"n", "s", "d", "?"} \X {"a", "d"}
  PROVE  /\ DirKey(a) \in Nat
         /\ Directory!CompareDirEntries(a, b) =
              IF a.is_directory # b.is_directory THEN (IF a.is_directory THEN -1 ELSE 1)
              ELSE IF query[2] = "d" THEN - Directory!Order(DirKey(a), DirKey(b))
              ELSE Directory!Order(DirKey(a), DirKey(b))
<1>1. DirKey(a) \in Nat
  BY DEF DirEntries, DirKey
<1>2. Directory!Order(0, 0) = 0
  BY DEF Directory!Order
<1>3. query[1] \in {"n", "s", "d", "?"}
  OBVIOUS
<1> QED
  BY <1>1, <1>2, <1>3 DEF DirKey, Directory!CompareDirEntries

\* A directory is before any file, whatever the order.
LEMMA DirectoriesFirst ==
  ASSUME DirTypes, NEW a \in DirEntries, NEW b \in DirEntries,
         Directory!CompareDirEntries(a, b) <= 0, b.is_directory
  PROVE  a.is_directory
<1> SUFFICES ASSUME ~ a.is_directory PROVE FALSE
  OBVIOUS
<1>1. a.is_directory # b.is_directory
  OBVIOUS
<1>2. Directory!CompareDirEntries(a, b) = 1
  BY <1>1, CompareOf DEF DirTypes
<1> QED
  BY <1>2

\* What is printed is what was read, each once.
LEMMA DirSortKeeps ==
  ASSUME Directory!MgDirectoryAssumption, DirInv, Directory!SortAndPrint PROVE DirInv'
<1> DEFINE N == Len(entries)
<1>0. /\ DirTypes /\ DirRoom /\ DirStrings /\ DirNames /\ read = Names /\ pc = "scan"
      /\ pc' = "done" /\ strings' = strings - Len(entries)
      /\ UNCHANGED <<stat, query, read, entries, arr_size, allocated, failed>>
  BY DEF DirInv, Directory!SortAndPrint
<1>1. /\ DirTypes' /\ DirRoom' /\ DirStrings' /\ DirNames'
  <2>1. Len(entries) \in Nat
    BY <1>0 DEF DirTypes
  <2>2. DirStrings'
    BY <1>0, <2>1 DEF DirStrings
  <2> QED
    BY <1>0, <2>2 DEF DirTypes, DirRoom, DirNames
<1>2. N \in Nat /\ DOMAIN entries = 1 .. N /\ \A i \in 1 .. N : entries[i] \in DirEntries
  BY <1>0 DEF DirTypes
<1>3. PICK order \in Directory!Orders(N) :
        /\ \A i, j \in 1 .. N :
             i < j => Directory!CompareDirEntries(entries[order[i]], entries[order[j]]) <= 0
        /\ printed' = [i \in 1 .. N |-> entries[order[i]]]
  BY <1>2 DEF Directory!SortAndPrint
<1>4. /\ order \in [1 .. N -> 1 .. N]
      /\ \A i, j \in 1 .. N : order[i] = order[j] => i = j
  BY DEF Directory!Orders
<1> HIDE DEF N
<1>5. \A k \in 1 .. N : \E i \in 1 .. N : order[i] = k
  <2>1. IsFiniteSet(1 .. N)
    BY <1>2, FS_Interval
  <2>2. order \in Injection(1 .. N, 1 .. N)
    BY <1>4 DEF Injection, IsInjective
  <2>3. order \in Surjection(1 .. N, 1 .. N)
    BY <2>1, <2>2, FS_Injection
  <2> QED
    BY <2>3 DEF Surjection
<1>6. /\ DOMAIN printed' = 1 .. N /\ \A i \in 1 .. N : printed'[i] = entries[order[i]]
      /\ Len(printed') = N
  <2>1. printed' \in [1 .. N -> DirEntries]
    BY <1>2, <1>3, <1>4
  <2> QED
    BY <1>2, <1>3, <2>1, FunctionIsSequence
<1> DEFINE names == {printed'[i].name : i \in 1 .. N}
<1>7. names \subseteq Directory!Shown
  BY <1>0, <1>4, <1>6 DEF DirNames, Directory!Shown, N
<1>8. ~ failed => names = Directory!Shown
  <2> SUFFICES ASSUME ~ failed, NEW n \in Directory!Shown PROVE n \in names
    BY <1>7
  <2>1. PICK k \in 1 .. N : entries[k].name = n
    BY <1>0 DEF DirNames, Directory!Shown, N
  <2>2. PICK i \in 1 .. N : order[i] = k
    BY <1>5
  <2> QED
    BY <1>6, <2>1, <2>2
<1>9. Cardinality(names) = N
  <2> DEFINE f == [i \in 1 .. N |-> printed'[i].name]
  <2>1. f \in [1 .. N -> names] /\ \A n \in names : \E i \in 1 .. N : f[i] = n
    OBVIOUS
  <2>2. \A i, j \in 1 .. N : f[i] = f[j] => i = j
    <3>1. \A i, j \in 1 .. N : entries[i].name = entries[j].name => i = j
      BY <1>0 DEF DirNames, N
    <3> QED
      BY <1>4, <1>6, <3>1
  <2> HIDE DEF names, f
  <2>3. f \in Bijection(1 .. N, names)
    BY <2>1, <2>2 DEF Bijection, Injection, IsInjective, Surjection
  <2>4. ExistsBijection(1 .. N, names)
    BY <2>3 DEF ExistsBijection
  <2> QED
    BY <1>2, <2>4, FS_CountingElements
<1>10. ASSUME NEW i \in 1 .. N, NEW j \in 1 .. N, i < j,
              printed'[j].is_directory, ~ printed'[i].is_directory
       PROVE  FALSE
  <2>1. entries[order[i]] \in DirEntries /\ entries[order[j]] \in DirEntries
    BY <1>2, <1>4
  <2>2. Directory!CompareDirEntries(entries[order[i]], entries[order[j]]) <= 0
    BY <1>3, <1>10
  <2> QED
    BY <1>0, <1>6, <1>10, <2>1, <2>2, DirectoriesFirst
<1>11. Directory!ListIsDirectory'
  <2>1. \A i, j \in 1 .. N : i < j => ~ (printed'[j].is_directory /\ ~ printed'[i].is_directory)
    BY <1>10
  <2>2. names = {printed'[i].name : i \in DOMAIN printed'}
    BY <1>6
  <2>3. Directory!Cardinality(names) = Len(printed')
    BY <1>6, <1>9, DirCounts
  <2>4. Directory!Shown' = Directory!Shown
    BY DEF Directory!Shown
  <2> HIDE DEF names
  <2> QED
    BY <1>0, <1>6, <1>7, <1>8, <2>1, <2>2, <2>3, <2>4 DEF Directory!ListIsDirectory
<1> QED
  BY <1>1, <1>11 DEF DirInv

\* Both steps keep the invariant.
LEMMA DirNextKeeps ==
  ASSUME Directory!MgDirectoryAssumption, DirInv, Directory!Next PROVE DirInv'
BY DirScanKeeps, DirSortKeeps DEF Directory!Next

LEMMA DirStutterKeeps ==
  ASSUME DirInv, UNCHANGED <<stat, query, pc, read, entries, strings, arr_size, allocated, failed,
                             printed>>
  PROVE  DirInv'
BY DEF DirInv, DirTypes, DirRoom, DirStrings, DirNames, Directory!ListIsDirectory

\* What qsort needs of a comparison, for any query.
LEMMA OrderIsOrder ==
  ASSUME NEW x \in Nat, NEW y \in Nat, NEW z \in Nat
  PROVE  /\ Directory!Order(x, y) \in {-1, 0, 1} /\ Directory!Order(y, x) = - Directory!Order(x, y)
         /\ Directory!Order(x, y) <= 0 <=> x <= y
         /\ Directory!Order(x, y) >= 0 <=> x >= y
BY DEF Directory!Order

\* The array holds its entries, and the comparison orders them.
LEMMA DirIsRight ==
  ASSUME DirInv
  PROVE  Directory!EntriesFit /\ Directory!NamesAreFreed /\ Directory!CompareIsOrder
<1>1. Directory!EntriesFit
  BY DEF DirInv, DirRoom, Directory!EntriesFit
<1>2. ASSUME NEW a \in DirEntries, NEW b \in DirEntries, NEW d \in DirEntries
      PROVE  LET c(x, y) == Directory!CompareDirEntries(x, y) IN
             /\ c(a, b) <= 0 \/ c(b, a) <= 0
             /\ c(a, b) < 0 => c(b, a) > 0
             /\ (c(a, b) <= 0 /\ c(b, d) <= 0) => c(a, d) <= 0
  <2> DEFINE down == query[2] = "d"
             o(x, y) == Directory!Order(DirKey(x), DirKey(y))
             c(x, y) == Directory!CompareDirEntries(x, y)
  <2>1. /\ DirKey(a) \in Nat /\ DirKey(b) \in Nat /\ DirKey(d) \in Nat
        /\ \A x, y \in {a, b, d} :
             c(x, y) = IF x.is_directory # y.is_directory
                         THEN (IF x.is_directory THEN -1 ELSE 1)
                       ELSE IF down THEN - o(x, y) ELSE o(x, y)
    BY CompareOf DEF DirInv, DirTypes
  <2>2. \A x, y \in {a, b, d} :
          /\ o(x, y) \in {-1, 0, 1} /\ o(y, x) = - o(x, y)
          /\ o(x, y) <= 0 <=> DirKey(x) <= DirKey(y)
          /\ o(x, y) >= 0 <=> DirKey(x) >= DirKey(y)
    BY <2>1, OrderIsOrder
  <2>3. \A x \in {a, b, d} : x.is_directory \in BOOLEAN
    BY DEF DirEntries
  <2> HIDE DEF down, o, c
  <2>4. c(a, b) <= 0 \/ c(b, a) <= 0
    BY <2>1, <2>2, <2>3
  <2>5. c(a, b) < 0 => c(b, a) > 0
    BY <2>1, <2>2, <2>3
  <2>6. (c(a, b) <= 0 /\ c(b, d) <= 0) => c(a, d) <= 0
    BY <2>1, <2>2, <2>3
  <2> QED
    BY <2>4, <2>5, <2>6 DEF c
<1>3. \A i \in DOMAIN entries : entries[i] \in DirEntries
  BY DEF DirInv, DirTypes
<1>4. Directory!CompareIsOrder
  BY <1>2, <1>3 DEF Directory!CompareIsOrder
<1>5. Directory!NamesAreFreed
  BY DEF DirInv, DirTypes, DirStrings, Directory!NamesAreFreed
<1> QED
  BY <1>1, <1>4, <1>5

-----------------------------------------------------------------------------
(* Start, stop and the list of addresses.                                  *)

\* The steps up to the sockets, those from them on, and those between the defaults and
\* the end of mg_start
Early == {"calloc", "options", "set_gpass_option", "set_ssl_option"}
Late == {"set_ports_option", "set_uid_option", "set_acl_option", "running"}
Chosen == {"set_gpass_option", "set_ssl_option"} \union Late

Listened == [sock : Nat, is_ssl : BOOLEAN, port : Int]

StartTypes ==
  /\ pc \in Early \union Late \union {"free", "null", "stopped"}
  /\ DOMAIN config = Start!Options
  /\ config["listening_ports"] \in Seq(Start!Specs)
  /\ config["access_control_list"] \in Seq(Start!Entries)
  /\ list \in Seq(Start!Specs) /\ listening \in Seq(Listened)

\* The open sockets are those of the list of them.
SocketsAreListed ==
  /\ fds = 1 .. Len(listening)
  /\ \A i \in 1 .. Len(listening) : listening[i].sock = i

\* Before the sockets there are only the strings and the context.
StartEarly ==
  pc \in Early =>
    /\ listening = <<>> /\ fds = {}
    /\ heap \subseteq Start!Options \union {"ctx"} /\ (pc = "calloc" => heap = {})

StartChosen == pc \in Chosen => config["listening_ports"] # <<>>

\* What is listened on are the first specifications; the others are yet to be read.
StartLate ==
  pc \in Late =>
    /\ SocketsAreListed
    /\ heap \subseteq Start!Freed \union {"listening_sockets"}
    /\ listening # <<>> => "listening_sockets" \in heap
    /\ listening = <<>> => "listening_sockets" \notin heap
    /\ "ssl_ctx" \in heap => callbacks
    /\ pc # "set_ports_option" => list = <<>>
    /\ Len(listening) + Len(list) = Len(config["listening_ports"])
    /\ \A k \in 1 .. Len(list) : list[k] = config["listening_ports"][Len(listening) + k]

StartListens ==
  pc \in Late => \A i \in 1 .. Len(listening) :
    /\ config["listening_ports"][i].ip
       \/ listening[i].port = config["listening_ports"][i].port
    /\ listening[i].is_ssl =>
         config["listening_ports"][i].tail = "s" /\ "ssl_ctx" \in heap /\ callbacks

\* What is left to free_context, by what failed
StartFailed ==
  pc = "free" =>
    IF failed \in {"set_uid_option", "set_acl_option"}
      THEN /\ SocketsAreListed
           /\ heap \subseteq Start!Freed \union {"listening_sockets"}
           /\ "listening_sockets" \in heap
      ELSE heap \subseteq Start!Freed /\ fds = {}

AclReads == pc = "running" => \A i \in DOMAIN config["access_control_list"] :
                                config["access_control_list"][i].flag # "x"

StartInv == /\ StartTypes /\ StartEarly /\ StartChosen /\ StartLate /\ StartListens
            /\ StartFailed /\ AclReads /\ Start!FailureUndoes /\ Start!StopUndoes

\* For any set, the empty sequence is one of its elements.
LEMMA EmptySequence == \A S : <<>> \in Seq(S)
OBVIOUS

\* Nothing is taken.
LEMMA StartInitHolds == ASSUME Start!Init PROVE StartInv
<1>1. pc = "calloc" /\ config = [o \in Start!Options |-> <<>>] /\ list = <<>>
      /\ listening = <<>> /\ fds = {} /\ heap = {}
  BY DEF Start!Init
<1>2. "listening_ports" \in Start!Options /\ "access_control_list" \in Start!Options
  BY DEF Start!Options
<1>3. DOMAIN config = Start!Options /\ config["listening_ports"] = <<>>
      /\ config["access_control_list"] = <<>>
  BY <1>1, <1>2
<1>4. StartTypes
  BY <1>1, <1>3, EmptySequence DEF StartTypes, Early
<1> QED
  BY <1>1, <1>4 DEF StartInv, StartEarly, StartChosen, StartLate, StartListens,
     StartFailed, AclReads, Start!FailureUndoes, Start!StopUndoes, Early, Late, Chosen

LEMMA StartStutterKeeps ==
  ASSUME StartInv, UNCHANGED <<pc, config, list, listening, fds, heap, callbacks, failed>>
  PROVE  StartInv'
BY DEF StartInv, StartTypes, StartEarly, StartChosen, StartLate, StartListens, StartFailed,
       AclReads, SocketsAreListed, Start!FailureUndoes, Start!StopUndoes

\* The steps before the sockets
LEMMA StartEarlyKeeps ==
  ASSUME Start!MgStartAssumption, StartInv, pc \in Early, pc' \in Early,
         UNCHANGED <<list, listening, fds>>,
         DOMAIN config' = Start!Options,
         config'["listening_ports"] \in Seq(Start!Specs),
         config'["access_control_list"] \in Seq(Start!Entries),
         heap' \subseteq Start!Options \union {"ctx"}, pc' # "calloc",
         pc' \in Chosen => config'["listening_ports"] # <<>>
  PROVE  StartInv'
<1>1. StartTypes' /\ StartChosen'
  BY DEF StartInv, StartTypes, StartChosen
<1>2. pc' \notin Late /\ pc' # "free" /\ pc' # "running" /\ pc' # "null" /\ pc' # "stopped"
  BY DEF Early, Late
<1>3. StartEarly'
  BY DEF StartInv, StartEarly
<1>4. StartLate' /\ StartListens' /\ StartFailed' /\ AclReads' /\ Start!FailureUndoes'
      /\ Start!StopUndoes'
  BY <1>2 DEF StartLate, StartListens, StartFailed, AclReads, Start!FailureUndoes,
     Start!StopUndoes
<1> QED
  BY <1>1, <1>3, <1>4 DEF StartInv

\* A step that fails
LEMMA StartFailKeeps ==
  ASSUME StartInv, Start!Fail, UNCHANGED <<config, list, listening>>,
         IF pc \in {"set_uid_option", "set_acl_option"} THEN UNCHANGED <<heap, fds>>
         ELSE heap' \subseteq Start!Freed /\ fds' = {}
  PROVE  StartInv'
<1>1. pc' = "free" /\ failed' = pc
  BY DEF Start!Fail
<1>2. StartTypes'
  BY <1>1 DEF StartInv, StartTypes
<1>3. pc' \notin Early /\ pc' \notin Late /\ pc' \notin Chosen
  BY <1>1 DEF Early, Late, Chosen
<1>4. StartFailed'
  <2>1. CASE pc \in {"set_uid_option", "set_acl_option"}
    <3>1. pc \in Late /\ pc \in Chosen /\ pc # "set_ports_option"
      BY <2>1 DEF Late, Chosen
    <3>2. SocketsAreListed /\ heap \subseteq Start!Freed \union {"listening_sockets"}
      BY <3>1 DEF StartInv, StartLate
    <3>3. listening # <<>>
      <4>1. list = <<>> /\ Len(listening) + Len(list) = Len(config["listening_ports"])
            /\ config["listening_ports"] # <<>>
        BY <3>1 DEF StartInv, StartLate, StartChosen
      <4> QED
        BY <4>1 DEF StartInv, StartTypes
    <3>4. "listening_sockets" \in heap
      BY <3>1, <3>3 DEF StartInv, StartLate
    <3> QED
      BY <1>1, <2>1, <3>2, <3>4 DEF StartFailed, SocketsAreListed
  <2>2. CASE pc \notin {"set_uid_option", "set_acl_option"}
    BY <1>1, <2>2 DEF StartFailed
  <2> QED
    BY <2>1, <2>2
<1>5. StartEarly' /\ StartChosen' /\ StartLate' /\ StartListens' /\ AclReads'
      /\ Start!FailureUndoes' /\ Start!StopUndoes'
  BY <1>1, <1>3 DEF StartEarly, StartChosen, StartLate, StartListens, AclReads,
     Start!FailureUndoes, Start!StopUndoes
<1> QED
  BY <1>2, <1>4, <1>5 DEF StartInv

\* A step behind the sockets
LEMMA StartLateKeeps ==
  ASSUME StartInv, pc \in Late, pc' \in Late, pc' # "set_ports_option", list = <<>>,
         UNCHANGED <<config, list, listening, fds, heap, callbacks>>,
         AclReads'
  PROVE  StartInv'
<1>1. pc' \notin Early /\ pc' # "free" /\ pc' # "null" /\ pc' # "stopped"
  BY DEF Early, Late
<1>2. StartTypes'
  BY DEF StartInv, StartTypes
<1>3. StartChosen'
  BY DEF StartInv, StartChosen, Chosen
<1>4. StartLate'
  BY DEF StartInv, StartLate, SocketsAreListed
<1>5. StartListens'
  BY DEF StartInv, StartListens
<1>6. StartEarly' /\ StartFailed' /\ Start!FailureUndoes' /\ Start!StopUndoes'
  BY <1>1 DEF StartEarly, StartFailed, Start!FailureUndoes, Start!StopUndoes
<1> QED
  BY <1>2, <1>3, <1>4, <1>5, <1>6 DEF StartInv

\* An option is copied, for the first time or over an earlier one.
LEMMA StartTakeOptionKeeps ==
  ASSUME Start!MgStartAssumption, StartInv, Start!TakeOption PROVE StartInv'
<1>1. pc = "options" /\ pc' = "options" /\ UNCHANGED <<list, listening, fds>>
  BY DEF Start!TakeOption
<1>2. PICK o \in Start!Options : \E v \in Start!Values(o) :
        config' = [config EXCEPT ![o] = v] /\ heap' = heap \union {o}
  BY DEF Start!TakeOption
<1> PICK v \in Start!Values(o) : config' = [config EXCEPT ![o] = v] /\ heap' = heap \union {o}
  BY <1>2
<1>3. DOMAIN config = Start!Options /\ config["listening_ports"] \in Seq(Start!Specs)
      /\ config["access_control_list"] \in Seq(Start!Entries)
      /\ "listening_ports" \in Start!Options /\ "access_control_list" \in Start!Options
  BY DEF StartInv, StartTypes, Start!Options
<1>4. o = "listening_ports" => v \in Seq(Start!Specs)
  <2>1. o = "listening_ports" => v \in PortLists
    BY DEF Start!Values
  <2> QED
    BY <2>1 DEF Start!MgStartAssumption
<1>5. o = "access_control_list" => v \in Seq(Start!Entries)
  <2>1. o = "access_control_list" => v \in AclLists
    BY DEF Start!Values
  <2> QED
    BY <2>1 DEF Start!MgStartAssumption
<1>6. /\ DOMAIN config' = Start!Options
      /\ \A p \in Start!Options : config'[p] = IF p = o THEN v ELSE config[p]
  BY <1>2, <1>3
<1>7. config'["listening_ports"] \in Seq(Start!Specs)
  BY <1>3, <1>4, <1>6
<1>8. config'["access_control_list"] \in Seq(Start!Entries)
  BY <1>3, <1>5, <1>6
<1>9. pc \in Early /\ pc' \in Early /\ pc' # "calloc" /\ pc' \notin Chosen
  BY <1>1 DEF Early, Chosen, Late
<1>10. heap' \subseteq Start!Options \union {"ctx"}
  BY <1>2, <1>9 DEF StartInv, StartEarly
<1> QED
  BY <1>1, <1>6, <1>7, <1>8, <1>9, <1>10, StartEarlyKeeps

\* The options that were not given
LEMMA StartSetDefaultsKeeps ==
  ASSUME Start!MgStartAssumption, StartInv, Start!SetDefaults PROVE StartInv'
<1>1. pc = "options" /\ pc' = "set_gpass_option" /\ UNCHANGED <<list, listening, fds>>
      /\ heap' = heap \union {"listening_ports"}
  BY DEF Start!SetDefaults, Start!Goto
<1>2. DOMAIN config = Start!Options /\ config["listening_ports"] \in Seq(Start!Specs)
      /\ config["access_control_list"] \in Seq(Start!Entries)
      /\ "listening_ports" \in Start!Options /\ "access_control_list" \in Start!Options
  BY DEF StartInv, StartTypes, Start!Options
<1>3. Start!Default \in Seq(Start!Specs) /\ Start!Default # <<>>
  <2>1. [ip |-> FALSE, port |-> 1, tail |-> "none"] \in Start!Specs
    BY DEF Start!Specs
  <2> QED
    BY <2>1 DEF Start!Default
<1>4. /\ DOMAIN config' = Start!Options
      /\ config'["listening_ports"] =
           IF config["listening_ports"] # <<>> THEN config["listening_ports"] ELSE Start!Default
      /\ config'["access_control_list"] = config["access_control_list"]
  BY <1>2 DEF Start!SetDefaults
<1>5. pc \in Early /\ pc' \in Early /\ pc' # "calloc"
  BY <1>1 DEF Early
<1>6. heap' \subseteq Start!Options \union {"ctx"}
  BY <1>1, <1>2, <1>5 DEF StartInv, StartEarly
<1> QED
  BY <1>1, <1>2, <1>3, <1>4, <1>5, <1>6, StartEarlyKeeps

\* To the sockets, with the whole list to read
LEMMA StartEnterPortsKeeps ==
  ASSUME StartInv, pc = "set_ssl_option", Start!EnterPorts,
         UNCHANGED <<config, listening, fds>>,
         \/ UNCHANGED <<heap, callbacks>>
         \/ callbacks' = TRUE /\ heap' = heap \union {"ssl_ctx", "ssl_mutexes"}
  PROVE  StartInv'
<1>1. pc' = "set_ports_option" /\ list' = config["listening_ports"]
  BY DEF Start!EnterPorts, Start!Goto
<1>2. /\ listening = <<>> /\ fds = {} /\ heap \subseteq Start!Options \union {"ctx"}
      /\ config["listening_ports"] # <<>> /\ config["listening_ports"] \in Seq(Start!Specs)
  BY DEF StartInv, StartEarly, StartTypes, StartChosen, Early, Chosen
<1>3. pc' \notin Early /\ pc' # "free" /\ pc' # "null" /\ pc' # "stopped" /\ pc' # "running"
      /\ pc' \in Late
  BY <1>1 DEF Early, Late
<1>4. StartTypes'
  BY <1>1, <1>2, <1>3 DEF StartInv, StartTypes
<1>5. Len(listening) = 0 /\ \A k \in 1 .. Len(config["listening_ports"]) : 0 + k = k
  BY <1>2
<1>6. SocketsAreListed'
  BY <1>2, <1>5 DEF SocketsAreListed
<1>7. heap' \subseteq Start!Freed /\ "listening_sockets" \notin heap'
      /\ ("ssl_ctx" \in heap' => callbacks')
  BY <1>2 DEF Start!Freed, Start!Options, Start!Flags
<1>8. Len(listening') + Len(list') = Len(config'["listening_ports"])
  BY <1>1, <1>2, <1>5
<1>9. \A k \in 1 .. Len(list') : list'[k] = config'["listening_ports"][Len(listening') + k]
  BY <1>1, <1>2, <1>5
<1>10. StartLate'
  BY <1>1, <1>2, <1>6, <1>7, <1>8, <1>9 DEF StartLate
<1>11. StartListens'
  BY <1>2, <1>5 DEF StartListens
<1>12. StartChosen' /\ StartEarly' /\ StartFailed' /\ AclReads' /\ Start!FailureUndoes'
       /\ Start!StopUndoes'
  BY <1>2, <1>3 DEF StartChosen, StartEarly, StartFailed, AclReads, Start!FailureUndoes,
     Start!StopUndoes
<1> QED
  BY <1>4, <1>10, <1>11, <1>12 DEF StartInv

\* Without a certificate no port may be a secure one.
LEMMA StartSslKeeps ==
  ASSUME Start!MgStartAssumption, StartInv, Start!SetSslOption PROVE StartInv'
<1>1. pc = "set_ssl_option" /\ UNCHANGED <<config, listening, fds>>
  BY DEF Start!SetSslOption
<1>2. CASE Start!EnterPorts
  <2>1. \/ UNCHANGED <<heap, callbacks>>
        \/ callbacks' = TRUE /\ heap' = heap \union {"ssl_ctx", "ssl_mutexes"}
    BY <1>1, <1>2 DEF Start!SetSslOption, Start!EnterPorts, Start!Goto, Start!Fail
  <2> QED
    BY <1>1, <1>2, <2>1, StartEnterPortsKeeps
<1>3. CASE Start!Fail /\ heap' \in {heap, heap \union {"ssl_ctx"}} /\ UNCHANGED list
  <2>1. heap \subseteq Start!Options \union {"ctx"} /\ fds = {}
    BY <1>1 DEF StartInv, StartEarly, Early
  <2>2. heap' \subseteq Start!Freed
    BY <1>3, <2>1 DEF Start!Freed
  <2> QED
    BY <1>1, <1>3, <2>1, <2>2, StartFailKeeps
<1> QED
  BY <1>2, <1>3 DEF Start!SetSslOption

\* How many the numbers up to another are
LEMMA CountUpTo == ASSUME NEW n \in Nat PROVE Cardinality(1 .. n) = n
<1>1. n \in Int /\ 1 \in Int /\ (IF 1 > n THEN 0 ELSE n - 1 + 1) = n
  OBVIOUS
<1> QED
  BY <1>1, FS_Interval

\* A port that is taken fits 16 bits.
LEMMA PortFits ==
  ASSUME NEW p \in Int, NEW n \in Nat, p \in 1 .. n - 1 PROVE p % n = p
OBVIOUS

\* A socket more
LEMMA StartSetPortKeeps ==
  ASSUME Start!MgStartAssumption, StartInv, Start!SetPort PROVE StartInv'
<1> DEFINE specs == config["listening_ports"]
           N == Len(listening)
           s == Head(list)
<1>1. /\ pc = "set_ports_option" /\ pc' = pc /\ list # <<>> /\ list' = Tail(list)
      /\ UNCHANGED <<config, callbacks, failed>> /\ Start!ValidSpec(s)
      /\ s.tail = "s" => "ssl_ctx" \in heap
      /\ heap' = heap \union {"listening_sockets"}
  BY DEF Start!SetPort, Start!ParsePortString
<1>2. pc \in Late /\ pc' \in Late /\ pc' \notin Early /\ pc' # "free" /\ pc' # "null"
      /\ pc' # "stopped" /\ pc' # "running"
  BY <1>1 DEF Early, Late
<1>3. /\ listening \in Seq(Listened) /\ list \in Seq(Start!Specs)
      /\ specs \in Seq(Start!Specs) /\ N \in Nat /\ Len(list) \in Nat \ {0} /\ Len(specs) \in Nat
      /\ s \in Start!Specs /\ s = list[1]
  BY <1>1 DEF StartInv, StartTypes
<1>4. /\ Tail(list) \in Seq(Start!Specs) /\ Len(Tail(list)) = Len(list) - 1
      /\ \A k \in 1 .. Len(list) - 1 : Tail(list)[k] = list[k + 1]
  BY <1>1, <1>3
<1>5. /\ fds = 1 .. N /\ \A i \in 1 .. N : listening[i].sock = i
      /\ N + Len(list) = Len(specs)
      /\ \A k \in 1 .. Len(list) : list[k] = specs[N + k]
      /\ heap \subseteq Start!Freed \union {"listening_sockets"}
      /\ "ssl_ctx" \in heap => callbacks
  BY <1>2 DEF StartInv, StartLate, SocketsAreListed
<1>6. Start!Cardinality(fds) = N
  <2>1. Cardinality(1 .. N) = N
    BY <1>3, CountUpTo
  <2>2. \A S : Start!Cardinality(S) = Cardinality(S)
    BY DEF Start!Cardinality, Cardinality
  <2> QED
    BY <1>5, <2>1, <2>2
<1>7. PICK x \in Listened : x = [sock |-> N + 1, is_ssl |-> s.tail = "s", port |-> s.port % Ports]
  <2>1. s.port \in Int /\ Ports \in Nat \ {0}
    BY <1>3 DEF Start!Specs, Start!MgStartAssumption
  <2>2. s.port % Ports \in Int
    BY <2>1
  <2>3. (s.tail = "s") \in BOOLEAN
    OBVIOUS
  <2>4. N + 1 \in Nat
    BY <1>3
  <2> HIDE DEF s, N
  <2>5. [sock |-> N + 1, is_ssl |-> s.tail = "s", port |-> s.port % Ports] \in Listened
    BY <2>2, <2>3, <2>4 DEF Listened
  <2> QED
    BY <2>5
<1>8. fds' = fds \union {N + 1} /\ listening' = Append(listening, x)
  BY <1>6, <1>7 DEF Start!SetPort, Start!ParsePortString
<1>9. /\ listening' \in Seq(Listened) /\ Len(listening') = N + 1
      /\ \A i \in 1 .. N : listening'[i] = listening[i]
      /\ listening'[N + 1] = x
      /\ \A i \in 1 .. N + 1 : i \in 1 .. N \/ i = N + 1
  BY <1>3, <1>8
<1>10. x.sock = N + 1 /\ (x.is_ssl => s.tail = "s") /\ x.port = s.port % Ports
  BY <1>7
<1>11. s = specs[N + 1]
  BY <1>3, <1>5
<1>12. s.ip \/ x.port = s.port
  <2>1. s.ip \/ s.port \in 1 .. Ports - 1
    BY <1>1 DEF Start!ValidSpec
  <2>2. s.port \in Int /\ Ports \in Nat
    BY <1>3 DEF Start!Specs, Start!MgStartAssumption
  <2> QED
    BY <1>10, <2>1, <2>2, PortFits
<1>13. StartTypes'
  BY <1>1, <1>4, <1>9 DEF StartInv, StartTypes
<1> HIDE DEF N, s, specs
<1>14. SocketsAreListed'
  <2>1. fds' = 1 .. N + 1
    <3>1. (1 .. N) \union {N + 1} = 1 .. N + 1
      BY <1>3
    <3> QED
      BY <1>5, <1>8, <3>1
  <2>2. \A i \in 1 .. N + 1 : listening'[i].sock = i
    BY <1>5, <1>9, <1>10
  <2> QED
    BY <1>9, <2>1, <2>2 DEF SocketsAreListed
<1>15. Len(listening') + Len(list') = Len(specs)
  BY <1>1, <1>3, <1>4, <1>5, <1>9
<1>16. \A k \in 1 .. Len(list') : list'[k] = specs[Len(listening') + k]
  <2>1. ASSUME NEW k \in 1 .. Len(list) - 1 PROVE Tail(list)[k] = specs[(N + 1) + k]
    <3>1. k + 1 \in 1 .. Len(list) /\ N + (k + 1) = (N + 1) + k
      BY <1>3
    <3> QED
      BY <1>4, <1>5, <3>1
  <2> QED
    BY <1>1, <1>4, <1>9, <2>1
<1>17. specs' = specs
  BY <1>1 DEF specs
<1>18. listening' # <<>>
  BY <1>3, <1>9
<1>19. StartLate'
  BY <1>1, <1>2, <1>5, <1>14, <1>15, <1>16, <1>17, <1>18 DEF StartLate, specs
<1>20. StartListens'
  <2>1. \A i \in 1 .. N : /\ specs[i].ip \/ listening[i].port = specs[i].port
                          /\ listening[i].is_ssl =>
                               specs[i].tail = "s" /\ "ssl_ctx" \in heap /\ callbacks
    BY <1>2 DEF StartInv, StartListens, N, specs
  <2>2. \A i \in 1 .. N + 1 : /\ specs[i].ip \/ listening'[i].port = specs[i].port
                              /\ listening'[i].is_ssl =>
                                   specs[i].tail = "s" /\ "ssl_ctx" \in heap' /\ callbacks'
    BY <1>1, <1>5, <1>9, <1>10, <1>11, <1>12, <2>1
  <2> QED
    BY <1>9, <1>17, <2>2 DEF StartListens, specs
<1>21. StartChosen' /\ StartEarly' /\ StartFailed' /\ AclReads' /\ Start!FailureUndoes'
       /\ Start!StopUndoes'
  BY <1>1, <1>2 DEF StartInv, StartChosen, StartEarly, StartFailed, AclReads,
     Start!FailureUndoes, Start!StopUndoes, Chosen
<1> QED
  BY <1>13, <1>19, <1>20, <1>21 DEF StartInv

\* The sockets of the list
LEMMA ListedSockets ==
  ASSUME StartTypes, SocketsAreListed
  PROVE  fds = {listening[i].sock : i \in DOMAIN listening}
<1>1. DOMAIN listening = 1 .. Len(listening)
  BY DEF StartTypes
<1> QED
  BY <1>1 DEF SocketsAreListed

\* A specification that is wrong, or a socket that cannot be had
LEMMA StartSetPortFailsKeeps ==
  ASSUME StartInv, Start!SetPortFails PROVE StartInv'
<1>1. /\ pc = "set_ports_option" /\ Start!Fail /\ UNCHANGED <<config, list, listening>>
      /\ heap' = heap \ {"listening_sockets"}
      /\ fds' = fds \ {listening[i].sock : i \in DOMAIN listening}
  BY DEF Start!SetPortFails
<1>2. StartTypes /\ SocketsAreListed /\ heap \subseteq Start!Freed \union {"listening_sockets"}
  BY <1>1 DEF StartInv, StartLate, Late
<1>3. heap' \subseteq Start!Freed /\ fds' = {}
  BY <1>1, <1>2, ListedSockets
<1> QED
  BY <1>1, <1>3, StartFailKeeps

\* free_context closes what is listed and frees what is held.
LEMMA StartFreeKeeps ==
  ASSUME StartInv, Start!FreeContext PROVE StartInv'
<1>1. /\ pc = "free" /\ pc' = "null" /\ config' = [o \in Start!Options |-> <<>>]
      /\ heap' = heap \ Start!Freed /\ UNCHANGED <<list, listening, fds, failed>>
  BY DEF Start!FreeContext
<1>2. DOMAIN config' = Start!Options /\ config'["listening_ports"] = <<>>
      /\ config'["access_control_list"] = <<>>
  BY <1>1 DEF Start!Options
<1>3. StartTypes'
  BY <1>1, <1>2, EmptySequence DEF StartInv, StartTypes
<1>4. "listening_sockets" \notin Start!Freed
  BY DEF Start!Freed, Start!Options, Start!Flags
<1>5. Start!FailureUndoes'
  <2>1. CASE failed \in {"set_uid_option", "set_acl_option"}
    <3>1. /\ SocketsAreListed /\ heap \subseteq Start!Freed \union {"listening_sockets"}
          /\ "listening_sockets" \in heap /\ StartTypes
      BY <1>1, <2>1 DEF StartInv, StartFailed
    <3>2. heap' = {"listening_sockets"}
      BY <1>1, <1>4, <3>1
    <3>3. fds' = {listening'[i].sock : i \in DOMAIN listening'}
      BY <1>1, <3>1, ListedSockets
    <3> QED
      BY <1>1, <2>1, <3>2, <3>3 DEF Start!FailureUndoes
  <2>2. CASE failed \notin {"set_uid_option", "set_acl_option"}
    BY <1>1, <2>2 DEF StartInv, StartFailed, Start!FailureUndoes
  <2> QED
    BY <2>1, <2>2
<1>6. StartEarly' /\ StartChosen' /\ StartLate' /\ StartListens' /\ StartFailed' /\ AclReads'
      /\ Start!StopUndoes'
  BY <1>1 DEF StartEarly, StartChosen, StartLate, StartListens, StartFailed, AclReads,
     Start!StopUndoes, Early, Chosen, Late
<1> QED
  BY <1>3, <1>5, <1>6 DEF StartInv

\* mg_stop, when all threads have ended
LEMMA StartStopKeeps ==
  ASSUME StartInv, Start!MgStop PROVE StartInv'
<1>1. /\ pc = "running" /\ pc' = "stopped" /\ config' = [o \in Start!Options |-> <<>>]
      /\ heap' = heap \ (Start!Freed \union {"listening_sockets"}) /\ callbacks' = FALSE
      /\ fds' = fds \ {listening[i].sock : i \in DOMAIN listening}
      /\ UNCHANGED <<list, listening, failed>>
  BY DEF Start!MgStop
<1>2. DOMAIN config' = Start!Options /\ config'["listening_ports"] = <<>>
      /\ config'["access_control_list"] = <<>>
  BY <1>1 DEF Start!Options
<1>3. StartTypes'
  BY <1>1, <1>2, EmptySequence DEF StartInv, StartTypes
<1>4. StartTypes /\ SocketsAreListed /\ heap \subseteq Start!Freed \union {"listening_sockets"}
  BY <1>1 DEF StartInv, StartLate, Late
<1>5. Start!StopUndoes'
  BY <1>1, <1>4, ListedSockets DEF Start!StopUndoes
<1>6. StartEarly' /\ StartChosen' /\ StartLate' /\ StartListens' /\ StartFailed' /\ AclReads'
      /\ Start!FailureUndoes'
  BY <1>1 DEF StartEarly, StartChosen, StartLate, StartListens, StartFailed, AclReads,
     Start!FailureUndoes, Early, Chosen, Late
<1> QED
  BY <1>3, <1>5, <1>6 DEF StartInv

\* Every step of the start and of the stop keeps the invariant.
LEMMA StartNextKeeps ==
  ASSUME Start!MgStartAssumption, StartInv, Start!Next PROVE StartInv'
<1>1. CASE Start!Calloc
  <2>1. pc = "calloc" /\ UNCHANGED <<config, list, listening, fds>> /\ heap = {} /\ fds = {}
        /\ pc \in Early /\ StartTypes
    BY <1>1 DEF Start!Calloc, StartInv, StartEarly, Early
  <2>2. CASE pc' = "options" /\ heap' = {"ctx"}
    <3>1. pc' \in Early /\ pc' # "calloc" /\ pc' \notin Chosen
      BY <2>2 DEF Early, Chosen, Late
    <3> QED
      BY <2>1, <2>2, <3>1, StartEarlyKeeps DEF StartTypes
  <2>3. CASE pc' = "null" /\ failed' = pc /\ UNCHANGED heap
    <3>1. StartTypes'
      BY <2>1, <2>3 DEF StartTypes
    <3>2. Start!FailureUndoes'
      BY <2>1, <2>3 DEF Start!FailureUndoes
    <3>3. StartEarly' /\ StartChosen' /\ StartLate' /\ StartListens' /\ StartFailed' /\ AclReads'
          /\ Start!StopUndoes'
      BY <2>3 DEF StartEarly, StartChosen, StartLate, StartListens, StartFailed, AclReads,
         Start!StopUndoes, Early, Chosen, Late
    <3> QED
      BY <3>1, <3>2, <3>3 DEF StartInv
  <2> QED
    BY <1>1, <2>2, <2>3 DEF Start!Calloc
<1>2. CASE Start!BadOption
  <2>1. pc = "options" /\ Start!Fail /\ UNCHANGED <<config, list, listening, heap, fds>>
    BY <1>2 DEF Start!BadOption
  <2>2. heap \subseteq Start!Freed /\ fds = {}
    BY <2>1 DEF StartInv, StartEarly, Early, Start!Freed
  <2> QED
    BY <2>1, <2>2, StartFailKeeps
<1>3. CASE Start!SetGpassOption
  <2>1. pc = "set_gpass_option" /\ UNCHANGED <<config, list, listening, fds, heap>>
    BY <1>3 DEF Start!SetGpassOption
  <2>2. heap \subseteq Start!Options \union {"ctx"} /\ fds = {} /\ pc \in Early
        /\ pc \in Chosen
    BY <2>1 DEF StartInv, StartEarly, Early, Chosen
  <2>3. CASE Start!Goto("set_ssl_option")
    <3>1. pc' = "set_ssl_option" /\ pc' \in Early
      BY <2>3 DEF Start!Goto, Early
    <3> QED
      BY <2>1, <2>2, <3>1, StartEarlyKeeps DEF StartInv, StartTypes, StartChosen
  <2>4. CASE Start!Fail
    <3>1. heap' \subseteq Start!Freed /\ fds' = {}
      BY <2>1, <2>2 DEF Start!Freed
    <3> QED
      BY <2>1, <2>4, <3>1, StartFailKeeps
  <2> QED
    BY <1>3, <2>3, <2>4 DEF Start!SetGpassOption
<1>4. CASE Start!PortsSet
  <2>1. pc = "set_ports_option" /\ list = <<>> /\ pc' = "set_uid_option"
        /\ UNCHANGED <<config, list, listening, fds, heap, callbacks>>
    BY <1>4 DEF Start!PortsSet, Start!Goto
  <2>2. pc \in Late /\ pc' \in Late /\ AclReads'
    BY <2>1 DEF Late, AclReads
  <2> QED
    BY <2>1, <2>2, StartLateKeeps
<1>5. CASE Start!SetUidOption
  <2>1. pc = "set_uid_option" /\ UNCHANGED <<config, list, listening, fds, heap, callbacks>>
        /\ pc \in Late /\ list = <<>>
    BY <1>5 DEF Start!SetUidOption, StartInv, StartLate, Late
  <2>2. CASE Start!Goto("set_acl_option")
    <3>1. pc' = "set_acl_option" /\ pc' \in Late /\ AclReads'
      BY <2>2 DEF Start!Goto, Late, AclReads
    <3> QED
      BY <2>1, <3>1, StartLateKeeps
  <2>3. CASE Start!Fail
    BY <2>1, <2>3, StartFailKeeps
  <2> QED
    BY <1>5, <2>2, <2>3 DEF Start!SetUidOption
<1>6. CASE Start!SetAclOption
  <2>1. pc = "set_acl_option" /\ UNCHANGED <<config, list, listening, fds, heap, callbacks>>
        /\ pc \in Late /\ list = <<>>
    BY <1>6 DEF Start!SetAclOption, StartInv, StartLate, Late
  <2>2. CASE Start!CheckAcl(config["access_control_list"], 0) = -1
    <3>1. Start!Fail
      BY <1>6, <2>2 DEF Start!SetAclOption
    <3> QED
      BY <2>1, <3>1, StartFailKeeps
  <2>3. CASE Start!CheckAcl(config["access_control_list"], 0) # -1
    <3>1. pc' = "running" /\ pc' \in Late
      BY <1>6, <2>3 DEF Start!SetAclOption, Start!Goto, Late
    <3>2. \A i \in DOMAIN config["access_control_list"] :
            config["access_control_list"][i].flag # "x"
      BY <2>3 DEF Start!CheckAcl
    <3>3. AclReads'
      BY <2>1, <3>2 DEF AclReads
    <3> QED
      BY <2>1, <3>1, <3>3, StartLateKeeps
  <2> QED
    BY <2>2, <2>3
<1> QED
  BY <1>1, <1>2, <1>3, <1>4, <1>5, <1>6, StartTakeOptionKeeps, StartSetDefaultsKeeps,
     StartSslKeeps, StartSetPortKeeps, StartSetPortFailsKeeps, StartFreeKeeps, StartStopKeeps
     DEF Start!Next

\* How many addresses are alike is a number.
LEMMA AlikeIsPositive ==
  ASSUME Bits \in Nat PROVE \A n \in 0 .. Bits : Start!Alike[n] \in Nat \ {0}
<1> DEFINE V == Nat \ {0}
           G == [i \in 1 .. Bits |-> [x \in V |-> 2 * x]]
           step(n) == IF n = 0 THEN 1 ELSE 2 * Start!Alike[n - 1]
<1>1. PICK f \in [0 .. Bits -> V] : Follows(f, Bits, 1, G)
  <2>1. G \in [1 .. Bits -> [V -> V]] /\ 1 \in V
    OBVIOUS
  <2> HIDE DEF V, G
  <2> QED
    BY <2>1, RecursionExists
<1>2. \A i \in 1 .. Bits : i - 1 \in 0 .. Bits /\ G[i][f[i - 1]] = 2 * f[i - 1]
  OBVIOUS
<1>3. f = [n \in 0 .. Bits |-> IF n = 0 THEN 1 ELSE 2 * f[n - 1]]
  <2>1. ASSUME NEW n \in 0 .. Bits PROVE f[n] = IF n = 0 THEN 1 ELSE 2 * f[n - 1]
    <3>1. CASE n = 0
      BY <1>1, <3>1 DEF Follows
    <3>2. CASE n # 0
      <4>1. n \in 1 .. Bits
        BY <3>2
      <4>2. f[n] = G[n][f[n - 1]]
        BY <1>1, <4>1 DEF Follows
      <4> HIDE DEF G
      <4> QED
        BY <1>2, <3>2, <4>1, <4>2
    <3> QED
      BY <3>1, <3>2
  <2> QED
    BY <2>1
<1>4. Start!Alike = [n \in 0 .. Bits |-> IF n = 0 THEN 1 ELSE 2 * Start!Alike[n - 1]]
  <2> DEFINE A == CHOOSE g : g = [n \in 0 .. Bits |-> IF n = 0 THEN 1 ELSE 2 * g[n - 1]]
  <2>1. A = [n \in 0 .. Bits |-> IF n = 0 THEN 1 ELSE 2 * A[n - 1]]
    BY <1>3
  <2>2. Start!Alike = A
    BY DEF Start!Alike
  <2> QED
    BY <2>1, <2>2
<1> DEFINE S == {n \in Nat : n <= Bits => Start!Alike[n] \in Nat \ {0}}
<1>5. 0 \in S
  BY <1>4
<1>6. ASSUME NEW n \in S PROVE n + 1 \in S
  <2> SUFFICES ASSUME n + 1 <= Bits PROVE Start!Alike[n + 1] \in Nat \ {0}
    OBVIOUS
  <2>1. n + 1 \in 0 .. Bits /\ n + 1 # 0 /\ (n + 1) - 1 = n /\ Start!Alike[n] \in Nat \ {0}
    OBVIOUS
  <2>2. Start!Alike[n + 1] = 2 * Start!Alike[n]
    BY <1>4, <2>1
  <2> QED
    BY <2>1, <2>2
<1>7. S = Nat
  <2>1. S \in SUBSET Nat
    OBVIOUS
  <2> HIDE DEF S
  <2> QED
    BY <1>5, <1>6, <2>1, EveryNatural
<1> QED
  BY <1>7

\* An address is in a block if they are the same but for what the block leaves open.
LEMMA SameBlock ==
  ASSUME NEW net \in Nat, NEW ip \in Nat, NEW P \in Nat \ {0}
  PROVE  net = ip - (ip % P) <=> net \div P = ip \div P /\ net % P = 0
<1>1. PICK q \in Nat, r \in Nat : q = ip \div P /\ r = ip % P
  OBVIOUS
<1>2. PICK k \in Nat, m \in Nat : k = net \div P /\ m = net % P
  OBVIOUS
<1>3. ip = P * q + r /\ r < P
  BY <1>1
<1>4. net = P * k + m /\ m < P
  BY <1>2
<1>5. ASSUME net = ip - r PROVE k = q /\ m = 0
  <2>1. net = P * q
    BY <1>3, <1>5
  <2>2. (P * q) \div P = q /\ (P * q) % P = 0
    OBVIOUS
  <2> QED
    BY <1>2, <2>1, <2>2
<1>6. ASSUME k = q, m = 0 PROVE net = ip - r
  BY <1>3, <1>4, <1>6
<1> QED
  BY <1>1, <1>2, <1>5, <1>6

\* The last of those up to n that match
LastMatch(l, ip, n, i) ==
  /\ i \in 1 .. n /\ Start!Matches(l[i], ip)
  /\ \A j \in 1 .. n : Start!Matches(l[j], ip) => j <= i

\* Of the entries that match an address the last one decides, and without one the default.
LEMMA AclDecides ==
  ASSUME Start!MgStartAssumption, NEW l \in Seq(Start!Entries), NEW ip \in Start!Addresses,
         \A i \in DOMAIN l : l[i].flag # "x"
  PROVE  LET hits == {i \in DOMAIN l :
                        /\ l[i].net \div Start!Block(l[i]) = ip \div Start!Block(l[i])
                        /\ l[i].net % Start!Block(l[i]) = 0} IN
         Start!CheckAcl(l, ip) =
           IF hits = {} THEN IF l = <<>> THEN 1 ELSE 0
           ELSE IF l[CHOOSE i \in hits : \A j \in hits : j <= i].flag = "+" THEN 1 ELSE 0
<1> DEFINE N == Len(l)
           base == IF l = <<>> THEN "+" ELSE "-"
           hit(i) == Start!Matches(l[i], ip)
<1>0. /\ N \in Nat /\ DOMAIN l = 1 .. N /\ \A i \in 1 .. N : l[i] \in Start!Entries
      /\ l = <<>> <=> N = 0
  OBVIOUS
<1>1. \A i \in 1 .. N : hit(i) <=> /\ l[i].net \div Start!Block(l[i]) = ip \div Start!Block(l[i])
                                   /\ l[i].net % Start!Block(l[i]) = 0
  <2> SUFFICES ASSUME NEW i \in 1 .. N
               PROVE  hit(i) <=> /\ l[i].net \div Start!Block(l[i]) = ip \div Start!Block(l[i])
                                 /\ l[i].net % Start!Block(l[i]) = 0
    OBVIOUS
  <2>1. Bits \in Nat
    BY DEF Start!MgStartAssumption
  <2>2. Start!Alike[Bits] \in Nat \ {0}
    BY <2>1, AlikeIsPositive
  <2>3. l[i].net \in Start!Addresses /\ l[i].slash \in 0 .. Bits
    BY <1>0 DEF Start!Entries
  <2>4. ip \in Nat /\ l[i].net \in Nat
    BY <2>2, <2>3 DEF Start!Addresses
  <2>5. Bits - l[i].slash \in 0 .. Bits
    BY <2>1, <2>3
  <2>6. Start!Block(l[i]) \in Nat \ {0}
    BY <2>1, <2>5, AlikeIsPositive DEF Start!Block
  <2> QED
    BY <2>4, <2>6, SameBlock DEF Start!Matches
<1> DEFINE V == {"+", "-"}
           G == [i \in 1 .. N |-> [x \in V |-> IF hit(i) THEN l[i].flag ELSE x]]
           A == CHOOSE g : g = [i \in 0 .. N |->
                                  IF i = 0 THEN base ELSE IF hit(i) THEN l[i].flag ELSE g[i - 1]]
<1>2. \A i \in 1 .. N : l[i].flag \in V
  BY <1>0 DEF Start!Entries
<1>3. PICK f \in [0 .. N -> V] : Follows(f, N, base, G)
  <2>1. G \in [1 .. N -> [V -> V]] /\ base \in V
    BY <1>2
  <2> HIDE DEF V, G, base
  <2> QED
    BY <1>0, <2>1, RecursionExists
<1>4. f = [i \in 0 .. N |-> IF i = 0 THEN base ELSE IF hit(i) THEN l[i].flag ELSE f[i - 1]]
  <2>1. ASSUME NEW i \in 0 .. N
        PROVE  f[i] = IF i = 0 THEN base ELSE IF hit(i) THEN l[i].flag ELSE f[i - 1]
    <3>1. CASE i = 0
      BY <1>3, <3>1 DEF Follows
    <3>2. CASE i # 0
      <4>1. i \in 1 .. N /\ i - 1 \in 0 .. N
        BY <1>0, <3>2
      <4>2. f[i] = G[i][f[i - 1]] /\ f[i - 1] \in V
        BY <1>3, <4>1 DEF Follows
      <4>3. G[i][f[i - 1]] = IF hit(i) THEN l[i].flag ELSE f[i - 1]
        BY <4>1, <4>2
      <4> QED
        BY <3>2, <4>2, <4>3
    <3> QED
      BY <3>1, <3>2
  <2> QED
    BY <2>1
<1>5. A = [i \in 0 .. N |-> IF i = 0 THEN base ELSE IF hit(i) THEN l[i].flag ELSE A[i - 1]]
  <2> HIDE DEF base, hit
  <2> QED
    BY <1>4
<1>6. Start!CheckAcl(l, ip) = IF A[N] = "+" THEN 1 ELSE 0
  <2>1. ~ \E i \in DOMAIN l : l[i].flag = "x"
    OBVIOUS
  <2> QED
    BY <2>1 DEF Start!CheckAcl
<1> HIDE DEF A, G, V
<1> DEFINE Says(n) == \/ (\A i \in 1 .. n : ~ hit(i)) /\ A[n] = base
                      \/ \E i \in 1 .. n : LastMatch(l, ip, n, i) /\ A[n] = l[i].flag
           S == {n \in Nat : n <= N => Says(n)}
<1>7. 0 \in S
  <2>1. A[0] = base
    BY <1>0, <1>5
  <2> HIDE DEF base, hit
  <2> QED
    BY <2>1
<1>8. ASSUME NEW n \in S PROVE n + 1 \in S
  <2> SUFFICES ASSUME n + 1 <= N PROVE Says(n + 1)
    OBVIOUS
  <2>1. n \in Nat /\ n + 1 \in 0 .. N /\ n + 1 # 0 /\ (n + 1) - 1 = n /\ Says(n)
        /\ n + 1 \in 1 .. n + 1 /\ \A i \in 1 .. n + 1 : i \in 1 .. n \/ i = n + 1
    BY <1>0
  <2> HIDE DEF base
  <2>2. A[n + 1] = IF hit(n + 1) THEN l[n + 1].flag ELSE A[n]
    <3> HIDE DEF hit
    <3> QED
      BY <1>5, <2>1
  <2>3. CASE hit(n + 1)
    <3>1. LastMatch(l, ip, n + 1, n + 1)
      BY <2>1, <2>3 DEF LastMatch
    <3> QED
      BY <2>1, <2>2, <2>3, <3>1
  <2>4. CASE ~ hit(n + 1)
    <3>1. A[n + 1] = A[n]
      BY <2>2, <2>4
    <3>2. CASE (\A i \in 1 .. n : ~ hit(i)) /\ A[n] = base
      BY <2>1, <2>4, <3>1, <3>2
    <3>3. CASE \E i \in 1 .. n : LastMatch(l, ip, n, i) /\ A[n] = l[i].flag
      <4>1. PICK i \in 1 .. n : LastMatch(l, ip, n, i) /\ A[n] = l[i].flag
        BY <3>3
      <4>2. i \in 1 .. n + 1 /\ LastMatch(l, ip, n + 1, i)
        BY <2>1, <2>4, <4>1 DEF LastMatch
      <4> QED
        BY <3>1, <4>1, <4>2
    <3> QED
      BY <2>1, <3>2, <3>3
  <2> QED
    BY <2>3, <2>4
<1>9. Says(N)
  <2>1. S = Nat
    <3>1. S \in SUBSET Nat
      OBVIOUS
    <3> HIDE DEF S
    <3> QED
      BY <1>7, <1>8, <3>1, EveryNatural
  <2> HIDE DEF Says
  <2> QED
    BY <1>0, <2>1
<1> DEFINE hits == {i \in DOMAIN l : /\ l[i].net \div Start!Block(l[i]) = ip \div Start!Block(l[i])
                                     /\ l[i].net % Start!Block(l[i]) = 0}
<1>10. hits = {i \in 1 .. N : hit(i)}
  BY <1>0, <1>1
<1>11. CASE (\A i \in 1 .. N : ~ hit(i)) /\ A[N] = base
  <2>1. hits = {}
    BY <1>10, <1>11
  <2>2. (A[N] = "+") <=> l = <<>>
    BY <1>11
  <2> QED
    BY <1>6, <2>1, <2>2
<1>12. CASE \E i \in 1 .. N : LastMatch(l, ip, N, i) /\ A[N] = l[i].flag
  <2>1. PICK i \in 1 .. N : LastMatch(l, ip, N, i) /\ A[N] = l[i].flag
    BY <1>12
  <2> HIDE DEF hits
  <2>2. i \in hits /\ \A j \in hits : j <= i
    BY <1>10, <2>1 DEF LastMatch
  <2>3. hits \subseteq Int
    BY <1>10
  <2>4. \A k \in hits : (\A j \in hits : j <= k) => k = i
    <3> SUFFICES ASSUME NEW k \in hits, \A j \in hits : j <= k PROVE k = i
      OBVIOUS
    <3>1. i <= k /\ k <= i /\ i \in Int /\ k \in Int
      BY <2>2, <2>3
    <3> QED
      BY <3>1
  <2>5. (CHOOSE k \in hits : \A j \in hits : j <= k) = i
    BY <2>2, <2>4
  <2>6. hits # {}
    BY <2>2
  <2>7. Start!CheckAcl(l, ip) = IF l[CHOOSE k \in hits : \A j \in hits : j <= k].flag = "+" THEN 1 ELSE 0
    BY <1>6, <2>1, <2>5
  <2> QED
    BY <2>6, <2>7 DEF hits
<1> HIDE DEF hits
<1> QED
  BY <1>9, <1>11, <1>12 DEF hits

\* What the invariant says of failures, of the sockets and of the access list
LEMMA StartIsRight ==
  ASSUME Start!MgStartAssumption, StartInv
  PROVE  /\ Start!FailureUndoes /\ Start!StopUndoes
         /\ Start!ListensAsTold /\ Start!LastMatchDecides
<1>1. Start!FailureUndoes /\ Start!StopUndoes
  BY DEF StartInv
<1>2. Start!ListensAsTold
  <2> SUFFICES ASSUME pc = "running" PROVE Start!ListensAsTold
    BY DEF Start!ListensAsTold
  <2> DEFINE specs == config["listening_ports"]
             N == Len(listening)
  <2>1. pc \in Late /\ pc # "set_ports_option"
    BY DEF Late
  <2>2. /\ listening \in Seq(Listened) /\ specs \in Seq(Start!Specs) /\ N \in Nat
        /\ Len(specs) \in Nat /\ DOMAIN specs = 1 .. Len(specs)
    BY DEF StartInv, StartTypes
  <2>3. fds = 1 .. N /\ N = Len(specs)
    <3>1. list = <<>> /\ N + Len(list) = Len(specs) /\ fds = 1 .. N
      BY <2>1 DEF StartInv, StartLate, SocketsAreListed
    <3>2. Len(list) = 0
      BY <3>1
    <3> QED
      BY <2>2, <3>1, <3>2
  <2>4. Start!Cardinality(fds) = N
    <3>1. Cardinality(1 .. N) = N
      BY <2>2, CountUpTo
    <3>2. \A S : Start!Cardinality(S) = Cardinality(S)
      BY DEF Start!Cardinality, Cardinality
    <3> QED
      BY <2>3, <3>1, <3>2
  <2>5. \A i \in 1 .. N : /\ specs[i].ip \/ listening[i].port = specs[i].port
                          /\ listening[i].is_ssl =>
                               specs[i].tail = "s" /\ "ssl_ctx" \in heap /\ callbacks
    BY <2>1 DEF StartInv, StartListens
  <2> QED
    BY <2>2, <2>3, <2>4, <2>5 DEF Start!ListensAsTold
<1>3. Start!LastMatchDecides
  <2> SUFFICES ASSUME pc = "running" PROVE Start!LastMatchDecides
    BY DEF Start!LastMatchDecides
  <2>1. config["access_control_list"] \in Seq(Start!Entries)
        /\ \A i \in DOMAIN config["access_control_list"] :
             config["access_control_list"][i].flag # "x"
    BY DEF StartInv, StartTypes, AclReads
  <2> QED
    BY <2>1, AclDecides DEF Start!LastMatchDecides
<1> QED
  BY <1>1, <1>2, <1>3

-----------------------------------------------------------------------------
(* The password file.                                                      *)

AnyLines == [user : Users \union {"other"}, pass : Passwords \union {Htpasswd!None, "broken"}]
FileStates == [lines : Seq(AnyLines), ended : BOOLEAN, there : BOOLEAN]

\* The lines of a user up to each
LinesBy(f, s, u) ==
  /\ f \in [0 .. Len(s) -> Seq(AnyLines)] /\ f[0] = <<>>
  /\ \A n \in 1 .. Len(s) : f[n] = IF s[n].user = u THEN Append(f[n - 1], s[n]) ELSE f[n - 1]

\* The lines of a user are counted up from the first of the file.
LEMMA LinesFunction ==
  ASSUME NEW s \in Seq(AnyLines), NEW u
  PROVE  \E f : LinesBy(f, s, u) /\ Htpasswd!LinesOf(s, u) = f[Len(s)]
<1> DEFINE N == Len(s)
           V == Seq(AnyLines)
           hit(i) == s[i].user = u
           G == [i \in 1 .. N |-> [x \in V |-> IF hit(i) THEN Append(x, s[i]) ELSE x]]
           A == CHOOSE g : g = [n \in 0 .. N |->
                  IF n = 0 THEN <<>> ELSE IF hit(n) THEN Append(g[n - 1], s[n]) ELSE g[n - 1]]
<1>1. N \in Nat /\ \A i \in 1 .. N : s[i] \in AnyLines
  OBVIOUS
<1>2. PICK f \in [0 .. N -> V] : Follows(f, N, <<>>, G)
  <2>1. \A i \in 1 .. N : \A x \in V : (IF hit(i) THEN Append(x, s[i]) ELSE x) \in V
    BY <1>1
  <2>2. G \in [1 .. N -> [V -> V]] /\ <<>> \in V
    BY <2>1
  <2> HIDE DEF V, G
  <2> QED
    BY <1>1, <2>2, RecursionExists
<1>3. f = [n \in 0 .. N |->
             IF n = 0 THEN <<>> ELSE IF hit(n) THEN Append(f[n - 1], s[n]) ELSE f[n - 1]]
  <2>1. ASSUME NEW n \in 0 .. N
        PROVE  f[n] = IF n = 0 THEN <<>> ELSE IF hit(n) THEN Append(f[n - 1], s[n]) ELSE f[n - 1]
    <3>1. CASE n = 0
      BY <1>2, <3>1 DEF Follows
    <3>2. CASE n # 0
      <4>1. n \in 1 .. N /\ n - 1 \in 0 .. N
        BY <1>1, <3>2
      <4>2. f[n] = G[n][f[n - 1]] /\ f[n - 1] \in V
        BY <1>2, <4>1 DEF Follows
      <4>3. G[n][f[n - 1]] = IF hit(n) THEN Append(f[n - 1], s[n]) ELSE f[n - 1]
        <5> HIDE DEF V, hit
        <5> QED
          BY <4>1, <4>2
      <4> QED
        BY <3>2, <4>2, <4>3
    <3> QED
      BY <3>1, <3>2
  <2> HIDE DEF hit
  <2> QED
    BY <1>2, <2>1
<1>4. A = [n \in 0 .. N |->
             IF n = 0 THEN <<>> ELSE IF hit(n) THEN Append(A[n - 1], s[n]) ELSE A[n - 1]]
  <2> HIDE DEF hit
  <2> QED
    BY <1>3
<1>5. \A n \in 0 .. N : f[n] = IF n = 0 THEN <<>>
                               ELSE IF hit(n) THEN Append(f[n - 1], s[n]) ELSE f[n - 1]
  <2> HIDE DEF hit
  <2> QED
    BY <1>3
<1>6. Htpasswd!LinesOf(s, u) = A[N]
  BY DEF Htpasswd!LinesOf
<1> HIDE DEF A, G, V
<1>7. \A n \in 0 .. N : A[n] = IF n = 0 THEN <<>>
                               ELSE IF hit(n) THEN Append(A[n - 1], s[n]) ELSE A[n - 1]
  <2> HIDE DEF hit
  <2> QED
    BY <1>4
<1> DEFINE S == {n \in Nat : n <= N => A[n] = f[n]}
<1>8. 0 \in S
  BY <1>1, <1>5, <1>7
<1>9. ASSUME NEW n \in S PROVE n + 1 \in S
  <2> SUFFICES ASSUME n + 1 <= N PROVE A[n + 1] = f[n + 1]
    OBVIOUS
  <2>1. n + 1 \in 0 .. N /\ n + 1 # 0 /\ (n + 1) - 1 = n /\ A[n] = f[n]
    BY <1>1
  <2> HIDE DEF hit
  <2> QED
    BY <1>5, <1>7, <2>1
<1>10. S = Nat
  <2>1. S \in SUBSET Nat
    OBVIOUS
  <2> HIDE DEF S
  <2> QED
    BY <1>8, <1>9, <2>1, EveryNatural
<1>11. A[N] = f[N]
  BY <1>1, <1>10
<1>12. LinesBy(f, s, u)
  <2>1. \A n \in 1 .. N : n \in 0 .. N /\ n # 0
    BY <1>1
  <2>2. \A n \in 1 .. N : f[n] = IF hit(n) THEN Append(f[n - 1], s[n]) ELSE f[n - 1]
    <3> HIDE DEF hit
    <3> QED
      BY <1>5, <2>1
  <2>3. f[0] = <<>>
    BY <1>2 DEF Follows
  <2> QED
    BY <1>2, <2>2, <2>3 DEF LinesBy, V
<1> QED
  BY <1>6, <1>11, <1>12

\* An empty file has none.
LEMMA LinesOfNone == ASSUME NEW u PROVE Htpasswd!LinesOf(<<>>, u) = <<>>
<1>1. <<>> \in Seq(AnyLines) /\ Len(<<>>) = 0
  OBVIOUS
<1>2. PICK f : LinesBy(f, <<>>, u) /\ Htpasswd!LinesOf(<<>>, u) = f[Len(<<>>)]
  BY <1>1, LinesFunction
<1>3. f[0] = <<>>
  BY <1>2 DEF LinesBy
<1> QED
  BY <1>1, <1>2, <1>3

\* One line more is the user's, or it changes nothing.
LEMMA LinesOfMore ==
  ASSUME NEW s \in Seq(AnyLines), NEW l \in AnyLines, NEW u
  PROVE  Htpasswd!LinesOf(Append(s, l), u) =
           IF l.user = u THEN Append(Htpasswd!LinesOf(s, u), l) ELSE Htpasswd!LinesOf(s, u)
<1> DEFINE N == Len(s)
           t == Append(s, l)
<1>1. /\ N \in Nat /\ t \in Seq(AnyLines) /\ Len(t) = N + 1 /\ t[N + 1] = l
      /\ \A n \in 1 .. N : t[n] = s[n]
  OBVIOUS
<1> HIDE DEF t
<1>2. PICK f : LinesBy(f, s, u) /\ Htpasswd!LinesOf(s, u) = f[N]
  BY LinesFunction
<1>3. PICK g : LinesBy(g, t, u) /\ Htpasswd!LinesOf(t, u) = g[N + 1]
  BY <1>1, LinesFunction
<1> DEFINE step(h, n) == IF s[n].user = u THEN Append(h[n - 1], s[n]) ELSE h[n - 1]
<1>4. f[0] = g[0] /\ \A n \in 1 .. N : f[n] = step(f, n) /\ g[n] = step(g, n)
  BY <1>1, <1>2, <1>3 DEF LinesBy
<1> DEFINE S == {n \in Nat : n <= N => f[n] = g[n]}
<1>5. 0 \in S
  BY <1>4
<1>6. ASSUME NEW n \in S PROVE n + 1 \in S
  <2> SUFFICES ASSUME n + 1 <= N PROVE f[n + 1] = g[n + 1]
    OBVIOUS
  <2>1. n + 1 \in 1 .. N /\ (n + 1) - 1 = n /\ f[n] = g[n]
    BY <1>1
  <2> QED
    BY <1>4, <2>1
<1>7. S = Nat
  <2>1. S \in SUBSET Nat
    OBVIOUS
  <2> HIDE DEF S
  <2> QED
    BY <1>5, <1>6, <2>1, EveryNatural
<1>8. f[N] = g[N]
  BY <1>1, <1>7
<1>9. g[N + 1] = IF l.user = u THEN Append(g[N], l) ELSE g[N]
  <2>1. N + 1 \in 1 .. N + 1 /\ (N + 1) - 1 = N
    BY <1>1
  <2> QED
    BY <1>1, <1>3, <2>1 DEF LinesBy
<1> QED
  BY <1>2, <1>3, <1>8, <1>9 DEF t

\* The first n + 1 of a sequence are the first n and the next.
LEMMA SubSeqMore ==
  ASSUME NEW T, NEW s \in Seq(T), NEW n \in Nat, n < Len(s)
  PROVE  /\ SubSeq(s, 1, n) \in Seq(T)
         /\ SubSeq(s, 1, n + 1) = Append(SubSeq(s, 1, n), s[n + 1])
<1>1. /\ SubSeq(s, 1, n) \in Seq(T) /\ Len(SubSeq(s, 1, n)) = n
      /\ \A i \in 1 .. n : SubSeq(s, 1, n)[i] = s[i]
      /\ SubSeq(s, 1, n + 1) \in Seq(T) /\ Len(SubSeq(s, 1, n + 1)) = n + 1
      /\ \A i \in 1 .. n + 1 : SubSeq(s, 1, n + 1)[i] = s[i]
  <2>1. n \in 0 .. Len(s) /\ n + 1 \in 0 .. Len(s)
    OBVIOUS
  <2> QED
    BY <2>1
<1>2. s[n + 1] \in T
  OBVIOUS
<1> DEFINE a == SubSeq(s, 1, n)
           b == SubSeq(s, 1, n + 1)
           c == Append(a, s[n + 1])
<1>3. c \in Seq(T) /\ Len(c) = n + 1 /\ (\A i \in 1 .. n : c[i] = a[i]) /\ c[n + 1] = s[n + 1]
  BY <1>1, <1>2
<1>4. \A i \in 1 .. n + 1 : i \in 1 .. n \/ i = n + 1
  OBVIOUS
<1>5. \A i \in 1 .. Len(b) : b[i] = c[i]
  <2> HIDE DEF a, b, c
  <2> QED
    BY <1>1, <1>3, <1>4 DEF a, b
<1> HIDE DEF c
<1> QED
  BY <1>1, <1>3, <1>5, SeqEqual DEF c

\* What is written behind a file that ends
LEMMA WrittenIsFile ==
  ASSUME NEW f \in FileStates, f.ended \/ f.lines # <<>>, NEW l \in AnyLines, NEW e \in BOOLEAN
  PROVE  LET g == Htpasswd!Written(f, l, e) IN
         /\ g \in FileStates /\ g.lines # <<>> /\ g.ended = e
         /\ f.ended => g.lines = Append(f.lines, l)
<1> DEFINE s == f.lines
           joined == Htpasswd!Broken(s[Len(s)])
           t == IF f.ended THEN Append(s, l) ELSE Append(SubSeq(s, 1, Len(s) - 1), joined)
           g == Htpasswd!Written(f, l, e)
<1>1. s \in Seq(AnyLines) /\ f.ended \in BOOLEAN /\ f.there \in BOOLEAN
      /\ f = [lines |-> f.lines, ended |-> f.ended, there |-> f.there]
  BY DEF FileStates
<1>2. t \in Seq(AnyLines) /\ t # <<>>
  <2>1. CASE f.ended
    <3>1. t = Append(s, l)
      BY <2>1
    <3>2. Append(s, l) \in Seq(AnyLines) /\ Append(s, l) # <<>>
      <4> HIDE DEF s
      <4> QED
        BY <1>1
    <3> HIDE DEF t, s
    <3> QED
      BY <3>1, <3>2
  <2>2. CASE ~ f.ended
    <3>1. Len(s) \in 1 .. Len(s) /\ Len(s) - 1 \in 0 .. Len(s) /\ s[Len(s)] \in AnyLines
      BY <1>1, <2>2
    <3>2. joined \in AnyLines
      BY <3>1 DEF AnyLines, Htpasswd!Broken
    <3>3. SubSeq(s, 1, Len(s) - 1) \in Seq(AnyLines)
      BY <1>1, <3>1
    <3> HIDE DEF s, joined
    <3> QED
      BY <2>2, <3>2, <3>3
  <2> QED
    BY <2>1, <2>2
<1>3. g = [f EXCEPT !.lines = t, !.ended = e]
  BY <1>1 DEF Htpasswd!Written
<1> HIDE DEF t, g
<1>4. g = [lines |-> t, ended |-> e, there |-> f.there]
  BY <1>1, <1>3
<1>5. g \in FileStates /\ g.lines = t /\ g.ended = e
  BY <1>1, <1>2, <1>4 DEF FileStates
<1>6. f.ended => t = Append(s, l)
  BY DEF t
<1> QED
  BY <1>2, <1>5, <1>6 DEF g

PasswordTypes ==
  /\ file \in FileStates /\ tmp \in FileStates /\ out \in FileStates /\ before \in FileStates
  /\ (out.ended \/ out.lines # <<>>) /\ (tmp.ended \/ tmp.lines # <<>>)
  /\ pc \in {"idle", "copy", "close", "remove", "rename"}
  /\ pc # "idle" => user \in Users /\ pass \in Passwords \union {Htpasswd!None}
  /\ pc = "copy" => at \in Nat /\ at <= Len(file.lines) /\ found \in BOOLEAN

\* What has been copied
Copying ==
  /\ out.ended
  /\ \A u \in Users \ {user} :
       Htpasswd!LinesOf(out.lines, u) = Htpasswd!LinesOf(SubSeq(before.lines, 1, at), u)
  /\ \A i \in 1 .. Len(out.lines) : out.lines[i].user = user => out.lines[i].pass = pass
  /\ (\E i \in 1 .. Len(out.lines) : out.lines[i].user = user) <=> (found /\ pass # Htpasswd!None)

\* What is under the name of the file
Kept == \/ file = before
        \/ ~ file.there /\ Htpasswd!Changed(tmp)
        \/ Htpasswd!Changed(file)

CallStages ==
  /\ pc \in {"copy", "close", "remove"} => file = before
  /\ pc = "copy" => Copying
  /\ pc \in {"close", "remove", "rename"} => Htpasswd!Changed(out)
  /\ pc \in {"remove", "rename"} => tmp = out
  /\ pc = "rename" => file = before \/ ~ file.there
  /\ pc = "idle" => Kept

\* What a call promises something of
Sound == before.ended /\ ~ short /\ ~ lost

PasswordsInv == /\ PasswordTypes
                /\ Sound => CallStages

\* A file in which one record was changed, line by line
LEMMA ChangedIs ==
  ASSUME NEW f \in FileStates
  PROVE  Htpasswd!Changed(f) <=>
           /\ \A u \in Users \ {user} :
                Htpasswd!LinesOf(f.lines, u) = Htpasswd!LinesOf(before.lines, u)
           /\ \A i \in 1 .. Len(f.lines) : f.lines[i].user = user => f.lines[i].pass = pass
           /\ (\E i \in 1 .. Len(f.lines) : f.lines[i].user = user) <=> pass # Htpasswd!None
<1>1. DOMAIN f.lines = 1 .. Len(f.lines)
  BY DEF FileStates
<1>2. Htpasswd!RecordsOf(f, user) = {i \in 1 .. Len(f.lines) : f.lines[i].user = user}
  BY <1>1 DEF Htpasswd!RecordsOf
<1> QED
  BY <1>2 DEF Htpasswd!Changed

\* The same of the next state
LEMMA ChangedNext ==
  ASSUME out' \in FileStates, UNCHANGED <<user, pass, before>>,
         \A u \in Users \ {user} :
           Htpasswd!LinesOf(out'.lines, u) = Htpasswd!LinesOf(before.lines, u),
         \A i \in 1 .. Len(out'.lines) : out'.lines[i].user = user => out'.lines[i].pass = pass,
         (\E i \in 1 .. Len(out'.lines) : out'.lines[i].user = user) <=> pass # Htpasswd!None
  PROVE  Htpasswd!Changed(out)'
<1>1. DOMAIN out'.lines = 1 .. Len(out'.lines)
  BY DEF FileStates
<1>2. Htpasswd!RecordsOf(out, user)' = {i \in 1 .. Len(out'.lines) : out'.lines[i].user = user}
  BY <1>1 DEF Htpasswd!RecordsOf
<1> QED
  BY <1>2 DEF Htpasswd!Changed

\* A file that is not there has no lines.
LEMMA NoFileIsFile ==
  /\ Htpasswd!NoFile \in FileStates /\ Htpasswd!Empty \in FileStates
  /\ Htpasswd!NoFile.ended /\ Htpasswd!Empty.ended /\ ~ Htpasswd!NoFile.there
  /\ Htpasswd!Empty.lines = <<>>
<1>1. Htpasswd!NoFile \in FileStates
  BY EmptySequence DEF FileStates, Htpasswd!NoFile
<1> QED
  BY <1>1 DEF FileStates, Htpasswd!NoFile, Htpasswd!Empty

\* No call has been made.
LEMMA PasswordsInitHolds ==
  ASSUME Htpasswd!MgPasswordsAssumption, Htpasswd!Init PROVE PasswordsInv
<1>1. tmp = Htpasswd!NoFile /\ pc = "idle" /\ out = Htpasswd!Empty /\ before = file /\ calls = 0
  BY DEF Htpasswd!Init
<1>2. file \in FileStates
  <2>1. PICK f \in Originals \union {Htpasswd!NoFile} :
          file = [lines |-> f.lines, ended |-> f.ended, there |-> f # Htpasswd!NoFile]
    BY DEF Htpasswd!Init
  <2>2. f.lines \in Seq(AnyLines) /\ f.ended \in BOOLEAN
    <3>1. Htpasswd!Lines \subseteq AnyLines
      BY DEF Htpasswd!Lines, Htpasswd!Record, AnyLines
    <3>2. CASE f \in Originals
      <4>1. f.lines \in Seq(Htpasswd!Lines) /\ f.ended \in BOOLEAN
        BY <3>2 DEF Htpasswd!MgPasswordsAssumption
      <4> QED
        BY <3>1, <4>1
    <3>3. CASE f = Htpasswd!NoFile
      BY <3>3, NoFileIsFile DEF FileStates
    <3> QED
      BY <3>2, <3>3
  <2>3. (f # Htpasswd!NoFile) \in BOOLEAN
    OBVIOUS
  <2> QED
    BY <2>1, <2>2, <2>3 DEF FileStates
<1>3. PasswordTypes
  BY <1>1, <1>2, NoFileIsFile DEF PasswordTypes
<1>4. CallStages
  BY <1>1 DEF CallStages, Kept
<1> QED
  BY <1>3, <1>4 DEF PasswordsInv

LEMMA PasswordsStutterKeeps ==
  ASSUME PasswordsInv, UNCHANGED <<file, tmp, pc, user, pass, at, out, found, before, short, lost, calls>>
  PROVE  PasswordsInv'
BY DEF PasswordsInv, PasswordTypes, CallStages, Copying, Sound, Kept,
       Htpasswd!Changed, Htpasswd!RecordsOf

\* The file is created, and is the old one, unless there was only its copy.
LEMMA CreateGives ==
  ASSUME PasswordTypes, Htpasswd!Create
  PROVE  file' \in FileStates /\ before' \in FileStates /\ (~ lost' => before' = file')
<1>1. file' = [file EXCEPT !.there = TRUE] /\ file' \in FileStates
  BY DEF Htpasswd!Create, PasswordTypes, FileStates
<1>2. before' = tmp \/ before' = file'
  BY DEF Htpasswd!Create
<1>3. ~ lost' => before' = file'
  BY DEF Htpasswd!Create
<1> QED
  BY <1>1, <1>2, <1>3 DEF PasswordTypes

\* A call begins: the old file is to be copied.
LEMMA BeginKeeps ==
  ASSUME PasswordsInv, Htpasswd!Begin PROVE PasswordsInv'
<1>1. /\ Htpasswd!Create /\ tmp' = Htpasswd!Empty
      /\ out' = Htpasswd!Empty /\ at' = 0 /\ found' = FALSE /\ pc' = "copy"
      /\ user' \in Users /\ pass' \in Passwords \union {Htpasswd!None}
  BY DEF Htpasswd!Begin
<1>2. file' \in FileStates /\ before' \in FileStates /\ (~ lost' => before' = file')
  BY <1>1, CreateGives DEF PasswordsInv
<1>3. Len(file'.lines) \in Nat
  BY <1>2 DEF FileStates
<1>4. PasswordTypes'
  <2>1. tmp' \in FileStates /\ out' \in FileStates /\ out'.ended /\ tmp'.ended
    BY <1>1, NoFileIsFile
  <2>2. at' \in Nat /\ at' <= Len(file'.lines)
    BY <1>1, <1>3
  <2> QED
    BY <1>1, <1>2, <2>1, <2>2 DEF PasswordTypes
<1>5. Copying'
  <2>1. SubSeq(before'.lines, 1, 0) = <<>>
    <3>1. before'.lines \in Seq(AnyLines)
      BY <1>2 DEF FileStates
    <3> QED
      BY <3>1
  <2>2. Len(out'.lines) = 0 /\ out'.lines = <<>> /\ out'.ended
    BY <1>1, NoFileIsFile
  <2>3. \A u \in Users \ {user'} :
          Htpasswd!LinesOf(out'.lines, u) = Htpasswd!LinesOf(SubSeq(before'.lines, 1, at'), u)
    BY <1>1, <2>1, <2>2
  <2> QED
    BY <1>1, <2>2, <2>3 DEF Copying
<1>6. before' = file' => CallStages'
  BY <1>1, <1>5 DEF CallStages
<1> QED
  BY <1>2, <1>4, <1>6 DEF PasswordsInv, Sound

\* What has been copied and one line more
LEMMA CopyingMore ==
  ASSUME PasswordTypes, pc = "copy", file = before, before.ended, Copying,
         at < Len(file.lines), at' = at + 1, UNCHANGED <<user, pass, before>>,
         NEW add \in BOOLEAN, NEW l \in AnyLines,
         IF add THEN out' \in FileStates /\ out'.ended /\ out'.lines = Append(out.lines, l)
                ELSE out' = out,
         before.lines[at + 1].user \in Users \ {user} => add /\ l = before.lines[at + 1],
         before.lines[at + 1].user \notin Users \ {user} => ~ add \/ l.user \notin Users \ {user},
         add /\ l.user = user => l.pass = pass,
         (add /\ l.user = user) \/ (found /\ pass # Htpasswd!None) <=> (found' /\ pass # Htpasswd!None)
  PROVE  Copying'
<1> DEFINE b == before.lines
           s == out.lines
           N == Len(s)
<1>1. /\ b \in Seq(AnyLines) /\ s \in Seq(AnyLines) /\ N \in Nat /\ at \in Nat
      /\ at < Len(b) /\ b[at + 1] \in AnyLines
  BY DEF PasswordTypes, FileStates
<1>2. /\ SubSeq(b, 1, at) \in Seq(AnyLines)
      /\ SubSeq(b, 1, at + 1) = Append(SubSeq(b, 1, at), b[at + 1])
  BY <1>1, SubSeqMore
<1>3. ASSUME NEW u \in Users \ {user}
      PROVE  Htpasswd!LinesOf(out'.lines, u) = Htpasswd!LinesOf(SubSeq(b, 1, at + 1), u)
  <2>1. Htpasswd!LinesOf(SubSeq(b, 1, at + 1), u) =
          IF b[at + 1].user = u THEN Append(Htpasswd!LinesOf(SubSeq(b, 1, at), u), b[at + 1])
          ELSE Htpasswd!LinesOf(SubSeq(b, 1, at), u)
    <3>1. PICK pre \in Seq(AnyLines), x \in AnyLines : pre = SubSeq(b, 1, at) /\ x = b[at + 1]
      BY <1>1, <1>2
    <3>2. Htpasswd!LinesOf(Append(pre, x), u) =
            IF x.user = u THEN Append(Htpasswd!LinesOf(pre, u), x) ELSE Htpasswd!LinesOf(pre, u)
      BY LinesOfMore
    <3> HIDE DEF b
    <3> QED
      BY <1>2, <3>1, <3>2
  <2>2. Htpasswd!LinesOf(s, u) = Htpasswd!LinesOf(SubSeq(b, 1, at), u)
    BY DEF Copying
  <2>3. CASE add
    <3>1. Htpasswd!LinesOf(out'.lines, u) =
            IF l.user = u THEN Append(Htpasswd!LinesOf(s, u), l) ELSE Htpasswd!LinesOf(s, u)
      <4>1. out'.lines = Append(s, l)
        BY <2>3
      <4> HIDE DEF s
      <4> QED
        BY <1>1, <4>1, LinesOfMore
    <3>2. l.user = u <=> b[at + 1].user = u
      BY <2>3
    <3>3. b[at + 1].user = u => l = b[at + 1]
      OBVIOUS
    <3> QED
      BY <2>1, <2>2, <3>1, <3>2, <3>3
  <2>4. CASE ~ add
    <3>1. b[at + 1].user # u
      BY <2>4
    <3> QED
      BY <2>1, <2>2, <2>4, <3>1
  <2> QED
    BY <2>3, <2>4
<1>4. out'.ended
  BY DEF Copying
<1>5. /\ \A i \in 1 .. Len(out'.lines) : out'.lines[i].user = user => out'.lines[i].pass = pass
      /\ (\E i \in 1 .. Len(out'.lines) : out'.lines[i].user = user)
           <=> (found' /\ pass # Htpasswd!None)
  <2>1. /\ \A i \in 1 .. N : s[i].user = user => s[i].pass = pass
        /\ (\E i \in 1 .. N : s[i].user = user) <=> (found /\ pass # Htpasswd!None)
    BY DEF Copying
  <2>2. CASE ~ add
    BY <2>1, <2>2
  <2>3. CASE add
    <3>1. /\ Len(out'.lines) = N + 1 /\ \A i \in 1 .. N : out'.lines[i] = s[i]
          /\ out'.lines[N + 1] = l
      BY <1>1, <2>3
    <3>2. /\ \A i \in 1 .. N + 1 : i \in 1 .. N \/ i = N + 1
          /\ N + 1 \in 1 .. N + 1 /\ \A i \in 1 .. N : i \in 1 .. N + 1
      BY <1>1
    <3> HIDE DEF N, s
    <3>3. \A i \in 1 .. N + 1 : out'.lines[i].user = user => out'.lines[i].pass = pass
      BY <2>1, <2>3, <3>1, <3>2
    <3>4. (\E i \in 1 .. N + 1 : out'.lines[i].user = user)
            <=> (\E i \in 1 .. N : s[i].user = user) \/ l.user = user
      BY <3>1, <3>2
    <3> QED
      BY <2>1, <2>3, <3>1, <3>3, <3>4
  <2> QED
    BY <2>2, <2>3
<1> QED
  BY <1>3, <1>4, <1>5 DEF Copying

\* One line is read and written, or is the changed one.
LEMMA CopyKeeps ==
  ASSUME Htpasswd!MgPasswordsAssumption, PasswordsInv, Htpasswd!Copy PROVE PasswordsInv'
<1> DEFINE this == file.lines[at + 1]
           ended == at + 1 < Len(file.lines) \/ file.ended
<1>1. /\ pc = "copy" /\ at < Len(file.lines) /\ at' = at + 1
      /\ UNCHANGED <<file, tmp, pc, user, pass, before, short, lost, calls>>
      /\ IF this.user = "other" THEN UNCHANGED <<out, found>>
         ELSE IF this.user = user THEN
           /\ found' = TRUE
           /\ out' = IF pass = Htpasswd!None THEN out
                     ELSE Htpasswd!Written(out, Htpasswd!Record(user, pass), TRUE)
         ELSE out' = Htpasswd!Written(out, this, ended) /\ UNCHANGED found
  BY DEF Htpasswd!Copy
<1>2. PasswordTypes /\ at \in Nat /\ found \in BOOLEAN /\ user \in Users
      /\ pass \in Passwords \union {Htpasswd!None} /\ file \in FileStates /\ out \in FileStates
      /\ (out.ended \/ out.lines # <<>>)
  BY <1>1 DEF PasswordsInv, PasswordTypes
<1>3. this \in AnyLines /\ ended \in BOOLEAN /\ at + 1 \in Nat /\ at + 1 <= Len(file.lines)
      /\ this.user \in Users \union {"other"}
  <2>1. file.lines \in Seq(AnyLines) /\ file.ended \in BOOLEAN
    BY <1>2 DEF FileStates
  <2>2. at + 1 \in 1 .. Len(file.lines) /\ at + 1 \in Nat /\ at + 1 <= Len(file.lines)
    BY <1>1, <1>2, <2>1
  <2>3. this \in AnyLines
    BY <2>1, <2>2
  <2>4. (at + 1 < Len(file.lines)) \in BOOLEAN
    OBVIOUS
  <2> QED
    BY <2>1, <2>2, <2>3, <2>4 DEF AnyLines
<1>4. Htpasswd!Record(user, pass) \in AnyLines /\ Htpasswd!Record(user, pass).user = user
      /\ Htpasswd!Record(user, pass).pass = pass
  BY <1>2 DEF Htpasswd!Record, AnyLines
<1>5. user # "other"
  BY <1>2 DEF Htpasswd!MgPasswordsAssumption
<1>6. /\ Sound => before.ended /\ file = before /\ Copying /\ out.ended /\ (ended <=> TRUE)
      /\ Sound' => Sound
  BY <1>1 DEF PasswordsInv, CallStages, Copying, Sound
<1>7. ASSUME out' \in FileStates, out'.ended \/ out'.lines # <<>>, found' \in BOOLEAN,
             Sound => Copying'
      PROVE  PasswordsInv'
  <2>1. PasswordTypes'
    BY <1>1, <1>2, <1>3, <1>7 DEF PasswordTypes
  <2>2. Sound => CallStages'
    BY <1>1, <1>6, <1>7 DEF CallStages
  <2> QED
    BY <1>6, <2>1, <2>2 DEF PasswordsInv
<1>8. CASE this.user = "other"
  <2>1. Sound => Copying'
    <3> SUFFICES ASSUME Sound PROVE Copying'
      OBVIOUS
    <3>1. before.lines[at + 1].user \notin Users \ {user}
      BY <1>6, <1>8 DEF Htpasswd!MgPasswordsAssumption
    <3> QED
      BY <1>1, <1>2, <1>3, <1>6, <1>8, <3>1, CopyingMore
  <2> QED
    BY <1>1, <1>2, <1>7, <1>8, <2>1
<1>9. CASE this.user = user /\ pass = Htpasswd!None
  <2>1. found' = TRUE /\ out' = out
    BY <1>1, <1>5, <1>9
  <2>2. Sound => Copying'
    <3> SUFFICES ASSUME Sound PROVE Copying'
      OBVIOUS
    <3>1. before.lines[at + 1].user \notin Users \ {user}
      BY <1>6, <1>9
    <3> QED
      BY <1>1, <1>2, <1>3, <1>6, <1>9, <2>1, <3>1, CopyingMore
  <2> QED
    BY <1>2, <1>7, <2>1, <2>2
<1>10. CASE this.user = user /\ pass # Htpasswd!None
  <2> DEFINE l == Htpasswd!Record(user, pass)
  <2>1. found' = TRUE /\ out' = Htpasswd!Written(out, l, TRUE)
    BY <1>1, <1>5, <1>10
  <2>2. /\ out' \in FileStates /\ out'.lines # <<>> /\ out'.ended
        /\ out.ended => out'.lines = Append(out.lines, l)
    BY <1>2, <1>4, <2>1, WrittenIsFile
  <2>3. Sound => Copying'
    <3> SUFFICES ASSUME Sound PROVE Copying'
      OBVIOUS
    <3>1. before.lines[at + 1].user \notin Users \ {user} /\ l.user \notin Users \ {user}
      BY <1>4, <1>6, <1>10
    <3> HIDE DEF l
    <3> QED
      BY <1>1, <1>2, <1>4, <1>6, <1>10, <2>1, <2>2, <3>1, CopyingMore DEF l
  <2> QED
    BY <1>7, <2>1, <2>2, <2>3
<1>11. CASE this.user # "other" /\ this.user # user
  <2>1. out' = Htpasswd!Written(out, this, ended) /\ found' = found
    BY <1>1, <1>11
  <2>2. /\ out' \in FileStates /\ out'.lines # <<>> /\ out'.ended = ended
        /\ out.ended => out'.lines = Append(out.lines, this)
    <3> HIDE DEF this, ended
    <3> QED
      BY <1>2, <1>3, <2>1, WrittenIsFile
  <2>3. Sound => Copying'
    <3> SUFFICES ASSUME Sound PROVE Copying'
      OBVIOUS
    <3>1. before.lines[at + 1].user \in Users \ {user} /\ this = before.lines[at + 1]
      BY <1>3, <1>6, <1>11
    <3>2. out'.ended /\ out'.lines = Append(out.lines, this)
      BY <1>6, <2>2
    <3> HIDE DEF this
    <3> QED
      BY <1>1, <1>2, <1>3, <1>6, <1>11, <2>1, <2>2, <3>1, <3>2, CopyingMore
  <2> QED
    BY <1>2, <1>7, <2>1, <2>2, <2>3
<1> QED
  BY <1>8, <1>9, <1>10, <1>11

\* The whole of the old file, and a record for a new user
LEMMA AddKeeps ==
  ASSUME Htpasswd!MgPasswordsAssumption, PasswordsInv, Htpasswd!Add PROVE PasswordsInv'
<1>1. /\ pc = "copy" /\ at = Len(file.lines) /\ pc' = "close"
      /\ out' = IF ~ found /\ pass # Htpasswd!None
                  THEN Htpasswd!Written(out, Htpasswd!Record(user, pass), TRUE) ELSE out
      /\ UNCHANGED <<file, tmp, user, pass, at, found, before, short, lost, calls>>
  BY DEF Htpasswd!Add
<1>2. PasswordTypes /\ user \in Users /\ out \in FileStates /\ (out.ended \/ out.lines # <<>>)
      /\ pass \in Passwords \union {Htpasswd!None} /\ found \in BOOLEAN
      /\ before \in FileStates /\ (Sound' => Sound)
  BY <1>1 DEF PasswordsInv, PasswordTypes, Sound
<1>3. PICK l \in AnyLines : l = Htpasswd!Record(user, pass) /\ l.user = user /\ l.pass = pass
  <2>1. Htpasswd!Record(user, pass) \in AnyLines
    BY <1>2 DEF Htpasswd!Record, AnyLines
  <2>2. Htpasswd!Record(user, pass).user = user /\ Htpasswd!Record(user, pass).pass = pass
    BY DEF Htpasswd!Record
  <2> QED
    BY <2>1, <2>2
<1>4. CASE ~ found /\ pass # Htpasswd!None
  <2>1. /\ out' \in FileStates /\ out'.lines # <<>> /\ out'.ended
        /\ out.ended => out'.lines = Append(out.lines, l)
    <3>1. out' = Htpasswd!Written(out, l, TRUE)
      BY <1>1, <1>3, <1>4
    <3> QED
      BY <1>2, <3>1, WrittenIsFile
  <2>2. PasswordTypes'
    BY <1>1, <1>2, <2>1 DEF PasswordTypes
  <2>3. ASSUME Sound PROVE Htpasswd!Changed(out)'
    <3>1. Copying /\ file = before /\ out'.lines = Append(out.lines, l)
      BY <1>1, <2>1, <2>3 DEF PasswordsInv, CallStages, Copying
    <3> DEFINE s == out.lines
               N == Len(s)
    <3>2. s \in Seq(AnyLines) /\ N \in Nat /\ before.lines \in Seq(AnyLines)
      BY <1>2 DEF FileStates
    <3>3. SubSeq(before.lines, 1, at) = before.lines
      BY <1>1, <3>1, <3>2
    <3>4. /\ Len(out'.lines) = N + 1 /\ out'.lines[N + 1] = l
          /\ \A i \in 1 .. N : out'.lines[i] = s[i]
          /\ \A i \in 1 .. N + 1 : i \in 1 .. N \/ i = N + 1
          /\ N + 1 \in 1 .. N + 1
      BY <3>1, <3>2
    <3>5. ASSUME NEW u \in Users \ {user}
          PROVE  Htpasswd!LinesOf(out'.lines, u) = Htpasswd!LinesOf(before.lines, u)
      <4>1. Htpasswd!LinesOf(s, u) = Htpasswd!LinesOf(before.lines, u)
        BY <3>1, <3>3 DEF Copying
      <4>2. l.user # u
        BY <1>3
      <4>3. Htpasswd!LinesOf(out'.lines, u) = Htpasswd!LinesOf(s, u)
        <5> HIDE DEF s
        <5>1. out'.lines = Append(s, l)
          BY <3>1 DEF s
        <5> QED
          BY <3>2, <4>2, <5>1, LinesOfMore
      <4> QED
        BY <4>1, <4>3
    <3>6. \A i \in 1 .. N : s[i].user = user => s[i].pass = pass
      BY <3>1 DEF Copying
    <3> HIDE DEF s, N
    <3>7. /\ \A i \in 1 .. N + 1 : out'.lines[i].user = user => out'.lines[i].pass = pass
          /\ \E i \in 1 .. N + 1 : out'.lines[i].user = user
      BY <1>3, <3>4, <3>6
    <3> QED
      BY <1>1, <1>4, <2>1, <3>4, <3>5, <3>7, ChangedNext
  <2>4. Sound => CallStages'
    BY <1>1, <2>3 DEF PasswordsInv, CallStages
  <2> QED
    BY <1>2, <2>2, <2>4 DEF PasswordsInv
<1>5. CASE ~ (~ found /\ pass # Htpasswd!None)
  <2>1. out' = out
    BY <1>1, <1>5
  <2>2. PasswordTypes'
    BY <1>1, <1>2, <2>1 DEF PasswordTypes
  <2>3. ASSUME Sound PROVE Htpasswd!Changed(out)
    <3>1. Copying /\ file = before
      BY <1>1, <2>3 DEF PasswordsInv, CallStages
    <3>2. SubSeq(before.lines, 1, at) = before.lines
      BY <1>1, <1>2, <3>1 DEF FileStates
    <3> QED
      BY <1>2, <1>5, <3>1, <3>2, ChangedIs DEF Copying
  <2>4. Sound => Htpasswd!Changed(out)'
    BY <1>1, <2>1, <2>3 DEF Htpasswd!Changed, Htpasswd!RecordsOf
  <2>5. Sound => CallStages'
    BY <1>1, <2>4 DEF PasswordsInv, CallStages
  <2> QED
    BY <1>2, <2>2, <2>5 DEF PasswordsInv
<1> QED
  BY <1>4, <1>5

\* A copy of which something is lost is one that can be written to.
LEMMA WriteFailsGives ==
  ASSUME PasswordTypes, Htpasswd!WriteFails
  PROVE  out' \in FileStates /\ (out'.ended \/ out'.lines # <<>>)
<1>1. /\ tmp \in FileStates /\ out \in FileStates /\ (tmp.ended \/ tmp.lines # <<>>)
      /\ tmp.lines \in Seq(AnyLines) /\ out.lines \in Seq(AnyLines)
  BY DEF PasswordTypes, FileStates
<1>2. CASE out' = tmp
  BY <1>1, <1>2
<1>3. ASSUME NEW n \in Len(tmp.lines) + 1 .. Len(out.lines),
             LET whole == SubSeq(out.lines, 1, n) IN
             \/ out' = [out EXCEPT !.lines = whole, !.ended = TRUE]
             \/ out' = [out EXCEPT !.lines = [whole EXCEPT ![n] = Htpasswd!Broken(@)],
                                   !.ended = FALSE]
      PROVE  out' \in FileStates /\ (out'.ended \/ out'.lines # <<>>)
  <2> DEFINE whole == SubSeq(out.lines, 1, n)
             cut == [whole EXCEPT ![n] = Htpasswd!Broken(@)]
  <2>1. n \in 1 .. Len(out.lines) /\ n \in Nat /\ n # 0
    BY <1>1
  <2>2. whole \in Seq(AnyLines) /\ Len(whole) = n
    BY <1>1, <2>1
  <2>3. Htpasswd!Broken(whole[n]) \in AnyLines
    <3>1. whole[n] \in AnyLines
      BY <2>1, <2>2
    <3> HIDE DEF whole
    <3> QED
      BY <3>1 DEF AnyLines, Htpasswd!Broken
  <2>4. cut \in Seq(AnyLines) /\ cut # <<>>
    <3>1. PICK l \in AnyLines : l = Htpasswd!Broken(whole[n])
      BY <2>3
    <3>2. cut = [whole EXCEPT ![n] = l]
      BY <3>1
    <3> HIDE DEF whole, cut
    <3>3. [whole EXCEPT ![n] = l] \in Seq(AnyLines) /\ Len([whole EXCEPT ![n] = l]) = n
      BY <2>1, <2>2
    <3> QED
      BY <2>1, <3>2, <3>3
  <2> HIDE DEF whole, cut
  <2>5. out' = [out EXCEPT !.lines = whole, !.ended = TRUE]
        \/ out' = [out EXCEPT !.lines = cut, !.ended = FALSE]
    BY <1>3 DEF whole, cut
  <2> QED
    BY <1>1, <2>2, <2>4, <2>5 DEF FileStates
<1> QED
  BY <1>2, <1>3 DEF Htpasswd!WriteFails

\* Every step, and a process that is stopped between two, keeps the invariant.
LEMMA PasswordsNextKeeps ==
  ASSUME Htpasswd!MgPasswordsAssumption, PasswordsInv, Htpasswd!Next PROVE PasswordsInv'
<1>0. PasswordTypes
  BY DEF PasswordsInv
<1>1. CASE Htpasswd!OpenFails
  <2>1. /\ pc = "idle" /\ UNCHANGED <<tmp, pc, user, pass, at, out, found>>
        /\ Htpasswd!Create \/ UNCHANGED <<file, before, short, lost>>
    BY <1>1 DEF Htpasswd!OpenFails
  <2>2. CASE Htpasswd!Create
    <3>1. file' \in FileStates /\ before' \in FileStates /\ (~ lost' => before' = file')
      BY <1>0, <2>2, CreateGives
    <3>2. PasswordTypes'
      BY <1>0, <2>1, <3>1 DEF PasswordTypes
    <3>3. before' = file' => CallStages'
      BY <2>1 DEF CallStages, Kept
    <3> QED
      BY <3>1, <3>2, <3>3 DEF PasswordsInv, Sound
  <2>3. CASE UNCHANGED <<file, before, short, lost>>
    <3>1. PasswordTypes'
      BY <1>0, <2>1, <2>3 DEF PasswordTypes
    <3>2. Kept => Kept'
      BY <2>1, <2>3 DEF Kept, Htpasswd!Changed, Htpasswd!RecordsOf
    <3>3. CallStages => CallStages'
      BY <2>1, <3>2 DEF CallStages
    <3> QED
      BY <2>3, <3>1, <3>3 DEF PasswordsInv, Sound
  <2> QED
    BY <2>1, <2>2, <2>3
<1>2. CASE Htpasswd!ReadFails
  <2>1. /\ pc = "copy" /\ at' = Len(file.lines) /\ short'
        /\ UNCHANGED <<file, tmp, pc, user, pass, out, found, before, lost, calls>>
    BY <1>2 DEF Htpasswd!ReadFails
  <2>2. at' \in Nat /\ at' <= Len(file'.lines)
    BY <1>0, <2>1 DEF PasswordTypes, FileStates
  <2>3. PasswordTypes'
    BY <1>0, <2>1, <2>2 DEF PasswordTypes
  <2> QED
    BY <2>1, <2>3 DEF PasswordsInv, Sound
<1>3. CASE Htpasswd!Flush
  <2>1. /\ pc \in {"copy", "close", "remove", "rename"} /\ tmp' = out
        /\ UNCHANGED <<file, pc, user, pass, at, out, found, before, short, lost, calls>>
    BY <1>3 DEF Htpasswd!Flush
  <2>2. PasswordTypes'
    BY <1>0, <2>1 DEF PasswordTypes
  <2>3. Htpasswd!Changed(out) => Htpasswd!Changed(out)'
    BY <2>1 DEF Htpasswd!Changed, Htpasswd!RecordsOf
  <2>4. Copying => Copying'
    BY <2>1 DEF Copying
  <2>5. CallStages => CallStages'
    BY <2>1, <2>3, <2>4 DEF CallStages
  <2> QED
    BY <2>1, <2>2, <2>5 DEF PasswordsInv, Sound
<1>4. CASE Htpasswd!WriteFails
  <2>1. /\ pc \in {"copy", "close"} /\ short' /\ tmp' = out'
        /\ UNCHANGED <<file, pc, user, pass, at, found, before, lost, calls>>
    BY <1>4 DEF Htpasswd!WriteFails
  <2>2. out' \in FileStates /\ (out'.ended \/ out'.lines # <<>>)
    BY <1>0, <1>4, WriteFailsGives
  <2>3. PasswordTypes'
    BY <1>0, <2>1, <2>2 DEF PasswordTypes
  <2> QED
    BY <2>1, <2>3 DEF PasswordsInv, Sound
<1>5. CASE Htpasswd!Close
  <2>1. /\ pc = "close" /\ pc' = "remove" /\ tmp' = out
        /\ UNCHANGED <<file, user, pass, at, out, found, before, short, lost, calls>>
    BY <1>5 DEF Htpasswd!Close
  <2>2. PasswordTypes'
    BY <1>0, <2>1 DEF PasswordTypes
  <2>3. Htpasswd!Changed(out) => Htpasswd!Changed(out)'
    BY <2>1 DEF Htpasswd!Changed, Htpasswd!RecordsOf
  <2>4. CallStages => CallStages'
    BY <2>1, <2>3 DEF CallStages
  <2> QED
    BY <2>1, <2>2, <2>4 DEF PasswordsInv, Sound
<1>6. CASE Htpasswd!RemoveFile
  <2>1. /\ pc = "remove" /\ pc' = "rename" /\ file' \in {Htpasswd!NoFile, file}
        /\ UNCHANGED <<tmp, user, pass, at, out, found, before, short, lost, calls>>
    BY <1>6 DEF Htpasswd!RemoveFile
  <2>2. PasswordTypes'
    BY <1>0, <2>1, NoFileIsFile DEF PasswordTypes
  <2>3. Htpasswd!Changed(out) => Htpasswd!Changed(out)'
    BY <2>1 DEF Htpasswd!Changed, Htpasswd!RecordsOf
  <2>4. file' = file \/ ~ file'.there
    BY <2>1, NoFileIsFile
  <2>5. CallStages => CallStages'
    BY <2>1, <2>3, <2>4 DEF CallStages
  <2> QED
    BY <2>1, <2>2, <2>5 DEF PasswordsInv, Sound
<1>7. CASE Htpasswd!Rename
  <2>1. /\ pc = "rename" /\ pc' = "idle"
        /\ (file' = tmp /\ tmp' = Htpasswd!NoFile) \/ UNCHANGED <<file, tmp>>
        /\ UNCHANGED <<user, pass, at, out, found, before, short, lost, calls>>
    BY <1>7 DEF Htpasswd!Rename
  <2>2. PasswordTypes'
    BY <1>0, <2>1, NoFileIsFile DEF PasswordTypes
  <2>3. CallStages => /\ tmp = out /\ Htpasswd!Changed(out)
                      /\ file = before \/ ~ file.there
    BY <2>1 DEF CallStages
  <2>4. CASE file' = tmp
    <3>1. CallStages => Htpasswd!Changed(file)'
      BY <2>1, <2>3, <2>4 DEF Htpasswd!Changed, Htpasswd!RecordsOf
    <3>2. CallStages => CallStages'
      BY <2>1, <3>1 DEF CallStages, Kept
    <3> QED
      BY <2>1, <2>2, <3>2 DEF PasswordsInv, Sound
  <2>5. CASE UNCHANGED <<file, tmp>>
    <3>1. CallStages => Htpasswd!Changed(tmp)'
      BY <2>1, <2>3, <2>5 DEF Htpasswd!Changed, Htpasswd!RecordsOf
    <3>2. CallStages => CallStages'
      BY <2>1, <2>3, <2>5, <3>1 DEF CallStages, Kept
    <3> QED
      BY <2>1, <2>2, <3>2 DEF PasswordsInv, Sound
  <2> QED
    BY <2>1, <2>4, <2>5
<1>8. CASE Htpasswd!Crash
  <2>1. /\ pc # "idle" /\ pc' = "idle"
        /\ UNCHANGED <<file, tmp, user, pass, at, out, found, before, short, lost, calls>>
    BY <1>8 DEF Htpasswd!Crash
  <2>2. PasswordTypes'
    BY <1>0, <2>1 DEF PasswordTypes
  <2>3. CASE pc = "rename"
    <3>1. CallStages => /\ file = before \/ ~ file'.there
                        /\ tmp = out /\ Htpasswd!Changed(out)
      BY <2>1, <2>3 DEF CallStages
    <3>2. CallStages => Htpasswd!Changed(tmp)'
      BY <2>1, <3>1 DEF Htpasswd!Changed, Htpasswd!RecordsOf
    <3>3. CallStages => CallStages'
      BY <2>1, <3>1, <3>2 DEF CallStages, Kept
    <3> QED
      BY <2>1, <2>2, <3>3 DEF PasswordsInv, Sound
  <2>4. CASE pc # "rename"
    <3>1. pc \in {"copy", "close", "remove"}
      BY <1>0, <2>1, <2>4 DEF PasswordTypes
    <3>2. CallStages => file' = before'
      BY <2>1, <3>1 DEF CallStages
    <3>3. CallStages => CallStages'
      BY <2>1, <3>2 DEF CallStages, Kept
    <3> QED
      BY <2>1, <2>2, <3>3 DEF PasswordsInv, Sound
  <2> QED
    BY <2>3, <2>4
<1> QED
  BY <1>1, <1>2, <1>3, <1>4, <1>5, <1>6, <1>7, <1>8, BeginKeeps, CopyKeeps, AddKeeps
     DEF Htpasswd!Next

\* At any time the file is the old one or the new one.
LEMMA PasswordsAreRight == ASSUME PasswordsInv PROVE Htpasswd!OldOrNew
<1> SUFFICES ASSUME Sound PROVE Kept
  BY DEF Htpasswd!OldOrNew, Sound, Kept
<1>1. CallStages /\ pc \in {"idle", "copy", "close", "remove", "rename"}
  BY DEF PasswordsInv, PasswordTypes
<1>2. CASE pc = "idle"
  BY <1>1, <1>2 DEF CallStages
<1>3. CASE pc = "rename"
  <2>1. (file = before \/ ~ file.there) /\ tmp = out /\ Htpasswd!Changed(out)
    BY <1>1, <1>3 DEF CallStages
  <2>2. Htpasswd!Changed(tmp)
    BY <2>1
  <2> QED
    BY <2>1, <2>2 DEF Kept
<1>4. CASE pc \in {"copy", "close", "remove"}
  BY <1>1, <1>4 DEF CallStages, Kept
<1> QED
  BY <1>1, <1>2, <1>3, <1>4

-----------------------------------------------------------------------------
(* The environment of a program.                                           *)

\* What a character of the block is, of a string that was added
Stands(c, t, k) ==
  /\ c # CgiEnv!End
  /\ c = t[k] \/ (c = CgiEnv!Upper(t[k]) /\ \A j \in 1 .. k : t[j] # "=")

\* A string that was added stands at a place of the block, and is ended.
StandsAt(b, p, t) ==
  /\ \A k \in 1 .. Len(t) : Stands(b[p + (k - 1)], t, k)
  /\ b[p + Len(t)] = CgiEnv!End

EnvTypes ==
  /\ pc \in {"request", "headers", "user", "done"}
  /\ buf \in [0 .. Size - 1 -> CgiEnv!Chars \union {CgiEnv!End}]
  /\ vars \in [0 .. MaxVars - 1 -> Int] /\ len \in Nat /\ nvars \in Nat
  /\ kept \in Seq(Seq(CgiEnv!Chars))

\* Where the strings end
Used == IF pc = "done" THEN len - 1 ELSE len

EnvRoom ==
  IF pc = "done" THEN /\ nvars = Len(kept) + 1 /\ nvars < MaxVars /\ vars[nvars - 1] = -1
                      /\ len > 0 /\ len < Size /\ buf[len - 1] = CgiEnv!End
  ELSE nvars = Len(kept) /\ nvars + 2 <= MaxVars /\ len + 3 <= Size

\* Each string stands behind the one before.
EnvBlock ==
  /\ \A i \in 1 .. Len(kept) :
       /\ vars[i - 1] \in Nat /\ vars[i - 1] + Len(kept[i]) < Used
       /\ StandsAt(buf, vars[i - 1], kept[i])
       /\ vars[i - 1] = IF i = 1 THEN 0 ELSE vars[i - 2] + (Len(kept[i - 1]) + 1)
  /\ Used = IF Len(kept) = 0 THEN 0 ELSE vars[Len(kept) - 1] + (Len(kept[Len(kept)]) + 1)

EnvInv == EnvTypes /\ EnvRoom /\ EnvBlock

\* The string before another one
LEMMA TheOneBefore ==
  ASSUME NEW N \in Nat, NEW i \in 1 .. N, i # 1 PROVE i - 2 \in 0 .. N - 1 /\ i - 1 \in 1 .. N
OBVIOUS

\* The block is empty.
LEMMA EnvInitHolds ==
  ASSUME CgiEnv!MgCgiEnvAssumption, CgiEnv!Init PROVE EnvInv
<1>1. /\ pc = "request" /\ buf = [i \in 0 .. Size - 1 |-> "?"]
      /\ len = 0 /\ vars = [i \in 0 .. MaxVars - 1 |-> -2] /\ nvars = 0 /\ kept = <<>>
  BY DEF CgiEnv!Init
<1>2. EnvTypes
  <2>1. "?" \in CgiEnv!Chars
    BY DEF CgiEnv!Chars
  <2>2. buf \in [0 .. Size - 1 -> CgiEnv!Chars \union {CgiEnv!End}]
    BY <1>1, <2>1
  <2>3. vars \in [0 .. MaxVars - 1 -> Int]
    BY <1>1
  <2> QED
    BY <1>1, <2>2, <2>3, EmptySequence DEF EnvTypes
<1>3. Len(kept) = 0
  BY <1>1
<1>4. EnvRoom
  BY <1>1, <1>3 DEF EnvRoom, CgiEnv!MgCgiEnvAssumption
<1>5. EnvBlock
  BY <1>1, <1>3 DEF EnvBlock, Used
<1> QED
  BY <1>2, <1>4, <1>5 DEF EnvInv

LEMMA EnvStutterKeeps ==
  ASSUME EnvInv, UNCHANGED <<pc, buf, len, vars, nvars, kept>> PROVE EnvInv'
BY DEF EnvInv, EnvTypes, EnvRoom, EnvBlock, Used

\* What is added was formatted whole.
LEMMA AddedIsWhole ==
  ASSUME NEW s \in Seq(CgiEnv!Chars), len \in Nat, Size \in Nat, len + 3 <= Size
  PROVE  /\ CgiEnv!Formatted(s) \in Seq(CgiEnv!Chars)
         /\ len + Len(CgiEnv!Formatted(s)) < Size - 2
         /\ CgiEnv!Added(s) => CgiEnv!Formatted(s) = s
<1> DEFINE f == CgiEnv!Formatted(s)
<1>1. PICK p \in Nat : p = CgiEnv!Space /\ p > 0 /\ len + p = Size - 2
  BY DEF CgiEnv!Space
<1>2. CASE Len(s) < p
  <2>1. f = s
    BY <1>1, <1>2 DEF CgiEnv!Formatted
  <2>2. Len(s) \in Nat
    OBVIOUS
  <2>3. len + Len(s) < Size - 2
    BY <1>1, <1>2, <2>2
  <2> QED
    BY <2>1, <2>3
<1>3. CASE ~ (Len(s) < p)
  <2>1. f = SubSeq(s, 1, p - 1)
    BY <1>1, <1>3 DEF CgiEnv!Formatted
  <2>2. Len(s) \in Nat /\ p - 1 \in 0 .. Len(s)
    BY <1>1, <1>3
  <2>3. SubSeq(s, 1, p - 1) \in Seq(CgiEnv!Chars) /\ Len(SubSeq(s, 1, p - 1)) = p - 1
    BY <2>2
  <2>4. len + (p - 1) < Size - 2 /\ ~ ((p - 1) + 1 < p)
    BY <1>1
  <2>5. ~ CgiEnv!Added(s)
    <3> HIDE DEF f
    <3>1. Len(f) = p - 1
      BY <2>1, <2>3
    <3>2. ~ (Len(f) + 1 < p)
      BY <2>4, <3>1
    <3> QED
      BY <1>1, <3>2 DEF CgiEnv!Added, f
  <2> QED
    BY <2>1, <2>3, <2>4, <2>5
<1> QED
  BY <1>2, <1>3

BlockStates == [0 .. Size - 1 -> CgiEnv!Chars \union {CgiEnv!End}]

\* What is formatted stands behind what there is.
LEMMA PutStands ==
  ASSUME NEW s \in Seq(CgiEnv!Chars), NEW b \in BlockStates, len \in Nat, Size \in Nat,
         len + Len(s) < Size
  PROVE  LET q == CgiEnv!Put(b, s) IN
         /\ q \in BlockStates
         /\ \A i \in 0 .. Size - 1 : i < len => q[i] = b[i]
         /\ \A k \in 1 .. Len(s) : q[len + (k - 1)] = s[k]
         /\ q[len + Len(s)] = CgiEnv!End
<1> DEFINE L == Len(s)
           q == CgiEnv!Put(b, s)
<1>1. L \in Nat /\ DOMAIN b = 0 .. Size - 1 /\ \A k \in 1 .. L : s[k] \in CgiEnv!Chars
  BY DEF BlockStates
<1>2. /\ DOMAIN q = 0 .. Size - 1
      /\ \A i \in 0 .. Size - 1 :
           q[i] = IF i >= len /\ i < len + L THEN s[i - len + 1]
                  ELSE IF i = len + L THEN CgiEnv!End ELSE b[i]
      /\ q = [i \in 0 .. Size - 1 |-> q[i]]
  BY <1>1 DEF CgiEnv!Put
<1> HIDE DEF q
<1>3. ASSUME NEW i \in 0 .. Size - 1 PROVE q[i] \in CgiEnv!Chars \union {CgiEnv!End}
  <2>1. CASE i >= len /\ i < len + L
    <3>1. i - len + 1 \in 1 .. L
      BY <1>1, <2>1
    <3> QED
      BY <1>1, <1>2, <2>1, <3>1
  <2>2. CASE ~ (i >= len /\ i < len + L)
    <3>1. b[i] \in CgiEnv!Chars \union {CgiEnv!End}
      BY DEF BlockStates
    <3> QED
      BY <1>2, <2>2, <3>1
  <2> QED
    BY <2>1, <2>2
<1>4. q \in BlockStates
  BY <1>2, <1>3 DEF BlockStates
<1>5. \A i \in 0 .. Size - 1 : i < len => q[i] = b[i]
  BY <1>1, <1>2
<1>6. ASSUME NEW k \in 1 .. L PROVE q[len + (k - 1)] = s[k]
  <2>1. /\ len + (k - 1) \in 0 .. Size - 1 /\ len + (k - 1) >= len /\ len + (k - 1) < len + L
        /\ len + (k - 1) - len + 1 = k
    BY <1>1
  <2> QED
    BY <1>2, <2>1
<1>7. q[len + L] = CgiEnv!End
  <2>1. len + L \in 0 .. Size - 1 /\ ~ (len + L < len + L)
    BY <1>1
  <2> QED
    BY <1>2, <2>1
<1> QED
  BY <1>4, <1>5, <1>6, <1>7 DEF q

\* A capital is a character.
LEMMA UpperIsChar ==
  ASSUME NEW c \in CgiEnv!Chars
  PROVE  CgiEnv!Upper(c) \in CgiEnv!Chars /\ CgiEnv!Upper(c) # CgiEnv!End /\ c # CgiEnv!End
BY DEF CgiEnv!Chars, CgiEnv!Upper, CgiEnv!End

\* Before the "=" capitals may stand; the end stays.
LEMMA CapitalsStand ==
  ASSUME NEW s \in Seq(CgiEnv!Chars), NEW b \in BlockStates, len \in Nat, Size \in Nat,
         len + Len(s) < Size,
         \A k \in 1 .. Len(s) : b[len + (k - 1)] = s[k],
         b[len + Len(s)] = CgiEnv!End
  PROVE  LET q == CgiEnv!Capitals(b) IN
         /\ q \in BlockStates
         /\ \A i \in 0 .. Size - 1 : i < len => q[i] = b[i]
         /\ StandsAt(q, len, s)
<1> DEFINE L == Len(s)
           stops == {i \in 0 .. Size - 1 : i >= len /\ b[i] \in {"=", CgiEnv!End}}
           q == CgiEnv!Capitals(b)
<1>1. L \in Nat /\ DOMAIN b = 0 .. Size - 1 /\ \A k \in 1 .. L : s[k] \in CgiEnv!Chars
  BY DEF BlockStates
<1>2. /\ DOMAIN q = 0 .. Size - 1
      /\ \A i \in 0 .. Size - 1 :
           q[i] = IF i >= len /\ \A j \in stops : i < j THEN CgiEnv!Upper(b[i]) ELSE b[i]
      /\ q = [i \in 0 .. Size - 1 |-> q[i]]
  BY <1>1 DEF CgiEnv!Capitals
<1> HIDE DEF q
<1>3. ASSUME NEW i \in 0 .. Size - 1 PROVE q[i] \in CgiEnv!Chars \union {CgiEnv!End}
  <2>1. b[i] \in CgiEnv!Chars \union {CgiEnv!End}
    BY DEF BlockStates
  <2>2. CgiEnv!Upper(b[i]) \in CgiEnv!Chars \union {CgiEnv!End}
    BY <2>1, UpperIsChar DEF CgiEnv!Upper, CgiEnv!End
  <2> HIDE DEF stops
  <2> QED
    BY <1>2, <2>1, <2>2
<1>4. q \in BlockStates
  BY <1>2, <1>3 DEF BlockStates
<1>5. \A i \in 0 .. Size - 1 : i < len => q[i] = b[i]
  <2>1. \A i \in 0 .. Size - 1 : i < len => ~ (i >= len)
    OBVIOUS
  <2> HIDE DEF stops
  <2> QED
    BY <1>2, <2>1
<1>6. ASSUME NEW k \in 1 .. L PROVE Stands(q[len + (k - 1)], s, k)
  <2>1. len + (k - 1) \in 0 .. Size - 1 /\ b[len + (k - 1)] = s[k] /\ s[k] \in CgiEnv!Chars
    BY <1>1
  <2>2. CASE \A j \in stops : len + (k - 1) < j
    <3>1. ASSUME NEW j \in 1 .. k, s[j] = "=" PROVE FALSE
      <4>1. /\ j \in 1 .. L /\ len + (j - 1) \in 0 .. Size - 1 /\ len + (j - 1) >= len
            /\ ~ (len + (k - 1) < len + (j - 1))
        BY <1>1
      <4>2. b[len + (j - 1)] = "="
        BY <3>1, <4>1
      <4>3. len + (j - 1) \in stops
        BY <4>1, <4>2
      <4> QED
        BY <2>2, <4>1, <4>3
    <3>2. q[len + (k - 1)] = CgiEnv!Upper(s[k]) \/ q[len + (k - 1)] = s[k]
      BY <1>2, <2>1
    <3> QED
      BY <2>1, <3>1, <3>2, UpperIsChar DEF Stands
  <2>3. CASE ~ \A j \in stops : len + (k - 1) < j
    <3>1. q[len + (k - 1)] = s[k]
      BY <1>2, <2>1, <2>3
    <3> QED
      BY <2>1, <3>1, UpperIsChar DEF Stands
  <2> QED
    BY <2>2, <2>3
<1>7. q[len + L] = CgiEnv!End
  <2>1. len + L \in 0 .. Size - 1 /\ len + L >= len /\ ~ (len + L < len + L)
    BY <1>1
  <2>2. len + L \in stops
    BY <2>1
  <2>3. ~ \A j \in stops : len + L < j
    BY <2>1, <2>2
  <2> QED
    BY <1>2, <2>1, <2>3
<1> QED
  BY <1>4, <1>5, <1>6, <1>7 DEF q, StandsAt

\* What stands before the end of a block stands in one that is the same up to there.
LEMMA StandsStill ==
  ASSUME NEW t \in Seq(CgiEnv!Chars), NEW b, NEW c, NEW p \in Nat, NEW e \in Nat,
         p + Len(t) < e, \A i \in Nat : i < e => b[i] = c[i], StandsAt(b, p, t)
  PROVE  StandsAt(c, p, t)
<1>1. Len(t) \in Nat /\ p + Len(t) \in Nat
  OBVIOUS
<1>2. \A k \in 1 .. Len(t) : p + (k - 1) \in Nat /\ p + (k - 1) < e
  BY <1>1
<1> QED
  BY <1>1, <1>2 DEF StandsAt

\* A string is added behind the others, and so is where it starts.
LEMMA EnvAddKeeps ==
  ASSUME CgiEnv!MgCgiEnvAssumption, EnvInv, pc # "done",
         pc' \in {"request", "headers", "user"},
         NEW s \in Strings, NEW b \in BlockStates,
         \A i \in 0 .. Size - 1 : i < len => b[i] = buf[i],
         CgiEnv!Added(s) => CgiEnv!Formatted(s) = s /\ StandsAt(b, len, s),
         CgiEnv!AddEnv(s, b)
  PROVE  EnvInv'
<1> DEFINE N == Len(kept)
           L == Len(s)
<1>1. /\ s \in Seq(CgiEnv!Chars) /\ L \in Nat /\ Size \in Nat /\ MaxVars \in Nat
      /\ kept \in Seq(Seq(CgiEnv!Chars)) /\ N \in Nat /\ nvars = N /\ N + 2 <= MaxVars
      /\ len \in Nat /\ len + 3 <= Size /\ vars \in [0 .. MaxVars - 1 -> Int]
      /\ \A i \in 1 .. N : kept[i] \in Seq(CgiEnv!Chars) /\ Len(kept[i]) \in Nat
  BY DEF CgiEnv!MgCgiEnvAssumption, EnvInv, EnvTypes, EnvRoom
<1>2. /\ \A i \in 1 .. N :
           /\ vars[i - 1] \in Nat /\ vars[i - 1] + Len(kept[i]) < len
           /\ StandsAt(buf, vars[i - 1], kept[i])
           /\ vars[i - 1] = IF i = 1 THEN 0 ELSE vars[i - 2] + (Len(kept[i - 1]) + 1)
      /\ len = IF N = 0 THEN 0 ELSE vars[N - 1] + (Len(kept[N]) + 1)
  BY DEF EnvInv, EnvBlock, Used
<1>3. pc' # "done" /\ pc' \in {"request", "headers", "user", "done"} /\ Used' = len'
  BY DEF Used
<1>4. buf' = b /\ buf' \in [0 .. Size - 1 -> CgiEnv!Chars \union {CgiEnv!End}]
  BY DEF CgiEnv!AddEnv, BlockStates
<1>5. \A i \in Nat : i < len => buf[i] = b[i]
  <2>1. \A i \in Nat : i < len => i \in 0 .. Size - 1
    BY <1>1
  <2> QED
    BY <2>1
<1>6. \A i \in 1 .. N : StandsAt(b, vars[i - 1], kept[i])
  <2> SUFFICES ASSUME NEW i \in 1 .. N PROVE StandsAt(b, vars[i - 1], kept[i])
    OBVIOUS
  <2>1. PICK p \in Nat, t \in Seq(CgiEnv!Chars) : p = vars[i - 1] /\ t = kept[i]
    BY <1>1, <1>2
  <2>2. p + Len(t) < len /\ StandsAt(buf, p, t)
    BY <1>2, <2>1
  <2>3. StandsAt(b, p, t)
    BY <1>1, <1>5, <2>2, StandsStill
  <2> QED
    BY <2>1, <2>3
<1>7. CASE ~ CgiEnv!Added(s)
  <2>1. UNCHANGED <<vars, nvars, len, kept>>
    BY <1>7 DEF CgiEnv!AddEnv
  <2>2. EnvTypes'
    BY <1>1, <1>3, <1>4, <2>1 DEF EnvTypes
  <2>3. EnvRoom'
    BY <1>1, <1>3, <2>1 DEF EnvRoom
  <2>4. EnvBlock'
    BY <1>2, <1>3, <1>4, <1>6, <2>1 DEF EnvBlock
  <2> QED
    BY <2>2, <2>3, <2>4 DEF EnvInv
<1>8. CASE CgiEnv!Added(s)
  <2>1. /\ vars' = [vars EXCEPT ![N] = len] /\ nvars' = N + 1
        /\ len' = len + L + 1 /\ kept' = Append(kept, s)
        /\ CgiEnv!Formatted(s) = s /\ StandsAt(b, len, s)
    BY <1>1, <1>8 DEF CgiEnv!AddEnv
  <2>2. N + 3 <= MaxVars /\ len + L + 4 <= Size
    <3>1. N < MaxVars - 2 /\ L + 1 < Size - len - 2
      BY <1>1, <1>8, <2>1 DEF CgiEnv!Added, CgiEnv!Space
    <3>2. L \in Nat /\ N \in Nat /\ MaxVars \in Nat /\ len \in Nat /\ Size \in Nat
      BY <1>1
    <3> HIDE DEF N, L
    <3> QED
      BY <3>1, <3>2
  <2>3. /\ kept' \in Seq(Seq(CgiEnv!Chars)) /\ Len(kept') = N + 1 /\ kept'[N + 1] = s
        /\ \A i \in 1 .. N : kept'[i] = kept[i]
    BY <1>1, <2>1
  <2>4. len' \in Nat /\ len' = len + (L + 1) /\ len < len'
    BY <1>1, <2>1
  <2>5. /\ vars' \in [0 .. MaxVars - 1 -> Int] /\ vars'[N] = len
        /\ \A i \in 0 .. N - 1 : vars'[i] = vars[i]
    BY <1>1, <2>1
  <2>6. EnvTypes'
    <3>1. nvars' \in Nat
      BY <1>1, <2>1
    <3> HIDE DEF N, L
    <3> QED
      BY <1>3, <1>4, <2>3, <2>4, <2>5, <3>1 DEF EnvTypes
  <2>7. EnvRoom'
    <3>1. nvars' = Len(kept') /\ nvars' + 2 <= MaxVars
      BY <1>1, <2>1, <2>2, <2>3
    <3>2. len' + 3 <= Size
      BY <1>1, <2>1, <2>2
    <3> QED
      BY <1>3, <3>1, <3>2 DEF EnvRoom
  <2> HIDE DEF N, L
  <2>8. ASSUME NEW i \in 1 .. N
        PROVE  /\ vars'[i - 1] \in Nat /\ vars'[i - 1] + Len(kept'[i]) < len'
               /\ StandsAt(b, vars'[i - 1], kept'[i])
               /\ vars'[i - 1] = IF i = 1 THEN 0 ELSE vars'[i - 2] + (Len(kept'[i - 1]) + 1)
    <3>0. i - 1 \in 0 .. N - 1
      BY <1>1
    <3>1. i - 1 \in 0 .. N - 1 /\ vars'[i - 1] = vars[i - 1] /\ kept'[i] = kept[i]
      BY <2>3, <2>5, <3>0
    <3>2. i # 1 => i - 2 \in 0 .. N - 1 /\ i - 1 \in 1 .. N
      BY <1>1, TheOneBefore
    <3>3. i # 1 => vars'[i - 2] = vars[i - 2] /\ kept'[i - 1] = kept[i - 1]
      BY <2>3, <2>5, <3>2
    <3>4. vars[i - 1] + Len(kept[i]) < len'
      <4>1. PICK v \in Nat, k \in Nat : v = vars[i - 1] /\ k = Len(kept[i])
        BY <1>1, <1>2
      <4>2. v + k < len
        BY <1>2, <4>1
      <4>3. len \in Nat /\ len' \in Nat /\ len < len'
        BY <1>1, <2>4
      <4>4. v + k < len'
        BY <4>2, <4>3
      <4> QED
        BY <4>1, <4>4
    <3> QED
      BY <1>2, <1>6, <3>1, <3>3, <3>4
  <2>9. /\ vars'[N] \in Nat /\ vars'[N] + Len(kept'[N + 1]) < len'
        /\ StandsAt(b, vars'[N], kept'[N + 1])
        /\ vars'[N] = IF N + 1 = 1 THEN 0 ELSE vars'[N - 1] + (Len(kept'[N]) + 1)
    <3>1. N # 0 => N - 1 \in 0 .. N - 1 /\ N \in 1 .. N
      BY <1>1
    <3>2. N # 0 => vars'[N - 1] = vars[N - 1] /\ kept'[N] = kept[N]
      BY <2>3, <2>5, <3>1
    <3>3. len + L < len'
      BY <1>1, <2>4
    <3>4. N + 1 = 1 <=> N = 0
      BY <1>1
    <3> QED
      BY <1>1, <1>2, <2>1, <2>3, <2>5, <3>2, <3>3, <3>4 DEF L
  <2>10. /\ \A i \in 1 .. N + 1 : i \in 1 .. N \/ i = N + 1
         /\ (N + 1) - 1 = N /\ (N + 1) - 2 = N - 1 /\ N + 1 # 0
    BY <1>1
  <2>11. \A i \in 1 .. N + 1 :
           /\ vars'[i - 1] \in Nat /\ vars'[i - 1] + Len(kept'[i]) < len'
           /\ StandsAt(b, vars'[i - 1], kept'[i])
           /\ vars'[i - 1] = IF i = 1 THEN 0 ELSE vars'[i - 2] + (Len(kept'[i - 1]) + 1)
    <3> SUFFICES ASSUME NEW i \in 1 .. N + 1
                 PROVE  /\ vars'[i - 1] \in Nat /\ vars'[i - 1] + Len(kept'[i]) < len'
                        /\ StandsAt(b, vars'[i - 1], kept'[i])
                        /\ vars'[i - 1] = IF i = 1 THEN 0
                                          ELSE vars'[i - 2] + (Len(kept'[i - 1]) + 1)
      OBVIOUS
    <3>1. CASE i \in 1 .. N
      BY <2>8, <3>1
    <3>2. CASE i = N + 1
      BY <2>9, <2>10, <3>2
    <3> QED
      BY <2>10, <3>1, <3>2
  <2>12. len' = IF Len(kept') = 0 THEN 0 ELSE vars'[Len(kept') - 1] + (Len(kept'[Len(kept')]) + 1)
    <3>1. len' = vars'[N] + (Len(kept'[N + 1]) + 1)
      BY <2>3, <2>4, <2>5 DEF L
    <3> QED
      BY <2>3, <2>10, <3>1
  <2>13. EnvBlock'
    BY <1>3, <1>4, <2>3, <2>11, <2>12 DEF EnvBlock
  <2> QED
    BY <2>6, <2>7, <2>13 DEF EnvInv
<1> QED
  BY <1>7, <1>8

\* addenv, as it is and with the capitals
LEMMA EnvPutKeeps ==
  ASSUME CgiEnv!MgCgiEnvAssumption, EnvInv, pc # "done",
         pc' \in {"request", "headers", "user"}, NEW s \in Strings,
         \/ CgiEnv!AddEnv(s, CgiEnv!Put(buf, CgiEnv!Formatted(s)))
         \/ CgiEnv!AddEnv(s, CgiEnv!Capitals(CgiEnv!Put(buf, CgiEnv!Formatted(s))))
  PROVE  EnvInv'
<1>1. s \in Seq(CgiEnv!Chars) /\ len \in Nat /\ Size \in Nat /\ len + 3 <= Size
      /\ buf \in BlockStates
  BY DEF CgiEnv!MgCgiEnvAssumption, EnvInv, EnvTypes, EnvRoom, BlockStates
<1>2. PICK f \in Seq(CgiEnv!Chars) :
        f = CgiEnv!Formatted(s) /\ len + Len(f) < Size - 2 /\ (CgiEnv!Added(s) => f = s)
  BY <1>1, AddedIsWhole
<1>3. len + Len(f) < Size
  BY <1>1, <1>2
<1>4. PICK q \in BlockStates :
        /\ q = CgiEnv!Put(buf, f)
        /\ \A i \in 0 .. Size - 1 : i < len => q[i] = buf[i]
        /\ \A k \in 1 .. Len(f) : q[len + (k - 1)] = f[k]
        /\ q[len + Len(f)] = CgiEnv!End
  BY <1>1, <1>3, PutStands
<1>5. StandsAt(q, len, f)
  <2>1. \A k \in 1 .. Len(f) : f[k] \in CgiEnv!Chars
    OBVIOUS
  <2> QED
    BY <1>4, <2>1, UpperIsChar DEF StandsAt, Stands
<1>6. CASE CgiEnv!AddEnv(s, q)
  BY <1>2, <1>4, <1>5, <1>6, EnvAddKeeps
<1>7. CASE CgiEnv!AddEnv(s, CgiEnv!Capitals(q))
  <2>1. PICK c \in BlockStates :
          /\ c = CgiEnv!Capitals(q) /\ StandsAt(c, len, f)
          /\ \A i \in 0 .. Size - 1 : i < len => c[i] = q[i]
    BY <1>1, <1>3, <1>4, CapitalsStand
  <2>2. \A i \in 0 .. Size - 1 : i < len => c[i] = buf[i]
    BY <1>4, <2>1
  <2> QED
    BY <1>2, <1>7, <2>1, <2>2, EnvAddKeeps
<1> QED
  BY <1>2, <1>4, <1>6, <1>7

\* The NULL and the second end
LEMMA EnvFinishKeeps ==
  ASSUME CgiEnv!MgCgiEnvAssumption, EnvInv, CgiEnv!Finish PROVE EnvInv'
<1> DEFINE N == Len(kept)
<1>1. /\ pc # "done" /\ pc' = "done" /\ kept' = kept /\ nvars' = nvars + 1 /\ len' = len + 1
      /\ vars' = [vars EXCEPT ![nvars] = -1] /\ buf' = [buf EXCEPT ![len] = CgiEnv!End]
  BY DEF CgiEnv!Finish
<1>2. /\ Size \in Nat /\ MaxVars \in Nat
      /\ kept \in Seq(Seq(CgiEnv!Chars)) /\ N \in Nat /\ nvars = N /\ N + 2 <= MaxVars
      /\ len \in Nat /\ len + 3 <= Size /\ vars \in [0 .. MaxVars - 1 -> Int]
      /\ buf \in [0 .. Size - 1 -> CgiEnv!Chars \union {CgiEnv!End}]
      /\ \A i \in 1 .. N : kept[i] \in Seq(CgiEnv!Chars) /\ Len(kept[i]) \in Nat
  BY <1>1 DEF CgiEnv!MgCgiEnvAssumption, EnvInv, EnvTypes, EnvRoom
<1>3. /\ \A i \in 1 .. N :
           /\ vars[i - 1] \in Nat /\ vars[i - 1] + Len(kept[i]) < len
           /\ StandsAt(buf, vars[i - 1], kept[i])
           /\ vars[i - 1] = IF i = 1 THEN 0 ELSE vars[i - 2] + (Len(kept[i - 1]) + 1)
      /\ len = IF N = 0 THEN 0 ELSE vars[N - 1] + (Len(kept[N]) + 1)
  BY <1>1 DEF EnvInv, EnvBlock, Used
<1>4. Used' = len
  BY <1>1, <1>2 DEF Used
<1>5. /\ vars' \in [0 .. MaxVars - 1 -> Int] /\ vars'[N] = -1
      /\ \A i \in 0 .. N - 1 : vars'[i] = vars[i]
  BY <1>1, <1>2
<1>6. /\ buf' \in [0 .. Size - 1 -> CgiEnv!Chars \union {CgiEnv!End}] /\ buf'[len] = CgiEnv!End
      /\ \A i \in Nat : i < len => buf[i] = buf'[i]
  BY <1>1, <1>2
<1>7. EnvTypes'
  BY <1>1, <1>2, <1>5, <1>6 DEF EnvTypes
<1>8. EnvRoom'
  <2>1. nvars' = N + 1 /\ nvars' < MaxVars /\ nvars' - 1 = N
    BY <1>1, <1>2
  <2>2. len' > 0 /\ len' < Size /\ len' - 1 = len
    BY <1>1, <1>2
  <2> QED
    BY <1>1, <1>5, <1>6, <2>1, <2>2 DEF EnvRoom
<1> HIDE DEF N
<1>9. \A i \in 1 .. N : /\ vars'[i - 1] = vars[i - 1]
                        /\ i # 1 => vars'[i - 2] = vars[i - 2]
  <2> SUFFICES ASSUME NEW i \in 1 .. N PROVE /\ vars'[i - 1] = vars[i - 1]
                                             /\ i # 1 => vars'[i - 2] = vars[i - 2]
    OBVIOUS
  <2>1. i - 1 \in 0 .. N - 1 /\ (i # 1 => i - 2 \in 0 .. N - 1)
    BY <1>2
  <2> QED
    BY <1>5, <2>1
<1>10. \A i \in 1 .. N : StandsAt(buf', vars[i - 1], kept[i])
  <2> SUFFICES ASSUME NEW i \in 1 .. N PROVE StandsAt(buf', vars[i - 1], kept[i])
    OBVIOUS
  <2>1. PICK p \in Nat, t \in Seq(CgiEnv!Chars) : p = vars[i - 1] /\ t = kept[i]
    BY <1>2, <1>3
  <2>2. p + Len(t) < len /\ StandsAt(buf, p, t)
    BY <1>3, <2>1
  <2>3. StandsAt(buf', p, t)
    BY <1>2, <1>6, <2>2, StandsStill
  <2> QED
    BY <2>1, <2>3
<1>11. N # 0 => vars'[N - 1] = vars[N - 1]
  <2>1. N # 0 => N - 1 \in 0 .. N - 1
    BY <1>2
  <2> QED
    BY <1>5, <2>1
<1>12. EnvBlock'
  BY <1>1, <1>3, <1>4, <1>9, <1>10, <1>11 DEF EnvBlock, N
<1> QED
  BY <1>7, <1>8, <1>12 DEF EnvInv

\* Every variable that is added, and the end, keep the invariant.
LEMMA EnvNextKeeps ==
  ASSUME CgiEnv!MgCgiEnvAssumption, EnvInv, CgiEnv!Next PROVE EnvInv'
<1>1. CASE CgiEnv!AddRequest
  <2>1. /\ pc # "done" /\ pc' \in {"request", "headers", "user"}
        /\ \E s \in Strings : CgiEnv!AddEnv(s, CgiEnv!Put(buf, CgiEnv!Formatted(s)))
    BY <1>1 DEF CgiEnv!AddRequest
  <2> QED
    BY <2>1, EnvPutKeeps
<1>2. CASE CgiEnv!AddHeader
  <2>1. /\ pc # "done" /\ pc' \in {"request", "headers", "user"}
        /\ \E s \in Strings :
             CgiEnv!AddEnv(s, CgiEnv!Capitals(CgiEnv!Put(buf, CgiEnv!Formatted(s))))
    BY <1>2 DEF CgiEnv!AddHeader
  <2> QED
    BY <2>1, EnvPutKeeps
<1>3. CASE CgiEnv!AddUser
  <2>1. /\ pc # "done" /\ pc' \in {"request", "headers", "user"}
        /\ \E s \in Strings : CgiEnv!AddEnv(s, CgiEnv!Put(buf, CgiEnv!Formatted(s)))
    BY <1>3 DEF CgiEnv!AddUser
  <2> QED
    BY <2>1, EnvPutKeeps
<1> QED
  BY <1>1, <1>2, <1>3, EnvFinishKeeps DEF CgiEnv!Next

\* From where it stands up to the end, a string that was added is found.
LEMMA StringIsFound ==
  ASSUME Size \in Nat, NEW p \in Nat, NEW t \in Seq(CgiEnv!Chars), p + Len(t) < Size,
         StandsAt(buf, p, t)
  PROVE  CgiEnv!IsButCapitals(CgiEnv!StringAt(p), t)
<1> DEFINE L == Len(t)
           Ends(j) == buf[j] = CgiEnv!End /\ \A k \in p .. j - 1 : buf[k] # CgiEnv!End
           end == CHOOSE j \in p .. Size - 1 : Ends(j)
           str == [k \in 1 .. end - p |-> buf[p + k - 1]]
<1>1. L \in Nat /\ p + L \in p .. Size - 1
  OBVIOUS
<1>2. \A k \in 1 .. L : Stands(buf[p + (k - 1)], t, k)
  BY DEF StandsAt
<1>3. Ends(p + L)
  <2>1. buf[p + L] = CgiEnv!End
    BY DEF StandsAt
  <2>2. ASSUME NEW k \in p .. (p + L) - 1 PROVE buf[k] # CgiEnv!End
    <3>1. (k - p) + 1 \in 1 .. L /\ p + (((k - p) + 1) - 1) = k
      BY <1>1
    <3> QED
      BY <1>2, <3>1 DEF Stands
  <2> QED
    BY <2>1, <2>2
<1>4. ASSUME NEW j \in p .. Size - 1, Ends(j) PROVE j = p + L
  <2>1. CASE j < p + L
    <3>1. j \in p .. (p + L) - 1
      BY <1>1, <2>1
    <3> QED
      BY <1>3, <1>4, <3>1
  <2>2. CASE p + L < j
    <3>1. p + L \in p .. j - 1
      BY <1>1, <2>2
    <3> QED
      BY <1>3, <1>4, <3>1
  <2> QED
    BY <1>1, <2>1, <2>2
<1>5. end = p + L
  <2> HIDE DEF Ends
  <2> QED
    BY <1>1, <1>3, <1>4
<1>6. CgiEnv!StringAt(p) = str
  BY DEF CgiEnv!StringAt
<1> HIDE DEF end
<1>7. end - p = L
  BY <1>1, <1>5
<1>8. DOMAIN str = 1 .. L /\ \A k \in 1 .. L : str[k] = buf[p + (k - 1)]
  <2>1. \A k \in 1 .. L : p + k - 1 = p + (k - 1)
    BY <1>1
  <2> QED
    BY <1>7, <2>1
<1>9. Len(str) = L
  <2>1. str \in [1 .. L -> {buf[p + k - 1] : k \in 1 .. L}]
    BY <1>7
  <2> HIDE DEF str, L
  <2> QED
    BY <1>1, <2>1, FunctionIsSequence
<1> HIDE DEF str
<1>10. \A k \in DOMAIN t : /\ k \in 1 .. L
                           /\ str[k] = t[k] \/ (str[k] = CgiEnv!Upper(t[k])
                                                /\ \A j \in 1 .. k : t[j] # "=")
  BY <1>2, <1>8 DEF Stands
<1>11. CgiEnv!IsButCapitals(str, t)
  BY <1>9, <1>10 DEF CgiEnv!IsButCapitals
<1> QED
  BY <1>6, <1>11

\* The block is not left, and what was added can be read from it.
LEMMA EnvIsRight ==
  ASSUME CgiEnv!MgCgiEnvAssumption, EnvInv
  PROVE  CgiEnv!EnvFits /\ CgiEnv!VariablesAreWhole /\ CgiEnv!BlockIsContiguous
<1> DEFINE N == Len(kept)
<1>0. /\ Size \in Nat /\ MaxVars \in Nat /\ len \in Nat /\ nvars \in Nat /\ N \in Nat
      /\ kept \in Seq(Seq(CgiEnv!Chars)) /\ kept # <<>> <=> N # 0
      /\ \A i \in 1 .. N : kept[i] \in Seq(CgiEnv!Chars) /\ Len(kept[i]) \in Nat
      /\ DOMAIN vars = 0 .. MaxVars - 1 /\ DOMAIN buf = 0 .. Size - 1
  BY DEF CgiEnv!MgCgiEnvAssumption, EnvInv, EnvTypes
<1>1. CgiEnv!EnvFits
  <2>1. CASE pc = "done"
    BY <1>0, <2>1 DEF EnvInv, EnvRoom, CgiEnv!EnvFits
  <2>2. CASE pc # "done"
    <3>1. nvars + 2 <= MaxVars /\ len + 3 <= Size
      BY <2>2 DEF EnvInv, EnvRoom
    <3>2. Size - len - 2 > 0 /\ nvars < MaxVars - 1
      BY <1>0, <3>1
    <3> QED
      BY <1>0, <2>2, <3>2 DEF CgiEnv!EnvFits, CgiEnv!Space
  <2> QED
    BY <2>1, <2>2
<1> SUFFICES ASSUME pc = "done" PROVE CgiEnv!VariablesAreWhole /\ CgiEnv!BlockIsContiguous
  BY <1>1 DEF CgiEnv!VariablesAreWhole, CgiEnv!BlockIsContiguous
<1>2. /\ nvars = N + 1 /\ vars[nvars - 1] = -1 /\ len > 0 /\ len < Size
      /\ buf[len - 1] = CgiEnv!End
  BY DEF EnvInv, EnvRoom
<1>3. /\ \A i \in 1 .. N :
           /\ vars[i - 1] \in Nat /\ vars[i - 1] + Len(kept[i]) < len - 1
           /\ StandsAt(buf, vars[i - 1], kept[i])
           /\ vars[i - 1] = IF i = 1 THEN 0 ELSE vars[i - 2] + (Len(kept[i - 1]) + 1)
      /\ len - 1 = IF N = 0 THEN 0 ELSE vars[N - 1] + (Len(kept[N]) + 1)
  BY DEF EnvInv, EnvBlock, Used
<1>4. CgiEnv!VariablesAreWhole
  <2>1. ASSUME NEW i \in 1 .. N PROVE CgiEnv!IsButCapitals(CgiEnv!StringAt(vars[i - 1]), kept[i])
    <3>1. PICK p \in Nat, t \in Seq(CgiEnv!Chars) : p = vars[i - 1] /\ t = kept[i]
      BY <1>0, <1>3
    <3>2. p + Len(t) < len - 1 /\ StandsAt(buf, p, t) /\ Len(t) \in Nat
      BY <1>3, <3>1
    <3>3. p + Len(t) < Size
      BY <1>0, <1>2, <3>2
    <3>4. CgiEnv!IsButCapitals(CgiEnv!StringAt(p), t)
      BY <1>0, <3>2, <3>3, StringIsFound
    <3> QED
      BY <3>1, <3>4
  <2> QED
    BY <1>2, <2>1 DEF CgiEnv!VariablesAreWhole
<1>5. CgiEnv!BlockIsContiguous
  <2>1. \A i \in 1 .. N :
          vars[i - 1] = IF i = 1 THEN 0 ELSE vars[i - 2] + Len(kept[i - 1]) + 1
    <3> SUFFICES ASSUME NEW i \in 1 .. N
                 PROVE  vars[i - 1] = IF i = 1 THEN 0 ELSE vars[i - 2] + Len(kept[i - 1]) + 1
      OBVIOUS
    <3>1. CASE i = 1
      BY <1>3, <3>1
    <3>2. CASE i # 1
      <4>1. i - 1 \in 1 .. N /\ (i - 1) - 1 = i - 2
        BY <1>0, <3>2
      <4>2. PICK v \in Nat, k \in Nat : v = vars[i - 2] /\ k = Len(kept[i - 1])
        BY <1>0, <1>3, <4>1
      <4>3. v + (k + 1) = v + k + 1
        OBVIOUS
      <4> QED
        BY <1>3, <3>2, <4>2, <4>3
    <3> QED
      BY <3>1, <3>2
  <2>2. N # 0 => vars[N - 1] + Len(kept[N]) + 1 = len - 1 /\ buf[len - 2] = CgiEnv!End
    <3> SUFFICES ASSUME N # 0
                 PROVE  vars[N - 1] + Len(kept[N]) + 1 = len - 1 /\ buf[len - 2] = CgiEnv!End
      OBVIOUS
    <3>1. N \in 1 .. N
      BY <1>0
    <3>2. PICK v \in Nat, k \in Nat : v = vars[N - 1] /\ k = Len(kept[N])
      BY <1>0, <1>3, <3>1
    <3>3. len - 1 = v + (k + 1) /\ buf[v + k] = CgiEnv!End
      BY <1>3, <3>1, <3>2 DEF StandsAt
    <3>4. v + k + 1 = len - 1 /\ v + k = len - 2
      BY <1>0, <3>3
    <3> QED
      BY <3>2, <3>3, <3>4
  <2> QED
    BY <1>0, <1>2, <2>1, <2>2 DEF CgiEnv!BlockIsContiguous
<1> QED
  BY <1>4, <1>5

-----------------------------------------------------------------------------
(* Programs.                                                               *)

\* The variables of a worker name the ends of its own that are open, and what was
\* closed was open.
EndsAreNamed ==
  /\ ~ misclosed
  /\ \A w \in Workers : \A e \in Cgi!Ends : <<w, e>> \in open <=> e \in locals[w]

\* What they name when a request begins, and when its steps close some.
StepsHaveEnds ==
  \A w \in Workers :
    /\ pc[w] \in {"idle", "pipe_in"} => locals[w] = {}
    /\ pc[w] = "pipe_out" => {"in_r", "in_w"} \subseteq locals[w]
    /\ pc[w] \in {"fork", "forked", "failed"} => Cgi!Ends \subseteq locals[w]
    /\ pc[w] \in {"streams", "post", "close"} => "in_w" \in locals[w]

\* A program runs only after its fork, and its pipes are empty until then.
ProgramsAreForked ==
  \A w \in Workers :
    /\ child[w] = "running" => pc[w] \notin {"idle", "pipe_in", "pipe_out", "fork", "failed"}
    /\ pc[w] \in {"pipe_in", "pipe_out", "fork"} =>
         in[w] = 0 /\ read[w] = 0 /\ posted[w] = 0

\* How many status lines a request has had at each of its steps.
AnswersOfStep ==
  \A w \in Workers :
    /\ pc[w] \notin {"idle", "failed", "output", "done"} => responses[w] = 0
    /\ pc[w] \in {"failed", "output"} => responses[w] = 1
    /\ pc[w] = "done" => responses[w] = IF forkFailed[w] THEN 2 ELSE 1
    /\ forkFailed[w] => pc[w] \in {"idle", "failed", "done"}
    /\ pc[w] = "failed" => forkFailed[w]

EndsInv == Cgi!TypeOK /\ EndsAreNamed /\ StepsHaveEnds
CgiInv  == EndsInv /\ ProgramsAreForked /\ AnswersOfStep

-----------------------------------------------------------------------------
(* Programs: the steps.                                                    *)

\* What every step but two leaves alone of the ends of other workers.
LEMMA CloseIsOwn ==
  ASSUME EndsInv, NEW w \in Workers, NEW ends \in SUBSET Cgi!Ends, ends \subseteq locals[w],
         Cgi!Close(w, ends), locals' = [locals EXCEPT ![w] = @ \ ends]
  PROVE  EndsAreNamed' /\ open' \subseteq Workers \X Cgi!Ends /\ misclosed' = FALSE
         /\ locals' \in [Workers -> SUBSET Cgi!Ends]
<1>1. {w} \X ends \subseteq open
  BY DEF EndsInv, EndsAreNamed, Cgi!TypeOK
<1>2. misclosed' = FALSE
  BY <1>1 DEF Cgi!Close, EndsInv, EndsAreNamed, Cgi!TypeOK
<1>3. open' \subseteq Workers \X Cgi!Ends /\ locals' \in [Workers -> SUBSET Cgi!Ends]
  BY DEF Cgi!Close, EndsInv, Cgi!TypeOK
<1>4. ASSUME NEW v \in Workers, NEW e \in Cgi!Ends PROVE <<v, e>> \in open' <=> e \in locals'[v]
  <2>1. <<v, e>> \in open <=> e \in locals[v]
    BY DEF EndsInv, EndsAreNamed
  <2>2. CASE v = w
    BY <2>1, <2>2 DEF Cgi!Close, EndsInv, Cgi!TypeOK
  <2>3. CASE v # w
    BY <2>1, <2>3 DEF Cgi!Close, EndsInv, Cgi!TypeOK
  <2> QED
    BY <2>2, <2>3
<1> QED
  BY <1>2, <1>3, <1>4 DEF EndsAreNamed

\* The steps that open and close nothing keep what is named, and an answer is the
\* first or the second.
LEMMA SameEnds ==
  ASSUME EndsAreNamed, UNCHANGED Cgi!fdVars PROVE EndsAreNamed'
BY DEF EndsAreNamed, Cgi!fdVars

LEMMA AnswerType ==
  ASSUME CgiInv, NEW w \in Workers, Cgi!Answer(w), pc[w] \notin {"idle", "done"}
  PROVE  responses' \in [Workers -> 0 .. 2]
<1>1. responses[w] \in 0 .. 1 /\ responses \in [Workers -> 0 .. 2]
  <2>1. pc[w] \in {"failed", "output"} \/ pc[w] \notin {"idle", "failed", "output", "done"}
    OBVIOUS
  <2> QED
    BY <2>1 DEF CgiInv, EndsInv, Cgi!TypeOK, AnswersOfStep
<1> QED
  BY <1>1 DEF Cgi!Answer

LEMMA RequestBegins ==
  ASSUME Cgi!CgiAssumption, CgiInv, NEW w \in Workers, Cgi!Begin(w) PROVE CgiInv'
<1>1. Cgi!TypeOK'
  BY DEF Cgi!CgiAssumption, CgiInv, EndsInv, Cgi!TypeOK, Cgi!Goes, Cgi!Fault, Cgi!procVars, Cgi!fdVars,
     Cgi!dataVars, Cgi!reqVars, Cgi!Begin
<1>2. EndsAreNamed'
  BY SameEnds DEF CgiInv, EndsInv, Cgi!Begin
<1>3. StepsHaveEnds'
  BY DEF CgiInv, EndsInv, Cgi!TypeOK, StepsHaveEnds, Cgi!Ends, Cgi!Goes, Cgi!Fault, Cgi!procVars,
     Cgi!fdVars, Cgi!dataVars, Cgi!reqVars, Cgi!Answer, Cgi!Begin
<1>4. ProgramsAreForked'
  BY DEF CgiInv, EndsInv, Cgi!TypeOK, ProgramsAreForked, Cgi!Goes, Cgi!Fault, Cgi!procVars, Cgi!fdVars,
     Cgi!dataVars, Cgi!reqVars, Cgi!Answer, Cgi!Begin
<1>5. AnswersOfStep'
  BY DEF CgiInv, EndsInv, Cgi!TypeOK, AnswersOfStep, Cgi!Goes, Cgi!Fault, Cgi!procVars, Cgi!fdVars,
     Cgi!dataVars, Cgi!reqVars, Cgi!Answer, Cgi!Begin
<1> QED
  BY <1>1, <1>2, <1>3, <1>4, <1>5 DEF CgiInv, EndsInv

LEMMA PipeInKeeps ==
  ASSUME Cgi!CgiAssumption, CgiInv, NEW w \in Workers, Cgi!PipeIn(w) PROVE CgiInv'
<1>1. Cgi!TypeOK'
  <2>1. CASE Cgi!Fails(w, "pipe_in")
    BY <2>1, AnswerType DEF Cgi!CgiAssumption, CgiInv, EndsInv, Cgi!TypeOK, Cgi!Fails, Cgi!Goes,
       Cgi!Fault, Cgi!procVars,
       Cgi!fdVars, Cgi!dataVars
  <2>2. CASE UNCHANGED faults
    <3>1. ~ Cgi!Fails(w, "pipe_in")
      BY <2>2 DEF Cgi!Fails, Cgi!Fault, CgiInv, EndsInv, Cgi!TypeOK
    <3> QED
      BY <3>1 DEF Cgi!PipeIn, Cgi!Pipe, Cgi!Goes, CgiInv, EndsInv, Cgi!TypeOK, Cgi!Ends,
         Cgi!procVars, Cgi!dataVars, Cgi!reqVars
  <2> QED
    BY <2>1, <2>2 DEF Cgi!PipeIn, Cgi!Pipe
<1>2. EndsAreNamed'
  <2>1. CASE UNCHANGED Cgi!fdVars
    BY <2>1, SameEnds DEF CgiInv, EndsInv
  <2>2. CASE /\ open' = open \cup ({w} \X {"in_r", "in_w"})
             /\ locals' = [locals EXCEPT ![w] = @ \cup {"in_r", "in_w"}] /\ misclosed' = misclosed
    <3>1. ASSUME NEW v \in Workers, NEW e \in Cgi!Ends PROVE <<v, e>> \in open' <=> e \in locals'[v]
      <4>1. <<v, e>> \in open <=> e \in locals[v]
        BY DEF CgiInv, EndsInv, EndsAreNamed
      <4>2. CASE v = w
        BY <2>2, <4>1, <4>2 DEF CgiInv, EndsInv, Cgi!TypeOK
      <4>3. CASE v # w
        BY <2>2, <4>1, <4>3 DEF CgiInv, EndsInv, Cgi!TypeOK
      <4> QED
        BY <4>2, <4>3
    <3> QED
      BY <2>2, <3>1 DEF CgiInv, EndsInv, EndsAreNamed
  <2> QED
    BY <2>1, <2>2 DEF Cgi!PipeIn, Cgi!Pipe, Cgi!Fails
<1>3. StepsHaveEnds'
  BY DEF CgiInv, EndsInv, Cgi!TypeOK, StepsHaveEnds, Cgi!Ends, Cgi!Goes, Cgi!Fault, Cgi!procVars,
     Cgi!fdVars, Cgi!dataVars, Cgi!reqVars, Cgi!Answer, Cgi!PipeIn, Cgi!Pipe, Cgi!Fails
<1>4. ProgramsAreForked'
  BY DEF CgiInv, EndsInv, Cgi!TypeOK, ProgramsAreForked, Cgi!Goes, Cgi!Fault, Cgi!procVars, Cgi!fdVars,
     Cgi!dataVars, Cgi!reqVars, Cgi!Answer, Cgi!PipeIn, Cgi!Pipe, Cgi!Fails
<1>5. AnswersOfStep'
  BY DEF CgiInv, EndsInv, Cgi!TypeOK, AnswersOfStep, Cgi!Goes, Cgi!Fault, Cgi!procVars, Cgi!fdVars,
     Cgi!dataVars, Cgi!reqVars, Cgi!Answer, Cgi!PipeIn, Cgi!Pipe, Cgi!Fails
<1> QED
  BY <1>1, <1>2, <1>3, <1>4, <1>5 DEF CgiInv, EndsInv

LEMMA PipeOutKeeps ==
  ASSUME Cgi!CgiAssumption, CgiInv, NEW w \in Workers, Cgi!PipeOut(w) PROVE CgiInv'
<1>1. Cgi!TypeOK'
  <2>1. CASE Cgi!Fails(w, "pipe_out")
    BY <2>1, AnswerType DEF Cgi!CgiAssumption, CgiInv, EndsInv, Cgi!TypeOK, Cgi!Fails, Cgi!Goes,
       Cgi!Fault, Cgi!procVars,
       Cgi!fdVars, Cgi!dataVars
  <2>2. CASE UNCHANGED faults
    <3>1. ~ Cgi!Fails(w, "pipe_out")
      BY <2>2 DEF Cgi!Fails, Cgi!Fault, CgiInv, EndsInv, Cgi!TypeOK
    <3> QED
      BY <3>1 DEF Cgi!PipeOut, Cgi!Pipe, Cgi!Goes, CgiInv, EndsInv, Cgi!TypeOK, Cgi!Ends,
         Cgi!procVars, Cgi!dataVars, Cgi!reqVars
  <2> QED
    BY <2>1, <2>2 DEF Cgi!PipeOut, Cgi!Pipe
<1>2. EndsAreNamed'
  <2>1. CASE UNCHANGED Cgi!fdVars
    BY <2>1, SameEnds DEF CgiInv, EndsInv
  <2>2. CASE /\ open' = open \cup ({w} \X {"out_r", "out_w"})
             /\ locals' = [locals EXCEPT ![w] = @ \cup {"out_r", "out_w"}] /\ misclosed' = misclosed
    <3>1. ASSUME NEW v \in Workers, NEW e \in Cgi!Ends PROVE <<v, e>> \in open' <=> e \in locals'[v]
      <4>1. <<v, e>> \in open <=> e \in locals[v]
        BY DEF CgiInv, EndsInv, EndsAreNamed
      <4>2. CASE v = w
        BY <2>2, <4>1, <4>2 DEF CgiInv, EndsInv, Cgi!TypeOK
      <4>3. CASE v # w
        BY <2>2, <4>1, <4>3 DEF CgiInv, EndsInv, Cgi!TypeOK
      <4> QED
        BY <4>2, <4>3
    <3> QED
      BY <2>2, <3>1 DEF CgiInv, EndsInv, EndsAreNamed
  <2> QED
    BY <2>1, <2>2 DEF Cgi!PipeOut, Cgi!Pipe, Cgi!Fails
<1>3. StepsHaveEnds'
  BY DEF CgiInv, EndsInv, Cgi!TypeOK, StepsHaveEnds, Cgi!Ends, Cgi!Goes, Cgi!Fault, Cgi!procVars,
     Cgi!fdVars, Cgi!dataVars, Cgi!reqVars, Cgi!Answer, Cgi!PipeOut, Cgi!Pipe, Cgi!Fails
<1>4. ProgramsAreForked'
  BY DEF CgiInv, EndsInv, Cgi!TypeOK, ProgramsAreForked, Cgi!Goes, Cgi!Fault, Cgi!procVars, Cgi!fdVars,
     Cgi!dataVars, Cgi!reqVars, Cgi!Answer, Cgi!PipeOut, Cgi!Pipe, Cgi!Fails
<1>5. AnswersOfStep'
  BY DEF CgiInv, EndsInv, Cgi!TypeOK, AnswersOfStep, Cgi!Goes, Cgi!Fault, Cgi!procVars, Cgi!fdVars,
     Cgi!dataVars, Cgi!reqVars, Cgi!Answer, Cgi!PipeOut, Cgi!Pipe, Cgi!Fails
<1> QED
  BY <1>1, <1>2, <1>3, <1>4, <1>5 DEF CgiInv, EndsInv

LEMMA ForkKeeps ==
  ASSUME Cgi!CgiAssumption, CgiInv, NEW w \in Workers, Cgi!Fork(w) PROVE CgiInv'
<1>1. Cgi!TypeOK'
  <2>1. ASSUME Cgi!Answer(w), pc[w] = "fork" PROVE responses' \in [Workers -> 0 .. 2]
    BY <2>1, AnswerType
  <2>2. CASE child' = [child EXCEPT ![w] = "running"] /\ pc' = [pc EXCEPT ![w] = "forked"]
    <3>1. pc[w] = "fork" /\ UNCHANGED <<Cgi!fdVars, Cgi!dataVars, Cgi!reqVars, faults>>
          /\ held' = [held EXCEPT ![w] = open]
      BY <2>2 DEF Cgi!Fork, Cgi!Goes, CgiInv, EndsInv, Cgi!TypeOK
    <3>2. read[w] + in[w] = posted[w]
      BY <3>1 DEF CgiInv, EndsInv, Cgi!TypeOK, ProgramsAreForked
    <3>3. \A v \in Workers : read'[v] + in'[v] = posted'[v] \/ child'[v] # "running"
      BY <2>2, <3>1, <3>2 DEF CgiInv, EndsInv, Cgi!TypeOK, Cgi!dataVars
    <3> QED
      BY <2>2, <3>1, <3>3 DEF CgiInv, EndsInv, Cgi!TypeOK, Cgi!fdVars, Cgi!dataVars, Cgi!reqVars
  <2>3. CASE Cgi!Goes(w, "fork", "failed") /\ Cgi!Fault /\ Cgi!Answer(w)
    <3>1. UNCHANGED <<Cgi!procVars, Cgi!fdVars, Cgi!dataVars, method, program>>
          /\ forkFailed' = [forkFailed EXCEPT ![w] = TRUE]
      BY <2>3 DEF Cgi!Fork, Cgi!Goes, CgiInv, EndsInv, Cgi!TypeOK
    <3> QED
      BY <2>1, <2>3, <3>1 DEF Cgi!CgiAssumption, CgiInv, EndsInv, Cgi!TypeOK, Cgi!Goes, Cgi!Fault,
         Cgi!procVars, Cgi!fdVars, Cgi!dataVars
  <2> QED
    BY <2>2, <2>3 DEF Cgi!Fork, Cgi!Goes
<1>2. EndsAreNamed'
  BY SameEnds DEF CgiInv, EndsInv, Cgi!Fork
<1>3. StepsHaveEnds'
  BY DEF CgiInv, EndsInv, Cgi!TypeOK, StepsHaveEnds, Cgi!Ends, Cgi!Goes, Cgi!Fault, Cgi!procVars,
     Cgi!fdVars, Cgi!dataVars, Cgi!reqVars, Cgi!Answer, Cgi!Fork
<1>4. ProgramsAreForked'
  BY DEF CgiInv, EndsInv, Cgi!TypeOK, ProgramsAreForked, Cgi!Goes, Cgi!Fault, Cgi!procVars, Cgi!fdVars,
     Cgi!dataVars, Cgi!reqVars, Cgi!Answer, Cgi!Fork
<1>5. AnswersOfStep'
  BY DEF CgiInv, EndsInv, Cgi!TypeOK, AnswersOfStep, Cgi!Goes, Cgi!Fault, Cgi!procVars, Cgi!fdVars,
     Cgi!dataVars, Cgi!reqVars, Cgi!Answer, Cgi!Fork
<1> QED
  BY <1>1, <1>2, <1>3, <1>4, <1>5 DEF CgiInv, EndsInv

LEMMA SpawnedKeeps ==
  ASSUME Cgi!CgiAssumption, CgiInv, NEW w \in Workers, Cgi!Spawned(w) PROVE CgiInv'
<1>0. /\ EndsAreNamed' /\ open' \subseteq Workers \X Cgi!Ends
      /\ locals' \in [Workers -> SUBSET Cgi!Ends] /\ misclosed' \in BOOLEAN
  <2>1. {"in_r", "out_w"} \in SUBSET Cgi!Ends /\ {"in_r", "out_w"} \subseteq locals[w]
    BY DEF Cgi!Spawned, Cgi!Goes, CgiInv, EndsInv, Cgi!TypeOK, StepsHaveEnds, Cgi!Ends
  <2>2. Cgi!Close(w, {"in_r", "out_w"}) /\ locals' = [locals EXCEPT ![w] = @ \ {"in_r", "out_w"}]
    BY DEF Cgi!Spawned
  <2> QED
    BY <2>1, <2>2, CloseIsOwn DEF CgiInv
<1>1. Cgi!TypeOK'
  BY <1>0, AnswerType DEF Cgi!CgiAssumption, CgiInv, EndsInv, Cgi!TypeOK, Cgi!Goes, Cgi!Fault,
     Cgi!procVars, Cgi!fdVars, Cgi!dataVars, Cgi!reqVars, Cgi!Spawned
<1>2. EndsAreNamed'
  BY <1>0
<1>3. StepsHaveEnds'
  BY DEF CgiInv, EndsInv, Cgi!TypeOK, StepsHaveEnds, Cgi!Ends, Cgi!Goes, Cgi!Fault, Cgi!procVars,
     Cgi!fdVars, Cgi!dataVars, Cgi!reqVars, Cgi!Answer, Cgi!Spawned
<1>4. ProgramsAreForked'
  BY DEF CgiInv, EndsInv, Cgi!TypeOK, ProgramsAreForked, Cgi!Goes, Cgi!Fault, Cgi!procVars, Cgi!fdVars,
     Cgi!dataVars, Cgi!reqVars, Cgi!Answer, Cgi!Spawned
<1>5. AnswersOfStep'
  BY DEF CgiInv, EndsInv, Cgi!TypeOK, AnswersOfStep, Cgi!Goes, Cgi!Fault, Cgi!procVars, Cgi!fdVars,
     Cgi!dataVars, Cgi!reqVars, Cgi!Answer, Cgi!Spawned
<1> QED
  BY <1>1, <1>2, <1>3, <1>4, <1>5 DEF CgiInv, EndsInv

LEMMA StreamsKeeps ==
  ASSUME Cgi!CgiAssumption, CgiInv, NEW w \in Workers, Cgi!Streams(w) PROVE CgiInv'
<1>1. Cgi!TypeOK'
  BY AnswerType DEF Cgi!CgiAssumption, CgiInv, EndsInv, Cgi!TypeOK, Cgi!Goes, Cgi!Fault, Cgi!procVars,
     Cgi!fdVars, Cgi!dataVars, Cgi!reqVars, Cgi!Streams, Cgi!Fails
<1>2. EndsAreNamed'
  BY SameEnds DEF CgiInv, EndsInv, Cgi!Streams, Cgi!Fails
<1>3. StepsHaveEnds'
  BY DEF CgiInv, EndsInv, Cgi!TypeOK, StepsHaveEnds, Cgi!Ends, Cgi!Goes, Cgi!Fault, Cgi!procVars,
     Cgi!fdVars, Cgi!dataVars, Cgi!reqVars, Cgi!Answer, Cgi!Streams, Cgi!Fails
<1>4. ProgramsAreForked'
  BY DEF CgiInv, EndsInv, Cgi!TypeOK, ProgramsAreForked, Cgi!Goes, Cgi!Fault, Cgi!procVars, Cgi!fdVars,
     Cgi!dataVars, Cgi!reqVars, Cgi!Answer, Cgi!Streams, Cgi!Fails
<1>5. AnswersOfStep'
  BY DEF CgiInv, EndsInv, Cgi!TypeOK, AnswersOfStep, Cgi!Goes, Cgi!Fault, Cgi!procVars, Cgi!fdVars,
     Cgi!dataVars, Cgi!reqVars, Cgi!Answer, Cgi!Streams, Cgi!Fails
<1> QED
  BY <1>1, <1>2, <1>3, <1>4, <1>5 DEF CgiInv, EndsInv

LEMMA PostKeeps ==
  ASSUME Cgi!CgiAssumption, CgiInv, NEW w \in Workers, Cgi!Post(w) PROVE CgiInv'
<1>1. Cgi!TypeOK'
  BY DEF Cgi!CgiAssumption, CgiInv, EndsInv, Cgi!TypeOK, Cgi!Goes, Cgi!Fault, Cgi!procVars, Cgi!fdVars,
     Cgi!dataVars, Cgi!reqVars, Cgi!Post
<1>2. EndsAreNamed'
  BY SameEnds DEF CgiInv, EndsInv, Cgi!Post
<1>3. StepsHaveEnds'
  BY DEF CgiInv, EndsInv, Cgi!TypeOK, StepsHaveEnds, Cgi!Ends, Cgi!Goes, Cgi!Fault, Cgi!procVars,
     Cgi!fdVars, Cgi!dataVars, Cgi!reqVars, Cgi!Answer, Cgi!Post
<1>4. ProgramsAreForked'
  BY DEF CgiInv, EndsInv, Cgi!TypeOK, ProgramsAreForked, Cgi!Goes, Cgi!Fault, Cgi!procVars, Cgi!fdVars,
     Cgi!dataVars, Cgi!reqVars, Cgi!Answer, Cgi!Post
<1>5. AnswersOfStep'
  BY DEF CgiInv, EndsInv, Cgi!TypeOK, AnswersOfStep, Cgi!Goes, Cgi!Fault, Cgi!procVars, Cgi!fdVars,
     Cgi!dataVars, Cgi!reqVars, Cgi!Answer, Cgi!Post
<1> QED
  BY <1>1, <1>2, <1>3, <1>4, <1>5 DEF CgiInv, EndsInv

LEMMA PostedKeeps ==
  ASSUME Cgi!CgiAssumption, CgiInv, NEW w \in Workers, Cgi!Posted(w) PROVE CgiInv'
<1>1. Cgi!TypeOK'
  BY DEF Cgi!CgiAssumption, CgiInv, EndsInv, Cgi!TypeOK, Cgi!Goes, Cgi!Fault, Cgi!procVars, Cgi!fdVars,
     Cgi!dataVars, Cgi!reqVars, Cgi!Posted
<1>2. EndsAreNamed'
  BY SameEnds DEF CgiInv, EndsInv, Cgi!Posted
<1>3. StepsHaveEnds'
  BY DEF CgiInv, EndsInv, Cgi!TypeOK, StepsHaveEnds, Cgi!Ends, Cgi!Goes, Cgi!Fault, Cgi!procVars,
     Cgi!fdVars, Cgi!dataVars, Cgi!reqVars, Cgi!Answer, Cgi!Posted
<1>4. ProgramsAreForked'
  BY DEF CgiInv, EndsInv, Cgi!TypeOK, ProgramsAreForked, Cgi!Goes, Cgi!Fault, Cgi!procVars, Cgi!fdVars,
     Cgi!dataVars, Cgi!reqVars, Cgi!Answer, Cgi!Posted
<1>5. AnswersOfStep'
  BY DEF CgiInv, EndsInv, Cgi!TypeOK, AnswersOfStep, Cgi!Goes, Cgi!Fault, Cgi!procVars, Cgi!fdVars,
     Cgi!dataVars, Cgi!reqVars, Cgi!Answer, Cgi!Posted
<1> QED
  BY <1>1, <1>2, <1>3, <1>4, <1>5 DEF CgiInv, EndsInv

LEMMA PostFailsKeeps ==
  ASSUME Cgi!CgiAssumption, CgiInv, NEW w \in Workers, Cgi!PostFails(w) PROVE CgiInv'
<1>1. Cgi!TypeOK'
  BY AnswerType DEF Cgi!CgiAssumption, CgiInv, EndsInv, Cgi!TypeOK, Cgi!Goes, Cgi!Fault, Cgi!procVars,
     Cgi!fdVars, Cgi!dataVars, Cgi!reqVars, Cgi!PostFails
<1>2. EndsAreNamed'
  BY SameEnds DEF CgiInv, EndsInv, Cgi!PostFails
<1>3. StepsHaveEnds'
  BY DEF CgiInv, EndsInv, Cgi!TypeOK, StepsHaveEnds, Cgi!Ends, Cgi!Goes, Cgi!Fault, Cgi!procVars,
     Cgi!fdVars, Cgi!dataVars, Cgi!reqVars, Cgi!Answer, Cgi!PostFails
<1>4. ProgramsAreForked'
  BY DEF CgiInv, EndsInv, Cgi!TypeOK, ProgramsAreForked, Cgi!Goes, Cgi!Fault, Cgi!procVars, Cgi!fdVars,
     Cgi!dataVars, Cgi!reqVars, Cgi!Answer, Cgi!PostFails
<1>5. AnswersOfStep'
  BY DEF CgiInv, EndsInv, Cgi!TypeOK, AnswersOfStep, Cgi!Goes, Cgi!Fault, Cgi!procVars, Cgi!fdVars,
     Cgi!dataVars, Cgi!reqVars, Cgi!Answer, Cgi!PostFails
<1> QED
  BY <1>1, <1>2, <1>3, <1>4, <1>5 DEF CgiInv, EndsInv

LEMMA CloseInKeeps ==
  ASSUME Cgi!CgiAssumption, CgiInv, NEW w \in Workers, Cgi!CloseIn(w) PROVE CgiInv'
<1>0. /\ EndsAreNamed' /\ open' \subseteq Workers \X Cgi!Ends
      /\ locals' \in [Workers -> SUBSET Cgi!Ends] /\ misclosed' \in BOOLEAN
  <2>1. {"in_w"} \in SUBSET Cgi!Ends /\ {"in_w"} \subseteq locals[w]
    BY DEF Cgi!CloseIn, Cgi!Goes, CgiInv, EndsInv, Cgi!TypeOK, StepsHaveEnds, Cgi!Ends
  <2>2. Cgi!Close(w, {"in_w"}) /\ locals' = [locals EXCEPT ![w] = @ \ {"in_w"}]
    BY DEF Cgi!CloseIn
  <2> QED
    BY <2>1, <2>2, CloseIsOwn DEF CgiInv
<1>1. Cgi!TypeOK'
  BY <1>0 DEF Cgi!CgiAssumption, CgiInv, EndsInv, Cgi!TypeOK, Cgi!Goes, Cgi!Fault, Cgi!procVars,
     Cgi!fdVars,
     Cgi!dataVars, Cgi!reqVars, Cgi!CloseIn
<1>2. EndsAreNamed'
  BY <1>0
<1>3. StepsHaveEnds'
  BY DEF CgiInv, EndsInv, Cgi!TypeOK, StepsHaveEnds, Cgi!Ends, Cgi!Goes, Cgi!Fault, Cgi!procVars,
     Cgi!fdVars, Cgi!dataVars, Cgi!reqVars, Cgi!Answer, Cgi!CloseIn
<1>4. ProgramsAreForked'
  BY DEF CgiInv, EndsInv, Cgi!TypeOK, ProgramsAreForked, Cgi!Goes, Cgi!Fault, Cgi!procVars, Cgi!fdVars,
     Cgi!dataVars, Cgi!reqVars, Cgi!Answer, Cgi!CloseIn
<1>5. AnswersOfStep'
  BY DEF CgiInv, EndsInv, Cgi!TypeOK, AnswersOfStep, Cgi!Goes, Cgi!Fault, Cgi!procVars, Cgi!fdVars,
     Cgi!dataVars, Cgi!reqVars, Cgi!Answer, Cgi!CloseIn
<1> QED
  BY <1>1, <1>2, <1>3, <1>4, <1>5 DEF CgiInv, EndsInv

LEMMA HeadersKeeps ==
  ASSUME Cgi!CgiAssumption, CgiInv, NEW w \in Workers, Cgi!Headers(w) PROVE CgiInv'
<1>1. Cgi!TypeOK'
  BY AnswerType DEF Cgi!CgiAssumption, CgiInv, EndsInv, Cgi!TypeOK, Cgi!Goes, Cgi!Fault, Cgi!procVars,
     Cgi!fdVars, Cgi!dataVars, Cgi!reqVars, Cgi!Headers
<1>2. EndsAreNamed'
  BY SameEnds DEF CgiInv, EndsInv, Cgi!Headers
<1>3. StepsHaveEnds'
  BY DEF CgiInv, EndsInv, Cgi!TypeOK, StepsHaveEnds, Cgi!Ends, Cgi!Goes, Cgi!Fault, Cgi!procVars,
     Cgi!fdVars, Cgi!dataVars, Cgi!reqVars, Cgi!Answer, Cgi!Headers
<1>4. ProgramsAreForked'
  BY DEF CgiInv, EndsInv, Cgi!TypeOK, ProgramsAreForked, Cgi!Goes, Cgi!Fault, Cgi!procVars, Cgi!fdVars,
     Cgi!dataVars, Cgi!reqVars, Cgi!Answer, Cgi!Headers
<1>5. AnswersOfStep'
  BY DEF CgiInv, EndsInv, Cgi!TypeOK, AnswersOfStep, Cgi!Goes, Cgi!Fault, Cgi!procVars, Cgi!fdVars,
     Cgi!dataVars, Cgi!reqVars, Cgi!Answer, Cgi!Headers
<1> QED
  BY <1>1, <1>2, <1>3, <1>4, <1>5 DEF CgiInv, EndsInv

LEMMA OutputKeeps ==
  ASSUME Cgi!CgiAssumption, CgiInv, NEW w \in Workers, Cgi!Output(w) PROVE CgiInv'
<1>1. Cgi!TypeOK'
  BY DEF Cgi!CgiAssumption, CgiInv, EndsInv, Cgi!TypeOK, Cgi!Goes, Cgi!Fault, Cgi!procVars, Cgi!fdVars,
     Cgi!dataVars, Cgi!reqVars, Cgi!Output
<1>2. EndsAreNamed'
  BY SameEnds DEF CgiInv, EndsInv, Cgi!Output
<1>3. StepsHaveEnds'
  BY DEF CgiInv, EndsInv, Cgi!TypeOK, StepsHaveEnds, Cgi!Ends, Cgi!Goes, Cgi!Fault, Cgi!procVars,
     Cgi!fdVars, Cgi!dataVars, Cgi!reqVars, Cgi!Answer, Cgi!Output
<1>4. ProgramsAreForked'
  BY DEF CgiInv, EndsInv, Cgi!TypeOK, ProgramsAreForked, Cgi!Goes, Cgi!Fault, Cgi!procVars, Cgi!fdVars,
     Cgi!dataVars, Cgi!reqVars, Cgi!Answer, Cgi!Output
<1>5. AnswersOfStep'
  BY DEF CgiInv, EndsInv, Cgi!TypeOK, AnswersOfStep, Cgi!Goes, Cgi!Fault, Cgi!procVars, Cgi!fdVars,
     Cgi!dataVars, Cgi!reqVars, Cgi!Answer, Cgi!Output
<1> QED
  BY <1>1, <1>2, <1>3, <1>4, <1>5 DEF CgiInv, EndsInv

LEMMA DoneKeeps ==
  ASSUME Cgi!CgiAssumption, CgiInv, NEW w \in Workers, Cgi!Done(w) PROVE CgiInv'
<1>0. /\ EndsAreNamed' /\ open' \subseteq Workers \X Cgi!Ends
      /\ locals' \in [Workers -> SUBSET Cgi!Ends] /\ misclosed' \in BOOLEAN
  <2>1. locals[w] \in SUBSET Cgi!Ends
    BY DEF CgiInv, EndsInv, Cgi!TypeOK
  <2>2. Cgi!Close(w, locals[w]) /\ locals' = [locals EXCEPT ![w] = @ \ locals[w]]
    BY <2>1 DEF Cgi!Done, CgiInv, EndsInv, Cgi!TypeOK
  <2> QED
    BY <2>1, <2>2, CloseIsOwn DEF CgiInv
<1>1. Cgi!TypeOK'
  BY <1>0 DEF Cgi!CgiAssumption, CgiInv, EndsInv, Cgi!TypeOK, Cgi!Goes, Cgi!Fault, Cgi!procVars,
     Cgi!fdVars,
     Cgi!dataVars, Cgi!reqVars, Cgi!Done
<1>2. EndsAreNamed'
  BY <1>0
<1>3. StepsHaveEnds'
  BY DEF CgiInv, EndsInv, Cgi!TypeOK, StepsHaveEnds, Cgi!Ends, Cgi!Goes, Cgi!Fault, Cgi!procVars,
     Cgi!fdVars, Cgi!dataVars, Cgi!reqVars, Cgi!Answer, Cgi!Done
<1>4. ProgramsAreForked'
  BY DEF CgiInv, EndsInv, Cgi!TypeOK, ProgramsAreForked, Cgi!Goes, Cgi!Fault, Cgi!procVars, Cgi!fdVars,
     Cgi!dataVars, Cgi!reqVars, Cgi!Answer, Cgi!Done
<1>5. AnswersOfStep'
  BY DEF CgiInv, EndsInv, Cgi!TypeOK, AnswersOfStep, Cgi!Goes, Cgi!Fault, Cgi!procVars, Cgi!fdVars,
     Cgi!dataVars, Cgi!reqVars, Cgi!Answer, Cgi!Done
<1> QED
  BY <1>1, <1>2, <1>3, <1>4, <1>5 DEF CgiInv, EndsInv

LEMMA ChildReadsKeeps ==
  ASSUME Cgi!CgiAssumption, CgiInv, NEW w \in Workers, Cgi!ChildReads(w) PROVE CgiInv'
<1>1. Cgi!TypeOK'
  BY DEF Cgi!CgiAssumption, CgiInv, EndsInv, Cgi!TypeOK, Cgi!Goes, Cgi!Fault, Cgi!procVars, Cgi!fdVars,
     Cgi!dataVars, Cgi!reqVars, Cgi!ChildReads
<1>2. EndsAreNamed'
  BY SameEnds DEF CgiInv, EndsInv, Cgi!ChildReads
<1>3. StepsHaveEnds'
  BY DEF CgiInv, EndsInv, Cgi!TypeOK, StepsHaveEnds, Cgi!Ends, Cgi!Goes, Cgi!Fault, Cgi!procVars,
     Cgi!fdVars, Cgi!dataVars, Cgi!reqVars, Cgi!Answer, Cgi!ChildReads
<1>4. ProgramsAreForked'
  BY DEF CgiInv, EndsInv, Cgi!TypeOK, ProgramsAreForked, Cgi!Goes, Cgi!Fault, Cgi!procVars, Cgi!fdVars,
     Cgi!dataVars, Cgi!reqVars, Cgi!Answer, Cgi!ChildReads
<1>5. AnswersOfStep'
  BY DEF CgiInv, EndsInv, Cgi!TypeOK, AnswersOfStep, Cgi!Goes, Cgi!Fault, Cgi!procVars, Cgi!fdVars,
     Cgi!dataVars, Cgi!reqVars, Cgi!Answer, Cgi!ChildReads
<1> QED
  BY <1>1, <1>2, <1>3, <1>4, <1>5 DEF CgiInv, EndsInv

LEMMA ChildWritesKeeps ==
  ASSUME Cgi!CgiAssumption, CgiInv, NEW w \in Workers, Cgi!ChildWrites(w) PROVE CgiInv'
<1>1. Cgi!TypeOK'
  BY DEF Cgi!CgiAssumption, CgiInv, EndsInv, Cgi!TypeOK, Cgi!Goes, Cgi!Fault, Cgi!procVars, Cgi!fdVars,
     Cgi!dataVars, Cgi!reqVars, Cgi!ChildWrites
<1>2. EndsAreNamed'
  BY SameEnds DEF CgiInv, EndsInv, Cgi!ChildWrites
<1>3. StepsHaveEnds'
  BY DEF CgiInv, EndsInv, Cgi!TypeOK, StepsHaveEnds, Cgi!Ends, Cgi!Goes, Cgi!Fault, Cgi!procVars,
     Cgi!fdVars, Cgi!dataVars, Cgi!reqVars, Cgi!Answer, Cgi!ChildWrites
<1>4. ProgramsAreForked'
  BY DEF CgiInv, EndsInv, Cgi!TypeOK, ProgramsAreForked, Cgi!Goes, Cgi!Fault, Cgi!procVars, Cgi!fdVars,
     Cgi!dataVars, Cgi!reqVars, Cgi!Answer, Cgi!ChildWrites
<1>5. AnswersOfStep'
  BY DEF CgiInv, EndsInv, Cgi!TypeOK, AnswersOfStep, Cgi!Goes, Cgi!Fault, Cgi!procVars, Cgi!fdVars,
     Cgi!dataVars, Cgi!reqVars, Cgi!Answer, Cgi!ChildWrites
<1> QED
  BY <1>1, <1>2, <1>3, <1>4, <1>5 DEF CgiInv, EndsInv

LEMMA ChildExitsKeeps ==
  ASSUME Cgi!CgiAssumption, CgiInv, NEW w \in Workers, Cgi!ChildExits(w) PROVE CgiInv'
<1>1. Cgi!TypeOK'
  BY DEF Cgi!CgiAssumption, CgiInv, EndsInv, Cgi!TypeOK, Cgi!Goes, Cgi!Fault, Cgi!procVars, Cgi!fdVars,
     Cgi!dataVars, Cgi!reqVars, Cgi!ChildExits
<1>2. EndsAreNamed'
  BY SameEnds DEF CgiInv, EndsInv, Cgi!ChildExits
<1>3. StepsHaveEnds'
  BY DEF CgiInv, EndsInv, Cgi!TypeOK, StepsHaveEnds, Cgi!Ends, Cgi!Goes, Cgi!Fault, Cgi!procVars,
     Cgi!fdVars, Cgi!dataVars, Cgi!reqVars, Cgi!Answer, Cgi!ChildExits
<1>4. ProgramsAreForked'
  BY DEF CgiInv, EndsInv, Cgi!TypeOK, ProgramsAreForked, Cgi!Goes, Cgi!Fault, Cgi!procVars, Cgi!fdVars,
     Cgi!dataVars, Cgi!reqVars, Cgi!Answer, Cgi!ChildExits
<1>5. AnswersOfStep'
  BY DEF CgiInv, EndsInv, Cgi!TypeOK, AnswersOfStep, Cgi!Goes, Cgi!Fault, Cgi!procVars, Cgi!fdVars,
     Cgi!dataVars, Cgi!reqVars, Cgi!Answer, Cgi!ChildExits
<1> QED
  BY <1>1, <1>2, <1>3, <1>4, <1>5 DEF CgiInv, EndsInv

-----------------------------------------------------------------------------
(* The theorems.                                                           *)

LEMMA InitCgi == ASSUME Cgi!CgiAssumption, Cgi!Init PROVE CgiInv
<1>1. 0 \in 0 .. FaultBudget /\ 0 \in 0 .. PipeSize /\ 0 \in 0 .. BodySize
      /\ 0 \in 0 .. OutputSize
  BY DEF Cgi!CgiAssumption
<1>2. \A w \in Workers : child[w] # "running"
  BY DEF Cgi!Init
<1>3. /\ pc \in [Workers -> {"idle", "pipe_in", "pipe_out", "fork", "forked", "failed",
                          "streams", "post", "close", "headers", "output", "done"}]
      /\ method \in [Workers -> {"GET", "POST"}] /\ program \in [Workers -> Programs]
      /\ open \subseteq Workers \X Cgi!Ends /\ locals \in [Workers -> SUBSET Cgi!Ends]
      /\ child \in [Workers -> {"none", "running", "gone"}]
      /\ held \in [Workers -> SUBSET (Workers \X Cgi!Ends)]
  BY DEF Cgi!Init
<1>4. /\ in \in [Workers -> 0 .. PipeSize] /\ out \in [Workers -> 0 .. PipeSize]
      /\ posted \in [Workers -> 0 .. BodySize] /\ read \in [Workers -> 0 .. BodySize]
      /\ written \in [Workers -> 0 .. OutputSize] /\ responses \in [Workers -> 0 .. 2]
  BY <1>1 DEF Cgi!Init
<1>5. Cgi!TypeOK
  BY <1>1, <1>2, <1>3, <1>4 DEF Cgi!Init, Cgi!TypeOK
<1>6. EndsAreNamed /\ StepsHaveEnds /\ ProgramsAreForked /\ AnswersOfStep
  BY DEF Cgi!Init, EndsAreNamed, StepsHaveEnds, ProgramsAreForked, AnswersOfStep
<1> QED
  BY <1>5, <1>6 DEF CgiInv, EndsInv

LEMMA NextCgi == ASSUME Cgi!CgiAssumption, CgiInv, [Cgi!Next]_(Cgi!vars) PROVE CgiInv'
<1>1. ASSUME NEW w \in Workers, Cgi!Begin(w) PROVE CgiInv'
  BY <1>1, RequestBegins
<1>2. ASSUME NEW w \in Workers, Cgi!WorkerStep(w) PROVE CgiInv'
  BY <1>2, PipeInKeeps, PipeOutKeeps, ForkKeeps, SpawnedKeeps, StreamsKeeps, PostKeeps,
     PostedKeeps, PostFailsKeeps, CloseInKeeps, HeadersKeeps, OutputKeeps, DoneKeeps
     DEF Cgi!WorkerStep
<1>3. ASSUME NEW w \in Workers, Cgi!ChildStep(w) PROVE CgiInv'
  BY <1>3, ChildReadsKeeps, ChildWritesKeeps, ChildExitsKeeps DEF Cgi!ChildStep
<1>4. CASE UNCHANGED Cgi!vars
  BY <1>4 DEF Cgi!vars, Cgi!procVars, Cgi!fdVars, Cgi!dataVars, Cgi!reqVars, CgiInv, EndsInv,
     Cgi!TypeOK,
     EndsAreNamed, StepsHaveEnds, ProgramsAreForked, AnswersOfStep
<1> QED
  BY <1>1, <1>2, <1>3, <1>4 DEF Cgi!Next

LEMMA CgiTypesHold == ASSUME CgiInv PROVE Cgi!TypeOK
BY DEF CgiInv, EndsInv

LEMMA OneAnswerHolds == ASSUME CgiInv PROVE Cgi!OneResponse
BY DEF CgiInv, AnswersOfStep, Cgi!OneResponse

LEMMA CgiInvariant == ASSUME Cgi!CgiAssumption PROVE Cgi!Spec => []CgiInv
<1>1. Cgi!Init => CgiInv
  BY InitCgi
<1>2. CgiInv /\ [Cgi!Next]_(Cgi!vars) => CgiInv'
  BY NextCgi
<1> QED
  BY <1>1, <1>2, PTL DEF Cgi!Spec

(***************************************************************************)
(* The variables of MgCgi have their types: no pipe is overfilled, and a   *)
(* program that runs has read what was posted but for what is in its pipe. *)
(***************************************************************************)
THEOREM CgiTypeCorrect == ASSUME Cgi!CgiAssumption PROVE Cgi!Spec => []Cgi!TypeOK
<1>1. CgiInv => Cgi!TypeOK
  BY CgiTypesHold
<1> QED
  BY <1>1, CgiInvariant, PTL

\* A worker that is idle has no end of a pipe open, and no program.
LEMMA NothingIsLeft == ASSUME CgiInv PROVE Cgi!NothingLeftBehind
<1> SUFFICES ASSUME NEW w \in Workers, pc[w] = "idle"
             PROVE  ~ misclosed /\ open \cap Cgi!EndsOf(w) = {} /\ child[w] # "running"
  BY DEF Cgi!NothingLeftBehind, CgiInv, EndsInv, EndsAreNamed
<1>1. locals[w] = {} /\ \A e \in Cgi!Ends : <<w, e>> \notin open
  BY DEF CgiInv, EndsInv, EndsAreNamed, StepsHaveEnds
<1> QED
  BY <1>1 DEF Cgi!EndsOf, CgiInv, EndsInv, EndsAreNamed, ProgramsAreForked

(***************************************************************************)
(* Whichever calls of pipe, fork and fdopen fail, in however many workers, *)
(* a request leaves no end of its pipes open, closes none that is not its  *)
(* own, and no program of it runs on (mongoose.c 1448-1450, 3325-3329,     *)
(* 3410-3431).                                                             *)
(***************************************************************************)
THEOREM RequestsCleanUp == ASSUME Cgi!CgiAssumption PROVE Cgi!Spec => []Cgi!NothingLeftBehind
<1>1. CgiInv => Cgi!NothingLeftBehind
  BY NothingIsLeft
<1> QED
  BY <1>1, CgiInvariant, PTL

(***************************************************************************)
(* A request is answered with one status line, or with two if its fork     *)
(* failed (mongoose.c 3317-3408).                                          *)
(***************************************************************************)
THEOREM OneAnswer == ASSUME Cgi!CgiAssumption PROVE Cgi!Spec => []Cgi!OneResponse
<1>1. CgiInv => Cgi!OneResponse
  BY OneAnswerHolds
<1> QED
  BY <1>1, CgiInvariant, PTL

-----------------------------------------------------------------------------
(* Files: what MgFiles_proofs proves of them.                              *)

SentP == INSTANCE MgFiles_proofs WITH
  Methods <- Sent.methods, Ranges <- Sent.ranges, Packed <- Sent.packed,
  Original <- Sent.original, MaxBody <- Sent.body, MaxRequests <- Sent.requests,
  LastTime <- Sent.time, Late <- Sent.late, Day <- Sent.day
RangedP == INSTANCE MgFiles_proofs WITH
  Methods <- Ranged.methods, Ranges <- Ranged.ranges, Packed <- Ranged.packed,
  Original <- Ranged.original, MaxBody <- Ranged.body, MaxRequests <- Ranged.requests,
  LastTime <- Ranged.time, Late <- Ranged.late, Day <- Ranged.day
NewP == INSTANCE MgFiles_proofs WITH
  Methods <- New.methods, Ranges <- New.ranges, Packed <- New.packed,
  Original <- New.original, MaxBody <- New.body, MaxRequests <- New.requests,
  LastTime <- New.time, Late <- New.late, Day <- New.day

\* An instance of a module and the same instance of its proofs are the same.
LEMMA SentIsFiles ==
  /\ (Files!FilesAssumption <=> SentP!FilesAssumption) /\ (Files!Init <=> SentP!Init)
  /\ (Files!Next <=> SentP!Next) /\ Files!vars = SentP!vars
  /\ (Files!TypeOK <=> SentP!TypeOK) /\ (Files!FilesAreClosed <=> SentP!FilesAreClosed)
  /\ (Files!SentAsAnnounced <=> SentP!SentAsAnnounced)
  /\ (Files!NotModifiedIsTrue <=> SentP!NotModifiedIsTrue)
  /\ (Files!PutIsStored <=> SentP!PutIsStored)
BY DEF Files!FilesAssumption, SentP!FilesAssumption, Files!fileVars, SentP!fileVars,
       Files!respVars, SentP!respVars, Files!bodyVars, SentP!bodyVars, Files!ghosts,
       SentP!ghosts, Files!Files, SentP!Files, Files!TypeOK, SentP!TypeOK, Files!Init,
       SentP!Init, Files!At, SentP!At, Files!To, SentP!To, Files!Status, SentP!Status,
       Files!Ends, SentP!Ends, Files!Disturbs, SentP!Disturbs, Files!Begin, SentP!Begin,
       Files!IsNotModified, SentP!IsNotModified, Files!Dispatch, SentP!Dispatch, Files!Remove,
       SentP!Remove, Files!Done, SentP!Done, Files!IsRange, SentP!IsRange, Files!R1, SentP!R1,
       Files!ContentLength, SentP!ContentLength, Files!Open, SentP!Open, Files!Next1,
       SentP!Next1, Files!Send, SentP!Send, Files!Put, SentP!Put, Files!PutDir, SentP!PutDir,
       Files!MkDir, SentP!MkDir, Files!PutOpen, SentP!PutOpen, Files!Take, SentP!Take,
       Files!Put1, SentP!Put1, Files!Write, SentP!Write, Files!Close, SentP!Close, Files!Tick,
       SentP!Tick, Files!Next, SentP!Next, Files!Served, SentP!Served, Files!Satisfiable,
       SentP!Satisfiable, Files!SentAsAnnounced, SentP!SentAsAnnounced,
       Files!NotModifiedIsTrue, SentP!NotModifiedIsTrue, Files!PutIsStored, SentP!PutIsStored,
       Files!FilesAreClosed, SentP!FilesAreClosed, Files!vars, SentP!vars, Files!ParsedDate,
       SentP!ParsedDate, Files!IsDir, SentP!IsDir, Files!AfterDir, SentP!AfterDir,
       Files!WriteFails, SentP!WriteFails, Files!CallFails, SentP!CallFails, Files!InLostDay,
       SentP!InLostDay

LEMMA RangedIsParts ==
  /\ (Parts!FilesAssumption <=> RangedP!FilesAssumption) /\ (Parts!Init <=> RangedP!Init)
  /\ (Parts!Next <=> RangedP!Next) /\ Parts!vars = RangedP!vars
  /\ (Parts!TypeOK <=> RangedP!TypeOK) /\ (Parts!FilesAreClosed <=> RangedP!FilesAreClosed)
  /\ (Parts!SentAsAnnounced <=> RangedP!SentAsAnnounced)
  /\ (Parts!NotModifiedIsTrue <=> RangedP!NotModifiedIsTrue)
  /\ (Parts!PutIsStored <=> RangedP!PutIsStored)
BY DEF Parts!FilesAssumption, RangedP!FilesAssumption, Parts!fileVars, RangedP!fileVars,
       Parts!respVars, RangedP!respVars, Parts!bodyVars, RangedP!bodyVars, Parts!ghosts,
       RangedP!ghosts, Parts!Files, RangedP!Files, Parts!TypeOK, RangedP!TypeOK, Parts!Init,
       RangedP!Init, Parts!At, RangedP!At, Parts!To, RangedP!To, Parts!Status, RangedP!Status,
       Parts!Ends, RangedP!Ends, Parts!Disturbs, RangedP!Disturbs, Parts!Begin, RangedP!Begin,
       Parts!IsNotModified, RangedP!IsNotModified, Parts!Dispatch, RangedP!Dispatch,
       Parts!Remove, RangedP!Remove, Parts!Done, RangedP!Done, Parts!IsRange, RangedP!IsRange,
       Parts!R1, RangedP!R1, Parts!ContentLength, RangedP!ContentLength, Parts!Open,
       RangedP!Open, Parts!Next1, RangedP!Next1, Parts!Send, RangedP!Send, Parts!Put,
       RangedP!Put, Parts!PutDir, RangedP!PutDir, Parts!MkDir, RangedP!MkDir, Parts!PutOpen,
       RangedP!PutOpen, Parts!Take, RangedP!Take, Parts!Put1, RangedP!Put1, Parts!Write,
       RangedP!Write, Parts!Close, RangedP!Close, Parts!Tick, RangedP!Tick, Parts!Next,
       RangedP!Next, Parts!Served, RangedP!Served, Parts!Satisfiable, RangedP!Satisfiable,
       Parts!SentAsAnnounced, RangedP!SentAsAnnounced, Parts!NotModifiedIsTrue,
       RangedP!NotModifiedIsTrue, Parts!PutIsStored, RangedP!PutIsStored, Parts!FilesAreClosed,
       RangedP!FilesAreClosed, Parts!vars, RangedP!vars, Parts!ParsedDate, RangedP!ParsedDate,
       Parts!IsDir, RangedP!IsDir, Parts!AfterDir, RangedP!AfterDir, Parts!WriteFails,
       RangedP!WriteFails, Parts!CallFails, RangedP!CallFails, Parts!InLostDay,
       RangedP!InLostDay

LEMMA NewIsNewFile ==
  /\ (NewFile!FilesAssumption <=> NewP!FilesAssumption) /\ (NewFile!Init <=> NewP!Init)
  /\ (NewFile!Next <=> NewP!Next) /\ NewFile!vars = NewP!vars
  /\ (NewFile!TypeOK <=> NewP!TypeOK) /\ (NewFile!FilesAreClosed <=> NewP!FilesAreClosed)
  /\ (NewFile!SentAsAnnounced <=> NewP!SentAsAnnounced)
  /\ (NewFile!NotModifiedIsTrue <=> NewP!NotModifiedIsTrue)
  /\ (NewFile!PutIsStored <=> NewP!PutIsStored)
BY DEF NewFile!FilesAssumption, NewP!FilesAssumption, NewFile!fileVars, NewP!fileVars,
       NewFile!respVars, NewP!respVars, NewFile!bodyVars, NewP!bodyVars, NewFile!ghosts,
       NewP!ghosts, NewFile!Files, NewP!Files, NewFile!TypeOK, NewP!TypeOK, NewFile!Init,
       NewP!Init, NewFile!At, NewP!At, NewFile!To, NewP!To, NewFile!Status, NewP!Status,
       NewFile!Ends, NewP!Ends, NewFile!Disturbs, NewP!Disturbs, NewFile!Begin, NewP!Begin,
       NewFile!IsNotModified, NewP!IsNotModified, NewFile!Dispatch, NewP!Dispatch,
       NewFile!Remove, NewP!Remove, NewFile!Done, NewP!Done, NewFile!IsRange, NewP!IsRange,
       NewFile!R1, NewP!R1, NewFile!ContentLength, NewP!ContentLength, NewFile!Open, NewP!Open,
       NewFile!Next1, NewP!Next1, NewFile!Send, NewP!Send, NewFile!Put, NewP!Put,
       NewFile!PutDir, NewP!PutDir, NewFile!MkDir, NewP!MkDir, NewFile!PutOpen, NewP!PutOpen,
       NewFile!Take, NewP!Take, NewFile!Put1, NewP!Put1, NewFile!Write, NewP!Write,
       NewFile!Close, NewP!Close, NewFile!Tick, NewP!Tick, NewFile!Next, NewP!Next,
       NewFile!Served, NewP!Served, NewFile!Satisfiable, NewP!Satisfiable,
       NewFile!SentAsAnnounced, NewP!SentAsAnnounced, NewFile!NotModifiedIsTrue,
       NewP!NotModifiedIsTrue, NewFile!PutIsStored, NewP!PutIsStored, NewFile!FilesAreClosed,
       NewP!FilesAreClosed, NewFile!vars, NewP!vars, NewFile!ParsedDate, NewP!ParsedDate,
       NewFile!IsDir, NewP!IsDir, NewFile!AfterDir, NewP!AfterDir, NewFile!WriteFails,
       NewP!WriteFails, NewFile!CallFails, NewP!CallFails, NewFile!InLostDay, NewP!InLostDay

\* The three instances of MgFiles
LEMMA FilesInitHolds == ASSUME Files!FilesAssumption, Files!Init PROVE SentP!FilesInv
BY SentIsFiles, SentP!InitHolds

LEMMA FilesNextKeeps ==
  ASSUME Files!FilesAssumption, SentP!FilesInv, [Files!Next]_Files!vars PROVE SentP!FilesInv'
<1>1. SentP!FilesAssumption
  BY SentIsFiles
<1>2. CASE Files!Next
  <2>1. SentP!Next
    BY <1>2, SentIsFiles
  <2> QED
    BY <1>1, <2>1, SentP!NextKeeps
<1>3. CASE UNCHANGED Files!vars
  <2>1. UNCHANGED SentP!vars
    BY <1>3 DEF
        Files!vars, SentP!vars, Files!fileVars, SentP!fileVars, Files!respVars, SentP!respVars,
        Files!bodyVars, SentP!bodyVars, Files!ghosts, SentP!ghosts
  <2> QED
    BY <1>1, <2>1, SentP!NextKeeps
<1> QED
  BY <1>2, <1>3

LEMMA FilesAreRight ==
  ASSUME Files!FilesAssumption, SentP!FilesInv
  PROVE  /\ Files!TypeOK /\ Files!FilesAreClosed /\ Files!SentAsAnnounced
         /\ Files!NotModifiedIsTrue /\ Files!PutIsStored
BY SentIsFiles, SentP!TypesHold, SentP!ClosedHolds, SentP!SentHolds, SentP!NotModifiedHolds,
   SentP!StoredHolds

LEMMA PartsInitHolds == ASSUME Parts!FilesAssumption, Parts!Init PROVE RangedP!FilesInv
BY RangedIsParts, RangedP!InitHolds

LEMMA PartsNextKeeps ==
  ASSUME Parts!FilesAssumption, RangedP!FilesInv, [Parts!Next]_Parts!vars PROVE RangedP!FilesInv'
<1>1. RangedP!FilesAssumption
  BY RangedIsParts
<1>2. CASE Parts!Next
  <2>1. RangedP!Next
    BY <1>2, RangedIsParts
  <2> QED
    BY <1>1, <2>1, RangedP!NextKeeps
<1>3. CASE UNCHANGED Parts!vars
  <2>1. UNCHANGED RangedP!vars
    BY <1>3 DEF
        Parts!vars, RangedP!vars, Parts!fileVars, RangedP!fileVars, Parts!respVars,
        RangedP!respVars, Parts!bodyVars, RangedP!bodyVars, Parts!ghosts, RangedP!ghosts
  <2> QED
    BY <1>1, <2>1, RangedP!NextKeeps
<1> QED
  BY <1>2, <1>3

LEMMA PartsAreRight ==
  ASSUME Parts!FilesAssumption, RangedP!FilesInv
  PROVE  /\ Parts!TypeOK /\ Parts!FilesAreClosed /\ Parts!SentAsAnnounced
         /\ Parts!NotModifiedIsTrue /\ Parts!PutIsStored
BY RangedIsParts, RangedP!TypesHold, RangedP!ClosedHolds, RangedP!SentHolds,
   RangedP!NotModifiedHolds, RangedP!StoredHolds

LEMMA NewFileInitHolds == ASSUME NewFile!FilesAssumption, NewFile!Init PROVE NewP!FilesInv
BY NewIsNewFile, NewP!InitHolds

LEMMA NewFileNextKeeps ==
  ASSUME NewFile!FilesAssumption, NewP!FilesInv, [NewFile!Next]_NewFile!vars PROVE NewP!FilesInv'
<1>1. NewP!FilesAssumption
  BY NewIsNewFile
<1>2. CASE NewFile!Next
  <2>1. NewP!Next
    BY <1>2, NewIsNewFile
  <2> QED
    BY <1>1, <2>1, NewP!NextKeeps
<1>3. CASE UNCHANGED NewFile!vars
  <2>1. UNCHANGED NewP!vars
    BY <1>3 DEF
        NewFile!vars, NewP!vars, NewFile!fileVars, NewP!fileVars, NewFile!respVars, NewP!respVars,
        NewFile!bodyVars, NewP!bodyVars, NewFile!ghosts, NewP!ghosts
  <2> QED
    BY <1>1, <2>1, NewP!NextKeeps
<1> QED
  BY <1>2, <1>3

LEMMA NewFileAreRight ==
  ASSUME NewFile!FilesAssumption, NewP!FilesInv
  PROVE  /\ NewFile!TypeOK /\ NewFile!FilesAreClosed /\ NewFile!SentAsAnnounced
         /\ NewFile!NotModifiedIsTrue /\ NewFile!PutIsStored
BY NewIsNewFile, NewP!TypesHold, NewP!ClosedHolds, NewP!SentHolds, NewP!NotModifiedHolds,
   NewP!StoredHolds

LEMMA CgiIsRight ==
  ASSUME CgiInv PROVE Cgi!TypeOK /\ Cgi!NothingLeftBehind /\ Cgi!OneResponse
BY CgiTypesHold, NothingIsLeft, OneAnswerHolds

-----------------------------------------------------------------------------
(* A behaviour of one of them.                                             *)

\* The invariant of the part that runs.
HandlersInv ==
  \/ what = "files" /\ SentP!FilesInv
  \/ what = "ranges" /\ RangedP!FilesInv
  \/ what = "new_file" /\ NewP!FilesInv
  \/ what = "cgi" /\ CgiInv
  \/ what = "environment" /\ EnvInv
  \/ what = "start" /\ StartInv
  \/ what = "passwords" /\ PasswordsInv
  \/ what = "directory" /\ DirInv
  \/ what = "log" /\ LogInv

\* Each part begins with its own invariant.
LEMMA HandlersInitHolds == ASSUME PartsAssumption, Init PROVE HandlersInv
<1> USE DEF PartsAssumption
<1>1. CASE what = "files" /\ Files!Init
  BY <1>1, FilesInitHolds DEF HandlersInv
<1>2. CASE what = "ranges" /\ Parts!Init
  BY <1>2, PartsInitHolds DEF HandlersInv
<1>3. CASE what = "new_file" /\ NewFile!Init
  BY <1>3, NewFileInitHolds DEF HandlersInv
<1>4. CASE what = "cgi" /\ Cgi!Init
  BY <1>4, InitCgi DEF HandlersInv
<1>5. CASE what = "environment" /\ CgiEnv!Init
  BY <1>5, EnvInitHolds DEF HandlersInv
<1>6. CASE what = "start" /\ Start!Init
  BY <1>6, StartInitHolds DEF HandlersInv
<1>7. CASE what = "passwords" /\ Htpasswd!Init
  BY <1>7, PasswordsInitHolds DEF HandlersInv
<1>8. CASE what = "directory" /\ Directory!Init
  BY <1>8, DirInitHolds DEF HandlersInv
<1>9. CASE what = "log" /\ Log!Init
  BY <1>9, LogInitHolds DEF HandlersInv
<1> QED
  BY <1>1, <1>2, <1>3, <1>4, <1>5, <1>6, <1>7, <1>8, <1>9 DEF Init

\* Each part keeps its own, and no step changes which part runs.
LEMMA HandlersNextKeeps == ASSUME PartsAssumption, HandlersInv, Next PROVE HandlersInv'
<1> USE DEF PartsAssumption
<1>1. CASE OfFiles /\ what = "files" /\ Files!Next
  <2>1. what' = "files" /\ SentP!FilesInv
    BY <1>1 DEF OfFiles, HandlersInv
  <2> QED
    BY <1>1, <2>1, FilesNextKeeps DEF HandlersInv
<1>2. CASE OfFiles /\ what = "ranges" /\ Parts!Next
  <2>1. what' = "ranges" /\ RangedP!FilesInv
    BY <1>2 DEF OfFiles, HandlersInv
  <2> QED
    BY <1>2, <2>1, PartsNextKeeps DEF HandlersInv
<1>3. CASE OfFiles /\ what = "new_file" /\ NewFile!Next
  <2>1. what' = "new_file" /\ NewP!FilesInv
    BY <1>3 DEF OfFiles, HandlersInv
  <2> QED
    BY <1>3, <2>1, NewFileNextKeeps DEF HandlersInv
<1>4. CASE OfCgi /\ Cgi!Next
  <2>1. what' = "cgi" /\ CgiInv
    BY <1>4 DEF OfCgi, HandlersInv
  <2> QED
    BY <1>4, <2>1, NextCgi DEF HandlersInv
<1>5. CASE OfCgiEnv /\ CgiEnv!Next
  <2>1. what' = "environment" /\ EnvInv
    BY <1>5 DEF OfCgiEnv, HandlersInv
  <2> QED
    BY <1>5, <2>1, EnvNextKeeps DEF HandlersInv
<1>6. CASE OfStart /\ Start!Next
  <2>1. what' = "start" /\ StartInv
    BY <1>6 DEF OfStart, HandlersInv
  <2> QED
    BY <1>6, <2>1, StartNextKeeps DEF HandlersInv
<1>7. CASE OfPasswords /\ Htpasswd!Next
  <2>1. what' = "passwords" /\ PasswordsInv
    BY <1>7 DEF OfPasswords, HandlersInv
  <2> QED
    BY <1>7, <2>1, PasswordsNextKeeps DEF HandlersInv
<1>8. CASE OfDirectory /\ Directory!Next
  <2>1. what' = "directory" /\ DirInv
    BY <1>8 DEF OfDirectory, HandlersInv
  <2> QED
    BY <1>8, <2>1, DirNextKeeps DEF HandlersInv
<1>9. CASE OfLog /\ Log!Next
  <2>1. what' = "log" /\ LogInv
    BY <1>9 DEF OfLog, HandlersInv
  <2> QED
    BY <1>9, <2>1, LogNextKeeps DEF HandlersInv
<1> QED
  BY <1>1, <1>2, <1>3, <1>4, <1>5, <1>6, <1>7, <1>8, <1>9 DEF Next

\* Nor does a step of none of them.
LEMMA HandlersStutterKeeps ==
  ASSUME PartsAssumption, HandlersInv, UNCHANGED allVars PROVE HandlersInv'
<1> USE DEF PartsAssumption
<1>0. /\ UNCHANGED <<what, pc, out, read, failed>>
      /\ UNCHANGED filesVars /\ UNCHANGED cgiVars /\ UNCHANGED envVars /\ UNCHANGED startVars
      /\ UNCHANGED passwordsVars /\ UNCHANGED directoryVars /\ UNCHANGED logVars
  BY DEF allVars
<1>1. CASE what = "files" /\ SentP!FilesInv
  <2>1. UNCHANGED Files!vars
    BY <1>0 DEF filesVars, Files!vars, Files!fileVars, Files!respVars, Files!bodyVars, Files!ghosts
  <2> QED
    BY <1>0, <1>1, <2>1, FilesNextKeeps DEF HandlersInv
<1>2. CASE what = "ranges" /\ RangedP!FilesInv
  <2>1. UNCHANGED Parts!vars
    BY <1>0 DEF filesVars, Parts!vars, Parts!fileVars, Parts!respVars, Parts!bodyVars, Parts!ghosts
  <2> QED
    BY <1>0, <1>2, <2>1, PartsNextKeeps DEF HandlersInv
<1>3. CASE what = "new_file" /\ NewP!FilesInv
  <2>1. UNCHANGED NewFile!vars
    BY <1>0 DEF filesVars, NewFile!vars, NewFile!fileVars, NewFile!respVars, NewFile!bodyVars,
                NewFile!ghosts
  <2> QED
    BY <1>0, <1>3, <2>1, NewFileNextKeeps DEF HandlersInv
<1>4. CASE what = "cgi" /\ CgiInv
  <2>1. UNCHANGED Cgi!vars
    BY <1>0 DEF cgiVars, Cgi!vars, Cgi!procVars, Cgi!fdVars, Cgi!dataVars, Cgi!reqVars
  <2> QED
    BY <1>0, <1>4, <2>1, NextCgi DEF HandlersInv
<1>5. CASE what = "environment" /\ EnvInv
  <2>1. UNCHANGED <<pc, buf, len, vars, nvars, kept>>
    BY <1>0 DEF envVars
  <2> QED
    BY <1>0, <1>5, <2>1, EnvStutterKeeps DEF HandlersInv
<1>6. CASE what = "start" /\ StartInv
  <2>1. UNCHANGED <<pc, config, list, listening, fds, heap, callbacks, failed>>
    BY <1>0 DEF startVars
  <2> QED
    BY <1>0, <1>6, <2>1, StartStutterKeeps DEF HandlersInv
<1>7. CASE what = "passwords" /\ PasswordsInv
  <2>1. UNCHANGED <<file, tmp, pc, user, pass, at, out, found, before, short, lost, calls>>
    BY <1>0 DEF passwordsVars
  <2> QED
    BY <1>0, <1>7, <2>1, PasswordsStutterKeeps DEF HandlersInv
<1>8. CASE what = "directory" /\ DirInv
  <2>1. UNCHANGED <<stat, query, pc, read, entries, strings, arr_size, allocated, failed, printed>>
    BY <1>0 DEF directoryVars
  <2> QED
    BY <1>0, <1>8, <2>1, DirStutterKeeps DEF HandlersInv
<1>9. CASE what = "log" /\ LogInv
  <2>1. UNCHANGED <<log, pc, line, left, size, buffer>>
    BY <1>0 DEF logVars
  <2> QED
    BY <1>0, <1>9, <2>1, LogStutterKeeps DEF HandlersInv
<1> QED
  BY <1>1, <1>2, <1>3, <1>4, <1>5, <1>6, <1>7, <1>8, <1>9 DEF HandlersInv

\* So it holds in every state.
LEMMA HandlersInvariant == Spec => []HandlersInv
<1>1. ASSUME Init PROVE HandlersInv
  BY <1>1, PartsAssumption, HandlersInitHolds
<1>2. ASSUME HandlersInv, [Next]_allVars PROVE HandlersInv'
  BY <1>2, PartsAssumption, HandlersNextKeeps, HandlersStutterKeeps
<1> QED
  BY <1>1, <1>2, PTL DEF Spec

\* What the invariant of each part says of what it leaves and of what it answers.
LEMMA HandlersAreRight ==
  ASSUME PartsAssumption, HandlersInv PROVE FailuresLeaveNothing /\ AnswersAreTrue
<1> USE DEF PartsAssumption
<1>1. CASE what = "files" /\ SentP!FilesInv
  <2>1. /\ Files!TypeOK /\ Files!FilesAreClosed /\ Files!SentAsAnnounced
        /\ Files!NotModifiedIsTrue /\ Files!PutIsStored
    BY <1>1, FilesAreRight
  <2> QED
    BY <1>1, <2>1 DEF FailuresLeaveNothing, AnswersAreTrue
<1>2. CASE what = "ranges" /\ RangedP!FilesInv
  <2>1. Parts!TypeOK /\ Parts!FilesAreClosed /\ Parts!SentAsAnnounced /\ Parts!PutIsStored
    BY <1>2, PartsAreRight
  <2> QED
    BY <1>2, <2>1 DEF FailuresLeaveNothing, AnswersAreTrue
<1>3. CASE what = "new_file" /\ NewP!FilesInv
  <2>1. NewFile!TypeOK /\ NewFile!FilesAreClosed /\ NewFile!PutIsStored
    BY <1>3, NewFileAreRight
  <2> QED
    BY <1>3, <2>1 DEF FailuresLeaveNothing, AnswersAreTrue
<1>4. CASE what = "cgi" /\ CgiInv
  <2>1. Cgi!TypeOK /\ Cgi!NothingLeftBehind /\ Cgi!OneResponse
    BY <1>4, CgiIsRight
  <2> QED
    BY <1>4, <2>1 DEF FailuresLeaveNothing, AnswersAreTrue
<1>5. CASE what = "environment" /\ EnvInv
  <2>1. CgiEnv!EnvFits /\ CgiEnv!VariablesAreWhole /\ CgiEnv!BlockIsContiguous
    BY <1>5, EnvIsRight
  <2> QED
    BY <1>5, <2>1 DEF FailuresLeaveNothing, AnswersAreTrue
<1>6. CASE what = "start" /\ StartInv
  <2>1. /\ Start!FailureUndoes /\ Start!StopUndoes /\ Start!ListensAsTold
        /\ Start!LastMatchDecides
    BY <1>6, StartIsRight
  <2> QED
    BY <1>6, <2>1 DEF FailuresLeaveNothing, AnswersAreTrue
<1>7. CASE what = "passwords" /\ PasswordsInv
  <2>1. Htpasswd!OldOrNew
    BY <1>7, PasswordsAreRight
  <2> QED
    BY <1>7, <2>1 DEF FailuresLeaveNothing, AnswersAreTrue
<1>8. CASE what = "directory" /\ DirInv
  <2>1. /\ Directory!EntriesFit /\ Directory!NamesAreFreed /\ Directory!CompareIsOrder
        /\ Directory!ListIsDirectory
    BY <1>8, DirIsRight DEF DirInv
  <2> QED
    BY <1>8, <2>1 DEF FailuresLeaveNothing, AnswersAreTrue
<1>9. CASE what = "log" /\ LogInv
  <2>1. Log!ShortLinesAreWhole /\ Log!LinesAreLogged
    BY <1>9, LogIsRight
  <2> QED
    BY <1>9, <2>1 DEF FailuresLeaveNothing, AnswersAreTrue
<1> QED
  BY <1>1, <1>2, <1>3, <1>4, <1>5, <1>6, <1>7, <1>8, <1>9 DEF HandlersInv

(***************************************************************************)
(* For any number of workers, any files, ranges and programs, options,     *)
(* lists, directories and users, and any size of the buffers: when a call  *)
(* fails that the modules let fail, no descriptor, process or allocation   *)
(* of a request outlives it, but for a range of a packed file and the      *)
(* names of a list when memory ends; a server that does not start gives    *)
(* back what it took, but for the sockets when what comes after them       *)
(* fails; the password file is the old one or the new one, but for a copy  *)
(* of which something was not read or written and for a call that finds    *)
(* only the copy; and no array is written past its end (mongoose.c         *)
(* 2478-2539, 2713-2729, 2884-2920, 3150-3170, 3410-3431, 5068-5184).      *)
(***************************************************************************)
THEOREM HandlersLeaveNothing == Spec => []FailuresLeaveNothing
<1>1. HandlersInv => FailuresLeaveNothing
  BY PartsAssumption, HandlersAreRight
<1> QED
  BY <1>1, HandlersInvariant, PTL

(***************************************************************************)
(* For the same: a file is sent as announced, if no call fails; a 304      *)
(* means the client's copy, unless its date was read as a day later; of a  *)
(* PUT that is answered with success every byte is in the file, if every   *)
(* write succeeds; there is one status line, a program's variables are     *)
(* whole and in one block, the server listens as it was told and the last  *)
(* matching entry of its access list decides, each name of a directory is  *)
(* listed once in an order, and a line of the log that fits the stream's   *)
(* buffer is in one piece (mongoose.c 612-649, 1879-1902, 2627-2778,       *)
(* 2856-2919, 3055-3063, 3156-3173, 3262-3274, 3317-3408, 3475-3497,       *)
(* 4319-4474).                                                             *)
(***************************************************************************)
THEOREM HandlersTellTheTruth == Spec => []AnswersAreTrue
<1>1. HandlersInv => AnswersAreTrue
  BY PartsAssumption, HandlersAreRight
<1> QED
  BY <1>1, HandlersInvariant, PTL

==============================================================================
