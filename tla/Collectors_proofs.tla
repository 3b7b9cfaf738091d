-------------------------- MODULE Collectors_proofs --------------------------
(***************************************************************************)
(* What a sample is made from, for every value of the constants: what      *)
(* file_to_buffer leaves in the buffer, in however many pieces the file    *)
(* came; a frame's numbers, for every mantissa, counter and number of      *)
(* ticks; and what the collectors read, whatever lines the kernel's files  *)
(* have and however many.                                                  *)
(*                                                                         *)
(* The sums, the list of interfaces and the powers of two are recursive    *)
(* functions.  That they exist and what they are is shown from the least   *)
(* number for which it would fail: LeastNatural, EveryNatural and          *)
(* RecursionExists stand for the induction.                                *)
(***************************************************************************)
EXTENDS MCCollectors, FiniteSetTheorems, SequenceTheorems, WellFoundedInduction, TLAPS

\* A length and the -1 of a failed read, in unsigned words.
LEMMA OneLess ==
  ASSUME NEW n \in Nat, NEW w \in Nat, n < w
  PROVE  (n + w - 1) % w = IF n = 0 THEN w - 1 ELSE n - 1
<1>1. CASE n = 0
  <2>1. n + w - 1 = w - 1 /\ w - 1 \in 0 .. w - 1 /\ w > 0
    BY <1>1
  <2>2. (w - 1) % w = w - 1
    BY <2>1
  <2> QED
    BY <1>1, <2>1, <2>2
<1>2. CASE n # 0
  <2> DEFINE r == (n + w - 1) % w
             q == (n + w - 1) \div w
  <2>1. n + w - 1 \in Int /\ w > 0
    BY <1>2
  <2>2. r \in 0 .. w - 1 /\ q \in Int /\ n + w - 1 = w * q + r
    BY <2>1
  <2> QED
    BY <1>2, <2>1, <2>2
<1> QED
  BY <1>1, <1>2

-----------------------------------------------------------------------------
(* The inductive invariant.                                                *)

\* The buffer and its length have their types: len is a word, and no byte is stored
\* behind the place of the terminator (common.c:22-34).
THEOREM TypeCorrect == Spec => []TypeOK
<1>1. Init => TypeOK
  BY FileToBufferAssumption DEF Init, TypeOK
<1>2. TypeOK /\ [Next]_vars => TypeOK'
  <2> SUFFICES ASSUME TypeOK, [Next]_vars PROVE TypeOK'
    OBVIOUS
  <2> USE FileToBufferAssumption DEF TypeOK
  <2>1. CASE ReadSome
    <3>1. PICK n \in 1 .. (size - pos) :
            /\ n <= BufSize - 1 - len
            /\ pos' = pos + n /\ len' = len + n
            /\ buffer' = [i \in Places |->
                 IF i >= len /\ i < len + n THEN pos + i - len + 1 ELSE buffer[i]]
      BY <2>1 DEF ReadSome
    <3>2. pos' \in 0 .. size /\ len' \in 0 .. Word - 1
      BY <3>1
    <3>3. buffer' \in [Places -> 0 .. size]
      BY <3>1 DEF Places
    <3> QED
      BY <2>1, <3>2, <3>3 DEF ReadSome
  <2>2. CASE ReadEnd  BY <2>2 DEF ReadEnd
  <2>3. CASE ReadFails
    <3>1. len' \in 0 .. Word - 1
      BY <2>3, OneLess DEF ReadFails
    <3> QED
      BY <2>3, <3>1 DEF ReadFails
  <2>4. CASE Terminate  BY <2>4 DEF Terminate
  <2>5. CASE UNCHANGED vars  BY <2>5 DEF vars
  <2> QED
    BY <2>1, <2>2, <2>3, <2>4, <2>5 DEF Next
<1> QED
  BY <1>1, <1>2, PTL DEF Spec

\* A length that has gone below 0 ends the loop at once; until then it is what was
\* read without a byte for every failure.
LenInv ==
  /\ Emptied => failed = pos + 1 /\ len = Word - 1 /\ pc # "close"
  /\ ~ Emptied => len = pos - failed /\ len <= BufSize - 1
  /\ pc = "close" => pos = size
  /\ pc = "done" => end = len /\ (Emptied \/ pos = size \/ len = BufSize - 1)

\* What is in the buffer up to there comes from the file in its order, and is the
\* beginning of it as long as no read has failed.
BytesInv ==
  ~ Emptied =>
    /\ \A i \in 0 .. len - 1 : buffer[i] \in 1 .. pos
    /\ \A i, j \in 0 .. len - 1 : i < j => buffer[i] < buffer[j]
    /\ failed = 0 => \A i \in 0 .. len - 1 : buffer[i] = i + 1

IInv == TypeOK /\ LenInv /\ BytesInv

LEMMA LenInvStep == TypeOK /\ LenInv /\ [Next]_vars => LenInv'
<1> SUFFICES ASSUME TypeOK, LenInv, [Next]_vars PROVE LenInv'
  OBVIOUS
<1> USE FileToBufferAssumption DEF TypeOK, LenInv, Emptied
<1>1. CASE ReadSome
  BY <1>1 DEF ReadSome, Reading
<1>2. CASE ReadEnd
  BY <1>2 DEF ReadEnd, Reading
<1>3. CASE ReadFails
  <2>1. ~ Emptied
    BY <1>3 DEF ReadFails, Reading
  <2>2. len \in 0 .. Word - 1 /\ len' = (len + Word - 1) % Word
    BY <1>3 DEF ReadFails
  <2>3. failed' = failed + 1 /\ pos' = pos /\ pc' = "read" /\ UNCHANGED <<size, end>>
    BY <1>3 DEF ReadFails, Reading
  <2>4. CASE len = 0
    <3>1. len' = Word - 1
      BY <2>2, <2>4, OneLess
    <3> QED
      BY <2>1, <2>3, <2>4, <3>1
  <2>5. CASE len # 0
    <3>1. len' = len - 1
      BY <2>2, <2>5, OneLess
    <3> QED
      BY <2>1, <2>3, <2>5, <3>1
  <2> QED
    BY <2>4, <2>5
<1>4. CASE Terminate
  BY <1>4 DEF Terminate
<1>5. CASE UNCHANGED vars
  BY <1>5 DEF vars
<1> QED
  BY <1>1, <1>2, <1>3, <1>4, <1>5 DEF Next

LEMMA BytesInvStep == IInv /\ [Next]_vars => BytesInv'
<1> SUFFICES ASSUME TypeOK, LenInv, BytesInv, [Next]_vars PROVE BytesInv'
  BY DEF IInv
<1> USE FileToBufferAssumption DEF TypeOK, LenInv, BytesInv, Emptied
<1>1. CASE ReadSome
  <2>1. PICK n \in 1 .. (size - pos) :
          /\ n <= BufSize - 1 - len
          /\ pos' = pos + n /\ len' = len + n
          /\ buffer' = [i \in Places |->
               IF i >= len /\ i < len + n THEN pos + i - len + 1 ELSE buffer[i]]
    BY <1>1 DEF ReadSome
  <2>2. ~ Emptied
    BY <1>1 DEF ReadSome, Reading
  <2>3. \A i \in 0 .. len' - 1 :
          buffer'[i] = IF i >= len THEN pos + i - len + 1 ELSE buffer[i]
    BY <2>1, <2>2 DEF Places
  <2>4. len' = len + n /\ pos' = pos + n /\ failed' = failed
    BY <1>1, <2>1 DEF ReadSome
  <2>5. \A i \in 0 .. len' - 1 : buffer'[i] \in 1 .. pos'
    BY <2>2, <2>3, <2>4
  <2>6. \A i, j \in 0 .. len' - 1 : i < j => buffer'[i] < buffer'[j]
    BY <2>2, <2>3, <2>4
  <2>7. failed' = 0 => \A i \in 0 .. len' - 1 : buffer'[i] = i + 1
    BY <2>2, <2>3, <2>4
  <2> QED
    BY <2>5, <2>6, <2>7
<1>2. CASE ReadEnd
  BY <1>2 DEF ReadEnd
<1>3. CASE ReadFails
  <2>1. len' = IF len = 0 THEN Word - 1 ELSE len - 1
    BY <1>3, OneLess DEF ReadFails
  <2> QED
    BY <1>3, <2>1 DEF ReadFails, Reading
<1>4. CASE Terminate
  BY <1>4 DEF Terminate
<1>5. CASE UNCHANGED vars
  BY <1>5 DEF vars
<1> QED
  BY <1>1, <1>2, <1>3, <1>4, <1>5 DEF Next

LEMMA Invariance == Spec => []IInv
<1>1. Init => IInv
  BY FileToBufferAssumption DEF Init, IInv, TypeOK, LenInv, BytesInv, Emptied
<1>2. IInv /\ TypeOK' /\ [Next]_vars => IInv'
  BY LenInvStep, BytesInvStep DEF IInv
<1> QED
  BY <1>1, <1>2, TypeCorrect, PTL DEF Spec

-----------------------------------------------------------------------------
(* The properties.                                                         *)

\* Without a failed read the buffer holds the file, or as much of it as fits, and ends
\* there, whatever pieces read() gave (common.c:22-34).
THEOREM HoldsTheFile == Spec => []BufferIsFile
<1>1. IInv => BufferIsFile
  BY FileToBufferAssumption DEF IInv, TypeOK, LenInv, BytesInv, Emptied, BufferIsFile
<1> QED
  BY <1>1, Invariance, PTL

\* The terminator is inside the buffer, unless a read failed when nothing was left in
\* it (common.c:27-33).
THEOREM EndsInside == Spec => []TerminatorInside
<1>1. IInv => TerminatorInside
  BY FileToBufferAssumption DEF IInv, TypeOK, LenInv, BytesInv, Emptied, TerminatorInside
<1> QED
  BY <1>1, Invariance, PTL

-----------------------------------------------------------------------------
(* Induction.                                                              *)

LEMMA LeastNatural ==
  ASSUME NEW S \in SUBSET Nat, S # {} PROVE \E i \in S : \A j \in S : i <= j
<1> DEFINE R == {ss \in Nat \X Nat : ss[1] < ss[2]}
<1>1. IsWellFoundedOn(R, Nat)
  BY NatLessThanWellFounded DEF OpToRel
<1>2. PICK i \in S : \A j \in S : ~ (<<j, i>> \in R)
  <2> HIDE DEF R
  <2> QED
    BY <1>1, WFMin
<1>3. \A j \in S : ~ (j < i)
  BY <1>2
<1> QED
  BY <1>3

\* Induction, over a set of numbers.
LEMMA EveryNatural ==
  ASSUME NEW S \in SUBSET Nat, 0 \in S, \A i \in S : i + 1 \in S PROVE S = Nat
<1> DEFINE out == Nat \ S
<1> SUFFICES ASSUME out # {} PROVE FALSE
  OBVIOUS
<1>1. PICK i \in out : \A j \in out : i <= j
  <2>1. out \in SUBSET Nat
    OBVIOUS
  <2> HIDE DEF out
  <2> QED
    BY <2>1, LeastNatural
<1>2. i # 0 /\ i - 1 \in Nat /\ ~ (i <= i - 1)
  OBVIOUS
<1>3. i - 1 \in S
  BY <1>1, <1>2
<1>4. (i - 1) + 1 \in S /\ (i - 1) + 1 = i
  BY <1>3
<1> QED
  BY <1>4

\* A function of numbers is given by its first value and by the step to each.
Follows(f, n, base, G) == f[0] = base /\ \A i \in 1 .. n : f[i] = G[i][f[i - 1]]

LEMMA RecursionExists ==
  ASSUME NEW V, NEW base \in V, NEW N \in Nat, NEW G \in [1 .. N -> [V -> V]]
  PROVE  \E f \in [0 .. N -> V] : Follows(f, N, base, G)
<1> DEFINE Up(m, f) == Follows(f, m, base, G)
           Have(m) == m <= N => \E f \in [0 .. m -> V] : Up(m, f)
           S == {m \in Nat : Have(m)}
<1>1. 0 \in S
  <2> DEFINE f == [i \in 0 .. 0 |-> base]
  <2>1. f \in [0 .. 0 -> V] /\ Up(0, f)
    BY DEF Follows
  <2>2. Have(0)
    <3> HIDE DEF f, Up
    <3> QED
      BY <2>1
  <2> HIDE DEF Have
  <2> QED
    BY <2>2
<1>2. ASSUME NEW m \in S PROVE m + 1 \in S
  <2>1. Have(m + 1)
    <3> SUFFICES ASSUME m + 1 <= N PROVE \E f \in [0 .. m + 1 -> V] : Up(m + 1, f)
      OBVIOUS
    <3>1. PICK f \in [0 .. m -> V] : Up(m, f)
      OBVIOUS
    <3>2. m + 1 \in 1 .. N /\ G[m + 1] \in [V -> V] /\ f[m] \in V
      OBVIOUS
    <3> DEFINE g == [i \in 0 .. m + 1 |-> IF i = m + 1 THEN G[m + 1][f[m]] ELSE f[i]]
    <3>3. g \in [0 .. m + 1 -> V]
      BY <3>2
    <3>4. ASSUME NEW i \in 1 .. m + 1 PROVE g[i] = G[i][g[i - 1]]
      <4>1. CASE i = m + 1
        <5>1. g[i] = G[m + 1][f[m]] /\ i - 1 = m /\ g[m] = f[m]
          BY <4>1
        <5> QED
          BY <4>1, <5>1
      <4>2. CASE i # m + 1
        <5>1. i \in 1 .. m /\ g[i] = f[i] /\ g[i - 1] = f[i - 1]
          BY <4>2
        <5> QED
          BY <3>1, <5>1 DEF Follows
      <4> QED
        BY <4>1, <4>2
    <3>5. Up(m + 1, g)
      <4>1. g[0] = f[0] /\ f[0] = base
        BY <3>1 DEF Follows
      <4> QED
        BY <3>4, <4>1 DEF Follows
    <3> HIDE DEF g, Up
    <3> QED
      BY <3>3, <3>5
  <2> HIDE DEF Have
  <2> QED
    BY <2>1
<1>3. S = Nat
  <2>1. S \in SUBSET Nat
    OBVIOUS
  <2> HIDE DEF S
  <2> QED
    BY <1>1, <1>2, <2>1, EveryNatural
<1>4. Have(N)
  <2> HIDE DEF Have
  <2> QED
    BY <1>3
<1> QED
  BY <1>4

\* The mantissa has a bit.
LEMMA MantissaType == Mantissa \in Nat \ {0}
BY PartsAssumption DEF Sample!SampleArithmeticAssumption

-----------------------------------------------------------------------------
(* Powers of two.                                                          *)

\* Up to any number there are powers of two, and one can only be what it is.
Powers(f, n) == f = [i \in 0 .. n |-> IF i = 0 THEN 1 ELSE 2 * f[i - 1]]

LEMMA PowersExist == \A n \in Nat : \E f \in [0 .. n -> Nat] : Powers(f, n)
<1> SUFFICES ASSUME NEW n \in Nat PROVE \E f \in [0 .. n -> Nat] : Powers(f, n)
  OBVIOUS
<1> DEFINE G == [i \in 1 .. n |-> [v \in Nat |-> 2 * v]]
<1>1. G \in [1 .. n -> [Nat -> Nat]] /\ 1 \in Nat
  OBVIOUS
<1>2. PICK f \in [0 .. n -> Nat] : Follows(f, n, 1, G)
  <2> HIDE DEF G
  <2>1. \A b \in Nat : \E f \in [0 .. n -> Nat] : Follows(f, n, b, G)
    BY <1>1, RecursionExists
  <2> QED
    BY <1>1, <2>1
<1>3. f[0] = 1 /\ \A i \in 1 .. n : f[i] = G[i][f[i - 1]]
  <2> HIDE DEF G
  <2> QED
    BY <1>2 DEF Follows
<1>4. ASSUME NEW i \in 0 .. n PROVE f[i] = IF i = 0 THEN 1 ELSE 2 * f[i - 1]
  <2>1. i # 0 => i \in 1 .. n /\ f[i - 1] \in Nat
    OBVIOUS
  <2>2. i # 0 => G[i][f[i - 1]] = 2 * f[i - 1]
    BY <2>1
  <2> HIDE DEF G
  <2> QED
    BY <1>3, <2>1, <2>2
<1>5. f = [i \in 0 .. n |-> IF i = 0 THEN 1 ELSE 2 * f[i - 1]]
  <2> HIDE DEF G
  <2>1. f = [i \in 0 .. n |-> f[i]]
    OBVIOUS
  <2>2. [i \in 0 .. n |-> f[i]] = [i \in 0 .. n |-> IF i = 0 THEN 1 ELSE 2 * f[i - 1]]
    BY ONLY <1>4
  <2> QED
    BY ONLY <2>1, <2>2
<1> HIDE DEF G
<1> QED
  BY <1>5 DEF Powers

LEMMA PowersAgree ==
  ASSUME NEW n \in Nat, NEW f \in [0 .. n -> Nat], Powers(f, n),
         NEW g \in [0 .. n + 1 -> Nat], Powers(g, n + 1)
  PROVE  \A i \in 0 .. n : f[i] = g[i]
<1> DEFINE S == {i \in Nat : i <= n => f[i] = g[i]}
<1>1. \A i \in 0 .. n : /\ f[i] = IF i = 0 THEN 1 ELSE 2 * f[i - 1]
                        /\ g[i] = IF i = 0 THEN 1 ELSE 2 * g[i - 1]
  BY DEF Powers
<1>2. 0 \in S
  BY <1>1
<1>3. ASSUME NEW i \in S PROVE i + 1 \in S
  <2> SUFFICES ASSUME i + 1 <= n PROVE f[i + 1] = g[i + 1]
    OBVIOUS
  <2>1. i + 1 \in 0 .. n /\ i + 1 # 0 /\ (i + 1) - 1 = i /\ f[i] = g[i]
    OBVIOUS
  <2> QED
    BY <1>1, <2>1
<1>4. S = Nat
  <2>1. S \in SUBSET Nat
    OBVIOUS
  <2> HIDE DEF S
  <2> QED
    BY <1>2, <1>3, <2>1, EveryNatural
<1> QED
  BY <1>4

LEMMA PowersOfTwo ==
  /\ Sample!Pow2[0] = 1
  /\ \A n \in Nat : Sample!Pow2[n] \in Nat \ {0} /\ Sample!Pow2[n + 1] = 2 * Sample!Pow2[n]
<1> DEFINE up[n \in Nat] == CHOOSE f \in [0 .. n -> Nat] : Powers(f, n)
           h == [n \in Nat |-> up[n][n]]
<1>1. ASSUME NEW n \in Nat PROVE up[n] \in [0 .. n -> Nat] /\ Powers(up[n], n)
  <2>1. \E f \in [0 .. n -> Nat] : Powers(f, n)
    BY PowersExist
  <2> QED
    BY <2>1
<1>2. ASSUME NEW n \in Nat PROVE h[n] = IF n = 0 THEN 1 ELSE 2 * h[n - 1]
  <2>1. up[n][n] = IF n = 0 THEN 1 ELSE 2 * up[n][n - 1]
    <3>1. up[n] = [i \in 0 .. n |-> IF i = 0 THEN 1 ELSE 2 * up[n][i - 1]]
      BY <1>1 DEF Powers
    <3> HIDE DEF up
    <3>2. n \in 0 .. n
      OBVIOUS
    <3> QED
      BY <3>1, <3>2
  <2>2. CASE n = 0
    BY <2>1, <2>2
  <2>3. CASE n # 0
    <3>1. n - 1 \in Nat /\ (n - 1) + 1 = n /\ n - 1 \in 0 .. n - 1
      BY <2>3
    <3>2. /\ up[n - 1] \in [0 .. n - 1 -> Nat] /\ Powers(up[n - 1], n - 1)
          /\ up[n] \in [0 .. n -> Nat] /\ Powers(up[n], n)
      BY <1>1, <3>1
    <3> HIDE DEF up
    <3>3. \A i \in 0 .. n - 1 : up[n - 1][i] = up[n][i]
      <4>1. PICK m \in Nat : m = n - 1 /\ n = m + 1
        BY <3>1
      <4>2. /\ up[m] \in [0 .. m -> Nat] /\ Powers(up[m], m)
            /\ up[m + 1] \in [0 .. m + 1 -> Nat] /\ Powers(up[m + 1], m + 1)
        BY <3>2, <4>1
      <4>3. \A i \in 0 .. m : up[m][i] = up[m + 1][i]
        BY <4>2, PowersAgree
      <4> QED
        BY <4>1, <4>3
    <3> QED
      BY <2>1, <2>3, <3>1, <3>3
  <2> QED
    BY <2>2, <2>3
<1>3. h = [n \in Nat |-> IF n = 0 THEN 1 ELSE 2 * h[n - 1]]
  <2> HIDE DEF up
  <2>1. \A n \in Nat : h[n] = IF n = 0 THEN 1 ELSE 2 * h[n - 1]
    BY <1>2
  <2> QED
    BY <2>1
<1>4. Sample!Pow2 = [n \in Nat |-> IF n = 0 THEN 1 ELSE 2 * Sample!Pow2[n - 1]]
  <2> HIDE DEF h
  <2> QED
    BY <1>3 DEF Sample!Pow2
<1>5. \A n \in Nat : Sample!Pow2[n] = IF n = 0 THEN 1 ELSE 2 * Sample!Pow2[n - 1]
  BY <1>4
<1> DEFINE S == {n \in Nat : Sample!Pow2[n] \in Nat \ {0}}
<1>6. 0 \in S
  BY <1>5
<1>7. \A n \in Nat : Sample!Pow2[n + 1] = 2 * Sample!Pow2[n]
  BY <1>5
<1>8. ASSUME NEW n \in S PROVE n + 1 \in S
  BY <1>7
<1>9. S = Nat
  <2>1. S \in SUBSET Nat
    OBVIOUS
  <2> HIDE DEF S
  <2> QED
    BY <1>6, <1>8, <2>1, EveryNatural
<1> QED
  BY <1>5, <1>7, <1>9

\* A greater power is a multiple of a smaller one.
LEMMA PowersAdd ==
  \A m, k \in Nat : Sample!Pow2[m + k] = Sample!Pow2[k] * Sample!Pow2[m]
<1> SUFFICES ASSUME NEW m \in Nat PROVE \A k \in Nat :
                      Sample!Pow2[m + k] = Sample!Pow2[k] * Sample!Pow2[m]
  OBVIOUS
<1> DEFINE S == {k \in Nat : Sample!Pow2[m + k] = Sample!Pow2[k] * Sample!Pow2[m]}
<1>0. \A n \in Nat : Sample!Pow2[n] \in Nat
  BY PowersOfTwo
<1>1. 0 \in S
  BY <1>0, PowersOfTwo
<1>2. ASSUME NEW k \in S PROVE k + 1 \in S
  <2>1. Sample!Pow2[m + (k + 1)] = 2 * Sample!Pow2[m + k]
    <3>1. m + k \in Nat /\ m + (k + 1) = (m + k) + 1
      OBVIOUS
    <3> QED
      BY <3>1, PowersOfTwo
  <2>2. Sample!Pow2[k + 1] = 2 * Sample!Pow2[k]
    BY PowersOfTwo
  <2>3. Sample!Pow2[m + k] = Sample!Pow2[k] * Sample!Pow2[m]
    OBVIOUS
  <2>4. Sample!Pow2[m] \in Nat /\ Sample!Pow2[k] \in Nat
    BY <1>0
  <2>5. 2 * (Sample!Pow2[k] * Sample!Pow2[m]) = (2 * Sample!Pow2[k]) * Sample!Pow2[m]
    BY <2>4
  <2> QED
    BY <2>1, <2>2, <2>3, <2>5
<1>3. S = Nat
  <2>1. S \in SUBSET Nat
    OBVIOUS
  <2> HIDE DEF S
  <2> QED
    BY <1>1, <1>2, <2>1, EveryNatural
<1> QED
  BY <1>3

LEMMA PowersGrow ==
  ASSUME NEW m \in Nat, NEW n \in Nat, m <= n
  PROVE  /\ Sample!Pow2[m] \in Nat \ {0} /\ Sample!Pow2[n] \in Nat \ {0} /\
              Sample!Pow2[m] <= Sample!Pow2[n]
         /\ \E c \in Nat \ {0} : Sample!Pow2[n] = c * Sample!Pow2[m]
<1>1. n - m \in Nat /\ n = m + (n - m)
  OBVIOUS
<1>2. Sample!Pow2[n] = Sample!Pow2[n - m] * Sample!Pow2[m]
  BY <1>1, PowersAdd
<1>3. Sample!Pow2[n - m] \in Nat \ {0} /\ Sample!Pow2[m] \in Nat \ {0} /\
        Sample!Pow2[n] \in Nat \ {0}
  BY <1>1, PowersOfTwo
<1>4. \A c, p \in Nat \ {0} : p <= c * p
  OBVIOUS
<1>5. Sample!Pow2[m] <= Sample!Pow2[n]
  BY <1>2, <1>3, <1>4
<1> QED
  BY <1>2, <1>3, <1>5

LEMMA PowersPass == \A n \in Nat : n < Sample!Pow2[n]
<1> DEFINE S == {n \in Nat : n < Sample!Pow2[n]}
<1>1. 0 \in S
  BY PowersOfTwo
<1>2. ASSUME NEW n \in S PROVE n + 1 \in S
  <2>1. Sample!Pow2[n + 1] = 2 * Sample!Pow2[n] /\ Sample!Pow2[n] \in Nat \ {0} /\
          n < Sample!Pow2[n]
    BY PowersOfTwo
  <2> QED
    BY <2>1
<1>3. S = Nat
  <2>1. S \in SUBSET Nat
    OBVIOUS
  <2> HIDE DEF S
  <2> QED
    BY <1>1, <1>2, <2>1, EveryNatural
<1> QED
  BY <1>3

-----------------------------------------------------------------------------
(* Rounding to a multiple of s.                                            *)

Down(q, r, s) == 2 * r < s \/ (2 * r = s /\ q % 2 = 0)
Rounded(x, s) ==
  LET below == (x \div s) * s  twice == 2 * (x - below) IN
  IF twice < s \/ (twice = s /\ (below \div s) % 2 = 0) THEN below ELSE below + s

\* What is taken apart is what was put together.
LEMMA Apart ==
  ASSUME NEW s \in Nat \ {0}
  PROVE  /\ \A q \in Nat, r \in Nat : r < s => (q * s + r) \div s = q
         /\ \A q \in Nat : (q * s) \div s = q
         /\ \A x \in Nat : /\ x \div s \in Nat
                           /\ x - (x \div s) * s \in Nat /\ x - (x \div s) * s < s
<1>1. ASSUME NEW q \in Nat, NEW r \in Nat, r < s PROVE (q * s + r) \div s = q
  BY <1>1
<1>2. ASSUME NEW q \in Nat PROVE (q * s) \div s = q
  OBVIOUS
<1>3. ASSUME NEW x \in Nat
      PROVE  x \div s \in Nat /\ x >= (x \div s) * s /\ x < (x \div s) * s + s
  OBVIOUS
<1>4. ASSUME NEW x \in Nat
      PROVE  x - (x \div s) * s \in Nat /\ x - (x \div s) * s < s
  <2>1. x \div s \in Nat /\ x >= (x \div s) * s /\ x < (x \div s) * s + s
    BY <1>3
  <2>2. \A b \in Nat : x >= b /\ x < b + s => x - b \in Nat /\ x - b < s
    OBVIOUS
  <2>3. (x \div s) * s \in Nat
    BY <2>1
  <2> QED
    BY <2>1, <2>2, <2>3
<1> QED
  BY <1>1, <1>2, <1>3, <1>4

LEMMA LessTimes ==
  ASSUME NEW s \in Nat, NEW a \in Nat, NEW b \in Nat, a < b
  PROVE  a * s + s <= b * s
<1>1. b - a - 1 \in Nat /\ b = a + 1 + (b - a - 1)
  OBVIOUS
<1>2. \A c \in Nat : (a + 1 + c) * s = a * s + s + c * s /\ a * s \in Nat /\ c * s \in Nat
  OBVIOUS
<1>3. \A c \in Nat : a * s + s <= (a + 1 + c) * s
  BY <1>2
<1> QED
  BY <1>1, <1>3

LEMMA RoundedOf ==
  ASSUME NEW s \in Nat \ {0}, NEW q \in Nat, NEW r \in Nat, r < s
  PROVE  Rounded(q * s + r, s) = IF Down(q, r, s) THEN q * s ELSE q * s + s
<1>1. (q * s + r) \div s = q /\ (q * s) \div s = q
  BY Apart
<1>2. q * s \in Nat
  OBVIOUS
<1>3. (q * s + r) - q * s = r
  BY <1>2
<1> QED
  BY <1>1, <1>3 DEF Rounded, Down

LEMMA RoundedParts ==
  ASSUME NEW s \in Nat \ {0}, NEW x \in Nat
  PROVE  \E q \in Nat, r \in Nat :
           /\ r < s /\ x = q * s + r
           /\ Rounded(x, s) = IF Down(q, r, s) THEN q * s ELSE q * s + s
<1> DEFINE q == x \div s  r == x - q * s
<1>1. q \in Nat /\ r \in Nat /\ r < s
  BY Apart
<1>2. x = q * s + r
  <2>1. q * s \in Nat
    BY <1>1
  <2> HIDE DEF q
  <2> QED
    BY <2>1
<1> HIDE DEF q, r
<1>3. Rounded(x, s) = IF Down(q, r, s) THEN q * s ELSE q * s + s
  BY <1>1, <1>2, RoundedOf
<1> QED
  BY <1>1, <1>2, <1>3

\* It is a multiple, and at most half of s away.
LEMMA RoundedIsNear ==
  ASSUME NEW s \in Nat \ {0}, NEW x \in Nat
  PROVE  \E k \in Nat : /\ Rounded(x, s) = k * s
                        /\ 2 * (k * s) - 2 * x <= s /\ 2 * x - 2 * (k * s) <= s
<1>1. PICK q \in Nat, r \in Nat :
        /\ r < s /\ x = q * s + r
        /\ Rounded(x, s) = IF Down(q, r, s) THEN q * s ELSE q * s + s
  BY RoundedParts
<1> DEFINE m == q * s
<1>2. m \in Nat /\ (q + 1) * s = m + s /\ q + 1 \in Nat
  OBVIOUS
<1>3. CASE Down(q, r, s)
  <2>1. 2 * r <= s
    BY <1>3 DEF Down
  <2>2. x = m + r /\ Rounded(x, s) = m
    BY <1>1, <1>3
  <2>3. 2 * m - 2 * x <= s /\ 2 * x - 2 * m <= s
    <3> HIDE DEF m
    <3> QED
      BY <1>2, <2>1, <2>2
  <2> QED
    BY <2>2, <2>3
<1>4. CASE ~ Down(q, r, s)
  <2>1. 2 * r >= s
    BY <1>4 DEF Down
  <2>2. x = m + r /\ Rounded(x, s) = m + s
    BY <1>1, <1>4
  <2>3. 2 * (m + s) - 2 * x <= s /\ 2 * x - 2 * (m + s) <= s
    <3> HIDE DEF m
    <3> QED
      BY <1>1, <1>2, <2>1, <2>2
  <2> QED
    BY <1>2, <2>2, <2>3
<1> QED
  BY <1>3, <1>4

LEMMA RoundedFixes ==
  ASSUME NEW s \in Nat \ {0}, NEW k \in Nat
  PROVE  Rounded(k * s, s) = k * s
<1>1. k * s + 0 = k * s /\ Down(k, 0, s)
  BY DEF Down
<1>2. Rounded(k * s + 0, s) = k * s
  BY <1>1, RoundedOf
<1> QED
  BY <1>1, <1>2

LEMMA RoundedGrows ==
  ASSUME NEW s \in Nat \ {0}, NEW x \in Nat, NEW y \in Nat, x <= y
  PROVE  Rounded(x, s) <= Rounded(y, s)
<1>1. PICK q \in Nat, r \in Nat :
        /\ r < s /\ x = q * s + r
        /\ Rounded(x, s) = IF Down(q, r, s) THEN q * s ELSE q * s + s
  BY RoundedParts
<1>2. PICK p \in Nat, t \in Nat :
        /\ t < s /\ y = p * s + t
        /\ Rounded(y, s) = IF Down(p, t, s) THEN p * s ELSE p * s + s
  BY RoundedParts
<1>3. \A a, b \in Nat : a < b => a * s + s <= b * s
  BY LessTimes
<1>4. q * s \in Nat /\ p * s \in Nat
  OBVIOUS
<1>5. ~ (p < q)
  <2> SUFFICES ASSUME p < q PROVE FALSE
    OBVIOUS
  <2>1. p * s + s <= q * s
    BY <1>3
  <2> QED
    BY <1>1, <1>2, <1>4, <2>1
<1>6. CASE q < p
  <2>1. q * s + s <= p * s
    BY <1>3, <1>6
  <2>2. Rounded(x, s) <= q * s + s /\ Rounded(y, s) >= p * s /\ Rounded(x, s) \in Nat /\
          Rounded(y, s) \in Nat
    BY <1>1, <1>2, <1>4
  <2> QED
    BY <1>4, <2>1, <2>2
<1>7. CASE q = p
  <2>1. r <= t
    BY <1>1, <1>2, <1>4, <1>7
  <2>2. Down(p, t, s) => Down(q, r, s)
    BY <1>7, <2>1 DEF Down
  <2> QED
    BY <1>1, <1>2, <1>4, <1>7, <2>2
<1> QED
  BY <1>5, <1>6, <1>7

LEMMA RoundedTwice ==
  ASSUME NEW s \in Nat \ {0}, NEW x \in Nat
  PROVE  Rounded(2 * x, 2 * s) = 2 * Rounded(x, s)
<1>1. PICK q \in Nat, r \in Nat :
        /\ r < s /\ x = q * s + r
        /\ Rounded(x, s) = IF Down(q, r, s) THEN q * s ELSE q * s + s
  BY RoundedParts
<1>2. 2 * x = q * (2 * s) + 2 * r /\ 2 * s \in Nat \ {0} /\ 2 * r \in Nat /\ 2 * r < 2 * s
  BY <1>1
<1>3. Down(q, 2 * r, 2 * s) <=> Down(q, r, s)
  BY DEF Down
<1>4. Rounded(2 * x, 2 * s) =
        IF Down(q, 2 * r, 2 * s) THEN q * (2 * s) ELSE q * (2 * s) + 2 * s
  BY <1>2, RoundedOf
<1>5. q * (2 * s) = 2 * (q * s) /\ q * s \in Nat
  OBVIOUS
<1> QED
  BY <1>1, <1>3, <1>4, <1>5

-----------------------------------------------------------------------------
(* Floats.                                                                 *)

\* x has the exponent e.
Has(x, e) == /\ Sample!Spacing(x) = Sample!Pow2[e] /\ x < Sample!Pow2[Mantissa + e]
             /\ e # 0 => Sample!Pow2[Mantissa + e - 1] <= x

LEMMA ExponentExists == \A x \in Nat : \E e \in Nat : Has(x, e)
<1> SUFFICES ASSUME NEW x \in Nat PROVE \E e \in Nat : Has(x, e)
  OBVIOUS
<1> DEFINE Fits(e) == Sample!Pow2[Mantissa + e - 1] <= x /\ x < Sample!Pow2[Mantissa + e]
<1>0. Mantissa \in Nat /\ Mantissa >= 1
  BY MantissaType
<1>1. CASE x < Sample!Pow2[Mantissa]
  <2>1. Sample!Spacing(x) = Sample!Pow2[0] /\ Mantissa + 0 = Mantissa
    BY <1>0, <1>1, PowersOfTwo DEF Sample!Spacing
  <2>2. Has(x, 0)
    BY <1>1, <2>1 DEF Has
  <2> QED
    BY <2>2
<1>2. CASE ~ (x < Sample!Pow2[Mantissa])
  <2> DEFINE S == {e \in Nat : x < Sample!Pow2[Mantissa + e]}
  <2>1. x \in S
    <3>1. x < Sample!Pow2[x] /\ Sample!Pow2[x] \in Nat
      BY PowersPass, PowersOfTwo
    <3>2. Sample!Pow2[x] <= Sample!Pow2[Mantissa + x] /\ Sample!Pow2[Mantissa + x] \in Nat
      <4>1. Mantissa + x \in Nat /\ x <= Mantissa + x
        BY <1>0
      <4> QED
        BY <4>1, PowersGrow
    <3> QED
      BY <3>1, <3>2
  <2>2. PICK e \in S : \A j \in S : e <= j
    <3>1. S \in SUBSET Nat /\ S # {}
      BY <2>1
    <3> HIDE DEF S
    <3> QED
      BY <3>1, LeastNatural
  <2>3. e # 0
    <3>1. Mantissa + 0 = Mantissa
      BY <1>0
    <3> QED
      BY <1>2, <3>1
  <2>4. Sample!Pow2[Mantissa + e - 1] <= x
    <3>1. e - 1 \in Nat /\ ~ (e <= e - 1) /\ Mantissa + (e - 1) = Mantissa + e - 1 /\
            Mantissa + e - 1 \in Nat
      BY <1>0, <2>3
    <3>2. ~ (x < Sample!Pow2[Mantissa + e - 1])
      BY <2>2, <3>1
    <3>3. Sample!Pow2[Mantissa + e - 1] \in Nat
      BY <3>1, PowersOfTwo
    <3> QED
      BY <3>2, <3>3
  <2>5. e \in 1 .. x
    BY <2>1, <2>2, <2>3
  <2>6. e \in 1 .. x /\ Fits(e)
    BY <2>4, <2>5
  <2> DEFINE c == CHOOSE i \in 1 .. x : Fits(i)
  <2>7. c \in 1 .. x /\ Fits(c)
    <3> HIDE DEF Fits
    <3> QED
      BY <2>6
  <2>8. Sample!Spacing(x) = Sample!Pow2[c]
    BY <1>2 DEF Sample!Spacing
  <2>9. c \in Nat
    <3> HIDE DEF c
    <3> QED
      BY <2>7
  <2>10. Has(x, c)
    BY <2>7, <2>8 DEF Has
  <2> HIDE DEF c
  <2> QED
    BY <2>9, <2>10
<1> QED
  BY <1>1, <1>2

LEMMA FloatRounds ==
  ASSUME NEW x \in Nat, NEW e \in Nat, Has(x, e)
  PROVE  /\ Sample!Float(x) = Rounded(x, Sample!Pow2[e]) /\ Sample!Pow2[e] \in Nat \ {0}
         /\ Sample!Pow2[Mantissa + e] \in Nat
<1>1. Mantissa + e \in Nat
  BY MantissaType
<1> QED
  BY <1>1, PowersOfTwo DEF Has, Sample!Float, Rounded

\* The greater number has no smaller exponent.
LEMMA ExponentGrows ==
  ASSUME NEW x \in Nat, NEW y \in Nat, x <= y, NEW e \in Nat, NEW f \in Nat,
         Has(x, e), Has(y, f)
  PROVE  e <= f
<1> SUFFICES ASSUME f < e PROVE FALSE
  OBVIOUS
<1>1. /\ Mantissa + f \in Nat /\ Mantissa + e - 1 \in Nat
      /\ Mantissa + f <= Mantissa + e - 1 /\ e # 0
  BY MantissaType
<1>2. Sample!Pow2[Mantissa + f] <= Sample!Pow2[Mantissa + e - 1]
      /\ Sample!Pow2[Mantissa + f] \in Nat /\ Sample!Pow2[Mantissa + e - 1] \in Nat
  BY <1>1, PowersGrow
<1>3. Sample!Pow2[Mantissa + e - 1] <= x /\ y < Sample!Pow2[Mantissa + f]
  BY <1>1 DEF Has
<1> QED
  BY <1>2, <1>3

\* A multiple of a power is kept if the mantissa has place for the multiple.
LEMMA FloatFixes ==
  ASSUME NEW k \in Nat, NEW f \in Nat, k * Sample!Pow2[f] <= Sample!Pow2[Mantissa + f]
  PROVE  Sample!Float(k * Sample!Pow2[f]) = k * Sample!Pow2[f]
<1> DEFINE x == k * Sample!Pow2[f]
<1>1. Sample!Pow2[f] \in Nat /\ Mantissa + f \in Nat /\ Sample!Pow2[Mantissa + f] \in Nat
  BY MantissaType, PowersOfTwo
<1>2. x \in Nat
  BY <1>1
<1>3. PICK e \in Nat : Has(x, e)
  <2> HIDE DEF x
  <2> QED
    BY <1>2, ExponentExists
<1>4. Sample!Float(x) = Rounded(x, Sample!Pow2[e]) /\ Sample!Pow2[e] \in Nat \ {0}
  <2> HIDE DEF x
  <2> QED
    BY <1>2, <1>3, FloatRounds
<1>5. ASSUME NEW c \in Nat, x = c * Sample!Pow2[e] PROVE Sample!Float(x) = x
  <2> HIDE DEF x
  <2> QED
    BY <1>4, <1>5, RoundedFixes
<1>6. CASE e <= f
  <2>1. PICK c \in Nat \ {0} : Sample!Pow2[f] = c * Sample!Pow2[e]
    BY <1>6, PowersGrow
  <2>2. k * c \in Nat /\ k * (c * Sample!Pow2[e]) = (k * c) * Sample!Pow2[e]
    BY <1>4
  <2>3. x = (k * c) * Sample!Pow2[e]
    BY <2>1, <2>2
  <2>4. Sample!Float(x) = x
    <3> HIDE DEF x
    <3> QED
      BY <1>5, <2>2, <2>3
  <2> QED
    BY <2>4
<1>7. CASE f < e
  <2>1. /\ Mantissa + e - 1 \in Nat /\ Mantissa + f <= Mantissa + e - 1 /\ e # 0
        /\ e <= Mantissa + e - 1
    BY <1>7, MantissaType
  <2>2. Sample!Pow2[Mantissa + f] <= Sample!Pow2[Mantissa + e - 1] /\
          Sample!Pow2[Mantissa + e - 1] \in Nat
    BY <1>1, <2>1, PowersGrow
  <2>3. Sample!Pow2[Mantissa + e - 1] <= x
    BY <1>3, <2>1 DEF Has
  <2>4. x = Sample!Pow2[Mantissa + e - 1]
    <3>1. x <= Sample!Pow2[Mantissa + f]
      OBVIOUS
    <3> HIDE DEF x
    <3> QED
      BY <1>1, <1>2, <2>2, <2>3, <3>1
  <2>5. PICK c \in Nat \ {0} : Sample!Pow2[Mantissa + e - 1] = c * Sample!Pow2[e]
    BY <2>1, PowersGrow
  <2>6. Sample!Float(x) = x
    <3> HIDE DEF x
    <3> QED
      BY <1>5, <2>4, <2>5
  <2> QED
    BY <2>6
<1> QED
  BY <1>6, <1>7

\* Where a float is, by its exponent.
LEMMA FloatBounds ==
  ASSUME NEW x \in Nat, NEW e \in Nat, Has(x, e)
  PROVE  /\ \E k \in Nat : Sample!Float(x) = k * Sample!Pow2[e]
         /\ Sample!Float(x) \in Nat /\ Sample!Float(x) <= Sample!Pow2[Mantissa + e]
         /\ e # 0 => Sample!Pow2[Mantissa + e - 1] <= Sample!Float(x)
         /\ 2 * Sample!Float(x) - 2 * x <= Sample!Pow2[e] /\
              2 * x - 2 * Sample!Float(x) <= Sample!Pow2[e]
<1>1. Sample!Float(x) = Rounded(x, Sample!Pow2[e]) /\ Sample!Pow2[e] \in Nat \ {0} /\
        Sample!Pow2[Mantissa + e] \in Nat
  BY FloatRounds
<1>2. PICK k \in Nat : /\ Rounded(x, Sample!Pow2[e]) = k * Sample!Pow2[e]
                       /\ 2 * (k * Sample!Pow2[e]) - 2 * x <= Sample!Pow2[e]
                       /\ 2 * x - 2 * (k * Sample!Pow2[e]) <= Sample!Pow2[e]
  BY <1>1, RoundedIsNear
<1>3. k * Sample!Pow2[e] \in Nat
  BY <1>1
<1>4. ASSUME NEW n \in Nat, e <= n
    PROVE Rounded(Sample!Pow2[n], Sample!Pow2[e]) = Sample!Pow2[n]
  <2>1. PICK c \in Nat \ {0} : Sample!Pow2[n] = c * Sample!Pow2[e]
    BY <1>4, PowersGrow
  <2> QED
    BY <1>1, <2>1, RoundedFixes
<1>5. Sample!Float(x) <= Sample!Pow2[Mantissa + e]
  <2>1. Mantissa + e \in Nat /\ e <= Mantissa + e
    BY MantissaType
  <2>2. Rounded(Sample!Pow2[Mantissa + e], Sample!Pow2[e]) = Sample!Pow2[Mantissa + e]
    BY <1>4, <2>1
  <2>3. x <= Sample!Pow2[Mantissa + e]
    BY <1>1 DEF Has
  <2> QED
    BY <1>1, <2>2, <2>3, RoundedGrows
<1>6. ASSUME e # 0 PROVE Sample!Pow2[Mantissa + e - 1] <= Sample!Float(x)
  <2>1. Mantissa + e - 1 \in Nat /\ e <= Mantissa + e - 1
    BY <1>6, MantissaType
  <2>2. Rounded(Sample!Pow2[Mantissa + e - 1], Sample!Pow2[e]) =
          Sample!Pow2[Mantissa + e - 1]
    BY <1>4, <2>1
  <2>3. Sample!Pow2[Mantissa + e - 1] <= x /\ Sample!Pow2[Mantissa + e - 1] \in Nat
    BY <1>6, <2>1, PowersOfTwo DEF Has
  <2> QED
    BY <1>1, <2>2, <2>3, RoundedGrows
<1> QED
  BY <1>1, <1>2, <1>3, <1>5, <1>6

LEMMA FloatGrows ==
  ASSUME NEW x \in Nat, NEW y \in Nat, x <= y
  PROVE  Sample!Float(x) \in Nat /\ Sample!Float(y) \in Nat /\
           Sample!Float(x) <= Sample!Float(y)
<1>1. PICK e \in Nat : Has(x, e)
  BY ExponentExists
<1>2. PICK f \in Nat : Has(y, f)
  BY ExponentExists
<1>3. e <= f
  BY <1>1, <1>2, ExponentGrows
<1>4. Sample!Float(x) \in Nat /\ Sample!Float(y) \in Nat
  BY <1>1, <1>2, FloatBounds
<1>5. CASE e = f
  <2>1. Sample!Float(x) = Rounded(x, Sample!Pow2[e]) /\
          Sample!Float(y) = Rounded(y, Sample!Pow2[e])
        /\ Sample!Pow2[e] \in Nat \ {0}
    BY <1>1, <1>2, <1>5, FloatRounds
  <2> QED
    BY <1>4, <2>1, RoundedGrows
<1>6. CASE e < f
  <2>1. f # 0 /\ Mantissa + e \in Nat /\ Mantissa + f - 1 \in Nat /\
          Mantissa + e <= Mantissa + f - 1
    BY <1>6, MantissaType
  <2>2. Sample!Float(x) <= Sample!Pow2[Mantissa + e] /\
          Sample!Pow2[Mantissa + f - 1] <= Sample!Float(y)
    BY <1>1, <1>2, <2>1, FloatBounds
  <2>3. Sample!Pow2[Mantissa + e] <= Sample!Pow2[Mantissa + f - 1]
        /\ Sample!Pow2[Mantissa + e] \in Nat /\ Sample!Pow2[Mantissa + f - 1] \in Nat
    BY <2>1, PowersGrow
  <2> QED
    BY <1>4, <2>2, <2>3
<1> QED
  BY <1>3, <1>4, <1>5, <1>6

\* What fits the mantissa is a float.
LEMMA FloatExact ==
  ASSUME NEW x \in Nat, x < Sample!Pow2[Mantissa]
  PROVE  Sample!Float(x) = x
<1>1. Mantissa + 0 = Mantissa /\ Sample!Pow2[0] = 1 /\ Sample!Pow2[Mantissa] \in Nat /\
        x * 1 = x
  BY MantissaType, PowersOfTwo
<1>2. x * Sample!Pow2[0] <= Sample!Pow2[Mantissa + 0]
  BY <1>1
<1>3. Sample!Float(x * Sample!Pow2[0]) = x * Sample!Pow2[0]
  BY <1>2, FloatFixes
<1> QED
  BY <1>1, <1>3

-----------------------------------------------------------------------------
(* Differences.                                                            *)

\* Floats of two numbers that have one exponent are subtracted exactly, and so are
\* those of a number and of another at most twice as large.
LEMMA DifferenceFixes ==
  ASSUME NEW a \in Nat, NEW b \in Nat, b <= a, NEW e \in Nat, NEW f \in Nat,
         Has(a, e), Has(b, f), e = f \/ a <= 2 * b
  PROVE  Sample!Float(Sample!Float(a) - Sample!Float(b)) = Sample!Float(a) - Sample!Float(b)
<1>1. f <= e
  BY ExponentGrows
<1>2. Sample!Float(a) \in Nat /\ Sample!Float(b) \in Nat /\
        Sample!Float(b) <= Sample!Float(a)
  BY FloatGrows
<1>3. /\ Sample!Pow2[e] \in Nat \ {0} /\ Sample!Pow2[f] \in Nat \ {0}
      /\ Sample!Pow2[Mantissa + f] \in Nat
  BY FloatRounds
<1>4. \E k \in Nat : Sample!Float(a) - Sample!Float(b) = k * Sample!Pow2[f]
  <2>1. PICK i \in Nat : Sample!Float(a) = i * Sample!Pow2[e]
    BY FloatBounds
  <2>2. PICK j \in Nat : Sample!Float(b) = j * Sample!Pow2[f]
    BY FloatBounds
  <2>3. PICK c \in Nat \ {0} : Sample!Pow2[e] = c * Sample!Pow2[f]
    BY <1>1, PowersGrow
  <2>4. i * c \in Nat /\ i * (c * Sample!Pow2[f]) = (i * c) * Sample!Pow2[f]
    BY <1>3
  <2>5. Sample!Float(a) = (i * c) * Sample!Pow2[f]
    BY <2>1, <2>3, <2>4
  <2>6. \A m, n \in Nat, p \in Nat \ {0} : n * p <= m * p => m - n \in Nat /\
          m * p - n * p = (m - n) * p
    <3>1. ASSUME NEW m \in Nat, NEW n \in Nat, NEW p \in Nat \ {0}, n * p <= m * p
          PROVE  m - n \in Nat /\ m * p - n * p = (m - n) * p
      <4>1. ~ (m < n)
        <5> SUFFICES ASSUME m < n PROVE FALSE
          OBVIOUS
        <5>1. n - m - 1 \in Nat /\ n = m + 1 + (n - m - 1)
          OBVIOUS
        <5>2. \A d \in Nat : (m + 1 + d) * p = m * p + p + d * p /\ d * p \in Nat /\
                m * p \in Nat
          OBVIOUS
        <5>3. \A d \in Nat : m * p < (m + 1 + d) * p
          BY <5>2
        <5>4. m * p < n * p /\ m * p \in Nat /\ n * p \in Nat
          BY <5>1, <5>3
        <5> QED
          BY <3>1, <5>4
      <4> QED
        BY <4>1
    <3> QED
      BY <3>1
  <2>7. j * Sample!Pow2[f] <= (i * c) * Sample!Pow2[f]
    BY <1>2, <2>2, <2>5
  <2>8. i * c - j \in Nat /\ (i * c) * Sample!Pow2[f] - j * Sample!Pow2[f] =
          (i * c - j) * Sample!Pow2[f]
    BY ONLY <1>3, <2>4, <2>6, <2>7, i \in Nat, j \in Nat, c \in Nat
  <2>9. Sample!Float(a) - Sample!Float(b) = (i * c - j) * Sample!Pow2[f]
    BY <2>2, <2>5, <2>8
  <2> QED
    BY <2>8, <2>9
<1>5. Sample!Float(a) - Sample!Float(b) <= Sample!Pow2[Mantissa + f]
  <2>1. CASE e = f
    <3>1. Sample!Float(a) <= Sample!Pow2[Mantissa + f]
      BY <2>1, FloatBounds
    <3> QED
      BY <1>2, <1>3, <3>1
  <2>2. CASE e # f
    <3>1. f < e /\ e # 0 /\ a <= 2 * b
      BY <1>1, <2>2
    <3>2. Sample!Pow2[Mantissa + e - 1] <= a /\ b < Sample!Pow2[Mantissa + f] /\
            a < Sample!Pow2[Mantissa + e]
      BY <3>1 DEF Has
    <3>3. e = f + 1
      <4> SUFFICES ASSUME e # f + 1 PROVE FALSE
        OBVIOUS
      <4>1. /\ Mantissa + f \in Nat /\ Mantissa + e - 2 \in Nat /\
                 Mantissa + f <= Mantissa + e - 2
            /\ (Mantissa + e - 2) + 1 = Mantissa + e - 1
        BY <3>1, MantissaType
      <4>2. /\ Sample!Pow2[Mantissa + f] <= Sample!Pow2[Mantissa + e - 2] /\
                 Sample!Pow2[Mantissa + e - 2] \in Nat
            /\ Sample!Pow2[Mantissa + e - 1] = 2 * Sample!Pow2[Mantissa + e - 2]
        BY <4>1, PowersGrow, PowersOfTwo
      <4> QED
        BY <1>3, <3>1, <3>2, <4>2
    <3>4. Sample!Pow2[e] = 2 * Sample!Pow2[f]
      BY <3>3, PowersOfTwo
    <3>5. Sample!Float(a) <= 2 * Sample!Float(b)
      <4>1. Sample!Float(a) = Rounded(a, 2 * Sample!Pow2[f]) /\
              Sample!Float(b) = Rounded(b, Sample!Pow2[f])
        BY <3>4, FloatRounds
      <4>2. Rounded(a, 2 * Sample!Pow2[f]) <= Rounded(2 * b, 2 * Sample!Pow2[f])
        <5>1. 2 * b \in Nat /\ 2 * Sample!Pow2[f] \in Nat \ {0} /\ a <= 2 * b
          BY <1>3, <3>1
        <5> QED
          BY <5>1, RoundedGrows
      <4>3. Rounded(2 * b, 2 * Sample!Pow2[f]) = 2 * Rounded(b, Sample!Pow2[f])
        BY <1>3, RoundedTwice
      <4> QED
        BY <4>1, <4>2, <4>3
    <3>6. Sample!Float(b) <= Sample!Pow2[Mantissa + f]
      BY FloatBounds
    <3> QED
      BY <1>2, <1>3, <3>5, <3>6
  <2> QED
    BY <2>1, <2>2
<1> DEFINE d == Sample!Float(a) - Sample!Float(b)
<1>6. PICK k \in Nat : d = k * Sample!Pow2[f]
  BY <1>4
<1>7. Sample!Float(d) = d
  <2>1. d <= Sample!Pow2[Mantissa + f]
    BY <1>5
  <2> HIDE DEF d
  <2> QED
    BY <1>6, <2>1, FloatFixes
<1> QED
  BY <1>7

LEMMA Difference ==
  ASSUME NEW b \in Nat, NEW a \in Nat, b <= a
  PROVE  /\ Sample!Minus(Sample!Float(a), Sample!Float(b)) \in Nat
         /\ Sample!Near(Sample!Minus(Sample!Float(a), Sample!Float(b)), b, a)
         /\ a < Sample!Pow2[Mantissa] =>
              Sample!Minus(Sample!Float(a), Sample!Float(b)) = a - b
<1>1. PICK e \in Nat : Has(a, e)
  BY ExponentExists
<1>2. PICK f \in Nat : Has(b, f)
  BY ExponentExists
<1>3. f <= e
  BY <1>1, <1>2, ExponentGrows
<1>4. Sample!Float(a) \in Nat /\ Sample!Float(b) \in Nat /\
        Sample!Float(b) <= Sample!Float(a)
  BY FloatGrows
<1> DEFINE d == Sample!Float(a) - Sample!Float(b)
<1>5. d \in Nat /\ Sample!Minus(Sample!Float(a), Sample!Float(b)) = Sample!Float(d)
  BY <1>4 DEF Sample!Minus
<1>6. PICK g \in Nat : Has(d, g)
  <2> HIDE DEF d
  <2> QED
    BY <1>5, ExponentExists
<1>7. /\ Sample!Pow2[e] \in Nat \ {0} /\ Sample!Pow2[f] \in Nat \ {0} /\
           Sample!Pow2[f] <= Sample!Pow2[e]
      /\ Sample!Pow2[Mantissa + e] \in Nat
  BY <1>1, <1>2, <1>3, FloatRounds, PowersGrow
<1>8. Sample!Float(d) \in Nat
  <2> HIDE DEF d
  <2> QED
    BY <1>5, <1>6, FloatBounds
<1>9. /\ 2 * Sample!Float(a) - 2 * a <= Sample!Pow2[e] /\
           2 * a - 2 * Sample!Float(a) <= Sample!Pow2[e]
      /\ 2 * Sample!Float(b) - 2 * b <= Sample!Pow2[f] /\
           2 * b - 2 * Sample!Float(b) <= Sample!Pow2[f]
      /\ Sample!Float(a) <= Sample!Pow2[Mantissa + e]
  BY <1>1, <1>2, FloatBounds
<1>10. Sample!Spacing(a) = Sample!Pow2[e]
  BY <1>1 DEF Has
\* exact but for the conversions
<1>11. ASSUME Sample!Float(d) = d
       PROVE  Sample!Near(Sample!Float(d), b, a)
  <2>1. 2 * (d - (a - b)) <= 2 * Sample!Pow2[e] /\
          -(2 * (d - (a - b))) <= 2 * Sample!Pow2[e]
    BY <1>4, <1>7, <1>9
  <2>2. d - (a - b) \in Int
    BY <1>5
  <2>3. \A o \in Int, s \in Nat : 2 * o <= 2 * s /\ -(2 * o) <= 2 * s =>
          4 * o \in -5 * s .. 5 * s /\ o \in -s .. s
    OBVIOUS
  <2>4. 4 * (d - (a - b)) \in -5 * Sample!Pow2[e] .. 5 * Sample!Pow2[e] /\
          d - (a - b) \in -Sample!Pow2[e] .. Sample!Pow2[e]
    <3> HIDE DEF d
    <3> QED
      BY <1>7, <2>1, <2>2, <2>3
  <2> HIDE DEF d
  <2> QED
    BY <1>10, <1>11, <2>4 DEF Sample!Near
<1>12. (e = f \/ a <= 2 * b) => Sample!Near(Sample!Float(d), b, a)
  <2> SUFFICES ASSUME e = f \/ a <= 2 * b PROVE Sample!Near(Sample!Float(d), b, a)
    OBVIOUS
  <2>1. Sample!Float(d) = d
    BY <1>1, <1>2, DifferenceFixes
  <2> QED
    BY <1>11, <2>1
<1>13. ASSUME e # f, ~ (a <= 2 * b) PROVE Sample!Near(Sample!Float(d), b, a)
  <2>1. 2 * Sample!Pow2[f] <= Sample!Pow2[e]
    <3>1. f + 1 <= e /\ f + 1 \in Nat
      BY <1>3, <1>13
    <3>2. Sample!Pow2[f + 1] = 2 * Sample!Pow2[f] /\ Sample!Pow2[f + 1] <= Sample!Pow2[e]
      BY <3>1, PowersOfTwo, PowersGrow
    <3> QED
      BY <3>2
  <2>2. 2 * Sample!Float(d) - 2 * d <= Sample!Pow2[e] /\
          2 * d - 2 * Sample!Float(d) <= Sample!Pow2[e]
    <3>1. CASE g <= e
      <4>1. Sample!Pow2[g] <= Sample!Pow2[e] /\ Sample!Pow2[g] \in Nat
        BY <3>1, PowersGrow
      <4>2. 2 * Sample!Float(d) - 2 * d <= Sample!Pow2[g] /\
              2 * d - 2 * Sample!Float(d) <= Sample!Pow2[g]
        <5> HIDE DEF d
        <5> QED
          BY <1>5, <1>6, FloatBounds
      <4> HIDE DEF d
      <4> QED
        BY <1>5, <1>7, <1>8, <4>1, <4>2
    <3>2. CASE ~ (g <= e)
      <4>1. /\ g # 0 /\ Mantissa + e \in Nat /\ Mantissa + g - 1 \in Nat
            /\ Mantissa + e <= Mantissa + g - 1
        BY <3>2, MantissaType
      <4>2. Sample!Pow2[Mantissa + e] <= Sample!Pow2[Mantissa + g - 1] /\
              Sample!Pow2[Mantissa + g - 1] \in Nat
        BY <4>1, PowersGrow
      <4>3. Sample!Pow2[Mantissa + g - 1] <= d
        <5> HIDE DEF d
        <5> QED
          BY <1>6, <4>1 DEF Has
      <4>4. d <= Sample!Pow2[Mantissa + e]
        BY <1>4, <1>7, <1>9
      <4>5. d = Sample!Pow2[Mantissa + e]
        <5> HIDE DEF d
        <5> QED
          BY <1>5, <1>7, <4>2, <4>3, <4>4
      <4>6. PICK c \in Nat \ {0} : Sample!Pow2[Mantissa + e] = c * Sample!Pow2[e]
        <5>1. e <= Mantissa + e /\ Mantissa + e \in Nat
          BY MantissaType
        <5> QED
          BY <5>1, PowersGrow
      <4>7. Sample!Float(c * Sample!Pow2[e]) = c * Sample!Pow2[e]
        <5>1. c * Sample!Pow2[e] <= Sample!Pow2[Mantissa + e]
          BY <1>7, <4>6
        <5> QED
          BY <5>1, FloatFixes
      <4>8. Sample!Float(d) = d
        <5> HIDE DEF d
        <5> QED
          BY <4>5, <4>6, <4>7
      <4> HIDE DEF d
      <4> QED
        BY <1>5, <1>7, <4>8
    <3> QED
      BY <3>1, <3>2
  <2>3. /\ 2 * (2 * (Sample!Float(d) - (a - b))) <= 5 * Sample!Pow2[e]
        /\ -(2 * (2 * (Sample!Float(d) - (a - b)))) <= 5 * Sample!Pow2[e]
    <3>1. d = Sample!Float(a) - Sample!Float(b)
      OBVIOUS
    <3> HIDE DEF d
    <3> QED
      BY <1>4, <1>5, <1>7, <1>8, <1>9, <2>1, <2>2, <3>1
  <2>4. Sample!Float(d) - (a - b) \in Int
    BY <1>8
  <2>5. \A o \in Int, s \in Nat : 2 * (2 * o) <= 5 * s /\
          -(2 * (2 * o)) <= 5 * s => 4 * o \in -5 * s .. 5 * s
    OBVIOUS
  <2>6. 4 * (Sample!Float(d) - (a - b)) \in -5 * Sample!Pow2[e] .. 5 * Sample!Pow2[e]
    <3> HIDE DEF d
    <3> QED
      BY <1>7, <2>3, <2>4, <2>5
  <2> HIDE DEF d
  <2> QED
    BY <1>10, <1>13, <2>6 DEF Sample!Near
<1>14. Sample!Near(Sample!Float(d), b, a)
  BY <1>12, <1>13
<1>15. ASSUME a < Sample!Pow2[Mantissa] PROVE Sample!Float(d) = a - b
  <2>1. Sample!Pow2[Mantissa] \in Nat
    BY MantissaType, PowersOfTwo
  <2>2. Sample!Float(a) = a /\ Sample!Float(b) = b
    <3>1. b < Sample!Pow2[Mantissa]
      BY <1>15, <2>1
    <3> QED
      BY <1>15, <3>1, FloatExact
  <2>3. a - b \in Nat /\ a - b < Sample!Pow2[Mantissa]
    BY <1>15, <2>1
  <2> QED
    BY <2>2, <2>3, FloatExact
<1> QED
  BY <1>5, <1>8, <1>14, <1>15

-----------------------------------------------------------------------------
(* What stays true of the two samples.                                     *)

SampleInv ==
  /\ used \in Nat /\ idle \in Nat /\ traffic \in Nat /\ clock \in Int
  /\ last.used \in Nat /\ last.total \in Nat /\ last.traffic \in Nat
  /\ last.used <= used /\ last.total <= used + idle
  /\ ~ wrapped => last.traffic <= traffic
  /\ data_history[1] = Sample!SampleOf(used, idle, traffic, clock)
  /\ Sample!HaveFrame => /\ data_history[2].cpu_used = Sample!Float(last.used)
                   /\ data_history[2].cpu_total = Sample!Float(last.total)
                   /\ data_history[2].network = Sample!Float(last.traffic)

LEMMA SampleInit == Sample!Init => SampleInv
<1> SUFFICES ASSUME Sample!Init PROVE SampleInv
  OBVIOUS
<1>1. used \in Nat /\ idle \in Nat /\ traffic \in Nat /\ clock \in Int
  BY PartsAssumption DEF Sample!Init, Sample!SampleArithmeticAssumption
<1>2. last.used = used /\ last.total = used + idle /\ last.traffic = traffic
  BY DEF Sample!Init
<1>3. data_history[1] = Sample!SampleOf(used, idle, traffic, clock) /\ Len(data_history) = 1
  BY DEF Sample!Init
<1>4. used <= used /\ used + idle <= used + idle /\ traffic <= traffic /\
        used + idle \in Nat
  BY <1>1
<1> QED
  BY <1>1, <1>2, <1>3, <1>4 DEF SampleInv, Sample!HaveFrame

LEMMA SampleStep == SampleInv /\ Sample!Next => SampleInv'
<1> SUFFICES ASSUME SampleInv, Sample!Next PROVE SampleInv'
  OBVIOUS
<1>1. PICK u \in Steps, i \in Steps, t \in Steps, s \in Seconds :
        /\ clock + s \in 0 .. MaxClock
        /\ used' = used + u /\ idle' = idle + i /\ traffic' = (traffic + t) % Counter
        /\ clock' = clock + s
        /\ data_history' = <<Sample!SampleOf(used + u, idle + i, (traffic + t) % Counter,
             clock + s), data_history[1]>>
        /\ last' = [used |-> used, total |-> used + idle, traffic |-> traffic]
        /\ wrapped' = (traffic + t >= Counter)
  BY DEF Sample!Next, Sample!append_sysinfo
<1>2. u \in Nat /\ i \in Nat /\ t \in Nat /\ s \in Int /\ Counter \in Nat \ {0} /\
        MaxClock \in Nat
  BY PartsAssumption DEF Sample!SampleArithmeticAssumption
<1>3. used \in Nat /\ idle \in Nat /\ traffic \in Nat /\ clock \in Int
  BY DEF SampleInv
<1>4. /\ used' \in Nat /\ idle' \in Nat /\ clock' \in Int
      /\ used <= used' /\ used + idle <= used' + idle' /\ used + idle \in Nat
  BY <1>1, <1>2, <1>3
<1>5. traffic' \in Nat /\ (traffic + t < Counter => traffic <= traffic')
  <2>1. \A x \in Nat, c \in Nat \ {0} : x % c \in Nat /\ (x < c => x % c = x)
    OBVIOUS
  <2>2. traffic + t \in Nat /\ traffic <= traffic + t
    BY <1>2, <1>3
  <2> QED
    BY <1>1, <1>2, <2>1, <2>2
<1>6. ~ wrapped' => traffic <= traffic'
  <2>1. ~ (traffic + t >= Counter) => traffic + t < Counter
    BY <1>2, <1>3
  <2> QED
    BY <1>1, <1>5, <2>1
<1>7. last'.used = used /\ last'.total = used + idle /\ last'.traffic = traffic
  BY <1>1
<1>8. data_history'[1] = Sample!SampleOf(used', idle', traffic', clock') /\
        data_history'[2] = data_history[1]
  BY <1>1
<1>9. /\ data_history'[2].cpu_used = Sample!Float(used)
      /\ data_history'[2].cpu_total = Sample!Float(used + idle)
      /\ data_history'[2].network = Sample!Float(traffic)
  <2>1. data_history'[2] = Sample!SampleOf(used, idle, traffic, clock)
    BY <1>8 DEF SampleInv
  <2> QED
    BY <2>1 DEF Sample!SampleOf
<1> QED
  BY <1>3, <1>4, <1>5, <1>6, <1>7, <1>8, <1>9 DEF SampleInv

LEMMA SampleFrame ==
  ASSUME SampleInv
  PROVE  Sample!UsageIsShare /\ Sample!UsageIsNear /\ Sample!RateHasItsSign
<1> SUFFICES ASSUME Sample!HaveFrame PROVE Sample!UsageIsShare /\ Sample!UsageIsNear /\
                      Sample!RateHasItsSign
  BY DEF Sample!UsageIsShare, Sample!UsageIsNear, Sample!RateHasItsSign
<1>1. /\ Sample!Frame.cpu_usage[1] =
           Sample!Minus(Sample!Float(used), Sample!Float(last.used))
      /\ Sample!Frame.cpu_usage[2] =
           Sample!Minus(Sample!Float(used + idle), Sample!Float(last.total))
      /\ Sample!Frame.cpu_usage = <<Sample!Frame.cpu_usage[1], Sample!Frame.cpu_usage[2]>>
      /\ Sample!Frame.net[1] = Sample!Minus(Sample!Float(traffic),
           Sample!Float(last.traffic))
      /\ Sample!Frame.net[2] = clock - data_history[2].timestamp
  BY DEF Sample!Frame, SampleInv, Sample!SampleOf
<1>2. /\ used \in Nat /\ used + idle \in Nat /\ traffic \in Nat /\ used <= used + idle
      /\ last.used \in Nat /\ last.total \in Nat /\ last.traffic \in Nat
      /\ last.used <= used /\ last.total <= used + idle
      /\ ~ wrapped => last.traffic <= traffic
  BY DEF SampleInv
<1>3. /\ Sample!Frame.cpu_usage[1] \in Nat /\
           Sample!Near(Sample!Frame.cpu_usage[1], last.used, used)
      /\ used < Sample!Pow2[Mantissa] => Sample!Frame.cpu_usage[1] = used - last.used
  BY <1>1, <1>2, Difference
<1>4. /\ Sample!Frame.cpu_usage[2] \in Nat /\
           Sample!Near(Sample!Frame.cpu_usage[2], last.total, used + idle)
      /\ used + idle < Sample!Pow2[Mantissa] =>
           Sample!Frame.cpu_usage[2] = (used + idle) - last.total
  BY <1>1, <1>2, Difference
<1>5. ~ wrapped => Sample!Frame.net[1] \in Nat /\
        Sample!Near(Sample!Frame.net[1], last.traffic, traffic)
  BY <1>1, <1>2, Difference
<1>6. \A n \in Nat : n >= 0
  OBVIOUS
<1>7. Sample!UsageIsShare
  <2>1. Sample!Pow2[Mantissa] \in Nat
    BY MantissaType, PowersOfTwo
  <2>2. used + idle < Sample!Pow2[Mantissa] => used < Sample!Pow2[Mantissa]
    BY <1>2, <2>1
  <2>3. (used + idle) - last.total = used + idle - last.total
    BY <1>2 DEF SampleInv
  <2> QED
    BY <1>1, <1>3, <1>4, <2>2, <2>3 DEF Sample!UsageIsShare
<1>8. Sample!UsageIsNear
  BY <1>3, <1>4, <1>6 DEF Sample!UsageIsNear
<1>9. Sample!RateHasItsSign
  BY <1>1, <1>5, <1>6 DEF Sample!RateHasItsSign
<1> QED
  BY <1>7, <1>8, <1>9

-----------------------------------------------------------------------------
(* Sums.                                                                   *)

LEMMA FunctionIsSequence ==
  ASSUME NEW T, NEW N \in Nat, NEW f \in [1 .. N -> T]
  PROVE  f \in Seq(T) /\ Len(f) = N
<1>1. f \in Seq(T)
  BY SeqDef
<1> QED
  BY <1>1, LenProperties

LEMMA SumsAre ==
  ASSUME NEW N \in Nat, NEW f \in [1 .. N -> Nat]
  PROVE  /\ Kernel!Sums(f) \in [0 .. N -> Nat] /\ Kernel!Sums(f)[0] = 0
         /\ \A n \in 1 .. N : Kernel!Sums(f)[n] = Kernel!Sums(f)[n - 1] + f[n]
<1> DEFINE G == [n \in 1 .. N |-> [v \in Nat |-> v + f[n]]]
           Is(s) == s = [n \in 0 .. N |-> IF n = 0 THEN 0 ELSE s[n - 1] + f[n]]
<1>1. G \in [1 .. N -> [Nat -> Nat]]
  OBVIOUS
<1>2. PICK s \in [0 .. N -> Nat] : s[0] = 0 /\ \A n \in 1 .. N : s[n] = G[n][s[n - 1]]
  <2>1. \A b \in Nat : \E s \in [0 .. N -> Nat] : Follows(s, N, b, G)
    <3> HIDE DEF G
    <3> QED
      BY <1>1, RecursionExists
  <2>2. \E s \in [0 .. N -> Nat] : Follows(s, N, 0, G)
    <3> HIDE DEF G
    <3> QED
      BY <2>1
  <2> HIDE DEF G
  <2> QED
    BY <2>2 DEF Follows
<1>3. Is(s)
  <2>1. ASSUME NEW n \in 0 .. N PROVE s[n] = IF n = 0 THEN 0 ELSE s[n - 1] + f[n]
    <3>1. n # 0 => n \in 1 .. N /\ s[n - 1] \in Nat
      OBVIOUS
    <3>2. n # 0 => G[n][s[n - 1]] = s[n - 1] + f[n]
      BY <3>1
    <3> HIDE DEF G
    <3> QED
      BY <1>2, <3>1, <3>2
  <2>2. s = [n \in 0 .. N |-> s[n]]
    OBVIOUS
  <2>3. [n \in 0 .. N |-> s[n]] = [n \in 0 .. N |-> IF n = 0 THEN 0 ELSE s[n - 1] + f[n]]
    BY ONLY <2>1
  <2> QED
    BY ONLY <2>2, <2>3
<1>4. Kernel!Sums(f) = CHOOSE t : Is(t)
  <2>1. Len(f) = N
    BY FunctionIsSequence
  <2> QED
    BY <2>1 DEF Kernel!Sums
<1> DEFINE t == Kernel!Sums(f)
<1>5. Is(t)
  <2> HIDE DEF Is
  <2> QED
    BY <1>3, <1>4
<1>6. \A n \in 0 .. N : t[n] = IF n = 0 THEN 0 ELSE t[n - 1] + f[n]
  <2> HIDE DEF t
  <2> QED
    BY <1>5
<1> DEFINE S == {n \in Nat : n <= N => t[n] \in Nat}
<1>7. 0 \in S
  <2> HIDE DEF t
  <2> QED
    BY <1>6
<1>8. ASSUME NEW n \in S PROVE n + 1 \in S
  <2> HIDE DEF t
  <2> SUFFICES ASSUME n + 1 <= N PROVE t[n + 1] \in Nat
    OBVIOUS
  <2>1. n + 1 \in 1 .. N /\ t[n] \in Nat /\ f[n + 1] \in Nat /\ (n + 1) - 1 = n
    OBVIOUS
  <2>2. t[n + 1] = t[n] + f[n + 1]
    BY <1>6, <2>1
  <2> QED
    BY <2>1, <2>2
<1>9. S = Nat
  <2>1. S \in SUBSET Nat
    OBVIOUS
  <2> HIDE DEF S
  <2> QED
    BY <1>7, <1>8, <2>1, EveryNatural
<1>10. \A n \in 0 .. N : t[n] \in Nat
  <2> HIDE DEF t
  <2> QED
    BY <1>9
<1>11. t \in [0 .. N -> Nat] /\ t[0] = 0 /\ \A n \in 1 .. N : t[n] = t[n - 1] + f[n]
  <2> HIDE DEF t
  <2> QED
    BY <1>5, <1>6, <1>10
<1> QED
  BY <1>11

LEMMA SumsGrow ==
  ASSUME NEW N \in Nat, NEW f \in [1 .. N -> Nat], NEW m \in 0 .. N
  PROVE  \A n \in m .. N : Kernel!Sums(f)[m] <= Kernel!Sums(f)[n]
<1> DEFINE S == {d \in Nat : m + d <= N => Kernel!Sums(f)[m] <= Kernel!Sums(f)[m + d]}
<1>0. Kernel!Sums(f) \in [0 .. N -> Nat] /\
        \A n \in 1 .. N : Kernel!Sums(f)[n] = Kernel!Sums(f)[n - 1] + f[n]
  BY SumsAre
<1>1. 0 \in S
  BY <1>0
<1>2. ASSUME NEW d \in S PROVE d + 1 \in S
  <2> SUFFICES ASSUME m + (d + 1) <= N PROVE Kernel!Sums(f)[m] <=
                        Kernel!Sums(f)[m + (d + 1)]
    OBVIOUS
  <2>1. /\ m + (d + 1) \in 1 .. N /\ (m + (d + 1)) - 1 = m + d /\ m + d \in 0 .. N
        /\ f[m + (d + 1)] \in Nat /\ Kernel!Sums(f)[m] <= Kernel!Sums(f)[m + d]
    OBVIOUS
  <2>2. Kernel!Sums(f)[m + (d + 1)] = Kernel!Sums(f)[m + d] + f[m + (d + 1)]
    BY <1>0, <2>1
  <2>3. Kernel!Sums(f)[m] \in Nat /\ Kernel!Sums(f)[m + d] \in Nat
    BY <1>0, <2>1
  <2> QED
    BY <2>1, <2>2, <2>3
<1>3. S = Nat
  <2>1. S \in SUBSET Nat
    OBVIOUS
  <2> HIDE DEF S
  <2> QED
    BY <1>1, <1>2, <2>1, EveryNatural
<1>4. ASSUME NEW n \in m .. N PROVE Kernel!Sums(f)[m] <= Kernel!Sums(f)[n]
  <2>1. n - m \in Nat /\ m + (n - m) = n /\ n <= N
    OBVIOUS
  <2>2. n - m \in S
    <3> HIDE DEF S
    <3> QED
      BY <1>3, <2>1
  <2> QED
    BY <2>1, <2>2
<1> QED
  BY <1>4

\* A sum over some of the places, of numbers that are not greater.
LEMMA SumsBelow ==
  ASSUME NEW N \in Nat, NEW f \in [1 .. N -> Nat], NEW M \in Nat, NEW g \in [1 .. M -> Nat],
         NEW at \in [1 .. N -> 1 .. M], \A i, j \in 1 .. N : i < j => at[i] < at[j],
         \A i \in 1 .. N : f[i] <= g[at[i]]
  PROVE  Kernel!Sums(f)[N] <= Kernel!Sums(g)[M]
<1> DEFINE P(n) == n \in 1 .. N => Kernel!Sums(f)[n] <= Kernel!Sums(g)[at[n]]
           S == {n \in Nat : P(n)}
<1>0. /\ Kernel!Sums(f) \in [0 .. N -> Nat] /\
           \A n \in 1 .. N : Kernel!Sums(f)[n] = Kernel!Sums(f)[n - 1] + f[n]
      /\ Kernel!Sums(g) \in [0 .. M -> Nat] /\
           \A n \in 1 .. M : Kernel!Sums(g)[n] = Kernel!Sums(g)[n - 1] + g[n]
      /\ Kernel!Sums(f)[0] = 0
  BY SumsAre
<1>1. 0 \in S
  OBVIOUS
<1>2. ASSUME NEW n \in Nat, P(n) PROVE P(n + 1)
  <2> HIDE DEF S
  <2> SUFFICES ASSUME n + 1 \in 1 .. N PROVE Kernel!Sums(f)[n + 1] <=
                        Kernel!Sums(g)[at[n + 1]]
    OBVIOUS
  <2>1. PICK a \in 1 .. M : a = at[n + 1]
    OBVIOUS
  <2>2. /\ a - 1 \in 0 .. M /\ f[n + 1] \in Nat /\ g[a] \in Nat /\ f[n + 1] <= g[a]
        /\ (n + 1) - 1 = n /\ n \in 0 .. N
    BY <2>1
  <2>3. /\ Kernel!Sums(f)[n + 1] = Kernel!Sums(f)[n] + f[n + 1] /\
             Kernel!Sums(g)[a] = Kernel!Sums(g)[a - 1] + g[a]
        /\ Kernel!Sums(f)[n] \in Nat /\ Kernel!Sums(g)[a - 1] \in Nat
    BY <1>0, <2>2
  <2>4. Kernel!Sums(f)[n] <= Kernel!Sums(g)[a - 1]
    <3>1. CASE n = 0
      BY <1>0, <2>3, <3>1
    <3>2. CASE n # 0
      <4>1. n \in 1 .. N /\ n < n + 1 /\ Kernel!Sums(f)[n] <= Kernel!Sums(g)[at[n]]
        BY <1>2, <3>2
      <4>2. at[n] < a /\ at[n] \in 1 .. M
        BY <2>1, <4>1
      <4>3. at[n] \in 0 .. M /\ a - 1 \in at[n] .. M
        <5>1. \A b, c \in 1 .. M : b < c => b \in 0 .. M /\ c - 1 \in b .. M
          OBVIOUS
        <5> QED
          BY <4>2, <5>1
      <4>4. Kernel!Sums(g)[at[n]] <= Kernel!Sums(g)[a - 1] /\ Kernel!Sums(g)[at[n]] \in Nat
        BY <1>0, <4>3, SumsGrow
      <4>5. \A x, y, z \in Nat : x <= y /\ y <= z => x <= z
        OBVIOUS
      <4> QED
        BY <2>3, <4>1, <4>4, <4>5, Zenon
    <3> QED
      BY <3>1, <3>2
  <2>5. \A v, w, x, y \in Nat : v <= w /\ x <= y => v + x <= w + y
    OBVIOUS
  <2>6. Kernel!Sums(f)[n + 1] <= Kernel!Sums(g)[a]
    BY <2>2, <2>3, <2>4, <2>5
  <2> QED
    BY <2>1, <2>6
<1>3. S = Nat
  <2>1. S \in SUBSET Nat
    OBVIOUS
  <2>2. ASSUME NEW n \in S PROVE n + 1 \in S
    <3> HIDE DEF P
    <3> QED
      BY <1>2
  <2> HIDE DEF S
  <2> QED
    BY <1>1, <2>1, <2>2, EveryNatural
<1>4. CASE N = 0
  <2>1. Kernel!Sums(g)[M] \in Nat
    BY <1>0
  <2> QED
    BY <1>0, <1>4, <2>1
<1>5. CASE N # 0
  <2>1. N \in 1 .. N /\ at[N] \in 1 .. M
    BY <1>5
  <2>2. Kernel!Sums(f)[N] <= Kernel!Sums(g)[at[N]]
    BY <1>3, <2>1
  <2>3. at[N] \in 0 .. M /\ M \in at[N] .. M
    BY <2>1
  <2>4. Kernel!Sums(g)[at[N]] <= Kernel!Sums(g)[M]
    BY <2>3, SumsGrow
  <2>5. Kernel!Sums(f)[N] \in Nat /\ Kernel!Sums(g)[at[N]] \in Nat /\
          Kernel!Sums(g)[M] \in Nat
    BY <1>0, <2>3
  <2> QED
    BY <2>2, <2>4, <2>5
<1> QED
  BY <1>4, <1>5

-----------------------------------------------------------------------------
(* What stays true of the files.                                           *)

DevRecord == [name : Interfaces, colon : BOOLEAN, digits : BOOLEAN, cols : Seq(Nat)]

HeaderInv ==
  /\ header.bar \in BOOLEAN /\ header.bytes \in BOOLEAN /\ header.rx \in Nat
  /\ links \in [Interfaces -> Kernel!LinkKinds]

\* Every interface has one line, and every line its columns.
DevInv ==
  /\ dev \in Seq(DevRecord)
  /\ \A i \in 1 .. Len(dev) : Len(dev[i].cols) = header.rx + 4
  /\ \A i, j \in 1 .. Len(dev) : dev[i].name = dev[j].name => i = j

TrackWords == {"number", "seconds", "ESTABLISHED", "TIME_WAIT", "src", "more"}
TrackRecord == [proto : {"tcp", "udp", "icmp"}, rest : Seq(TrackWords)]
TrackInv ==
  /\ track \in Seq(TrackRecord)
  /\ \A i \in 1 .. Len(track) :
       Len(track[i].rest) = 4 /\ (track[i].proto # "tcp" => track[i].rest[3] = "src")

WirelessRecord == [name : Interfaces, colon : {TRUE}, digits : {TRUE}, cols : Seq(Int)]
HasLevels(l) == Len(l.cols) = 5 /\ l.cols[3] \in -256 .. 255 /\ l.cols[4] \in -256 .. 255
WirelessInv ==
  /\ wireless \in Seq(WirelessRecord)
  /\ \A i \in 1 .. Len(wireless) : HasLevels(wireless[i])

MemRecord ==
  [key : {"MemTotal", "MemFree", "SwapTotal", "SwapFree", "HugePages"}, number : Nat,
   unit : {"none", "k", "M"}]
MemInv ==
  /\ meminfo \in Seq(MemRecord)
  /\ \A i, j \in 1 .. Len(meminfo) : meminfo[i].key = meminfo[j].key => i = j

KernelInv == HeaderInv /\ DevInv /\ TrackInv /\ WirelessInv /\ MemInv

LEMMA KernelInit == Kernel!Init => KernelInv
<1> SUFFICES ASSUME Kernel!Init PROVE KernelInv
  OBVIOUS
<1>1. PICK m \in Machines :
        header \in [bar : BOOLEAN, bytes : BOOLEAN, rx : {m.rx}] /\ links = m.links
  BY DEF Kernel!Init
<1>2. m.rx \in Nat /\ m.links \in [Interfaces -> Kernel!LinkKinds]
  BY PartsAssumption DEF Kernel!GlibtopAssumption
<1>3. HeaderInv
  BY <1>1, <1>2 DEF HeaderInv
<1>4. dev = <<>> /\ track = <<>> /\ wireless = <<>> /\ meminfo = <<>>
  BY DEF Kernel!Init
<1>5. \A T : <<>> \in Seq(T) /\ Len(<<>>) = 0 /\ \A i : i \notin 1 .. 0
  OBVIOUS
<1>6. DevInv
  BY <1>4, <1>5 DEF DevInv
<1>7. TrackInv
  BY <1>4, <1>5 DEF TrackInv
<1>8. WirelessInv
  BY <1>4, <1>5 DEF WirelessInv
<1>9. MemInv
  BY <1>4, <1>5 DEF MemInv
<1> QED
  BY <1>3, <1>6, <1>7, <1>8, <1>9 DEF KernelInv

\* A line more.
LEMMA Appended ==
  ASSUME NEW T, NEW s \in Seq(T), NEW l \in T
  PROVE  /\ Append(s, l) \in Seq(T) /\ Len(Append(s, l)) = Len(s) + 1
         /\ \A i \in 1 .. Len(s) : Append(s, l)[i] = s[i]
         /\ Append(s, l)[Len(s) + 1] = l
         /\ Len(s) \in Nat /\ \A i \in 1 .. Len(s) : s[i] \in T
         /\ \A i \in 1 .. Len(s) + 1 : i \in 1 .. Len(s) \/ i = Len(s) + 1
  OBVIOUS

LEMMA DevStep == HeaderInv /\ DevInv /\ Kernel!DevLine => DevInv'
<1> SUFFICES ASSUME HeaderInv, DevInv, Kernel!DevLine PROVE DevInv'
  OBVIOUS
<1>1. PICK n \in Interfaces, c \in BOOLEAN, d \in BOOLEAN :
        /\ \A j \in DOMAIN dev : dev[j].name # n
        /\ dev' = Append(dev, [name |-> n, colon |-> c, digits |-> d,
                               cols |-> Kernel!Columns(Len(dev) + 1,
                                   header.rx + Kernel!TxColumns)])
  BY DEF Kernel!DevLine
<1>2. header' = header
  BY DEF Kernel!DevLine
<1> DEFINE cols == Kernel!Columns(Len(dev) + 1, header.rx + Kernel!TxColumns)
           l == [name |-> n, colon |-> c, digits |-> d, cols |-> cols]
<1>3. dev \in Seq(DevRecord) /\ Len(dev) \in Nat /\ header.rx \in Nat /\
        DOMAIN dev = 1 .. Len(dev)
  BY DEF DevInv, HeaderInv
<1>4. cols \in Seq(Nat) /\ Len(cols) = header.rx + 4
  <2>1. header.rx + 4 \in Nat
    BY <1>3
  <2>2. cols \in [1 .. header.rx + 4 -> Nat]
    BY <1>3 DEF Kernel!Columns, Kernel!TxColumns
  <2> QED
    BY <2>1, <2>2, FunctionIsSequence
<1>5. l \in DevRecord /\ l.name = n /\ l.cols = cols
  <2> HIDE DEF cols
  <2> QED
    BY <1>4 DEF DevRecord
<1>6. /\ dev' \in Seq(DevRecord) /\ Len(dev') = Len(dev) + 1
      /\ \A i \in 1 .. Len(dev) : dev'[i] = dev[i]
      /\ dev'[Len(dev) + 1] = l
      /\ \A i \in 1 .. Len(dev') : i \in 1 .. Len(dev) \/ i = Len(dev) + 1
  <2>1. dev' = Append(dev, l)
    BY <1>1
  <2> HIDE DEF l
  <2> QED
    BY <1>3, <1>5, <2>1, Appended
<1> HIDE DEF l, cols
<1>7. ASSUME NEW i \in 1 .. Len(dev') PROVE Len(dev'[i].cols) = header'.rx + 4
  <2>1. CASE i \in 1 .. Len(dev)
    BY <1>2, <1>6, <2>1 DEF DevInv
  <2>2. CASE i = Len(dev) + 1
    BY <1>2, <1>4, <1>5, <1>6, <2>2
  <2> QED
    BY <1>6, <2>1, <2>2
<1>8. ASSUME NEW i \in 1 .. Len(dev'), NEW j \in 1 .. Len(dev'), dev'[i].name = dev'[j].name
      PROVE  i = j
  <2>1. CASE i \in 1 .. Len(dev) /\ j \in 1 .. Len(dev)
    BY <1>6, <1>8, <2>1 DEF DevInv
  <2>2. CASE i \in 1 .. Len(dev) /\ j = Len(dev) + 1
    BY <1>1, <1>3, <1>5, <1>6, <1>8, <2>2
  <2>3. CASE i = Len(dev) + 1 /\ j \in 1 .. Len(dev)
    BY <1>1, <1>3, <1>5, <1>6, <1>8, <2>3
  <2> QED
    BY <1>6, <2>1, <2>2, <2>3
<1> QED
  BY <1>6, <1>7, <1>8 DEF DevInv

LEMMA TrackStep == TrackInv /\ Kernel!TrackLine => TrackInv'
<1> SUFFICES ASSUME TrackInv, Kernel!TrackLine PROVE TrackInv'
  OBVIOUS
<1>1. PICK p \in {"tcp", "udp", "icmp"}, s \in {"ESTABLISHED", "TIME_WAIT", "src"} :
        /\ p # "tcp" => s = "src"
        /\ track' = Append(track, [proto |-> p, rest |-> <<"number", "seconds", s,
             "more">>])
  BY DEF Kernel!TrackLine
<1>2. PICK r : r = <<"number", "seconds", s, "more">>
  OBVIOUS
<1>3. r \in Seq(TrackWords) /\ Len(r) = 4 /\ r[3] = s
  BY <1>2 DEF TrackWords
<1>4. PICK l : l = [proto |-> p, rest |-> r]
  OBVIOUS
<1>5. l \in TrackRecord /\ l.proto = p /\ l.rest = r
  BY <1>3, <1>4 DEF TrackRecord
<1>6. track \in Seq(TrackRecord)
  BY DEF TrackInv
<1>7. track' = Append(track, l)
  BY <1>1, <1>2, <1>4
<1>8. /\ track' \in Seq(TrackRecord) /\ Len(track') = Len(track) + 1
      /\ \A i \in 1 .. Len(track) : track'[i] = track[i]
      /\ track'[Len(track) + 1] = l
      /\ \A i \in 1 .. Len(track') : i \in 1 .. Len(track) \/ i = Len(track) + 1
  BY <1>5, <1>6, <1>7, Appended
<1>9. ASSUME NEW i \in 1 .. Len(track')
      PROVE  Len(track'[i].rest) = 4 /\
               (track'[i].proto # "tcp" => track'[i].rest[3] = "src")
  <2>1. CASE i \in 1 .. Len(track)
    BY <1>8, <2>1 DEF TrackInv
  <2>2. CASE i = Len(track) + 1
    BY <1>1, <1>3, <1>5, <1>8, <2>2
  <2> QED
    BY <1>8, <2>1, <2>2
<1> QED
  BY <1>8, <1>9 DEF TrackInv

LEMMA WirelessStep == WirelessInv /\ Kernel!WirelessLine => WirelessInv'
<1> SUFFICES ASSUME WirelessInv, Kernel!WirelessLine PROVE WirelessInv'
  OBVIOUS
<1>1. PICK n \in Interfaces, level \in Levels, noise \in Levels :
        wireless' = Append(wireless, [name |-> n, colon |-> TRUE, digits |-> TRUE,
                                      cols |-> <<0, 300, level, noise, 301>>])
  BY DEF Kernel!WirelessLine
<1>2. level \in -256 .. 255 /\ noise \in -256 .. 255
  BY PartsAssumption DEF Kernel!GlibtopAssumption
<1>3. PICK r : r = <<0, 300, level, noise, 301>>
  OBVIOUS
<1>4. r \in Seq(Int) /\ Len(r) = 5 /\ r[3] = level /\ r[4] = noise
  BY <1>2, <1>3
<1>5. PICK l : l = [name |-> n, colon |-> TRUE, digits |-> TRUE, cols |-> r]
  OBVIOUS
<1>6. l \in WirelessRecord /\ l.cols = r
  BY <1>4, <1>5 DEF WirelessRecord
<1>7. wireless \in Seq(WirelessRecord)
  BY DEF WirelessInv
<1>8. wireless' = Append(wireless, l)
  BY <1>1, <1>3, <1>5
<1>9. /\ wireless' \in Seq(WirelessRecord) /\ Len(wireless') = Len(wireless) + 1
      /\ \A i \in 1 .. Len(wireless) : wireless'[i] = wireless[i]
      /\ wireless'[Len(wireless) + 1] = l
      /\ \A i \in 1 .. Len(wireless') : i \in 1 .. Len(wireless) \/ i = Len(wireless) + 1
  BY <1>6, <1>7, <1>8, Appended
<1>10. ASSUME NEW i \in 1 .. Len(wireless') PROVE HasLevels(wireless'[i])
  <2>1. CASE i \in 1 .. Len(wireless)
    <3>1. HasLevels(wireless[i])
      BY <2>1 DEF WirelessInv
    <3>2. wireless'[i] = wireless[i]
      BY <1>9, <2>1
    <3> QED
      BY <3>1, <3>2
  <2>2. CASE i = Len(wireless) + 1
    <3>1. HasLevels(l)
      BY <1>2, <1>4, <1>6 DEF HasLevels
    <3> QED
      BY <1>9, <2>2, <3>1
  <2> QED
    BY <1>9, <2>1, <2>2
<1> QED
  BY <1>9, <1>10 DEF WirelessInv

LEMMA MemStep == MemInv /\ Kernel!MemLine => MemInv'
<1> SUFFICES ASSUME MemInv, Kernel!MemLine PROVE MemInv'
  OBVIOUS
<1>1. PICK k \in {"MemTotal", "MemFree", "SwapTotal", "SwapFree", "HugePages"},
           u \in {"none", "k", "M"}, n \in {0, 1, 3} :
        /\ \A i \in DOMAIN meminfo : meminfo[i].key # k
        /\ meminfo' = Append(meminfo, [key |-> k, number |-> n, unit |-> u])
  BY DEF Kernel!MemLine
<1>2. PICK l : l = [key |-> k, number |-> n, unit |-> u]
  OBVIOUS
<1>3. l \in MemRecord /\ l.key = k
  BY <1>2 DEF MemRecord
<1>4. meminfo \in Seq(MemRecord) /\ DOMAIN meminfo = 1 .. Len(meminfo)
  BY DEF MemInv
<1>5. meminfo' = Append(meminfo, l)
  BY <1>1, <1>2
<1>6. /\ meminfo' \in Seq(MemRecord) /\ Len(meminfo') = Len(meminfo) + 1
      /\ \A i \in 1 .. Len(meminfo) : meminfo'[i] = meminfo[i]
      /\ meminfo'[Len(meminfo) + 1] = l
      /\ \A i \in 1 .. Len(meminfo') : i \in 1 .. Len(meminfo) \/ i = Len(meminfo) + 1
  BY <1>3, <1>4, <1>5, Appended
<1>7. ASSUME NEW i \in 1 .. Len(meminfo'), NEW j \in 1 .. Len(meminfo'), meminfo'[i].key =
               meminfo'[j].key
      PROVE  i = j
  <2>1. CASE i \in 1 .. Len(meminfo) /\ j \in 1 .. Len(meminfo)
    BY <1>6, <1>7, <2>1 DEF MemInv
  <2>2. CASE i \in 1 .. Len(meminfo) /\ j = Len(meminfo) + 1
    BY <1>1, <1>3, <1>4, <1>6, <1>7, <2>2
  <2>3. CASE i = Len(meminfo) + 1 /\ j \in 1 .. Len(meminfo)
    BY <1>1, <1>3, <1>4, <1>6, <1>7, <2>3
  <2> QED
    BY <1>6, <2>1, <2>2, <2>3
<1> QED
  BY <1>6, <1>7 DEF MemInv

\* Files that are not written.
LEMMA PartsKept ==
  /\ HeaderInv /\ UNCHANGED <<header, links>> => HeaderInv'
  /\ DevInv /\ UNCHANGED <<header, dev>> => DevInv'
  /\ TrackInv /\ UNCHANGED track => TrackInv'
  /\ WirelessInv /\ UNCHANGED wireless => WirelessInv'
  /\ MemInv /\ UNCHANGED meminfo => MemInv'
<1>1. HeaderInv /\ UNCHANGED <<header, links>> => HeaderInv'
  BY DEF HeaderInv
<1>2. DevInv /\ UNCHANGED <<header, dev>> => DevInv'
  BY DEF DevInv
<1>3. TrackInv /\ UNCHANGED track => TrackInv'
  BY DEF TrackInv
<1>4. WirelessInv /\ UNCHANGED wireless => WirelessInv'
  BY DEF WirelessInv
<1>5. MemInv /\ UNCHANGED meminfo => MemInv'
  BY DEF MemInv
<1> QED
  BY <1>1, <1>2, <1>3, <1>4, <1>5

LEMMA KernelStep == KernelInv /\ Kernel!Next => KernelInv'
<1> SUFFICES ASSUME KernelInv, Kernel!Next PROVE KernelInv'
  OBVIOUS
<1> USE DEF KernelInv
<1>1. CASE Kernel!DevLine
  <2>1. DevInv'
    BY <1>1, DevStep
  <2>2. UNCHANGED <<header, links, track, wireless, meminfo>>
    BY <1>1 DEF Kernel!DevLine
  <2> QED
    BY <2>1, <2>2, PartsKept
<1>2. CASE Kernel!TrackLine
  <2>1. TrackInv'
    BY <1>2, TrackStep
  <2>2. UNCHANGED <<header, links, dev, wireless, meminfo>>
    BY <1>2 DEF Kernel!TrackLine
  <2> QED
    BY <2>1, <2>2, PartsKept
<1>3. CASE Kernel!WirelessLine
  <2>1. WirelessInv'
    BY <1>3, WirelessStep
  <2>2. UNCHANGED <<header, links, dev, track, meminfo>>
    BY <1>3 DEF Kernel!WirelessLine
  <2> QED
    BY <2>1, <2>2, PartsKept
<1>4. CASE Kernel!MemLine
  <2>1. MemInv'
    BY <1>4, MemStep
  <2>2. UNCHANGED <<header, links, dev, track, wireless>>
    BY <1>4 DEF Kernel!MemLine
  <2> QED
    BY <2>1, <2>2, PartsKept
<1> QED
  BY <1>1, <1>2, <1>3, <1>4 DEF Kernel!Next

-----------------------------------------------------------------------------
(* Lines that are found.                                                   *)

LEMMA FirstIs ==
  ASSUME NEW S \in SUBSET Nat, S # {}
  PROVE  Kernel!First(S) \in S /\ \A j \in S : Kernel!First(S) <= j
<1>1. \E i \in S : \A j \in S : i <= j
  BY LeastNatural
<1> QED
  BY <1>1 DEF Kernel!First

LEMMA DevTypes ==
  ASSUME DevInv, NEW i \in 1 .. Len(dev)
  PROVE  /\ dev[i].name \in Interfaces /\ dev[i].colon \in BOOLEAN /\
              dev[i].digits \in BOOLEAN
         /\ dev[i].cols \in Seq(Nat)
<1>1. dev \in Seq(DevRecord)
  BY DEF DevInv
<1>2. dev[i] \in DevRecord
  BY <1>1
<1>3. \A l \in DevRecord : /\ l.name \in Interfaces /\ l.colon \in BOOLEAN
                           /\ l.digits \in BOOLEAN /\ l.cols \in Seq(Nat)
  BY DEF DevRecord
<1> QED
  BY <1>2, <1>3

\* The first line of an interface, and its counters.
LEMMA NetLoadOf ==
  ASSUME HeaderInv, DevInv, NEW name \in Interfaces,
         NEW i \in 1 .. Len(dev), Kernel!IsStatistics(dev[i], name),
         header.bar, header.bytes, header.rx >= 3
  PROVE  /\ Kernel!NetLoad(header, dev, name) =
              [in |-> dev[i].cols[1], out |-> dev[i].cols[header.rx + 1]]
         /\ dev[i].cols[1] \in Nat /\ dev[i].cols[header.rx + 1] \in Nat
         /\ Kernel!First(Kernel!Statistics(dev, name)) = i
<1> DEFINE found == Kernel!Statistics(dev, name)  cols == dev[i].cols
<1>1. DOMAIN dev = 1 .. Len(dev) /\ Len(dev) \in Nat
  BY DEF DevInv
<1>2. found = {j \in 1 .. Len(dev) : Kernel!IsStatistics(dev[j], name)}
  BY <1>1 DEF Kernel!Statistics, Kernel!Where
<1>3. i \in found /\ found \in SUBSET Nat
  BY <1>1, <1>2
<1>4. Kernel!First(found) \in found
  <2> HIDE DEF found
  <2> QED
    BY <1>3, FirstIs
<1>5. Kernel!First(found) = i
  <2>1. Kernel!First(found) \in 1 .. Len(dev) /\ dev[Kernel!First(found)].name = name /\
          dev[i].name = name
    BY <1>2, <1>4 DEF Kernel!IsStatistics
  <2> QED
    BY <2>1 DEF DevInv
<1>6. /\ cols \in Seq(Nat) /\ Len(cols) = header.rx + 4 /\ DOMAIN cols = 1 .. header.rx + 4
      /\ header.rx \in Nat
  <2>1. cols \in Seq(Nat)
    BY DevTypes
  <2>2. Len(cols) = header.rx + 4 /\ header.rx \in Nat
    BY DEF DevInv, HeaderInv
  <2> HIDE DEF cols
  <2>3. DOMAIN cols = 1 .. Len(cols)
    BY <2>1
  <2> QED
    BY <2>1, <2>2, <2>3
<1> HIDE DEF found, cols
<1>7. 1 \in DOMAIN cols /\ 2 \in DOMAIN cols /\ 3 \in DOMAIN cols /\
        header.rx + 1 \in DOMAIN cols
  <2>1. \A r \in Nat : 1 \in 1 .. r + 4 /\ 2 \in 1 .. r + 4 /\ 3 \in 1 .. r + 4 /\
          r + 1 \in 1 .. r + 4
    OBVIOUS
  <2> QED
    BY <1>6, <2>1, Zenon
<1>8. cols[1] \in Nat /\ cols[header.rx + 1] \in Nat
  <2>1. \A j \in DOMAIN cols : cols[j] \in Nat
    BY <1>6, SMTT(30)
  <2> QED
    BY <1>7, <2>1
<1>9. /\ Kernel!AfterNumber(cols, 1) = 2 /\ Kernel!AfterNumber(cols, 2) = 3 /\
           Kernel!AfterNumber(cols, 3) = 4
      /\ Kernel!Number(cols, 1) = cols[1] /\
           Kernel!Number(cols, header.rx + 1) = cols[header.rx + 1]
  BY <1>7 DEF Kernel!AfterNumber, Kernel!Number
<1>10. Kernel!FieldsToSkip(header) = header.rx - 3
  BY <1>6 DEF Kernel!FieldsToSkip
<1>11. Kernel!SkipMultipleToken(cols, 4, header.rx - 3) = header.rx + 1
  BY <1>6 DEF Kernel!SkipMultipleToken
<1>12. ~ (~ header.bar \/ header.rx - 1 < 2 \/ found = {})
  BY <1>3, <1>6
<1>13. Kernel!NetLoad(header, dev, name) = [in |-> cols[1], out |-> cols[header.rx + 1]]
  <2>1. Kernel!NetLoad(header, dev, name) =
          [in |-> Kernel!Number(cols, 1),
           out |-> Kernel!Number(cols, Kernel!SkipMultipleToken(cols,
                     Kernel!AfterNumber(cols, Kernel!AfterNumber(cols,
                         Kernel!AfterNumber(cols, 1))),
                     Kernel!FieldsToSkip(header)))]
    BY <1>5, <1>12 DEF Kernel!NetLoad, found, cols
  <2> QED
    BY <1>9, <1>10, <1>11, <2>1
<1> QED
  BY <1>5, <1>8, <1>13 DEF found, cols

LEMMA NetLoadTrue == HeaderInv /\ DevInv => Kernel!NetLoadIsBytes
<1> SUFFICES ASSUME HeaderInv, DevInv PROVE Kernel!NetLoadIsBytes
  OBVIOUS
<1> DEFINE mine == Kernel!Statistics(dev, Interface)
           good == mine # {} /\ header.bar /\ header.bytes /\ header.rx >= 3
<1>1. DOMAIN dev = 1 .. Len(dev) /\ Len(dev) \in Nat /\ header.rx \in Nat /\
        Interface \in Interfaces
  BY PartsAssumption DEF DevInv, HeaderInv, Kernel!GlibtopAssumption
<1>2. mine = {j \in 1 .. Len(dev) : Kernel!IsStatistics(dev[j], Interface)}
  BY <1>1 DEF Kernel!Statistics, Kernel!Where
<1>3. CASE good
  <2>1. Kernel!First(mine) \in mine
    <3>1. mine \in SUBSET Nat /\ mine # {}
      BY <1>1, <1>2, <1>3
    <3> HIDE DEF mine
    <3> QED
      BY <3>1, FirstIs
  <2>2. Kernel!First(mine) \in 1 .. Len(dev) /\
          Kernel!IsStatistics(dev[Kernel!First(mine)], Interface)
    BY <1>2, <2>1
  <2>3. Kernel!NetLoad(header, dev, Interface) =
          [in |-> dev[Kernel!First(mine)].cols[1],
              out |-> dev[Kernel!First(mine)].cols[header.rx + 1]]
    <3> HIDE DEF mine
    <3> QED
      BY <1>1, <1>3, <2>2, NetLoadOf
  <2> QED
    BY <1>3, <2>3 DEF Kernel!NetLoadIsBytes
<1>4. CASE ~ good
  <2>1. Kernel!NetLoad(header, dev, Interface) =
          [in |-> Kernel!Garbage, out |-> Kernel!Garbage]
    <3>1. CASE ~ header.bar \/ header.rx - 1 < 2 \/ mine = {}
      BY <3>1 DEF Kernel!NetLoad
    <3>2. CASE ~ (~ header.bar \/ header.rx - 1 < 2 \/ mine = {})
      <4>1. ~ header.bytes
        BY <1>1, <1>4, <3>2
      <4> QED
        BY <3>2, <4>1 DEF Kernel!NetLoad
    <3> QED
      BY <3>1, <3>2
  <2> QED
    BY <1>4, <2>1 DEF Kernel!NetLoadIsBytes
<1> QED
  BY <1>3, <1>4

-----------------------------------------------------------------------------
(* The list of interfaces.                                                 *)

\* An interface for every line with a colon, in the order of the lines.
Lists(list, at, n) ==
  /\ at \in [1 .. Len(list) -> 1 .. n]
  /\ \A i, j \in 1 .. Len(list) : i < j => at[i] < at[j]
  /\ \A i \in 1 .. Len(list) : dev[at[i]].colon /\ list[i] = dev[at[i]].name

LEMMA ListedIs ==
  ASSUME DevInv
  PROVE  LET list == Kernel!Listed(dev) IN
         /\ list[0] = <<>>
         /\ \A n \in 1 .. Len(dev) :
              list[n] = IF dev[n].colon THEN Append(list[n - 1],
                  dev[n].name) ELSE list[n - 1]
<1> DEFINE N == Len(dev)
           V == Seq(Interfaces)
           G == [n \in 1 .. N |-> [v \in V |-> IF dev[n].colon THEN Append(v,
               dev[n].name) ELSE v]]
           Is(s) == s = [n \in 0 .. N |-> IF n = 0 THEN <<>>
                          ELSE IF dev[n].colon THEN Append(s[n - 1],
                              dev[n].name) ELSE s[n - 1]]
<1>0. N \in Nat /\ \A n \in 1 .. N : dev[n].name \in Interfaces /\ dev[n].colon \in BOOLEAN
  <2>1. Len(dev) \in Nat
    BY DEF DevInv
  <2> QED
    BY <2>1, DevTypes
<1>1. G \in [1 .. N -> [V -> V]]
  <2>1. ASSUME NEW n \in 1 .. N, NEW v \in V
        PROVE (IF dev[n].colon THEN Append(v, dev[n].name) ELSE v) \in V
    BY <1>0
  <2> HIDE DEF V, N
  <2> QED
    BY <2>1
<1>2. PICK s \in [0 .. N -> V] : Follows(s, N, <<>>, G)
  <2>1. <<>> \in V
    OBVIOUS
  <2> HIDE DEF G, V, N
  <2> QED
    BY <1>0, <1>1, <2>1, RecursionExists
<1>3. Is(s)
  <2>1. ASSUME NEW n \in 0 .. N
        PROVE  s[n] = IF n = 0 THEN <<>>
                      ELSE IF dev[n].colon THEN Append(s[n - 1], dev[n].name) ELSE s[n - 1]
    <3> HIDE DEF V, N
    <3>1. CASE n = 0
      BY <1>2, <3>1 DEF Follows
    <3>2. CASE n # 0
      <4>1. n \in 1 .. N /\ n - 1 \in 0 .. N
        BY <1>0, <3>2
      <4>2. s[n - 1] \in V
        BY <4>1
      <4>3. s[n] = G[n][s[n - 1]]
        <5> HIDE DEF G
        <5> QED
          BY <1>2, <4>1 DEF Follows
      <4>4. G[n][s[n - 1]] = IF dev[n].colon THEN Append(s[n - 1],
              dev[n].name) ELSE s[n - 1]
        BY <4>1, <4>2
      <4> QED
        BY <3>2, <4>3, <4>4
    <3> QED
      BY <3>1, <3>2
  <2>2. s = [n \in 0 .. N |-> s[n]]
    OBVIOUS
  <2>3. [n \in 0 .. N |-> s[n]]
          = [n \in 0 .. N |-> IF n = 0 THEN <<>>
                              ELSE IF dev[n].colon THEN Append(s[n - 1],
                                  dev[n].name) ELSE s[n - 1]]
    BY ONLY <2>1
  <2> QED
    BY ONLY <2>2, <2>3
<1>4. Kernel!Listed(dev) = CHOOSE r : Is(r)
  BY DEF Kernel!Listed, Kernel!HasColon
<1> DEFINE t == Kernel!Listed(dev)
<1>5. Is(t)
  <2> HIDE DEF Is
  <2> QED
    BY <1>3, <1>4
<1> HIDE DEF t, N
<1>6. \A n \in 0 .. N : t[n] = IF n = 0 THEN <<>>
                          ELSE IF dev[n].colon THEN Append(t[n - 1],
                              dev[n].name) ELSE t[n - 1]
  BY <1>5
<1>7. t[0] = <<>>
  BY <1>0, <1>6
<1>8. ASSUME NEW n \in 1 .. N
      PROVE  t[n] = IF dev[n].colon THEN Append(t[n - 1], dev[n].name) ELSE t[n - 1]
  <2>1. n \in 0 .. N /\ n # 0
    BY <1>0
  <2> QED
    BY <1>6, <2>1
<1> QED
  BY <1>7, <1>8 DEF t, N

LEMMA ListedLines ==
  ASSUME DevInv
  PROVE  \A n \in 0 .. Len(dev) :
           /\ Kernel!Listed(dev)[n] \in Seq(Interfaces)
           /\ \E at : Lists(Kernel!Listed(dev)[n], at, n)
           /\ IsFiniteSet({i \in 1 .. n : dev[i].colon})
           /\ Len(Kernel!Listed(dev)[n]) = Cardinality({i \in 1 .. n : dev[i].colon})
<1> DEFINE t == Kernel!Listed(dev)  C(n) == {i \in 1 .. n : dev[i].colon}
           P(n) == n <= Len(dev) =>
                     /\ t[n] \in Seq(Interfaces) /\ \E at : Lists(t[n], at, n)
                     /\ IsFiniteSet(C(n)) /\ Len(t[n]) = Cardinality(C(n))
           S == {n \in Nat : P(n)}
<1>0. /\ Len(dev) \in Nat /\ t[0] = <<>>
      /\ \A n \in 1 .. Len(dev) :
           t[n] = IF dev[n].colon THEN Append(t[n - 1], dev[n].name) ELSE t[n - 1]
      /\ \A n \in 1 .. Len(dev) : dev[n].name \in Interfaces /\ dev[n].colon \in BOOLEAN
  <2>1. Len(dev) \in Nat
    BY DEF DevInv
  <2> QED
    BY <2>1, ListedIs, DevTypes
<1>1. P(0)
  <2>1. C(0) = {}
    OBVIOUS
  <2>2. IsFiniteSet({}) /\ Cardinality({}) = 0
    BY FS_EmptySet
  <2>3. <<>> \in Seq(Interfaces) /\ Len(<<>>) = 0
    OBVIOUS
  <2>4. Lists(<<>>, <<>>, 0)
    <3>1. <<>> \in [1 .. 0 -> 1 .. 0]
      OBVIOUS
    <3>2. \A i : i \notin 1 .. 0
      OBVIOUS
    <3> QED
      BY <2>3, <3>1, <3>2 DEF Lists
  <2> HIDE DEF t, C
  <2> QED
    BY <1>0, <2>1, <2>2, <2>3, <2>4
<1>2. ASSUME NEW n \in Nat, P(n) PROVE P(n + 1)
  <2> SUFFICES ASSUME n + 1 <= Len(dev) PROVE P(n + 1)
    OBVIOUS
  <2> HIDE DEF t, C, S
  <2>1. n + 1 \in 1 .. Len(dev) /\ n <= Len(dev) /\ (n + 1) - 1 = n
    BY <1>0
  <2>2. /\ t[n] \in Seq(Interfaces) /\ IsFiniteSet(C(n)) /\ Len(t[n]) = Cardinality(C(n))
        /\ \E at : Lists(t[n], at, n)
    BY <1>2, <2>1
  <2>3. PICK at : Lists(t[n], at, n)
    BY <2>2
  <2>4. t[n + 1] = IF dev[n + 1].colon THEN Append(t[n], dev[n + 1].name) ELSE t[n]
    BY <1>0, <2>1
  <2>5. CASE ~ dev[n + 1].colon
    <3>1. C(n + 1) = C(n)
      BY <2>5 DEF C
    <3>2. t[n + 1] = t[n]
      BY <2>4, <2>5
    <3>3. Lists(t[n], at, n + 1)
      BY <2>3 DEF Lists
    <3> QED
      BY <2>2, <3>1, <3>2, <3>3
  <2>6. CASE dev[n + 1].colon
    <3>1. C(n + 1) = C(n) \cup {n + 1} /\ n + 1 \notin C(n)
      BY <2>6 DEF C
    <3>2. IsFiniteSet(C(n + 1)) /\ Cardinality(C(n + 1)) = Cardinality(C(n)) + 1
      BY <2>2, <3>1, FS_AddElement
    <3>3. PICK list : list = t[n]
      OBVIOUS
    <3>4. PICK name \in Interfaces : name = dev[n + 1].name
      BY <1>0, <2>1
    <3>5. /\ Append(list, name) \in Seq(Interfaces) /\
               Len(Append(list, name)) = Len(list) + 1
          /\ \A i \in 1 .. Len(list) : Append(list, name)[i] = list[i]
          /\ Append(list, name)[Len(list) + 1] = name /\ Len(list) \in Nat
          /\ \A i \in 1 .. Len(list) + 1 : i \in 1 .. Len(list) \/ i = Len(list) + 1
      BY <2>2, <3>3, Appended
    <3>6. t[n + 1] = Append(list, name)
      BY <2>4, <2>6, <3>3, <3>4
    <3> DEFINE L == Len(list)
               more == [i \in 1 .. L + 1 |-> IF i = L + 1 THEN n + 1 ELSE at[i]]
    <3>7. Lists(Append(list, name), more, n + 1)
      <4>1. L \in Nat /\ at \in [1 .. L -> 1 .. n]
            /\ (\A i, j \in 1 .. L : i < j => at[i] < at[j])
            /\ (\A i \in 1 .. L : dev[at[i]].colon /\ list[i] = dev[at[i]].name)
        BY <2>3, <3>3, <3>5 DEF Lists
      <4>2. more \in [1 .. L + 1 -> 1 .. n + 1]
        <5> HIDE DEF L
        <5> QED
          BY <4>1
      <4>3. \A i \in 1 .. L : more[i] = at[i] /\ at[i] \in 1 .. n
        <5> HIDE DEF L
        <5> QED
          BY <4>1
      <4>4. more[L + 1] = n + 1
        <5> HIDE DEF L
        <5> QED
          BY <4>1
      <4>5. ASSUME NEW i \in 1 .. L + 1, NEW j \in 1 .. L + 1, i < j PROVE more[i] < more[j]
        <5> HIDE DEF L, more
        <5>1. i \in 1 .. L
          BY <4>1, <4>5
        <5>2. CASE j \in 1 .. L
          BY <4>1, <4>3, <4>5, <5>1, <5>2
        <5>3. CASE j = L + 1
          BY <4>3, <4>4, <5>1, <5>3
        <5> QED
          BY <4>1, <5>2, <5>3
      <4>6. ASSUME NEW i \in 1 .. L + 1
            PROVE  dev[more[i]].colon /\ Append(list, name)[i] = dev[more[i]].name
        <5>1. CASE i \in 1 .. L
          <6> HIDE DEF L, more
          <6>1. Append(list, name)[i] = list[i]
            BY <3>5, <5>1 DEF L
          <6> QED
            BY <4>1, <4>3, <5>1, <6>1
        <5>2. CASE i = L + 1
          BY <2>6, <3>4, <3>5, <4>4, <5>2
        <5> QED
          BY <3>5, <5>1, <5>2
      <4>7. Len(Append(list, name)) = L + 1
        BY <3>5
      <4> HIDE DEF more, L
      <4> QED
        BY <4>2, <4>5, <4>6, <4>7 DEF Lists
    <3> HIDE DEF more
    <3> QED
      BY <2>2, <3>2, <3>3, <3>5, <3>6, <3>7
  <2> QED
    BY <2>5, <2>6
<1>3. S = Nat
  <2>1. S \in SUBSET Nat
    OBVIOUS
  <2>2. ASSUME NEW n \in S PROVE n + 1 \in S
    <3> HIDE DEF P
    <3> QED
      BY <1>2
  <2>3. 0 \in S
    <3> HIDE DEF P
    <3> QED
      BY <1>1
  <2> HIDE DEF S
  <2> QED
    BY <2>1, <2>2, <2>3, EveryNatural
<1>4. ASSUME NEW n \in 0 .. Len(dev) PROVE P(n) /\ n <= Len(dev)
  <2>1. n \in Nat /\ n <= Len(dev)
    BY <1>0
  <2>2. n \in S
    <3> HIDE DEF S
    <3> QED
      BY <1>3, <2>1
  <2> HIDE DEF P
  <2> QED
    BY <2>1, <2>2
<1> QED
  BY <1>4

LEMMA NamesAreListed ==
  ASSUME DevInv
  PROVE  LET names == Kernel!NetList(dev) IN
         /\ names \in Seq(Interfaces) /\ Len(names) \in Nat /\
              DOMAIN names = 1 .. Len(names)
         /\ \E at : Lists(names, at, Len(dev))
         /\ Len(names) = Cardinality(Kernel!Where(dev, Kernel!HasColon))
<1> DEFINE names == Kernel!NetList(dev)
<1>1. Len(dev) \in 0 .. Len(dev) /\ DOMAIN dev = 1 .. Len(dev)
  BY DEF DevInv
<1>2. /\ names \in Seq(Interfaces) /\ \E at : Lists(names, at, Len(dev))
      /\ Len(names) = Cardinality({i \in 1 .. Len(dev) : dev[i].colon})
  BY <1>1, ListedLines DEF Kernel!NetList
<1>3. Kernel!Where(dev, Kernel!HasColon) = {i \in 1 .. Len(dev) : dev[i].colon}
  BY <1>1 DEF Kernel!Where, Kernel!HasColon
<1>4. Len(names) \in Nat /\ DOMAIN names = 1 .. Len(names)
  <2> HIDE DEF names
  <2> QED
    BY <1>2
<1> QED
  BY <1>2, <1>3, <1>4

\* The instance counts as the library does.
LEMMA KernelCounts == \A S : Kernel!Cardinality(S) = Cardinality(S)
BY DEF Kernel!Cardinality, Cardinality

LEMMA NetListTrue == DevInv => Kernel!NetListFits
<1> SUFFICES ASSUME DevInv PROVE Kernel!NetListFits
  OBVIOUS
<1>1. ListStep \in Nat \ {0}
  BY PartsAssumption DEF Kernel!GlibtopAssumption
<1>2. ASSUME NEW n \in Nat \ {0} PROVE n <= Kernel!Room(n)
  <2> DEFINE q == (n - 1) \div ListStep
  <2>1. n - 1 \in Nat
    OBVIOUS
  <2>2. q \in Nat /\ (n - 1) - q * ListStep < ListStep /\ (n - 1) - q * ListStep \in Nat
    BY <1>1, <2>1, Apart
  <2>3. Kernel!Room(n) = ListStep * (1 + q)
    BY DEF Kernel!Room
  <2> HIDE DEF q
  <2>4. ListStep * (1 + q) = ListStep + q * ListStep /\ q * ListStep \in Nat
    BY <1>1, <2>2
  <2>5. n <= ListStep + q * ListStep
    <3>1. \A p, l \in Nat : (n - 1) - p < l => n <= l + p
      OBVIOUS
    <3> QED
      BY <1>1, <2>2, <2>4, <3>1
  <2> QED
    BY <2>3, <2>4, <2>5
<1>3. ASSUME NEW n \in Nat, n > 1 PROVE Kernel!Room(n) >= Kernel!Room(n - 1)
  <2> DEFINE q == (n - 1) \div ListStep  p == (n - 2) \div ListStep
  <2>1. n - 1 \in Nat /\ n - 2 \in Nat /\ (n - 1) - 1 = n - 2
    BY <1>3
  <2>2. /\ q \in Nat /\ (n - 1) - q * ListStep < ListStep
        /\ p \in Nat /\ (n - 2) - p * ListStep \in Nat
    BY <1>1, <2>1, Apart
  <2>3. Kernel!Room(n) = ListStep * (1 + q) /\ Kernel!Room(n - 1) = ListStep * (1 + p)
    BY <2>1 DEF Kernel!Room
  <2> HIDE DEF q, p
  <2>4. ~ (q < p)
    <3> SUFFICES ASSUME q < p PROVE FALSE
      OBVIOUS
    <3>1. q * ListStep + ListStep <= p * ListStep /\ q * ListStep \in Nat /\
            p * ListStep \in Nat
      BY <1>1, <2>2, LessTimes
    <3>2. \A a, b, l \in Nat : a + l <= b /\ (n - 1) - a < l /\ (n - 2) - b \in Nat => FALSE
      OBVIOUS
    <3> QED
      BY <1>1, <2>2, <3>1, <3>2
  <2>5. p = q \/ p < q
    BY <2>2, <2>4
  <2>6. /\ ListStep * (1 + q) = ListStep + q * ListStep /\ q * ListStep \in Nat
        /\ ListStep * (1 + p) = ListStep + p * ListStep /\ p * ListStep \in Nat
    BY <1>1, <2>2
  <2>7. p < q => p * ListStep + ListStep <= q * ListStep
    BY <1>1, <2>2, LessTimes
  <2>8. ListStep * (1 + p) <= ListStep * (1 + q)
    BY <1>1, <2>5, <2>6, <2>7
  <2> QED
    BY <1>1, <2>3, <2>6, <2>8
<1>4. LET names == Kernel!NetList(dev) IN
      Len(names) \in Nat /\ Len(names) = Cardinality(Kernel!Where(dev, Kernel!HasColon))
  BY NamesAreListed
<1>5. \A n \in 1 .. Len(Kernel!NetList(dev)) : n <= Kernel!Room(n) /\
        (n > 1 => Kernel!Room(n) >= Kernel!Room(n - 1))
  <2>1. \A m \in Nat : \A n \in 1 .. m : n \in Nat \ {0}
    OBVIOUS
  <2>2. \A n \in 1 .. Len(Kernel!NetList(dev)) : n \in Nat \ {0}
    BY <1>4, <2>1
  <2> QED
    BY <1>2, <1>3, <2>2
<1> QED
  BY <1>4, <1>5, KernelCounts DEF Kernel!NetListFits

\* Every number that is added up is that of a line, and no greater than what the line
\* has received.
LEMMA TrafficTrue == HeaderInv /\ DevInv => Kernel!TrafficIsOfOthers
<1> SUFFICES ASSUME HeaderInv, DevInv, header.bar, header.bytes, header.rx >= 3,
                    \A i \in DOMAIN dev :
                      dev[i].colon /\ ~ links[dev[i].name].loopback => dev[i].digits
             PROVE  /\ Kernel!Traffic.in >= 0 /\ Kernel!Traffic.out >= 0
                    /\ Kernel!Traffic.in <= Kernel!Sums(Kernel!Received)[Len(dev)]
  BY DEF Kernel!TrafficIsOfOthers
<1> DEFINE names == Kernel!NetList(dev)  load == Kernel!Load(names)  N == Len(names)  M == Len(dev)
<1>1. names \in Seq(Interfaces) /\ N \in Nat /\ DOMAIN names = 1 .. N /\
        \E at : Lists(names, at, M)
  BY NamesAreListed
<1>2. PICK at : Lists(names, at, M)
  BY <1>1
<1>3. /\ at \in [1 .. N -> 1 .. M]
      /\ \A i, j \in 1 .. N : i < j => at[i] < at[j]
      /\ \A i \in 1 .. N : dev[at[i]].colon /\ names[i] = dev[at[i]].name
  BY <1>2 DEF Lists
<1>4. M \in Nat /\ DOMAIN dev = 1 .. M
  BY DEF DevInv
<1>5. DOMAIN load = 1 .. N /\ \A i \in 1 .. N : load[i] = Kernel!GetNetLoad(names[i])
  <2> HIDE DEF names
  <2> QED
    BY <1>1 DEF Kernel!Load
<1> HIDE DEF names, load, N, M
<1>6. ASSUME NEW i \in 1 .. N, Kernel!Counted(load[i])
      PROVE  /\ load[i].bytes.in = dev[at[i]].cols[1] /\ load[i].bytes.in \in Nat
             /\ load[i].bytes.out \in Nat
             /\ ~ links[dev[at[i]].name].loopback
  <2>1. at[i] \in 1 .. M /\ dev[at[i]].colon /\ names[i] = dev[at[i]].name
    BY <1>3
  <2>2. names[i] \in Interfaces
    BY <1>1
  <2>3. load[i] = [is_loopback |-> links[names[i]].loopback,
          has_addr |-> links[names[i]].v4,
                   is_linklocal |-> Kernel!GetIPv6(names[i]),
                       bytes |-> Kernel!NetLoad(header, dev, names[i])]
    BY <1>5 DEF Kernel!GetNetLoad
  <2>4. ~ links[names[i]].loopback
    BY <1>6, <2>3 DEF Kernel!Counted
  <2>5. dev[at[i]].digits
    BY <1>4, <2>1, <2>4
  <2>6. Kernel!IsStatistics(dev[at[i]], names[i])
    BY <2>1, <2>5 DEF Kernel!IsStatistics
  <2>7. /\ Kernel!NetLoad(header, dev, names[i]) =
             [in |-> dev[at[i]].cols[1], out |-> dev[at[i]].cols[header.rx + 1]]
        /\ dev[at[i]].cols[1] \in Nat /\ dev[at[i]].cols[header.rx + 1] \in Nat
    BY <2>1, <2>2, <2>6, NetLoadOf DEF M
  <2> QED
    BY <2>1, <2>3, <2>4, <2>7
<1>7. Kernel!Traffic = [in |-> Kernel!Sums(Kernel!In(load))[N],
        out |-> Kernel!Sums(Kernel!Out(load))[N]]
  <2>1. \A i \in DOMAIN names :
          ~ (Kernel!Counted(load[i]) /\ load[i].bytes.in = Kernel!Garbage)
    <3>1. \A n \in Nat : n # Kernel!Garbage
      BY DEF Kernel!Garbage
    <3> QED
      BY <1>1, <1>6, <3>1
  <2> QED
    BY <2>1 DEF Kernel!Traffic, names, load, N
<1>8. /\ Kernel!In(load) \in [1 .. N -> Nat]
      /\ \A i \in 1 .. N : Kernel!In(load)[i] =
           IF Kernel!Counted(load[i]) THEN load[i].bytes.in ELSE 0
  BY <1>5, <1>6 DEF Kernel!In
<1>9. Kernel!Out(load) \in [1 .. N -> Nat]
  BY <1>5, <1>6 DEF Kernel!Out
<1>10. /\ Kernel!Received \in [1 .. M -> Nat]
       /\ \A j \in 1 .. M :
            Kernel!Received[j] = IF links[dev[j].name].loopback THEN 0 ELSE dev[j].cols[1]
  <2>1. ASSUME NEW j \in 1 .. M PROVE dev[j].cols[1] \in Nat
    <3>1. dev[j].cols \in Seq(Nat)
      BY DevTypes DEF M
    <3>2. Len(dev[j].cols) = header.rx + 4 /\ header.rx \in Nat
      BY DEF DevInv, HeaderInv, M
    <3>3. 1 \in 1 .. Len(dev[j].cols)
      BY <3>2
    <3> QED
      BY <3>1, <3>3
  <2> QED
    BY <1>4, <2>1 DEF Kernel!Received
<1>11. \A i \in 1 .. N : Kernel!In(load)[i] <= Kernel!Received[at[i]]
  <2>1. ASSUME NEW i \in 1 .. N PROVE Kernel!In(load)[i] <= Kernel!Received[at[i]]
    <3>1. at[i] \in 1 .. M /\ Kernel!Received[at[i]] \in Nat
      BY <1>3, <1>10
    <3>2. CASE Kernel!Counted(load[i])
      <4>1. Kernel!In(load)[i] = dev[at[i]].cols[1] /\
              Kernel!Received[at[i]] = dev[at[i]].cols[1]
        BY <1>6, <1>8, <1>10, <3>1, <3>2
      <4> QED
        BY <3>1, <4>1
    <3>3. CASE ~ Kernel!Counted(load[i])
      <4>1. Kernel!In(load)[i] = 0
        BY <1>8, <3>3
      <4> QED
        BY <3>1, <4>1
    <3> QED
      BY <3>2, <3>3
  <2> QED
    BY <2>1
<1>12. Kernel!Sums(Kernel!In(load))[N] <= Kernel!Sums(Kernel!Received)[M]
  BY <1>1, <1>3, <1>4, <1>8, <1>10, <1>11, SumsBelow
<1>13. Kernel!Sums(Kernel!In(load))[N] \in Nat /\ Kernel!Sums(Kernel!Out(load))[N] \in Nat
  <2>1. N \in Nat /\ N \in 0 .. N
    BY <1>1
  <2>2. Kernel!Sums(Kernel!In(load)) \in [0 .. N -> Nat]
    BY <1>8, <2>1, SumsAre
  <2>3. Kernel!Sums(Kernel!Out(load)) \in [0 .. N -> Nat]
    BY <1>9, <2>1, SumsAre
  <2> QED
    BY <2>1, <2>2, <2>3
<1>14. Kernel!Traffic.in = Kernel!Sums(Kernel!In(load))[N] /\
         Kernel!Traffic.out = Kernel!Sums(Kernel!Out(load))[N]
  BY <1>7
<1>15. Kernel!Traffic.in \in Nat /\ Kernel!Traffic.out \in Nat /\
         Kernel!Traffic.in <= Kernel!Sums(Kernel!Received)[M]
  BY <1>12, <1>13, <1>14
<1> QED
  BY <1>15 DEF M

-----------------------------------------------------------------------------
(* Connections, levels, memory.                                            *)

LEMMA ConntrackTrue == TrackInv => Kernel!ConntrackCounts
<1> SUFFICES ASSUME TrackInv PROVE Kernel!ConntrackCounts
  OBVIOUS
<1>1. DOMAIN track = 1 .. Len(track) /\ Len(track) \in Nat
  BY DEF TrackInv
<1>2. \A i \in DOMAIN track : Kernel!TrackState(track[i]) = track[i].rest[3]
  <2>1. \A i \in DOMAIN track : Len(track[i].rest) = 4
    BY <1>1 DEF TrackInv
  <2> QED
    BY <2>1 DEF Kernel!TrackState, Kernel!SkipMultipleToken
<1>3. \A i \in DOMAIN track : track[i].proto = "udp" => track[i].rest[3] = "src"
  BY <1>1 DEF TrackInv
<1>4. {i \in DOMAIN track : track[i].proto = "udp" /\ Kernel!TrackState(track[i]) # "TIME_WAIT"}
        = {i \in DOMAIN track : track[i].proto = "udp"}
  BY <1>2, <1>3
<1>5. {i \in DOMAIN track : track[i].proto = "tcp" /\ Kernel!TrackState(track[i]) # "TIME_WAIT"}
        = {i \in DOMAIN track : track[i].proto = "tcp" /\ track[i].rest[3] # "TIME_WAIT"}
  BY <1>2
<1> QED
  BY <1>4, <1>5 DEF Kernel!ConntrackCounts, Kernel!Conntrack, Kernel!Where

LEMMA SignedBytes ==
  ASSUME NEW v \in -256 .. 255
  PROVE  Kernel!SignedByte(v) \in -256 .. -1 /\ (Kernel!SignedByte(v) - v) % 256 = 0
<1>1. (-256) % 256 = 0 /\ 0 % 256 = 0
  OBVIOUS
<1>2. v \in Int /\ v >= -256 /\ v <= 255
  OBVIOUS
<1>3. CASE v >= 0
  <2>1. Kernel!SignedByte(v) = v - 256 /\ (v - 256) - v = -256 /\ v - 256 \in -256 .. -1
    BY <1>2, <1>3 DEF Kernel!SignedByte
  <2> QED
    BY <1>1, <2>1
<1>4. CASE ~ (v >= 0)
  <2>1. Kernel!SignedByte(v) = v /\ v - v = 0 /\ v \in -256 .. -1
    BY <1>2, <1>4 DEF Kernel!SignedByte
  <2> QED
    BY <1>1, <2>1
<1> QED
  BY <1>3, <1>4

LEMMA WirelessTrue == WirelessInv => Kernel!WirelessIsNegative
<1> SUFFICES ASSUME WirelessInv PROVE Kernel!WirelessIsNegative
  OBVIOUS
<1> DEFINE mine == Kernel!Statistics(wireless, Interface)  w == Kernel!Wireless(wireless)
<1>0. wireless \in Seq(WirelessRecord)
  BY DEF WirelessInv
<1>1. DOMAIN wireless = 1 .. Len(wireless) /\ Len(wireless) \in Nat
  BY <1>0
<1>2. mine \in SUBSET (1 .. Len(wireless))
  BY <1>1 DEF Kernel!Statistics, Kernel!Where
<1>3. CASE mine = {}
  <2>1. Kernel!SkipMultipleToken(<<>>, 1, 2) = 1
    BY DEF Kernel!SkipMultipleToken
  <2>2. Kernel!Number(<<>>, 1) = 0 /\ Kernel!Number(<<>>, 1 + 1) = 0
    BY DEF Kernel!Number
  <2>3. Kernel!SignedByte(0) = -256
    BY DEF Kernel!SignedByte
  <2>4. w = [signal |-> -256, noise |-> -256]
    BY <1>3, <2>1, <2>2, <2>3 DEF Kernel!Wireless
  <2> QED
    BY <1>3, <2>4 DEF Kernel!WirelessIsNegative
<1>4. CASE mine # {}
  <2> DEFINE f == Kernel!First(mine)  cols == wireless[f].cols
  <2>1. f \in 1 .. Len(wireless)
    <3>1. mine \in SUBSET Nat
      BY <1>2
    <3> HIDE DEF mine
    <3> QED
      BY <1>2, <1>4, <3>1, FirstIs
  <2>2. Len(cols) = 5 /\ cols[3] \in -256 .. 255 /\ cols[4] \in -256 .. 255
    <3> HIDE DEF f
    <3>1. HasLevels(wireless[f])
      BY <2>1 DEF WirelessInv
    <3> QED
      BY <3>1 DEF HasLevels
  <2>3. DOMAIN cols = 1 .. 5
    <3>1. wireless \in Seq(WirelessRecord)
      BY DEF WirelessInv
    <3>2. wireless[f] \in WirelessRecord
      <4> HIDE DEF f
      <4> QED
        BY <2>1, <3>1
    <3>3. \A l \in WirelessRecord : l.cols \in Seq(Int)
      BY DEF WirelessRecord
    <3>4. cols \in Seq(Int)
      BY <3>2, <3>3
    <3> HIDE DEF cols
    <3> QED
      BY <2>2, <3>4
  <2>4. Kernel!Wireless(wireless) =
          [signal |-> Kernel!SignedByte(Kernel!Number(cols,
              Kernel!SkipMultipleToken(cols, 1, 2))),
           noise |-> Kernel!SignedByte(Kernel!Number(cols, Kernel!SkipMultipleToken(cols, 1,
               2) + 1))]
    BY <1>4 DEF Kernel!Wireless
  <2>5. Kernel!SkipMultipleToken(cols, 1, 2) = 3
    <3> HIDE DEF cols
    <3> QED
      BY <2>2 DEF Kernel!SkipMultipleToken
  <2>6. Kernel!Number(cols, 3) = cols[3] /\ Kernel!Number(cols, 3 + 1) = cols[4]
    <3> HIDE DEF cols
    <3> QED
      BY <2>3 DEF Kernel!Number
  <2>7. w.signal = Kernel!SignedByte(cols[3]) /\ w.noise = Kernel!SignedByte(cols[4])
    <3> HIDE DEF cols
    <3> QED
      BY <2>4, <2>5, <2>6
  <2>8. /\ w.signal \in -256 .. -1 /\ (w.signal - cols[3]) % 256 = 0
        /\ w.noise \in -256 .. -1 /\ (w.noise - cols[4]) % 256 = 0
    <3> HIDE DEF cols, w
    <3>1. Kernel!SignedByte(cols[3]) \in -256 .. -1 /\
            (Kernel!SignedByte(cols[3]) - cols[3]) % 256 = 0
      BY <2>2, SignedBytes
    <3>2. Kernel!SignedByte(cols[4]) \in -256 .. -1 /\
            (Kernel!SignedByte(cols[4]) - cols[4]) % 256 = 0
      BY <2>2, SignedBytes
    <3> QED
      BY <2>7, <3>1, <3>2
  <2> QED
    BY <1>4, <2>8 DEF Kernel!WirelessIsNegative
<1> QED
  BY <1>3, <1>4

\* What is found under a key.
LEMMA ScaledAbsent ==
  ASSUME MemInv, NEW key, \A i \in 1 .. Len(meminfo) : meminfo[i].key # key
  PROVE  Kernel!GetScaled(meminfo, key) = 0
<1>1. DOMAIN meminfo = 1 .. Len(meminfo)
  BY DEF MemInv
<1>2. {i \in DOMAIN meminfo : meminfo[i].key = key} = {}
  BY <1>1
<1> QED
  BY <1>2 DEF Kernel!GetScaled, Kernel!Where

LEMMA ScaledFound ==
  ASSUME MemInv, NEW i \in 1 .. Len(meminfo)
  PROVE  /\ \E t \in {1, 2, 4} : Kernel!GetScaled(meminfo, meminfo[i].key) =
              meminfo[i].number * t
         /\ meminfo[i].unit # "none" =>
              Kernel!GetScaled(meminfo, meminfo[i].key) =
                  meminfo[i].number * Kernel!Times(meminfo[i].unit)
         /\ meminfo[i].number \in Nat
<1> DEFINE key == meminfo[i].key
           at == {j \in DOMAIN meminfo : meminfo[j].key = key}
           units == {j \in {k \in DOMAIN meminfo : meminfo[k].unit # "none"} : j >= i}
<1>1. DOMAIN meminfo = 1 .. Len(meminfo) /\ Len(meminfo) \in Nat /\ i \in Nat
  BY DEF MemInv
<1>2. at = {i}
  BY <1>1 DEF MemInv
<1>3. Kernel!First(at) = i
  <2>1. at \in SUBSET Nat /\ at # {} /\ \A j \in at : j = i
    BY <1>1, <1>2
  <2> HIDE DEF at
  <2> QED
    BY <2>1, FirstIs
<1>4. Kernel!GetScaled(meminfo, key) =
        meminfo[i].number * (IF units = {} THEN 1 ELSE Kernel!Times(meminfo[Kernel!First(units)].unit))
  <2>1. at # {}
    BY <1>2
  <2> QED
    BY <1>3, <2>1 DEF Kernel!GetScaled, Kernel!Where
<1>5. \A u : Kernel!Times(u) \in {1, 2, 4}
  BY DEF Kernel!Times
<1>6. meminfo[i].number \in Nat
  <2>1. meminfo[i] \in MemRecord
    BY DEF MemInv
  <2> QED
    BY <2>1 DEF MemRecord
<1>7. ASSUME meminfo[i].unit # "none" PROVE units # {} /\ Kernel!First(units) = i
  <2>1. i \in units /\ units \in SUBSET Nat /\ \A j \in units : j \in Nat /\ j >= i
    BY <1>1, <1>7
  <2> HIDE DEF units
  <2>2. Kernel!First(units) \in units /\ Kernel!First(units) <= i
    BY <2>1, FirstIs
  <2>3. Kernel!First(units) \in Nat /\ Kernel!First(units) >= i
    BY <2>1, <2>2
  <2> QED
    BY <1>1, <2>1, <2>2, <2>3
<1>8. (IF units = {} THEN 1 ELSE Kernel!Times(meminfo[Kernel!First(units)].unit)) \in {1, 2, 4}
  <2> HIDE DEF units
  <2> QED
    BY <1>5
<1> HIDE DEF units
<1>9. meminfo[i].unit # "none" =>
        Kernel!GetScaled(meminfo, key) = meminfo[i].number * Kernel!Times(meminfo[i].unit)
  BY <1>4, <1>7
<1>10. \E t \in {1, 2, 4} : Kernel!GetScaled(meminfo, key) = meminfo[i].number * t
  BY <1>4, <1>8
<1> QED
  BY <1>6, <1>9, <1>10

LEMMA UnitTrue == MemInv => Kernel!UnitIsOwn
<1> SUFFICES ASSUME MemInv PROVE Kernel!UnitIsOwn
  OBVIOUS
<1>1. DOMAIN meminfo = 1 .. Len(meminfo)
  BY DEF MemInv
<1> QED
  BY <1>1, ScaledFound DEF Kernel!UnitIsOwn

LEMMA SharesTrue == MemInv => Kernel!SharesAreNumbers
<1> SUFFICES ASSUME MemInv PROVE Kernel!SharesAreNumbers
  OBVIOUS
<1>1. DOMAIN meminfo = 1 .. Len(meminfo)
  BY DEF MemInv
<1>2. Kernel!Swap(meminfo) # <<>>
  BY DEF Kernel!Swap
<1>3. Kernel!Memory(meminfo) = <<>> <=> Kernel!GetScaled(meminfo, "MemTotal") = 0
  BY DEF Kernel!Memory
<1>4. Kernel!GetScaled(meminfo, "MemTotal") = 0 <=>
        \A i \in DOMAIN meminfo : meminfo[i].key # "MemTotal" \/ meminfo[i].number = 0
  <2>1. CASE \A i \in DOMAIN meminfo : meminfo[i].key # "MemTotal"
    BY <1>1, <2>1, ScaledAbsent
  <2>2. CASE \E i \in DOMAIN meminfo : meminfo[i].key = "MemTotal"
    <3>1. PICK i \in DOMAIN meminfo : meminfo[i].key = "MemTotal"
      BY <2>2
    <3>2. PICK t \in {1, 2, 4} : Kernel!GetScaled(meminfo, "MemTotal") =
                 meminfo[i].number * t
      BY <1>1, <3>1, ScaledFound
    <3>3. meminfo[i].number \in Nat
      BY <1>1, ScaledFound
    <3>4. meminfo[i].number * t = 0 <=> meminfo[i].number = 0
      BY <3>3
    <3>5. \A j \in DOMAIN meminfo : meminfo[j].key = "MemTotal" => j = i
      BY <1>1, <3>1 DEF MemInv
    <3> QED
      BY <3>1, <3>2, <3>4, <3>5
  <2> QED
    BY <2>1, <2>2
<1> QED
  BY <1>2, <1>3, <1>4 DEF Kernel!SharesAreNumbers

-----------------------------------------------------------------------------
(* The properties of a behaviour of one part.                              *)

LEMMA KernelIsRight == KernelInv => /\ Kernel!NetLoadIsBytes /\ Kernel!NetListFits
                                    /\ Kernel!TrafficIsOfOthers /\ Kernel!ConntrackCounts
                                    /\ Kernel!WirelessIsNegative /\ Kernel!UnitIsOwn
                                    /\ Kernel!SharesAreNumbers
<1> SUFFICES ASSUME HeaderInv, DevInv, TrackInv, WirelessInv, MemInv
             PROVE  /\ Kernel!NetLoadIsBytes /\ Kernel!NetListFits
                    /\ Kernel!TrafficIsOfOthers /\ Kernel!ConntrackCounts
                    /\ Kernel!WirelessIsNegative /\ Kernel!UnitIsOwn
                    /\ Kernel!SharesAreNumbers
  BY DEF KernelInv
<1> QED
  BY NetLoadTrue, NetListTrue, TrafficTrue, ConntrackTrue, WirelessTrue, UnitTrue,
      SharesTrue, Zenon

LEMMA SampleKept == SampleInv /\ UNCHANGED sampleVars => SampleInv'
BY DEF SampleInv, sampleVars, Sample!HaveFrame

\* The invariant of the part that runs.
AnyInv ==
  /\ what \in {"file", "sample"} \cup Files
  /\ what \in Files => KernelInv
  /\ what = "sample" => SampleInv

LEMMA AnyInvHolds == AnySpec => []AnyInv
<1>0. {"file", "sample"} \cap Files = {}
  BY DEF Files
<1>1. AnyInit => AnyInv
  <2> SUFFICES ASSUME AnyInit PROVE AnyInv
    OBVIOUS
  <2>1. CASE what = "file"
    BY <1>0, <2>1 DEF AnyInv
  <2>2. CASE what \in Files /\ Kernel!Init
    BY <1>0, <2>2, KernelInit DEF AnyInv
  <2>3. CASE what = "sample" /\ Sample!Init
    BY <1>0, <2>3, SampleInit DEF AnyInv
  <2>4. "dev" \in Files
    BY DEF Files
  <2> QED
    BY <2>1, <2>2, <2>3, <2>4, Zenon DEF AnyInit
<1>2. AnyInv /\ [AnyNext]_allVars => AnyInv'
  <2> SUFFICES ASSUME AnyInv, [AnyNext]_allVars PROVE AnyInv'
    OBVIOUS
  <2>1. CASE OfFile
    <3>1. what = "file" /\ what' = what
      BY <2>1 DEF OfFile
    <3> QED
      BY <1>0, <3>1 DEF AnyInv
  <2>2. CASE OfKernel /\ Kernel!Next
    <3>1. what \in Files /\ what' = what
      BY <2>2 DEF OfKernel
    <3>2. KernelInv'
      BY <2>2, <3>1, KernelStep DEF AnyInv
    <3> QED
      BY <1>0, <3>1, <3>2 DEF AnyInv
  <2>3. CASE OfSample /\ Sample!Next
    <3>1. what = "sample" /\ what' = what
      BY <2>3 DEF OfSample
    <3>2. SampleInv'
      BY <2>3, <3>1, SampleStep DEF AnyInv
    <3> QED
      BY <1>0, <3>1, <3>2 DEF AnyInv
  <2>4. CASE UNCHANGED allVars
    <3>1. UNCHANGED <<what, kernelVars, sampleVars>>
      BY <2>4 DEF allVars
    <3>2. KernelInv => KernelInv'
      BY <3>1, PartsKept DEF kernelVars, KernelInv
    <3>3. SampleInv => SampleInv'
      BY <3>1, SampleKept
    <3> QED
      BY <3>1, <3>2, <3>3 DEF AnyInv
  <2> QED
    BY <2>1, <2>2, <2>3, <2>4 DEF AnyNext
<1> QED
  BY <1>1, <1>2, PTL DEF AnySpec

\* Whatever lines the kernel's files have, a number that is stored is the one of the
\* file that it is called (netload.c:76-183, netlist.c:14-36, jtop.c:72-123,
\* conntrack.c:14-40, wireless.c:74-91, common.c:36-64).
THEOREM CollectorsTrue == AnySpec => []CollectorsAreRight
<1>1. AnyInv => CollectorsAreRight
  BY KernelIsRight DEF AnyInv, CollectorsAreRight
<1> QED
  BY <1>1, AnyInvHolds, PTL

\* With floats of any precision and counters of any size, a frame's numbers are the
\* kernel's differences, exactly or near them, and have their sign (jtop.c:120-126,
\* jtop.c:204-208).
THEOREM FramesTrue == AnySpec => []FramesAreDifferences
<1>1. AnyInv => FramesAreDifferences
  BY SampleFrame DEF AnyInv, FramesAreDifferences
<1> QED
  BY <1>1, AnyInvHolds, PTL

=============================================================================
