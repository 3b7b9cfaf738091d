-------------------------- MODULE Transfers_proofs --------------------------
(***************************************************************************)
(* Proofs about the uploads and the server-side includes of mongoose, as   *)
(* MCStreams joins them, for every body, boundary and size of a buffer,    *)
(* every text of the files and every depth of inclusion; Streams_proofs    *)
(* goes on with the other streams.                                         *)
(*                                                                         *)
(* An upload is at a place p of the body: UploadAt says what is buffered   *)
(* and what is still to be read behind it (Behind), and which part it is   *)
(* in.  Of the files that include each other the invariant says what is    *)
(* owed to the client: what is sent and what every open file still owes,   *)
(* from the innermost out (Owes), is the first file with every tag         *)
(* replaced.                                                               *)
(***************************************************************************)
EXTENDS MCStreams, FiniteSetTheorems, SequenceTheorems, WellFoundedInduction, TLAPS

-----------------------------------------------------------------------------
(* Numbers and functions of them.  What is defined by recursion over the   *)
(* numbers is a function if each step is one: the least number where it is *)
(* not would be one more than a number where it is.                        *)

\* A set of numbers that is not empty has a least one.
LEMMA LeastNatural ==
  ASSUME NEW S \in SUBSET Nat, S # {} PROVE \E i \in S : \A j \in S : i <= j
<1> DEFINE R == {ss \in Nat \X Nat : ss[1] < ss[2]}
<1>1. IsWellFoundedOn(R, Nat)
  BY NatLessThanWellFounded DEF OpToRel
<1>2. PICK i \in S : \A j \in S : ~ (<<j, i>> \in R)
  <2> HIDE DEF R
  <2> QED
    BY <1>1, WFMin
<1>3. \A j \in S : ~ (j < i)
  BY <1>2
<1> QED
  BY <1>3

\* Induction, over a set of numbers.
LEMMA EveryNatural ==
  ASSUME NEW S \in SUBSET Nat, 0 \in S, \A i \in S : i + 1 \in S PROVE S = Nat
<1> DEFINE missing == Nat \ S
<1> SUFFICES ASSUME missing # {} PROVE FALSE
  OBVIOUS
<1>1. PICK i \in missing : \A j \in missing : i <= j
  <2>1. missing \in SUBSET Nat
    OBVIOUS
  <2> HIDE DEF missing
  <2> QED
    BY <2>1, LeastNatural
<1>2. i # 0 /\ i - 1 \in Nat /\ ~ (i <= i - 1)
  OBVIOUS
<1>3. i - 1 \in S
  BY <1>1, <1>2
<1>4. (i - 1) + 1 \in S /\ (i - 1) + 1 = i
  BY <1>3
<1> QED
  BY <1>4

\* A function of numbers is given by its first value and by the step to each.
Follows(f, n, start, G) == f[0] = start /\ \A i \in 1 .. n : f[i] = G[i][f[i - 1]]

\* What is defined step by step up to a number is a function.
LEMMA RecursionExists ==
  ASSUME NEW V, NEW start \in V, NEW N \in Nat, NEW G \in [1 .. N -> [V -> V]]
  PROVE  \E f \in [0 .. N -> V] : Follows(f, N, start, G)
<1> DEFINE Up(m, f) == Follows(f, m, start, G)
           Have(m) == m <= N => \E f \in [0 .. m -> V] : Up(m, f)
           S == {m \in Nat : Have(m)}
<1>1. 0 \in S
  <2> DEFINE f == [i \in 0 .. 0 |-> start]
  <2>1. f \in [0 .. 0 -> V] /\ Up(0, f)
    BY DEF Follows
  <2>2. Have(0)
    <3> HIDE DEF f, Up
    <3> QED
      BY <2>1
  <2> HIDE DEF Have
  <2> QED
    BY <2>2
<1>2. ASSUME NEW m \in S PROVE m + 1 \in S
  <2>1. Have(m + 1)
    <3> SUFFICES ASSUME m + 1 <= N PROVE \E f \in [0 .. m + 1 -> V] : Up(m + 1, f)
      OBVIOUS
    <3>1. PICK f \in [0 .. m -> V] : Up(m, f)
      OBVIOUS
    <3>2. m + 1 \in 1 .. N /\ G[m + 1] \in [V -> V] /\ f[m] \in V
      OBVIOUS
    <3> DEFINE g == [i \in 0 .. m + 1 |-> IF i = m + 1 THEN G[m + 1][f[m]] ELSE f[i]]
    <3>3. g \in [0 .. m + 1 -> V]
      BY <3>2
    <3>4. ASSUME NEW i \in 1 .. m + 1 PROVE g[i] = G[i][g[i - 1]]
      <4>1. CASE i = m + 1
        <5>1. g[i] = G[m + 1][f[m]] /\ i - 1 = m /\ g[m] = f[m]
          BY <4>1
        <5> QED
          BY <4>1, <5>1
      <4>2. CASE i # m + 1
        <5>1. i \in 1 .. m /\ g[i] = f[i] /\ g[i - 1] = f[i - 1]
          BY <4>2
        <5> QED
          BY <3>1, <5>1 DEF Follows
      <4> QED
        BY <4>1, <4>2
    <3>5. Up(m + 1, g)
      <4>1. g[0] = f[0] /\ f[0] = start
        BY <3>1 DEF Follows
      <4> QED
        BY <3>4, <4>1 DEF Follows
    <3> HIDE DEF g, Up
    <3> QED
      BY <3>3, <3>5
  <2> HIDE DEF Have
  <2> QED
    BY <2>1
<1>3. S = Nat
  <2>1. S \in SUBSET Nat
    OBVIOUS
  <2> HIDE DEF S
  <2> QED
    BY <1>1, <1>2, <2>1, EveryNatural
<1>4. Have(N)
  <2> HIDE DEF Have
  <2> QED
    BY <1>3
<1> QED
  BY <1>4

\* A least number of a set is the one that CHOOSE takes.
LEMMA ChosenIsLeast ==
  ASSUME NEW S \in SUBSET Nat, NEW n \in S, \A k \in S : n <= k
  PROVE  (CHOOSE j \in S : \A k \in S : j <= k) = n
<1>1. ASSUME NEW j \in S, \A k \in S : j <= k PROVE j = n
  <2>1. j <= n /\ n <= j /\ j \in Nat /\ n \in Nat
    BY <1>1
  <2> QED
    BY <2>1
<1> QED
  BY <1>1

\* What holds of a number if it holds of all greater ones, up to the last, holds of all.
LEMMA EveryBackward ==
  ASSUME NEW lo \in Nat, NEW hi \in Nat, NEW S \in SUBSET Nat,
         \A i \in lo .. hi : (\A j \in i + 1 .. hi : j \in S) => i \in S
  PROVE  \A i \in lo .. hi : i \in S
<1> DEFINE missing == {i \in lo .. hi : i \notin S}
           below == {n \in Nat : \E i \in missing : n = hi - i}
<1> SUFFICES ASSUME missing # {} PROVE FALSE
  OBVIOUS
<1>1. below \in SUBSET Nat /\ below # {}
  <2>1. PICK i \in lo .. hi : i \in missing
    OBVIOUS
  <2>2. hi - i \in Nat /\ hi - i \in below
    BY <2>1
  <2> QED
    BY <2>2
<1>2. PICK n \in below : \A k \in below : n <= k
  <2> HIDE DEF below
  <2> QED
    BY <1>1, LeastNatural
<1>3. PICK i \in missing : n = hi - i
  OBVIOUS
<1>4. ASSUME NEW j \in i + 1 .. hi PROVE j \in S
  <2> SUFFICES ASSUME j \notin S PROVE FALSE
    OBVIOUS
  <2>1. j \in missing /\ hi - j \in below
    OBVIOUS
  <2>2. n <= hi - j
    BY <1>2, <2>1
  <2> QED
    BY <1>3, <2>2
<1> QED
  BY <1>4

\* A function of numbers of which each value is given by those behind it.
Backward(f, lo, hi, G) == \A i \in lo .. hi : f[i] = G[i][f]

\* Two functions agree behind a number.
Agree(f, g, i, hi) == \A j \in i + 1 .. hi : f[j] = g[j]

\* What is defined backwards from a number is a function.
LEMMA BackwardExists ==
  ASSUME NEW V, V # {}, NEW lo \in Nat, NEW hi \in Nat, lo <= hi,
         NEW G \in [lo .. hi -> [[lo .. hi -> V] -> V]],
         \A i \in lo .. hi : \A f, g \in [lo .. hi -> V] : Agree(f, g, i, hi) => G[i][f] = G[i][g]
  PROVE  \E f \in [lo .. hi -> V] : Backward(f, lo, hi, G)
<1> DEFINE Tables == [lo .. hi -> V]
           N == hi - lo + 1
           at(k) == hi + 1 - k
           Set(k, t) == [j \in lo .. hi |-> IF j = at(k) THEN G[at(k)][t] ELSE t[j]]
           Step == [k \in 1 .. N |-> [t \in Tables |-> Set(k, t)]]
<1>0. N \in Nat
  OBVIOUS
<1>1. PICK v0 \in V : TRUE
  OBVIOUS
<1>2. ASSUME NEW k \in 1 .. N PROVE at(k) \in lo .. hi
  OBVIOUS
<1>3. ASSUME NEW k \in 1 .. N, NEW t \in Tables PROVE Set(k, t) \in Tables
  <2>1. G[at(k)][t] \in V
    BY <1>2
  <2> QED
    BY <2>1
<1>4. PICK F \in [0 .. N -> Tables] : Follows(F, N, [j \in lo .. hi |-> v0], Step)
  <2>1. Step \in [1 .. N -> [Tables -> Tables]]
    <3> HIDE DEF N, Set
    <3> QED
      BY <1>3
  <2>2. [j \in lo .. hi |-> v0] \in Tables
    BY <1>1
  <2> HIDE DEF Step, Tables, N
  <2> QED
    BY <1>0, <2>1, <2>2, RecursionExists
<1>5. ASSUME NEW k \in 1 .. N
      PROVE  F[k - 1] \in Tables /\ F[k] \in Tables /\ F[k] = Set(k, F[k - 1])
  <2>1. k - 1 \in 0 .. N /\ k \in 0 .. N
    OBVIOUS
  <2>2. F[k] = Step[k][F[k - 1]] /\ F[k - 1] \in Tables /\ F[k] \in Tables
    BY <1>4, <2>1 DEF Follows
  <2>3. Step[k][F[k - 1]] = Set(k, F[k - 1])
    <3> HIDE DEF Set, N, Tables
    <3> QED
      BY <2>2
  <2> QED
    BY <2>2, <2>3
<1>6. ASSUME NEW k \in 1 .. N
      PROVE  /\ F[k][at(k)] = G[at(k)][F[k - 1]]
             /\ \A j \in lo .. hi : j # at(k) => F[k][j] = F[k - 1][j]
  <2>1. F[k] = Set(k, F[k - 1])
    BY <1>5
  <2> HIDE DEF N
  <2> QED
    BY <1>2, <2>1
<1>7. ASSUME NEW j \in lo .. hi, NEW k \in 0 .. N, j >= at(k) PROVE F[N][j] = F[k][j]
  <2> DEFINE S == {m \in Nat : k <= m /\ m <= N => F[m][j] = F[k][j]}
  <2>1. 0 \in S
    OBVIOUS
  <2>2. ASSUME NEW m \in S PROVE m + 1 \in S
    <3> SUFFICES ASSUME k <= m + 1, m + 1 <= N PROVE F[m + 1][j] = F[k][j]
      OBVIOUS
    <3>1. CASE k = m + 1
      BY <3>1
    <3>2. CASE k # m + 1
      <4>1. m + 1 \in 1 .. N /\ (m + 1) - 1 = m /\ k <= m /\ m <= N /\ j # at(m + 1)
        BY <1>7, <3>2
      <4>2. F[m + 1][j] = F[m][j]
        <5> HIDE DEF at, N
        <5> QED
          BY <1>6, <4>1
      <4> QED
        BY <4>1, <4>2
    <3> QED
      BY <3>1, <3>2
  <2>3. S = Nat
    <3>1. S \in SUBSET Nat
      OBVIOUS
    <3> HIDE DEF S
    <3> QED
      BY <2>1, <2>2, <3>1, EveryNatural
  <2>4. N \in S
    BY <1>0, <2>3
  <2> HIDE DEF N
  <2> QED
    BY <1>0, <2>4
<1>8. F[N] \in Tables
  BY <1>0, <1>4
<1>9. ASSUME NEW i \in lo .. hi PROVE F[N][i] = G[i][F[N]]
  <2> DEFINE k == hi + 1 - i
  <2>1. k \in 1 .. N /\ k - 1 \in 0 .. N /\ at(k) = i /\ at(k - 1) = i + 1 /\ k \in 0 .. N
    OBVIOUS
  <2>2. F[k][i] = G[i][F[k - 1]] /\ F[k - 1] \in Tables
    <3> HIDE DEF k, at, N
    <3> QED
      BY <1>5, <1>6, <2>1
  <2>3. F[N][i] = F[k][i]
    BY <1>7, <2>1
  <2>4. Agree(F[N], F[k - 1], i, hi)
    <3> SUFFICES ASSUME NEW j \in i + 1 .. hi PROVE F[N][j] = F[k - 1][j]
      BY DEF Agree
    <3>1. j \in lo .. hi /\ j >= at(k - 1)
      OBVIOUS
    <3> QED
      BY <1>7, <2>1, <3>1
  <2>5. G[i][F[N]] = G[i][F[k - 1]]
    BY <1>8, <2>2, <2>4
  <2> QED
    BY <2>2, <2>3, <2>5
<1> QED
  BY <1>8, <1>9 DEF Backward

-----------------------------------------------------------------------------
(* Texts that stand in one another.                                        *)

\* The n characters behind two places of texts are the same.
Alike(s, i, t, j, n) == \A k \in 1 .. n : s[i + k] = t[j + k]

\* Then these pieces are.
LEMMA SamePiece ==
  ASSUME NEW V, NEW s \in Seq(V), NEW t \in Seq(V), NEW i \in Nat, NEW j \in Nat, NEW n \in Nat,
         i + n <= Len(s), j + n <= Len(t), Alike(s, i, t, j, n)
  PROVE  SubSeq(s, i + 1, i + n) = SubSeq(t, j + 1, j + n)
<1>1. Len(s) \in Nat /\ s \in [1 .. Len(s) -> V] /\ Len(t) \in Nat /\ t \in [1 .. Len(t) -> V]
  BY LenProperties
<1>2. \A k \in i + 1 .. i + n : s[k] \in V
  BY <1>1
<1>3. \A k \in j + 1 .. j + n : t[k] \in V
  BY <1>1
<1> DEFINE x == SubSeq(s, i + 1, i + n)
           y == SubSeq(t, j + 1, j + n)
<1>4. x \in Seq(V) /\ Len(x) = n /\ \A k \in 1 .. n : x[k] = s[i + k]
  <2>1. /\ x \in Seq(V) /\ Len(x) = IF i + 1 <= i + n THEN (i + n) - (i + 1) + 1 ELSE 0
        /\ \A k \in 1 .. (i + n) - (i + 1) + 1 : x[k] = s[(i + 1) + k - 1]
    BY <1>2, SubSeqProperties
  <2>2. (i + n) - (i + 1) + 1 = n /\ \A k \in 1 .. n : (i + 1) + k - 1 = i + k
    OBVIOUS
  <2> HIDE DEF x
  <2> QED
    BY <2>1, <2>2
<1>5. y \in Seq(V) /\ Len(y) = n /\ \A k \in 1 .. n : y[k] = t[j + k]
  <2>1. /\ y \in Seq(V) /\ Len(y) = IF j + 1 <= j + n THEN (j + n) - (j + 1) + 1 ELSE 0
        /\ \A k \in 1 .. (j + n) - (j + 1) + 1 : y[k] = t[(j + 1) + k - 1]
    BY <1>3, SubSeqProperties
  <2>2. (j + n) - (j + 1) + 1 = n /\ \A k \in 1 .. n : (j + 1) + k - 1 = j + k
    OBVIOUS
  <2> HIDE DEF y
  <2> QED
    BY <2>1, <2>2
<1>6. x \in [1 .. n -> V] /\ y \in [1 .. n -> V] /\ \A k \in 1 .. n : x[k] = y[k]
  <2> HIDE DEF x, y
  <2> QED
    BY <1>4, <1>5, LenProperties DEF Alike
<1> HIDE DEF x, y
<1>7. x = y
  BY <1>6
<1> QED
  BY <1>7 DEF x, y

\* A piece of a text, character by character.
LEMMA PieceOf ==
  ASSUME NEW V, NEW s \in Seq(V), NEW i \in Nat, NEW n \in Nat, i <= n, n <= Len(s)
  PROVE  /\ SubSeq(s, i + 1, n) \in Seq(V) /\ Len(SubSeq(s, i + 1, n)) = n - i
         /\ \A k \in 1 .. n - i : SubSeq(s, i + 1, n)[k] = s[i + k]
<1>1. Len(s) \in Nat /\ s \in [1 .. Len(s) -> V]
  BY LenProperties
<1>2. \A k \in i + 1 .. n : s[k] \in V
  BY <1>1
<1> DEFINE x == SubSeq(s, i + 1, n)
<1>3. /\ x \in Seq(V) /\ Len(x) = IF i + 1 <= n THEN n - (i + 1) + 1 ELSE 0
      /\ \A k \in 1 .. n - (i + 1) + 1 : x[k] = s[(i + 1) + k - 1]
  BY <1>2, SubSeqProperties
<1>4. n - (i + 1) + 1 = n - i /\ \A k \in 1 .. n : (i + 1) + k - 1 = i + k
  OBVIOUS
<1> HIDE DEF x
<1>5. x \in Seq(V) /\ Len(x) = n - i /\ \A k \in 1 .. n - i : x[k] = s[i + k]
  BY <1>3, <1>4
<1> QED
  BY <1>5 DEF x

-----------------------------------------------------------------------------
(* The body of an upload in its buffer.                                    *)

\* The buffer f and the rest r are what is behind the first p characters of the body b.
Behind(b, f, r, p) ==
  /\ Len(b) = p + Len(f) + Len(r)
  /\ \A i \in 1 .. Len(f) : f[i] = b[p + i]
  /\ \A i \in 1 .. Len(r) : r[i] = b[p + Len(f) + i]

LEMMA ReadsOn ==
  ASSUME NEW b \in Seq(STRING), NEW f \in Seq(STRING), NEW r \in Seq(STRING), NEW p \in Nat,
         Behind(b, f, r, p), NEW n \in Nat, n <= Len(r),
         NEW g, g = f \o SubSeq(r, 1, n), NEW q, q = SubSeq(r, n + 1, Len(r))
  PROVE  /\ g \in Seq(STRING) /\ q \in Seq(STRING) /\ Behind(b, g, q, p)
         /\ Len(g) = Len(f) + n /\ Len(q) = Len(r) - n
<1> DEFINE x == SubSeq(r, 1, n)
<1>1. PICK a \in Nat, c \in Nat : a = Len(f) /\ c = Len(r) /\ n <= c
  BY LenProperties
<1>2. x \in Seq(STRING) /\ Len(x) = n /\ \A k \in 1 .. n : x[k] = r[k]
  <2>1. /\ SubSeq(r, 0 + 1, n) \in Seq(STRING) /\ Len(SubSeq(r, 0 + 1, n)) = n - 0
        /\ \A k \in 1 .. n - 0 : SubSeq(r, 0 + 1, n)[k] = r[0 + k]
    BY <1>1, PieceOf
  <2>2. SubSeq(r, 0 + 1, n) = x /\ n - 0 = n /\ \A k \in 1 .. n : 0 + k = k
    OBVIOUS
  <2> HIDE DEF x
  <2> QED
    BY <2>1, <2>2
<1>3. q \in Seq(STRING) /\ Len(q) = c - n /\ \A k \in 1 .. c - n : q[k] = r[n + k]
  BY <1>1, PieceOf
<1>4. /\ g \in Seq(STRING) /\ Len(g) = a + n
      /\ \A i \in 1 .. a + n : g[i] = IF i <= a THEN f[i] ELSE x[i - a]
  <2> HIDE DEF x
  <2> QED
    BY <1>1, <1>2, ConcatProperties
<1>5. ASSUME NEW i \in 1 .. a + n PROVE g[i] = b[p + i]
  <2>1. CASE i <= a
    BY <1>1, <1>4, <2>1 DEF Behind
  <2>2. CASE ~ (i <= a)
    <3>1. i - a \in 1 .. n /\ p + a + (i - a) = p + i /\ i - a \in 1 .. c
      BY <1>1, <2>2
    <3>2. g[i] = r[i - a] /\ r[i - a] = b[p + a + (i - a)]
      <4> HIDE DEF x
      <4> QED
        BY <1>1, <1>2, <1>4, <2>2, <3>1 DEF Behind
    <3> QED
      BY <3>1, <3>2
  <2> QED
    BY <2>1, <2>2
<1>6. ASSUME NEW i \in 1 .. c - n PROVE q[i] = b[p + (a + n) + i]
  <2>1. n + i \in 1 .. c /\ p + a + (n + i) = p + (a + n) + i
    BY <1>1
  <2>2. q[i] = r[n + i] /\ r[n + i] = b[p + a + (n + i)]
      BY <1>1, <1>3, <2>1 DEF Behind
  <2> QED
    BY <2>1, <2>2
<1>7. Len(b) = p + (a + n) + (c - n)
  <2>1. Len(b) = p + a + c
    BY <1>1 DEF Behind
  <2> QED
    BY <1>1, <2>1
<1>8. Behind(b, g, q, p)
  BY <1>3, <1>4, <1>5, <1>6, <1>7 DEF Behind
<1>9. g \in Seq(STRING) /\ q \in Seq(STRING) /\ Len(g) = Len(f) + n /\ Len(q) = Len(r) - n
  BY <1>1, <1>3, <1>4
<1> QED
  BY <1>8, <1>9

LEMMA BufferSlides ==
  ASSUME NEW b \in Seq(STRING), NEW f \in Seq(STRING), NEW r \in Seq(STRING), NEW p \in Nat,
         Behind(b, f, r, p), NEW n \in Nat, n <= Len(f), NEW g, g = SubSeq(f, n + 1, Len(f))
  PROVE  g \in Seq(STRING) /\ Behind(b, g, r, p + n) /\ Len(g) = Len(f) - n
<1>1. PICK a \in Nat, c \in Nat : a = Len(f) /\ c = Len(r) /\ n <= a
  BY LenProperties
<1>2. g \in Seq(STRING) /\ Len(g) = a - n /\ \A k \in 1 .. a - n : g[k] = f[n + k]
  BY <1>1, PieceOf
<1>3. ASSUME NEW i \in 1 .. a - n PROVE g[i] = b[(p + n) + i]
  <2>1. n + i \in 1 .. a /\ p + (n + i) = (p + n) + i
    BY <1>1
  <2>2. g[i] = f[n + i] /\ f[n + i] = b[p + (n + i)]
      BY <1>1, <1>2, <2>1 DEF Behind
  <2> QED
    BY <2>1, <2>2
<1>4. ASSUME NEW i \in 1 .. c PROVE r[i] = b[(p + n) + (a - n) + i]
  <2>1. p + a + i = (p + n) + (a - n) + i
    BY <1>1
  <2>2. r[i] = b[p + a + i]
    BY <1>1 DEF Behind
  <2> QED
    BY <2>1, <2>2
<1>5. Len(b) = (p + n) + (a - n) + c
  <2>1. Len(b) = p + a + c
    BY <1>1 DEF Behind
  <2> QED
    BY <1>1, <2>1
<1>6. Behind(b, g, r, p + n)
  BY <1>1, <1>2, <1>3, <1>4, <1>5 DEF Behind
<1> QED
  BY <1>1, <1>2, <1>6

\* The first header in the buffer is the first behind that place of the body.
LEMMA HeadersSeen ==
  ASSUME NEW b \in Seq(STRING), NEW f \in Seq(STRING), NEW r \in Seq(STRING), NEW p \in Nat,
         Behind(b, f, r, p)
  PROVE  /\ Upload!HeadersIn(f, 0) = {} => \A j \in Upload!HeadersIn(b, p) : j > p + Len(f)
         /\ Upload!HeadersIn(f, 0) # {} =>
              /\ Upload!HeadersLen(f) \in 1 .. Len(f) /\ Upload!HeadersIn(b, p) # {}
              /\ Upload!HeadAt(b, p) = p + Upload!HeadersLen(f)
              /\ b[Upload!HeadAt(b, p)] = f[Upload!HeadersLen(f)]
              /\ f[Upload!HeadersLen(f)] \in Upload!Headers
<1>1. PICK a \in Nat, c \in Nat : a = Len(f) /\ c = Len(r) /\ Len(b) = p + a + c
  BY LenProperties DEF Behind
<1> DEFINE F == Upload!HeadersIn(f, 0)
           B == Upload!HeadersIn(b, p)
<1>2. \A i : i \in F <=> i \in 1 .. a /\ f[i] \in Upload!Headers
  BY <1>1 DEF Upload!HeadersIn
<1>3. \A i : i \in B <=> i \in p + 1 .. p + a + c /\ b[i] \in Upload!Headers
  BY <1>1 DEF Upload!HeadersIn
<1>4. \A i \in 1 .. a : f[i] = b[p + i]
  BY <1>1 DEF Behind
<1> HIDE DEF F, B
<1>5. ASSUME NEW i \in B, i <= p + a PROVE i - p \in F
  <2>1. i - p \in 1 .. a /\ p + (i - p) = i
    BY <1>3, <1>5
  <2> QED
    BY <1>2, <1>3, <1>4, <2>1
<1>6. ASSUME NEW i \in F PROVE p + i \in B /\ i \in 1 .. a
  <2>1. i \in 1 .. a /\ p + i \in p + 1 .. p + a + c
    BY <1>2
  <2> QED
    BY <1>2, <1>3, <1>4, <2>1
<1>7. ASSUME F = {}, NEW j \in B PROVE j > p + a
  <2>1. j \in Int
    BY <1>3
  <2> QED
    BY <1>5, <1>7, <2>1
<1>8. ASSUME F # {}
      PROVE  /\ Upload!HeadersLen(f) \in 1 .. a /\ B # {}
             /\ Upload!HeadAt(b, p) = p + Upload!HeadersLen(f)
             /\ b[Upload!HeadAt(b, p)] = f[Upload!HeadersLen(f)]
             /\ f[Upload!HeadersLen(f)] \in Upload!Headers
  <2>1. F \in SUBSET Nat
    BY <1>2
  <2>2. PICK h \in F : \A k \in F : h <= k
    BY <1>8, <2>1, LeastNatural
  <2>3. Upload!HeadersLen(f) = h
    BY <2>1, <2>2, ChosenIsLeast DEF Upload!HeadersLen, F
  <2>4. h \in 1 .. a /\ p + h \in B /\ f[h] \in Upload!Headers
    BY <1>2, <1>6
  <2>5. B \in SUBSET Nat
    BY <1>3
  <2>6. ASSUME NEW k \in B PROVE p + h <= k
    <3>1. k \in Nat
      BY <2>5
    <3>2. CASE k <= p + a
      <4>1. k - p \in F
        BY <1>5, <3>2
      <4>2. h <= k - p
        BY <2>2, <4>1
      <4> QED
        BY <2>4, <3>1, <4>2
    <3>3. CASE ~ (k <= p + a)
      BY <2>4, <3>1, <3>3
    <3> QED
      BY <3>2, <3>3
  <2>7. Upload!HeadAt(b, p) = p + h
    BY <2>4, <2>5, <2>6, ChosenIsLeast DEF Upload!HeadAt, B
  <2> QED
    BY <1>4, <2>3, <2>4, <2>7
<1> QED
  BY <1>1, <1>7, <1>8 DEF F, B

\* A boundary in the buffer with a character behind it is one of the body.
LEMMA BoundarySeen ==
  ASSUME Upload!MgUploadAssumption,
         NEW b \in Seq(STRING), NEW f \in Seq(STRING), NEW r \in Seq(STRING), NEW p \in Nat,
         Behind(b, f, r, p), NEW i \in Nat, i + Upload!bl + 1 <= Len(f)
  PROVE  SubSeq(f, i + 1, i + Upload!bl) = Boundary <=> p + i + 1 \in Upload!Whole(b)
<1>1. PICK a \in Nat, c \in Nat : a = Len(f) /\ c = Len(r) /\ Len(b) = p + a + c
  BY LenProperties DEF Behind
<1>2. PICK l \in Nat : l = Upload!bl
  BY LenProperties DEF Upload!bl, Upload!MgUploadAssumption
<1>3. PICK q \in Nat : q = p + i /\ i + l <= Len(f) /\ q + l <= Len(b) /\ q + 1 = p + i + 1
  BY <1>1, <1>2
<1>4. ASSUME NEW k \in 1 .. l PROVE f[i + k] = b[q + k]
  <2>1. i + k \in 1 .. a /\ p + (i + k) = q + k
    BY <1>1, <1>2, <1>3
  <2> QED
    BY <1>1, <2>1 DEF Behind
<1>5. SubSeq(f, i + 1, i + l) = SubSeq(b, q + 1, q + l)
  <2>1. Alike(f, i, b, q, l)
    BY <1>4 DEF Alike
  <2>2. i + l <= Len(f) /\ q + l <= Len(b)
    BY <1>3
  <2> QED
    BY <2>1, <2>2, SamePiece
<1>6. /\ q + 1 \in DOMAIN b /\ (q + 1) + l <= Len(b) /\ (q + 1) + l - 1 = q + l
  <2>1. DOMAIN b = 1 .. Len(b)
    BY LenProperties
  <2> QED
    BY <1>1, <1>2, <1>3, <2>1
<1>7. q + 1 \in Upload!Whole(b) <=> SubSeq(b, q + 1, q + l) = Boundary
  BY <1>2, <1>6 DEF Upload!Whole
<1> QED
  BY <1>2, <1>3, <1>5, <1>7

\* What is known of the place where a part ends.
LEMMA PartEnds ==
  ASSUME Upload!MgUploadAssumption, NEW b \in Seq(STRING), NEW i \in Nat, Upload!IsPart(b, i)
  PROVE  /\ Upload!HeadAt(b, i) \in Nat /\ Upload!HeadAt(b, i) > i
         /\ Upload!HeadAt(b, i) \in Upload!HeadersIn(b, i)
         /\ Upload!EndAt(b, i) \in Nat /\ Upload!EndAt(b, i) > Upload!HeadAt(b, i)
         /\ Upload!EndAt(b, i) + Upload!bl <= Len(b) /\ Upload!bl \in Nat /\ Len(b) \in Nat
<1>1. Len(b) \in Nat /\ DOMAIN b = 1 .. Len(b) /\ Upload!bl \in Nat
  BY LenProperties DEF Upload!bl, Upload!MgUploadAssumption
<1> DEFINE H == Upload!HeadersIn(b, i)
           T == Upload!EndsAt(b, i)
<1>2. H # {} /\ H \in SUBSET Nat /\ \A h \in H : h > i
  BY <1>1 DEF Upload!IsPart, Upload!HeadersIn
<1>3. T # {} /\ T \in SUBSET Nat /\ \A j \in T : j > Upload!HeadAt(b, i) /\ j + Upload!bl <= Len(b)
  BY <1>1 DEF Upload!IsPart, Upload!EndsAt, Upload!Whole
<1> HIDE DEF H, T
<1>4. PICK h \in H : \A k \in H : h <= k
  BY <1>2, LeastNatural
<1>5. Upload!HeadAt(b, i) = h
  BY <1>2, <1>4, ChosenIsLeast DEF Upload!HeadAt, H
<1>6. PICK j \in T : \A k \in T : j <= k
  BY <1>3, LeastNatural
<1>7. Upload!EndAt(b, i) = j
  BY <1>3, <1>6, ChosenIsLeast DEF Upload!EndAt, T
<1> QED
  BY <1>1, <1>2, <1>3, <1>4, <1>5, <1>6, <1>7 DEF H

\* The next part begins behind the boundary that ends the one before.
AfterPart(b, i) ==
  IF Upload!IsPart(b, i) THEN Upload!EndAt(b, i) + Upload!bl - 1 ELSE i

LEMMA BeginsAre ==
  ASSUME Upload!MgUploadAssumption, NEW b \in Seq(STRING)
  PROVE  /\ DOMAIN Upload!Begins(b) = 0 .. Len(b) /\ Upload!Begins(b)[0] = 0
         /\ \A k \in 1 .. Len(b) : Upload!Begins(b)[k] = AfterPart(b, Upload!Begins(b)[k - 1])
<1>0. PICK L \in Nat : L = Len(b)
  BY LenProperties
<1> DEFINE part(i) == Upload!IsPart(b, i)
           over(i) == Upload!EndAt(b, i) + Upload!bl - 1
           step(i) == IF part(i) THEN over(i) ELSE i
           G == [k \in 1 .. L |-> [i \in 0 .. L |-> step(i)]]
           A == CHOOSE g : g = [k \in 0 .. L |->
                  IF k = 0 THEN 0 ELSE IF part(g[k - 1]) THEN over(g[k - 1]) ELSE g[k - 1]]
<1>1. ASSUME NEW i \in 0 .. L PROVE step(i) \in 0 .. L
  <2>1. CASE part(i)
    <3>1. /\ Upload!HeadAt(b, i) \in Nat /\ Upload!HeadAt(b, i) > i
          /\ Upload!EndAt(b, i) \in Nat /\ Upload!EndAt(b, i) > Upload!HeadAt(b, i)
          /\ Upload!EndAt(b, i) + Upload!bl <= L /\ Upload!bl \in Nat
      BY <1>0, <2>1, PartEnds
    <3>2. over(i) \in 0 .. L
      BY <3>1
    <3> HIDE DEF over, part
    <3> QED
      BY <2>1, <3>2
  <2>2. CASE ~ part(i)
    <3> HIDE DEF over, part
    <3> QED
      BY <2>2
  <2> QED
    BY <2>1, <2>2
<1>2. PICK f \in [0 .. L -> 0 .. L] : Follows(f, L, 0, G)
  <2>1. G \in [1 .. L -> [0 .. L -> 0 .. L]]
    <3> HIDE DEF step
    <3> QED
      BY <1>1
  <2>2. 0 \in 0 .. L
    OBVIOUS
  <2> HIDE DEF G
  <2> QED
    BY <2>1, <2>2, RecursionExists
<1>3. f = [k \in 0 .. L |-> IF k = 0 THEN 0 ELSE IF part(f[k - 1]) THEN over(f[k - 1]) ELSE f[k - 1]]
  <2>1. ASSUME NEW k \in 0 .. L PROVE f[k] = IF k = 0 THEN 0 ELSE step(f[k - 1])
    <3>1. CASE k = 0
      BY <1>2, <3>1 DEF Follows
    <3>2. CASE k # 0
      <4>1. k \in 1 .. L /\ k - 1 \in 0 .. L
        BY <3>2
      <4>2. f[k] = G[k][f[k - 1]] /\ f[k - 1] \in 0 .. L
        <5> HIDE DEF G
        <5> QED
          BY <1>2, <4>1 DEF Follows
      <4>3. G[k][f[k - 1]] = step(f[k - 1])
        <5> HIDE DEF step
        <5> QED
          BY <4>1, <4>2
      <4> HIDE DEF step, G
      <4> QED
        BY <3>2, <4>2, <4>3
    <3> QED
      BY <3>1, <3>2
  <2>2. f = [k \in 0 .. L |-> IF k = 0 THEN 0 ELSE step(f[k - 1])]
    <3> HIDE DEF step, G
    <3> QED
      BY <1>2, <2>1
  <2> HIDE DEF part, over, G
  <2> QED
    BY <2>2
<1>4. A = [k \in 0 .. L |-> IF k = 0 THEN 0 ELSE IF part(A[k - 1]) THEN over(A[k - 1]) ELSE A[k - 1]]
  <2> HIDE DEF part, over
  <2> QED
    BY <1>3
<1>5. Upload!Begins(b) = A
  BY <1>0 DEF Upload!Begins
<1>6. PICK a : a = A
  OBVIOUS
<1>7. a = [k \in 0 .. L |-> IF k = 0 THEN 0 ELSE step(a[k - 1])]
  <2> HIDE DEF part, over, A
  <2> QED
    BY <1>4, <1>6
<1>8. DOMAIN a = 0 .. L /\ \A k \in 0 .. L : a[k] = IF k = 0 THEN 0 ELSE step(a[k - 1])
  <2> HIDE DEF step
  <2> QED
    BY <1>7
<1>9. a[0] = 0 /\ \A k \in 1 .. L : a[k] = step(a[k - 1])
  <2>1. 0 \in 0 .. L /\ \A k \in 1 .. L : k \in 0 .. L /\ k # 0
    OBVIOUS
  <2> HIDE DEF step
  <2> QED
    BY <1>8, <2>1
<1>10. \A i : step(i) = AfterPart(b, i)
  BY DEF AfterPart
<1> HIDE DEF A, step
<1> QED
  BY <1>0, <1>5, <1>6, <1>8, <1>9, <1>10

-----------------------------------------------------------------------------
(* Uploads.                                                                *)

UpBody == body["u1"]
UpStart == Upload!Begins(UpBody)[count["u1"]]

UploadFlags == lost \in [{"u1"} -> BOOLEAN] /\ short \in [{"u1"} -> BOOLEAN]

UploadTypes ==
  /\ UpBody \in Seq(STRING) /\ buf["u1"] \in Seq(STRING) /\ rest["u1"] \in Seq(STRING)
  /\ Len(buf["u1"]) <= UploadBuf
  /\ DOMAIN pc = {"u1"} /\ DOMAIN rest = {"u1"} /\ DOMAIN buf = {"u1"} /\ DOMAIN fname = {"u1"}
  /\ DOMAIN written = {"u1"} /\ DOMAIN count = {"u1"} /\ DOMAIN refused = {"u1"}
  /\ DOMAIN files = Names
  /\ count["u1"] \in Nat /\ UpStart \in Nat /\ count["u1"] <= UpStart /\ UpStart <= Len(UpBody)

\* What a thread that stands at w has written to a file f is what follows the first d
\* characters, up to p.
FileIs(f, w, d, p) ==
  /\ f \in Seq(STRING) /\ Len(f) = p - d /\ \A i \in 1 .. p - d : f[i] = UpBody[d + i]
  /\ w = p - d

\* A part is read, and its file has what is between its header and the buffer, if all
\* could be written; no boundary has been passed over.
InPart(p) ==
  LET d == Upload!HeadAt(UpBody, UpStart) IN
  /\ Upload!HeadersIn(UpBody, UpStart) # {} /\ d \in Nat /\ d > UpStart /\ d <= p
  /\ fname["u1"] = UpBody[d] /\ fname["u1"] \in Names /\ fname["u1"] # "N"
  /\ ~ short["u1"] => FileIs(files[fname["u1"]], written["u1"], d, p)
  /\ \A i \in Upload!Whole(UpBody) : i <= d \/ i > p

\* The body has ended, and a boundary with a character behind it does not fit what is left.
NoMore ==
  /\ rest["u1"] = <<>> /\ Len(buf["u1"]) <= Upload!bl
  /\ ~ Upload!IsPart(UpBody, UpStart)

NothingPassed ==
  Upload!HeadersFit(UpBody) => ~ Upload!IsPart(UpBody, UpStart) \/ refused["u1"]

UploadState(p) ==
  \/ pc["u1"] = "done" /\ NothingPassed
  \/ pc["u1"] = "headers" /\ p = UpStart
  \/ /\ pc["u1"] = "open" /\ p = UpStart /\ Upload!HeadersIn(buf["u1"], 0) # {}
     /\ fname["u1"] = buf["u1"][Upload!HeadersLen(buf["u1"])] /\ fname["u1"] # "N"
  \/ pc["u1"] = "scan" /\ InPart(p)
  \/ pc["u1"] = "read" /\ InPart(p) /\ Len(buf["u1"]) <= Upload!bl
  \/ pc["u1"] \in {"headers", "scan", "read"} /\ NoMore
  \/ pc["u1"] = "open" /\ Upload!HeadersIn(buf["u1"], 0) # {} /\ NoMore

\* The buffer starts behind the first p characters.
UploadAt(p) == Behind(UpBody, buf["u1"], rest["u1"], p) /\ UploadState(p)
UploadFine == UploadTypes /\ \E p \in Nat : UploadAt(p)
UploadInv == UploadFlags /\ (~ lost["u1"] => UploadFine)

LEMMA UploadInitHolds ==
  ASSUME Upload!MgUploadAssumption, Upload!Init PROVE UploadInv
<1>1. /\ body \in [{"u1"} -> Bodies] /\ rest = body /\ pc = [u \in {"u1"} |-> "headers"]
      /\ buf = [u \in {"u1"} |-> <<>>] /\ fname = [u \in {"u1"} |-> ""]
      /\ files = [n \in Names |-> <<>>] /\ written = [u \in {"u1"} |-> 0]
      /\ count = [u \in {"u1"} |-> 0] /\ refused = [u \in {"u1"} |-> FALSE]
      /\ lost = [u \in {"u1"} |-> FALSE] /\ short = [u \in {"u1"} |-> FALSE]
  BY DEF Upload!Init
<1>2. UpBody \in Seq(STRING) /\ rest["u1"] = UpBody
  BY <1>1 DEF UpBody, Upload!MgUploadAssumption
<1>3. buf["u1"] = <<>> /\ pc["u1"] = "headers" /\ count["u1"] = 0
  BY <1>1
<1>4. Len(UpBody) \in Nat /\ UploadBuf \in Nat /\ Len(buf["u1"]) = 0 /\ buf["u1"] \in Seq(STRING)
  BY <1>2, <1>3, LenProperties DEF Upload!MgUploadAssumption
<1>5. UpStart = 0
  BY <1>2, <1>3, BeginsAre DEF UpStart
<1>6. /\ DOMAIN pc = {"u1"} /\ DOMAIN rest = {"u1"} /\ DOMAIN buf = {"u1"} /\ DOMAIN fname = {"u1"}
      /\ DOMAIN written = {"u1"} /\ DOMAIN count = {"u1"} /\ DOMAIN refused = {"u1"}
      /\ DOMAIN files = Names
  BY <1>1
<1>7. UploadTypes
  BY <1>2, <1>3, <1>4, <1>5, <1>6 DEF UploadTypes
<1>8. Behind(UpBody, buf["u1"], rest["u1"], 0)
  BY <1>2, <1>4 DEF Behind
<1>9. UploadState(0)
  BY <1>3, <1>5 DEF UploadState
<1>10. UploadFlags
  BY <1>1 DEF UploadFlags
<1> QED
  BY <1>7, <1>8, <1>9, <1>10 DEF UploadInv, UploadFine, UploadAt

\* What the numbers are.
LEMMA UploadNumbers ==
  ASSUME Upload!MgUploadAssumption, UploadTypes
  PROVE  /\ Upload!bl \in Nat /\ UploadBuf \in Nat /\ Upload!bl < UploadBuf
         /\ Len(buf["u1"]) \in Nat /\ Len(rest["u1"]) \in Nat /\ Len(UpBody) \in Nat
         /\ UpStart \in Nat /\ UpStart <= Len(UpBody) /\ count["u1"] \in 0 .. Len(UpBody)
<1>1. Upload!bl \in Nat /\ UploadBuf \in Nat /\ Upload!bl < UploadBuf
  BY LenProperties DEF Upload!bl, Upload!MgUploadAssumption
<1>2. Len(buf["u1"]) \in Nat /\ Len(rest["u1"]) \in Nat /\ Len(UpBody) \in Nat
  BY LenProperties DEF UploadTypes
<1> QED
  BY <1>1, <1>2 DEF UploadTypes

\* A step that counts nothing keeps where the part begins.
LEMMA StartStays ==
  ASSUME UNCHANGED <<body, count>>
  PROVE  /\ UpBody' = UpBody /\ UpStart' = UpStart
         /\ Upload!HeadAt(UpBody, UpStart)' = Upload!HeadAt(UpBody, UpStart)
         /\ Upload!HeadersIn(UpBody, UpStart)' = Upload!HeadersIn(UpBody, UpStart)
         /\ Upload!Whole(UpBody)' = Upload!Whole(UpBody)
         /\ Upload!IsPart(UpBody, UpStart)' <=> Upload!IsPart(UpBody, UpStart)
         /\ Upload!HeadersFit(UpBody)' <=> Upload!HeadersFit(UpBody)
<1>1. UpBody' = UpBody
  BY DEF UpBody
<1>2. UpStart' = UpStart
  BY <1>1 DEF UpStart
<1> QED
  BY <1>1, <1>2

\* The parts of the step that are the same for most actions.
LEMMA TypesStay ==
  ASSUME Upload!MgUploadAssumption, UploadTypes, UNCHANGED <<body, count>>,
         buf'["u1"] \in Seq(STRING), rest'["u1"] \in Seq(STRING), Len(buf'["u1"]) <= UploadBuf,
         DOMAIN pc' = {"u1"}, DOMAIN rest' = {"u1"}, DOMAIN buf' = {"u1"}, DOMAIN fname' = {"u1"},
         DOMAIN written' = {"u1"}, DOMAIN refused' = {"u1"}, DOMAIN files' = Names
  PROVE  UploadTypes'
BY StartStays DEF UploadTypes

\* mg_read moves the next characters of the body into the buffer.
LEMMA BufferReads ==
  ASSUME UploadTypes, NEW p \in Nat, Behind(UpBody, buf["u1"], rest["u1"], p),
         NEW n \in Nat, n <= Len(rest["u1"]), Upload!Read("u1", n)
  PROVE  /\ buf'["u1"] \in Seq(STRING) /\ rest'["u1"] \in Seq(STRING)
         /\ Behind(UpBody, buf'["u1"], rest'["u1"], p)
         /\ Len(buf'["u1"]) = Len(buf["u1"]) + n /\ Len(rest'["u1"]) = Len(rest["u1"]) - n
         /\ DOMAIN buf' = {"u1"} /\ DOMAIN rest' = {"u1"}
<1>1. /\ buf' = [buf EXCEPT !["u1"] = buf["u1"] \o SubSeq(rest["u1"], 1, n)]
      /\ rest' = [rest EXCEPT !["u1"] = SubSeq(rest["u1"], n + 1, Len(rest["u1"]))]
  BY DEF Upload!Read
<1>2. /\ buf'["u1"] = buf["u1"] \o SubSeq(rest["u1"], 1, n)
      /\ rest'["u1"] = SubSeq(rest["u1"], n + 1, Len(rest["u1"]))
      /\ DOMAIN buf' = {"u1"} /\ DOMAIN rest' = {"u1"}
  BY <1>1 DEF UploadTypes
<1>3. PICK b \in Seq(STRING), f \in Seq(STRING), r \in Seq(STRING) :
        b = UpBody /\ f = buf["u1"] /\ r = rest["u1"]
  BY DEF UploadTypes
<1>4. PICK g, q : g = buf'["u1"] /\ q = rest'["u1"]
  OBVIOUS
<1>5. Behind(b, f, r, p) /\ n <= Len(r)
  BY <1>3
<1>6. g = f \o SubSeq(r, 1, n) /\ q = SubSeq(r, n + 1, Len(r))
  BY <1>2, <1>3, <1>4
<1>7. g \in Seq(STRING) /\ q \in Seq(STRING)
  BY <1>5, <1>6, ReadsOn
<1>8. Behind(b, g, q, p)
  BY <1>5, <1>6, ReadsOn
<1>9. Len(g) = Len(f) + n /\ Len(q) = Len(r) - n
  BY <1>5, <1>6, ReadsOn
<1> QED
  BY <1>2, <1>3, <1>4, <1>7, <1>8, <1>9

LEMMA PullHeadersKeeps ==
  ASSUME Upload!MgUploadAssumption, UploadTypes, NEW p \in Nat, UploadAt(p), Upload!PullHeaders("u1"),
         Upload!Read("u1", Upload!Smaller(UploadBuf - Len(buf["u1"]), Len(rest["u1"])))
  PROVE  UploadFine'
<1>1. PICK n \in Nat :
        /\ n = Upload!Smaller(UploadBuf - Len(buf["u1"]), Len(rest["u1"]))
        /\ n <= Len(rest["u1"]) /\ Len(buf["u1"]) + n <= UploadBuf
        /\ Len(buf["u1"]) + n = UploadBuf \/ n = Len(rest["u1"])
  <2>1. PICK a \in Nat, c \in Nat, m \in Nat :
          a = Len(buf["u1"]) /\ c = Len(rest["u1"]) /\ m = UploadBuf
    BY UploadNumbers
  <2>2. a <= m
    BY <2>1 DEF UploadTypes
  <2>3. PICK k \in Nat : k = m - a
    BY <2>2
  <2>4. CASE k < c
    <3>1. Upload!Smaller(k, c) = k
      BY <2>4 DEF Upload!Smaller
    <3>2. k <= c /\ a + k <= m /\ a + k = m
      BY <2>3, <2>4
    <3> QED
      BY <2>1, <2>3, <3>1, <3>2
  <2>5. CASE ~ (k < c)
    <3>1. Upload!Smaller(k, c) = c
      BY <2>5 DEF Upload!Smaller
    <3>2. c <= c /\ a + c <= m
      BY <2>3, <2>5
    <3> QED
      BY <2>1, <2>3, <3>1, <3>2
  <2> QED
    BY <2>4, <2>5
<1>0. /\ pc["u1"] = "headers" /\ UNCHANGED <<files, written, count, body, refused>>
      /\ Upload!Read("u1", n)
  BY <1>1 DEF Upload!PullHeaders
<1>3. DOMAIN buf' = {"u1"} /\ DOMAIN rest' = {"u1"}
  BY <1>0 DEF Upload!Read, UploadTypes
<1>4. /\ buf'["u1"] \in Seq(STRING) /\ rest'["u1"] \in Seq(STRING)
      /\ Behind(UpBody, buf'["u1"], rest'["u1"], p)
      /\ Len(buf'["u1"]) = Len(buf["u1"]) + n /\ Len(rest'["u1"]) = Len(rest["u1"]) - n
  BY <1>0, <1>1, BufferReads DEF UploadAt
<1> DEFINE F == Upload!HeadersIn(buf'["u1"], 0)
           h == buf'["u1"][Upload!HeadersLen(buf'["u1"])]
<1>5. \/ F = {} /\ pc' = [pc EXCEPT !["u1"] = "done"] /\ fname' = fname
      \/ /\ F # {} /\ fname' = [fname EXCEPT !["u1"] = h]
         /\ pc' = [pc EXCEPT !["u1"] = IF fname'["u1"] = "N" THEN "done" ELSE "open"]
  BY DEF Upload!PullHeaders
<1>6. /\ DOMAIN pc' = {"u1"} /\ DOMAIN fname' = {"u1"}
      /\ \/ F = {} /\ pc'["u1"] = "done"
         \/ F # {} /\ fname'["u1"] = h /\ h = "N" /\ pc'["u1"] = "done"
         \/ F # {} /\ fname'["u1"] = h /\ h # "N" /\ pc'["u1"] = "open"
  <2> HIDE DEF F, h
  <2> QED
    BY <1>5 DEF UploadTypes
<1>7. UploadTypes'
  <2>1. Len(buf'["u1"]) <= UploadBuf
    BY <1>1, <1>4
  <2> QED
    BY <1>0, <1>3, <1>4, <1>6, <2>1, TypesStay DEF UploadTypes
<1>8. Behind(UpBody, buf["u1"], rest["u1"], p)'
  BY <1>0, <1>4, StartStays
<1>9. (p = UpStart) \/ NoMore
  BY <1>0 DEF UploadAt, UploadState
<1>10. /\ F = {} => \A j \in Upload!HeadersIn(UpBody, p) : j > p + Len(buf'["u1"])
       /\ F # {} => Upload!HeadersIn(UpBody, p) # {} /\ UpBody[Upload!HeadAt(UpBody, p)] = h
  <2>1. UpBody \in Seq(STRING)
    BY DEF UploadTypes
  <2>2. F = {} => \A j \in Upload!HeadersIn(UpBody, p) : j > p + Len(buf'["u1"])
    BY <1>4, <2>1, HeadersSeen
  <2>3. F # {} => Upload!HeadersIn(UpBody, p) # {} /\ UpBody[Upload!HeadAt(UpBody, p)] = h
    BY <1>4, <2>1, HeadersSeen
  <2> QED
    BY <2>2, <2>3
<1> HIDE DEF F, h
<1>11. ASSUME F = {}, p = UpStart, Upload!HeadersFit(UpBody) PROVE ~ Upload!IsPart(UpBody, UpStart)
  <2> SUFFICES ASSUME Upload!IsPart(UpBody, UpStart) PROVE FALSE
    OBVIOUS
  <2>1. PICK d \in Nat : /\ d = Upload!HeadAt(UpBody, UpStart)
                         /\ d \in Upload!HeadersIn(UpBody, UpStart) /\ d <= Len(UpBody)
    <3>1. UpBody \in Seq(STRING) /\ UpStart \in Nat
      BY DEF UploadTypes
    <3>2. /\ Upload!HeadAt(UpBody, UpStart) \in Nat
          /\ Upload!HeadAt(UpBody, UpStart) \in Upload!HeadersIn(UpBody, UpStart)
          /\ Upload!EndAt(UpBody, UpStart) \in Nat
          /\ Upload!EndAt(UpBody, UpStart) > Upload!HeadAt(UpBody, UpStart)
          /\ Upload!EndAt(UpBody, UpStart) + Upload!bl <= Len(UpBody) /\ Upload!bl \in Nat
          /\ Len(UpBody) \in Nat
      BY <3>1, PartEnds
    <3>3. Upload!HeadAt(UpBody, UpStart) <= Len(UpBody)
      BY <3>2
    <3> QED
      BY <3>2, <3>3
  <2>2. d > p + Len(buf'["u1"])
    BY <1>10, <1>11, <2>1
  <2>3. d - UpStart <= UploadBuf
    <3>1. count["u1"] \in DOMAIN Upload!Begins(UpBody)
      BY UploadNumbers, BeginsAre DEF UploadTypes
    <3>2. Upload!HeadAt(UpBody, UpStart) - UpStart <= UploadBuf
      BY <1>11, <3>1 DEF Upload!HeadersFit, UpStart
    <3> QED
      BY <2>1, <3>2
  <2>4. Len(UpBody) = p + Len(buf'["u1"]) + Len(rest'["u1"])
    BY <1>4 DEF Behind
  <2>5. PICK a \in Nat, c \in Nat : a = Len(buf'["u1"]) /\ c = Len(rest'["u1"])
    BY <1>4, LenProperties
  <2>6. a = UploadBuf \/ c = 0
    BY <1>1, <1>4, <2>5, UploadNumbers
  <2>7. PICK m \in Nat : m = UploadBuf
    BY UploadNumbers
  <2>8. d > p + a /\ d - p <= m /\ d <= p + a + c /\ (a = m \/ c = 0)
    BY <1>11, <2>1, <2>2, <2>3, <2>4, <2>5, <2>6, <2>7
  <2> QED
    BY <2>8
<1>12. ASSUME F # {}, p = UpStart, h = "N" PROVE ~ Upload!IsPart(UpBody, UpStart)
  BY <1>10, <1>12 DEF Upload!IsPart
<1>13. NoMore => rest'["u1"] = <<>> /\ Len(buf'["u1"]) <= Upload!bl
  <2> SUFFICES ASSUME NoMore PROVE rest'["u1"] = <<>> /\ Len(buf'["u1"]) <= Upload!bl
    OBVIOUS
  <2>1. Len(rest["u1"]) = 0 /\ Len(buf["u1"]) <= Upload!bl
    BY DEF NoMore
  <2>2. n = 0 /\ Len(rest'["u1"]) = 0 /\ Len(buf'["u1"]) = Len(buf["u1"])
    BY <1>1, <1>4, <2>1, UploadNumbers
  <2> QED
    BY <1>4, <2>1, <2>2, EmptySeq
<1>14. UploadState(p)'
  <2>1. CASE pc'["u1"] = "done"
    <3>1. Upload!HeadersFit(UpBody) => ~ Upload!IsPart(UpBody, UpStart)
      BY <1>6, <1>9, <1>11, <1>12, <2>1 DEF NoMore
    <3>2. NothingPassed'
      BY <1>0, <3>1, StartStays DEF NothingPassed
    <3> QED
      BY <2>1, <3>2 DEF UploadState
  <2>2. CASE pc'["u1"] = "open"
    <3>1. /\ Upload!HeadersIn(buf'["u1"], 0) # {} /\ fname'["u1"] # "N"
          /\ fname'["u1"] = buf'["u1"][Upload!HeadersLen(buf'["u1"])]
      BY <1>6, <2>2 DEF F, h
    <3>2. CASE p = UpStart
      BY <1>0, <2>2, <3>1, <3>2, StartStays DEF UploadState
    <3>3. CASE NoMore
      <4>1. NoMore'
        BY <1>0, <1>13, <3>3, StartStays DEF NoMore
      <4> QED
        BY <2>2, <3>1, <4>1 DEF UploadState
    <3> QED
      BY <1>9, <3>2, <3>3
  <2> QED
    BY <1>6, <2>1, <2>2
<1> QED
  BY <1>7, <1>8, <1>14 DEF UploadFine, UploadAt

LEMMA OpenKeeps ==
  ASSUME Upload!MgUploadAssumption, UploadTypes, NEW p \in Nat, UploadAt(p), Upload!Open("u1")
  PROVE  UploadFine'
<1>0. /\ pc["u1"] = "open" /\ UNCHANGED <<rest, fname, count, body, refused, short>>
      /\ buf' = [buf EXCEPT !["u1"] = SubSeq(@, Upload!HeadersLen(@) + 1, Len(@))]
      /\ files' = [files EXCEPT ![fname["u1"]] = <<>>]
      /\ written' = [written EXCEPT !["u1"] = 0] /\ pc' = [pc EXCEPT !["u1"] = "scan"]
  BY DEF Upload!Open, Upload!ghosts
<1>1. /\ UpBody \in Seq(STRING) /\ buf["u1"] \in Seq(STRING) /\ rest["u1"] \in Seq(STRING)
      /\ Behind(UpBody, buf["u1"], rest["u1"], p)
  BY DEF UploadTypes, UploadAt
<1>2. Upload!HeadersIn(buf["u1"], 0) # {}
  BY <1>0 DEF UploadAt, UploadState
<1>3. PICK h \in Nat : /\ h = Upload!HeadersLen(buf["u1"]) /\ h \in 1 .. Len(buf["u1"])
                       /\ Upload!HeadAt(UpBody, p) = p + h /\ Upload!HeadersIn(UpBody, p) # {}
                       /\ UpBody[p + h] = buf["u1"][h] /\ buf["u1"][h] \in Upload!Headers
  <2>1. Upload!HeadersLen(buf["u1"]) \in 1 .. Len(buf["u1"])
    BY <1>1, <1>2, HeadersSeen
  <2>2. Upload!HeadAt(UpBody, p) = p + Upload!HeadersLen(buf["u1"])
    BY <1>1, <1>2, HeadersSeen
  <2>3. Upload!HeadersIn(UpBody, p) # {}
    BY <1>1, <1>2, HeadersSeen
  <2>4. UpBody[Upload!HeadAt(UpBody, p)] = buf["u1"][Upload!HeadersLen(buf["u1"])]
    BY <1>1, <1>2, HeadersSeen
  <2>5. buf["u1"][Upload!HeadersLen(buf["u1"])] \in Upload!Headers
    BY <1>1, <1>2, HeadersSeen
  <2> QED
    BY <2>1, <2>2, <2>3, <2>4, <2>5
<1>4. /\ buf'["u1"] = SubSeq(buf["u1"], h + 1, Len(buf["u1"])) /\ rest'["u1"] = rest["u1"]
      /\ written'["u1"] = 0 /\ pc'["u1"] = "scan"
      /\ DOMAIN pc' = {"u1"} /\ DOMAIN buf' = {"u1"} /\ DOMAIN written' = {"u1"}
      /\ DOMAIN files' = Names
      /\ fname["u1"] \in Names => files'[fname["u1"]] = <<>>
  BY <1>0, <1>3 DEF UploadTypes
<1>5. h <= Len(buf["u1"])
  BY <1>3, UploadNumbers
<1>6. buf'["u1"] \in Seq(STRING)
  BY <1>1, <1>4, <1>5, BufferSlides
<1>7. Behind(UpBody, buf'["u1"], rest["u1"], p + h)
  BY <1>1, <1>4, <1>5, BufferSlides
<1>8. Len(buf'["u1"]) = Len(buf["u1"]) - h
  BY <1>1, <1>4, <1>5, BufferSlides
<1>9. Len(buf'["u1"]) <= Len(buf["u1"]) /\ Len(buf'["u1"]) <= UploadBuf
  BY <1>5, <1>8, UploadNumbers DEF UploadTypes
<1>10. UploadTypes'
  <2>1. rest'["u1"] \in Seq(STRING) /\ DOMAIN rest' = {"u1"} /\ DOMAIN fname' = {"u1"}
        /\ DOMAIN refused' = {"u1"}
    BY <1>0, <1>1 DEF UploadTypes
  <2> QED
    BY <1>0, <1>4, <1>6, <1>9, <2>1, TypesStay
<1>11. CASE p = UpStart /\ fname["u1"] = buf["u1"][h] /\ fname["u1"] # "N"
  <2>1. fname["u1"] \in Names
    BY <1>3, <1>11 DEF Upload!Headers
  <2>2. files'[fname["u1"]] = <<>> /\ files'[fname["u1"]] \in Seq(STRING) /\ Len(files'[fname["u1"]]) = 0
    <3>1. files'[fname["u1"]] = <<>>
      BY <1>4, <2>1
    <3>2. <<>> \in Seq(STRING) /\ Len(<<>>) = 0
      OBVIOUS
    <3> QED
      BY <3>1, <3>2
  <2>3. (p + h) - (p + h) = 0 /\ p + h \in Nat /\ p + h > p /\ p + h <= p + h
    BY <1>3
  <2>4. InPart(p + h)'
    <3>1. UpBody' = UpBody /\ UpStart' = p /\ Upload!HeadAt(UpBody, UpStart)' = p + h
          /\ Upload!HeadersIn(UpBody, UpStart)' # {}
      BY <1>0, <1>3, <1>11, StartStays
    <3>2. \A i \in Upload!Whole(UpBody)' : i <= p + h \/ i > p + h
      <4>1. \A i \in Upload!Whole(UpBody) : i \in Nat
        BY <1>1, LenProperties DEF Upload!Whole
      <4>2. Upload!Whole(UpBody)' = Upload!Whole(UpBody)
        BY <1>0, StartStays
      <4> QED
        BY <2>3, <4>1, <4>2
    <3>3. fname' = fname /\ fname["u1"] = UpBody[p + h] /\ written'["u1"] = 0
      BY <1>0, <1>3, <1>4, <1>11
    <3>4. \A i \in 1 .. (p + h) - (p + h) : FALSE
      BY <2>3
    <3>5. FileIs(files[fname["u1"]], written["u1"], p + h, p + h)'
      BY <2>2, <2>3, <3>3, <3>4 DEF FileIs
    <3> QED
      BY <1>11, <2>1, <2>3, <3>1, <3>2, <3>3, <3>5 DEF InPart
  <2>5. UploadState(p + h)'
    BY <1>4, <2>4 DEF UploadState
  <2>6. Behind(UpBody, buf["u1"], rest["u1"], p + h)'
    BY <1>0, <1>7, StartStays
  <2> QED
    BY <1>10, <2>3, <2>5, <2>6 DEF UploadFine, UploadAt
<1>12. CASE NoMore
  <2>1. Len(buf'["u1"]) <= Upload!bl
    BY <1>8, <1>9, <1>12, UploadNumbers DEF NoMore
  <2>2. NoMore'
    BY <1>0, <1>12, <2>1, StartStays DEF NoMore
  <2>3. UploadState(p + h)'
    BY <1>4, <2>2 DEF UploadState
  <2>4. Behind(UpBody, buf["u1"], rest["u1"], p + h)'
    BY <1>0, <1>7, StartStays
  <2> QED
    BY <1>10, <2>3, <2>4 DEF UploadFine, UploadAt
<1> QED
  BY <1>0, <1>3, <1>11, <1>12 DEF UploadAt, UploadState

LEMMA OpenFailsKeeps ==
  ASSUME Upload!MgUploadAssumption, UploadTypes, NEW p \in Nat, UploadAt(p), Upload!OpenFails("u1")
  PROVE  UploadFine'
<1>1. /\ UNCHANGED <<rest, buf, fname, files, written, count, body>>
      /\ pc' = [pc EXCEPT !["u1"] = "done"] /\ refused' = [refused EXCEPT !["u1"] = TRUE]
  BY DEF Upload!OpenFails, Upload!ghosts
<1>2. DOMAIN pc' = {"u1"} /\ DOMAIN refused' = {"u1"} /\ pc'["u1"] = "done" /\ refused'["u1"] = TRUE
  BY <1>1 DEF UploadTypes
<1>3. UploadTypes'
  BY <1>1, <1>2, TypesStay DEF UploadTypes
<1>4. Behind(UpBody, buf["u1"], rest["u1"], p)'
  BY <1>1, StartStays DEF UploadAt
<1>5. NothingPassed'
  BY <1>2 DEF NothingPassed
<1>6. UploadState(p)'
  BY <1>2, <1>5 DEF UploadState
<1> QED
  BY <1>3, <1>4, <1>6 DEF UploadFine, UploadAt

LEMMA ReadMoreKeeps ==
  ASSUME Upload!MgUploadAssumption, UploadTypes, NEW p \in Nat, UploadAt(p), Upload!ReadMore("u1")
  PROVE  UploadFine'
<1>0. /\ pc["u1"] = "read" /\ UNCHANGED <<fname, files, written, count, body, refused, short>>
      /\ pc' = [pc EXCEPT !["u1"] = "scan"]
  BY DEF Upload!ReadMore, Upload!ghosts
<1>1. PICK n \in 1 .. Len(rest["u1"]) : Len(buf["u1"]) + n <= UploadBuf /\ Upload!Read("u1", n)
  BY DEF Upload!ReadMore
<1>2. /\ n \in Nat /\ n <= Len(rest["u1"]) /\ n > 0
      /\ UpBody \in Seq(STRING) /\ buf["u1"] \in Seq(STRING) /\ rest["u1"] \in Seq(STRING)
      /\ Behind(UpBody, buf["u1"], rest["u1"], p)
  BY UploadNumbers DEF UploadTypes, UploadAt
<1>3. /\ DOMAIN buf' = {"u1"} /\ DOMAIN rest' = {"u1"} /\ DOMAIN pc' = {"u1"}
      /\ pc'["u1"] = "scan"
  BY <1>0, <1>1 DEF UploadTypes, Upload!Read
<1>4. buf'["u1"] \in Seq(STRING) /\ rest'["u1"] \in Seq(STRING)
  BY <1>1, <1>2, BufferReads
<1>5. Behind(UpBody, buf'["u1"], rest'["u1"], p)
  BY <1>1, <1>2, BufferReads
<1>6. Len(buf'["u1"]) = Len(buf["u1"]) + n
  BY <1>1, <1>2, BufferReads
<1>7. UploadTypes'
  <2>1. Len(buf'["u1"]) <= UploadBuf
    BY <1>1, <1>6
  <2>2. DOMAIN fname' = {"u1"} /\ DOMAIN written' = {"u1"} /\ DOMAIN refused' = {"u1"}
        /\ DOMAIN files' = Names
    BY <1>0 DEF UploadTypes
  <2> QED
    BY <1>0, <1>3, <1>4, <2>1, <2>2, TypesStay
<1>8. InPart(p)
  <2>1. ~ NoMore
    <3>1. Len(rest["u1"]) > 0
      BY <1>2, UploadNumbers
    <3> QED
      BY <3>1 DEF NoMore
  <2> QED
    BY <1>0, <2>1 DEF UploadAt, UploadState
<1>9. InPart(p)'
  <2>1. /\ UpBody' = UpBody /\ UpStart' = UpStart
        /\ Upload!HeadAt(UpBody, UpStart)' = Upload!HeadAt(UpBody, UpStart)
        /\ Upload!HeadersIn(UpBody, UpStart)' = Upload!HeadersIn(UpBody, UpStart)
        /\ Upload!Whole(UpBody)' = Upload!Whole(UpBody)
    BY <1>0, StartStays
  <2> QED
    BY <1>0, <1>8, <2>1 DEF InPart, FileIs
<1>10. UploadState(p)'
  BY <1>3, <1>9 DEF UploadState
<1>11. Behind(UpBody, buf["u1"], rest["u1"], p)'
  BY <1>0, <1>5, StartStays
<1> QED
  BY <1>7, <1>10, <1>11 DEF UploadFine, UploadAt

\* What is read in a part to its end has no boundary behind the buffer's start that ends it.
LEMMA ReadEndsKeeps ==
  ASSUME Upload!MgUploadAssumption, UploadTypes, NEW p \in Nat, UploadAt(p), Upload!ReadEnds("u1")
  PROVE  UploadFine'
<1>0. /\ pc["u1"] = "read" /\ (rest["u1"] = <<>> \/ Len(buf["u1"]) = UploadBuf)
      /\ UNCHANGED <<rest, buf, fname, files, written, count, body, refused>>
      /\ pc' = [pc EXCEPT !["u1"] = "headers"]
  BY DEF Upload!ReadEnds, Upload!ghosts
<1>1. pc'["u1"] = "headers" /\ DOMAIN pc' = {"u1"}
  BY <1>0 DEF UploadTypes
<1>2. UploadTypes'
  BY <1>0, <1>1, TypesStay DEF UploadTypes
<1>3. Behind(UpBody, buf["u1"], rest["u1"], p)'
  BY <1>0, StartStays DEF UploadAt
<1>4. CASE NoMore
  <2>1. NoMore'
    BY <1>0, <1>4, StartStays DEF NoMore
  <2> QED
    BY <1>1, <1>2, <1>3, <2>1 DEF UploadFine, UploadAt, UploadState
<1>5. CASE InPart(p) /\ Len(buf["u1"]) <= Upload!bl
  <2>1. rest["u1"] = <<>>
    BY <1>0, <1>5, UploadNumbers
  <2>2. ~ Upload!IsPart(UpBody, UpStart)
    <3> SUFFICES ASSUME Upload!IsPart(UpBody, UpStart) PROVE FALSE
      OBVIOUS
    <3>1. PICK j \in Upload!EndsAt(UpBody, UpStart) : TRUE
      BY DEF Upload!IsPart
    <3>2. /\ j \in Upload!Whole(UpBody) /\ j > Upload!HeadAt(UpBody, UpStart)
      BY <3>1 DEF Upload!EndsAt
    <3>3. j \in Nat /\ j + Upload!bl <= Len(UpBody)
      <4>1. DOMAIN UpBody = 1 .. Len(UpBody)
        BY LenProperties DEF UploadTypes
      <4> QED
        BY <3>2, <4>1 DEF Upload!Whole
    <3>4. PICK d \in Nat : d = Upload!HeadAt(UpBody, UpStart) /\ \A i \in Upload!Whole(UpBody) : i <= d \/ i > p
      BY <1>5 DEF InPart
    <3>5. j > p
      BY <3>2, <3>3, <3>4
    <3>6. Len(UpBody) = p + Len(buf["u1"]) + Len(rest["u1"]) /\ Len(rest["u1"]) = 0
      BY <2>1 DEF UploadAt, Behind
    <3> QED
      BY <1>5, <3>3, <3>5, <3>6, UploadNumbers
  <2>3. NoMore
    BY <1>5, <2>1, <2>2 DEF NoMore
  <2>4. NoMore'
    BY <1>0, <2>3, StartStays DEF NoMore
  <2> QED
    BY <1>1, <1>2, <1>3, <2>4 DEF UploadFine, UploadAt, UploadState
<1> QED
  BY <1>0, <1>4, <1>5 DEF UploadAt, UploadState

\* What is written follows what the file has.
LEMMA FileGrows ==
  ASSUME UploadTypes, NEW p \in Nat, InPart(p), ~ short["u1"], NEW x \in Seq(STRING),
         \A k \in 1 .. Len(x) : x[k] = UpBody[p + k], Upload!Writes("u1", x)
  PROVE  LET d == Upload!HeadAt(UpBody, UpStart)  f == files'[fname["u1"]] IN
         /\ f \in Seq(STRING) /\ Len(f) = (p + Len(x)) - d
         /\ \A i \in 1 .. (p + Len(x)) - d : f[i] = UpBody[d + i]
         /\ written'["u1"] = (p + Len(x)) - d
         /\ DOMAIN files' = Names /\ DOMAIN written' = {"u1"}
<1>1. PICK n \in Nat, d \in Nat, a \in Nat :
        /\ n = Len(x) /\ d = Upload!HeadAt(UpBody, UpStart) /\ a = p - d /\ d <= p
  <2>1. PICK n \in Nat : n = Len(x)
    BY LenProperties
  <2>2. PICK d \in Nat : d = Upload!HeadAt(UpBody, UpStart) /\ d <= p
    BY DEF InPart
  <2>3. PICK a \in Nat : a = p - d
    BY <2>2
  <2> QED
    BY <2>1, <2>2, <2>3
<1>2. PICK f \in Seq(STRING) : /\ f = files[fname["u1"]] /\ Len(f) = a
                               /\ \A i \in 1 .. a : f[i] = UpBody[d + i]
  BY <1>1 DEF InPart, FileIs
<1>3. written["u1"] = a /\ fname["u1"] \in Names
  BY <1>1 DEF InPart, FileIs
<1>4. x \in [1 .. n -> STRING] /\ f \in [1 .. a -> STRING] /\ DOMAIN f = 1 .. a
  BY <1>1, <1>2, LenProperties
<1> DEFINE over(i) == IF i > a /\ i <= a + n THEN x[i - a] ELSE IF i \in DOMAIN f THEN f[i] ELSE "0"
           m == IF x # <<>> /\ a + n > a THEN a + n ELSE a
           g == [i \in 1 .. m |-> over(i)]
<1>5. files' = [files EXCEPT ![fname["u1"]] = g] /\ written' = [written EXCEPT !["u1"] = a + n]
  BY <1>1, <1>2, <1>3 DEF Upload!Writes
<1>6. m = a + n
  <2>1. CASE n = 0
    BY <2>1
  <2>2. CASE n # 0
    <3>1. x # <<>>
      BY <1>1, <2>2
    <3>2. a + n > a
      BY <2>2
    <3> QED
      BY <3>1, <3>2
  <2> QED
    BY <2>1, <2>2
<1>7. ASSUME NEW i \in 1 .. a + n PROVE over(i) \in STRING /\ over(i) = UpBody[d + i]
  <2>1. CASE i <= a
    <3>1. i \in 1 .. a /\ ~ (i > a)
      BY <2>1
    <3>2. over(i) = f[i]
      BY <1>4, <3>1
    <3> QED
      BY <1>2, <1>4, <3>1, <3>2
  <2>2. CASE ~ (i <= a)
    <3>1. i - a \in 1 .. n /\ i > a /\ i <= a + n
      BY <2>2
    <3>2. p + (i - a) = d + i
      BY <1>1
    <3>3. over(i) = x[i - a]
      BY <3>1
    <3>4. x[i - a] = UpBody[p + (i - a)] /\ x[i - a] \in STRING
      BY <1>1, <1>4, <3>1
    <3> QED
      BY <3>2, <3>3, <3>4
  <2> QED
    BY <2>1, <2>2
<1> HIDE DEF over
<1>8. g \in [1 .. a + n -> STRING] /\ \A i \in 1 .. a + n : g[i] = UpBody[d + i]
  <2> HIDE DEF m
  <2> QED
    BY <1>6, <1>7
<1> HIDE DEF g, m
<1>9. g \in Seq(STRING) /\ Len(g) = a + n
  <2>1. a + n \in Nat
    OBVIOUS
  <2>2. g \in Seq(STRING)
    BY <1>8, <2>1
  <2> QED
    BY <1>8, <2>1, <2>2
<1>10. a + n = (p + n) - d
  <2>1. a = p - d
    BY <1>1
  <2> QED
    BY <2>1
<1>11. /\ files'[fname["u1"]] = g /\ written'["u1"] = a + n
       /\ DOMAIN files' = Names /\ DOMAIN written' = {"u1"}
  BY <1>3, <1>5 DEF UploadTypes
<1> QED
  BY <1>1, <1>8, <1>9, <1>10, <1>11

\* fwrite writes all, or marks the file as short.
LEMMA FileIsWritten ==
  ASSUME UploadTypes, UploadFlags, NEW p \in Nat, InPart(p), NEW x \in Seq(STRING),
         \A k \in 1 .. Len(x) : x[k] = UpBody[p + k], Upload!Fwrite("u1", x),
         NEW d, d = Upload!HeadAt(UpBody, UpStart)
  PROVE  /\ DOMAIN files' = Names /\ DOMAIN written' = {"u1"}
         /\ short' \in [{"u1"} -> BOOLEAN]
         /\ ~ short'["u1"] => FileIs(files'[fname["u1"]], written'["u1"], d, p + Len(x))
<1>1. PICK k \in 0 .. Len(x) : /\ Upload!Writes("u1", SubSeq(x, 1, k))
                               /\ short' = [short EXCEPT !["u1"] = short["u1"] \/ k < Len(x)]
  BY DEF Upload!Fwrite
<1>2. DOMAIN files' = Names /\ DOMAIN written' = {"u1"}
  BY <1>1 DEF Upload!Writes, UploadTypes
<1>3. short' \in [{"u1"} -> BOOLEAN] /\ (short'["u1"] <=> short["u1"] \/ k < Len(x))
  <2>1. (short["u1"] \/ k < Len(x)) \in BOOLEAN
    OBVIOUS
  <2> QED
    BY <1>1, <2>1, Zenon DEF UploadFlags
<1>4. ASSUME ~ short'["u1"] PROVE FileIs(files'[fname["u1"]], written'["u1"], d, p + Len(x))
  <2>1. ~ short["u1"] /\ ~ (k < Len(x))
    BY <1>3, <1>4, Zenon
  <2>2. Len(x) \in Nat
    BY LenProperties
  <2>3. k = Len(x)
    BY <1>1, <2>1, <2>2
  <2>4. SubSeq(x, 1, k) = x
    BY <2>3, SubSeqFull
  <2>5. Upload!Writes("u1", x)
    BY <1>1, <2>4
  <2>6. /\ files'[fname["u1"]] \in Seq(STRING)
        /\ Len(files'[fname["u1"]]) = (p + Len(x)) - d
        /\ \A i \in 1 .. (p + Len(x)) - d : files'[fname["u1"]][i] = UpBody[d + i]
        /\ written'["u1"] = (p + Len(x)) - d
    BY <2>1, <2>5, FileGrows
  <2> QED
    BY <2>6 DEF FileIs
<1> QED
  BY <1>2, <1>3, <1>4

\* A boundary of the body is looked at where it starts in the buffer, if one character is behind it.
LEMMA LookedAt ==
  ASSUME Upload!MgUploadAssumption, UploadTypes, NEW p \in Nat, Behind(UpBody, buf["u1"], rest["u1"], p)
  PROVE  /\ \A i \in Upload!Boundaries("u1") :
              i \in Nat /\ i + Upload!bl + 1 <= Len(buf["u1"]) /\ p + i + 1 \in Upload!Whole(UpBody)
         /\ \A j \in Upload!Whole(UpBody) :
              j > p /\ j + Upload!bl <= p + Len(buf["u1"]) => j - p - 1 \in Upload!Boundaries("u1")
<1>1. PICK l \in Nat, a \in Nat : l = Upload!bl /\ a = Len(buf["u1"])
  BY UploadNumbers
<1>2. \A i : i \in Upload!Boundaries("u1") <=>
               i \in 0 .. a - l - 1 /\ SubSeq(buf["u1"], i + 1, i + l) = Boundary
  BY <1>1 DEF Upload!Boundaries
<1>3. UpBody \in Seq(STRING) /\ buf["u1"] \in Seq(STRING) /\ rest["u1"] \in Seq(STRING)
  BY DEF UploadTypes
<1>4. ASSUME NEW i \in Nat, i + l + 1 <= a
      PROVE  SubSeq(buf["u1"], i + 1, i + l) = Boundary <=> p + i + 1 \in Upload!Whole(UpBody)
  BY <1>1, <1>3, <1>4, BoundarySeen
<1>5. ASSUME NEW i \in Upload!Boundaries("u1")
      PROVE  i \in Nat /\ i + l + 1 <= a /\ p + i + 1 \in Upload!Whole(UpBody)
  <2>1. i \in 0 .. a - l - 1
    BY <1>2
  <2>2. i \in Nat /\ i + l + 1 <= a
    BY <2>1
  <2> QED
    BY <1>2, <1>4, <2>2
<1>6. ASSUME NEW j \in Upload!Whole(UpBody), j > p, j + l <= p + a
      PROVE  j - p - 1 \in Upload!Boundaries("u1")
  <2>1. j \in Nat
    BY <1>3, LenProperties DEF Upload!Whole
  <2>2. PICK i \in Nat : i = j - p - 1 /\ i + l + 1 <= a /\ p + i + 1 = j /\ i \in 0 .. a - l - 1
    BY <1>6, <2>1
  <2>3. SubSeq(buf["u1"], i + 1, i + l) = Boundary
    BY <1>4, <1>6, <2>2
  <2> QED
    BY <1>2, <2>2, <2>3
<1> QED
  BY <1>1, <1>5, <1>6

\* Where the boundary that is found stands in the body, and what was written before it.
FoundAt(p, n) ==
  /\ n \in Nat /\ n + Upload!bl + 1 <= Len(buf["u1"])
  /\ Upload!IsPart(UpBody, UpStart) /\ Upload!EndAt(UpBody, UpStart) = p + n + 1
  /\ buf'["u1"] = SubSeq(buf["u1"], (n + Upload!bl) + 1, Len(buf["u1"]))
  /\ Upload!Fwrite("u1", SubSeq(buf["u1"], 1, n))
  /\ InPart(p)

LEMMA ScanFindsPart ==
  ASSUME Upload!MgUploadAssumption, UploadTypes, NEW p \in Nat, UploadAt(p), Upload!ScanFinds("u1")
  PROVE  \E n \in Nat : FoundAt(p, n)
<1>0. /\ pc["u1"] = "scan" /\ Upload!Boundaries("u1") # {}
  BY DEF Upload!ScanFinds
<1> DEFINE S == Upload!Boundaries("u1")
           first == CHOOSE i \in S : \A j \in S : i <= j
<1>1. /\ Upload!Fwrite("u1", SubSeq(buf["u1"], 1, first))
      /\ buf' = [buf EXCEPT !["u1"] = SubSeq(@, first + Upload!bl + 1, Len(@))]
  BY DEF Upload!ScanFinds
<1>2. /\ Behind(UpBody, buf["u1"], rest["u1"], p) /\ UpBody \in Seq(STRING)
  BY DEF UploadAt, UploadTypes
<1>3. /\ \A i \in S : i \in Nat /\ i + Upload!bl + 1 <= Len(buf["u1"]) /\ p + i + 1 \in Upload!Whole(UpBody)
      /\ \A j \in Upload!Whole(UpBody) : j > p /\ j + Upload!bl <= p + Len(buf["u1"]) => j - p - 1 \in S
  BY <1>2, LookedAt
<1> HIDE DEF S
<1>4. PICK n \in S : \A k \in S : n <= k
  <2>1. S \in SUBSET Nat /\ S # {}
    BY <1>0, <1>3 DEF S
  <2> QED
    BY <2>1, LeastNatural
<1>5. first = n
  <2>1. S \in SUBSET Nat
    BY <1>3
  <2> QED
    BY <1>4, <2>1, ChosenIsLeast
<1>6. n \in Nat /\ n + Upload!bl + 1 <= Len(buf["u1"]) /\ p + n + 1 \in Upload!Whole(UpBody)
  BY <1>3
<1>7. InPart(p)
  <2>1. Len(buf["u1"]) > Upload!bl
    BY <1>6, UploadNumbers
  <2>2. ~ NoMore
    BY <2>1, UploadNumbers DEF NoMore
  <2> QED
    BY <1>0, <2>2 DEF UploadAt, UploadState
<1>8. PICK d \in Nat : /\ d = Upload!HeadAt(UpBody, UpStart) /\ d <= p
                       /\ \A i \in Upload!Whole(UpBody) : i <= d \/ i > p
                       /\ Upload!HeadersIn(UpBody, UpStart) # {} /\ UpBody[d] # "N"
  BY <1>7 DEF InPart
<1>9. Upload!Whole(UpBody) \in SUBSET Nat
  BY <1>2, LenProperties DEF Upload!Whole
<1>10. PICK e \in Nat : e = p + n + 1 /\ e > d
  BY <1>6, <1>8
<1> DEFINE T == Upload!EndsAt(UpBody, UpStart)
<1>11. \A j : j \in T <=> j \in Upload!Whole(UpBody) /\ j > d
  BY <1>8 DEF Upload!EndsAt
<1> HIDE DEF T
<1>12. e \in T
  BY <1>6, <1>10, <1>11
<1>13. ASSUME NEW j \in T PROVE e <= j
  <2>1. j \in Upload!Whole(UpBody) /\ j > d /\ j \in Nat
    BY <1>9, <1>11
  <2>2. j > p
    BY <1>8, <2>1
  <2> SUFFICES ASSUME ~ (e <= j) PROVE FALSE
    OBVIOUS
  <2>3. PICK a \in Nat, l \in Nat : a = Len(buf["u1"]) /\ l = Upload!bl /\ n + l + 1 <= a
    BY <1>6, UploadNumbers
  <2>4. j < p + n + 1
    BY <1>10, <2>1
  <2>5. j + l <= p + a
    BY <1>6, <2>1, <2>3, <2>4
  <2>6. j - p - 1 \in S
    BY <1>3, <2>1, <2>2, <2>3, <2>5
  <2>7. n <= j - p - 1
    BY <1>4, <2>6
  <2> QED
    BY <1>6, <2>1, <2>4, <2>7
<1>14. Upload!EndAt(UpBody, UpStart) = e
  <2>1. T \in SUBSET Nat
    BY <1>9, <1>11
  <2> QED
    BY <1>12, <1>13, <2>1, ChosenIsLeast DEF Upload!EndAt, T
<1>15. Upload!IsPart(UpBody, UpStart)
  BY <1>8, <1>12 DEF Upload!IsPart, T
<1>16. buf'["u1"] = SubSeq(buf["u1"], (n + Upload!bl) + 1, Len(buf["u1"]))
  BY <1>1, <1>5 DEF UploadTypes
<1>17. Upload!Fwrite("u1", SubSeq(buf["u1"], 1, n))
  BY <1>1, <1>5
<1> QED
  BY <1>6, <1>7, <1>10, <1>14, <1>15, <1>16, <1>17 DEF FoundAt

\* x is n characters of the body b, from p on
FirstAre(x, b, p, n) == /\ x \in Seq(STRING)
                        /\ Len(x) = n
                        /\ \A k \in 1 .. n : x[k] = b[p + k]

\* The first n characters of the buffer, in the body.
LEMMA FirstOfBuffer ==
  ASSUME UploadTypes, NEW p \in Nat, Behind(UpBody, buf["u1"], rest["u1"], p),
         NEW n \in Nat, n <= Len(buf["u1"]), NEW x, x = SubSeq(buf["u1"], 1, n)
  PROVE  FirstAre(x, UpBody, p, n)
<1>1. PICK f \in Seq(STRING) : f = buf["u1"] /\ n <= Len(f) /\ x = SubSeq(f, 1, n)
  BY DEF UploadTypes
<1>2. /\ SubSeq(f, 0 + 1, n) \in Seq(STRING) /\ Len(SubSeq(f, 0 + 1, n)) = n - 0
      /\ \A k \in 1 .. n - 0 : SubSeq(f, 0 + 1, n)[k] = f[0 + k]
  BY <1>1, PieceOf
<1>3. SubSeq(f, 0 + 1, n) = SubSeq(f, 1, n) /\ n - 0 = n /\ \A k \in 1 .. n : 0 + k = k
  OBVIOUS
<1>4. x = SubSeq(f, 0 + 1, n)
  BY <1>1, <1>3
<1>5. x \in Seq(STRING) /\ Len(x) = n /\ \A k \in 1 .. n : x[k] = f[k]
  BY <1>2, <1>3, <1>4
<1>6. \A k \in 1 .. n : f[k] = UpBody[p + k]
  <2>1. PICK a \in Nat : a = Len(f) /\ n <= a
    BY <1>1, LenProperties
  <2>2. \A i \in 1 .. a : f[i] = UpBody[p + i]
    BY <1>1, <2>1 DEF Behind
  <2>3. \A k \in 1 .. n : k \in 1 .. a
    BY <2>1
  <2> QED
    BY <2>2, <2>3
<1>7. \A k \in 1 .. n : x[k] = UpBody[p + k]
  BY <1>5, <1>6
<1> QED
  BY <1>5, <1>7 DEF FirstAre

\* A part that is found to its end is counted, and its file has it.
LEMMA PartIsWhole ==
  ASSUME Upload!MgUploadAssumption, UploadTypes, NEW p \in Nat, UploadAt(p), Upload!ScanFinds("u1"),
         UploadFlags
  PROVE  Upload!FilesAreParts
<1> SUFFICES ASSUME ~ short'["u1"] PROVE Upload!FilesAreParts
  BY DEF Upload!FilesAreParts
<1>1. PICK n \in Nat : FoundAt(p, n)
  BY ScanFindsPart
<1>2. /\ Behind(UpBody, buf["u1"], rest["u1"], p) /\ UpBody \in Seq(STRING)
      /\ body' = body /\ fname' = fname
  BY DEF UploadAt, UploadTypes, Upload!ScanFinds
<1>3. PICK x : x = SubSeq(buf["u1"], 1, n)
  OBVIOUS
<1>4. n <= Len(buf["u1"])
  BY <1>1, UploadNumbers DEF FoundAt
<1>5. FirstAre(x, UpBody, p, n)
  BY <1>2, <1>3, <1>4, FirstOfBuffer
<1>6. x \in Seq(STRING) /\ Len(x) = n
  BY <1>5 DEF FirstAre
<1>7. \A k \in 1 .. n : x[k] = UpBody[p + k]
  BY <1>5 DEF FirstAre
<1>8. Upload!Fwrite("u1", x) /\ InPart(p)
  BY <1>1, <1>3 DEF FoundAt
<1>9. PICK d \in Nat : /\ d = Upload!HeadAt(UpBody, UpStart) /\ d <= p
                       /\ fname["u1"] = UpBody[d]
  BY <1>8 DEF InPart
<1>10. PICK f : f = files'[fname["u1"]]
  OBVIOUS
<1>11. f \in Seq(STRING) /\ Len(f) = (p + n) - d /\ \A i \in 1 .. (p + n) - d : f[i] = UpBody[d + i]
  <2>1. FileIs(f, written'["u1"], d, p + n)
    BY <1>6, <1>7, <1>8, <1>9, <1>10, FileIsWritten
  <2> QED
    BY <2>1 DEF FileIs
<1>12. PICK m \in Nat : m = (p + n) - d
  BY <1>9
<1>13. d + m <= Len(UpBody) /\ 0 + m <= Len(f) /\ (p + n + 1) - 1 = d + m
  <2>1. PICK c \in Nat, r \in Nat : c = Len(buf["u1"]) /\ r = Len(rest["u1"]) /\ n <= c
    BY <1>4, UploadNumbers
  <2>2. Len(UpBody) = p + c + r
    BY <1>2, <2>1 DEF Behind
  <2>3. d + m = p + n
    BY <1>9, <1>12
  <2>4. p + n <= p + c + r
    <3>1. n <= c
      BY <2>1
    <3> QED
      BY <3>1
  <2> QED
    BY <1>11, <1>12, <2>2, <2>3, <2>4
<1>14. Alike(f, 0, UpBody, d, m)
  <2>1. \A i \in 1 .. m : 0 + i = i
    OBVIOUS
  <2> QED
    BY <1>11, <1>12, <2>1 DEF Alike
<1>15. SubSeq(f, 0 + 1, 0 + m) = SubSeq(UpBody, d + 1, d + m)
  BY <1>2, <1>11, <1>13, <1>14, SamePiece
<1>16. SubSeq(f, 0 + 1, 0 + m) = f
  <2>1. 0 + 1 = 1 /\ 0 + m = Len(f)
    BY <1>11, <1>12
  <2> QED
    BY <1>11, <2>1, SubSeqFull
<1>17. Upload!EndAt(UpBody, UpStart) - 1 = d + m /\ Upload!IsPart(UpBody, UpStart)
  BY <1>1, <1>13 DEF FoundAt
<1>18. Upload!Part(UpBody, UpStart) = [name |-> fname["u1"], data |-> f]
  BY <1>9, <1>15, <1>16, <1>17 DEF Upload!Part
<1>19. ASSUME NEW u \in {"u1"} PROVE /\ Upload!IsPart(body[u], Upload!Begins(body[u])[count[u]])
                                     /\ Upload!Part(body[u], Upload!Begins(body[u])[count[u]]) =
                                          [name |-> fname[u], data |-> files'[fname[u]]]
  BY <1>10, <1>17, <1>18 DEF UpBody, UpStart
<1> QED
  BY <1>19 DEF Upload!FilesAreParts

LEMMA ScanFindsKeeps ==
  ASSUME Upload!MgUploadAssumption, UploadTypes, UploadFlags, NEW p \in Nat, UploadAt(p), Upload!ScanFinds("u1")
  PROVE  UploadFine'
<1>1. PICK n \in Nat : FoundAt(p, n)
  BY ScanFindsPart
<1>2. /\ Behind(UpBody, buf["u1"], rest["u1"], p) /\ UpBody \in Seq(STRING)
      /\ buf["u1"] \in Seq(STRING) /\ rest["u1"] \in Seq(STRING)
  BY DEF UploadAt, UploadTypes
<1>3. /\ UNCHANGED <<rest, fname, body, refused>>
      /\ count' = [count EXCEPT !["u1"] = @ + 1] /\ pc' = [pc EXCEPT !["u1"] = "headers"]
  BY DEF Upload!ScanFinds
<1>4. /\ pc'["u1"] = "headers" /\ DOMAIN pc' = {"u1"} /\ DOMAIN count' = {"u1"}
      /\ count'["u1"] = count["u1"] + 1 /\ UpBody' = UpBody
  BY <1>3 DEF UploadTypes, UpBody
<1>5. DOMAIN buf' = {"u1"}
  BY DEF Upload!ScanFinds, UploadTypes
<1>6. DOMAIN files' = Names /\ DOMAIN written' = {"u1"}
  BY <1>1 DEF FoundAt, Upload!Fwrite, Upload!Writes, UploadTypes
<1>7. PICK m \in Nat : m = n + Upload!bl /\ m <= Len(buf["u1"])
  BY <1>1, UploadNumbers DEF FoundAt
<1>8. buf'["u1"] = SubSeq(buf["u1"], m + 1, Len(buf["u1"]))
  BY <1>1, <1>7 DEF FoundAt
<1>9. buf'["u1"] \in Seq(STRING)
  BY <1>2, <1>7, <1>8, BufferSlides
<1>10. Behind(UpBody, buf'["u1"], rest["u1"], p + m)
  BY <1>2, <1>7, <1>8, BufferSlides
<1>11. Len(buf'["u1"]) = Len(buf["u1"]) - m
  BY <1>2, <1>7, <1>8, BufferSlides
<1>12. Len(buf'["u1"]) <= UploadBuf
  BY <1>7, <1>11, UploadNumbers DEF UploadTypes
<1>13. AfterPart(UpBody, UpStart) = p + m
  <2>1. AfterPart(UpBody, UpStart) = (p + n + 1) + Upload!bl - 1
    BY <1>1 DEF FoundAt, AfterPart
  <2> QED
    BY <1>7, <2>1, UploadNumbers
<1>14. PICK k \in Nat : k = count["u1"] /\ k <= UpStart /\ UpStart < p + m /\ p + m <= Len(UpBody)
  <2>1. UpStart < p
    <3>1. InPart(p)
      BY <1>1 DEF FoundAt
    <3>2. PICK d \in Nat : d = Upload!HeadAt(UpBody, UpStart) /\ d > UpStart /\ d <= p
      BY <3>1 DEF InPart
    <3> QED
      BY <3>2, UploadNumbers
  <2>2. PICK c \in Nat, r \in Nat, s \in Nat :
          c = Len(buf["u1"]) /\ r = Len(rest["u1"]) /\ s = UpStart /\ m <= c /\ s < p
    BY <1>7, <2>1, UploadNumbers
  <2>3. Len(UpBody) = p + c + r
    BY <1>2, <2>2 DEF Behind
  <2>4. s < p + m /\ p + m <= p + c + r
    <3>1. m <= c /\ s < p
      BY <2>2
    <3> QED
      BY <3>1
  <2> QED
    BY <2>2, <2>3, <2>4 DEF UploadTypes
<1>15. PICK L \in Nat, s \in Nat : L = Len(UpBody) /\ s = UpStart
  BY UploadNumbers
<1>16. UpStart' = p + m
  <2>1. k + 1 \in 1 .. L /\ (k + 1) - 1 = k
    BY <1>14, <1>15
  <2>2. Upload!Begins(UpBody)[k + 1] = AfterPart(UpBody, Upload!Begins(UpBody)[(k + 1) - 1])
    BY <1>2, <1>15, <2>1, BeginsAre
  <2>3. Upload!Begins(UpBody)[k + 1] = AfterPart(UpBody, UpStart)
    BY <1>14, <2>1, <2>2 DEF UpStart
  <2>4. UpStart' = Upload!Begins(UpBody)[k + 1]
    BY <1>4, <1>14 DEF UpStart
  <2> QED
    BY <1>13, <2>3, <2>4
<1>17. k + 1 <= p + m /\ p + m \in Nat /\ k + 1 \in Nat
  BY <1>14, <1>15
<1>18. UploadTypes'
  BY <1>2, <1>3, <1>4, <1>5, <1>6, <1>9, <1>12, <1>14, <1>16, <1>17 DEF UploadTypes
<1>19. UploadState(p + m)'
  BY <1>4, <1>16 DEF UploadState
<1>20. Behind(UpBody, buf["u1"], rest["u1"], p + m)'
  BY <1>3, <1>4, <1>10
<1> QED
  BY <1>17, <1>18, <1>19, <1>20 DEF UploadFine, UploadAt

LEMMA ScanSlidesKeeps ==
  ASSUME Upload!MgUploadAssumption, UploadTypes, UploadFlags, NEW p \in Nat, UploadAt(p), Upload!ScanSlides("u1")
  PROVE  UploadFine'
<1>0. /\ pc["u1"] = "scan" /\ Upload!Boundaries("u1") = {}
      /\ pc' = [pc EXCEPT !["u1"] = "read"] /\ UNCHANGED <<rest, fname, count, body, refused>>
  BY DEF Upload!ScanSlides
<1>1. /\ Behind(UpBody, buf["u1"], rest["u1"], p) /\ UpBody \in Seq(STRING)
      /\ buf["u1"] \in Seq(STRING) /\ rest["u1"] \in Seq(STRING)
  BY DEF UploadAt, UploadTypes
<1>2. pc'["u1"] = "read" /\ DOMAIN pc' = {"u1"}
  BY <1>0 DEF UploadTypes
<1>3. InPart(p) \/ NoMore
  BY <1>0 DEF UploadAt, UploadState
<1>4. PICK l \in Nat, a \in Nat : l = Upload!bl /\ a = Len(buf["u1"])
  BY UploadNumbers
<1>5. CASE ~ (a > l)
  <2>1. UNCHANGED <<files, written, buf, short>>
    BY <1>4, <1>5 DEF Upload!ScanSlides
  <2>2. UploadTypes'
    BY <1>0, <1>2, <2>1, TypesStay DEF UploadTypes
  <2>3. Behind(UpBody, buf["u1"], rest["u1"], p)'
    BY <1>0, <1>1, <2>1, StartStays
  <2>4. CASE InPart(p)
    <3>1. InPart(p)'
      BY <1>0, <2>1, <2>4, StartStays DEF InPart, FileIs
    <3>2. (Len(buf["u1"]) <= Upload!bl)'
      BY <1>4, <1>5, <2>1 DEF Upload!bl
    <3> QED
      BY <1>2, <2>2, <2>3, <3>1, <3>2 DEF UploadFine, UploadAt, UploadState
  <2>5. CASE NoMore
    <3>1. NoMore'
      BY <1>0, <2>1, <2>5, StartStays DEF NoMore
    <3> QED
      BY <1>2, <2>2, <2>3, <3>1 DEF UploadFine, UploadAt, UploadState
  <2> QED
    BY <1>3, <2>4, <2>5
<1>6. CASE a > l
  <2>1. PICK n \in Nat : n = a - l /\ n <= a /\ a - n = l
    BY <1>6
  <2>2. /\ Upload!Fwrite("u1", SubSeq(buf["u1"], 1, n))
        /\ buf' = [buf EXCEPT !["u1"] = SubSeq(buf["u1"], n + 1, Len(buf["u1"]))]
    BY <1>4, <1>6, <2>1 DEF Upload!ScanSlides, Upload!Kept
  <2>3. buf'["u1"] = SubSeq(buf["u1"], n + 1, Len(buf["u1"])) /\ DOMAIN buf' = {"u1"}
    BY <2>2 DEF UploadTypes
  <2>4. n <= Len(buf["u1"])
    BY <1>4, <2>1
  <2>5. buf'["u1"] \in Seq(STRING)
    BY <1>1, <2>3, <2>4, BufferSlides
  <2>6. Behind(UpBody, buf'["u1"], rest["u1"], p + n)
    BY <1>1, <2>3, <2>4, BufferSlides
  <2>7. Len(buf'["u1"]) = l
    <3>1. Len(buf'["u1"]) = Len(buf["u1"]) - n
      BY <1>1, <2>3, <2>4, BufferSlides
    <3> QED
      BY <1>4, <2>1, <3>1
  <2>8. PICK x : x = SubSeq(buf["u1"], 1, n)
    OBVIOUS
  <2>9. FirstAre(x, UpBody, p, n)
    <3>1. Behind(UpBody, buf["u1"], rest["u1"], p)
      BY <1>1
    <3> QED
      BY <2>4, <2>8, <3>1, FirstOfBuffer
  <2>10. x \in Seq(STRING) /\ Len(x) = n
    BY <2>9 DEF FirstAre
  <2>11. \A k \in 1 .. n : x[k] = UpBody[p + k]
    BY <2>9 DEF FirstAre
  <2>12. InPart(p)
    BY <1>3, <1>4, <1>6 DEF NoMore
  <2>13. PICK d \in Nat : d = Upload!HeadAt(UpBody, UpStart) /\ d <= p
    BY <2>12 DEF InPart
  <2>14. PICK f : f = files'[fname["u1"]]
    OBVIOUS
  <2>15. /\ ~ short'["u1"] => FileIs(f, written'["u1"], d, p + n)
         /\ DOMAIN files' = Names /\ DOMAIN written' = {"u1"}
    BY <2>2, <2>8, <2>10, <2>11, <2>12, <2>13, <2>14, FileIsWritten
  <2>16. UploadTypes'
    <3>1. Len(buf'["u1"]) <= UploadBuf
      BY <1>4, <2>7, UploadNumbers
    <3>2. rest'["u1"] \in Seq(STRING) /\ DOMAIN rest' = {"u1"} /\ DOMAIN fname' = {"u1"}
          /\ DOMAIN refused' = {"u1"}
      BY <1>0, <1>1 DEF UploadTypes
    <3> QED
      BY <1>0, <1>2, <2>3, <2>5, <2>15, <3>1, <3>2, TypesStay
  <2>17. Behind(UpBody, buf["u1"], rest["u1"], p + n)'
    BY <1>0, <2>6, StartStays
  <2>18. ASSUME NEW i \in Upload!Whole(UpBody) PROVE i <= d \/ i > p + n
    <3>1. i \in Nat
      BY <1>1, LenProperties DEF Upload!Whole
    <3>2. i <= d \/ i > p
      BY <2>12, <2>13 DEF InPart
    <3>3. i > p /\ i + Upload!bl <= p + Len(buf["u1"]) => i - p - 1 \in Upload!Boundaries("u1")
      BY <1>1, LookedAt
    <3>4. ~ (i > p /\ i + l <= p + a)
      BY <1>0, <1>4, <3>3
    <3> QED
      BY <2>1, <3>1, <3>2, <3>4
  <2>19. InPart(p + n)'
    <3>1. /\ UpBody' = UpBody /\ UpStart' = UpStart
          /\ Upload!HeadAt(UpBody, UpStart)' = d
          /\ Upload!HeadersIn(UpBody, UpStart)' = Upload!HeadersIn(UpBody, UpStart)
          /\ Upload!Whole(UpBody)' = Upload!Whole(UpBody)
      BY <1>0, <2>13, StartStays
    <3>2. /\ Upload!HeadersIn(UpBody, UpStart) # {} /\ d > UpStart
          /\ fname["u1"] = UpBody[d] /\ fname["u1"] \in Names /\ fname["u1"] # "N"
      BY <2>12, <2>13 DEF InPart
    <3>3. d <= p + n
      BY <2>13
    <3>4. fname' = fname
      BY <1>0
    <3>5. (~ short["u1"] => FileIs(files[fname["u1"]], written["u1"], d, p + n))'
      BY <2>14, <2>15, <3>1, <3>4 DEF FileIs
    <3> QED
      BY <2>13, <2>18, <3>1, <3>2, <3>3, <3>4, <3>5 DEF InPart
  <2>20. (Len(buf["u1"]) <= Upload!bl)'
    BY <1>4, <2>7 DEF Upload!bl
  <2>21. UploadState(p + n)'
    BY <1>2, <2>19, <2>20 DEF UploadState
  <2>22. p + n \in Nat
    OBVIOUS
  <2> QED
    BY <2>16, <2>17, <2>21, <2>22 DEF UploadFine, UploadAt
<1> QED
  BY <1>5, <1>6

\* What is marked as lost stays so.
LEMMA LostStays ==
  ASSUME UploadFlags, [Upload!Next]_(Upload!vars)
  PROVE  UploadFlags' /\ (lost["u1"] => lost'["u1"])
<1>1. CASE UNCHANGED lost
  <2>1. CASE UNCHANGED short
    BY <1>1, <2>1 DEF UploadFlags
  <2>2. CASE \E x : Upload!Fwrite("u1", x)
    <3>1. PICK x, k : short' = [short EXCEPT !["u1"] = short["u1"] \/ k < Len(x)]
      BY <2>2 DEF Upload!Fwrite
    <3>2. (short["u1"] \/ k < Len(x)) \in BOOLEAN
      OBVIOUS
    <3>3. short' \in [{"u1"} -> BOOLEAN]
      BY <3>1, <3>2, Zenon DEF UploadFlags
    <3> QED
      BY <1>1, <3>3 DEF UploadFlags
  <2>3. UNCHANGED short \/ \E x : Upload!Fwrite("u1", x)
    BY DEF Upload!Next, Upload!Step, Upload!PullHeaders, Upload!Open, Upload!OpenFails,
           Upload!ScanFinds, Upload!ScanSlides, Upload!ReadMore, Upload!ReadEnds,
           Upload!ReadFails, Upload!ghosts, Upload!vars
  <2> QED
    BY <2>1, <2>2, <2>3
<1>2. CASE Upload!ReadLoses("u1") /\ UNCHANGED short
  BY <1>2 DEF UploadFlags, Upload!ReadLoses
<1>3. UNCHANGED lost \/ (Upload!ReadLoses("u1") /\ UNCHANGED short)
  BY DEF Upload!Next, Upload!Step, Upload!PullHeaders, Upload!Open, Upload!OpenFails,
         Upload!ScanFinds, Upload!ScanSlides, Upload!ReadMore, Upload!ReadEnds,
         Upload!ReadFails, Upload!ghosts, Upload!vars
<1> QED
  BY <1>1, <1>2, <1>3

\* A read that fails counts nothing: only ScanFinds does, and it reads nothing.
LEMMA ReadCountsNothing ==
  ASSUME UploadFlags, [Upload!Next]_(Upload!vars), ~ lost["u1"], Upload!ReadLoses("u1")
  PROVE  UNCHANGED <<body, count>>
<1>1. lost' # lost
  BY DEF UploadFlags, Upload!ReadLoses
<1>2. Upload!PullHeaders("u1") \/ Upload!ReadFails("u1")
  BY <1>1 DEF Upload!Next, Upload!Step, Upload!Open, Upload!OpenFails,
           Upload!ScanFinds, Upload!ScanSlides, Upload!ReadMore, Upload!ReadEnds,
           Upload!ghosts, Upload!vars
<1> QED
  BY <1>2 DEF Upload!PullHeaders, Upload!ReadFails

LEMMA UploadNextKeeps ==
  ASSUME Upload!MgUploadAssumption, UploadInv, [Upload!Next]_(Upload!vars)
  PROVE  UploadInv' /\ Upload!FilesAreParts
<1>0. UploadFlags /\ UploadFlags' /\ (lost["u1"] => lost'["u1"])
  BY LostStays DEF UploadInv
<1>14. CASE lost["u1"]
  BY <1>0, <1>14 DEF UploadInv, Upload!FilesAreParts
<1>15. CASE ~ lost["u1"] /\ Upload!ReadLoses("u1")
  <2>1. lost'["u1"]
    BY <1>0, <1>15 DEF UploadFlags, Upload!ReadLoses
  <2>2. UNCHANGED <<body, count>>
    BY <1>15, ReadCountsNothing DEF UploadInv
  <2> QED
    BY <1>0, <2>1, <2>2 DEF UploadInv, Upload!FilesAreParts
<1> SUFFICES ASSUME ~ lost["u1"], ~ Upload!ReadLoses("u1")
             PROVE  UploadFine' /\ Upload!FilesAreParts
  BY <1>0, <1>14, <1>15 DEF UploadInv
<1>1. PICK p \in Nat : UploadAt(p)
  BY DEF UploadInv, UploadFine
<1>2. UploadTypes
  BY DEF UploadInv, UploadFine
<1>3. ASSUME UNCHANGED <<body, count>> PROVE Upload!FilesAreParts
  BY <1>3 DEF Upload!FilesAreParts
<1>4. CASE Upload!PullHeaders("u1")
  <2>1. UNCHANGED <<body, count>>
    BY <1>4 DEF Upload!PullHeaders
  <2>2. Upload!Read("u1", Upload!Smaller(UploadBuf - Len(buf["u1"]), Len(rest["u1"])))
    BY <1>4 DEF Upload!PullHeaders
  <2> QED
    BY <1>1, <1>2, <1>3, <1>4, <2>1, <2>2, PullHeadersKeeps
<1>5. CASE Upload!Open("u1")
  <2>1. UNCHANGED <<body, count>>
    BY <1>5 DEF Upload!Open, Upload!ghosts
  <2> QED
    BY <1>1, <1>2, <1>3, <1>5, <2>1, OpenKeeps
<1>6. CASE Upload!OpenFails("u1")
  <2>1. UNCHANGED <<body, count>>
    BY <1>6 DEF Upload!OpenFails
  <2> QED
    BY <1>1, <1>2, <1>3, <1>6, <2>1, OpenFailsKeeps
<1>7. CASE Upload!ScanFinds("u1")
  BY <1>0, <1>1, <1>2, <1>7, ScanFindsKeeps, PartIsWhole
<1>8. CASE Upload!ScanSlides("u1")
  <2>1. UNCHANGED <<body, count>>
    BY <1>8 DEF Upload!ScanSlides
  <2> QED
    BY <1>1, <1>2, <1>3, <1>8, <1>0, <2>1, ScanSlidesKeeps
<1>9. CASE Upload!ReadMore("u1")
  <2>1. UNCHANGED <<body, count>>
    BY <1>9 DEF Upload!ReadMore, Upload!ghosts
  <2> QED
    BY <1>1, <1>2, <1>3, <1>9, <2>1, ReadMoreKeeps
<1>10. CASE Upload!ReadEnds("u1")
  <2>1. UNCHANGED <<body, count>>
    BY <1>10 DEF Upload!ReadEnds, Upload!ghosts
  <2> QED
    BY <1>1, <1>2, <1>3, <1>10, <2>1, ReadEndsKeeps
<1>11. CASE UNCHANGED Upload!vars
  <2>1. UNCHANGED <<pc, rest, buf, fname, files, written, count, body, refused, short>>
    BY <1>11 DEF Upload!vars, Upload!ghosts
  <2>2. UploadTypes'
    BY <1>2, <2>1, TypesStay DEF UploadTypes
  <2>3. Behind(UpBody, buf["u1"], rest["u1"], p)'
    BY <1>1, <2>1, StartStays DEF UploadAt
  <2>4. InPart(p)' <=> InPart(p)
    BY <2>1, StartStays DEF InPart, FileIs
  <2>5. (NoMore' <=> NoMore) /\ (NothingPassed' <=> NothingPassed)
    BY <2>1, StartStays DEF NoMore, NothingPassed
  <2>6. UploadState(p)'
    <3>1. UploadState(p) /\ UpStart' = UpStart
      BY <1>1, <2>1, StartStays DEF UploadAt
    <3>2. (Len(buf["u1"]) <= Upload!bl)' <=> (Len(buf["u1"]) <= Upload!bl)
      BY <2>1
    <3>3. (Upload!HeadersIn(buf["u1"], 0) # {})' <=> (Upload!HeadersIn(buf["u1"], 0) # {})
      BY <2>1
    <3>4. (buf["u1"][Upload!HeadersLen(buf["u1"])])' = buf["u1"][Upload!HeadersLen(buf["u1"])]
      BY <2>1
    <3> QED
      BY <2>1, <2>4, <2>5, <3>1, <3>2, <3>3, <3>4 DEF UploadState
  <2> QED
    BY <1>3, <2>1, <2>2, <2>3, <2>6 DEF UploadFine, UploadAt
<1>12. Upload!Next => Upload!Step("u1")
  BY DEF Upload!Next
<1>13. ~ Upload!ReadFails("u1")
  BY DEF Upload!ReadFails
<1> QED
  BY <1>4, <1>5, <1>6, <1>7, <1>8, <1>9, <1>10, <1>11, <1>12, <1>13 DEF Upload!Step

\* No part is passed over at the end.
LEMMA UploadIsRight == ASSUME UploadInv PROVE Upload!AllPartsCount
<1>1. ASSUME pc["u1"] = "done", ~ lost["u1"] PROVE NothingPassed
  BY <1>1 DEF UploadInv, UploadFine, UploadAt, UploadState
<1>2. ASSUME NEW u \in {"u1"}, pc[u] = "done", Upload!HeadersFit(body[u]), ~ lost[u]
      PROVE  ~ Upload!IsPart(body[u], Upload!Begins(body[u])[count[u]]) \/ refused[u]
  BY <1>1, <1>2 DEF NothingPassed, UpBody, UpStart
<1> QED
  BY <1>2 DEF Upload!AllPartsCount

-----------------------------------------------------------------------------
(* Server-side includes: what a text stands for.                           *)

\* Text stays the same when it is grouped in another way.
Regrouped(x, y, z) == (x \o y) \o z = x \o (y \o z)

LEMMA Grouped ==
  ASSUME NEW x \in Seq(STRING), NEW y \in Seq(STRING), NEW z \in Seq(STRING)
  PROVE  Regrouped(x, y, z)
BY ConcatAssociative DEF Regrouped

LEMMA Joined ==
  ASSUME NEW x \in Seq(STRING), NEW y \in Seq(STRING) PROVE x \o y \in Seq(STRING)
BY ConcatProperties

\* What Replaced says of each place of a text
IsTag(t, i) == Ssi!TagAt(t, i) /\ Ssi!EndsOf(t, i) # {}
TagEnd(t, i) == CHOOSE j \in Ssi!EndsOf(t, i) : \A k \in Ssi!EndsOf(t, i) : j <= k
InPlace(t, named, i) ==
  IF t[i + Len(OpenTag)] \in Ssi!Files THEN named[t[i + Len(OpenTag)]] ELSE <<>>

\* What a tag is replaced by, and where it ends
LEMMA TagIsInText ==
  ASSUME Ssi!MgSsiAssumption, NEW t \in Seq(STRING), NEW i \in 1 .. Len(t), IsTag(t, i)
  PROVE  /\ TagEnd(t, i) \in i .. Len(t) /\ t[TagEnd(t, i)] = ">"
         /\ \A k \in i .. Len(t) : t[k] = ">" => TagEnd(t, i) <= k
<1>1. Len(t) \in Nat
  BY LenProperties
<1> DEFINE T == Ssi!EndsOf(t, i)
<1>2. T # {} /\ \A j : j \in T <=> j \in i .. Len(t) /\ t[j] = ">"
  BY DEF IsTag, Ssi!EndsOf
<1>3. TagEnd(t, i) = CHOOSE j \in T : \A k \in T : j <= k
  BY DEF TagEnd
<1> HIDE DEF T
<1>4. T \in SUBSET Nat
  BY <1>1, <1>2
<1>5. PICK j \in T : \A k \in T : j <= k
  BY <1>2, <1>4, LeastNatural
<1>6. TagEnd(t, i) = j
  BY <1>3, <1>4, <1>5, ChosenIsLeast
<1> QED
  BY <1>2, <1>5, <1>6

LEMMA ReplacedAre ==
  ASSUME Ssi!MgSsiAssumption, NEW t \in Seq(STRING), NEW named \in [Ssi!Files -> Seq(STRING)],
         NEW r, r = Ssi!Replaced(t, named)
  PROVE  /\ r \in [1 .. Len(t) + 1 -> Seq(STRING)] /\ r[Len(t) + 1] = <<>>
         /\ \A i \in 1 .. Len(t) :
              r[i] = IF IsTag(t, i) THEN InPlace(t, named, i) \o r[TagEnd(t, i) + 1]
                     ELSE <<t[i]>> \o r[i + 1]
<1> DEFINE L == Len(t)
           tag(i) == Ssi!TagAt(t, i) /\ Ssi!EndsOf(t, i) # {}
           end(i) == CHOOSE j \in Ssi!EndsOf(t, i) : \A k \in Ssi!EndsOf(t, i) : j <= k
           put(i) == IF t[i + Len(OpenTag)] \in Ssi!Files THEN named[t[i + Len(OpenTag)]] ELSE <<>>
           val(i, a) == IF i > L THEN <<>>
                        ELSE IF ~ tag(i) THEN <<t[i]>> \o a[i + 1] ELSE put(i) \o a[end(i) + 1]
           G == [i \in 1 .. L + 1 |-> [a \in [1 .. L + 1 -> Seq(STRING)] |-> val(i, a)]]
           A == CHOOSE a : a = [i \in 1 .. L + 1 |->
                  IF i > L THEN <<>>
                  ELSE IF ~ tag(i) THEN <<t[i]>> \o a[i + 1] ELSE put(i) \o a[end(i) + 1]]
<1>0. L \in Nat /\ t \in [1 .. L -> STRING]
  BY LenProperties
<1>1. ASSUME NEW i \in 1 .. L, tag(i) PROVE end(i) \in i .. L /\ end(i) + 1 \in i + 1 .. L + 1
  <2>1. IsTag(t, i) /\ TagEnd(t, i) = end(i)
    BY <1>1 DEF IsTag, TagEnd
  <2>2. end(i) \in i .. L
    BY <2>1, TagIsInText
  <2> HIDE DEF end
  <2> QED
    BY <1>0, <2>2
<1>2. \A i \in 1 .. L : put(i) \in Seq(STRING) /\ t[i] \in STRING /\ <<t[i]>> \in Seq(STRING)
  <2> TAKE i \in 1 .. L
  <2>1. t[i] \in STRING
    BY <1>0
  <2>2. <<t[i]>> \in Seq(STRING)
    BY <2>1
  <2>3. put(i) \in Seq(STRING)
    <3>1. CASE t[i + Len(OpenTag)] \in Ssi!Files
      BY <3>1
    <3>2. CASE t[i + Len(OpenTag)] \notin Ssi!Files
      <4>1. put(i) = <<>>
        BY <3>2
      <4>2. <<>> \in Seq(STRING)
        OBVIOUS
      <4> HIDE DEF put
      <4> QED
        BY <4>1, <4>2
    <3> QED
      BY <3>1, <3>2
  <2> HIDE DEF put
  <2> QED
    BY <2>1, <2>2, <2>3
<1> HIDE DEF put
<1>3. ASSUME NEW i \in 1 .. L + 1, NEW a \in [1 .. L + 1 -> Seq(STRING)] PROVE val(i, a) \in Seq(STRING)
  <2>1. CASE i > L
    <3>1. val(i, a) = <<>> /\ <<>> \in Seq(STRING)
      BY <2>1
    <3> QED
      BY <3>1
  <2>2. CASE ~ (i > L) /\ ~ tag(i)
    <3>1. i \in 1 .. L /\ i + 1 \in 1 .. L + 1
      BY <1>0, <2>2
    <3>2. val(i, a) = <<t[i]>> \o a[i + 1] /\ a[i + 1] \in Seq(STRING)
      BY <2>2, <3>1
    <3> HIDE DEF val
    <3> QED
      BY <1>2, <3>1, <3>2, ConcatProperties
  <2>3. CASE ~ (i > L) /\ tag(i)
    <3>1. i \in 1 .. L
      BY <1>0, <2>3
    <3>2. end(i) + 1 \in 1 .. L + 1
      <4>1. end(i) + 1 \in i + 1 .. L + 1
        BY <1>1, <2>3, <3>1
      <4> HIDE DEF end
      <4> QED
        BY <1>0, <3>1, <4>1
    <3>3. val(i, a) = put(i) \o a[end(i) + 1] /\ a[end(i) + 1] \in Seq(STRING)
      <4> HIDE DEF end, tag
      <4> QED
        BY <2>3, <3>2
    <3> HIDE DEF val, end
    <3> QED
      BY <1>2, <3>1, <3>3, ConcatProperties
  <2> QED
    BY <2>1, <2>2, <2>3
<1>4. PICK f \in [1 .. L + 1 -> Seq(STRING)] : Backward(f, 1, L + 1, G)
  <2>1. G \in [1 .. L + 1 -> [[1 .. L + 1 -> Seq(STRING)] -> Seq(STRING)]]
    <3> HIDE DEF val
    <3> QED
      BY <1>3
  <2>2. ASSUME NEW i \in 1 .. L + 1, NEW g \in [1 .. L + 1 -> Seq(STRING)],
               NEW h \in [1 .. L + 1 -> Seq(STRING)], Agree(g, h, i, L + 1)
        PROVE  G[i][g] = G[i][h]
    <3>1. G[i][g] = val(i, g) /\ G[i][h] = val(i, h)
      <4> HIDE DEF val
      <4> QED
        OBVIOUS
    <3>2. CASE i > L
      BY <3>1, <3>2
    <3>3. CASE ~ (i > L)
      <4>1. i \in 1 .. L /\ i + 1 \in i + 1 .. L + 1
        BY <1>0, <3>3
      <4>2. g[i + 1] = h[i + 1] /\ (tag(i) => g[end(i) + 1] = h[end(i) + 1])
        <5>1. tag(i) => end(i) + 1 \in i + 1 .. L + 1
          BY <1>1, <4>1
        <5> HIDE DEF tag, end
        <5> QED
          BY <2>2, <4>1, <5>1 DEF Agree
      <4> HIDE DEF tag, end
      <4> QED
        BY <3>1, <3>3, <4>2
    <3> QED
      BY <3>2, <3>3
  <2>3. Seq(STRING) # {} /\ 1 \in Nat /\ L + 1 \in Nat /\ 1 <= L + 1
    <3>1. <<>> \in Seq(STRING)
      OBVIOUS
    <3> QED
      BY <1>0, <3>1
  <2> HIDE DEF G, L
  <2> QED
    BY <2>1, <2>2, <2>3, BackwardExists
<1>5. f = [i \in 1 .. L + 1 |->
             IF i > L THEN <<>>
             ELSE IF ~ tag(i) THEN <<t[i]>> \o f[i + 1] ELSE put(i) \o f[end(i) + 1]]
  <2>1. ASSUME NEW i \in 1 .. L + 1 PROVE f[i] = val(i, f)
    <3>1. f[i] = G[i][f]
      <4> HIDE DEF G
      <4> QED
        BY <1>4 DEF Backward
    <3> HIDE DEF val
    <3> QED
      BY <3>1
  <2> HIDE DEF tag, end, L
  <2> QED
    BY <2>1
<1>6. A = [i \in 1 .. L + 1 |->
             IF i > L THEN <<>>
             ELSE IF ~ tag(i) THEN <<t[i]>> \o A[i + 1] ELSE put(i) \o A[end(i) + 1]]
  <2> HIDE DEF tag, end, L
  <2> QED
    BY <1>5
<1>7. Ssi!Replaced(t, named) = A
  BY DEF Ssi!Replaced, put
<1>8. PICK a : a = A
  OBVIOUS
<1>9. a = [i \in 1 .. L + 1 |-> val(i, a)]
  BY <1>6, <1>8
<1>10. DOMAIN a = 1 .. L + 1 /\ \A i \in 1 .. L + 1 : a[i] = val(i, a)
  <2> HIDE DEF val, L
  <2> QED
    BY <1>9
<1>11. a[L + 1] = <<>>
  <2>1. L + 1 > L /\ L + 1 \in 1 .. L + 1
    BY <1>0
  <2>2. a[L + 1] = val(L + 1, a)
    BY <1>10, <2>1
  <2> HIDE DEF tag, end, L
  <2> QED
    BY <2>1, <2>2
<1>12. ASSUME NEW i \in 1 .. L
       PROVE  a[i] = IF IsTag(t, i) THEN InPlace(t, named, i) \o a[TagEnd(t, i) + 1] ELSE <<t[i]>> \o a[i + 1]
  <2>1. i \in 1 .. L + 1 /\ ~ (i > L)
    BY <1>0
  <2>2. a[i] = IF ~ tag(i) THEN <<t[i]>> \o a[i + 1] ELSE put(i) \o a[end(i) + 1]
    <3>1. a[i] = val(i, a)
      BY <1>10, <2>1
    <3> HIDE DEF tag, end, L
    <3> QED
      BY <2>1, <3>1
  <2>3. (IsTag(t, i) <=> tag(i)) /\ TagEnd(t, i) = end(i) /\ InPlace(t, named, i) = put(i)
    BY DEF IsTag, TagEnd, InPlace, put
  <2> HIDE DEF tag, end
  <2> QED
    BY <2>2, <2>3
<1>13. \A i \in 1 .. L + 1 : a[i] \in Seq(STRING)
  <2> DEFINE S == {i \in 1 .. L + 1 : a[i] \in Seq(STRING)}
  <2>1. S \in SUBSET Nat
    BY <1>0
  <2>2. ASSUME NEW i \in 1 .. L + 1, \A j \in i + 1 .. L + 1 : j \in S PROVE i \in S
    <3>1. CASE i = L + 1
      <4>1. a[i] \in Seq(STRING)
        <5>1. <<>> \in Seq(STRING)
          OBVIOUS
        <5> QED
          BY <1>11, <3>1, <5>1
      <4> QED
        BY <4>1
    <3>2. CASE i # L + 1
      <4>1. i \in 1 .. L /\ i + 1 \in i + 1 .. L + 1 /\ ~ (i > L)
        BY <1>0, <3>2
      <4>2. a[i] = IF ~ tag(i) THEN <<t[i]>> \o a[i + 1] ELSE put(i) \o a[end(i) + 1]
        <5>1. a[i] = val(i, a)
          BY <1>10
        <5> HIDE DEF tag, end, L
        <5> QED
          BY <4>1, <5>1
      <4>3. tag(i) => end(i) + 1 \in i + 1 .. L + 1
        BY <1>1, <4>1
      <4>4. a[i + 1] \in Seq(STRING) /\ (tag(i) => a[end(i) + 1] \in Seq(STRING))
        <5> HIDE DEF tag, end, L
        <5> QED
          BY <2>2, <4>1, <4>3
      <4>5. a[i] \in Seq(STRING)
        <5>1. CASE tag(i)
          <6>1. a[i] = put(i) \o a[end(i) + 1]
            <7> HIDE DEF tag, end, L
            <7> QED
              BY <4>2, <5>1
          <6> HIDE DEF tag, end, L
          <6> QED
            BY <1>2, <4>1, <4>4, <5>1, <6>1, ConcatProperties
        <5>2. CASE ~ tag(i)
          <6>1. a[i] = <<t[i]>> \o a[i + 1]
            <7> HIDE DEF tag, end, L
            <7> QED
              BY <4>2, <5>2
          <6> HIDE DEF tag, end, L
          <6> QED
            BY <1>2, <4>1, <4>4, <6>1, ConcatProperties
        <5> QED
          BY <5>1, <5>2
      <4> QED
        BY <4>5
    <3> QED
      BY <3>1, <3>2
  <2>3. 1 \in Nat /\ L + 1 \in Nat
    BY <1>0
  <2> HIDE DEF S, L
  <2>4. \A i \in 1 .. L + 1 : i \in S
    BY <2>1, <2>2, <2>3, EveryBackward
  <2> QED
    BY <2>4 DEF S
<1>14. a \in [1 .. L + 1 -> Seq(STRING)]
  <2>1. a = [i \in 1 .. L + 1 |-> a[i]]
    <3> HIDE DEF val, L
    <3> QED
      BY <1>9
  <2> HIDE DEF L
  <2> QED
    BY <1>13, <2>1
<1> HIDE DEF A, val, tag, end
<1> QED
  BY <1>7, <1>8, <1>11, <1>12, <1>14

\* What the files stand for, from each level down
LEMMA ExpandedAre ==
  ASSUME Ssi!MgSsiAssumption, text \in [Ssi!Files -> Seq(STRING)], NEW e, e = Ssi!Expanded
  PROVE  /\ e \in [0 .. MaxLevel + 1 -> [Ssi!Files -> Seq(STRING)]]
         /\ \A f \in Ssi!Files : e[MaxLevel + 1][f] = <<>>
         /\ \A l \in 0 .. MaxLevel, f \in Ssi!Files : e[l][f] = Ssi!Replaced(text[f], e[l + 1])[1]
<1> DEFINE M == MaxLevel + 1
           V == [Ssi!Files -> Seq(STRING)]
           whole(f, names) == Ssi!Replaced(text[f], names)[1]
           val(l, a) == [f \in Ssi!Files |-> IF l > MaxLevel THEN <<>> ELSE whole(f, a[l + 1])]
           G == [l \in 0 .. M |-> [a \in [0 .. M -> V] |-> val(l, a)]]
           A == CHOOSE a : a = [l \in 0 .. MaxLevel + 1 |->
                  [f \in Ssi!Files |-> IF l > MaxLevel THEN <<>> ELSE Ssi!Replaced(text[f], a[l + 1])[1]]]
<1>0. MaxLevel \in Nat /\ M \in Nat
  BY DEF Ssi!MgSsiAssumption
<1>1. ASSUME NEW f \in Ssi!Files, NEW names \in V PROVE whole(f, names) \in Seq(STRING)
  <2>1. PICK t \in Seq(STRING) : t = text[f]
    OBVIOUS
  <2>2. PICK r : r = Ssi!Replaced(t, names)
    OBVIOUS
  <2>3. r \in [1 .. Len(t) + 1 -> Seq(STRING)]
    BY <2>2, ReplacedAre
  <2>4. 1 \in 1 .. Len(t) + 1
    BY LenProperties
  <2> QED
    BY <2>1, <2>2, <2>3, <2>4
<1> HIDE DEF whole
<1>2. ASSUME NEW l \in 0 .. M, NEW a \in [0 .. M -> V] PROVE val(l, a) \in V
  <2>1. CASE l > MaxLevel
    <3>1. \A f \in Ssi!Files : val(l, a)[f] = <<>>
      BY <2>1
    <3>2. <<>> \in Seq(STRING)
      OBVIOUS
    <3> QED
      BY <2>1, <3>2
  <2>2. CASE ~ (l > MaxLevel)
    <3>1. l + 1 \in 0 .. M
      BY <1>0, <2>2
    <3>2. a[l + 1] \in V
      <4> HIDE DEF V, M
      <4> QED
        BY <3>1
    <3>3. \A f \in Ssi!Files : whole(f, a[l + 1]) \in Seq(STRING)
      <4> HIDE DEF V
      <4> QED
        BY <1>1, <3>2
    <3> QED
      BY <2>2, <3>3
  <2> QED
    BY <2>1, <2>2
<1>3. PICK g \in [0 .. M -> V] : Backward(g, 0, M, G)
  <2>1. G \in [0 .. M -> [[0 .. M -> V] -> V]]
    <3> HIDE DEF val, V, M
    <3> QED
      BY <1>2
  <2>2. ASSUME NEW l \in 0 .. M, NEW a \in [0 .. M -> V], NEW b \in [0 .. M -> V], Agree(a, b, l, M)
        PROVE  G[l][a] = G[l][b]
    <3>1. G[l][a] = val(l, a) /\ G[l][b] = val(l, b)
      <4> HIDE DEF val, V, M
      <4> QED
        OBVIOUS
    <3>2. CASE l > MaxLevel
      BY <3>1, <3>2
    <3>3. CASE ~ (l > MaxLevel)
      <4>1. l + 1 \in l + 1 .. M
        BY <1>0, <3>3
      <4>2. a[l + 1] = b[l + 1]
        BY <2>2, <4>1 DEF Agree
      <4>3. val(l, a) = val(l, b)
        BY <4>2
      <4> QED
        BY <3>1, <4>3
    <3> QED
      BY <3>2, <3>3
  <2>3. V # {} /\ 0 \in Nat /\ M \in Nat /\ 0 <= M
    <3>1. [f \in Ssi!Files |-> <<>>] \in V
      <4>1. <<>> \in Seq(STRING)
        OBVIOUS
      <4> QED
        BY <4>1
    <3> QED
      BY <1>0, <3>1
  <2> HIDE DEF G, V, M
  <2> QED
    BY <2>1, <2>2, <2>3, BackwardExists
<1>4. g = [l \in 0 .. MaxLevel + 1 |->
             [f \in Ssi!Files |-> IF l > MaxLevel THEN <<>> ELSE whole(f, g[l + 1])]]
  <2>1. ASSUME NEW l \in 0 .. M PROVE g[l] = val(l, g)
    <3>1. g[l] = G[l][g]
      <4> HIDE DEF G, M, V
      <4> QED
        BY <1>3 DEF Backward
    <3> HIDE DEF val, V, M
    <3> QED
      BY <3>1
  <2>2. g = [l \in 0 .. M |-> val(l, g)]
    <3> HIDE DEF val, V, M, G
    <3> QED
      BY <1>3, <2>1
  <2> HIDE DEF V, G
  <2> QED
    BY <2>2
<1>5. A = [l \in 0 .. MaxLevel + 1 |->
             [f \in Ssi!Files |-> IF l > MaxLevel THEN <<>> ELSE Ssi!Replaced(text[f], A[l + 1])[1]]]
  <2> HIDE DEF V, G
  <2> QED
    BY <1>4 DEF whole
<1>6. Ssi!Expanded = A
  BY DEF Ssi!Expanded
<1> HIDE DEF A
<1>7. e = [l \in 0 .. M |-> val(l, e)]
  BY <1>5, <1>6 DEF whole
<1>8. DOMAIN e = 0 .. M /\ \A l \in 0 .. M : e[l] = val(l, e)
  <2> HIDE DEF val, M
  <2> QED
    BY <1>7
<1>9. \A l \in 0 .. M : e[l] \in V
  <2> DEFINE S == {l \in 0 .. M : e[l] \in V}
  <2>1. S \in SUBSET Nat
    BY <1>0
  <2>2. ASSUME NEW l \in 0 .. M, \A j \in l + 1 .. M : j \in S PROVE l \in S
    <3>1. e[l] = val(l, e)
      BY <1>8
    <3>2. CASE l > MaxLevel
      <4>1. \A f \in Ssi!Files : e[l][f] = <<>>
        BY <3>1, <3>2
      <4>2. <<>> \in Seq(STRING)
        OBVIOUS
      <4>3. e[l] \in V
        BY <3>1, <3>2, <4>2
      <4> QED
        BY <4>3
    <3>3. CASE ~ (l > MaxLevel)
      <4>1. l + 1 \in l + 1 .. M
        BY <1>0, <3>3
      <4>2. e[l + 1] \in V
        BY <2>2, <4>1
      <4>3. \A f \in Ssi!Files : whole(f, e[l + 1]) \in Seq(STRING)
        <5> HIDE DEF V
        <5> QED
          BY <1>1, <4>2
      <4>4. e[l] \in V
        BY <3>1, <3>3, <4>3
      <4> QED
        BY <4>4
    <3> QED
      BY <3>2, <3>3
  <2> HIDE DEF S
  <2>3. \A l \in 0 .. M : l \in S
    <3> HIDE DEF M, V
    <3> QED
      BY <1>0, <2>1, <2>2, EveryBackward
  <2> QED
    BY <2>3 DEF S
<1>10. e \in [0 .. M -> V]
  <2>1. e = [l \in 0 .. M |-> e[l]]
    <3> HIDE DEF val, M, V
    <3> QED
      BY <1>7
  <2> HIDE DEF M, V
  <2> QED
    BY <1>9, <2>1
<1>11. ASSUME NEW f \in Ssi!Files PROVE e[M][f] = <<>>
  <2>1. M \in 0 .. M /\ M > MaxLevel
    BY <1>0
  <2>2. e[M] = val(M, e)
    <3> HIDE DEF val, M
    <3> QED
      BY <1>8, <2>1
  <2> HIDE DEF M
  <2> QED
    BY <2>1, <2>2
<1>12. ASSUME NEW l \in 0 .. MaxLevel, NEW f \in Ssi!Files
       PROVE  e[l][f] = Ssi!Replaced(text[f], e[l + 1])[1]
  <2>1. l \in 0 .. M /\ ~ (l > MaxLevel)
    BY <1>0
  <2>2. e[l] = val(l, e)
    <3> HIDE DEF val, M
    <3> QED
      BY <1>8, <2>1
  <2> HIDE DEF M
  <2> QED
    BY <2>1, <2>2 DEF whole
<1> QED
  BY <1>10, <1>11, <1>12

\* No tag starts from i on, up to j.
NoTag(t, i, j) == \A k \in i .. j - 1 : ~ IsTag(t, k)

\* Two places of a text, the first not behind the second
Places(t, i, j) == i > 0 /\ i <= j /\ j <= Len(t) + 1
\* What stands for a text has its characters from i on, up to j.
Copied(r, t, i, j) == r[i] = SubSeq(t, i, j - 1) \o r[j]

\* Where no tag starts that ends, the text is copied.
LEMMA NoTagIsCopied ==
  ASSUME Ssi!MgSsiAssumption, NEW t \in Seq(STRING), NEW named \in [Ssi!Files -> Seq(STRING)],
         NEW i \in Nat, NEW j \in Nat, Places(t, i, j), NoTag(t, i, j)
  PROVE  Copied(Ssi!Replaced(t, named), t, i, j)
<1>8. i > 0 /\ i <= j /\ j <= Len(t) + 1
  BY DEF Places
<1>9. PICK r : r = Ssi!Replaced(t, named)
  OBVIOUS
<1>0. PICK L \in Nat : L = Len(t) /\ j <= L + 1
  BY <1>8, LenProperties
<1>1. r \in [1 .. L + 1 -> Seq(STRING)]
  BY <1>0, <1>9, ReplacedAre
<1>2. \A k \in 1 .. L : r[k] = IF IsTag(t, k) THEN InPlace(t, named, k) \o r[TagEnd(t, k) + 1]
                              ELSE <<t[k]>> \o r[k + 1]
  BY <1>0, <1>9, ReplacedAre
<1>3. \A k \in i .. j - 1 : k \in 1 .. L /\ k + 1 \in 1 .. L + 1
  BY <1>0, <1>8
<1>4. \A k \in i .. j - 1 : r[k] = <<t[k]>> \o r[k + 1]
  BY <1>2, <1>3 DEF NoTag
<1> DEFINE S == {k \in i .. j : r[k] = SubSeq(t, k, j - 1) \o r[j]}
<1>5. ASSUME NEW k \in i .. j, \A m \in k + 1 .. j : m \in S PROVE k \in S
  <2>1. r[j] \in Seq(STRING)
    <3>1. j \in 1 .. L + 1
      BY <1>0, <1>8
    <3> QED
      BY <1>1, <3>1
  <2>2. CASE k = j
    <3>1. SubSeq(t, k, j - 1) = <<>>
      BY <2>2, SubSeqEmpty
    <3>2. r[k] = SubSeq(t, k, j - 1) \o r[j]
      BY <2>1, <2>2, <3>1, ConcatEmptySeq
    <3> QED
      BY <3>2
  <2>3. CASE k # j
    <3>1. k \in i .. j - 1 /\ k + 1 \in k + 1 .. j
      BY <2>3
    <3>2. r[k + 1] = SubSeq(t, k + 1, j - 1) \o r[j]
      BY <1>5, <3>1
    <3>3. k \in 1 .. Len(t) /\ j - 1 \in k .. Len(t) /\ t[k] \in STRING
      <4>1. k \in 1 .. L /\ j - 1 \in k .. L
        BY <1>0, <1>8, <3>1
      <4>2. t \in [1 .. L -> STRING]
        BY <1>0, LenProperties
      <4> QED
        BY <1>0, <4>1, <4>2
    <3>4. SubSeq(t, k, j - 1) = <<t[k]>> \o SubSeq(t, k + 1, j - 1)
      BY <3>3, SubSeqRecursiveFirst
    <3>5. SubSeq(t, k + 1, j - 1) \in Seq(STRING) /\ <<t[k]>> \in Seq(STRING)
      <4>1. \A m \in k + 1 .. j - 1 : t[m] \in STRING
        <5>1. \A m \in k + 1 .. j - 1 : m \in 1 .. L
          BY <1>0
        <5>2. t \in [1 .. L -> STRING]
          BY <1>0, LenProperties
        <5> QED
          BY <5>1, <5>2
      <4>2. k + 1 \in Int /\ j - 1 \in Int
        OBVIOUS
      <4>3. SubSeq(t, k + 1, j - 1) \in Seq(STRING)
        BY <4>1, <4>2, SubSeqProperties
      <4>4. <<t[k]>> \in Seq(STRING)
        BY <3>3
      <4> QED
        BY <4>3, <4>4
    <3>6. PICK c \in Seq(STRING), y \in Seq(STRING), z \in Seq(STRING) :
            c = <<t[k]>> /\ y = SubSeq(t, k + 1, j - 1) /\ z = r[j]
      BY <2>1, <3>5
    <3>7. (c \o y) \o z = c \o (y \o z)
      <4>1. Regrouped(c, y, z)
        BY Grouped
      <4> QED
        BY <4>1 DEF Regrouped
    <3>8. r[k] = c \o (y \o z) /\ SubSeq(t, k, j - 1) = c \o y
      BY <1>4, <3>1, <3>2, <3>4, <3>6
    <3>9. r[k] = SubSeq(t, k, j - 1) \o r[j]
      BY <3>6, <3>7, <3>8
    <3> QED
      BY <3>9
  <2> QED
    BY <2>2, <2>3
<1>6. S \in SUBSET Nat
  OBVIOUS
<1>7. i \in S
  <2> HIDE DEF S
  <2>1. \A k \in i .. j : k \in S
    BY <1>5, <1>6, EveryBackward
  <2>2. i \in i .. j
    BY <1>8
  <2> QED
    BY <2>1, <2>2
<1> QED
  BY <1>7, <1>9 DEF Copied

-----------------------------------------------------------------------------
(* A tag in the buffer.                                                    *)

\* The buffer has what stands in the text from s on, which may be a tag.
TagSoFar(t, s, b) ==
  /\ b \in Seq(STRING) /\ Len(b) > 0 /\ s + Len(b) <= Len(t) + 1 /\ t[s] = "<"
  /\ \A k \in 1 .. Len(b) : b[k] = t[s + k - 1] /\ b[k] # ">"
  /\ Len(b) > Len(OpenTag) => Ssi!TagAt(t, s)

\* Texts that have the same characters are the same.
LEMMA SameText ==
  ASSUME NEW x \in Seq(STRING), NEW y \in Seq(STRING), Len(x) = Len(y), \A k \in 1 .. Len(x) : x[k] = y[k]
  PROVE  x = y
<1>1. PICK n \in Nat : n = Len(x) /\ n = Len(y)
  BY LenProperties
<1>2. x \in [1 .. n -> STRING] /\ y \in [1 .. n -> STRING]
  BY <1>1, LenProperties
<1> QED
  BY <1>1, <1>2

\* A tag is at a place where its characters are.
LEMMA TagAtIs ==
  ASSUME Ssi!MgSsiAssumption, NEW t \in Seq(STRING), NEW i \in Nat, i > 0
  PROVE  Ssi!TagAt(t, i) <=>
           i + Len(OpenTag) - 1 <= Len(t) /\ \A k \in 1 .. Len(OpenTag) : t[i + k - 1] = OpenTag[k]
<1>1. PICK o \in Nat, L \in Nat : o = Len(OpenTag) /\ L = Len(t)
  BY LenProperties DEF Ssi!MgSsiAssumption
<1>2. OpenTag \in Seq(STRING)
  BY DEF Ssi!MgSsiAssumption
<1> SUFFICES ASSUME i + o - 1 <= L
             PROVE  SubSeq(t, i, i + o - 1) = OpenTag <=> \A k \in 1 .. o : t[i + k - 1] = OpenTag[k]
  BY <1>1 DEF Ssi!TagAt
<1>3. /\ SubSeq(t, i, i + o - 1) \in Seq(STRING) /\ Len(SubSeq(t, i, i + o - 1)) = o
      /\ \A k \in 1 .. o : SubSeq(t, i, i + o - 1)[k] = t[i + k - 1]
  <2>1. \A k \in i .. i + o - 1 : t[k] \in STRING
    <3>1. t \in [1 .. L -> STRING]
      BY <1>1, LenProperties
    <3> QED
      BY <3>1
  <2>2. PICK m \in Int : m = i + o - 1
    OBVIOUS
  <2>3. /\ SubSeq(t, i, m) \in Seq(STRING) /\ Len(SubSeq(t, i, m)) = IF i <= m THEN m - i + 1 ELSE 0
        /\ \A k \in 1 .. m - i + 1 : SubSeq(t, i, m)[k] = t[i + k - 1]
    BY <2>1, <2>2, SubSeqProperties
  <2>4. m - i + 1 = o /\ (IF i <= m THEN m - i + 1 ELSE 0) = o
    BY <2>2
  <2> QED
    BY <2>2, <2>3, <2>4
<1>4. ASSUME SubSeq(t, i, i + o - 1) = OpenTag, NEW k \in 1 .. o PROVE t[i + k - 1] = OpenTag[k]
  BY <1>3, <1>4
<1>5. ASSUME \A k \in 1 .. o : t[i + k - 1] = OpenTag[k] PROVE SubSeq(t, i, i + o - 1) = OpenTag
  <2>1. PICK x \in Seq(STRING) : x = SubSeq(t, i, i + o - 1) /\ Len(x) = o /\ \A k \in 1 .. o : x[k] = t[i + k - 1]
    BY <1>3
  <2>2. \A k \in 1 .. Len(x) : x[k] = OpenTag[k]
    BY <1>5, <2>1
  <2>3. x = OpenTag
    BY <1>1, <1>2, <2>1, <2>2, SameText
  <2> QED
    BY <2>1, <2>3
<1> QED
  BY <1>4, <1>5

\* The first characters of a tag
LEMMA OpenIs ==
  ASSUME Ssi!MgSsiAssumption
  PROVE  /\ OpenTag \in Seq(STRING) /\ Len(OpenTag) \in Nat /\ Len(OpenTag) > 0 /\ OpenTag[1] = "<"
         /\ \A k \in 1 .. Len(OpenTag) : OpenTag[k] # ">"
<1>1. OpenTag \in Seq(STRING) /\ OpenTag # <<>> /\ Head(OpenTag) = "<"
  BY DEF Ssi!MgSsiAssumption
<1>2. Len(OpenTag) \in Nat /\ Len(OpenTag) > 0 /\ OpenTag[1] = "<"
  BY <1>1, EmptySeq
<1>3. DOMAIN OpenTag = 1 .. Len(OpenTag)
  BY <1>1, LenProperties
<1> QED
  BY <1>1, <1>2, <1>3 DEF Ssi!MgSsiAssumption

\* If what begins with "<" is no tag, there is none in it, up to the character behind it.
LEMMA NoTagInside ==
  ASSUME Ssi!MgSsiAssumption, NEW t \in Seq(STRING), Ssi!Regular(t), NEW s \in Nat, s > 0,
         NEW b, TagSoFar(t, s, b), Len(b) <= Len(OpenTag), ~ Ssi!TagAt(t, s), s + Len(b) <= Len(t)
  PROVE  \A k \in s .. s + Len(b) : ~ IsTag(t, k)
<1>1. PICK n \in Nat, o \in Nat, L \in Nat : n = Len(b) /\ o = Len(OpenTag) /\ L = Len(t) /\ n > 0 /\ o > 0
  BY OpenIs, LenProperties DEF TagSoFar
<1>2. DOMAIN t = 1 .. L
  BY <1>1, LenProperties
<1> SUFFICES ASSUME NEW k \in s .. s + n, Ssi!TagAt(t, k) PROVE FALSE
  BY <1>1 DEF IsTag
<1>3. k > s /\ k \in 1 .. L /\ s \in 1 .. L /\ k <= s + o
  <2>1. k # s
    OBVIOUS
  <2> QED
    BY <1>1, <2>1
<1>4. s + o < k \/ \E m \in s .. k : t[m] = ">"
  <2>1. t[s] = "<"
    BY DEF TagSoFar
  <2> QED
    BY <1>1, <1>2, <1>3, <2>1 DEF Ssi!Regular
<1>5. PICK m \in s .. k : t[m] = ">"
  BY <1>3, <1>4
<1>6. CASE m < s + n
  <2>1. PICK h \in 1 .. n : s + h - 1 = m
    <3>1. m - s + 1 \in 1 .. n /\ s + (m - s + 1) - 1 = m
      BY <1>1, <1>6
    <3> QED
      BY <3>1
  <2>2. b[h] = t[m] /\ b[h] # ">"
    BY <1>1, <2>1 DEF TagSoFar
  <2> QED
    BY <1>5, <2>2
<1>7. CASE ~ (m < s + n)
  <2>1. m = k
    BY <1>1, <1>7
  <2>2. t[k + 1 - 1] = OpenTag[1] /\ k + 1 - 1 = k
    <3>1. k \in Nat /\ k > 0 /\ 1 \in 1 .. o
      BY <1>1, <1>3
    <3>2. \A h \in 1 .. o : t[k + h - 1] = OpenTag[h]
      BY <1>1, <3>1, TagAtIs
    <3> QED
      BY <3>1, <3>2
  <2> QED
    BY <1>5, <2>1, <2>2, OpenIs
<1> QED
  BY <1>6, <1>7

\* What is in the buffer is what stands there.
LEMMA BufferIsText ==
  ASSUME NEW t \in Seq(STRING), NEW s \in Nat, s > 0, NEW b, TagSoFar(t, s, b)
  PROVE  /\ SubSeq(t, s, s + Len(b) - 1) = b
         /\ s + Len(b) <= Len(t) => SubSeq(t, s, s + Len(b)) = Append(b, t[s + Len(b)])
<1>1. b \in Seq(STRING)
  BY DEF TagSoFar
<1>2. PICK n \in Nat, L \in Nat : n = Len(b) /\ L = Len(t) /\ n > 0 /\ s + n <= L + 1
  BY <1>1, LenProperties DEF TagSoFar
<1>3. PICK m \in Nat : m = s + n - 1 /\ s <= m /\ m <= L /\ m - s + 1 = n
  <2>1. s + n - 1 \in Nat /\ s <= s + n - 1 /\ s + n - 1 <= L /\ (s + n - 1) - s + 1 = n
    BY <1>2
  <2> QED
    BY <2>1
<1>4. SubSeq(t, s, m) = b
  <2>1. \A k \in s .. m : t[k] \in STRING
    <3>1. t \in [1 .. L -> STRING]
      BY <1>2, LenProperties
    <3> QED
      BY <1>3, <3>1
  <2>2. /\ SubSeq(t, s, m) \in Seq(STRING) /\ Len(SubSeq(t, s, m)) = IF s <= m THEN m - s + 1 ELSE 0
        /\ \A k \in 1 .. m - s + 1 : SubSeq(t, s, m)[k] = t[s + k - 1]
    BY <2>1, SubSeqProperties
  <2>3. PICK x \in Seq(STRING) : x = SubSeq(t, s, m) /\ Len(x) = n /\ \A k \in 1 .. n : x[k] = t[s + k - 1]
    BY <1>3, <2>2
  <2>4. \A k \in 1 .. n : x[k] = b[k]
    BY <1>2, <2>3 DEF TagSoFar
  <2>5. x = b
    BY <1>1, <1>2, <2>3, <2>4, SameText
  <2> QED
    BY <2>3, <2>5
<1>5. ASSUME s + n <= L PROVE SubSeq(t, s, s + n) = Append(b, t[s + n])
  <2>1. s \in 1 .. Len(t) /\ s + n \in s .. Len(t) /\ (s + n) - 1 = m
    BY <1>2, <1>3, <1>5
  <2>2. SubSeq(t, s, s + n) = SubSeq(t, s, (s + n) - 1) \o <<t[s + n]>>
    BY <2>1, SubSeqRecursiveSecond
  <2>3. t[s + n] \in STRING
    <3>1. t \in [1 .. L -> STRING]
      BY <1>2, LenProperties
    <3>2. s + n \in 1 .. L
      BY <1>2, <1>5
    <3> QED
      BY <3>1, <3>2
  <2>4. Append(b, t[s + n]) = b \o <<t[s + n]>>
    BY <1>1, <2>3, AppendIsConcat
  <2> QED
    BY <1>4, <2>1, <2>2, <2>4
<1> QED
  BY <1>2, <1>3, <1>4, <1>5

\* What is in the buffer is copied with the character behind it.
CopiedOn(r, t, s, b) == r[s] = Append(b, t[s + Len(b)]) \o r[s + Len(b) + 1]

\* What is no tag is copied with the character behind it.
LEMMA NoTagIsText ==
  ASSUME Ssi!MgSsiAssumption, NEW t \in Seq(STRING), Ssi!Regular(t),
         NEW named \in [Ssi!Files -> Seq(STRING)], NEW r, r = Ssi!Replaced(t, named),
         NEW s \in Nat, s > 0, NEW b, TagSoFar(t, s, b), Len(b) <= Len(OpenTag), ~ Ssi!TagAt(t, s),
         s + Len(b) <= Len(t)
  PROVE  CopiedOn(r, t, s, b)
<1>1. PICK n \in Nat, L \in Nat : n = Len(b) /\ L = Len(t)
  BY LenProperties DEF TagSoFar
<1>2. PICK j \in Nat : j = s + n + 1 /\ s <= j /\ j <= Len(t) + 1 /\ j - 1 = s + n
  <2>1. s + n + 1 \in Nat /\ s <= s + n + 1 /\ s + n + 1 <= L + 1 /\ (s + n + 1) - 1 = s + n
    BY <1>1
  <2> QED
    BY <1>1, <2>1
<1>3. \A k \in s .. s + n : ~ IsTag(t, k)
  BY <1>1, NoTagInside
<1>4. NoTag(t, s, j)
  BY <1>2, <1>3 DEF NoTag
<1>5. r[s] = SubSeq(t, s, j - 1) \o r[j]
  <2>1. Places(t, s, j)
    BY <1>2 DEF Places
  <2>2. Copied(Ssi!Replaced(t, named), t, s, j)
    BY <1>4, <2>1, NoTagIsCopied
  <2> QED
    BY <2>2 DEF Copied
<1>6. SubSeq(t, s, s + n) = Append(b, t[s + n])
  BY <1>1, BufferIsText
<1> QED
  BY <1>1, <1>2, <1>5, <1>6 DEF CopiedOn

\* As many characters as OpenTag has, and others: no tag.
LEMMA OtherIsNoTag ==
  ASSUME Ssi!MgSsiAssumption, NEW t \in Seq(STRING), NEW s \in Nat, s > 0, NEW b, TagSoFar(t, s, b),
         Len(b) >= Len(OpenTag)
  PROVE  Ssi!TagAt(t, s) <=> \A k \in 1 .. Len(OpenTag) : b[k] = OpenTag[k]
<1>1. PICK n \in Nat, o \in Nat, L \in Nat : n = Len(b) /\ o = Len(OpenTag) /\ L = Len(t) /\ o <= n
  BY OpenIs, LenProperties DEF TagSoFar
<1>2. s + o - 1 <= L
  <2>1. s + n <= L + 1
    BY <1>1 DEF TagSoFar
  <2> QED
    BY <1>1, <2>1
<1>3. \A k \in 1 .. o : b[k] = t[s + k - 1]
  <2>1. \A k \in 1 .. o : k \in 1 .. n
    BY <1>1
  <2> QED
    BY <1>1, <2>1 DEF TagSoFar
<1> QED
  BY <1>1, <1>2, <1>3, TagAtIs

\* mg_send_ssi, at a character of what may be a tag that is not its end
LEMMA TagMayGoOn ==
  ASSUME Ssi!MgSsiAssumption, NEW t \in Seq(STRING), Ssi!Regular(t), NEW s \in Nat, s > 0,
         NEW b, TagSoFar(t, s, b), s + Len(b) <= Len(t), t[s + Len(b)] # ">",
         ~ (Len(b) = Len(OpenTag) /\ b # OpenTag)
  PROVE  Len(b) # SsiBuf - 2 /\ TagSoFar(t, s, Append(b, t[s + Len(b)]))
<1>1. PICK n \in Nat, o \in Nat, L \in Nat, m \in Nat :
        n = Len(b) /\ o = Len(OpenTag) /\ L = Len(t) /\ m = SsiBuf /\ m > o + 2 /\ o > 0 /\ n > 0
  BY OpenIs, LenProperties DEF TagSoFar, Ssi!MgSsiAssumption
<1>2. b \in Seq(STRING) /\ t \in [1 .. L -> STRING] /\ DOMAIN t = 1 .. L
  BY <1>1, LenProperties DEF TagSoFar
<1>3. s + n \in 1 .. L /\ t[s + n] \in STRING /\ s \in 1 .. L
  <2>1. s + n \in 1 .. L /\ s \in 1 .. L
    BY <1>1
  <2> QED
    BY <1>2, <2>1
<1>4. n >= o => Ssi!TagAt(t, s)
  <2>1. n > o => Ssi!TagAt(t, s)
    BY <1>1 DEF TagSoFar
  <2>2. ASSUME n = o PROVE Ssi!TagAt(t, s)
    <3>1. b = OpenTag
      BY <1>1, <2>2
    <3>2. Len(b) >= Len(OpenTag) /\ \A k \in 1 .. Len(OpenTag) : b[k] = OpenTag[k]
      BY <1>1, <2>2, <3>1
    <3> QED
      BY <3>2, OtherIsNoTag
  <2> QED
    BY <2>1, <2>2
<1>5. n # m - 2
  <2> SUFFICES ASSUME n = m - 2 PROVE FALSE
    OBVIOUS
  <2>1. Ssi!TagAt(t, s)
    BY <1>1, <1>4
  <2>2. s \in {i \in DOMAIN t : Ssi!TagAt(t, i)}
    BY <1>2, <1>3, <2>1
  <2>3. \/ Ssi!EndsOf(t, s) = {} /\ L - s + 1 <= m - 2
        \/ \E j \in Ssi!EndsOf(t, s) : j - s + 1 <= m - 1
    BY <1>1, <2>2 DEF Ssi!Regular
  <2>4. ~ (L - s + 1 <= m - 2)
    BY <1>1
  <2>5. PICK j \in Ssi!EndsOf(t, s) : j - s + 1 <= m - 1
    BY <2>3, <2>4
  <2>6. j \in s .. L /\ t[j] = ">"
    BY <1>1 DEF Ssi!EndsOf
  <2>7. j <= s + n
    BY <2>5, <2>6
  <2>8. CASE j = s + n
    BY <1>1, <2>6, <2>8
  <2>9. CASE j # s + n
    <3>1. PICK h \in 1 .. n : s + h - 1 = j
      <4>1. j - s + 1 \in 1 .. n /\ s + (j - s + 1) - 1 = j
        BY <2>6, <2>7, <2>9
      <4> QED
        BY <4>1
    <3>2. b[h] = t[j] /\ b[h] # ">"
      BY <1>1, <3>1 DEF TagSoFar
    <3> QED
      BY <2>6, <3>2
  <2> QED
    BY <2>8, <2>9
<1>6. PICK a : a = Append(b, t[s + n])
  OBVIOUS
<1>7. a \in Seq(STRING) /\ Len(a) = n + 1 /\ (\A k \in 1 .. n : a[k] = b[k]) /\ a[n + 1] = t[s + n]
  BY <1>1, <1>2, <1>3, <1>6, AppendProperties
<1>8. ASSUME NEW k \in 1 .. n + 1 PROVE a[k] = t[s + k - 1] /\ a[k] # ">"
  <2>1. CASE k = n + 1
    <3>1. s + k - 1 = s + n
      BY <2>1
    <3> QED
      BY <1>1, <1>7, <2>1, <3>1
  <2>2. CASE k # n + 1
    <3>1. k \in 1 .. n
      BY <2>2
    <3> QED
      BY <1>1, <1>7, <3>1 DEF TagSoFar
  <2> QED
    BY <2>1, <2>2
<1>9. n + 1 > o => n >= o
  OBVIOUS
<1>10. s + (n + 1) <= L + 1
  BY <1>1
<1>11. TagSoFar(t, s, a)
  BY <1>1, <1>4, <1>7, <1>8, <1>9, <1>10 DEF TagSoFar
<1> QED
  BY <1>1, <1>5, <1>6, <1>11

\* What the code takes for a tag, when a ">" comes
WithEnd(b) == Append(b, ">")
TakenForTag(w) == ~ (Len(w) < Len(OpenTag) + 1 \/ SubSeq(w, 1, Len(OpenTag)) # OpenTag)
Ended(t, s, b) == s + Len(b) <= Len(t) /\ t[s + Len(b)] = ">"

\* What the code finds to be no tag, when a ">" comes, is none.
LEMMA NotOpened ==
  ASSUME Ssi!MgSsiAssumption, NEW t \in Seq(STRING), NEW s \in Nat, s > 0,
         NEW b, TagSoFar(t, s, b), Ended(t, s, b), NEW a, a = WithEnd(b)
  PROVE  /\ Len(a) = Len(b) + 1 /\ a \in Seq(STRING)
         /\ ~ TakenForTag(a) => Len(b) <= Len(OpenTag) /\ ~ Ssi!TagAt(t, s)
         /\ TakenForTag(a) => Ssi!TagAt(t, s) /\ a[Len(OpenTag) + 1] = t[s + Len(OpenTag)]
<1>0. s + Len(b) <= Len(t) /\ t[s + Len(b)] = ">" /\ a = Append(b, ">")
  BY DEF Ended, WithEnd
<1>1. PICK n \in Nat, o \in Nat, L \in Nat : n = Len(b) /\ o = Len(OpenTag) /\ L = Len(t) /\ o > 0 /\ n > 0
  BY OpenIs, LenProperties DEF TagSoFar
<1>2. b \in Seq(STRING) /\ ">" \in STRING
  <2>1. t \in [1 .. L -> STRING]
    BY <1>1, LenProperties
  <2>2. s + n \in 1 .. L
    <3>1. s + n <= L
      BY <1>0, <1>1
    <3> QED
      BY <1>1, <3>1
  <2>3. t[s + n] \in STRING /\ t[s + n] = ">"
    BY <1>0, <1>1, <2>1, <2>2
  <2> QED
    BY <2>3 DEF TagSoFar
<1>3. a \in Seq(STRING) /\ Len(a) = n + 1 /\ (\A k \in 1 .. n : a[k] = b[k]) /\ a[n + 1] = ">"
  BY <1>0, <1>1, <1>2, AppendProperties
<1>4. \A k \in 1 .. n : b[k] = t[s + k - 1]
  BY <1>1 DEF TagSoFar
<1>5. o <= n => (SubSeq(a, 1, o) = OpenTag <=> Ssi!TagAt(t, s))
  <2> SUFFICES ASSUME o <= n PROVE SubSeq(a, 1, o) = OpenTag <=> Ssi!TagAt(t, s)
    OBVIOUS
  <2>1. Ssi!TagAt(a, 1) <=> \A k \in 1 .. o : a[k] = OpenTag[k]
    <3>1. Ssi!TagAt(a, 1) <=> 1 + o - 1 <= n + 1 /\ \A k \in 1 .. o : a[1 + k - 1] = OpenTag[k]
      <4>1. PICK i \in Nat : i = 1 /\ i > 0
        OBVIOUS
      <4>2. Ssi!TagAt(a, i) <=> i + o - 1 <= Len(a) /\ \A k \in 1 .. o : a[i + k - 1] = OpenTag[k]
        BY <1>1, <1>3, <4>1, TagAtIs
      <4> QED
        BY <1>3, <4>1, <4>2
    <3>2. 1 + o - 1 <= n + 1 /\ \A k \in 1 .. o : 1 + k - 1 = k
      OBVIOUS
    <3> QED
      BY <3>1, <3>2
  <2>2. Ssi!TagAt(a, 1) <=> SubSeq(a, 1, o) = OpenTag
    <3>1. 1 + o - 1 = o /\ o <= n + 1
      OBVIOUS
    <3> QED
      BY <1>1, <1>3, <3>1 DEF Ssi!TagAt
  <2>3. Ssi!TagAt(t, s) <=> \A k \in 1 .. o : b[k] = OpenTag[k]
    BY <1>1, OtherIsNoTag
  <2>4. \A k \in 1 .. o : a[k] = b[k]
    <3>1. \A k \in 1 .. o : k \in 1 .. n
      OBVIOUS
    <3> QED
      BY <1>3, <3>1
  <2>5. (\A k \in 1 .. o : a[k] = OpenTag[k]) <=> (\A k \in 1 .. o : b[k] = OpenTag[k])
    BY <2>4
  <2> QED
    BY <2>1, <2>2, <2>3, <2>5
<1>6. n < o => ~ Ssi!TagAt(t, s)
  <2> SUFFICES ASSUME n < o, Ssi!TagAt(t, s) PROVE FALSE
    OBVIOUS
  <2>1. n + 1 \in 1 .. o /\ s + (n + 1) - 1 = s + n
    OBVIOUS
  <2>2. t[s + (n + 1) - 1] = OpenTag[n + 1]
    BY <1>1, <2>1, TagAtIs
  <2> QED
    BY <1>0, <1>1, <2>1, <2>2, OpenIs
<1>7. n > o => Ssi!TagAt(t, s)
  BY <1>1 DEF TagSoFar
<1>8. ASSUME Len(a) < o + 1 \/ SubSeq(a, 1, o) # OpenTag PROVE n <= o /\ ~ Ssi!TagAt(t, s)
  <2>1. CASE n < o
    BY <1>6, <2>1
  <2>2. CASE ~ (n < o)
    <3>1. o <= n /\ ~ (Len(a) < o + 1)
      BY <1>3, <2>2
    <3>2. ~ Ssi!TagAt(t, s)
      BY <1>5, <1>8, <3>1
    <3> QED
      BY <1>7, <3>2
  <2> QED
    BY <2>1, <2>2
<1>9. ASSUME ~ (Len(a) < o + 1 \/ SubSeq(a, 1, o) # OpenTag) PROVE Ssi!TagAt(t, s) /\ a[o + 1] = t[s + o]
  <2>1. o <= n
    BY <1>3, <1>9
  <2>2. Ssi!TagAt(t, s)
    BY <1>5, <1>9, <2>1
  <2>3. CASE o = n
    BY <1>0, <1>1, <1>3, <2>2, <2>3
  <2>4. CASE o # n
    <3>1. o + 1 \in 1 .. n /\ s + (o + 1) - 1 = s + o
      BY <2>1, <2>4
    <3> QED
      BY <1>3, <1>4, <2>2, <3>1
  <2> QED
    BY <2>2, <2>3, <2>4
<1> QED
  BY <1>1, <1>3, <1>8, <1>9 DEF TakenForTag

\* A tag that ends is replaced.
ReplacedOn(r, t, named, s, b) == r[s] = InPlace(t, named, s) \o r[s + Len(b) + 1]

LEMMA TagIsReplaced ==
  ASSUME Ssi!MgSsiAssumption, NEW t \in Seq(STRING), NEW named \in [Ssi!Files -> Seq(STRING)],
         NEW r, r = Ssi!Replaced(t, named), NEW s \in Nat, s > 0, NEW b, TagSoFar(t, s, b),
         Ended(t, s, b), Ssi!TagAt(t, s)
  PROVE  ReplacedOn(r, t, named, s, b)
<1>0. s + Len(b) <= Len(t) /\ t[s + Len(b)] = ">"
  BY DEF Ended
<1>1. PICK n \in Nat, L \in Nat : n = Len(b) /\ L = Len(t) /\ n > 0
  BY LenProperties DEF TagSoFar
<1>2. s \in 1 .. L /\ s + n \in s .. L
  <2>1. s + n <= L
    BY <1>0, <1>1
  <2> QED
    BY <1>1, <2>1
<1>3. IsTag(t, s)
  <2>1. s + n \in Ssi!EndsOf(t, s)
    BY <1>0, <1>1, <1>2 DEF Ssi!EndsOf
  <2> QED
    BY <2>1 DEF IsTag
<1>4. /\ TagEnd(t, s) \in s .. L /\ t[TagEnd(t, s)] = ">"
      /\ \A k \in s .. L : t[k] = ">" => TagEnd(t, s) <= k
  BY <1>1, <1>2, <1>3, TagIsInText
<1>5. PICK e \in s .. L : e = TagEnd(t, s) /\ t[e] = ">" /\ e <= s + n
  BY <1>0, <1>1, <1>2, <1>4
<1>6. e = s + n
  <2> SUFFICES ASSUME e # s + n PROVE FALSE
    OBVIOUS
  <2>1. e < s + n
    BY <1>5
  <2>2. PICK h \in 1 .. n : s + h - 1 = e
    <3>1. e - s + 1 \in 1 .. n /\ s + (e - s + 1) - 1 = e
      BY <2>1
    <3> QED
      BY <3>1
  <2>3. b[h] = t[e] /\ b[h] # ">"
    BY <1>1, <2>2 DEF TagSoFar
  <2> QED
    BY <1>5, <2>3
<1>7. r[s] = InPlace(t, named, s) \o r[TagEnd(t, s) + 1]
  BY <1>1, <1>2, <1>3, ReplacedAre
<1> QED
  BY <1>1, <1>5, <1>6, <1>7 DEF ReplacedOn

\* What may be a tag is copied, if the file ends in it.
LEMMA OpenTagIsText ==
  ASSUME Ssi!MgSsiAssumption, NEW t \in Seq(STRING), NEW named \in [Ssi!Files -> Seq(STRING)],
         NEW r, r = Ssi!Replaced(t, named), NEW s \in Nat, s > 0, NEW b, TagSoFar(t, s, b),
         s + Len(b) = Len(t) + 1
  PROVE  r[s] = b
<1>1. PICK n \in Nat, L \in Nat : n = Len(b) /\ L = Len(t) /\ n > 0 /\ s + n = L + 1
  BY LenProperties DEF TagSoFar
<1>2. ASSUME NEW k \in s .. L PROVE ~ IsTag(t, k)
  <2> SUFFICES ASSUME IsTag(t, k) PROVE FALSE
    OBVIOUS
  <2>1. k \in 1 .. L
    OBVIOUS
  <2>2. PICK j \in k .. L : t[j] = ">"
    <3>1. TagEnd(t, k) \in k .. L /\ t[TagEnd(t, k)] = ">"
      BY <1>1, <2>1, TagIsInText
    <3> QED
      BY <3>1
  <2>3. PICK h \in 1 .. n : s + h - 1 = j
    <3>1. j - s + 1 \in 1 .. n /\ s + (j - s + 1) - 1 = j
      <4>1. s + n = L + 1
        BY <1>1
      <4> QED
        BY <4>1
    <3> QED
      BY <3>1
  <2>4. b[h] = t[j] /\ b[h] # ">"
    BY <1>1, <2>3 DEF TagSoFar
  <2> QED
    BY <2>2, <2>4
<1>3. PICK j \in Nat : j = L + 1 /\ s <= j /\ j <= Len(t) + 1 /\ j - 1 = L
  <2>1. s <= L + 1 /\ (L + 1) - 1 = L
    BY <1>1
  <2> QED
    BY <1>1, <2>1
<1>4. r[s] = SubSeq(t, s, j - 1) \o r[j]
  <2>1. NoTag(t, s, j)
    BY <1>2, <1>3 DEF NoTag
  <2>2. Places(t, s, j)
    BY <1>3 DEF Places
  <2>3. Copied(Ssi!Replaced(t, named), t, s, j)
    BY <2>1, <2>2, NoTagIsCopied
  <2> QED
    BY <2>3 DEF Copied
<1>5. SubSeq(t, s, L) = b
  <2>1. s + n - 1 = L
    BY <1>1
  <2>2. SubSeq(t, s, s + n - 1) = b
    BY <1>1, BufferIsText
  <2> QED
    BY <2>1, <2>2
<1>6. r[j] = <<>>
  BY <1>1, <1>3, ReplacedAre
<1>7. b \in Seq(STRING)
  BY DEF TagSoFar
<1> QED
  BY <1>3, <1>4, <1>5, <1>6, <1>7, ConcatEmptySeq

-----------------------------------------------------------------------------
(* What is still owed to the client.                                       *)

Frame == [file : Ssi!Files, at : Nat, buf : Seq(STRING), in_ssi_tag : BOOLEAN]

\* A file that is open is regular, and what may be a tag is in the buffer.
Sound(T, F) ==
  /\ F.at > 0 /\ F.at <= Len(T[F.file]) + 1 /\ Ssi!Regular(T[F.file])
  /\ F.in_ssi_tag => Len(F.buf) < F.at /\ TagSoFar(T[F.file], F.at - Len(F.buf), F.buf)
SoundFrames(T) == {F \in Frame : Sound(T, F)}

\* What the buffer and the rest of a file stand for
Owed(T, named, F) ==
  IF F.in_ssi_tag THEN Ssi!Replaced(T[F.file], named)[F.at - Len(F.buf)]
  ELSE F.buf \o Ssi!Replaced(T[F.file], named)[F.at]

Texts2 == [Ssi!Files -> Seq(STRING)]

\* What a file that is open is known to be
LEMMA FrameIs ==
  ASSUME NEW T \in Texts2, NEW F \in SoundFrames(T), NEW named \in Texts2, Ssi!MgSsiAssumption
  PROVE  /\ T[F.file] \in Seq(STRING) /\ F.buf \in Seq(STRING) /\ F.at \in Nat /\ F.at > 0
         /\ F.at <= Len(T[F.file]) + 1 /\ Len(T[F.file]) \in Nat /\ Len(F.buf) \in Nat
         /\ Ssi!Regular(T[F.file]) /\ F.in_ssi_tag \in BOOLEAN /\ F.file \in Ssi!Files
         /\ F.in_ssi_tag => /\ F.at - Len(F.buf) \in Nat /\ F.at - Len(F.buf) > 0
                            /\ F.at - Len(F.buf) <= Len(T[F.file])
                            /\ TagSoFar(T[F.file], F.at - Len(F.buf), F.buf)
         /\ Owed(T, named, F) \in Seq(STRING)
<1>1. F \in Frame /\ Sound(T, F)
  BY DEF SoundFrames
<1>2. F.file \in Ssi!Files /\ F.at \in Nat /\ F.buf \in Seq(STRING) /\ F.in_ssi_tag \in BOOLEAN
  BY <1>1 DEF Frame
<1>3. PICK t \in Seq(STRING) : t = T[F.file]
  BY <1>2 DEF Texts2
<1>4. PICK L \in Nat, n \in Nat, a \in Nat : L = Len(t) /\ n = Len(F.buf) /\ a = F.at
  BY <1>2, LenProperties
<1>5. a > 0 /\ a <= L + 1 /\ Ssi!Regular(t)
  BY <1>1, <1>3, <1>4 DEF Sound
<1>6. ASSUME F.in_ssi_tag PROVE n > 0 /\ n < a /\ TagSoFar(t, a - n, F.buf)
  BY <1>1, <1>3, <1>4, <1>6 DEF Sound, TagSoFar
<1>7. ASSUME F.in_ssi_tag PROVE a - n \in Nat /\ a - n > 0 /\ a - n <= L
  BY <1>5, <1>6, <1>7
<1>8. PICK r : r = Ssi!Replaced(t, named)
  OBVIOUS
<1>9. r \in [1 .. L + 1 -> Seq(STRING)]
  BY <1>4, <1>8, ReplacedAre DEF Texts2
<1>10. Owed(T, named, F) \in Seq(STRING)
  <2>1. CASE F.in_ssi_tag
    <3>1. PICK s \in 1 .. L + 1 : s = a - n
      BY <1>7, <2>1
    <3>2. Owed(T, named, F) = r[s]
      BY <1>3, <1>4, <1>8, <2>1, <3>1 DEF Owed
    <3> QED
      BY <1>9, <3>2
  <2>2. CASE ~ F.in_ssi_tag
    <3>1. a \in 1 .. L + 1
      BY <1>5
    <3>2. r[a] \in Seq(STRING)
      BY <1>9, <3>1
    <3>3. Owed(T, named, F) = F.buf \o r[a]
      BY <1>3, <1>4, <1>8, <2>2 DEF Owed
    <3> QED
      BY <1>2, <3>2, <3>3, ConcatProperties
  <2> QED
    BY <1>2, <2>1, <2>2
<1> QED
  BY <1>2, <1>3, <1>4, <1>5, <1>6, <1>7, <1>10

\* At the end of a file only its buffer is left.
LEMMA EndIsOwed ==
  ASSUME NEW T \in Texts2, NEW F \in SoundFrames(T), NEW named \in Texts2, Ssi!MgSsiAssumption,
         F.at > Len(T[F.file])
  PROVE  Owed(T, named, F) = F.buf
<1>1. PICK t \in Seq(STRING), b \in Seq(STRING), L \in Nat, n \in Nat, a \in Nat :
        t = T[F.file] /\ b = F.buf /\ L = Len(t) /\ n = Len(b) /\ a = F.at
  BY FrameIs
<1>2. a = L + 1
  <2>1. a <= L + 1
    BY <1>1, FrameIs
  <2>2. a > L
    BY <1>1
  <2> QED
    BY <2>1, <2>2
<1>3. PICK r : r = Ssi!Replaced(t, named)
  OBVIOUS
<1>4. CASE F.in_ssi_tag
  <2>1. PICK s \in Nat : s = a - n /\ s > 0 /\ TagSoFar(t, s, b)
    BY <1>1, <1>4, FrameIs
  <2>2. s + Len(b) = Len(t) + 1
    BY <1>1, <1>2, <2>1
  <2>3. r[s] = b
    BY <1>3, <2>1, <2>2, OpenTagIsText DEF Texts2
  <2> QED
    BY <1>1, <1>3, <1>4, <2>1, <2>3 DEF Owed
<1>5. CASE ~ F.in_ssi_tag
  <2>1. r[L + 1] = <<>>
    BY <1>1, <1>3, ReplacedAre DEF Texts2
  <2>2. b \o r[a] = b
    BY <1>2, <2>1, ConcatEmptySeq
  <2> QED
    BY <1>1, <1>3, <1>5, <2>2 DEF Owed
<1> QED
  BY <1>4, <1>5

\* What a frame owes, when p is sent and it becomes G
OwedAfter(T, named, F, p, G) == Owed(T, named, F) = p \o Owed(T, named, G)

\* A frame after a character
AfterTag(F, b) == [[F EXCEPT !.at = @ + 1] EXCEPT !.in_ssi_tag = TRUE, !.buf = b]
AfterText(F, b) == [[F EXCEPT !.at = @ + 1] EXCEPT !.in_ssi_tag = FALSE, !.buf = b]
More(T, F) == ~ (F.at > Len(T[F.file]))
Here(T, F) == T[F.file][F.at]
IsText(T, F) == Here(T, F) # "<"
WithHere(T, F) == Append(F.buf, Here(T, F))

InTag(F, b, G) == G \in Frame /\ G.file = F.file /\ G.at = F.at + 1 /\ G.in_ssi_tag /\ G.buf = b
InText(F, b, G) == G \in Frame /\ G.file = F.file /\ G.at = F.at + 1 /\ ~ G.in_ssi_tag /\ G.buf = b

LEMMA TagGoesOnIn ==
  ASSUME NEW F \in Frame, NEW b \in Seq(STRING), NEW G, G = AfterTag(F, b)
  PROVE  InTag(F, b, G)
<1>1. PICK N : N = [F EXCEPT !.at = F.at + 1]
  OBVIOUS
<1>2. F.at + 1 \in Nat
  BY DEF Frame
<1>3. N \in Frame /\ N.file = F.file /\ N.at = F.at + 1
  BY <1>1, <1>2 DEF Frame
<1>4. G = [N EXCEPT !.in_ssi_tag = TRUE, !.buf = b]
  BY <1>1 DEF AfterTag
<1> QED
  BY <1>3, <1>4 DEF Frame, InTag

LEMMA TextGoesOnIn ==
  ASSUME NEW F \in Frame, NEW b \in Seq(STRING), NEW G, G = AfterText(F, b)
  PROVE  InText(F, b, G)
<1>1. PICK N : N = [F EXCEPT !.at = F.at + 1]
  OBVIOUS
<1>2. F.at + 1 \in Nat
  BY DEF Frame
<1>3. N \in Frame /\ N.file = F.file /\ N.at = F.at + 1
  BY <1>1, <1>2 DEF Frame
<1>4. G = [N EXCEPT !.in_ssi_tag = FALSE, !.buf = b]
  BY <1>1 DEF AfterText
<1> QED
  BY <1>3, <1>4 DEF Frame, InText

\* A text of one character
LEMMA OneCharacter ==
  ASSUME NEW S, NEW x \in S
  PROVE  <<x>> \in Seq(S) /\ Len(<<x>>) = 1 /\ <<x>>[1] = x
  OBVIOUS

\* send_ssi_file, at a "<"
LEMMA TagStartsFine ==
  ASSUME NEW T \in Texts2, NEW F \in SoundFrames(T), NEW named \in Texts2, Ssi!MgSsiAssumption,
         More(T, F), ~ F.in_ssi_tag, Here(T, F) = "<", NEW G, G = AfterTag(F, <<"<">>)
  PROVE  G \in SoundFrames(T) /\ Owed(T, named, F) = F.buf \o Owed(T, named, G)
<1>1. PICK t \in Seq(STRING), b \in Seq(STRING), L \in Nat, a \in Nat :
        t = T[F.file] /\ b = F.buf /\ L = Len(t) /\ a = F.at
  BY FrameIs
<1>2. a > 0 /\ a <= L
  <2>1. a > 0 /\ a <= L + 1
    BY <1>1, FrameIs
  <2>2. ~ (a > L)
    BY <1>1 DEF More
  <2> QED
    BY <2>1, <2>2
<1>0. Ssi!Regular(t)
  BY <1>1, FrameIs
<1>3. PICK c \in Seq(STRING) : c = <<"<">> /\ Len(c) = 1 /\ c[1] = "<"
  <2>1. t \in [1 .. L -> STRING] /\ a \in 1 .. L
    BY <1>1, <1>2, LenProperties
  <2>2. t[a] = "<" /\ t[a] \in STRING
    BY <1>1, <2>1 DEF Here
  <2> QED
    BY <2>2, OneCharacter
<1>4. G \in Frame /\ G.file = F.file /\ G.at = a + 1 /\ G.in_ssi_tag /\ G.buf = c
  <2>1. F \in Frame
    BY DEF SoundFrames
  <2>2. G = AfterTag(F, c)
    BY <1>3
  <2>3. InTag(F, c, G)
    BY <1>3, <2>1, <2>2, TagGoesOnIn
  <2> QED
    BY <1>1, <2>3 DEF InTag
<1>5. (a + 1) - 1 = a /\ a + 1 <= L + 1 /\ 1 < a + 1 /\ a + 1 > 0
  BY <1>2
<1>6. TagSoFar(t, a, c)
  <2>1. \A k \in 1 .. 1 : k = 1 /\ a + k - 1 = a
    OBVIOUS
  <2>2. Len(c) > Len(OpenTag) => Ssi!TagAt(t, a)
    BY <1>3, OpenIs
  <2>3. \A k \in 1 .. Len(c) : c[k] = t[a + k - 1] /\ c[k] # ">"
    <3>1. t[a] = "<"
      BY <1>1 DEF Here
    <3>2. "<" # ">"
      OBVIOUS
    <3> QED
      BY <1>3, <2>1, <3>1, <3>2
  <2>4. t[a] = "<" /\ Len(c) > 0 /\ a + Len(c) <= Len(t) + 1
    <3>1. a + 1 <= L + 1
      BY <1>5
    <3>2. t[a] = "<"
      BY <1>1 DEF Here
    <3> QED
      BY <1>1, <1>3, <3>1, <3>2
  <2> QED
    BY <2>2, <2>3, <2>4 DEF TagSoFar
<1>7. Sound(T, G)
  BY <1>0, <1>1, <1>2, <1>3, <1>4, <1>5, <1>6 DEF Sound
<1>8. PICK r : r = Ssi!Replaced(t, named)
  OBVIOUS
<1>9. Owed(T, named, F) = b \o r[a]
  BY <1>1, <1>8 DEF Owed
<1>10. Owed(T, named, G) = r[a]
  BY <1>1, <1>3, <1>4, <1>5, <1>8 DEF Owed
<1> QED
  BY <1>1, <1>4, <1>7, <1>9, <1>10 DEF SoundFrames

\* send_ssi_file, at another character outside of tags: it is kept, or sent with the buffer.
LEMMA TextGoesOnFine ==
  ASSUME NEW T \in Texts2, NEW F \in SoundFrames(T), NEW named \in Texts2, Ssi!MgSsiAssumption,
         More(T, F), ~ F.in_ssi_tag, IsText(T, F),
         NEW b, b = WithHere(T, F), NEW kept \in Seq(STRING), NEW G, G = AfterText(F, kept)
  PROVE  /\ G \in SoundFrames(T) /\ b \in Seq(STRING)
         /\ kept = b => Owed(T, named, F) = Owed(T, named, G)
         /\ kept = <<>> => OwedAfter(T, named, F, b, G)
<1>1. PICK t \in Seq(STRING), d \in Seq(STRING), L \in Nat, a \in Nat :
        t = T[F.file] /\ d = F.buf /\ L = Len(t) /\ a = F.at
  BY FrameIs
<1>2. a > 0 /\ a <= L
  <2>1. a > 0 /\ a <= L + 1
    BY <1>1, FrameIs
  <2>2. ~ (a > L)
    BY <1>1 DEF More
  <2> QED
    BY <2>1, <2>2
<1>0. Ssi!Regular(t)
  BY <1>1, FrameIs
<1>3. a \in 1 .. L /\ a + 1 \in 1 .. L + 1
  BY <1>2
<1>4. t[a] \in STRING
  <2>1. t \in [1 .. L -> STRING]
    BY <1>1, LenProperties
  <2> QED
    BY <1>3, <2>1
<1>5. PICK c \in Seq(STRING) : c = <<t[a]>>
  BY <1>4, OneCharacter
<1>6. b = d \o c /\ b \in Seq(STRING)
  <2>1. b = Append(d, t[a])
    BY <1>1 DEF Here, WithHere
  <2> QED
    <3>1. b = d \o c
      BY <1>4, <1>5, <2>1, AppendIsConcat
    <3> QED
      BY <3>1, ConcatProperties
<1>8. G \in Frame /\ G.file = F.file /\ G.at = a + 1 /\ ~ G.in_ssi_tag /\ G.buf = kept
  <2>1. F \in Frame
    BY DEF SoundFrames
  <2>2. G = AfterText(F, kept) /\ kept \in Seq(STRING)
    OBVIOUS
  <2>3. InText(F, kept, G)
    BY <2>1, <2>2, TextGoesOnIn
  <2> QED
    BY <1>1, <2>3 DEF InText
<1>9. a + 1 > 0 /\ a + 1 <= L + 1
  BY <1>2
<1>10. Sound(T, G)
  BY <1>0, <1>1, <1>2, <1>8, <1>9 DEF Sound
<1>11. PICK r : r = Ssi!Replaced(t, named)
  OBVIOUS
<1>12. r \in [1 .. L + 1 -> Seq(STRING)]
  BY <1>1, <1>11, ReplacedAre DEF Texts2
<1>13. PICK z \in Seq(STRING) : z = r[a + 1]
  BY <1>3, <1>12
<1>14. r[a] = c \o z
  <2>1. ~ Ssi!TagAt(t, a)
    <3> SUFFICES ASSUME Ssi!TagAt(t, a) PROVE FALSE
      OBVIOUS
    <3>1. a + 1 - 1 = a /\ 1 \in 1 .. Len(OpenTag)
      BY OpenIs
    <3>2. t[a + 1 - 1] = OpenTag[1]
      BY <1>2, <3>1, TagAtIs
    <3> QED
      BY <1>1, <3>1, <3>2, OpenIs DEF Here, IsText
  <2>2. ~ IsTag(t, a)
    BY <2>1 DEF IsTag
  <2>3. \A i \in 1 .. Len(t) : r[i] = IF IsTag(t, i) THEN InPlace(t, named, i) \o r[TagEnd(t, i) + 1]
                                     ELSE <<t[i]>> \o r[i + 1]
    BY <1>11, ReplacedAre DEF Texts2
  <2> QED
    BY <1>1, <1>3, <1>5, <1>13, <2>2, <2>3
<1>15. Owed(T, named, F) = d \o (c \o z)
  BY <1>1, <1>11, <1>14 DEF Owed
<1>16. Owed(T, named, F) = b \o z
  <2>1. (d \o c) \o z = d \o (c \o z)
    <3>1. Regrouped(d, c, z)
      BY Grouped
    <3> QED
      BY <3>1 DEF Regrouped
  <2> QED
    BY <1>6, <1>15, <2>1
<1>17. Owed(T, named, G) = kept \o z
  BY <1>1, <1>8, <1>11, <1>13 DEF Owed
<1>18. <<>> \o z = z
  BY ConcatEmptySeq
<1> QED
  BY <1>6, <1>8, <1>10, <1>16, <1>17, <1>18 DEF SoundFrames, OwedAfter

-----------------------------------------------------------------------------
(* The steps within what may be a tag.                                     *)

\* The tag that may be in the buffer: where it starts, and what comes next
LEMMA TagIsHere ==
  ASSUME NEW T \in Texts2, NEW F \in SoundFrames(T), Ssi!MgSsiAssumption, More(T, F), F.in_ssi_tag
  PROVE  \E t \in Seq(STRING), b \in Seq(STRING), s \in Nat, n \in Nat, L \in Nat, a \in Nat :
           /\ t = T[F.file] /\ b = F.buf /\ n = Len(b) /\ L = Len(t) /\ a = F.at
           /\ s = a - n /\ s > 0 /\ n > 0 /\ s + n = a /\ a <= L /\ TagSoFar(t, s, b) /\ Ssi!Regular(t)
           /\ Here(T, F) = t[s + n] /\ t[s + n] \in STRING
<1>0. [f \in Ssi!Files |-> <<>>] \in Texts2
  <2>1. <<>> \in Seq(STRING)
    OBVIOUS
  <2> QED
    BY <2>1 DEF Texts2
<1>1. PICK t \in Seq(STRING), b \in Seq(STRING), n \in Nat, L \in Nat, a \in Nat :
        t = T[F.file] /\ b = F.buf /\ n = Len(b) /\ L = Len(t) /\ a = F.at
  BY <1>0, FrameIs
<1>2. PICK s \in Nat : s = a - n /\ s > 0 /\ TagSoFar(t, s, b)
  BY <1>0, <1>1, FrameIs
<1>3. s = a - n /\ s > 0
  BY <1>2
<1>4. s + n = a
  BY <1>3
<1>5. a <= L
  BY <1>1 DEF More
<1>6. n > 0
  BY <1>1, <1>2 DEF TagSoFar
<1>7. Ssi!Regular(t)
  BY <1>0, <1>1, FrameIs
<1>8. Here(T, F) = t[s + n]
  BY <1>1, <1>4 DEF Here
<1>9. t[s + n] \in STRING
  <2>1. t \in [1 .. L -> STRING]
    BY <1>1, LenProperties
  <2>2. s + n \in 1 .. L
    BY <1>3, <1>4, <1>5
  <2> QED
    BY <2>1, <2>2
<1> QED
  BY <1>1, <1>2, <1>3, <1>4, <1>5, <1>6, <1>7, <1>8, <1>9

Shut(T, F) == Here(T, F) = ">"
NoTagYet(F) == Len(F.buf) = Len(OpenTag) /\ F.buf # OpenTag

\* send_ssi_file, at a character that ends no tag and shows that there is none
LEMMA NoTagFine ==
  ASSUME NEW T \in Texts2, NEW F \in SoundFrames(T), NEW named \in Texts2, Ssi!MgSsiAssumption,
         More(T, F), F.in_ssi_tag, ~ Shut(T, F), NoTagYet(F), NEW G, G = AfterText(F, WithHere(T, F))
  PROVE  G \in SoundFrames(T) /\ Owed(T, named, F) = Owed(T, named, G)
<1>1. PICK t \in Seq(STRING), b \in Seq(STRING), s \in Nat, n \in Nat, L \in Nat, a \in Nat :
        /\ t = T[F.file] /\ b = F.buf /\ n = Len(b) /\ L = Len(t) /\ a = F.at
        /\ s = a - n /\ s > 0 /\ n > 0 /\ s + n = a /\ a <= L /\ TagSoFar(t, s, b) /\ Ssi!Regular(t)
        /\ Here(T, F) = t[s + n] /\ t[s + n] \in STRING
  BY TagIsHere
<1>2. s > 0 /\ s + n = a /\ a <= L /\ s = a - n
  BY <1>1
<1>3. a + 1 > 0 /\ a + 1 <= L + 1
  BY <1>2
<1>4. PICK w : w = WithHere(T, F)
  OBVIOUS
<1>5. w = Append(b, t[s + n])
  BY <1>1, <1>4 DEF WithHere
<1>6. w \in Seq(STRING)
  BY <1>1, <1>5, AppendProperties
<1>7. G \in Frame /\ G.file = F.file /\ G.at = F.at + 1 /\ ~ G.in_ssi_tag /\ G.buf = w
  <2>1. F \in Frame
    BY DEF SoundFrames
  <2>2. G = AfterText(F, w)
    BY <1>4
  <2>3. InText(F, w, G)
    BY <1>6, <2>1, <2>2, TextGoesOnIn
  <2> QED
    BY <2>3 DEF InText
<1>8. Sound(T, G)
  BY <1>1, <1>3, <1>7 DEF Sound
<1>9. PICK r : r = Ssi!Replaced(t, named)
  OBVIOUS
<1>10. ~ Ssi!TagAt(t, s)
  <2> SUFFICES ASSUME Ssi!TagAt(t, s) PROVE FALSE
    OBVIOUS
  <2>1. Len(b) = Len(OpenTag) /\ b # OpenTag
    BY <1>1 DEF NoTagYet
  <2>2. \A k \in 1 .. Len(b) : b[k] = OpenTag[k]
    <3>1. Len(b) >= Len(OpenTag)
      BY <2>1, OpenIs
    <3>2. \A k \in 1 .. Len(OpenTag) : b[k] = OpenTag[k]
      BY <1>1, <3>1, OtherIsNoTag
    <3> QED
      BY <2>1, <3>2
  <2>3. OpenTag \in Seq(STRING)
    BY OpenIs
  <2> QED
    BY <2>1, <2>2, <2>3, SameText
<1>11. r[s] = Append(b, t[s + n]) \o r[s + n + 1]
  <2>1. Len(b) <= Len(OpenTag)
    BY <1>1, OpenIs DEF NoTagYet
  <2>2. s + Len(b) <= Len(t)
    BY <1>1
  <2>3. CopiedOn(r, t, s, b)
    BY <1>1, <1>9, <1>10, <2>1, <2>2, NoTagIsText DEF Texts2
  <2> QED
    BY <1>1, <2>3 DEF CopiedOn
<1>12. Owed(T, named, F) = r[s]
  BY <1>1, <1>9 DEF Owed
<1>13. Owed(T, named, G) = w \o r[a + 1]
  BY <1>1, <1>7, <1>9 DEF Owed
<1>14. s + n + 1 = a + 1
  BY <1>2
<1> QED
  BY <1>5, <1>7, <1>8, <1>11, <1>12, <1>13, <1>14 DEF SoundFrames

\* send_ssi_file, at a character that may belong to a tag: the buffer has room for it.
LEMMA TagGoesOnFine ==
  ASSUME NEW T \in Texts2, NEW F \in SoundFrames(T), NEW named \in Texts2, Ssi!MgSsiAssumption,
         More(T, F), F.in_ssi_tag, ~ Shut(T, F), ~ NoTagYet(F), NEW G, G = AfterTag(F, WithHere(T, F))
  PROVE  /\ Len(F.buf) # SsiBuf - 2
         /\ G \in SoundFrames(T) /\ Owed(T, named, F) = Owed(T, named, G)
<1>1. PICK t \in Seq(STRING), b \in Seq(STRING), s \in Nat, n \in Nat, L \in Nat, a \in Nat :
        /\ t = T[F.file] /\ b = F.buf /\ n = Len(b) /\ L = Len(t) /\ a = F.at
        /\ s = a - n /\ s > 0 /\ n > 0 /\ s + n = a /\ a <= L /\ TagSoFar(t, s, b) /\ Ssi!Regular(t)
        /\ Here(T, F) = t[s + n] /\ t[s + n] \in STRING
  BY TagIsHere
<1>2. s > 0 /\ s + n = a /\ a <= L /\ s = a - n
  BY <1>1
<1>3. a + 1 > 0 /\ a + 1 <= L + 1 /\ n + 1 < a + 1 /\ (a + 1) - (n + 1) = s
  BY <1>2
<1>4. PICK w : w = WithHere(T, F)
  OBVIOUS
<1>5. w = Append(b, t[s + n])
  BY <1>1, <1>4 DEF WithHere
<1>6. w \in Seq(STRING) /\ Len(w) = n + 1
  BY <1>1, <1>5, AppendProperties
<1>7. Len(b) # SsiBuf - 2 /\ TagSoFar(t, s, w)
  <2>1. t[s + Len(b)] # ">" /\ ~ (Len(b) = Len(OpenTag) /\ b # OpenTag)
    BY <1>1 DEF Shut, NoTagYet
  <2>2. s + Len(b) <= Len(t)
    BY <1>1
  <2>3. Len(b) # SsiBuf - 2 /\ TagSoFar(t, s, Append(b, t[s + Len(b)]))
    BY <1>1, <2>1, <2>2, TagMayGoOn
  <2> QED
    BY <1>1, <1>5, <2>3
<1>8. G \in Frame /\ G.file = F.file /\ G.at = F.at + 1 /\ G.in_ssi_tag /\ G.buf = w
  <2>1. F \in Frame
    BY DEF SoundFrames
  <2>2. G = AfterTag(F, w)
    BY <1>4
  <2>3. InTag(F, w, G)
    BY <1>6, <2>1, <2>2, TagGoesOnIn
  <2> QED
    BY <2>3 DEF InTag
<1>9. Sound(T, G)
  BY <1>1, <1>3, <1>6, <1>7, <1>8 DEF Sound
<1>10. PICK r : r = Ssi!Replaced(t, named)
  OBVIOUS
<1>11. Owed(T, named, F) = r[s]
  BY <1>1, <1>10 DEF Owed
<1>12. Owed(T, named, G) = r[s]
  BY <1>1, <1>3, <1>6, <1>8, <1>10 DEF Owed
<1> QED
  BY <1>1, <1>7, <1>8, <1>9, <1>11, <1>12 DEF SoundFrames

\* send_ssi_file, at a ">": what the code then takes for a tag
Named(F) == TakenForTag(WithEnd(F.buf))
Command(F) == WithEnd(F.buf)[Len(OpenTag) + 1]

\* What a frame owes, when its tag is replaced and it becomes G
NamedAfter(T, named, F, G) ==
  Owed(T, named, F) = (IF Command(F) \in Ssi!Files THEN named[Command(F)] ELSE <<>>) \o Owed(T, named, G)

\* What the tag names is what stands there; other text is sent.
LEMMA TagEndsFine ==
  ASSUME NEW T \in Texts2, NEW F \in SoundFrames(T), NEW named \in Texts2, Ssi!MgSsiAssumption,
         More(T, F), F.in_ssi_tag, Shut(T, F), NEW G, G = AfterText(F, <<>>), NEW w, w = WithEnd(F.buf)
  PROVE  /\ G \in SoundFrames(T) /\ w \in Seq(STRING)
         /\ ~ Named(F) => OwedAfter(T, named, F, w, G)
         /\ Named(F) => Ssi!TagAt(T[F.file], F.at - Len(F.buf)) /\ NamedAfter(T, named, F, G)
<1>1. PICK t \in Seq(STRING), b \in Seq(STRING), s \in Nat, n \in Nat, L \in Nat, a \in Nat :
        /\ t = T[F.file] /\ b = F.buf /\ n = Len(b) /\ L = Len(t) /\ a = F.at
        /\ s = a - n /\ s > 0 /\ n > 0 /\ s + n = a /\ a <= L /\ TagSoFar(t, s, b) /\ Ssi!Regular(t)
        /\ Here(T, F) = t[s + n] /\ t[s + n] \in STRING
  BY TagIsHere
<1>2. s > 0 /\ s + n = a /\ a <= L /\ s = a - n
  BY <1>1
<1>3. a + 1 > 0 /\ a + 1 <= L + 1 /\ s + n + 1 = a + 1 /\ a + 1 \in 1 .. L + 1
  BY <1>2
<1>4. PICK e \in Seq(STRING) : e = <<>>
  <2>1. <<>> \in Seq(STRING)
    OBVIOUS
  <2> QED
    BY <2>1
<1>5. G \in Frame /\ G.file = F.file /\ G.at = F.at + 1 /\ ~ G.in_ssi_tag /\ G.buf = e
  <2>1. F \in Frame
    BY DEF SoundFrames
  <2>2. G = AfterText(F, e)
    BY <1>4
  <2>3. InText(F, e, G)
    BY <1>4, <2>1, <2>2, TextGoesOnIn
  <2> QED
    BY <2>3 DEF InText
<1>6. Sound(T, G)
  BY <1>1, <1>3, <1>5 DEF Sound
<1>7. PICK r : r = Ssi!Replaced(t, named)
  OBVIOUS
<1>8. r \in [1 .. L + 1 -> Seq(STRING)]
  BY <1>1, <1>7, ReplacedAre DEF Texts2
<1>9. PICK z \in Seq(STRING) : z = r[a + 1]
  BY <1>3, <1>8
<1>10. Owed(T, named, G) = z
  <2>1. Owed(T, named, G) = e \o z
    BY <1>1, <1>5, <1>7, <1>9 DEF Owed
  <2>2. e \o z = z
    BY <1>4, ConcatEmptySeq
  <2> QED
    BY <2>1, <2>2
<1>11. Owed(T, named, F) = r[s]
  BY <1>1, <1>7 DEF Owed
<1>12. Ended(t, s, b)
  BY <1>1 DEF Ended, Shut
<1>13. w = WithEnd(b)
  BY <1>1
<1>14. /\ Len(w) = Len(b) + 1 /\ w \in Seq(STRING)
       /\ ~ TakenForTag(w) => Len(b) <= Len(OpenTag) /\ ~ Ssi!TagAt(t, s)
       /\ TakenForTag(w) => Ssi!TagAt(t, s) /\ w[Len(OpenTag) + 1] = t[s + Len(OpenTag)]
  <2>1. Len(w) = Len(b) + 1
    BY <1>1, <1>12, <1>13, NotOpened
  <2>2. w \in Seq(STRING)
    BY <1>1, <1>12, <1>13, NotOpened
  <2>3. ~ TakenForTag(w) => Len(b) <= Len(OpenTag) /\ ~ Ssi!TagAt(t, s)
    BY <1>1, <1>12, <1>13, NotOpened
  <2>4. TakenForTag(w) => Ssi!TagAt(t, s) /\ w[Len(OpenTag) + 1] = t[s + Len(OpenTag)]
    BY <1>1, <1>12, <1>13, NotOpened
  <2> QED
    BY <2>1, <2>2, <2>3, <2>4
<1>15. Named(F) <=> TakenForTag(w)
  BY DEF Named
<1>16. ASSUME ~ Named(F) PROVE Owed(T, named, F) = w \o Owed(T, named, G)
  <2>1. Len(b) <= Len(OpenTag) /\ ~ Ssi!TagAt(t, s)
    BY <1>14, <1>15, <1>16
  <2>2. CopiedOn(r, t, s, b)
    <3>1. s + Len(b) <= Len(t)
      BY <1>1
    <3> QED
      BY <1>1, <1>7, <2>1, <3>1, NoTagIsText DEF Texts2
  <2>3. w = Append(b, t[s + n])
    BY <1>1, <1>12, <1>13 DEF Ended, WithEnd
  <2> QED
    BY <1>1, <1>3, <1>9, <1>10, <1>11, <2>2, <2>3 DEF CopiedOn
<1>17. ASSUME Named(F)
       PROVE  /\ Ssi!TagAt(t, s)
              /\ Owed(T, named, F) =
                   (IF Command(F) \in Ssi!Files THEN named[Command(F)] ELSE <<>>) \o Owed(T, named, G)
  <2>1. Ssi!TagAt(t, s) /\ w[Len(OpenTag) + 1] = t[s + Len(OpenTag)]
    BY <1>14, <1>15, <1>17
  <2>2. ReplacedOn(r, t, named, s, b)
    BY <1>1, <1>7, <1>12, <2>1, TagIsReplaced DEF Texts2
  <2>3. InPlace(t, named, s) = IF Command(F) \in Ssi!Files THEN named[Command(F)] ELSE <<>>
    <3>1. Command(F) = t[s + Len(OpenTag)]
      BY <2>1 DEF Command
    <3> QED
      BY <3>1 DEF InPlace
  <2>4. r[s + Len(b) + 1] = z
    BY <1>1, <1>3, <1>9
  <2> QED
    BY <1>10, <1>11, <2>1, <2>2, <2>3, <2>4 DEF ReplacedOn
<1>18. F.at - Len(F.buf) = s
  BY <1>1
<1> QED
  BY <1>1, <1>5, <1>6, <1>14, <1>16, <1>17, <1>18 DEF SoundFrames, OwedAfter, NamedAfter

-----------------------------------------------------------------------------
(* What all files that are open owe.                                       *)

Levels == [0 .. MaxLevel + 1 -> Texts2]

\* The deepest file comes first, and what the file that calls it still has comes behind it.
OwesSo(R, T, e, st, d) ==
  /\ R[0] = <<>> /\ R[Len(st)] = d
  /\ \A i \in 1 .. Len(st) : R[i] = Owed(T, e[i], st[i]) \o R[i - 1]
Owes(T, e, st, d) == \E R \in [0 .. Len(st) -> Seq(STRING)] : OwesSo(R, T, e, st, d)

\* What is owed to the client
SentSoFar(T, e, st, sn, whole) ==
  /\ sn \in Seq(STRING) /\ st \in Seq(SoundFrames(T)) /\ Len(st) <= MaxLevel + 1
  /\ \E d \in Seq(STRING) : Owes(T, e, st, d) /\ whole = sn \o d

LEMMA OwesNothing ==
  ASSUME NEW T, NEW e, NEW st, Len(st) = 0, NEW d, Owes(T, e, st, d)
  PROVE  d = <<>>
  BY DEF Owes, OwesSo

\* What the deepest file owes comes first.
TopFirst(T, e, st, n, f, d) ==
  \E c \in Seq(STRING) : Owes(T, e, f, c) /\ d = Owed(T, e[n + 1], st[n + 1]) \o c

LEMMA OwesTop ==
  ASSUME NEW T, NEW e, NEW S, NEW st \in Seq(S), NEW n \in Nat, n + 1 = Len(st), NEW d \in Seq(STRING),
         Owes(T, e, st, d), NEW f, f = SubSeq(st, 1, n)
  PROVE  /\ f \in Seq(S) /\ Len(f) = n /\ \A i \in 1 .. n : f[i] = st[i]
         /\ TopFirst(T, e, st, n, f, d)
<1>1. f \in Seq(S) /\ Len(f) = n /\ \A i \in 1 .. n : f[i] = st[i]
  <2>1. \A i \in 1 .. n : st[i] \in S
    <3>1. \A i \in 1 .. n : i \in 1 .. n + 1
      OBVIOUS
    <3> QED
      BY <3>1, ElementOfSeq
  <2>2. PICK o \in Nat : o = 1 /\ n - o + 1 = n /\ (o <= n \/ n = 0)
    OBVIOUS
  <2>3. /\ SubSeq(st, o, n) \in Seq(S) /\ Len(SubSeq(st, o, n)) = (IF o <= n THEN n - o + 1 ELSE 0)
        /\ \A i \in 1 .. n - o + 1 : SubSeq(st, o, n)[i] = st[o + i - 1]
    BY <2>1, <2>2, SubSeqProperties
  <2>4. (IF o <= n THEN n - o + 1 ELSE 0) = n /\ \A i \in 1 .. n : o + i - 1 = i
    BY <2>2
  <2> QED
    BY <2>2, <2>3, <2>4
<1>2. PICK R \in [0 .. n + 1 -> Seq(STRING)] : OwesSo(R, T, e, st, d)
  BY DEF Owes
<1>3. /\ R[0] = <<>> /\ R[n + 1] = d
      /\ \A i \in 1 .. n + 1 : R[i] = Owed(T, e[i], st[i]) \o R[i - 1]
  BY <1>2 DEF OwesSo
<1>4. PICK Q : Q = [i \in 0 .. n |-> R[i]]
  OBVIOUS
<1>5. Q \in [0 .. n -> Seq(STRING)] /\ \A i \in 0 .. n : Q[i] = R[i]
  <2>1. \A i \in 0 .. n : i \in 0 .. n + 1
    OBVIOUS
  <2> QED
    BY <1>2, <1>4, <2>1
<1>6. OwesSo(Q, T, e, f, Q[n])
  <2>1. ASSUME NEW i \in 1 .. n PROVE Q[i] = Owed(T, e[i], f[i]) \o Q[i - 1]
    <3>1. i \in 0 .. n /\ i - 1 \in 0 .. n /\ i \in 1 .. n + 1
      OBVIOUS
    <3> QED
      BY <1>1, <1>3, <1>5, <3>1
  <2>2. 0 \in 0 .. n
    OBVIOUS
  <2> QED
    BY <1>1, <1>3, <1>5, <2>1, <2>2 DEF OwesSo
<1>7. n \in 0 .. n /\ n + 1 \in 1 .. n + 1 /\ (n + 1) - 1 = n
  OBVIOUS
<1>8. PICK c \in Seq(STRING) : c = Q[n]
  BY <1>5, <1>7
<1>9. d = Owed(T, e[n + 1], st[n + 1]) \o c
  BY <1>3, <1>5, <1>7, <1>8
<1>10. Owes(T, e, f, c)
  BY <1>1, <1>5, <1>6, <1>8 DEF Owes
<1> QED
  BY <1>1, <1>9, <1>10 DEF TopFirst

\* A file that is opened owes what it stands for.
LEMMA OwesMore ==
  ASSUME NEW T, NEW e, NEW S, NEW st \in Seq(S), NEW n \in Nat, n = Len(st), NEW c \in Seq(STRING),
         Owes(T, e, st, c), NEW F \in S, NEW x \in Seq(STRING), x = Owed(T, e[n + 1], F),
         NEW g, g = Append(st, F)
  PROVE  Owes(T, e, g, x \o c)
<1>1. Len(g) = n + 1 /\ (\A i \in 1 .. n : g[i] = st[i]) /\ g[n + 1] = F
  BY AppendProperties
<1>2. PICK R \in [0 .. n -> Seq(STRING)] : OwesSo(R, T, e, st, c)
  BY DEF Owes
<1>3. R[0] = <<>> /\ R[n] = c /\ \A i \in 1 .. n : R[i] = Owed(T, e[i], st[i]) \o R[i - 1]
  BY <1>2 DEF OwesSo
<1>4. PICK y \in Seq(STRING) : y = x \o c
  BY ConcatProperties
<1>5. PICK Q : Q = [i \in 0 .. n + 1 |-> IF i = n + 1 THEN y ELSE R[i]]
  OBVIOUS
<1>6. Q[n + 1] = y /\ \A i \in 0 .. n : Q[i] = R[i]
  <2>1. n + 1 \in 0 .. n + 1 /\ \A i \in 0 .. n : i \in 0 .. n + 1 /\ i # n + 1
    OBVIOUS
  <2> QED
    BY <1>5, <2>1
<1>7. Q \in [0 .. n + 1 -> Seq(STRING)]
  <2>1. \A i \in 0 .. n + 1 : i = n + 1 \/ i \in 0 .. n
    OBVIOUS
  <2>2. \A i \in 0 .. n + 1 : (IF i = n + 1 THEN y ELSE R[i]) \in Seq(STRING)
    BY <1>2, <2>1
  <2> QED
    BY <1>5, <2>2
<1>8. ASSUME NEW i \in 1 .. n + 1 PROVE Q[i] = Owed(T, e[i], g[i]) \o Q[i - 1]
  <2>1. CASE i = n + 1
    <3>1. i - 1 = n /\ n \in 0 .. n
      BY <2>1
    <3>2. Q[i - 1] = c
      BY <1>3, <1>6, <3>1
    <3> QED
      BY <1>1, <1>4, <1>6, <2>1, <3>2
  <2>2. CASE i # n + 1
    <3>1. i \in 1 .. n /\ i \in 0 .. n /\ i - 1 \in 0 .. n
      BY <2>2
    <3> QED
      BY <1>1, <1>3, <1>6, <3>1
  <2> QED
    BY <2>1, <2>2
<1>9. Q[0] = <<>>
  <2>1. 0 \in 0 .. n
    OBVIOUS
  <2> QED
    BY <1>3, <1>6, <2>1
<1>10. OwesSo(Q, T, e, g, y)
  BY <1>1, <1>6, <1>8, <1>9 DEF OwesSo
<1>11. Owes(T, e, g, y)
  BY <1>1, <1>7, <1>10 DEF Owes
<1> QED
  BY <1>4, <1>11

\* What is behind the deepest file
Going(st) == st # <<>>
InTwo(T, e, st, sn, whole) ==
  \E n \in Nat, f \in Seq(SoundFrames(T)), c \in Seq(STRING), x \in Seq(STRING) :
    /\ n + 1 = Len(st) /\ n <= MaxLevel /\ e[n + 1] \in Texts2 /\ st[n + 1] \in SoundFrames(T)
    /\ f = SubSeq(st, 1, n) /\ Len(f) = n /\ \A i \in 1 .. n : f[i] = st[i]
    /\ Owes(T, e, f, c) /\ x = Owed(T, e[n + 1], st[n + 1]) /\ whole = sn \o (x \o c)

LEMMA SentIs ==
  ASSUME Ssi!MgSsiAssumption, NEW T \in Texts2, NEW e \in Levels, NEW st, NEW sn, NEW whole,
         SentSoFar(T, e, st, sn, whole), Going(st)
  PROVE  InTwo(T, e, st, sn, whole)
<1>1. /\ sn \in Seq(STRING) /\ st \in Seq(SoundFrames(T)) /\ Len(st) <= MaxLevel + 1
  BY DEF SentSoFar
<1>2. PICK d \in Seq(STRING) : Owes(T, e, st, d) /\ whole = sn \o d
  BY DEF SentSoFar
<1>3. PICK n \in Nat : n + 1 = Len(st) /\ n <= MaxLevel
  <2>1. Len(st) \in Nat /\ Len(st) # 0
    BY <1>1, EmptySeq DEF Going
  <2>2. PICK k \in Nat : k = Len(st) /\ k # 0 /\ k <= MaxLevel + 1
    BY <1>1, <2>1
  <2>3. MaxLevel \in Nat
    BY DEF Ssi!MgSsiAssumption
  <2>4. k - 1 \in Nat /\ (k - 1) + 1 = k /\ k - 1 <= MaxLevel
    BY <2>2, <2>3
  <2> QED
    BY <2>2, <2>4
<1>4. PICK f : f = SubSeq(st, 1, n)
  OBVIOUS
<1>5. f \in Seq(SoundFrames(T)) /\ Len(f) = n /\ \A i \in 1 .. n : f[i] = st[i]
  BY <1>1, <1>2, <1>3, <1>4, OwesTop
<1>6. TopFirst(T, e, st, n, f, d)
  BY <1>1, <1>2, <1>3, <1>4, OwesTop
<1>7. PICK c \in Seq(STRING) : Owes(T, e, f, c) /\ d = Owed(T, e[n + 1], st[n + 1]) \o c
  BY <1>6 DEF TopFirst
<1>8. e[n + 1] \in Texts2
  <2>1. n + 1 \in 0 .. MaxLevel + 1
    <3>1. MaxLevel \in Nat
      BY DEF Ssi!MgSsiAssumption
    <3> QED
      BY <1>3, <3>1
  <2> QED
    BY <2>1 DEF Levels
<1>9. st[n + 1] \in SoundFrames(T)
  <2>1. n + 1 \in 1 .. Len(st)
    BY <1>3
  <2> QED
    BY <1>1, <2>1, ElementOfSeq
<1>10. Owed(T, e[n + 1], st[n + 1]) \in Seq(STRING)
  BY <1>8, <1>9, FrameIs
<1>11. PICK x \in Seq(STRING) : x = Owed(T, e[n + 1], st[n + 1])
  BY <1>10
<1> QED
  BY <1>2, <1>3, <1>4, <1>5, <1>7, <1>8, <1>9, <1>11 DEF InTwo

\* The deepest file is the last of the stack.
SentOn(T, e, st, p, G) == Owed(T, e[Len(st)], st[Len(st)]) = p \o Owed(T, e[Len(st)], G)
TopIs(st, G) == [st EXCEPT ![Len(st)] = G]

LEMMA TopIsAppended ==
  ASSUME NEW S, NEW st \in Seq(S), NEW n \in Nat, n + 1 = Len(st), NEW f \in Seq(S), Len(f) = n,
         \A i \in 1 .. n : f[i] = st[i], NEW G \in S
  PROVE  TopIs(st, G) = Append(f, G)
<1>1. PICK h : h = Append(f, G)
  OBVIOUS
<1>2. h \in Seq(S) /\ Len(h) = n + 1 /\ (\A i \in 1 .. n : h[i] = f[i]) /\ h[n + 1] = G
  BY <1>1, AppendProperties
<1>3. n + 1 \in 1 .. Len(st)
  OBVIOUS
<1>4. PICK g : g = [st EXCEPT ![n + 1] = G]
  OBVIOUS
<1>5. g \in Seq(S)
  BY <1>3, <1>4, ExceptSeq
<1>6. Len(g) = n + 1
  BY <1>3, <1>4, ExceptSeq
<1>7. \A i \in 1 .. n + 1 : g[i] = IF i = n + 1 THEN G ELSE st[i]
  BY <1>3, <1>4, ExceptSeq
<1>8. ASSUME NEW i \in 1 .. Len(g) PROVE g[i] = h[i]
  <2>1. CASE i = n + 1
    BY <1>2, <1>6, <1>7, <2>1
  <2>2. CASE i # n + 1
    <3>1. i \in 1 .. n
      BY <1>6, <2>2
    <3> QED
      BY <1>2, <1>6, <1>7, <2>2, <3>1
  <2> QED
    BY <2>1, <2>2
<1>9. g = h
  BY <1>2, <1>5, <1>6, <1>8, SeqEqual
<1> QED
  BY <1>1, <1>4, <1>9 DEF TopIs

\* The deepest file is sent on.
LEMMA TopMoves ==
  ASSUME Ssi!MgSsiAssumption, NEW T \in Texts2, NEW e \in Levels, NEW st, NEW sn, NEW whole,
         SentSoFar(T, e, st, sn, whole), Going(st),
         NEW G \in SoundFrames(T), NEW p \in Seq(STRING),
         SentOn(T, e, st, p, G), NEW g, g = TopIs(st, G)
  PROVE  SentSoFar(T, e, g, sn \o p, whole)
<1>1. PICK n \in Nat, f \in Seq(SoundFrames(T)), c \in Seq(STRING), x \in Seq(STRING) :
        /\ n + 1 = Len(st) /\ n <= MaxLevel /\ e[n + 1] \in Texts2 /\ st[n + 1] \in SoundFrames(T)
        /\ f = SubSeq(st, 1, n) /\ Len(f) = n /\ \A i \in 1 .. n : f[i] = st[i]
        /\ Owes(T, e, f, c) /\ x = Owed(T, e[n + 1], st[n + 1]) /\ whole = sn \o (x \o c)
  <2>1. InTwo(T, e, st, sn, whole)
    BY SentIs
  <2> QED
    BY <2>1 DEF InTwo
<1>2. PICK h : h = Append(f, G)
  OBVIOUS
<1>3. h \in Seq(SoundFrames(T)) /\ Len(h) = n + 1 /\ (\A i \in 1 .. n : h[i] = f[i]) /\ h[n + 1] = G
  BY <1>1, <1>2, AppendProperties
<1>4. st \in Seq(SoundFrames(T)) /\ sn \in Seq(STRING)
  BY DEF SentSoFar
<1>5. g = h
  BY <1>1, <1>2, <1>4, TopIsAppended
<1>6. PICK y \in Seq(STRING) : y = Owed(T, e[n + 1], G)
  BY <1>1, FrameIs
<1>7. x = p \o y
  BY <1>1, <1>6 DEF SentOn
<1>8. Owes(T, e, h, y \o c)
  BY <1>1, <1>2, <1>6, OwesMore
<1>9. PICK q \in Seq(STRING) : q = y \o c
  BY Joined
<1>10. x \o c = p \o q
  <2>1. Regrouped(p, y, c)
    BY Grouped
  <2> QED
    BY <1>7, <1>9, <2>1 DEF Regrouped
<1>11. whole = (sn \o p) \o q
  <2>1. sn \in Seq(STRING)
    BY <1>4
  <2>2. Regrouped(sn, p, q)
    BY <2>1, Grouped
  <2> QED
    BY <1>1, <1>10, <2>2 DEF Regrouped
<1>12. sn \o p \in Seq(STRING)
  BY <1>4, Joined
<1>13. n + 1 <= MaxLevel + 1
  <2>1. MaxLevel \in Nat /\ n <= MaxLevel
    BY <1>1 DEF Ssi!MgSsiAssumption
  <2> QED
    BY <2>1
<1> QED
  BY <1>3, <1>5, <1>8, <1>9, <1>11, <1>12, <1>13 DEF SentSoFar

\* The deepest file ends.
Popped(st) == SubSeq(st, 1, Len(st) - 1)

LEMMA TopEnds ==
  ASSUME Ssi!MgSsiAssumption, NEW T \in Texts2, NEW e \in Levels, NEW st, NEW sn, NEW whole,
         SentSoFar(T, e, st, sn, whole), Going(st),
         NEW p \in Seq(STRING), p = Owed(T, e[Len(st)], st[Len(st)])
  PROVE  SentSoFar(T, e, Popped(st), sn \o p, whole)
<1>1. PICK n \in Nat, f \in Seq(SoundFrames(T)), c \in Seq(STRING), x \in Seq(STRING) :
        /\ n + 1 = Len(st) /\ n <= MaxLevel /\ e[n + 1] \in Texts2 /\ st[n + 1] \in SoundFrames(T)
        /\ f = SubSeq(st, 1, n) /\ Len(f) = n /\ \A i \in 1 .. n : f[i] = st[i]
        /\ Owes(T, e, f, c) /\ x = Owed(T, e[n + 1], st[n + 1]) /\ whole = sn \o (x \o c)
  <2>1. InTwo(T, e, st, sn, whole)
    BY SentIs
  <2> QED
    BY <2>1 DEF InTwo
<1>2. sn \in Seq(STRING)
  BY DEF SentSoFar
<1>3. x = p
  BY <1>1
<1>4. Popped(st) = f
  <2>1. Len(st) - 1 = n
    BY <1>1
  <2> QED
    BY <1>1, <2>1 DEF Popped
<1>5. whole = (sn \o p) \o c
  <2>1. Regrouped(sn, p, c)
    BY <1>2, Grouped
  <2> QED
    BY <1>1, <1>3, <2>1 DEF Regrouped
<1>6. sn \o p \in Seq(STRING)
  BY <1>2, Joined
<1>7. n <= MaxLevel + 1
  <2>1. MaxLevel \in Nat /\ n <= MaxLevel
    BY <1>1 DEF Ssi!MgSsiAssumption
  <2> QED
    BY <2>1
<1> QED
  BY <1>1, <1>4, <1>5, <1>6, <1>7 DEF SentSoFar

\* The deepest file calls another, C, for which it owes what C stands for.
CalledOn(T, e, st, C, G) ==
  Owed(T, e[Len(st)], st[Len(st)]) = Owed(T, e[Len(st) + 1], C) \o Owed(T, e[Len(st)], G)

LEMMA TopCalls ==
  ASSUME Ssi!MgSsiAssumption, NEW T \in Texts2, NEW e \in Levels, NEW st, NEW sn, NEW whole,
         SentSoFar(T, e, st, sn, whole), Going(st), Len(st) <= MaxLevel,
         NEW G \in SoundFrames(T), NEW C \in SoundFrames(T), CalledOn(T, e, st, C, G)
  PROVE  SentSoFar(T, e, Append(TopIs(st, G), C), sn, whole)
<1>1. PICK n \in Nat, f \in Seq(SoundFrames(T)), c \in Seq(STRING), x \in Seq(STRING) :
        /\ n + 1 = Len(st) /\ n <= MaxLevel /\ e[n + 1] \in Texts2 /\ st[n + 1] \in SoundFrames(T)
        /\ f = SubSeq(st, 1, n) /\ Len(f) = n /\ \A i \in 1 .. n : f[i] = st[i]
        /\ Owes(T, e, f, c) /\ x = Owed(T, e[n + 1], st[n + 1]) /\ whole = sn \o (x \o c)
  <2>1. InTwo(T, e, st, sn, whole)
    BY SentIs
  <2> QED
    BY <2>1 DEF InTwo
<1>2. st \in Seq(SoundFrames(T)) /\ sn \in Seq(STRING)
  BY DEF SentSoFar
<1>3. PICK h : h = Append(f, G)
  OBVIOUS
<1>4. h \in Seq(SoundFrames(T)) /\ Len(h) = n + 1
  BY <1>1, <1>3, AppendProperties
<1>5. TopIs(st, G) = h
  BY <1>1, <1>2, <1>3, TopIsAppended
<1>6. PICK g : g = Append(h, C)
  OBVIOUS
<1>7. g \in Seq(SoundFrames(T)) /\ Len(g) = (n + 1) + 1
  BY <1>4, <1>6, AppendProperties
<1>8. e[(n + 1) + 1] \in Texts2
  <2>1. (n + 1) + 1 \in 0 .. MaxLevel + 1
    <3>1. MaxLevel \in Nat /\ n + 1 <= MaxLevel
      BY <1>1 DEF Ssi!MgSsiAssumption
    <3> QED
      BY <3>1
  <2> QED
    BY <2>1 DEF Levels
<1>9. PICK y \in Seq(STRING) : y = Owed(T, e[n + 1], G)
  BY <1>1, FrameIs
<1>10. PICK z \in Seq(STRING) : z = Owed(T, e[(n + 1) + 1], C)
  BY <1>8, FrameIs
<1>11. x = z \o y
  BY <1>1, <1>9, <1>10 DEF CalledOn
<1>12. PICK q \in Seq(STRING) : q = y \o c
  BY Joined
<1>13. Owes(T, e, h, q)
  BY <1>1, <1>3, <1>9, <1>12, OwesMore
<1>14. PICK m \in Nat : m = n + 1
  OBVIOUS
<1>15. Owes(T, e, g, z \o q)
  BY <1>4, <1>6, <1>10, <1>13, <1>14, OwesMore
<1>16. PICK d \in Seq(STRING) : d = z \o q
  BY Joined
<1>17. x \o c = d
  <2>1. Regrouped(z, y, c)
    BY Grouped
  <2> QED
    BY <1>11, <1>12, <1>16, <2>1 DEF Regrouped
<1>18. whole = sn \o d
  BY <1>1, <1>17
<1>19. Len(g) <= MaxLevel + 1
  <2>1. MaxLevel \in Nat /\ n + 1 <= MaxLevel
    BY <1>1 DEF Ssi!MgSsiAssumption
  <2>2. (n + 1) + 1 <= MaxLevel + 1
    BY <2>1
  <2> QED
    BY <1>7, <2>2
<1> QED
  BY <1>2, <1>5, <1>6, <1>7, <1>15, <1>16, <1>18, <1>19 DEF SentSoFar

-----------------------------------------------------------------------------
(* Server-side includes: the invariant.                                    *)

\* The texts of which the code promises something
SsiPlain(T) == \A i \in DOMAIN T["0"] : ~ Ssi!TagAt(T["0"], i)
SsiFine(T) == (\A f \in Ssi!Files : Ssi!Regular(T[f])) \/ SsiPlain(T)

SsiInv ==
  /\ text \in Texts2
  /\ SsiFine(text) => SentSoFar(text, Ssi!Expanded, stack, sent, Ssi!Expanded[0]["0"])

LEMMA PlainIsRegular ==
  ASSUME NEW T, SsiFine(T) PROVE Ssi!Regular(T["0"])
  BY DEF SsiFine, SsiPlain, Ssi!Regular, Ssi!Files

\* A file that is called owes what it stands for.
LEMMA CalledIs ==
  ASSUME Ssi!MgSsiAssumption, NEW T \in Texts2, NEW f \in Ssi!Files, Ssi!Regular(T[f]), NEW named \in Texts2,
         NEW C, C = Ssi!Called(f)
  PROVE  C \in SoundFrames(T) /\ Owed(T, named, C) = Ssi!Replaced(T[f], named)[1]
<1>1. PICK e \in Seq(STRING) : e = <<>>
  <2>1. <<>> \in Seq(STRING)
    OBVIOUS
  <2> QED
    BY <2>1
<1>2. C = [file |-> f, at |-> 1, buf |-> e, in_ssi_tag |-> FALSE]
  BY <1>1 DEF Ssi!Called
<1>3. C \in Frame /\ C.file = f /\ C.at = 1 /\ C.buf = e /\ ~ C.in_ssi_tag
  BY <1>2 DEF Frame
<1>4. PICK t \in Seq(STRING) : t = T[f]
  BY DEF Texts2
<1>5. PICK L \in Nat : L = Len(t)
  BY LenProperties
<1>6. 1 > 0 /\ 1 <= L + 1 /\ 1 \in 1 .. L + 1
  OBVIOUS
<1>7. Sound(T, C)
  BY <1>3, <1>4, <1>5, <1>6 DEF Sound
<1>8. PICK r : r = Ssi!Replaced(t, named)
  OBVIOUS
<1>9. r \in [1 .. L + 1 -> Seq(STRING)]
  BY <1>5, <1>8, ReplacedAre DEF Texts2
<1>10. PICK z \in Seq(STRING) : z = r[1]
  BY <1>6, <1>9
<1>11. Owed(T, named, C) = e \o z
  BY <1>3, <1>4, <1>8, <1>10 DEF Owed
<1>12. e \o z = z
  BY <1>1, ConcatEmptySeq
<1> QED
  BY <1>3, <1>4, <1>7, <1>8, <1>10, <1>11, <1>12 DEF SoundFrames

LEMMA SsiInitHolds ==
  ASSUME Ssi!MgSsiAssumption, Ssi!Init PROVE SsiInv
<1>1. text \in Texts2
  <2>1. PICK a \in Texts, o \in Included : text = [f \in Ssi!Files |-> IF f = "0" THEN a ELSE o]
    BY DEF Ssi!Init
  <2>2. a \in Seq(STRING) /\ o \in Seq(STRING)
    BY DEF Ssi!MgSsiAssumption
  <2> QED
    BY <2>1, <2>2 DEF Texts2
<1>2. PICK T \in Texts2 : T = text
  BY <1>1
<1>3. PICK e : e = Ssi!Expanded
  OBVIOUS
<1>4. MaxLevel \in Nat
  BY DEF Ssi!MgSsiAssumption
<1>5. e \in Levels
  BY <1>1, <1>3, ExpandedAre DEF Levels, Texts2
<1>6. \A l \in 0 .. MaxLevel, f \in Ssi!Files : e[l][f] = Ssi!Replaced(text[f], e[l + 1])[1]
  BY <1>1, <1>3, ExpandedAre DEF Texts2
<1>7. PICK C : C = Ssi!Called("0")
  OBVIOUS
<1>8. stack = <<C>> /\ sent = <<>>
  BY <1>7 DEF Ssi!Init
<1>9. "0" \in Ssi!Files
  BY DEF Ssi!Files
<1>10. SUFFICES ASSUME SsiFine(T) PROVE SentSoFar(T, e, <<C>>, <<>>, e[0]["0"])
  BY <1>1, <1>2, <1>3, <1>8 DEF SsiInv
<1>11. e[1] \in Texts2 /\ e[0]["0"] = Ssi!Replaced(T["0"], e[1])[1]
  <2>1. 0 \in 0 .. MaxLevel /\ 0 + 1 \in 0 .. MaxLevel + 1 /\ 0 + 1 = 1
    BY <1>4
  <2>2. e[1] \in Texts2
    BY <1>5, <2>1 DEF Levels
  <2> QED
    BY <1>2, <1>6, <1>9, <2>1, <2>2
<1>12. C \in SoundFrames(T)
  BY <1>7, <1>9, <1>10, <1>11, PlainIsRegular, CalledIs
<1>13. Owed(T, e[1], C) = e[0]["0"]
  <2>1. Owed(T, e[1], C) = Ssi!Replaced(T["0"], e[1])[1]
    BY <1>7, <1>9, <1>10, <1>11, PlainIsRegular, CalledIs
  <2> QED
    BY <1>11, <2>1
<1>14. PICK x \in Seq(STRING) : x = Owed(T, e[1], C)
  BY <1>11, <1>12, FrameIs
<1>15. PICK z \in Seq(STRING) : z = <<>>
  <2>1. <<>> \in Seq(STRING)
    OBVIOUS
  <2> QED
    BY <2>1
<1>16. PICK st \in Seq(SoundFrames(T)) : st = <<>> /\ Len(st) = 0
  <2>1. <<>> \in Seq(SoundFrames(T)) /\ Len(<<>>) = 0
    OBVIOUS
  <2> QED
    BY <2>1
<1>17. Owes(T, e, st, z)
  <2>1. PICK R : R = [i \in 0 .. 0 |-> z]
    OBVIOUS
  <2>2. R \in [0 .. 0 -> Seq(STRING)] /\ R[0] = z
    <3>1. 0 \in 0 .. 0
      OBVIOUS
    <3> QED
      BY <2>1, <3>1
  <2>3. OwesSo(R, T, e, st, z)
    <3>1. \A i \in 1 .. 0 : FALSE
      OBVIOUS
    <3> QED
      BY <1>15, <1>16, <2>2, <3>1 DEF OwesSo
  <2> QED
    BY <1>16, <2>2, <2>3 DEF Owes
<1>18. PICK g : g = Append(st, C)
  OBVIOUS
<1>19. g \in Seq(SoundFrames(T)) /\ Len(g) = 1 /\ g[1] = C
  BY <1>12, <1>16, <1>18, AppendProperties
<1>20. Owes(T, e, g, x \o z)
  <2>1. PICK n \in Nat : n = 0 /\ n + 1 = 1
    OBVIOUS
  <2> QED
    BY <1>12, <1>14, <1>16, <1>17, <1>18, <2>1, OwesMore
<1>21. x \o z = x
  BY <1>15, ConcatEmptySeq
<1>22. z \o x = x
  BY <1>15, ConcatEmptySeq
<1>23. g = <<C>>
  BY <1>16, <1>18
<1>24. Len(g) <= MaxLevel + 1
  BY <1>4, <1>19
<1>25. SentSoFar(T, e, g, z, x)
  BY <1>15, <1>19, <1>20, <1>21, <1>22, <1>24 DEF SentSoFar
<1> QED
  BY <1>13, <1>14, <1>15, <1>23, <1>25

LEMMA SsiIsRight ==
  ASSUME Ssi!MgSsiAssumption, SsiInv PROVE Ssi!TagsAreReplaced /\ Ssi!PlainIsCopied
<1>1. PICK T \in Texts2 : T = text
  BY DEF SsiInv
<1>2. PICK e : e = Ssi!Expanded
  OBVIOUS
<1>3. MaxLevel \in Nat
  BY DEF Ssi!MgSsiAssumption
<1>4. e \in Levels
  BY <1>1, <1>2, ExpandedAre DEF Levels, Texts2
<1>5. \A l \in 0 .. MaxLevel, f \in Ssi!Files : e[l][f] = Ssi!Replaced(text[f], e[l + 1])[1]
  BY <1>1, <1>2, ExpandedAre DEF Texts2
<1>6. ASSUME SsiFine(T)
      PROVE  /\ Ssi!IsPrefix(sent, e[0]["0"])
             /\ stack = <<>> => sent = e[0]["0"]
  <2>1. SentSoFar(T, e, stack, sent, e[0]["0"])
    BY <1>1, <1>2, <1>6 DEF SsiInv
  <2>2. PICK s \in Seq(STRING), d \in Seq(STRING) : s = sent /\ Owes(T, e, stack, d) /\ e[0]["0"] = s \o d
    BY <2>1 DEF SentSoFar
  <2>3. PICK w \in Seq(STRING) : w = s \o d
    BY Joined
  <2>4. Ssi!IsPrefix(s, w)
    <3>1. Len(w) = Len(s) + Len(d) /\ \A i \in 1 .. Len(s) : w[i] = s[i]
      BY <2>3, ConcatProperties
    <3>2. PICK m \in Nat, n \in Nat : m = Len(s) /\ n = Len(d) /\ Len(w) = m + n
      BY <3>1, LenProperties
    <3>3. m <= m + n
      BY <3>2
    <3>4. SubSeq(s, 1, m) = SubSeq(w, 1, m)
      <4>1. \A i \in 1 .. m : s[i] \in STRING /\ w[i] \in STRING
        <5>1. s \in [1 .. m -> STRING]
          BY <3>2, LenProperties
        <5> QED
          BY <3>1, <3>2, <5>1
      <4>2. PICK o \in Nat : o = 1 /\ m - o + 1 = m
        OBVIOUS
      <4>3. /\ SubSeq(s, o, m) \in Seq(STRING) /\ Len(SubSeq(s, o, m)) = (IF o <= m THEN m - o + 1 ELSE 0)
            /\ \A i \in 1 .. m - o + 1 : SubSeq(s, o, m)[i] = s[o + i - 1]
        BY <4>1, <4>2, SubSeqProperties
      <4>4. /\ SubSeq(w, o, m) \in Seq(STRING) /\ Len(SubSeq(w, o, m)) = (IF o <= m THEN m - o + 1 ELSE 0)
            /\ \A i \in 1 .. m - o + 1 : SubSeq(w, o, m)[i] = w[o + i - 1]
        BY <4>1, <4>2, SubSeqProperties
      <4>5. PICK x \in Seq(STRING), y \in Seq(STRING) : x = SubSeq(s, o, m) /\ y = SubSeq(w, o, m)
        BY <4>3, <4>4
      <4>6. PICK k \in Nat : k = (IF o <= m THEN m - o + 1 ELSE 0) /\ k <= m
        BY <4>2
      <4>7. Len(x) = k /\ Len(y) = k
        BY <4>3, <4>4, <4>5, <4>6
      <4>8. ASSUME NEW i \in 1 .. k PROVE x[i] = y[i]
        <5>1. i \in 1 .. m /\ o + i - 1 = i /\ i \in 1 .. m - o + 1
          BY <4>2, <4>6
        <5>2. x[i] = s[i] /\ y[i] = w[i]
          BY <4>3, <4>4, <4>5, <5>1
        <5> QED
          BY <3>1, <3>2, <5>1, <5>2
      <4>9. x = y
        BY <4>7, <4>8, SameText
      <4> QED
        BY <4>2, <4>5, <4>9
    <3> QED
      BY <3>2, <3>3, <3>4 DEF Ssi!IsPrefix
  <2>5. ASSUME stack = <<>> PROVE s = w
    <3>1. Len(stack) = 0
      BY <2>5
    <3>2. d = <<>>
      BY <2>2, <3>1, OwesNothing
    <3> QED
      BY <2>3, <3>2, ConcatEmptySeq
  <2> QED
    BY <2>2, <2>3, <2>4, <2>5
<1>7. ASSUME SsiPlain(T) PROVE e[0]["0"] = T["0"]
  <2>1. PICK t \in Seq(STRING) : t = T["0"]
    BY DEF Texts2, Ssi!Files
  <2>2. PICK L \in Nat : L = Len(t)
    BY LenProperties
  <2>3. e[1] \in Texts2 /\ e[0]["0"] = Ssi!Replaced(t, e[1])[1]
    <3>1. 0 \in 0 .. MaxLevel /\ 0 + 1 \in 0 .. MaxLevel + 1 /\ 0 + 1 = 1 /\ "0" \in Ssi!Files
      BY <1>3 DEF Ssi!Files
    <3>2. e[1] \in Texts2
      BY <1>4, <3>1 DEF Levels
    <3> QED
      BY <1>1, <1>5, <2>1, <3>1, <3>2
  <2>4. PICK named \in Texts2 : named = e[1]
    BY <2>3
  <2>5. PICK o \in Nat, j \in Nat : o = 1 /\ j = L + 1 /\ j - 1 = L /\ o > 0 /\ o <= j /\ j <= L + 1
    OBVIOUS
  <2>6. Places(t, o, j)
    BY <2>2, <2>5 DEF Places
  <2>7. NoTag(t, o, j)
    <3>1. DOMAIN t = 1 .. L
      BY <2>2, LenProperties
    <3>2. \A k \in o .. j - 1 : k \in DOMAIN t
      BY <2>5, <3>1
    <3> QED
      BY <1>7, <2>1, <3>2 DEF NoTag, IsTag, SsiPlain
  <2>8. Copied(Ssi!Replaced(t, named), t, o, j)
    BY <2>6, <2>7, NoTagIsCopied DEF Texts2
  <2>9. PICK r : r = Ssi!Replaced(t, named)
    OBVIOUS
  <2>10. r[L + 1] = <<>>
    BY <2>2, <2>9, ReplacedAre DEF Texts2
  <2>11. r[1] = SubSeq(t, 1, L) \o <<>>
    BY <2>5, <2>8, <2>9, <2>10 DEF Copied
  <2>12. SubSeq(t, 1, L) = t
    BY <2>2, SubSeqFull
  <2>13. t \o <<>> = t
    BY ConcatEmptySeq
  <2> QED
    BY <2>1, <2>3, <2>4, <2>9, <2>11, <2>12, <2>13
<1>8. Ssi!TagsAreReplaced
  BY <1>1, <1>2, <1>6 DEF SsiFine, Ssi!TagsAreReplaced
<1>9. Ssi!PlainIsCopied
  <2> SUFFICES ASSUME stack = <<>>, \A i \in DOMAIN text["0"] : ~ Ssi!TagAt(text["0"], i)
               PROVE  sent = text["0"]
    BY DEF Ssi!PlainIsCopied
  <2>1. SsiPlain(T)
    BY <1>1 DEF SsiPlain
  <2>2. SsiFine(T)
    BY <2>1 DEF SsiFine
  <2> QED
    BY <1>1, <1>6, <1>7, <2>1, <2>2
<1> QED
  BY <1>8, <1>9

-----------------------------------------------------------------------------
(* Server-side includes: every step keeps the invariant.                   *)

\* A step of the deepest file
Step1(T, e, w) == SentSoFar(T, e, stack', sent', w)

\* What a step starts from
LEMMA SsiStarts ==
  ASSUME Ssi!MgSsiAssumption, NEW T \in Texts2, NEW e \in Levels, NEW w,
         SentSoFar(T, e, stack, sent, w), stack # <<>>, T = text
  PROVE  /\ Going(stack) /\ Ssi!Top \in SoundFrames(T) /\ Ssi!Top = stack[Len(stack)]
         /\ Len(stack) \in 1 .. MaxLevel + 1 /\ e[Len(stack)] \in Texts2 /\ sent \in Seq(STRING)
         /\ Ssi!AtEnd <=> ~ More(T, Ssi!Top)
         /\ Ssi!Char = Here(T, Ssi!Top)
<1>1. Going(stack)
  BY DEF Going
<1>2. InTwo(T, e, stack, sent, w)
  BY <1>1, SentIs
<1>3. PICK n \in Nat : /\ n + 1 = Len(stack) /\ n <= MaxLevel /\ e[n + 1] \in Texts2
                       /\ stack[n + 1] \in SoundFrames(T)
  BY <1>2 DEF InTwo
<1>4. Ssi!Top = stack[Len(stack)]
  BY DEF Ssi!Top
<1>5. n + 1 \in 1 .. MaxLevel + 1
  <2>1. MaxLevel \in Nat
    BY DEF Ssi!MgSsiAssumption
  <2> QED
    BY <1>3, <2>1
<1>6. sent \in Seq(STRING)
  BY DEF SentSoFar
<1>7. Ssi!AtEnd <=> ~ More(T, Ssi!Top)
  BY DEF Ssi!AtEnd, More
<1>8. Ssi!Char = Here(T, Ssi!Top)
  BY DEF Ssi!Char, Here
<1> QED
  BY <1>1, <1>3, <1>4, <1>5, <1>6, <1>7, <1>8

\* Nothing is sent.
LEMMA NothingSent ==
  ASSUME NEW sn \in Seq(STRING), NEW z, z = <<>>
  PROVE  z \in Seq(STRING) /\ sn \o z = sn
<1>1. <<>> \in Seq(STRING)
  OBVIOUS
<1>2. sn \o <<>> = sn
  BY ConcatEmptySeq
<1> QED
  BY <1>1, <1>2

\* The deepest file changes, and p is sent.
LEMMA SsiMoves ==
  ASSUME Ssi!MgSsiAssumption, NEW T \in Texts2, NEW e \in Levels, NEW w,
         SentSoFar(T, e, stack, sent, w), Going(stack), NEW F, F = stack[Len(stack)],
         NEW named, named = e[Len(stack)], NEW G \in SoundFrames(T), NEW p \in Seq(STRING),
         Owed(T, named, F) = p \o Owed(T, named, G), stack' = TopIs(stack, G), sent' = sent \o p
  PROVE  Step1(T, e, w)
<1>1. SentOn(T, e, stack, p, G)
  BY DEF SentOn
<1>2. SentSoFar(T, e, TopIs(stack, G), sent \o p, w)
  BY <1>1, TopMoves
<1> QED
  BY <1>2 DEF Step1

\* The deepest file changes, and nothing is sent.
LEMMA SsiWaits ==
  ASSUME Ssi!MgSsiAssumption, NEW T \in Texts2, NEW e \in Levels, NEW w,
         SentSoFar(T, e, stack, sent, w), Going(stack), NEW F, F = stack[Len(stack)],
         NEW named \in Texts2, named = e[Len(stack)], NEW G \in SoundFrames(T),
         Owed(T, named, F) = Owed(T, named, G), stack' = TopIs(stack, G), sent' = sent
  PROVE  Step1(T, e, w)
<1>1. PICK z \in Seq(STRING) : z = <<>>
  <2>1. <<>> \in Seq(STRING)
    OBVIOUS
  <2> QED
    BY <2>1
<1>2. PICK y \in Seq(STRING) : y = Owed(T, named, G)
  BY FrameIs
<1>3. z \o y = y
  BY <1>1, ConcatEmptySeq
<1>4. sent \in Seq(STRING)
  BY DEF SentSoFar
<1>5. sent \o z = sent
  BY <1>1, <1>4, NothingSent
<1>6. SentOn(T, e, stack, z, G)
  BY <1>2, <1>3 DEF SentOn
<1>7. SentSoFar(T, e, TopIs(stack, G), sent \o z, w)
  BY <1>6, TopMoves
<1> QED
  BY <1>5, <1>7 DEF Step1

LEMMA FileEndsKeeps ==
  ASSUME Ssi!MgSsiAssumption, NEW T \in Texts2, NEW e \in Levels, NEW w,
         SentSoFar(T, e, stack, sent, w), stack # <<>>, T = text, Ssi!AtEnd, Ssi!FileEnds
  PROVE  Step1(T, e, w)
<1>1. /\ Going(stack) /\ Ssi!Top \in SoundFrames(T) /\ Ssi!Top = stack[Len(stack)]
      /\ e[Len(stack)] \in Texts2 /\ ~ More(T, Ssi!Top)
  BY SsiStarts
<1>2. PICK F \in SoundFrames(T) : F = Ssi!Top /\ F = stack[Len(stack)]
  BY <1>1
<1>3. PICK named \in Texts2 : named = e[Len(stack)]
  BY <1>1
<1>4. F.at > Len(T[F.file])
  BY <1>1, <1>2 DEF More
<1>5. Owed(T, named, F) = F.buf
  BY <1>4, EndIsOwed
<1>6. PICK p \in Seq(STRING) : p = F.buf
  BY <1>3, FrameIs
<1>7. SentSoFar(T, e, Popped(stack), sent \o p, w)
  BY <1>1, <1>2, <1>3, <1>5, <1>6, TopEnds
<1>8. sent' = sent \o p /\ stack' = Popped(stack)
  BY <1>2, <1>6 DEF Ssi!FileEnds, Popped
<1> QED
  BY <1>7, <1>8 DEF Step1

LEMMA TagStartsKeeps ==
  ASSUME Ssi!MgSsiAssumption, NEW T \in Texts2, NEW e \in Levels, NEW w,
         SentSoFar(T, e, stack, sent, w), stack # <<>>, T = text, ~ Ssi!AtEnd, Ssi!TagStarts
  PROVE  Step1(T, e, w)
<1>1. /\ Going(stack) /\ Ssi!Top \in SoundFrames(T) /\ Ssi!Top = stack[Len(stack)]
      /\ e[Len(stack)] \in Texts2 /\ More(T, Ssi!Top) /\ Ssi!Char = Here(T, Ssi!Top)
  BY SsiStarts
<1>2. PICK F \in SoundFrames(T) : F = Ssi!Top /\ F = stack[Len(stack)]
  BY <1>1
<1>3. PICK named \in Texts2 : named = e[Len(stack)]
  BY <1>1
<1>4. PICK G : G = AfterTag(F, <<"<">>)
  OBVIOUS
<1>5. ~ F.in_ssi_tag /\ Here(T, F) = "<" /\ More(T, F)
  BY <1>1, <1>2 DEF Ssi!TagStarts
<1>6. G \in SoundFrames(T)
  BY <1>3, <1>4, <1>5, TagStartsFine
<1>7. Owed(T, named, F) = F.buf \o Owed(T, named, G)
  BY <1>4, <1>5, TagStartsFine
<1>8. PICK p \in Seq(STRING) : p = F.buf
  BY <1>3, FrameIs
<1>9. sent' = sent \o p
  BY <1>2, <1>8 DEF Ssi!TagStarts
<1>10. stack' = TopIs(stack, G)
  BY <1>2, <1>4 DEF Ssi!TagStarts, Ssi!SetTop, Ssi!Next1, TopIs, AfterTag
<1> QED
  BY <1>1, <1>2, <1>3, <1>6, <1>7, <1>8, <1>9, <1>10, SsiMoves

\* A frame that is outside of tags stays there.
LEMMA StaysInText ==
  ASSUME NEW F \in Frame, ~ F.in_ssi_tag, NEW b
  PROVE  [[F EXCEPT !.at = @ + 1] EXCEPT !.buf = b] = AfterText(F, b)
  BY DEF Frame, AfterText

LEMMA TextGoesOnKeeps ==
  ASSUME Ssi!MgSsiAssumption, NEW T \in Texts2, NEW e \in Levels, NEW w,
         SentSoFar(T, e, stack, sent, w), stack # <<>>, T = text, ~ Ssi!AtEnd, Ssi!TextGoesOn
  PROVE  Step1(T, e, w)
<1>1. /\ Going(stack) /\ Ssi!Top \in SoundFrames(T) /\ Ssi!Top = stack[Len(stack)]
      /\ e[Len(stack)] \in Texts2 /\ More(T, Ssi!Top) /\ Ssi!Char = Here(T, Ssi!Top)
  BY SsiStarts
<1>2. PICK F \in SoundFrames(T) : F = Ssi!Top /\ F = stack[Len(stack)]
  BY <1>1
<1>3. PICK named \in Texts2 : named = e[Len(stack)]
  BY <1>1
<1>4. PICK b : b = WithHere(T, F)
  OBVIOUS
<1>5. ~ F.in_ssi_tag /\ IsText(T, F) /\ More(T, F)
  BY <1>1, <1>2 DEF Ssi!TextGoesOn, IsText
<1>6. PICK z \in Seq(STRING) : z = <<>>
  <2>1. <<>> \in Seq(STRING)
    OBVIOUS
  <2> QED
    BY <2>1
<1>7. PICK Z : Z = AfterText(F, z)
  OBVIOUS
<1>8. Z \in SoundFrames(T) /\ b \in Seq(STRING) /\ Owed(T, named, F) = b \o Owed(T, named, Z)
  <2>1. Z \in SoundFrames(T)
    BY <1>3, <1>4, <1>5, <1>7, TextGoesOnFine
  <2>2. b \in Seq(STRING)
    BY <1>3, <1>4, <1>5, <1>6, <1>7, TextGoesOnFine
  <2>3. z = <<>> => OwedAfter(T, named, F, b, Z)
    BY <1>3, <1>4, <1>5, <1>7, TextGoesOnFine
  <2> QED
    BY <1>6, <2>1, <2>2, <2>3 DEF OwedAfter
<1>9. PICK B : B = AfterText(F, b)
  OBVIOUS
<1>10. B \in SoundFrames(T) /\ Owed(T, named, F) = Owed(T, named, B)
  <2>1. B \in SoundFrames(T)
    BY <1>3, <1>4, <1>5, <1>8, <1>9, TextGoesOnFine
  <2>2. Owed(T, named, F) = Owed(T, named, B)
    BY <1>3, <1>4, <1>5, <1>8, <1>9, TextGoesOnFine
  <2> QED
    BY <2>1, <2>2
<1>11. Append(Ssi!Top.buf, Ssi!Char) = b
  BY <1>1, <1>2, <1>4 DEF WithHere
<1>12. F \in Frame
  BY DEF SoundFrames
<1>13. [Ssi!Next1 EXCEPT !.buf = b] = B /\ [Ssi!Next1 EXCEPT !.buf = z] = Z
  BY <1>2, <1>5, <1>7, <1>9, <1>12, StaysInText DEF Ssi!Next1
<1>14. \/ sent' = sent \o b /\ stack' = TopIs(stack, Z)
       \/ sent' = sent /\ stack' = TopIs(stack, B)
  BY <1>6, <1>11, <1>13 DEF Ssi!TextGoesOn, Ssi!SetTop, TopIs
<1>15. CASE sent' = sent \o b /\ stack' = TopIs(stack, Z)
  BY <1>1, <1>2, <1>3, <1>8, <1>15, SsiMoves
<1>16. CASE sent' = sent /\ stack' = TopIs(stack, B)
  BY <1>1, <1>2, <1>3, <1>10, <1>16, SsiWaits
<1> QED
  BY <1>14, <1>15, <1>16

LEMMA TagGoesOnKeeps ==
  ASSUME Ssi!MgSsiAssumption, NEW T \in Texts2, NEW e \in Levels, NEW w,
         SentSoFar(T, e, stack, sent, w), stack # <<>>, T = text, ~ Ssi!AtEnd, Ssi!TagGoesOn
  PROVE  Step1(T, e, w)
<1>1. /\ Going(stack) /\ Ssi!Top \in SoundFrames(T) /\ Ssi!Top = stack[Len(stack)]
      /\ e[Len(stack)] \in Texts2 /\ More(T, Ssi!Top) /\ Ssi!Char = Here(T, Ssi!Top)
  BY SsiStarts
<1>2. PICK F \in SoundFrames(T) : F = Ssi!Top /\ F = stack[Len(stack)]
  BY <1>1
<1>3. PICK named \in Texts2 : named = e[Len(stack)]
  BY <1>1
<1>4. F.in_ssi_tag /\ ~ Shut(T, F) /\ More(T, F) /\ sent' = sent
  BY <1>1, <1>2 DEF Ssi!TagGoesOn, Shut
<1>5. WithHere(T, F) = Append(Ssi!Top.buf, Ssi!Char)
  BY <1>1, <1>2 DEF WithHere
<1>6. NoTagYet(F) <=> Len(Ssi!Top.buf) = Len(OpenTag) /\ Ssi!Top.buf # OpenTag
  BY <1>2 DEF NoTagYet
<1>7. CASE NoTagYet(F)
  <2>1. PICK G : G = AfterText(F, WithHere(T, F))
    OBVIOUS
  <2>2. G \in SoundFrames(T) /\ Owed(T, named, F) = Owed(T, named, G)
    BY <1>4, <1>7, <2>1, NoTagFine
  <2>3. stack' = TopIs(stack, G)
    BY <1>2, <1>5, <1>6, <1>7, <2>1 DEF Ssi!TagGoesOn, Ssi!SetTop, Ssi!Next1, TopIs, AfterText
  <2> QED
    BY <1>1, <1>2, <1>3, <1>4, <2>2, <2>3, SsiWaits
<1>8. CASE ~ NoTagYet(F)
  <2>1. PICK G : G = AfterTag(F, WithHere(T, F))
    OBVIOUS
  <2>2. Len(F.buf) # SsiBuf - 2 /\ G \in SoundFrames(T) /\ Owed(T, named, F) = Owed(T, named, G)
    BY <1>4, <1>8, <2>1, TagGoesOnFine
  <2>3. stack' = TopIs(stack, G)
    BY <1>2, <1>5, <1>6, <1>8, <2>1, <2>2 DEF Ssi!TagGoesOn, Ssi!SetTop, Ssi!Next1, TopIs, AfterTag
  <2> QED
    BY <1>1, <1>2, <1>3, <1>4, <2>2, <2>3, SsiWaits
<1> QED
  BY <1>7, <1>8

\* The tag that ends calls another file, which is regular and stands where the tag was.
CalledAfter(T, named, F, next, C, G) == Owed(T, named, F) = Owed(T, next, C) \o Owed(T, named, G)

LEMMA CalledFine ==
  ASSUME Ssi!MgSsiAssumption, NEW T \in Texts2, SsiFine(T), T = text, NEW e \in Levels, e = Ssi!Expanded,
         NEW n \in Nat, n > 0, n <= MaxLevel, NEW F \in SoundFrames(T), NEW named \in Texts2, named = e[n],
         More(T, F), F.in_ssi_tag, Shut(T, F), Named(F), Command(F) \in Ssi!Files,
         NEW G, G = AfterText(F, <<>>), NEW C, C = Ssi!Called(Command(F))
  PROVE  C \in SoundFrames(T) /\ CalledAfter(T, named, F, e[n + 1], C, G)
<1>1. PICK f \in Ssi!Files : f = Command(F)
  OBVIOUS
<1>2. Ssi!TagAt(T[F.file], F.at - Len(F.buf))
  BY TagEndsFine
<1>3. NamedAfter(T, named, F, G)
  BY TagEndsFine
<1>4. Owed(T, named, F) = named[f] \o Owed(T, named, G)
  BY <1>1, <1>3 DEF NamedAfter
<1>5. PICK t \in Seq(STRING), b \in Seq(STRING), s \in Nat, m \in Nat, L \in Nat, a \in Nat :
        /\ t = T[F.file] /\ b = F.buf /\ m = Len(b) /\ L = Len(t) /\ a = F.at
        /\ s = a - m /\ s > 0 /\ m > 0 /\ s + m = a /\ a <= L /\ TagSoFar(t, s, b) /\ Ssi!Regular(t)
        /\ Here(T, F) = t[s + m] /\ t[s + m] \in STRING
  BY TagIsHere
<1>6. s \in DOMAIN t /\ Ssi!TagAt(t, s)
  <2>1. s \in 1 .. L
    <3>1. s > 0 /\ m > 0 /\ s + m = a /\ a <= L
      BY <1>5
    <3> QED
      BY <3>1
  <2>2. DOMAIN t = 1 .. L
    BY <1>5, LenProperties
  <2> QED
    BY <1>2, <1>5, <2>1, <2>2
<1>7. F.file \in Ssi!Files
  BY FrameIs
<1>8. Ssi!Regular(T[f])
  <2>1. CASE \A g \in Ssi!Files : Ssi!Regular(T[g])
    BY <2>1
  <2>2. CASE SsiPlain(T)
    <3>1. F.file # "0"
      BY <1>5, <1>6, <2>2 DEF SsiPlain
    <3>2. F.file = "1" /\ (f = "0" \/ f = "1")
      BY <1>7, <3>1 DEF Ssi!Files
    <3>3. Ssi!Regular(T["0"]) /\ Ssi!Regular(T["1"])
      BY <1>5, <3>2, PlainIsRegular
    <3> QED
      BY <3>2, <3>3
  <2> QED
    BY <2>1, <2>2 DEF SsiFine
<1>9. PICK next \in Texts2 : next = e[n + 1]
  <2>1. MaxLevel \in Nat
    BY DEF Ssi!MgSsiAssumption
  <2>2. n + 1 \in 0 .. MaxLevel + 1
    BY <2>1
  <2> QED
    BY <2>2 DEF Levels
<1>10. C \in SoundFrames(T)
  BY <1>1, <1>8, <1>9, CalledIs
<1>11. Owed(T, next, C) = Ssi!Replaced(T[f], next)[1]
  BY <1>1, <1>8, <1>9, CalledIs
<1>12. named[f] = Ssi!Replaced(T[f], next)[1]
  <2>1. text \in [Ssi!Files -> Seq(STRING)]
    BY DEF Texts2
  <2>2. \A l \in 0 .. MaxLevel, g \in Ssi!Files : e[l][g] = Ssi!Replaced(text[g], e[l + 1])[1]
    BY <2>1, ExpandedAre
  <2>3. n \in 0 .. MaxLevel
    <3>1. MaxLevel \in Nat
      BY DEF Ssi!MgSsiAssumption
    <3> QED
      BY <3>1
  <2>4. e[n][f] = Ssi!Replaced(text[f], e[n + 1])[1]
    BY <2>2, <2>3
  <2> QED
    BY <1>9, <2>4
<1> QED
  BY <1>4, <1>9, <1>10, <1>11, <1>12 DEF CalledAfter

LEMMA TagEndsKeeps ==
  ASSUME Ssi!MgSsiAssumption, NEW T \in Texts2, SsiFine(T), NEW e \in Levels, e = Ssi!Expanded, NEW w,
         SentSoFar(T, e, stack, sent, w), stack # <<>>, T = text, ~ Ssi!AtEnd, Ssi!TagEnds
  PROVE  Step1(T, e, w)
<1>1. /\ Going(stack) /\ Ssi!Top \in SoundFrames(T) /\ Ssi!Top = stack[Len(stack)]
      /\ e[Len(stack)] \in Texts2 /\ More(T, Ssi!Top) /\ Ssi!Char = Here(T, Ssi!Top)
      /\ Len(stack) \in 1 .. MaxLevel + 1
  BY SsiStarts
<1>2. PICK F \in SoundFrames(T) : F = Ssi!Top /\ F = stack[Len(stack)]
  BY <1>1
<1>3. PICK named \in Texts2 : named = e[Len(stack)]
  BY <1>1
<1>4. F.in_ssi_tag /\ Shut(T, F) /\ More(T, F)
  BY <1>1, <1>2 DEF Ssi!TagEnds, Shut
<1>5. PICK z \in Seq(STRING) : z = <<>>
  <2>1. <<>> \in Seq(STRING)
    OBVIOUS
  <2> QED
    BY <2>1
<1>6. PICK G : G = AfterText(F, z)
  OBVIOUS
<1>7. PICK p : p = WithEnd(F.buf)
  OBVIOUS
<1>8. G \in SoundFrames(T) /\ p \in Seq(STRING)
  <2>1. G = AfterText(F, <<>>)
    BY <1>5, <1>6
  <2>2. G \in SoundFrames(T)
    BY <1>3, <1>4, <1>7, <2>1, TagEndsFine
  <2>3. p \in Seq(STRING)
    BY <1>3, <1>4, <1>7, <2>1, TagEndsFine
  <2> QED
    BY <2>2, <2>3
<1>9. Append(Ssi!Top.buf, ">") = p
  BY <1>2, <1>7 DEF WithEnd
<1>10. [Ssi!Next1 EXCEPT !.in_ssi_tag = FALSE, !.buf = <<>>] = G
  BY <1>2, <1>5, <1>6 DEF Ssi!Next1, AfterText
<1>11. Command(F) = p[Len(OpenTag) + 1] /\ (Named(F) <=> TakenForTag(p))
  BY <1>7 DEF Command, Named
<1>12. CASE ~ Named(F)
  <2>1. sent' = sent \o p /\ stack' = TopIs(stack, G)
    BY <1>9, <1>10, <1>11, <1>12 DEF Ssi!TagEnds, Ssi!SetTop, TopIs, TakenForTag
  <2>2. OwedAfter(T, named, F, p, G)
    <3>1. G = AfterText(F, <<>>)
      BY <1>5, <1>6
    <3> QED
      BY <1>3, <1>4, <1>7, <1>12, <3>1, TagEndsFine
  <2> QED
    BY <1>1, <1>2, <1>3, <1>8, <2>1, <2>2, SsiMoves DEF OwedAfter
<1>13. CASE Named(F)
  <2>1. sent' = sent
    BY <1>9, <1>11, <1>13 DEF Ssi!TagEnds, TakenForTag
  <2>2. stack' = IF Command(F) \in Ssi!Files /\ Len(stack) <= MaxLevel
                 THEN Append(TopIs(stack, G), Ssi!Called(Command(F))) ELSE TopIs(stack, G)
    BY <1>9, <1>10, <1>11, <1>13 DEF Ssi!TagEnds, Ssi!SetTop, TopIs, TakenForTag
  <2>3. CASE Command(F) \in Ssi!Files /\ Len(stack) <= MaxLevel
    <3>1. PICK C : C = Ssi!Called(Command(F))
      OBVIOUS
    <3>2. PICK n \in Nat : n = Len(stack) /\ n > 0 /\ n <= MaxLevel
      <4>1. Len(stack) \in Nat /\ Len(stack) > 0
        <5>1. MaxLevel \in Nat
          BY DEF Ssi!MgSsiAssumption
        <5> QED
          BY <1>1, <5>1
      <4> QED
        BY <2>3, <4>1
    <3>3. G = AfterText(F, <<>>)
      BY <1>5, <1>6
    <3>4. C \in SoundFrames(T)
      BY <1>3, <1>4, <1>13, <2>3, <3>1, <3>2, <3>3, CalledFine
    <3>5. CalledAfter(T, named, F, e[n + 1], C, G)
      BY <1>3, <1>4, <1>13, <2>3, <3>1, <3>2, <3>3, CalledFine
    <3>6. CalledOn(T, e, stack, C, G)
      BY <1>2, <1>3, <3>2, <3>5 DEF CalledOn, CalledAfter
    <3>7. SentSoFar(T, e, Append(TopIs(stack, G), C), sent, w)
      BY <1>1, <1>8, <2>3, <3>4, <3>6, TopCalls
    <3>8. stack' = Append(TopIs(stack, G), C)
      BY <2>2, <2>3, <3>1
    <3> QED
      BY <2>1, <3>7, <3>8 DEF Step1
  <2>4. CASE ~ (Command(F) \in Ssi!Files /\ Len(stack) <= MaxLevel)
    <3>1. stack' = TopIs(stack, G)
      BY <2>2, <2>4
    <3>2. NamedAfter(T, named, F, G)
      <4>1. G = AfterText(F, <<>>)
        BY <1>5, <1>6
      <4> QED
        BY <1>3, <1>4, <1>13, <4>1, TagEndsFine
    <3>3. Command(F) \in Ssi!Files => named[Command(F)] = <<>>
      <4> SUFFICES ASSUME Command(F) \in Ssi!Files PROVE named[Command(F)] = <<>>
        OBVIOUS
      <4>1. Len(stack) = MaxLevel + 1
        <5>1. MaxLevel \in Nat
          BY DEF Ssi!MgSsiAssumption
        <5>2. ~ (Len(stack) <= MaxLevel)
          BY <2>4
        <5> QED
          BY <1>1, <5>1, <5>2
      <4>2. text \in [Ssi!Files -> Seq(STRING)]
        BY DEF Texts2
      <4>3. \A f \in Ssi!Files : e[MaxLevel + 1][f] = <<>>
        BY <4>2, ExpandedAre
      <4> QED
        BY <1>3, <4>1, <4>3
    <3>4. Owed(T, named, F) = z \o Owed(T, named, G)
      BY <1>5, <3>2, <3>3 DEF NamedAfter
    <3>5. PICK y \in Seq(STRING) : y = Owed(T, named, G)
      BY <1>8, FrameIs
    <3>6. z \o y = y
      BY <1>5, ConcatEmptySeq
    <3>7. Owed(T, named, F) = Owed(T, named, G)
      BY <3>4, <3>5, <3>6
    <3> QED
      BY <1>1, <1>2, <1>3, <1>8, <2>1, <3>1, <3>7, SsiWaits
  <2> QED
    BY <2>3, <2>4
<1> QED
  BY <1>12, <1>13

LEMMA SsiNextKeeps ==
  ASSUME Ssi!MgSsiAssumption, SsiInv, [Ssi!Next]_(Ssi!vars) PROVE SsiInv'
<1>1. CASE UNCHANGED Ssi!vars
  <2>1. text' = text /\ stack' = stack /\ sent' = sent
    BY <1>1 DEF Ssi!vars
  <2>2. Ssi!Expanded' = Ssi!Expanded
    BY <2>1 DEF Ssi!Expanded
  <2> QED
    BY <2>1, <2>2 DEF SsiInv
<1>2. CASE Ssi!Next
  <2>1. text' = text /\ stack # <<>>
    BY <1>2 DEF Ssi!Next
  <2>2. Ssi!Expanded' = Ssi!Expanded
    BY <2>1 DEF Ssi!Expanded
  <2>3. PICK T \in Texts2 : T = text
    BY DEF SsiInv
  <2>4. PICK e : e = Ssi!Expanded
    OBVIOUS
  <2>5. PICK w : w = e[0]["0"]
    OBVIOUS
  <2>6. e \in Levels
    <3>1. text \in [Ssi!Files -> Seq(STRING)]
      BY <2>3 DEF Texts2
    <3>2. e \in [0 .. MaxLevel + 1 -> [Ssi!Files -> Seq(STRING)]]
      BY <2>4, <3>1, ExpandedAre
    <3> QED
      BY <3>2 DEF Levels, Texts2
  <2>7. ASSUME SsiFine(T) PROVE Step1(T, e, w)
    <3>1. SentSoFar(T, e, stack, sent, w)
      BY <2>3, <2>4, <2>5, <2>7 DEF SsiInv
    <3>2. CASE Ssi!AtEnd /\ Ssi!FileEnds
      BY <2>1, <2>3, <2>6, <3>1, <3>2, FileEndsKeeps
    <3>3. CASE ~ Ssi!AtEnd /\ Ssi!TagEnds
      BY <2>1, <2>3, <2>4, <2>6, <2>7, <3>1, <3>3, TagEndsKeeps
    <3>4. CASE ~ Ssi!AtEnd /\ Ssi!TagGoesOn
      BY <2>1, <2>3, <2>6, <3>1, <3>4, TagGoesOnKeeps
    <3>5. CASE ~ Ssi!AtEnd /\ Ssi!TagStarts
      BY <2>1, <2>3, <2>6, <3>1, <3>5, TagStartsKeeps
    <3>6. CASE ~ Ssi!AtEnd /\ Ssi!TextGoesOn
      BY <2>1, <2>3, <2>6, <3>1, <3>6, TextGoesOnKeeps
    <3> QED
      BY <1>2, <3>2, <3>3, <3>4, <3>5, <3>6 DEF Ssi!Next
  <2>8. text' \in Texts2
    BY <2>1, <2>3
  <2>9. ASSUME SsiFine(text') PROVE SentSoFar(text', Ssi!Expanded', stack', sent', Ssi!Expanded'[0]["0"])
    <3>1. Step1(T, e, w)
      BY <2>1, <2>3, <2>7, <2>9
    <3>2. SentSoFar(T, e, stack', sent', w)
      BY <3>1 DEF Step1
    <3> QED
      BY <2>1, <2>2, <2>3, <2>4, <2>5, <3>2
  <2> QED
    BY <2>8, <2>9 DEF SsiInv
<1> QED
  BY <1>1, <1>2

=============================================================================
