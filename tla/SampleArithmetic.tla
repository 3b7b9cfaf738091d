-------------------------- MODULE SampleArithmetic --------------------------
(***************************************************************************)
(* The numbers of a frame (server/jtop.c, server/glibtop/cpu.c): counters  *)
(* of the kernel that grow, their conversion to float when a sample is     *)
(* taken, and the differences of two samples that a frame divides.         *)
(* Which two samples those are is JtopServer's matter; here they are the   *)
(* newest and the one before.                                              *)
(***************************************************************************)
EXTENDS Integers, Sequences

CONSTANTS
  Mantissa,    \* 24: bits of a float
  Counter,     \* 2^64, or 2^32 of a small kernel: where traffic starts again
  Steps,       \* by how much a counter may grow between two samples
  Seconds,     \* what the clock may show between them
  MaxTicks, MaxTraffic, MaxClock  \* bounds: of the counters and the clock

SampleArithmeticAssumption ==
  /\ Mantissa \in Nat \ {0} /\ Counter \in Nat \ {0}
  /\ Steps \subseteq Nat /\ Seconds \subseteq Int \ {0}
  /\ {MaxTicks, MaxClock} \subseteq Nat /\ MaxTraffic \in 0 .. Counter - 1

VARIABLES used, idle,   \* ticks, of the kernel
          traffic,      \* bytes, of the kernel
          clock,
          data_history, \* the newest two samples, the newer first
          last,         \* the counters at the older of them
          wrapped       \* the traffic started again between them
vars == <<used, idle, traffic, clock, data_history, last, wrapped>>

-----------------------------------------------------------------------------
(* Numbers.                                                                *)

\* 2 ^ n
Pow2[n \in Nat] == IF n = 0 THEN 1 ELSE 2 * Pow2[n - 1]

\* Of a float near x: 1 as long as it fits the mantissa.
Spacing(x) ==
  IF x < Pow2[Mantissa] THEN 1
  ELSE Pow2[CHOOSE e \in 1 .. x : Pow2[Mantissa + e - 1] <= x /\ x < Pow2[Mantissa + e]]

\* (float) x: the nearest, an even one of two
Float(x) ==
  LET s == Spacing(x)  below == (x \div s) * s  twice == 2 * (x - below) IN
  IF twice < s \/ (twice = s /\ (below \div s) % 2 = 0) THEN below ELSE below + s

\* What glibtop_get_cpu adds up is converted, not its parts.
SampleOf(u, i, t, c) == [cpu_total |-> Float(u + i), cpu_used |-> Float(u),
                         network |-> Float(t), timestamp |-> c]

\* the difference of two floats
Minus(x, y) == IF x >= y THEN Float(x - y) ELSE -Float(y - x)

\* Mutant: the share of the ticks since the machine started, not since the last sample.
FrameSinceStart ==
  LET s == data_history[1]  l == data_history[2] IN
  [cpu_usage |-> <<s.cpu_used, s.cpu_total>>,
   net       |-> <<Minus(s.network, l.network), s.timestamp - l.timestamp>>]

\* What is divided by what; 0 below is an infinity or no number.
Frame ==
  LET s == data_history[1]  l == data_history[2] IN
  [cpu_usage |-> <<Minus(s.cpu_used, l.cpu_used), Minus(s.cpu_total, l.cpu_total)>>,
   net       |-> <<Minus(s.network, l.network), s.timestamp - l.timestamp>>]

-----------------------------------------------------------------------------
(* The kernel counts, and append_sysinfo takes samples.                    *)

Init == /\ used \in 0 .. MaxTicks /\ idle \in 0 .. MaxTicks /\ used + idle <= MaxTicks
        /\ traffic \in 0 .. MaxTraffic /\ clock = 0
        /\ data_history = <<SampleOf(used, idle, traffic, clock)>>
        /\ last = [used |-> used, total |-> used + idle, traffic |-> traffic]
        /\ wrapped = FALSE

append_sysinfo ==
  \E u, i, t \in Steps, s \in Seconds :
    LET all == used + idle + u + i  bytes == (traffic + t) % Counter IN
    /\ all <= MaxTicks /\ bytes <= MaxTraffic /\ clock + s \in 0 .. MaxClock
    /\ used' = used + u /\ idle' = idle + i /\ traffic' = bytes /\ clock' = clock + s
    /\ data_history' = <<SampleOf(used + u, idle + i, bytes, clock + s), data_history[1]>>
    /\ last' = [used |-> used, total |-> used + idle, traffic |-> traffic]
    /\ wrapped' = (traffic + t >= Counter)

Next == append_sysinfo
Spec == Init /\ [][Next]_vars

-----------------------------------------------------------------------------
(* Properties.                                                             *)

HaveFrame == Len(data_history) = 2

\* Of how far a counter has gone: within one spacing of the floats where it is, or
\* within one and a quarter if it has more than doubled.
Near(x, from, to) ==
  LET off == x - (to - from) IN
  /\ 4 * off \in -5 * Spacing(to) .. 5 * Spacing(to)
  /\ to <= 2 * from => off \in -Spacing(to) .. Spacing(to)

\* As long as the ticks fit the mantissa the usage is the exact share of them, and
\* it is a number if a tick has passed (jtop.c:120-121, 204).
UsageIsShare ==
  (HaveFrame /\ used + idle < Pow2[Mantissa]) =>
    Frame.cpu_usage = <<used - last.used, used + idle - last.total>>

\* Beyond it, neither part is negative and each is near the ticks it counts, and so
\* what is divided by is 0 only while no more ticks pass than that (jtop.c:120-121, 204).
UsageIsNear ==
  HaveFrame => LET u == Frame.cpu_usage IN
    /\ u[1] >= 0 /\ u[2] >= 0
    /\ Near(u[1], last.used, used) /\ Near(u[2], last.total, used + idle)

\* A rate has the sign of the seconds that passed, which the clock may have gone back
\* by, unless the traffic was counted from 0 again (jtop.c:125-126, 207-208).
RateHasItsSign ==
  (HaveFrame /\ ~ wrapped) => LET n == Frame.net IN
    /\ n[1] >= 0 /\ n[2] = clock - data_history[2].timestamp
    /\ Near(n[1], last.traffic, traffic)

=============================================================================
