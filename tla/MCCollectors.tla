---------------------------- MODULE MCCollectors ----------------------------
(***************************************************************************)
(* What a sample is made from: FileToBuffer reads a file of the kernel,    *)
(* Glibtop takes it apart, SampleArithmetic computes with the numbers; all *)
(* for TLC.  They meet in values alone, so one run checks all: a behaviour *)
(* is one of the part that "what" names, and the variables of the others   *)
(* are Blank.  Of the kernel's files, too, one is written in a behaviour:  *)
(* the collectors read them apart.                                         *)
(***************************************************************************)
EXTENDS FileToBuffer

CONSTANTS
  Interface, Interfaces, Machines, HaveIPv6, Levels, ListStep,    \* Glibtop's
  MaxDev, MaxTrack, MaxWireless, MaxMem,
  Mantissa, Counter, Steps, Seconds, MaxTicks, MaxTraffic, MaxClock \* SampleArithmetic's

VARIABLES
  what,  \* the part that runs, or the file of the kernel that is written
  header, links, dev, track, wireless, meminfo,
  used, idle, traffic, clock, data_history, last, wrapped

fileVars == vars
kernelVars == <<header, links, dev, track, wireless, meminfo>>
sampleVars == <<used, idle, traffic, clock, data_history, last, wrapped>>
allVars == <<what, fileVars, kernelVars, sampleVars>>

\* of the parts that do not run
Blank == "-"

NoFile ==
  /\ size = Blank /\ opened = Blank /\ pos = Blank /\ failed = Blank /\ len = Blank
  /\ buffer = Blank /\ end = Blank /\ pc = Blank
NoKernel ==
  /\ header = Blank /\ links = Blank /\ dev = Blank /\ track = Blank
  /\ wireless = Blank /\ meminfo = Blank
NoSample ==
  /\ used = Blank /\ idle = Blank /\ traffic = Blank /\ clock = Blank
  /\ data_history = Blank /\ last = Blank /\ wrapped = Blank

-----------------------------------------------------------------------------
(* The parts.                                                              *)

Kernel == INSTANCE Glibtop
Sample == INSTANCE SampleArithmetic

ASSUME PartsAssumption == Kernel!GlibtopAssumption /\ Sample!SampleArithmeticAssumption

\* TLC's machines: every number of columns, and every kind of two interfaces.
Wan == [loopback |-> FALSE, v4 |-> TRUE, v6 |-> "none"]
Kinds == [loopback : {FALSE}, v4 : BOOLEAN, v6 : {"none", "link", "global"}]
AnyMachine ==
  [rx : 2 .. 9, links : [{"wan", "lan", "lo"} -> {Wan}]]
  \cup [rx : {3}, links : [lo : {[Wan EXCEPT !.loopback = TRUE]}, wan : Kinds, lan : Kinds]]
AnyLevel == {-256, -56, 0, 200, 255}
BothWays == {-1, 1}

-----------------------------------------------------------------------------
(* A behaviour of one of them.                                             *)

Files == {"dev", "track", "wireless", "meminfo"}

\* Of the header and the links, only /proc/net/dev is read with them.
OneMachine ==
  LET m == CHOOSE m \in Machines : TRUE IN
  links = m.links /\ header = [bar |-> TRUE, bytes |-> TRUE, rx |-> m.rx]

AnyInit ==
  \/ what = "file" /\ Init /\ NoKernel /\ NoSample
  \/ what = "dev" /\ Kernel!Init /\ NoFile /\ NoSample
  \/ what \in Files \ {"dev"} /\ Kernel!Init /\ OneMachine /\ NoFile /\ NoSample
  \/ what = "sample" /\ Sample!Init /\ NoFile /\ NoKernel

OfFile == what = "file" /\ UNCHANGED <<what, kernelVars, sampleVars>>
OfKernel ==
  /\ what \in Files /\ UNCHANGED <<what, fileVars, sampleVars>>
  /\ what # "dev" => UNCHANGED dev
  /\ what # "track" => UNCHANGED track
  /\ what # "wireless" => UNCHANGED wireless
  /\ what # "meminfo" => UNCHANGED meminfo
OfSample == what = "sample" /\ UNCHANGED <<what, fileVars, kernelVars>>

AnyNext == \/ OfFile /\ Next
           \/ OfKernel /\ Kernel!Next
           \/ OfSample /\ Sample!Next

AnySpec == AnyInit /\ [][AnyNext]_allVars

-----------------------------------------------------------------------------
(* Properties.                                                             *)

(***************************************************************************)
(* A number that is stored is the one of the kernel's file that it is      *)
(* called: bytes of the interface asked for, in whatever columns, and      *)
(* never those of the loopback (netload.c 76-183, netlist.c 14-36, jtop.c  *)
(* 72-108); connections that live (conntrack.c 14-40); levels below 0      *)
(* (wireless.c 74-91); memory in its own unit, and shares that are numbers *)
(* but for a memory of no size (common.c 36-64, jtop.c 122-123).           *)
(***************************************************************************)
CollectorsAreRight ==
  what \in Files =>
    /\ Kernel!NetLoadIsBytes /\ Kernel!NetListFits /\ Kernel!TrafficIsOfOthers
    /\ Kernel!ConntrackCounts /\ Kernel!WirelessIsNegative
    /\ Kernel!UnitIsOwn /\ Kernel!SharesAreNumbers

(***************************************************************************)
(* A frame's numbers are the kernel's differences: exactly while the ticks *)
(* fit a float, near them beyond that, and never negative; and a rate has  *)
(* the sign of the seconds (jtop.c 120-126, 204-208).                      *)
(***************************************************************************)
FramesAreDifferences ==
  what = "sample" => Sample!UsageIsShare /\ Sample!UsageIsNear /\ Sample!RateHasItsSign

=============================================================================
