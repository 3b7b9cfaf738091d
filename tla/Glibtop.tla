------------------------------ MODULE Glibtop ------------------------------
(***************************************************************************)
(* The collectors (server/glibtop): what they make of the kernel's files.  *)
(* A file is a sequence of lines, and a line what the code tells apart in  *)
(* it: a name, a colon, columns.  A file grows by a line at a time; the    *)
(* number in a column tells the line and the column, so that one that is   *)
(* read from the wrong place shows.                                        *)
(***************************************************************************)
EXTENDS Integers, Sequences, FiniteSets

CONSTANTS
  Interface,    \* NETLOAD_IFACE, IW_IFACE
  Interfaces,   \* names in the files
  HaveIPv6,     \* a build without NO_IPV6
  Machines,     \* what a machine may have: columns of received counters (rx) in the
                \* header of its file, and links
  Levels,       \* of signal and noise, as the driver writes them
  ListStep,     \* 8: by how much the list of interfaces grows
  MaxDev, MaxTrack, MaxWireless, MaxMem  \* bounds: lines of the files

\* is_loopback, has_addr, and the first IPv6 address
LinkKinds == [loopback : BOOLEAN, v4 : BOOLEAN, v6 : {"none", "link", "global"}]

GlibtopAssumption ==
  /\ Interface \in Interfaces /\ HaveIPv6 \in BOOLEAN
  /\ Machines \subseteq [rx : Nat, links : [Interfaces -> LinkKinds]]
  /\ Levels \subseteq -256 .. 255
  /\ ListStep \in Nat \ {0} /\ {MaxDev, MaxTrack, MaxWireless, MaxMem} \subseteq Nat

VARIABLES header,  \* of /proc/net/dev: none of it, or its columns
          links,     \* what the interfaces are: v6 is the first IPv6 address
          dev,       \* /proc/net/dev
          track,     \* /proc/net/ip_conntrack
          wireless,  \* /proc/net/wireless
          meminfo    \* /proc/meminfo
vars == <<header, links, dev, track, wireless, meminfo>>

Garbage == -1   \* what is in a variable that nothing was stored in
TxColumns == 4

First(S) == CHOOSE i \in S : \A j \in S : i <= j
Where(lines, P(_)) == {i \in DOMAIN lines : P(lines[i])}

\* the sums of the first numbers of f
Sums(f) ==
  LET sum[n \in 0 .. Len(f)] == IF n = 0 THEN 0 ELSE sum[n - 1] + f[n] IN sum

-----------------------------------------------------------------------------
(* Columns: a position is the number of the next column.                   *)

\* strtoull, and where it leaves the position
Number(cols, at) == IF at \in DOMAIN cols THEN cols[at] ELSE 0
AfterNumber(cols, at) == IF at \in DOMAIN cols THEN at + 1 ELSE at

\* skip_multiple_token
SkipMultipleToken(cols, at, n) ==
  IF at + n > Len(cols) + 1 THEN Len(cols) + 1 ELSE at + n

-----------------------------------------------------------------------------
(* netload.c                                                               *)

\* Mutant: the columns to skip do not depend on the byte counter.
FieldsToSkipBytes(h) == h.rx - 1 - 1

\* Gaps between the columns of the header, less one, and one more for the bytes.
FieldsToSkip(h) == h.rx - 1 - 1 - (IF h.bytes THEN 1 ELSE 0)

IsStatistics(l, name) == l.colon /\ l.digits /\ l.name = name
Statistics(lines, name) == Where(lines, LAMBDA l : IsStatistics(l, name))

\* linux_2_4_stats
NetLoad(h, lines, name) ==
  LET found == Statistics(lines, name) IN
  IF ~ h.bar \/ h.rx - 1 < 2 \/ found = {} THEN [in |-> Garbage, out |-> Garbage]
  ELSE LET cols == lines[First(found)].cols
           in   == IF h.bytes THEN AfterNumber(cols, 1) ELSE 1
           errs == AfterNumber(cols, AfterNumber(cols, in))
           out  == SkipMultipleToken(cols, errs, FieldsToSkip(h)) IN
       [in  |-> IF h.bytes THEN Number(cols, 1) ELSE Garbage,
        out |-> IF h.bytes THEN Number(cols, out) ELSE Garbage]

(* netlist.c *)

\* list_len when the nth entry is stored: it grows when all of it is used
Room(n) == ListStep * (1 + (n - 1) \div ListStep)

HasColon(l) == l.colon

\* the list after each line
Listed(lines) ==
  LET list[n \in 0 .. Len(lines)] ==
        IF n = 0 THEN <<>>
        ELSE IF HasColon(lines[n]) THEN Append(list[n - 1], lines[n].name) ELSE list[n - 1]
  IN  list
NetList(lines) == Listed(lines)[Len(lines)]

\* The first IPv6 address is looked at.
GetIPv6(name) == HaveIPv6 /\ links[name].v6 = "link"

\* glibtop_get_netload
GetNetLoad(name) ==
  [is_loopback |-> links[name].loopback, has_addr |-> links[name].v4,
   is_linklocal |-> GetIPv6(name), bytes |-> NetLoad(header, dev, name)]

(* A build without NETLOAD_IFACE adds up the listed interfaces. *)

Counted(l) == ~ l.is_loopback /\ l.has_addr /\ ~ l.is_linklocal

Load(names) == [i \in DOMAIN names |-> GetNetLoad(names[i])]
In(load)  == [i \in DOMAIN load |-> IF Counted(load[i]) THEN load[i].bytes.in ELSE 0]
Out(load) == [i \in DOMAIN load |-> IF Counted(load[i]) THEN load[i].bytes.out ELSE 0]

\* in and out: garbage if what is added was not stored
Traffic ==
  LET names == NetList(dev)  load == Load(names) IN
  IF \E i \in DOMAIN names : Counted(load[i]) /\ load[i].bytes.in = Garbage
    THEN [in |-> Garbage, out |-> Garbage]
    ELSE [in  |-> Sums(In(load))[Len(names)], out |-> Sums(Out(load))[Len(names)]]

(* conntrack.c *)

\* The state is what comes after two tokens that follow the protocol.
TrackState(l) == l.rest[SkipMultipleToken(l.rest, 1, 2)]
Conntrack(lines, proto) ==
  Cardinality(Where(lines, LAMBDA l : l.proto = proto /\ TrackState(l) # "TIME_WAIT"))

(* wireless.c *)

SignedByte(v) == IF v >= 0 THEN v - 256 ELSE v

\* Zeroes are what memset has left, if the interface is not there.
Wireless(lines) ==
  LET found == Statistics(lines, Interface)
      cols  == IF found = {} THEN <<>> ELSE lines[First(found)].cols
      level == SkipMultipleToken(cols, 1, 2) IN
  [signal |-> SignedByte(Number(cols, level)), noise |-> SignedByte(Number(cols, level + 1))]

(* common.c, mem.c, swap.c *)

Times(unit) == CASE unit = "k" -> 2 [] unit = "M" -> 4 [] OTHER -> 1

\* get_scaled: the first k or M anywhere after the number is its unit.
GetScaled(lines, key) ==
  LET at == Where(lines, LAMBDA l : l.key = key)
      units == {i \in Where(lines, LAMBDA l : l.unit # "none") : i >= First(at)} IN
  IF at = {} THEN 0
  ELSE lines[First(at)].number * (IF units = {} THEN 1 ELSE Times(lines[First(units)].unit))

\* what append_sysinfo divides for memory_usage and swap_usage; <<>> is no number
Memory(lines) ==
  LET total == GetScaled(lines, "MemTotal")  free == GetScaled(lines, "MemFree") IN
  IF total = 0 THEN <<>> ELSE <<total - free, total>>

Swap(lines) ==
  LET total == GetScaled(lines, "SwapTotal")  free == GetScaled(lines, "SwapFree") IN
  IF total = 0 THEN <<0, 1>> ELSE <<total - free, total>>

-----------------------------------------------------------------------------
(* The files.                                                              *)

Init == /\ \E m \in Machines :
             header \in [bar : BOOLEAN, bytes : BOOLEAN, rx : {m.rx}] /\ links = m.links
        /\ dev = <<>> /\ track = <<>> /\ wireless = <<>> /\ meminfo = <<>>

Columns(line, n) == [i \in 1 .. n |-> 100 * line + i]

DevLine ==
  /\ Len(dev) < MaxDev
  /\ \E i \in {i \in Interfaces : \A j \in DOMAIN dev : dev[j].name # i}, c, d \in BOOLEAN :
       dev' = Append(dev, [name |-> i, colon |-> c, digits |-> d,
                           cols |-> Columns(Len(dev) + 1, header.rx + TxColumns)])
  /\ UNCHANGED <<header, links, track, wireless, meminfo>>

TrackLine ==
  /\ Len(track) < MaxTrack
  /\ \E p \in {"tcp", "udp", "icmp"}, s \in {"ESTABLISHED", "TIME_WAIT", "src"} :
       /\ p # "tcp" => s = "src"
       /\ track' = Append(track, [proto |-> p, rest |-> <<"number", "seconds", s, "more">>])
  /\ UNCHANGED <<header, links, dev, wireless, meminfo>>

WirelessLine ==
  /\ Len(wireless) < MaxWireless
  /\ \E i \in Interfaces, level, noise \in Levels :
       wireless' = Append(wireless, [name |-> i, colon |-> TRUE, digits |-> TRUE,
                                     cols |-> <<0, 300, level, noise, 301>>])
  /\ UNCHANGED <<header, links, dev, track, meminfo>>

MemLine ==
  /\ Len(meminfo) < MaxMem
  /\ \E k \in {"MemTotal", "MemFree", "SwapTotal", "SwapFree", "HugePages"}, u \in {"none", "k", "M"},
        n \in {0, 1, 3} :
       /\ (k = "HugePages") <=> (u = "none")
       /\ \A i \in DOMAIN meminfo : meminfo[i].key # k
       /\ meminfo' = Append(meminfo, [key |-> k, number |-> n, unit |-> u])
  /\ UNCHANGED <<header, links, dev, track, wireless>>

Next == DevLine \/ TrackLine \/ WirelessLine \/ MemLine
Spec == Init /\ [][Next]_vars

-----------------------------------------------------------------------------
(* Properties.                                                             *)

\* Whatever columns this kernel has, and with the byte counters or without, the
\* counters stored are the bytes received and sent of the first line of the
\* interface; and if nothing is stored, the interface was not to be read
\* (netload.c:76-144).
NetLoadIsBytes ==
  LET mine == Statistics(dev, Interface)  n == NetLoad(header, dev, Interface)
      cols == dev[First(mine)].cols IN
  IF mine # {} /\ header.bar /\ header.bytes /\ header.rx >= 3
    THEN n = [in |-> cols[1], out |-> cols[header.rx + 1]]
    ELSE n = [in |-> Garbage, out |-> Garbage]

\* There is room for every interface that is listed, and none is missing
\* (netlist.c:14-36).
NetListFits ==
  LET names == NetList(dev) IN
  /\ \A n \in 1 .. Len(names) : n <= Room(n) /\ (n > 1 => Room(n) >= Room(n - 1))
  /\ Len(names) = Cardinality(Where(dev, HasColon))

\* What the loopback carries is never counted, and no garbage as long as every other
\* interface has its counters (jtop.c:72-108, netload.c:154-183).
Received ==
  [i \in DOMAIN dev |-> IF links[dev[i].name].loopback THEN 0 ELSE dev[i].cols[1]]
TrafficIsOfOthers ==
  (/\ header.bar /\ header.bytes /\ header.rx >= 3
   /\ \A i \in DOMAIN dev :
        dev[i].colon /\ ~ links[dev[i].name].loopback => dev[i].digits) =>
    /\ Traffic.in >= 0 /\ Traffic.out >= 0
    /\ Traffic.in <= Sums(Received)[Len(dev)]

\* Connections that wait after their end are not counted, other protocols neither
\* (conntrack.c:14-40).
ConntrackCounts ==
  /\ Conntrack(track, "udp") = Cardinality(Where(track, LAMBDA l : l.proto = "udp"))
  /\ Conntrack(track, "tcp") = Cardinality(Where(track,
       LAMBDA l : l.proto = "tcp" /\ l.rest[3] # "TIME_WAIT"))

\* The levels are below 0, as the client shows them, whether the driver writes
\* bytes with a sign or without; -256 is none (wireless.c:74-91).
WirelessIsNegative ==
  LET w == Wireless(wireless)  mine == Statistics(wireless, Interface)
      cols == wireless[First(mine)].cols IN
  /\ {w.signal, w.noise} \subseteq -256 .. -1
  /\ IF mine = {} THEN w = [signal |-> -256, noise |-> -256]
     ELSE (w.signal - cols[3]) % 256 = 0 /\ (w.noise - cols[4]) % 256 = 0

\* A line that has a unit is scaled by its own, wherever it stands (common.c:36-64).
UnitIsOwn ==
  \A i \in DOMAIN meminfo : meminfo[i].unit # "none" =>
    GetScaled(meminfo, meminfo[i].key) = meminfo[i].number * Times(meminfo[i].unit)

\* The shares are numbers, but that of the memory when its size could not be read
\* (jtop.c:122-123).
SharesAreNumbers ==
  /\ Swap(meminfo) # <<>>
  /\ Memory(meminfo) = <<>> <=>
       \A i \in DOMAIN meminfo : meminfo[i].key # "MemTotal" \/ meminfo[i].number = 0

=============================================================================
