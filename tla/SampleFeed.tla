----------------------------- MODULE SampleFeed -----------------------------
(***************************************************************************)
(* What the jtop server promises to its clients, with no threads, no ring  *)
(* and no locks.  Samples are recorded one after the other; a frame is     *)
(* made of a sample and the one recorded just before it; a client gets     *)
(* frames while its connection is open, never an older one after a newer   *)
(* one, and nothing more once a frame has been cut short.                  *)
(***************************************************************************)
EXTENDS Integers, Sequences

CONSTANTS
  Conns,        \* the connections clients make
  Samples,      \* every sample that may be recorded
  NoFrame       \* nothing sent yet

VARIABLES
  recorded,     \* the samples so far, oldest first
  phase,        \* of each connection: "new", "open" or "closed"
  stream        \* the newest frame sent on each connection, and if it was cut

feedVars == <<recorded, phase, stream>>

FeedInit ==
  /\ recorded = <<>>
  /\ phase = [c \in Conns |-> "new"]
  /\ stream = [c \in Conns |-> [last |-> NoFrame, cut |-> FALSE]]

\* Neighbours in the record are of different seconds.
Record(sample) ==
  /\ recorded # <<>> => recorded[Len(recorded)].timestamp # sample.timestamp
  /\ recorded' = Append(recorded, sample)
  /\ UNCHANGED <<phase, stream>>

Open(c) ==
  /\ phase[c] = "new" /\ phase' = [phase EXCEPT ![c] = "open"]
  /\ UNCHANGED <<recorded, stream>>

\* The frame of the i-th sample and its predecessor.
FrameAt(i) == [cur |-> recorded[i], prev |-> recorded[i - 1]]

Deliver(c, i, cut) ==
  /\ phase[c] = "open" /\ ~ stream[c].cut
  /\ stream[c].last # NoFrame => \E j \in 2 .. i : stream[c].last = FrameAt(j)
  /\ stream' = [stream EXCEPT ![c] = [last |-> FrameAt(i), cut |-> cut]]
  /\ UNCHANGED <<recorded, phase>>

\* The server ends one connection, or turns away all that it never took up.
Close(C) ==
  /\ C # {}
  /\ phase' = [c \in Conns |-> IF c \in C THEN "closed" ELSE phase[c]]
  /\ UNCHANGED <<recorded, stream>>

FeedNext ==
  \/ \E sample \in Samples : Record(sample)
  \/ \E c \in Conns : Open(c)
  \/ \E c \in Conns, i \in 2 .. Len(recorded), cut \in BOOLEAN : Deliver(c, i, cut)
  \/ \E C \in SUBSET Conns :
       /\ \/ \E c \in C : C = {c} /\ phase[c] = "open"
          \/ \A c \in C : phase[c] = "new"
       /\ Close(C)

FeedSpec == FeedInit /\ [][FeedNext]_feedVars

=============================================================================
