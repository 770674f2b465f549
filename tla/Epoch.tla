------------------------------- MODULE Epoch -------------------------------
(***************************************************************************)
(* The restart detector (make_epoch_tracker in src/src/lifecycle.js) fed   *)
(* by a gateway's "seconds since start of epoch" (epoch() and resetEpoch() *)
(* in src/src/pmp_server_session.js) over a network that loses, delays and *)
(* reorders packets.  Times are milliseconds, as Date.now() gives them.    *)
(***************************************************************************)
EXTENDS Integers, FiniteSets

CONSTANTS
  MaxDelay,     \* a packet is received within this time or lost
  Steps,        \* by how much the clock may advance at once
  Unheard,      \* nothing has been received yet
  MaxNow,       \* bound: length of a run
  MaxRestarts,  \* bound: restarts of the gateway
  MaxPackets    \* bound: packets under way at one time

ASSUME EpochAssumption ==
  /\ MaxDelay \in 0 .. 1000
  /\ Steps \subseteq Nat \ {0}
  /\ MaxNow \in Nat /\ MaxRestarts \in Nat /\ MaxPackets \in Nat

\* start and sent are history: the epoch the packet was sent in, and when.
Stamp == [epoch : Nat, sent : Nat, start : Nat]
Seen   == [epoch : Nat, seenAt : Nat, sent : Nat, start : Nat]

ASSUME UnheardAssumption == Unheard \notin Seen

VARIABLES
  dialect,     \* the protocol the tracker was made for
  now,         \* Date.now()
  epochStart,  \* the gateway's context.epochStart
  restarts,    \* how often the gateway has restarted
  packets,     \* packets under way
  prev,        \* the tracker's prev
  reported     \* how often observe() has returned true

epochVars == <<dialect, now, epochStart, restarts, packets, prev, reported>>

-----------------------------------------------------------------------------
Elapsed(from, to) == IF to < from THEN 0 ELSE (to - from) \div 1000

\* The test as a slip would have it; no definition uses it.
PcpLostFaulty(p, e, t) ==
  LET client == Elapsed(p.seenAt, t)
      server == e - p.epoch
  IN  \/ e < p.epoch
      \/ client + 2 < server - server \div 16
      \/ server + 2 < client - client \div 16

PcpLostOneSided(p, e, t) == e + 1 < p.epoch

\* pcp_lost().
PcpLost(p, e, t) ==
  LET client == Elapsed(p.seenAt, t)
      server == e - p.epoch
  IN  \/ e + 1 < p.epoch
      \/ client + 2 < server - server \div 16
      \/ server + 2 < client - client \div 16

\* natpmp_lost().
NatpmpLost(p, e, t) ==
  e < p.epoch + (Elapsed(p.seenAt, t) * 7) \div 8 - 2

Lost(p, e, t) ==
  IF dialect = "pcp" THEN PcpLost(p, e, t) ELSE NatpmpLost(p, e, t)

-----------------------------------------------------------------------------
EpochInit ==
  /\ dialect \in {"pcp", "natpmp"}
  /\ now = 0
  /\ epochStart = 0
  /\ restarts = 0
  /\ packets = {}
  /\ prev = Unheard
  /\ reported = 0

\* Time passes; what is under way for too long is lost.
Tick(d) ==
  /\ now + d <= MaxNow
  /\ now' = now + d
  /\ packets' = {p \in packets : now + d - p.sent <= MaxDelay}
  /\ UNCHANGED <<dialect, epochStart, restarts, prev, reported>>

\* Every reply and announcement carries epoch().
SendEpoch ==
  /\ Cardinality(packets) < MaxPackets
  /\ packets' = packets \cup
       {[epoch |-> (now - epochStart) \div 1000, sent |-> now, start |-> epochStart]}
  /\ UNCHANGED <<dialect, now, epochStart, restarts, prev, reported>>

\* resetEpoch().
ResetEpoch ==
  /\ restarts < MaxRestarts
  /\ epochStart' = now
  /\ restarts' = restarts + 1
  /\ UNCHANGED <<dialect, now, packets, prev, reported>>

ObserveStale(p) ==
  /\ p \in packets
  /\ packets' = packets \ {p}
  /\ prev' = IF prev = Unheard \/ Lost(prev, p.epoch, now)
             THEN [epoch |-> p.epoch, seenAt |-> now, sent |-> p.sent, start |-> p.start]
             ELSE prev
  /\ reported' = IF prev # Unheard /\ Lost(prev, p.epoch, now) THEN reported + 1 ELSE reported
  /\ UNCHANGED <<dialect, now, epochStart, restarts>>

\* observe().
Observe(p) ==
  /\ p \in packets
  /\ packets' = packets \ {p}
  /\ prev' = [epoch |-> p.epoch, seenAt |-> now, sent |-> p.sent, start |-> p.start]
  /\ reported' = IF prev # Unheard /\ Lost(prev, p.epoch, now) THEN reported + 1 ELSE reported
  /\ UNCHANGED <<dialect, now, epochStart, restarts>>

EpochNext ==
  \/ \E d \in Steps : Tick(d)
  \/ SendEpoch
  \/ ResetEpoch
  \/ \E p \in packets : Observe(p)

EpochSpec == EpochInit /\ [][EpochNext]_epochVars

-----------------------------------------------------------------------------
EpochTypeOK ==
  /\ dialect \in {"pcp", "natpmp"}
  /\ now \in Nat /\ epochStart \in 0 .. now /\ restarts \in Nat
  /\ packets \subseteq Stamp
  /\ prev \in Seen \cup {Unheard}
  /\ reported \in Nat

\* A loss is reported only between two packets of different epochs: no delay,
\* reordering within a second or silence makes a gateway that kept its table
\* look restarted (the +1, the +2 and the sixteenth in pcp_lost).
NoFalseAlarm ==
  [][reported' # reported => prev # Unheard /\ prev'.start # prev.start]_epochVars

\* The gateway had been up for longer than a sixteenth (PCP) or an eighth
\* (NAT-PMP) of the silence since it was last heard, and a little more.
LongUp(p, t) ==
  LET client == Elapsed(p.seenAt, t) IN
  IF dialect = "pcp" THEN p.epoch > client \div 16 + 3
  ELSE p.epoch > client - (client * 7) \div 8 + 3

\* A restart is noticed by the first packet received from the new epoch if the
\* gateway had been up long enough before: however long the silence, a fresh
\* epoch that has caught up is told from the old one.
RestartNoticed ==
  [][/\ prev # Unheard /\ prev' # prev
     /\ prev'.start > prev.start
     /\ LongUp(prev, now)
     => reported' = reported + 1]_epochVars
=============================================================================
