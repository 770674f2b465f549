----------------------------- MODULE PMPSystem -----------------------------
(***************************************************************************)
(* One client engine (PMPSession) and one gateway engine (PMPServer) over  *)
(* a network that delays, reorders and loses packets: what                 *)
(* src/src/testing.js wires together with its loopback.  A retransmission  *)
(* is a packet of its own, so a request may be served, and answered, more  *)
(* than once.  The gateway may restart, which empties its table and is     *)
(* announced in both dialects.                                             *)
(*                                                                         *)
(* The gateway's handler answers at once, leases do not run out and the    *)
(* quota is not reached: PMPServer has these on its own.                   *)
(***************************************************************************)
EXTENDS PMPSession

CONSTANTS
  Host,                     \* the client's address
  StaticPort, DynamicPort,  \* External, as the gateway divides it
  Lease, NoEntry, Idle,
  MaxRequests, MaxReplies,  \* bounds: packets under way in one direction
  MayRefuse                 \* the gateway's handler may reject or ignore a request

VARIABLES
  gateway, table, waiting,  \* the gateway
  boot,      \* the gateway's current epoch
  requests,  \* packets under way to the gateway
  replies,   \* packets under way to the client
  forgone    \* history: the internal ports a deletion was ever sent for, and those
             \* whose external port the gateway gave to another of them

client     == vars
server     == <<gateway, table, waiting, boot>>
systemVars == <<client, server, requests, replies, forgone>>

Server == INSTANCE PMPServer WITH
  Client <- {Host}, InternalPort <- Key,
  MaxMappings <- 2 * Cardinality(Key), MaxPerClient <- 2 * Cardinality(Key),
  MinLifetime <- Lease, MaxLifetime <- Lease,
  Lifetime <- {Lease}, AllowAll <- TRUE, Async <- FALSE, Steer <- FALSE, Slot <- {},
  CountBound <- 2 * Cardinality(Key), state <- gateway

\* The gateway speaks both dialects, and what the network does not lose it may
\* deliver in any order.
ASSUME SystemAssumption ==
  /\ Key \subseteq Nat /\ IsFiniteSet(Key)
  /\ External = StaticPort \cup DynamicPort /\ IsFiniteSet(External)
  /\ Speaks = Dialect /\ Reordered
  /\ Lease \in Nat \ {0}
  /\ MaxRequests \in Nat /\ MaxReplies \in Nat /\ MayRefuse \in BOOLEAN
  /\ NoEntry \notin Server!Entry /\ Idle \notin Server!Waiting

-----------------------------------------------------------------------------
Held(t, k) == t.byInternal[<<Host, "tcp", k>>]

\* What the gateway writes into its replies.
ReplyTo(p, ext, lease, result) ==
  [dialect |-> p.dialect, kind |-> p.kind,
   key |-> IF p.dialect = "natpmp" /\ p.kind = "map" THEN p.key ELSE None,
   ext |-> ext, lease |-> lease, nonce |-> p.nonce, result |-> result, boot |-> boot]

Announcements(b) ==
  {[dialect |-> d, kind |-> IF d = "pcp" THEN "announce" ELSE "address", key |-> None,
    ext |-> 0, lease |-> FALSE, nonce |-> 0, result |-> "ok", boot |-> b] :
     d \in {"pcp", "natpmp"}}

-----------------------------------------------------------------------------
SystemInit ==
  /\ Init
  /\ Server!Init
  /\ boot = 0
  /\ requests = {}
  /\ replies = {}
  /\ forgone = {}

\* What a step of the client emits goes under way.
Emit ==
  IF out' = None THEN UNCHANGED <<requests, forgone>>
  ELSE /\ Cardinality(requests \cup {out'}) <= MaxRequests
       /\ requests' = requests \cup {out'}
       /\ forgone' = IF out'.delete THEN forgone \cup {out'.key} ELSE forgone

\* An API call or a timer of the client.
ClientStep ==
  /\ CallStep \/ TimerStep
  /\ Emit
  /\ UNCHANGED <<server, replies>>

\* A reply reaches the client, which may send its next request at once.
ClientReceives(m) ==
  /\ m \in replies
  /\ Receive(m)
  /\ replies' = replies \ {m}
  /\ Emit
  /\ UNCHANGED server

Respond(p, m) ==
  /\ requests' = requests \ {p}
  /\ replies' = replies \cup {m}
  /\ Cardinality(replies') <= MaxReplies
  /\ UNCHANGED <<client, boot>>

\* decide() grants a mapping; the reply tells the port the table now holds.
ServeMap(p) ==
  /\ p \in requests /\ p.kind = "map" /\ ~p.delete
  /\ Server!MapNow([client |-> Host, protocol |-> "tcp", iport |-> p.key,
                    eport |-> p.ext, lifetime |-> Lease])
  /\ Held(table', p.key) # 0
  /\ forgone' = forgone \cup {k \in Key \ {p.key} : Held(table, k) = Held(table', p.key)}
  /\ Respond(p, ReplyTo(p, Held(table', p.key), TRUE, "ok"))

\* The handler rejects it, or no port is left.
RefuseMap(p) ==
  /\ MayRefuse
  /\ p \in requests /\ p.kind = "map" /\ ~p.delete
  /\ Respond(p, ReplyTo(p, 0, FALSE, "error"))
  /\ UNCHANGED <<gateway, table, waiting, forgone>>

\* Deleting what is not held looks like a success too.
ServeDelete(p) ==
  /\ p \in requests /\ p.kind = "map" /\ p.delete
  /\ IF Held(table, p.key) # 0 THEN Server!DeleteOne(Host, "tcp", p.key)
     ELSE UNCHANGED <<gateway, table, waiting>>
  /\ Respond(p, ReplyTo(p, 0, FALSE, "ok"))
  /\ UNCHANGED forgone

\* ANNOUNCE and the external address.
ServeOther(p) ==
  /\ p \in requests /\ p.kind # "map"
  /\ Respond(p, ReplyTo(p, 0, FALSE, "ok"))
  /\ UNCHANGED <<gateway, table, waiting, forgone>>

\* resetEpoch() and the first announcement of the series.
Restart ==
  /\ boot < MaxBoot
  /\ boot' = boot + 1
  /\ Server!ResetEpoch
  /\ replies' = replies \cup Announcements(boot')
  /\ Cardinality(replies') <= MaxReplies
  /\ UNCHANGED <<client, requests, forgone>>

\* The network loses a packet.
Lose ==
  \/ \E p \in requests : requests' = requests \ {p} /\ UNCHANGED <<client, server, replies, forgone>>
  \/ \E m \in replies : replies' = replies \ {m} /\ UNCHANGED <<client, server, requests, forgone>>

SystemNext ==
  \/ ClientStep
  \/ \E m \in replies : ClientReceives(m)
  \/ \E p \in requests : ServeMap(p)
  \/ \E p \in requests : RefuseMap(p)
  \/ \E p \in requests : ServeDelete(p)
  \/ \E p \in requests : ServeOther(p)
  \/ Restart
  \/ Lose

SystemSpec == SystemInit /\ [][SystemNext]_systemVars

-----------------------------------------------------------------------------
\* A client that has heard nothing from another epoch than the gateway's own.
UpToDate == \A d \in {"pcp", "natpmp"} : epoch[d] \in {None, boot}

\* What the client reports as ACTIVE the gateway forwards, on the port the
\* client was told, once the client has noticed the restarts there were:
\* through retransmissions, late replies and replies of an earlier epoch.  Left
\* out is what is forgone: a deletion may overtake what was asked for later, and
\* the gateway may give an internal port's external port to another internal
\* port of the same client, which no reply tells the first.
ActiveIsForwarded ==
  \A k \in Key \ forgone :
    /\ state = "open" /\ UpToDate
    /\ mappings[k] # None /\ mappings[k].state = "ACTIVE"
    => Held(table, k) = mappings[k].ext
=============================================================================
