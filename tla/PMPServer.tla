----------------------------- MODULE PMPServer -----------------------------
(***************************************************************************)
(* The gateway engine for PCP and NAT-PMP (src/src/pmp_server_session.js)  *)
(* with the decision object of src/src/control.js: the mapping table, its  *)
(* two indexes, the expiry timers, and the requests that wait for an       *)
(* asynchronous 'port-request' handler while other packets are processed.  *)
(*                                                                         *)
(* Both dialects reach decide() with the same normalised request, so the   *)
(* dialect is not part of the state.  Time is abstract: an armed timer may *)
(* fire at any moment.  A packet is handled in one step, as JavaScript     *)
(* runs it; only the wait for a handler's done() splits a request in two.  *)
(***************************************************************************)
EXTENDS Integers, FiniteSets

CONSTANTS
  Client,        \* LAN addresses, the source address of a request
  InternalPort,  \* internal ports the clients ask for
  StaticPort,    \* external ports a client may ask for by number
  DynamicPort,   \* DYNAMIC_PORT_MIN .. DYNAMIC_PORT_MAX
  NoEntry,       \* the table holds nothing under a key
  Idle,          \* no request waits in a slot
  MaxMappings,   \* options.maxMappings
  MaxPerClient,  \* options.maxPerClient
  MinLifetime,   \* options.minLifetime
  MaxLifetime,   \* options.maxLifetime
  Lifetime,      \* the lifetimes requested, and the caps a handler may set
  AllowAll,      \* options.policy = "allow-all"
  Async,         \* the handler declares a done callback
  Steer,         \* the handler may assign control.externalPort
  Slot,          \* bound: requests waiting for their handler at one time
  CountBound     \* bound: how far the counters of the table may drift

Protocol     == {"tcp", "udp"}
ExternalPort == StaticPort \cup DynamicPort
NoPort       == 0
ExternalKey  == Protocol \X ExternalPort
InternalKey  == Client \X Protocol \X InternalPort

Entry == [client : Client, iport : InternalPort, lifetime : Nat]

Request == [client : Client, protocol : Protocol, iport : InternalPort,
            eport : ExternalPort \cup {NoPort}, lifetime : Lifetime]

\* A request waiting for done(): what decide() read before it emitted
\* 'port-request', and the port the control object proposes.
Waiting == [req : Request, existing : ExternalPort \cup {NoPort}]

ASSUME PortAssumption ==
  /\ ExternalPort \subseteq Nat \ {NoPort}
  /\ InternalPort \subseteq Nat
  /\ IsFiniteSet(ExternalPort)

ASSUME NullAssumption == NoEntry \notin Entry /\ Idle \notin Waiting

ASSUME LimitAssumption ==
  /\ MaxMappings \in Nat
  /\ MaxPerClient \in Nat
  /\ MinLifetime \in Nat
  /\ MaxLifetime \in Nat
  /\ CountBound \in Nat
  /\ Lifetime \subseteq Nat \ {0}

ASSUME ModeAssumption == AllowAll \in BOOLEAN /\ Async \in BOOLEAN /\ Steer \in BOOLEAN

VARIABLES
  state,    \* context.state
  table,    \* context.mappings with its indexes and timers, see Table
  waiting   \* the closures of decide() waiting in when_control_done()

vars == <<state, table, waiting>>

(***************************************************************************)
(* The mapping table.  byInternal holds the external port of the entry it  *)
(* points to; timers holds the keys whose expiry timer is running.         *)
(***************************************************************************)
Table == [mappings   : [ExternalKey -> Entry \cup {NoEntry}],
          byInternal : [InternalKey -> ExternalPort \cup {NoPort}],
          byClient   : [Client -> Int],
          count      : Int,
          timers     : SUBSET ExternalKey]

EmptyTable == [mappings   |-> [k \in ExternalKey |-> NoEntry],
               byInternal |-> [i \in InternalKey |-> NoPort],
               byClient   |-> [c \in Client |-> 0],
               count      |-> 0,
               timers     |-> {}]

Live(t)      == {k \in ExternalKey : t.mappings[k] # NoEntry}
LiveOf(t, c) == {k \in Live(t) : t.mappings[k].client = c}

\* The index key of the entry held under k.
InternalOf(t, k) == <<t.mappings[k].client, k[1], t.mappings[k].iport>>

Companion(k) == <<IF k[1] = "tcp" THEN "udp" ELSE "tcp", k[2]>>

(***************************************************************************)
(* The operators below named ...Faulty are plausible slips in the code they *)
(* precede; no definition uses them.                                        *)
(***************************************************************************)

\* index_add: the pointer is overwritten, the counters always grow.
IndexAdd(t, k) ==
  [t EXCEPT !.byInternal[InternalOf(t, k)]   = k[2],
            !.byClient[t.mappings[k].client] = @ + 1,
            !.count                          = @ + 1]

IndexRemoveFaulty(t, k) ==   \* the pointer is left behind
  [t EXCEPT !.byClient[t.mappings[k].client] = IF @ <= 1 THEN 0 ELSE @ - 1,
            !.count                          = @ - 1]

\* index_remove: a client's counter never goes below zero.
IndexRemove(t, k) ==
  [t EXCEPT !.byInternal[InternalOf(t, k)]   = NoPort,
            !.byClient[t.mappings[k].client] = IF @ <= 1 THEN 0 ELSE @ - 1,
            !.count                          = @ - 1]

Arm(t, k) ==
  [t EXCEPT !.timers = IF t.mappings[k].lifetime > 0 THEN @ \cup {k} ELSE @]

\* store() on a free key.
StoreNew(t, k, e) ==
  Arm(IndexAdd([t EXCEPT !.mappings[k] = e], k), k)

StoreExistingFaulty(t, k, e) ==   \* the old index key is kept on a move
  LET updated == [t EXCEPT !.mappings[k].iport    = e.iport,
                           !.mappings[k].lifetime = e.lifetime,
                           !.timers               = @ \ {k}]
  IN  Arm(IF updated.byInternal[InternalOf(updated, k)] = NoPort
          THEN IndexAdd(updated, k) ELSE updated, k)

\* store() on a key this client holds already: the entry is re-pointed at
\* the requested internal port and its timer restarted.
StoreExisting(t, k, e) ==
  LET moved   == t.mappings[k].iport # e.iport
      dropped == IF moved THEN IndexRemove(t, k) ELSE t
      updated == [dropped EXCEPT !.mappings[k].iport    = e.iport,
                                 !.mappings[k].lifetime = e.lifetime,
                                 !.timers               = @ \ {k}]
      indexed == IF updated.byInternal[InternalOf(updated, k)] = NoPort
                 THEN IndexAdd(updated, k) ELSE updated
  IN  Arm(indexed, k)

Store(t, k, e) ==
  IF k \in Live(t) THEN StoreExisting(t, k, e) ELSE StoreNew(t, k, e)

RemoveFaulty(t, k) ==   \* the expiry timer is not cleared
  IF k \notin Live(t) THEN t
  ELSE [IndexRemove(t, k) EXCEPT !.mappings[k] = NoEntry]

\* remove(): nothing happens when the key is not held.
Remove(t, k) ==
  IF k \notin Live(t) THEN t
  ELSE [IndexRemove(t, k) EXCEPT !.mappings[k] = NoEntry,
                                 !.timers      = @ \ {k}]

RemoveAllForFaulty(t, c, p) ==   \* deletes without going through the index
  LET gone == {k \in LiveOf(t, c) : k[1] = p}
  IN  [t EXCEPT !.mappings   = [k \in ExternalKey |-> IF k \in gone THEN NoEntry ELSE @[k]],
                !.byInternal = [i \in InternalKey |->
                                  IF i[1] = c /\ i[2] = p THEN NoPort ELSE @[i]],
                !.timers     = @ \ gone]

RemoveAnyFaulty(t, c, p) ==   \* the owner test is lost
  [t EXCEPT !.mappings = [k \in ExternalKey |-> IF k[1] = p THEN NoEntry ELSE @[k]]]

\* remove_all_for(): every entry of one client under one protocol.
RemoveAllFor(t, c, p) ==
  LET gone == {k \in LiveOf(t, c) : k[1] = p}
      left == t.byClient[c] - Cardinality(gone)
  IN  [mappings   |-> [k \in ExternalKey |-> IF k \in gone THEN NoEntry ELSE t.mappings[k]],
       byInternal |-> [i \in InternalKey |->
                         IF \E k \in gone : InternalOf(t, k) = i
                         THEN NoPort ELSE t.byInternal[i]],
       byClient   |-> [t.byClient EXCEPT ![c] = IF left < 0 THEN 0 ELSE left],
       count      |-> t.count - Cardinality(gone),
       timers     |-> t.timers \ gone]

(***************************************************************************)
(* Port allocation.                                                        *)
(***************************************************************************)

IsFreeFaulty(t, k, c) ==   \* the companion protocol is not looked at
  k \in Live(t) => t.mappings[k].client = c

\* is_free(): a held port is free to its own holder; a port whose companion
\* protocol is held by somebody else is not free.
IsFree(t, k, c) ==
  IF k \in Live(t)
  THEN t.mappings[k].client = c
  ELSE Companion(k) \in Live(t) => t.mappings[Companion(k)].client = c

\* allocate_port(): the wanted port when it is free, else any free dynamic
\* one (the scan starts at a random port); the empty set is the null result.
Allocations(t, p, wanted, c) ==
  IF wanted \in ExternalPort /\ IsFree(t, <<p, wanted>>, c)
  THEN {wanted}
  ELSE {d \in DynamicPort : IsFree(t, <<p, d>>, c)}

Least(a, b) == IF a <= b THEN a ELSE b

ClampLifetime(requested) ==
  IF requested = 0 THEN 0
  ELSE IF requested > MaxLifetime THEN MaxLifetime
  ELSE IF requested < MinLifetime THEN MinLifetime
  ELSE requested

(***************************************************************************)
(* decide().                                                               *)
(***************************************************************************)
HeldPort(t, r) == t.byInternal[<<r.client, r.protocol, r.iport>>]

Proposed(w) == IF w.existing # NoPort THEN w.existing ELSE w.req.eport

WithinQuotaFaulty(t, r) ==   \* off by one
  HeldPort(t, r) = NoPort =>
    /\ t.count <= MaxMappings
    /\ t.byClient[r.client] <= MaxPerClient

\* Both limits are tested only for an internal port not mapped yet.
WithinQuota(t, r) ==
  HeldPort(t, r) = NoPort =>
    /\ t.count < MaxMappings
    /\ t.byClient[r.client] < MaxPerClient

GrantedFaulty(t, w, port, ttl) ==   \* ports swapped in the record
  Store(t, <<w.req.protocol, port>>,
        [client |-> w.req.client, iport |-> port, lifetime |-> ClampLifetime(ttl)])

\* The table after port is granted: the entry found before the wait is
\* dropped when the request ends up elsewhere.
Granted(t, w, port, ttl) ==
  LET r     == w.req
      stale == w.existing # NoPort /\ w.existing # port
      freed == IF stale THEN Remove(t, <<r.protocol, w.existing>>) ELSE t
  IN  Store(freed, <<r.protocol, port>>,
            [client   |-> r.client,
             iport    |-> r.iport,
             lifetime |-> ClampLifetime(IF ttl = 0 THEN r.lifetime
                                        ELSE Least(r.lifetime, ttl))])

\* What the handler decided: "none" is a handler that said nothing before its
\* done() or before the guard fired.
Verdict == {"allow", "reject", "ignore", "none"}

Allowed(verdict) == verdict = "allow" \/ (verdict = "none" /\ AllowAll)

\* What a handler may leave in control.externalPort and control.maxTtl.
Steers(w) == IF Steer THEN ExternalPort \cup {NoPort, Proposed(w)} ELSE {Proposed(w)}
Caps      == Lifetime \cup {MaxLifetime}

\* The continuation of decide(): refused, ignored and no port left all leave
\* the table alone.
Resolve(w) ==
  \E verdict \in Verdict :
    \/ ~Allowed(verdict) /\ table' = table
    \/ /\ Allowed(verdict)
       /\ \E wanted \in Steers(w), ttl \in Caps :
            LET ports == Allocations(table, w.req.protocol, wanted, w.req.client)
            IN  \/ ports = {} /\ table' = table
                \/ \E port \in ports : table' = Granted(table, w, port, ttl)

(***************************************************************************)
(* Actions.                                                                *)
(***************************************************************************)
Init ==
  /\ state = "new"
  /\ table = EmptyTable
  /\ waiting = [s \in Slot |-> Idle]

Listening ==
  /\ state # "destroyed"
  /\ state' = "listening"
  /\ UNCHANGED <<table, waiting>>

\* A deletion naming one internal port needs no approval.
DeleteOne(c, p, i) ==
  /\ state # "destroyed"
  /\ LET held == table.byInternal[<<c, p, i>>]
     IN  /\ held # NoPort
         /\ table' = Remove(table, <<p, held>>)
  /\ UNCHANGED <<state, waiting>>

\* A deletion with both ports zero.
DeleteAll(c, p) ==
  /\ state # "destroyed"
  /\ table' = RemoveAllFor(table, c, p)
  /\ UNCHANGED <<state, waiting>>

\* A mapping request answered within the handler, or with no handler at all.
MapNow(r) ==
  /\ state # "destroyed"
  /\ ~Async
  /\ WithinQuota(table, r)
  /\ Resolve([req |-> r, existing |-> HeldPort(table, r)])
  /\ UNCHANGED <<state, waiting>>

\* A mapping request whose handler takes a done callback: the quota is
\* tested and the existing mapping looked up now, and used in Resume.  The
\* counters can drift without end, hence the bound.
MapLater(r, s) ==
  /\ state # "destroyed"
  /\ \A c \in Client : table.byClient[c] <= CountBound
  /\ table.count \in -CountBound .. CountBound
  /\ Async
  /\ waiting[s] = Idle
  /\ WithinQuota(table, r)
  /\ waiting' = [waiting EXCEPT ![s] = [req |-> r, existing |-> HeldPort(table, r)]]
  /\ UNCHANGED <<state, table>>

\* done() is called, or the guard of when_control_done() fires; nothing here
\* looks at the state of the session.
Resume(s) ==
  /\ waiting[s] # Idle
  /\ Resolve(waiting[s])
  /\ waiting' = [waiting EXCEPT ![s] = Idle]
  /\ UNCHANGED state

\* An expiry timer fires.
Expire(k) ==
  /\ k \in table.timers
  /\ table' = Remove([table EXCEPT !.timers = @ \ {k}], k)
  /\ UNCHANGED <<state, waiting>>

Revoke(k) ==
  /\ k \in Live(table)
  /\ table' = Remove(table, k)
  /\ UNCHANGED <<state, waiting>>

ResetEpoch ==
  /\ table' = EmptyTable
  /\ UNCHANGED <<state, waiting>>

Destroy ==
  /\ state # "destroyed"
  /\ state' = "destroyed"
  /\ table' = EmptyTable
  /\ UNCHANGED waiting

Next ==
  \/ Listening
  \/ \E c \in Client, p \in Protocol, i \in InternalPort : DeleteOne(c, p, i)
  \/ \E c \in Client, p \in Protocol : DeleteAll(c, p)
  \/ \E r \in Request : MapNow(r)
  \/ \E r \in Request, s \in Slot : MapLater(r, s)
  \/ \E s \in Slot : Resume(s)
  \/ \E k \in ExternalKey : Expire(k)
  \/ \E k \in ExternalKey : Revoke(k)
  \/ ResetEpoch
  \/ Destroy

Spec == Init /\ [][Next]_vars

-----------------------------------------------------------------------------
TypeOK ==
  /\ state \in {"new", "listening", "destroyed"}
  /\ table \in Table
  /\ waiting \in [Slot -> Waiting \cup {Idle}]

\* RFC 6886 3.3 as is_free() enforces it: while a client holds a port under
\* one protocol, nobody else holds the same number under the other one,
\* whatever the handlers decide and however long they take.
CompanionReserved ==
  \A k \in Live(table) :
    Companion(k) \in Live(table) =>
      table.mappings[Companion(k)].client = table.mappings[k].client

\* byInternal and the table agree in both directions, through renewals,
\* re-pointed ports and reallocations; in particular one internal port has
\* at most one external port, and a client can always find what it holds in
\* order to delete it.
IndexExact ==
  \A i \in InternalKey, e \in ExternalPort :
    table.byInternal[i] = e <=>
      <<i[2], e>> \in Live(table) /\ InternalOf(table, <<i[2], e>>) = i

\* Every pointer of byInternal leads to a live entry for that internal port,
\* however a waiting request was overtaken.
PointersLive ==
  \A i \in InternalKey :
    table.byInternal[i] # NoPort =>
      LET k == <<i[2], table.byInternal[i]>>
      IN  k \in Live(table) /\ InternalOf(table, k) = i

\* The counters the quota is tested against count the table, for the gateway
\* and for every client.
CountersExact ==
  /\ table.count = Cardinality(Live(table))
  /\ \A c \in Client : table.byClient[c] = Cardinality(LiveOf(table, c))

\* maxMappings and maxPerClient bound the table itself.
QuotaRespected ==
  /\ Cardinality(Live(table)) <= MaxMappings
  /\ \A c \in Client : Cardinality(LiveOf(table, c)) <= MaxPerClient

\* An expiry timer runs for exactly the finite leases that are held: none is
\* left behind to remove a later holder of the port, none is missing.
TimersExact ==
  table.timers = {k \in Live(table) : table.mappings[k].lifetime > 0}

\* Every lease granted lies between the configured bounds, whatever lifetime
\* was asked for and whatever cap the handler set.
LeaseBounded ==
  MinLifetime <= MaxLifetime =>
    \A k \in Live(table) : table.mappings[k].lifetime \in MinLifetime .. MaxLifetime

\* A destroyed engine holds no mapping and runs no timer.
DestroyedIsEmpty ==
  state = "destroyed" => Live(table) = {} /\ table.timers = {}

\* The steps taken on behalf of one client.
StepOf(c) ==
  \/ \E r \in Request : r.client = c /\ MapNow(r)
  \/ \E s \in Slot : waiting[s] # Idle /\ waiting[s].req.client = c /\ Resume(s)
  \/ \E p \in Protocol, i \in InternalPort : DeleteOne(c, p, i)
  \/ \E p \in Protocol : DeleteAll(c, p)

\* A client only ever removes or changes what it owns: no step taken for one
\* client touches an entry of another.
OthersUntouched ==
  [][\A k \in Live(table) :
       table'.mappings[k] # table.mappings[k] =>
         \A c \in Client \ {table.mappings[k].client} : ~StepOf(c)]_vars
=============================================================================
