----------------------------- MODULE UPnPServer -----------------------------
(***************************************************************************)
(* The UPnP gateway engine (src/src/upnp_server_session.js): its port      *)
(* mappings with their tally per client, their expiry timers and the       *)
(* sorted list kept between the calls of a client that walks the table,    *)
(* and its IPv6 pinholes.  A handler of the policy may answer at once or   *)
(* later, while other control requests are served.                         *)
(*                                                                         *)
(* TCP and UDP never meet here, so a port stands for a protocol and port.  *)
(* Leases are finite or permanent, and an armed timer may fire at any      *)
(* moment.  Discovery and event subscriptions are left out.  Operators     *)
(* named ...Faulty are plausible slips in the code they precede; no        *)
(* definition uses them.                                                   *)
(***************************************************************************)
EXTENDS Naturals, FiniteSets

CONSTANTS
  Client,        \* LAN addresses
  InternalPort,  \* internal ports the clients ask for
  StaticPort,    \* external ports a client may ask for by number
  DynamicPort,   \* DYNAMIC_PORT_MIN .. DYNAMIC_PORT_MAX
  None,          \* no mapping, no pinhole, no list kept, no request waiting
  MaxMappings,   \* options.maxMappings
  MaxPerClient,  \* options.maxPerClient
  AllowAll,      \* options.policy = "allow-all"
  Steer,         \* the handler may assign control.externalPort
  ThirdParty,    \* options.allowThirdPartyMappings
  MaxId,         \* 65535, the last pinhole id before they start again at 1
  Slot,          \* bound: requests waiting for their handler at one time
  TimerBound     \* bound: timers running for one pinhole id

NoPort    == 0
Port      == StaticPort \cup DynamicPort \cup {NoPort}
PinholeId == 1 .. MaxId

Entry   == [client : Client, iport : InternalPort, finite : BOOLEAN]
Pinhole == [finite : BOOLEAN]

\* AddPortMapping and, with any, AddAnyPortMapping.
MapRequest     == [client : Client, iport : InternalPort, port : StaticPort \cup {NoPort},
                   finite : BOOLEAN, any : BOOLEAN]
PinholeRequest == [finite : BOOLEAN]

ASSUME UPnPServerAssumption ==
  /\ StaticPort \cup DynamicPort \subseteq Nat \ {NoPort}
  /\ IsFiniteSet(StaticPort) /\ IsFiniteSet(DynamicPort)
  /\ None \notin Entry \cup Pinhole \cup MapRequest
  /\ \A list \in SUBSET Port : None # list
  /\ {MaxMappings, MaxPerClient, TimerBound} \subseteq Nat
  /\ MaxId \in Nat \ {0}
  /\ {AllowAll, Steer, ThirdParty} \subseteq BOOLEAN

VARIABLES
  destroyed,
  mappings,  \* context.mappings
  tally,     \* client_counts
  timers,    \* ports whose expiry timer is running
  sorted,    \* sorted_cache: the ports listed
  waiting,   \* requests waiting in when_control_done()
  pinholes,  \* context.pinholes
  nextId,    \* context.nextPinholeId
  ptimers,   \* how many timers run that delete the pinhole of an id
  reused     \* ids given again while their pinhole was still open

tableVars   == <<mappings, tally, timers, sorted>>
pinholeVars == <<pinholes, nextId, ptimers, reused>>
vars        == <<destroyed, tableVars, waiting, pinholeVars>>

Live       == {p \in Port : mappings[p] # None}
LiveOf(c)  == {p \in Live : mappings[p].client = c}

\* sorted_mappings(): the list kept, or a new one.
Sorted == IF sorted = None THEN Live ELSE sorted

-----------------------------------------------------------------------------
(* The mapping table.                                                      *)

IsFree(p, c) == p \in Live => mappings[p].client = c

\* allocate_port(): the wanted port, or else any free dynamic one.
Allocations(wanted, c) ==
  IF wanted # NoPort /\ IsFree(wanted, c) THEN {wanted}
  ELSE {d \in DynamicPort : IsFree(d, c)}

\* count_remove(): a tally never goes below zero.
Dropped(c, n) == IF n >= tally[c] THEN 0 ELSE tally[c] - n

RemoveFaulty(gone) ==   \* the list kept is not dropped
  /\ mappings' = [p \in Port |-> IF p \in gone THEN None ELSE mappings[p]]
  /\ timers' = timers \ gone
  /\ tally' = [c \in Client |-> Dropped(c, Cardinality(gone \cap LiveOf(c)))]
  /\ sorted' = Sorted

\* remove(), for each of a set of live ports.
Remove(gone) ==
  /\ mappings' = [p \in Port |-> IF p \in gone THEN None ELSE mappings[p]]
  /\ timers' = timers \ gone
  /\ tally' = [c \in Client |-> Dropped(c, Cardinality(gone \cap LiveOf(c)))]
  /\ sorted' = IF gone = {} THEN sorted ELSE None

\* The end of do_add_mapping(): an entry there is keeps its holder, and the
\* list kept stays good for it.
Store(p, r, list) ==
  /\ timers' = IF r.finite THEN timers \cup {p} ELSE timers \ {p}
  /\ IF p \in Live
     THEN /\ mappings' = [mappings EXCEPT ![p].iport = r.iport, ![p].finite = r.finite]
          /\ sorted' = list
          /\ UNCHANGED tally
     ELSE /\ mappings' = [mappings EXCEPT ![p] =
                            [client |-> r.client, iport |-> r.iport, finite |-> r.finite]]
          /\ tally' = [tally EXCEPT ![r.client] = @ + 1]
          /\ sorted' = None

-----------------------------------------------------------------------------
(* The policy: what the handlers have said when the wait is over.          *)

Verdict == {"allow", "reject", "ignore", "none"}

\* allow-all is control.allow() before the handlers are asked; ignore() is
\* not looked at.
Allowed(verdict) == verdict = "allow" \/ (AllowAll /\ verdict # "reject")

-----------------------------------------------------------------------------
(* Port mapping actions.                                                   *)

Held(r) == r.port \in Live

\* The port is held by somebody else.
Contested(r) == Held(r) /\ mappings[r.port].client # r.client

\* The limits are tested when the port asked for is free.
WithinQuota(r) ==
  ~Held(r) => Cardinality(Sorted) < MaxMappings /\ tally[r.client] < MaxPerClient

\* What passes the tests before the handlers are asked.
Admitted(r) == (Contested(r) => r.any) /\ WithinQuota(r)

GrantsFaulty(r, wanted) ==   \* the port was free before the wait
  IF r.any THEN Allocations(wanted, r.client) ELSE {wanted}

\* The ports do_add_mapping() may end up with after the wait.
Grants(r, wanted) ==
  IF r.any THEN Allocations(wanted, r.client)
  ELSE {p \in {wanted} : IsFree(p, r.client)}

\* What follows the handlers' verdict; list is the sorted list kept by then.
Decide(r, verdict, list) ==
  \/ /\ ~Allowed(verdict)
     /\ sorted' = list
     /\ UNCHANGED <<mappings, tally, timers>>
  \/ /\ Allowed(verdict)
     /\ \E wanted \in IF Steer THEN Port ELSE {r.port} :
          \/ \E p \in Grants(r, wanted) : Store(p, r, list)
          \/ /\ Grants(r, wanted) = {}
             /\ sorted' = list
             /\ UNCHANGED <<mappings, tally, timers>>

\* The tests before the handlers count the table, which keeps the list.
Counted(r) == IF Held(r) THEN sorted ELSE Sorted

\* An add request the handlers answer at once.
MapNow(r, verdict) ==
  /\ ~destroyed
  /\ Admitted(r)
  /\ Decide(r, verdict, Counted(r))
  /\ UNCHANGED <<destroyed, waiting, pinholeVars>>

\* An add request whose handler answers later.
MapLater(r, s) ==
  /\ ~destroyed
  /\ waiting[s] = None
  /\ Admitted(r)
  /\ waiting' = [waiting EXCEPT ![s] = r]
  /\ sorted' = Counted(r)
  /\ UNCHANGED <<destroyed, mappings, tally, timers, pinholeVars>>

\* done() is called or the guard of when_control_done() fires; nothing here
\* looks at whether the engine was destroyed since.
MapResumed(s, verdict) ==
  /\ waiting[s] \in MapRequest
  /\ Decide(waiting[s], verdict, sorted)
  /\ waiting' = [waiting EXCEPT ![s] = None]
  /\ UNCHANGED <<destroyed, pinholeVars>>

DeletePortMapping(c, p) ==
  /\ ~destroyed
  /\ p \in Live
  /\ ThirdParty \/ mappings[p].client = c
  /\ Remove({p})
  /\ UNCHANGED <<destroyed, waiting, pinholeVars>>

\* DeletePortMappingRange: the caller's own mappings of a range of ports.
DeleteRange(c, first, last) ==
  /\ ~destroyed
  /\ first <= last
  /\ LET gone == {p \in Sorted : /\ first <= p /\ p <= last
                                 /\ ThirdParty \/ mappings[p].client = c}
     IN  /\ gone # {}
         /\ Remove(gone)
  /\ UNCHANGED <<destroyed, waiting, pinholeVars>>

\* Whatever lists or counts the mappings: an entry by its index, the list of
\* a range, the number of entries, getMappings().
Walk ==
  /\ sorted' = Sorted
  /\ UNCHANGED <<destroyed, mappings, tally, timers, waiting, pinholeVars>>

Expire(p) ==
  /\ p \in timers
  /\ Remove({p})
  /\ UNCHANGED <<destroyed, waiting, pinholeVars>>

Revoke(p) ==
  /\ p \in Live
  /\ Remove({p})
  /\ UNCHANGED <<destroyed, waiting, pinholeVars>>

-----------------------------------------------------------------------------
(* Pinhole actions.  None of them looks at who opened the pinhole.         *)

Timed(id)  == pinholes[id] # None /\ pinholes[id].finite
Ticks(f)   == IF f THEN 1 ELSE 0

OpenPinholeFaulty(r) ==   \* the ids do not start again
  /\ nextId' = nextId + 1
  /\ ptimers[nextId] + Ticks(r.finite) <= TimerBound
  /\ pinholes' = [pinholes EXCEPT ![nextId] = r]
  /\ ptimers' = [ptimers EXCEPT ![nextId] = @ + Ticks(r.finite)]
  /\ reused' = IF pinholes[nextId] = None THEN reused ELSE reused \cup {nextId}

\* An id is taken in turn, also when its last pinhole is still open: that one
\* is forgotten and its timer left running.
OpenPinhole(r) ==
  LET id == nextId IN
  /\ nextId' = IF id = MaxId THEN 1 ELSE id + 1
  /\ ptimers[id] + Ticks(r.finite) <= TimerBound
  /\ pinholes' = [pinholes EXCEPT ![id] = r]
  /\ ptimers' = [ptimers EXCEPT ![id] = @ + Ticks(r.finite)]
  /\ reused' = IF pinholes[id] = None THEN reused ELSE reused \cup {id}

PinholeNow(r) ==
  /\ ~destroyed
  /\ OpenPinhole(r)
  /\ UNCHANGED <<destroyed, tableVars, waiting>>

PinholeLater(r, s) ==
  /\ ~destroyed
  /\ waiting[s] = None
  /\ waiting' = [waiting EXCEPT ![s] = r]
  /\ UNCHANGED <<destroyed, tableVars, pinholeVars>>

PinholeResumed(s, verdict) ==
  /\ waiting[s] \in PinholeRequest
  /\ IF Allowed(verdict) THEN OpenPinhole(waiting[s]) ELSE UNCHANGED pinholeVars
  /\ waiting' = [waiting EXCEPT ![s] = None]
  /\ UNCHANGED <<destroyed, tableVars>>

UpdatePinhole(id, finite) ==
  /\ ~destroyed
  /\ pinholes[id] # None
  /\ ptimers[id] - Ticks(Timed(id)) + Ticks(finite) <= TimerBound
  /\ pinholes' = [pinholes EXCEPT ![id].finite = finite]
  /\ ptimers' = [ptimers EXCEPT ![id] = @ - Ticks(Timed(id)) + Ticks(finite)]
  /\ UNCHANGED <<destroyed, tableVars, waiting, nextId, reused>>

DeletePinholeFaulty(id) ==   \* the timer is left running
  /\ ~destroyed
  /\ pinholes[id] # None
  /\ pinholes' = [pinholes EXCEPT ![id] = None]
  /\ UNCHANGED <<destroyed, tableVars, waiting, nextId, reused, ptimers>>

DeletePinhole(id) ==
  /\ ~destroyed
  /\ pinholes[id] # None
  /\ pinholes' = [pinholes EXCEPT ![id] = None]
  /\ ptimers' = [ptimers EXCEPT ![id] = @ - Ticks(Timed(id))]
  /\ UNCHANGED <<destroyed, tableVars, waiting, nextId, reused>>

\* A timer deletes whatever pinhole has its id by now.
PinholeExpires(id) ==
  /\ ptimers[id] > 0
  /\ pinholes' = [pinholes EXCEPT ![id] = None]
  /\ ptimers' = [ptimers EXCEPT ![id] = @ - 1]
  /\ UNCHANGED <<destroyed, tableVars, waiting, nextId, reused>>

-----------------------------------------------------------------------------
\* The tally and the list kept stay as they are.
Destroy ==
  /\ ~destroyed
  /\ destroyed' = TRUE
  /\ mappings' = [p \in Port |-> None]
  /\ timers' = {}
  /\ pinholes' = [id \in PinholeId |-> None]
  /\ ptimers' = [id \in PinholeId |-> ptimers[id] - Ticks(Timed(id))]
  /\ UNCHANGED <<tally, sorted, waiting, nextId, reused>>

Init ==
  /\ destroyed = FALSE
  /\ mappings = [p \in Port |-> None]
  /\ tally = [c \in Client |-> 0]
  /\ timers = {}
  /\ sorted = None
  /\ waiting = [s \in Slot |-> None]
  /\ pinholes = [id \in PinholeId |-> None]
  /\ nextId = 1
  /\ ptimers = [id \in PinholeId |-> 0]
  /\ reused = {}

Next ==
  \/ \E r \in MapRequest, verdict \in Verdict : MapNow(r, verdict)
  \/ \E r \in MapRequest, s \in Slot : MapLater(r, s)
  \/ \E s \in Slot, verdict \in Verdict : MapResumed(s, verdict)
  \/ \E c \in Client, p \in Port : DeletePortMapping(c, p)
  \/ \E c \in Client, first, last \in Port : DeleteRange(c, first, last)
  \/ Walk
  \/ \E p \in Port : Expire(p)
  \/ \E p \in Port : Revoke(p)
  \/ \E r \in PinholeRequest : PinholeNow(r)
  \/ \E r \in PinholeRequest, s \in Slot : PinholeLater(r, s)
  \/ \E s \in Slot, verdict \in Verdict : PinholeResumed(s, verdict)
  \/ \E id \in PinholeId, finite \in BOOLEAN : UpdatePinhole(id, finite)
  \/ \E id \in PinholeId : DeletePinhole(id)
  \/ \E id \in PinholeId : PinholeExpires(id)
  \/ Destroy

Spec == Init /\ [][Next]_vars

-----------------------------------------------------------------------------
TypeOK ==
  /\ destroyed \in BOOLEAN
  /\ mappings \in [Port -> Entry \cup {None}]
  /\ tally \in [Client -> Nat]
  /\ timers \subseteq Port
  /\ sorted \in {None} \cup SUBSET Port
  /\ waiting \in [Slot -> MapRequest \cup PinholeRequest \cup {None}]
  /\ pinholes \in [PinholeId -> Pinhole \cup {None}]
  /\ nextId \in PinholeId
  /\ ptimers \in [PinholeId -> 0 .. TimerBound]
  /\ reused \subseteq PinholeId

\* What is kept beside the table agrees with it until destroy(), through
\* overlapping requests, re-pointed entries, expiries and revocations: the
\* tally of each client, the running timers, and the list a client that
\* walks the table by index depends on.
DerivedExact ==
  /\ timers = {p \in Live : mappings[p].finite}
  /\ ~destroyed => /\ \A c \in Client : tally[c] = Cardinality(LiveOf(c))
                   /\ sorted \in {None, Live}

\* A step taken for one client, at once or after a wait in which the ports
\* changed hands, leaves the mappings of the others alone.
StepOf(c) ==
  \/ \E r \in MapRequest : r.client = c /\ MapNow(r, "allow")
  \/ \E s \in Slot :
       waiting[s] \in MapRequest /\ waiting[s].client = c /\ MapResumed(s, "allow")
  \/ \E p \in Port : DeletePortMapping(c, p)
  \/ \E first, last \in Port : DeleteRange(c, first, last)

OthersUntouched ==
  [][~ThirdParty =>
       \A p \in Live : mappings'[p] # mappings[p] =>
         \A c \in Client \ {mappings[p].client} : ~StepOf(c)]_vars

\* A timer that runs for a pinhole id is that of the pinhole open under it,
\* so a pinhole is closed by its own lease or by a deletion; the exception is
\* an id given again while its pinhole was open.
PinholeTimersExact ==
  \A id \in PinholeId \ reused : ptimers[id] = Ticks(Timed(id))
=============================================================================
