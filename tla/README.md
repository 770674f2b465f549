# Verification of port-mapper

TLA+ modules, model-checking runs and machine-checked proofs for the port-mapper
library: a client that asks a home gateway for port mappings (PCP, NAT-PMP,
UPnP IGD) and the gateway side that grants them and forwards the ports.

All sources are under `src/src/`; a name like `server.js` means
`src/src/server.js`.

## 1. The system

| component | keeps | operations | modelled in |
|---|---|---|---|
| PMP gateway engine, `pmp_server_session.js` | mapping table, index by internal port, count per client, expiry timers | packets, handler verdicts, timers, `revoke`, `resetEpoch`, `destroy` | `PMPServer` |
| control object, `control.js` | one verdict, one guard timer per request | `allow`, `reject`, `ignore`, `done` | `PMPServer`, `UPnPServer` |
| PMP client engine, `pmp_session.js` | one transaction in flight, a queue, mapping records with renewal timers | `map`, `unmap`, `probe`, `getExternalIp`, `cancel`, `cancelAll`, `destroy`, packets, timers | `PMPSession` |
| retransmission and epochs, `lifecycle.js` | attempt counter; last epoch seen | `observe`, retransmission timer | `PMPSession`, `Epoch` |
| facade, `mapper.js`, and `negotiate.js` | start state, chosen protocol, calls under way | `start`, `map`, `unmap`, `stop`, `close`, `cancel` | `Mapper` |
| gateway, `server.js` | the engines, the adapter, a reconciliation | engine events, `revoke`, `resetEpoch`, `reconcile`, `close` | `Gateway` |
| nftables adapter, `enforce/nftables.js`, `enforce/exec.js` | rules by handle | `add`, `remove`, `list`, `destroy` | `Gateway` |
| choice of an adapter, `enforce/index.js` | the adapter chosen | `select` | `Enforce` |
| the other adapters, `enforce/{relay,pf,iptables}.js` | listeners and handles; the anchor's table; rules of a chain | `init`, `add`, `remove`, `list`, `destroy` | `Relay`, `Pf`, `Iptables`, put together in `Backends` |
| UPnP gateway engine, `upnp_server_session.js` | mapping table, count per client, cached listing, pinholes | SOAP actions, handler verdicts, timers, `revoke`, `destroy` | `UPnPServer` |
| UPnP client, `upnp_session.js` | search, device, HTTP exchanges under way, records with renewal timers, subscription | `discover`, `map`, `unmap`, pinholes and statistics, `destroy` | `UPnPSession` |
| event subscriptions, in `upnp_server_session.js`, `server.js`, `upnp_session.js` and `mapper.js` | subscriber table; records; listener and renewal timers | `subscribe`, `unsubscribe`, renewals, notifications, `stop` | `Events` |
| packets of PCP and NAT-PMP, `wire.js` | nothing | encode, decode | `Wire` |
| text formats, `soap.js`, `ssdp.js` | nothing | encode, decode | not modelled |
| the rest: `open.js`, `reachability.js`, `interfaces.js`, `quirks.js`, `testing.js`, `timers.js`, `exec.js`, `errors.js`, `debug.js` | little or nothing | | see `PROJECT.json` |

How they meet: the facade drives one client engine per protocol by callbacks;
client and gateway engines exchange UDP packets (or SOAP calls); a gateway
engine asks the application's handlers through a control object, possibly waits,
and emits events; the gateway turns those events into adapter calls it does not
wait for; an adapter call is a series of commands, each a process of its own.

Everything runs on one JavaScript thread, so a callback is atomic. What is hard
is what happens between two callbacks:

- a decision made after a wait on what was read before it (gateway engines);
- packets lost, duplicated, late, or from before a restart (client engine);
- timers that race with answers, and with the teardown of what they are for;
- callbacks owed to a caller that must be called once, and only once;
- notifications that overtake each other, and subscriptions that outlive the
  record or the listener they were made for;
- packets cut short, of another program or of the other dialect;
- adapter calls that overlap, fail half way, or are killed after they worked;
- tables kept in several copies: indexes, counters, caches, kernel rules.

What makes each part correct: the *gateway engine* keeps its indexes and
counters exact, never gives away what another client holds and ends every lease;
the *client engines* answer each call once, never stall and know what they
hold; the *epoch tracker* reports restarts and nothing else; the *facade*
settles on one protocol and answers everybody; the *gateway* forwards exactly
what is granted; an *adapter* answers what is true of the kernel and leaves
nothing behind; *event subscriptions* are kept while wanted, let go afterwards,
and tell the application when something was missed; the *packets* mean the same
to both ends.

## 2. The modules

`PMPServer` ← `PMPServerProofs`;
`Gateway` ← `GatewayProofs`; `Backends` ← `BackendsProofs`; `Mapper` and
`Events` ← `MapperProofs`; `UPnPServer` ← `UPnPServerProofs`;
`UPnPSession` ← `UPnPSessionProofs`; `Wire` ← `WireProofs`; `PMPSystem` extends `PMPSession` and takes
`PMPServer` by INSTANCE; `PMPSystemProofs` is about `PMPSession`, `PMPSystem` and
`Epoch`, extends all three (whence the names `EpochInit`, `EpochNext`, `EpochSpec`)
and takes `PMPServerProofs` by INSTANCE; `MapperProofs` is about two parts of the
facade and extends both (whence `EventsInit`, `EventsNext`, `EventsSpec`); `Backends` extends `Relay`, `Pf` and
`Iptables`, which extend `Enforce`; `Mapper`, `Gateway`, `UPnPServer`,
`UPnPSession`, `Events` and `Wire` stand alone. `MC*` modules only define model
values, inputs and symmetry sets.

**PMPServer.** One action is one packet, timer or call. The table is one record
(`mappings`, `byInternal`, `byClient`, `count`, `timers`), with one operator per
function of the code (`Store`, `Remove`, `RemoveAllFor`, `IsFree`, ...). A handler
that declares a `done` callback splits a request in two: `MapLater` is
`decide()` up to the wait, with the quota and the existing entry read there, and
`Resume` the continuation that uses them, which looks at no state; anything
may happen between. `Async` chooses the kind of handler.

**PMPSession.** The queue, the transaction in flight, the mapping records and
their timers. A step leaves the packet it emits in `out`. `Finish` includes the
`pump()` it ends in, `Enqueue` the one that follows. Replies are anything a
gateway could send. The epoch is abstracted to the boot it belongs to; `Epoch`
has its arithmetic. A record whose `timer` is "dropped" is one the engine
stopped renewing and told so.

**Epoch.** `pcp_lost`, `natpmp_lost` and `observe()` over integer milliseconds,
fed by a gateway whose packets are delayed by at most `MaxDelay`.

**PMPSystem.** One client and one gateway with sets of packets under way, so
packets are delayed, reordered and lost; retransmission duplicates them; the
gateway restarts and announces it. `forgone` is history: the internal ports a
deletion was sent for (it may overtake what is asked for later), and those whose
external port the gateway gave to another internal port of the client.

**Mapper.** `start()` with its sockets, each bound or not (`unbound`), probes, guard
timer and address query;
`map()` with its status check, port check and request; `stop()`, `close()` and
`cancel()` at any moment. The engines are taken by their callbacks.

**Gateway.** The mapping tables of the engines, the rules in the kernel with
handles and order, and adapter calls as series of `list`, `delete` and `write`
commands. `WriteFails` includes the case of `enforce/exec.js` in which the
command took effect before it was killed. `DestroyAdapter` is the deletion of the
table; when it fails the gateway has closed all the same (`life = "abandoned"`), with
whatever rules are left. `spoiled` is history: the ports on
which one of the races named at `GrantedIsForwarded` took place.

**UPnPServer.** Port mappings and pinholes, the cached listing that an index
walk fills, and requests waiting for a handler. TCP and UDP do not interact in
this engine, so a port stands for both.

**UPnPSession.** The slots of `http` hold the exchanges under way, each with the
closure that waits for it: the call it answers, the record it renews, the
conflict attempts made. `map()` and the renewals share `Attempt`, as in the code;
an exchange that is answered leaves its slot to the next one of its chain.
`usable` abstracts the candidates to whether one of them may be chosen; `to` is
the service a request was sent to, since `call_service()` swaps it. `orphans`
are timers of records that were deleted and whose closures still run. `strayed`
is history: the ports of the records `LeaseTended` excepts.

**Enforce, Relay, Pf, Iptables, Backends.** `Enforce` has the choice of an
adapter and the form of a call; each of the three says what its adapter does
with one; `Backends` makes the calls, in any order and without waiting. A call
holds the step it waits for (`bind6`, `bind4`, `load`, `list`, `delete`,
`write`) and what its closure captured: the entry it replaced, the rule to
delete, the rule set handed to `pfctl`. `forwards` is the system's side (the
sockets or rules of a port, the one that receives first), `entries` the
adapter's. `promise` is history: what the last answer about a port said.
`crossed` is history too: the ports whose answer is void for one of the reasons
named at `AnsweredIsInForce`, each of them listed in section 5.

**Wire.** One exchange: a request is encoded, may be cut, is read by the gateway,
answered, may be cut again, and is read by a client with this or another request
in flight. The gateway replies with the external address it has by then, or without
one. Packets are sequences of bytes; an unsigned 32-bit field is a pair of
halves, because TLC's integers have a sign; an address is the text the program
handles (four numbers, or groups with a gap). `IsAddress` says which texts there
are: the operating system gives IPv6 in the form of RFC 5952 and IPv4 as IPv4.
`MCWire` derives them for all addresses of zero and non-zero groups; TLC checks
that they, and all other inputs, are what `WireAssumption` says.

**Events.** Chains of callbacks are keyed by the call or subscription they belong
to: `calls` is where each `subscribe()` stands, `renew` and `unsub` where the
exchanges of a subscription stand. `overtaken` and `told` are history: number 0
came late, and the application was told of a gap. `ended`
and `hurt` name the subscriptions the client asked to end and those that lost
an exchange. A lease lapses only after the timer set for two thirds of it fired
and the exchange that began ended.

Operators named `...Faulty` are slips a programmer could make in the definition
they precede. No definition uses them: they show that the properties notice.

## 3. What is checked

| run | shows | bounds and why they are enough |
|---|---|---|
| `server_sync` | with handlers that answer at once: indexes and counters exact, quotas respected, clients apart | two clients, two internal ports, a static and a dynamic port under both protocols: a client can hold its whole quota, move between ports and meet the other's companion; also proved for all sizes |
| `server_async` | with requests waiting: companion ports stay reserved, pointers and timers are never left dangling | two requests wait together, which is all a race needs; leases end during the wait; also proved for all sizes |
| `session_calls` | every call answered once and, in the end, answered; renewals are under way when they are said to be; what a restart cost is asked for again | two calls of any kind (a map of lifetime 0 among them), both dialects, two attempts (so one retransmission and one fall-back), replies of the current boot in any order, one restart; one port: the queue serves ports alike |
| `epoch_restart` | no delay or silence looks like a restart; a restart is noticed | steps of 0.7 s and 16 s reach the truncation and the sixteenth of the PCP test; also proved without bounds |
| `system_active` | what the client reports ACTIVE the gateway forwards | two internal ports after one external port, one request and two replies under way (an old reply and a new one, or both announcements), a restart, a fall-back; several external ports, and any number of packets and restarts, are covered by the proof |
| `mapper_calls` | `start()`, `map()`, `unmap()` and `close()` answered, once, and in agreement on the protocol; `start()` is answered unless a socket could not be bound and nobody calls `stop()` | two starts, two maps, one close, both engines, each with a guard; each socket may fail to bind |
| `gateway_rules` | what is granted is forwarded, what is gone is closed, a reconciliation cleans up, a closed gateway forwards nothing and, where its table could not be deleted, no grant | one port (ports share nothing but the sweep), two targets, two adapter calls at once, one failure, rules left by an earlier process |
| `backends` | what was answered is in force, `list()` tells the truth, `destroy()` leaves nothing behind, for all three adapters | two ports, one of them UDP (sockets share it) and two targets; two calls at once, which is all a race needs; two failures, since `destroy()` on iptables leaves a port forwarded only when two of its commands fail; a third socket or rule on a port adds nothing to two; also proved for all sizes |
| `wire` | what is heard is what was said, and a reply is taken only for the request it answers | a gateway with and without an external address, maps that differ in each field, probes, requests for the address, all addresses of zero and non-zero groups, cuts at each length a decoder tests and its neighbours; also proved for all fields, addresses and lengths |
| `upnp_server` | counters and cached list exact, pinhole timers belong to their pinhole, clients apart | a quota of one per client, one request waiting, pinhole ids that wrap at once |
| `upnp_client` | every callback owed is carried by exactly one exchange or search, and called; a record in the table has its renewal | three calls, of which the first must be a search; two exchanges at once, which is all a race needs; one port and "any port"; a conflict limit of two, so that incrementing, asking for any port and giving up all happen; renewal by recreation, of which repetition is the second half |
| `events` | a gap is told, a subscription is kept as long as its exchanges succeed, and let go after `unsubscribe()` or `stop()` | two subscriptions (numbers and tables are per subscription), one restart that gives the same numbers again; five units of work, of which a call is two |

`PROJECT.json` names for each property a slip in a mapped definition that breaks
it. `CHECK_DEADLOCK FALSE` is set in all runs: a destroyed engine, an idle
session and a bounded run may all stop.

**Fairness.** Used in four modules only. In `PMPSession` the
retransmission timer fires (weak: `safe_timeout` of a running transaction), and
the recreation timer fires (strong, because the bound `MaxQueue` may hold it back
for a while). In `Mapper` each bind succeeds or fails, the two guard timers fire and HTTP
requests and engine calls end, if only by their own timeouts; no
probe and no deletion has to be answered. In `UPnPSession` HTTP exchanges end,
the retry after a dropped connection is sent and the search window closes. In
`Events` renewal timers fire and renewals and UNSUBSCRIBEs end. No
other liveness is claimed.

**Bounds that are not the code's:** `Slot`, `CountBound`, `TimerBound`,
`MaxCalls`, `MaxQueue`, `MaxBoot`, `MaxRequests`, `MaxReplies`, `MaxNow`, `MaxRestarts`,
`MaxFailures`, `Handle`, `MaxSockets`, `MaxRules`, `MaxWork`,
`Cut`, `InFlight`. Each stands in a guard or in the set an action
chooses from, and is named where it is declared.

## 4. What is proved

TLAPS checks these for all values of the constants that satisfy the named
assumptions.

*`PMPServerProofs`* (both kinds of handler): `TypeCorrect`, `CompanionSafe`,
`TimersCorrect`, `LeasesCorrect`, `PointersCorrect`. The
invariant is `IInv == TypeOK /\ TableInv(table)` with the type of every waiting
request; it needs the pointers to be live before the companion property can be
kept by a continuation that removes an entry read before the wait. Every table
operator has one lemma that it preserves `TableInv`; the proof about the actions
only combines them.

The same module, assuming `~Async`: `IndexCorrect`,
`CountersCorrect`, `QuotaCorrect`, `DestroyCorrect`, `OwnershipCorrect`. The
quota is proved of the counters and carried to the table by `CountInv`, whose
induction steps are the cardinality lemmas of the library; a
renewal that moves to another port needs `IndexInv` to know that the entry it
drops is its own. Without the assumption none of the five holds: the wait
separates test and use.

*`MapperProofs`*: `StartsCorrect`, `AnswersCorrect`, `ChoiceFinal`. The invariant
says that the negotiation begins after the last socket and only once, that
`start()` is settled once (after the choice and, with UPnP, the address, or by
`stop()`), and for each `map()` that it has been answered exactly when it is done
or cancelled. `stop()` and `choose()`, which several actions end in, have a lemma
each.

The same module, about `Events`: `GapsTold`, `SubscriptionsKept`. What was received without a
gap told is an interval that ends at the last number (`GapInv`). That a
subscription is kept needs that numbers are not given twice before a restart
(`SidInv`, by counting the calls that have one) and that a renewal is due or under
way as long as nothing was lost (`ForceInv`): without the distinct numbers the
end of another subscription could take this one's record.

*`UPnPServerProofs`* (both kinds of handler): `TypeCorrect`, `DerivedCorrect`,
`PinholeTimersCorrect`, `OthersSafe`. The tables share no state, so the invariant
has one part for each: `TableInv` (types and `DerivedExact`), kept because adding
and removing entries changes the tally by the cardinality of what is added or
removed, and `PinholeInv`, which adds to the property that a timed pinhole has a
timer even when its id was reused (`PinholeTimerRuns`): without it the number of
timers of an id could go below zero. `OthersSafe` rests on `is_free()` being asked
again after the wait.

*`PMPSystemProofs`*, about `PMPSession` alone: `TypeCorrect`, `OwedCorrect`,
`LeaseCorrect`. What the theorems speak of is the line: the queue and the transaction in flight. A
transaction keeps its call, origin, key and nonce while it waits, is sent, changes
dialects and is sent again (`Ids`), so most steps leave that set as it is and the
others add or remove one member; the lemmas about `Started`, `Enqueue`, `Pump` and
`Finish` say which. The invariant adds to the properties that a call not made
yet is not waited for and that a transaction in line can be sent in its dialect
(`Fit`).

The same module, about client and gateway together: `ActiveCorrect`, for any number
of ports, calls, packets under way and restarts, and `Composed`. The property
alone is far from inductive: a record becomes ACTIVE by a reply that may be old,
repeated, or of an earlier epoch. `SystemInv` adds to the invariants of the two
parts that a packet's epoch and the epochs the client has seen are not later than
the gateway's, and that a client that has seen none holds nothing (`BootInv`); that
each nonce belongs to one internal port, in records, transactions and requests
under way alike (`NonceInv`: a PCP reply names no internal port, and is told apart
by its nonce only); and that a reply of the gateway's epoch which grants a port is
still true when it arrives, unless the port is forgone (`ReplyInv`). The last is
kept because between restarts the gateway's table forgets no pointer but by a
deletion or a take-over (`Kept`), for which `PMPServerProofs` has the lemmas
`MapNowIndex` and `DeleteOneIndex`. The gateway's invariant is not proved again:
the module of its proofs is instantiated as `Gate`, and its assumptions are shown to
hold of the composition's constants (`GateAssumptions`). `Composed` says that the
composition is a behaviour of `PMPSession` and one of `PMPServer`, so that the
theorems about the two hold in it. The assumptions are those of the two modules and
that the gateway speaks both dialects and the network may reorder
(`SystemAssumption`).

The same module, about `Epoch`: `FalseAlarmFree`, `RestartSeen`, from
`EpochInvariance`. They say how far the seconds in a reply tell the boot it
belongs to, which `PMPSession` takes it for. The invariant is the meaning of an
epoch value: whole seconds from the start of its epoch to its sending, and no
packet of an older epoch sent after the start of a newer one. The arithmetic of
the two tests (a tolerance of 2 s and a sixteenth, or an eighth) is in lemmas over
integers. Assumption: a packet is received within one second or lost
(`MaxDelay <= 1000`); with longer delays the PCP test can take delay for a restart.

*`UPnPSessionProofs`*: `TypeCorrect`, `OwedCorrect`, `LeaseCorrect`. What an
exchange owes is a number and a deed: the call it answers (`Load`), and the record
it deletes or renews or the search it ends (`Deeds`). A dropped connection, a lease
downgrade, another port and the deletion before a renewal replace the exchange and
keep both. `LeaseCorrect` needs that a renewal which is the record's own finds its
record (`Owning`); `TypeCorrect` that the port asked for grows only with the
attempts, which `on_conflict()` counts. `OwedCorrect` counts with the cardinalities
of the library, having shown that two exchanges never answer one call.

*`GatewayProofs`*: `TypeCorrect`, `GrantedCorrect`, `GoneCorrect`, `ClosedCorrect`,
`ReconcileCorrect`, for any number of ports, rules, failures and calls under way
at once. The invariant is about one port that is not spoiled (`Calm`): at most one
call for it is under way and one engine holds it; the call does what that engine
wants, the rules in its way are among those it is going to delete, and there are
none left when it writes (`InStep`); without a call the first rule is the mapping
held, or, with none held, every rule is left over and known to the reconciliation
that has listed the rules (`AtRest`). Every command ends in a step of one call
(`CommandKeeps`), every event in the start of calls (`WithdrawKeeps`, `Launched`).
A gateway whose table could not be deleted has no grant left in the kernel because
`close()` withdrew each rule by itself before (`NothingLeft`, `DestroyAdapterKeeps`).
Needed besides: a handle names one rule, and the engines are empty once the gateway
closes. Assumptions: a new rule gets a handle nothing remembers, and the value that
stands for "no call" is not a call.

*`BackendsProofs`*: `AnsweredCorrect`, `ListedCorrect`, `DestroyedCorrect`, for any
number of ports, targets, calls under way at once, and failures, and whichever
adapter is chosen. The invariant has a part for each adapter, about the ports not in
`crossed`. With the relay, a port's sockets are those of its handle, and while one
is being bound there is none (`RelayInv`). With pf, the rule set of a load under way
is the table when no other call runs beside it, and otherwise differs from it in the
call's own port and in crossed ones only, so that a load of one port changes nothing
for another; what a load replaces stays in force until it lands (`PfLoadInv`). With
iptables a port has one rule at most, which the table may not know (it was found, or
its command was killed too late); a deletion under way is about that rule, and there
is none left when the new one is written (`IptStepInv`). `destroy()` of iptables
needs that the jump is gone, or that no call which could still write is about a
port not crossed. Two calls about one port are only under way together for a crossed
one (`OneCallInv`). Lemmas on the deletion of a rule by its specification
(`WithoutType`, `WithoutOne`) rest on a set of natural numbers having a least one.

*`WireProofs`*: `AddressComesBack`, `HeardCorrect`, `FitsCorrect`, for every request,
address, decision and length a packet may be cut to. A packet is known by what it
holds at each offset (`Holds`): there is one lemma for each packet that is built,
and what is cut off leaves the rest where it was (`Left`). For each packet read there
are the fields the decoder finds if it does not refuse the packet (`NatpmpFields`,
`PcpFields`, `MapReading`). `AddressComesBack` says that decoding the sixteen bytes of
an address gives the text they were made from: the runs of zero groups have at most
one that is the longest and first (`OneGap`), and the text has its gap there. What a
client may take for success is read backwards from the packet (`SuccessNatpmp`,
`SuccessPcp`): the bytes it must have tested, which only the grant of a mapping holds
(`ReplyIs`, `Grants`). The invariant is the history of the exchange (`WireInv`): what
the gateway read came from a packet that was sent, whole or cut, and the packet under
way is its reply, whole or cut. The arithmetic is that of bytes, halves and offsets;
the loops of the option decoder are proved about for the packets that occur, with no
option or one. Assumptions (`WireAssumption`): addresses are texts in the form said
above; a nonce belongs to one mapping; MAP requests of other programs are answered to
those programs; the gateway never decides result 1, which is for a version.

The session proofs, `BackendsProofs` and `GatewayProofs` assume that the value that
stands for JavaScript's null is no record, packet, exchange or call
(`NoneAssumption`).

**Only model-checked:** liveness, which is out of the prover's reach:
`EveryCallAnswered` of `PMPSession`, `Mapper` and `UPnPSession`, `LostIsAskedFor` of
`PMPSession` and `LetGo` of `Events`. Every safety property of the runs is proved.

## 5. Departures found

Seen while modelling, and present in the models as the code has them unless
said otherwise.

*Gateway engine and client engine (PCP, NAT-PMP)*

- after the wait `remove()` is called with the port of an entry captured before
  it (`pmp_server_session.js:360`); if it expired and somebody else got the port,
  that client's mapping is removed;
- a late reply to an earlier MAP confirms a deletion (`pmp_session.js:565`),
  because the nonce is the same and the lifetime in the reply is not looked at;
- a map of lifetime 0 is a deletion on the wire: `README.md:286` says that `0`
  asks for a permanent mapping, while the engine deletes the record and answers
  without a mapping (`pmp_session.js:565`), which `mapper.js:877` then reads;
- `cancelAll()` also drops recreations after a restart, and their mappings;
- waiting requests pass the quota, and a continuation after `destroy()` stores a
  mapping (`pmp_server_session.js:323`, `339`);
- a request for another internal port may silently take over the client's own
  external port, although others are free: to `is_free()` a port is free for
  the client that holds it (`pmp_server_session.js:176`), and the scan for "some
  available external port" (the comment at line 184) asks it;
- an unanswered `unmap()` leaves a record ACTIVE that will never be renewed
  (`pmp_session.js:773`);
- a packet from before a restart that arrives after it makes the tracker report
  the restart twice; the comment at `lifecycle.js:193` says exactly once.

*Facade and gateway*

- `start()` is never answered when a socket cannot be bound, until `stop()` is called:
  the error or warning is emitted and the callback of `bind()` never runs
  (`mapper.js:467`, `521`); `EveryCallAnswered` excepts it (an `error` event nobody
  listens for ends the process, which is not modelled);
- `destroy()` of nftables reports success when `delete table` failed or was killed
  (`nftables.js:323`), and so does `close()`; what `close()` withdrew before is gone,
  rules of an earlier process stay;
- a renewal that moves a mapping to another internal port is never applied to
  the kernel: `port-renewed` only repeats the event (`server.js:188`);
- `cancel()` of a map the UPnP engine works on answers the caller, and the
  engine answers again (`upnp_session.js:707` returns no handle);
- `stop()` while the sockets are being bound leaves them bound (`mapper.js:577`);
- a mapping unmapped while the watchdog verifies it may be put back
  (`mapper.js:1224`, `1271`), and `stopWatchdog()` in the middle of a
  verification does not end its chain, so that a following `startWatchdog()`
  runs two (read in the code; the watchdog is not modelled);
- `close()` during `listen()` leaves sockets bound, and `listen()` is never
  answered when one of them cannot be (read in `server.js`; not modelled).

*UPnP*

- `call_service()` swaps `context.service` while its exchange is under way
  (`upnp_session.js:661`): mapping requests made meanwhile go to the other
  service's control URL, and two overlapping calls leave the wrong service
  behind for good;
- an `unmap()` of the UPnP client that overlaps with a renewal reports
  'unmapped', and the renewal's answer brings the mapping back
  (`upnp_session.js:847`); the re-armed timer of a deleted record renews whatever
  is kept under its port by then, with the old parameters;
- a UPnP renewal that is granted another port leaves the old record RENEWING
  with no renewal under way; a failed `unmap()` leaves one without a timer;
- a UPnP mapping under port 0 cannot be unmapped (`upnp_session.js:931`), a
  conflict on it is answered by asking for port 1, and conflict retries do not
  stop at the last port (`upnp_session.js:838`);
- renewals use the session's lifetime, not the mapping's (`upnp_session.js:908`);
- a device description that cannot be read leaves the session searching, so that
  `discover()` is refused from then on (`upnp_session.js:319`); the handle of an
  old `discover()` cancels the current one; a search in a session that holds
  mappings makes the renewals that fall due in it fail;
- the UPnP gateway engine does not look at `control.ignore()`
  (`upnp_server_session.js:496`): under `allow-all` what is ignored is granted.

*Events*

- notification 0 that arrives after number 1 is not told as a gap and leaves the
  old address behind (`upnp_session.js:1132`); a gap is told, but nothing is read
  again because of it;
- one lost renewal is the last, while the record stays (`mapper.js:1330`);
- `subscribe()` while the listener is being opened fails; an error of the
  listener leaves the call unanswered, and later calls without a URL
  (`mapper.js:1338`);
- `stop()` while the listener is being opened: the callback asks a listener that
  is gone for its address and throws, unless a `subscribe()` after `stop()` has opened
  another; that one is never closed, since the engine is destroyed and refuses
  (`mapper.js:1340`, `upnp_session.js:1026`);
- a SUBSCRIBE in flight at `stop()` makes a record and a timer that renew for
  ever, although the comment at `mapper.js:1599` says that every subscription is
  cancelled; `LetGo` speaks of subscriptions that were on record;
- a gateway gives the numbers of before again after its restart
  (`upnp_server_session.js:985`), so that an old subscriber may renew a new
  one's subscription;
- an entry whose lease is over is renewed as long as no event has purged it
  (`upnp_server_session.js:968`).

*Adapters*

- relay: two first binds at once on a host without IPv6, of which the second
  fails (`relay.js:146`, `211`); two adds of one UDP port at once leave a socket
  nobody closes (`relay.js:302`); a port removed, or a relay destroyed, while a
  socket is being bound keeps a listener (`relay.js:326`, `353`);
- pf: loads that overlap may land out of order (`pf.js:83`, `174`); a load
  that fails restores what it found over a later entry, and a load that timed out
  but took effect makes a later `remove()` answer success with the rule in
  force (`pf.js:189`); a second `remove()` answers before the first is through;
- pf: `destroy()` does not wait for the loads under way, and its own failure is
  not reported (`pf.js:212`);
- iptables: when `destroy()` can neither delete the jump nor empty the chain, which
  it tells nobody, the rules go on forwarding (`iptables.js:336`);
- iptables: `remove()` reports success when listing or deleting failed
  (`iptables.js:284`, `300`); the hairpin rules stand outside the chain and
  survive `destroy()` (`iptables.js:136`, not modelled).

*Packets*

- a NAT-PMP client is told NETWORK_FAILURE while the gateway has no external address
  (`pmp_server_session.js:412`), and a PCP client gets its mapping with the address
  `::` (line 536); `AnswerFits` and `HeardIsSaid` say so, it is no error;
- a NAT-PMP error reply of four to seven bytes is accepted without an epoch, and
  the restart test then compares with NaN (`wire.js:534`);
- a request of one byte is answered as one of an unknown version, so a PCP
  packet cut that short makes the client fall back to NAT-PMP;
- a client whose address the system writes with a zone is always told
  ADDRESS_MISMATCH (`pmp_server_session.js:500`, not modelled), and `encode_ip`
  throws for a mixed notation such as `::1.2.3.4` (`wire.js:223`, not modelled);
- a lifetime of 2^32 is encoded as 0, which deletes (not modelled).

## 6. Not modelled

- `mapper.js`: the watchdog and the verification of mappings, export and import,
  pinholes (passed on to the UPnP engine), diagnosis, announcements.
- `server.js`: `listen()`, the sockets and their errors, multicast series.
- `upnp_server_session.js`: SSDP advertising and description documents.
- `upnp_session.js`: the list of pinholes, `cleanup()`, range deletion,
  reads that change nothing, the body of a notification.
- `pmp_session.js`, `lifecycle.js`: `verify()`, the random spread of the delays.
- `enforce/`: rule text, the set-up of nftables tables, forward and hairpin rules,
  bytes in transit, the table of UDP sessions and its sweeper, the PROXY header, an
  address to bind given by the user, adapters of the user's own.
- `wire.js`: encoders nothing calls (PEER, THIRD_PARTY, FILTER), the
  classification of addresses.
- `soap.js`, `ssdp.js`, `quirks.js`, `interfaces.js`: text and tables, without
  state; `open.js`, `reachability.js`: a counter and a latch on top of what is
  modelled; `timers.js`: a chain of timeouts, which a timer that may fire
  at any moment includes.

The bounds of leases and the emptiness of a destroyed gateway engine are only
proved, not run.

Simplified in `PMPSession`: the callback of a renewal finds its record by the nonce,
where the code has captured the object (`pmp_session.js:644`); the two differ only
for a record that was deleted and that a request under way for the same nonce, a
recreation after a restart, has put back. The session's own lifetime, which renewals ask for (line 639), is not 0:
such a renewal would delete what it renews. A request that cannot be encoded
(line 379) is answered at once and does not occur. In `Gateway` one reconciliation
runs at a time, which the code does not enforce.

Known limits: the handler of `PMPServer` cannot call the engine from within its
event; PCP replies are not matched by port because the client does not look at
it; `PMPSystem` has one client and no lease that runs out.

## 7. What is left

1. `UPnPSystem`, the UPnP client and gateway engines joined by HTTP exchanges:
   what the client reports ACTIVE the gateway forwards.
2. `Leases`, the abstract specification of a gateway (a set of leases that
   clients obtain, keep and lose), implemented by `PMPServer` and by
   `UPnPServer` for synchronous handlers under a refinement mapping.
3. `Mapper` extended by the watchdog and by import; `Gateway` by `listen()` and
   its errors; `cleanup()` and range deletion in `UPnPSession`.
4. Operators for `soap.js` and `ssdp.js` checked against reference definitions;
   `SafeTimer` (delays beyond 2^31 - 1 ms).
5. Proofs about the modules of items 1 and 2.
