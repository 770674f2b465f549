----------------------------- MODULE PMPSession -----------------------------
(***************************************************************************)
(* The client engine for PCP and NAT-PMP (src/src/pmp_session.js with the  *)
(* retransmission, renewal and epoch policy of src/src/lifecycle.js): one  *)
(* request in flight, the rest queued; retransmission and fall-back from   *)
(* one dialect to the next; the mapping records with their renewal timers; *)
(* recreation after a gateway restart; cancellation.                       *)
(*                                                                         *)
(* Time is abstract: a running timer may fire at any moment.  An epoch     *)
(* value is abstracted to the boot of the gateway it was sent in.  A step  *)
(* leaves the packet it emits, at most one, in out.                        *)
(***************************************************************************)
EXTENDS Integers, Sequences, FiniteSets, SequencesExt

CONSTANTS
  Key,             \* mapping_key(): protocol and internal port
  External,        \* external ports
  Protocols,       \* context.protocols, the dialects in order of preference
  MapAttempts,     \* context.retransmitAttempts
  DeleteAttempts,  \* RETRANSMIT.DELETE_ATTEMPTS
  Op,              \* the API calls made: "map" ("exact": exactly too, "permanent":
                   \* with a lifetime of 0 too), "unmap", "probe", "address", "cancel"
  None,            \* no transaction, no mapping, no packet
  Speaks,          \* the dialects the gateway sends replies in
  MaxCalls,        \* bound: API calls in one run
  MaxQueue,        \* bound: queued transactions beyond which no timer fires
  MaxBoot,         \* bound: restarts of the gateway
  Reordered        \* a reply may be older than one already received

Dialect == {"pcp", "natpmp"}
NoPort  == 0
Call    == 1 .. MaxCalls
Boot    == 0 .. MaxBoot

ASSUME SessionAssumption ==
  /\ Protocols \in Seq(Dialect) /\ Protocols # <<>>
  /\ External \subseteq Nat \ {NoPort}
  /\ MapAttempts \in Nat \ {0} /\ DeleteAttempts \in Nat \ {0}
  /\ Reordered \in BOOLEAN /\ Speaks \subseteq Dialect
  /\ MaxCalls \in Nat /\ MaxQueue \in Nat /\ MaxBoot \in Nat

AttemptBound == IF MapAttempts > DeleteAttempts THEN MapAttempts ELSE DeleteAttempts

\* A transaction.  call is the API call whose callback it answers, 0 for a
\* renewal or a recreation; a nonce is named after the call that drew it.
Tx == [kind    : {"map", "probe", "address"},
       key     : Key \cup {None},
       ext     : External \cup {NoPort},
       delete  : BOOLEAN,
       nonce   : Call,
       origin  : {"call", "renew", "recreate"},
       call    : Call \cup {0},
       exact   : BOOLEAN,
       dialect : 1 .. Len(Protocols),
       attempt : 0 .. AttemptBound,
       timer   : BOOLEAN]

\* A timer that is "dropped" does not run either: the caller's unmap() has
\* cleared it, or cancelAll() has dropped the request it led to.
Mapping == [ext   : External \cup {NoPort},
            lease : BOOLEAN,     \* the gateway granted a finite, nonzero lifetime
            nonce : Call,
            exact : BOOLEAN,
            state : {"ACTIVE", "RENEWING", "LOST"},
            timer : {"off", "renew", "recreate", "dropped"}]

Packet == [dialect : Dialect, kind : {"map", "address", "announce"},
           key : Key \cup {None}, ext : External \cup {NoPort}, delete : BOOLEAN,
           nonce : Call \cup {0}, exact : BOOLEAN]

\* A reply.  A NAT-PMP map reply has no nonce (0); key and nonce are missing
\* (None and 0) from a truncated error.
Reply == [dialect : Dialect, kind : {"map", "address", "announce"},
          key : Key \cup {None}, ext : External \cup {NoPort}, lease : BOOLEAN,
          nonce : Call \cup {0}, result : {"ok", "error", "version"}, boot : Boot]

ASSUME NoneAssumption == None \notin Key \cup Boot \cup Tx \cup Mapping \cup Packet

VARIABLES
  state,     \* context.state: "open" is new or listening, which nothing tells apart
  queue,     \* context.queue
  inflight,  \* context.inflight
  mappings,  \* context.mappings
  epoch,     \* context.epoch, the boot each dialect was last heard from
  calls,     \* API calls made so far
  answers,   \* what the callback of each call was given
  out        \* the packet this step emits

vars == <<state, queue, inflight, mappings, epoch, calls, answers, out>>

Pending == {queue[i] : i \in DOMAIN queue} \cup ({inflight} \ {None})

-----------------------------------------------------------------------------
(* Sending.                                                                *)

Attempts(tx) == IF tx.delete THEN DeleteAttempts ELSE MapAttempts

DialectOf(tx) == Protocols[tx.dialect]

\* The dialects a transaction can still be sent in: PCP has no request for
\* the external address alone.
Sendable(tx) ==
  {d \in tx.dialect .. Len(Protocols) : tx.kind = "address" => Protocols[d] = "natpmp"}

\* start_dialect() and the first send().
Started(tx) ==
  [tx EXCEPT !.dialect = CHOOSE d \in Sendable(tx) : \A e \in Sendable(tx) : d <= e,
             !.attempt = 1,
             !.timer   = TRUE]

PacketOf(tx) ==
  LET pcp == DialectOf(tx) = "pcp" IN
  [dialect |-> DialectOf(tx),
   kind    |-> IF tx.kind = "map" THEN "map" ELSE IF pcp THEN "announce" ELSE "address",
   key     |-> tx.key,
   ext     |-> IF tx.delete /\ ~pcp THEN NoPort ELSE tx.ext,
   delete  |-> tx.delete,
   nonce   |-> IF pcp /\ tx.kind = "map" THEN tx.nonce ELSE 0,
   exact   |-> pcp /\ tx.exact]

Send(tx, q) == inflight' = tx /\ queue' = q /\ out' = PacketOf(tx)

\* pump(), when nothing is in flight any more.
Pump(q) ==
  IF q = <<>> THEN inflight' = None /\ queue' = q /\ out' = None
  ELSE Send(Started(Head(q)), Tail(q))

Enqueue(tx) ==
  IF state = "destroyed" \/ inflight # None
  THEN queue' = Append(queue, tx) /\ UNCHANGED inflight /\ out' = None
  ELSE Pump(Append(queue, tx))

\* make_tx().
NewTx(kind, key, ext, delete, nonce, origin, call, exact) ==
  [kind |-> kind, key |-> key, ext |-> ext, delete |-> delete, nonce |-> nonce,
   origin |-> origin, call |-> call, exact |-> exact,
   dialect |-> 1, attempt |-> 0, timer |-> FALSE]

-----------------------------------------------------------------------------
(* Settling a transaction.                                                 *)

\* The callback of a transaction: an API call is answered; a renewal that
\* failed loses the mapping it was for, known here by its nonce; a failed
\* recreation only warns.
Callback(tx, outcome, maps) ==
  /\ answers' = IF tx.call = 0 THEN answers ELSE [answers EXCEPT ![tx.call] = outcome]
  /\ mappings' = IF tx.origin = "renew" /\ outcome # "ok" /\ maps[tx.key] # None
                    /\ maps[tx.key].nonce = tx.nonce
                 THEN [maps EXCEPT ![tx.key].state = "LOST"] ELSE maps

FinishFaulty(outcome, maps) ==
  Callback(inflight, outcome, maps) /\ inflight' = None /\ out' = None /\ UNCHANGED queue

\* finish() for the transaction in flight, with the pump() it ends in.
Finish(outcome, maps) == Callback(inflight, outcome, maps) /\ Pump(queue)

DropFaulty(outcome, maps) ==
  LET next == [inflight EXCEPT !.dialect = @ + 1] IN
  IF inflight.dialect < Len(Protocols) /\ Sendable(next) # {}
  THEN Send(Started(next), queue) /\ mappings' = maps /\ UNCHANGED answers
  ELSE Pump(queue) /\ mappings' = maps /\ UNCHANGED answers

RoundRobinFaulty(outcome, maps) ==
  LET next == [inflight EXCEPT !.dialect = IF @ < Len(Protocols) THEN @ + 1 ELSE 1] IN
  Send(Started(next), queue) /\ mappings' = maps /\ UNCHANGED answers

\* switch_dialect(), or finish() when no dialect is left.
SwitchOrFinish(outcome, maps) ==
  LET next == [inflight EXCEPT !.dialect = @ + 1] IN
  IF inflight.dialect < Len(Protocols) /\ Sendable(next) # {}
  THEN Send(Started(next), queue) /\ mappings' = maps /\ UNCHANGED answers
  ELSE Finish(outcome, maps)

-----------------------------------------------------------------------------
(* API calls.                                                              *)

Init ==
  /\ state = "open"
  /\ queue = <<>>
  /\ inflight = None
  /\ mappings = [k \in Key |-> None]
  /\ epoch = [d \in Dialect |-> None]
  /\ calls = 0
  /\ answers = [c \in Call |-> "none"]
  /\ out = None

NewCall ==
  /\ calls < MaxCalls
  /\ calls' = calls + 1
  /\ answers' = [answers EXCEPT ![calls'] = "pending"]

\* map(); whoever asks for a lifetime of 0 sends what unmap() sends.
Map(k, ext, exact, permanent) ==
  /\ "map" \in Op
  /\ exact => "exact" \in Op
  /\ permanent => "permanent" \in Op
  /\ state # "destroyed"
  /\ NewCall
  /\ Enqueue(NewTx("map", k, ext, permanent, calls', "call", calls', exact))
  /\ UNCHANGED <<state, mappings, epoch>>

\* unmap() cancels the renewal timer at once and looks at no state.
Unmap(k) ==
  /\ "unmap" \in Op
  /\ NewCall
  /\ Enqueue(NewTx("map", k, NoPort, TRUE,
                   IF mappings[k] = None THEN calls' ELSE mappings[k].nonce,
                   "call", calls', FALSE))
  /\ mappings' = IF mappings[k] = None THEN mappings
                 ELSE [mappings EXCEPT ![k].timer = "dropped"]
  /\ UNCHANGED <<state, epoch>>

Probe ==
  /\ "probe" \in Op
  /\ state # "destroyed"
  /\ NewCall
  /\ Enqueue(NewTx("probe", None, NoPort, FALSE, calls', "call", calls', FALSE))
  /\ UNCHANGED <<state, mappings, epoch>>

\* Without NAT-PMP the cached address is the answer and nothing is sent.
GetExternalIp ==
  /\ "address" \in Op
  /\ \E d \in DOMAIN Protocols : Protocols[d] = "natpmp"
  /\ NewCall
  /\ Enqueue(NewTx("address", None, NoPort, FALSE, calls', "call", calls', FALSE))
  /\ UNCHANGED <<state, mappings, epoch>>

\* The handle a call returned: a queued transaction leaves the queue, the one
\* in flight makes room for the next.
CancelQueued(i) ==
  /\ "cancel" \in Op
  /\ queue[i].call # 0
  /\ Callback(queue[i], "cancelled", mappings)
  /\ IF state = "destroyed" \/ inflight # None
     THEN queue' = RemoveAt(queue, i) /\ UNCHANGED inflight /\ out' = None
     ELSE Pump(RemoveAt(queue, i))
  /\ UNCHANGED <<state, epoch, calls>>

CancelInflight ==
  /\ "cancel" \in Op
  /\ inflight # None
  /\ inflight.call # 0
  /\ Finish("cancelled", mappings)
  /\ UNCHANGED <<state, epoch, calls>>

\* cancelAll(): renewals and recreations are abandoned with the rest.
CancelAll ==
  /\ "cancel" \in Op
  /\ Pending # {}
  /\ answers' = [c \in Call |-> IF \E tx \in Pending : tx.call = c
                                THEN "cancelled" ELSE answers[c]]
  /\ LET drops(k, origin) == \E tx \in Pending : tx.origin = origin /\ tx.key = k
                                                 /\ tx.nonce = mappings[k].nonce
     IN mappings' = [k \in Key |->
          IF mappings[k] = None THEN None
          ELSE [mappings[k] EXCEPT
                  !.state = IF drops(k, "renew") THEN "LOST" ELSE @,
                  !.timer = IF drops(k, "recreate") /\ @ = "off" THEN "dropped" ELSE @]]
  /\ queue' = <<>> /\ inflight' = None /\ out' = None
  /\ UNCHANGED <<state, epoch, calls>>

\* destroy(): nobody's callback is called.
Destroy ==
  /\ state # "destroyed"
  /\ state' = "destroyed"
  /\ queue' = <<>> /\ inflight' = None /\ out' = None
  /\ mappings' = [k \in Key |-> IF mappings[k] = None THEN None
                                ELSE [mappings[k] EXCEPT !.timer = "off"]]
  /\ UNCHANGED <<epoch, calls, answers>>

\* The handle of a call that destroy() dropped still answers it.
CancelDropped(c) ==
  /\ "cancel" \in Op
  /\ answers[c] = "pending"
  /\ ~ \E tx \in Pending : tx.call = c
  /\ answers' = [answers EXCEPT ![c] = "cancelled"]
  /\ out' = None
  /\ UNCHANGED <<state, queue, inflight, mappings, epoch, calls>>

-----------------------------------------------------------------------------
(* Timers.                                                                 *)

RetransmitFaulty ==
  /\ inflight # None
  /\ inflight.timer
  /\ IF inflight.attempt <= Attempts(inflight)
     THEN Send([inflight EXCEPT !.attempt = @ + 1], queue) /\ UNCHANGED <<mappings, answers>>
     ELSE SwitchOrFinish("error", mappings)
  /\ UNCHANGED <<state, epoch, calls>>

\* The retransmission timer of the transaction in flight: send() again, or
\* on_exhausted().
Retransmit ==
  /\ inflight # None
  /\ inflight.timer
  /\ IF inflight.attempt < Attempts(inflight)
     THEN Send([inflight EXCEPT !.attempt = @ + 1], queue) /\ UNCHANGED <<mappings, answers>>
     ELSE SwitchOrFinish("error", mappings)
  /\ UNCHANGED <<state, epoch, calls>>

\* Half the lease is over: renew(), for the session's lifetime, taken not to be 0.
RenewFires(k) ==
  /\ mappings[k] # None
  /\ mappings[k].timer = "renew"
  /\ Len(queue) < MaxQueue
  /\ mappings' = [mappings EXCEPT ![k].timer = "off", ![k].state = "RENEWING"]
  /\ Enqueue(NewTx("map", k, mappings[k].ext, FALSE, mappings[k].nonce, "renew", 0,
                   mappings[k].exact))
  /\ UNCHANGED <<state, epoch, calls, answers>>

RecreateFiresFaulty(k) ==   \* not put behind a request in flight
  /\ mappings[k] # None
  /\ mappings[k].timer = "recreate"
  /\ Len(queue) < MaxQueue
  /\ mappings' = [mappings EXCEPT ![k].timer = "off"]
  /\ IF inflight # None THEN UNCHANGED <<queue, inflight>> /\ out' = None
     ELSE Enqueue(NewTx("map", k, mappings[k].ext, FALSE, mappings[k].nonce, "recreate", 0, FALSE))
  /\ UNCHANGED <<state, epoch, calls, answers>>

\* The random delay after a restart is over: the timer of schedule_recreate().
RecreateFires(k) ==
  /\ mappings[k] # None
  /\ mappings[k].timer = "recreate"
  /\ Len(queue) < MaxQueue
  /\ mappings' = [mappings EXCEPT ![k].timer = "off"]
  /\ Enqueue(NewTx("map", k, mappings[k].ext, FALSE, mappings[k].nonce, "recreate", 0, FALSE))
  /\ UNCHANGED <<state, epoch, calls, answers>>

-----------------------------------------------------------------------------
(* Replies.                                                                *)

\* observe(): PCP takes any other boot for a restart, NAT-PMP only a later one.
Restarted(d, b) ==
  epoch[d] # None /\ IF d = "pcp" THEN b # epoch[d] ELSE b > epoch[d]

AfterRestartFaulty ==
  [k \in Key |-> IF mappings[k] = None THEN None ELSE [mappings[k] EXCEPT !.timer = "recreate"]]

\* on_gateway_reboot(): everything held is lost and will be asked for again.
AfterRestart ==
  [k \in Key |-> IF mappings[k] = None THEN None
                 ELSE [mappings[k] EXCEPT !.state = "LOST", !.timer = "recreate"]]

\* DIALECT[...].matches().
Matches(tx, m) ==
  IF m.dialect = "pcp"
  THEN \/ tx.kind = "probe" /\ m.kind = "announce"
       \/ tx.kind = "map" /\ m.kind = "map" /\ m.nonce \in {0, tx.nonce}
  ELSE \/ tx.kind # "map" /\ m.kind = "address"
       \/ tx.kind = "map" /\ m.kind = "map" /\ m.key \in {None, tx.key}

\* A gateway that does not speak the dialect of the request says so in NAT-PMP.
Rejected(m) ==
  /\ inflight # None
  /\ m.result = "version"
  /\ \/ DialectOf(inflight) = m.dialect /\ Matches(inflight, m)
     \/ DialectOf(inflight) = "pcp" /\ m.dialect = "natpmp"

Answered(m) ==
  /\ inflight # None
  /\ m.result # "version"
  /\ DialectOf(inflight) = m.dialect
  /\ Matches(inflight, m)

GrantedFaulty(maps, tx, m) ==
  LET old == maps[tx.key] IN
  [ext |-> m.ext, lease |-> m.lease, nonce |-> tx.nonce, exact |-> tx.exact,
   state |-> "ACTIVE",
   timer |-> IF old = None /\ m.lease THEN "renew" ELSE "off"]

\* The record on_success() leaves for a mapping request.
Granted(maps, tx, m) ==
  LET old == maps[tx.key] IN
  [ext   |-> m.ext,
   lease |-> m.lease,
   nonce |-> IF old = None THEN tx.nonce ELSE old.nonce,
   exact |-> IF old = None THEN tx.exact ELSE old.exact,
   state |-> "ACTIVE",
   timer |-> IF m.lease THEN "renew" ELSE IF old = None THEN "off" ELSE old.timer]

\* Some gateways ignore PREFER_FAILURE.
WrongPort(tx, m) == tx.exact /\ ~tx.delete /\ tx.ext # NoPort /\ m.ext # tx.ext

\* on_success().
Succeed(m, maps) ==
  LET tx == inflight IN
  IF tx.kind # "map" THEN Finish("ok", maps)
  ELSE IF WrongPort(tx, m) THEN Finish("error", maps)
  ELSE IF tx.delete THEN Finish("ok", [maps EXCEPT ![tx.key] = None])
  ELSE Finish("ok", [maps EXCEPT ![tx.key] = Granted(maps, tx, m)])

\* process_packet(): the epoch first, then the transaction in flight.
Receive(m) ==
  LET maps == IF Restarted(m.dialect, m.boot) THEN AfterRestart ELSE mappings IN
  /\ state # "destroyed"
  /\ epoch' = [epoch EXCEPT ![m.dialect] = m.boot]
  /\ \/ /\ ~Rejected(m) /\ ~Answered(m)
        /\ mappings' = maps
        /\ out' = None
        /\ UNCHANGED <<queue, inflight, answers>>
     \/ /\ Rejected(m)
        /\ SwitchOrFinish("error", maps)
     \/ /\ Answered(m)
        /\ IF m.result = "ok" THEN Succeed(m, maps) ELSE Finish("error", maps)
  /\ UNCHANGED <<state, calls>>

-----------------------------------------------------------------------------
\* Replies as an arbitrary gateway may send them; a client does not look at
\* the port and protocol of a PCP reply.
Replies ==
  {m \in Reply :
     /\ m.dialect \in Speaks
     /\ m.dialect = "pcp" => m.kind # "address" /\ m.key = None
     /\ m.dialect = "natpmp" => m.kind # "announce" /\ m.nonce = 0
     /\ m.kind # "map" => m.key = None /\ m.nonce = 0
     /\ m.kind # "map" \/ m.result # "ok" => m.ext = NoPort /\ ~m.lease
     /\ m.ext = NoPort => ~m.lease      \* the reply to a deletion
     /\ m.kind = "map" /\ m.result = "ok" =>
          IF m.dialect = "pcp" THEN m.nonce # 0 ELSE m.key # None}

Timely(m) == ~Reordered /\ epoch[m.dialect] # None => m.boot >= epoch[m.dialect]

CallStep ==
  \/ \E k \in Key, ext \in External \cup {NoPort}, exact, permanent \in BOOLEAN :
       Map(k, ext, exact, permanent)
  \/ \E k \in Key : Unmap(k)
  \/ Probe
  \/ GetExternalIp
  \/ \E i \in DOMAIN queue : CancelQueued(i)
  \/ CancelInflight
  \/ \E c \in Call : CancelDropped(c)
  \/ CancelAll
  \/ Destroy

TimerStep ==
  \/ Retransmit
  \/ \E k \in Key : RenewFires(k)
  \/ \E k \in Key : RecreateFires(k)

Next ==
  \/ CallStep
  \/ TimerStep
  \/ \E m \in Replies : Timely(m) /\ Receive(m)

\* Timers fire; nobody has to answer.  Strong where the bound MaxQueue may hold
\* a timer back for a while.
Fairness ==
  /\ WF_vars(Retransmit)
  /\ \A k \in Key : SF_vars(RecreateFires(k))

Spec == Init /\ [][Next]_vars /\ Fairness

-----------------------------------------------------------------------------
TypeOK ==
  /\ state \in {"open", "destroyed"}
  /\ queue \in Seq(Tx)
  /\ inflight \in Tx \cup {None}
  /\ mappings \in [Key -> Mapping \cup {None}]
  /\ epoch \in [Dialect -> Boot \cup {None}]
  /\ calls \in 0 .. MaxCalls
  /\ answers \in [Call -> {"none", "pending", "ok", "error", "cancelled"}]
  /\ out \in Packet \cup {None}

\* Every call whose callback is owed has exactly one transaction: none is
\* dropped by a cancellation or a fall-back, none can be answered twice.
OwedOnce ==
  /\ \A i, j \in DOMAIN queue : queue[i].call = queue[j].call /\ queue[i].call # 0 => i = j
  /\ \A i \in DOMAIN queue : inflight # None /\ inflight.call # 0 => queue[i].call # inflight.call
  /\ state = "open" =>
       \A c \in Call : answers[c] = "pending" <=> \E tx \in Pending : tx.call = c

\* Every API call is answered, though the gateway may never speak, unless the
\* session is destroyed first.
EveryCallAnswered ==
  \A c \in Call : answers[c] = "pending" ~> answers[c] # "pending" \/ state = "destroyed"

\* A record says how its lease is kept: ACTIVE and finite is going to be
\* renewed, its timer running unless the caller has given it up; RENEWING has
\* its renewal queued or in flight, whatever else is cancelled, answered or
\* granted for its port meanwhile.
LeaseTended ==
  \A k \in Key :
    state = "open" /\ mappings[k] # None =>
      /\ mappings[k].state = "ACTIVE" /\ mappings[k].lease
           => mappings[k].timer \in {"renew", "dropped"}
      /\ mappings[k].state = "RENEWING"
           => \E tx \in Pending : /\ tx.origin = "renew" /\ tx.key = k
                                  /\ tx.nonce = mappings[k].nonce

\* What a gateway restart cost is asked for again: the recreation of a mapping
\* reaches the wire, however long the queue, unless a later grant made it
\* needless, the caller gave it up or the session is destroyed.
LostIsAskedFor ==
  \A k \in Key :
    mappings[k] # None /\ mappings[k].timer = "recreate"
      ~> \/ state = "destroyed"
         \/ mappings[k] = None \/ mappings[k].state = "ACTIVE"
         \/ mappings[k].timer = "dropped"
         \/ inflight # None /\ inflight.key = k /\ out # None
=============================================================================
