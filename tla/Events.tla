------------------------------- MODULE Events -------------------------------
(***************************************************************************)
(* Event subscriptions: the gateway's subscriber table and notifications   *)
(* (src/src/upnp_server_session.js, posted by src/src/server.js), the UPnP *)
(* client engine's records of them (src/src/upnp_session.js) and the       *)
(* facade that opens a listener and renews each subscription at two thirds *)
(* of its lease (src/src/mapper.js).  Requests are HTTP exchanges that may *)
(* be lost either way; each notification is posted on a connection of its  *)
(* own, so notifications overtake each other and get lost.                 *)
(*                                                                         *)
(* A lease does not lapse before the timer set for two thirds of it has    *)
(* fired and the renewal it began, or the request that set it, has ended.  *)
(* Definitions named ...Faulty are plausible slips in the code they        *)
(* precede; nothing uses them.                                             *)
(***************************************************************************)
EXTENDS Naturals, FiniteSets

CONSTANTS
  Call,        \* calls of the facade's subscribe()
  None,        \* no call, nothing received
  MaxWork,     \* how much happens: changes of the evented address, restarts of
               \* the gateway, and calls, which weigh two
  MaxBoot      \* restarts

ASSUME EventsAssumption ==
  IsFiniteSet(Call) /\ None \notin Call /\ None \notin Nat /\ MaxWork \in Nat /\ MaxBoot \in Nat

\* The gateway numbers the subscriptions it gives, from 1 after every restart.
Sid == 1 .. Cardinality(Call)

VARIABLES
  subscribers,  \* the gateway's table
  lapsed,       \* the entries of it whose lease is over
  seq,          \* the next sequence number of each
  given,        \* subscriberSeq
  changes, boots,
  notes,        \* notifications under way: which subscription, which number
  stopped,      \* the facade's stop() was called
  listener,     \* event_server: "none", "binding" or "open"
  calls,        \* where each subscribe() stands
  sid,          \* the subscription it was given
  records,      \* the engine's records: the call each belongs to
  timer,        \* the renewal timer of a subscription is set
  renew,        \* where its renewal stands
  unsub,        \* where its UNSUBSCRIBE stands
  lastSeq, received, overtaken, told,   \* per subscription, see HandleNotify
  ended,        \* the client asked to end it
  hurt,         \* an exchange of it was lost
  bootId        \* the restart the engine has heard of last

gatewayVars == <<subscribers, lapsed, seq, given, changes, boots>>
noteVars    == <<lastSeq, received, overtaken, told>>
chainVars   == <<sid, records, timer, renew, unsub, ended, hurt, bootId>>
eventsVars == <<gatewayVars, notes, stopped, listener, calls, chainVars, noteVars>>

Work == changes + boots + 2 * Cardinality({c \in Call : calls[c] # "none"})

EventsInit ==
  /\ subscribers = {} /\ lapsed = {} /\ seq = [s \in Sid |-> 0] /\ given = 0
  /\ changes = 0 /\ boots = 0 /\ notes = {}
  /\ stopped = FALSE /\ listener = "none"
  /\ calls = [c \in Call |-> "none"] /\ sid = [c \in Call |-> None]
  /\ records = [s \in Sid |-> None]
  /\ timer = [c \in Call |-> FALSE]
  /\ renew = [c \in Call |-> "none"] /\ unsub = [c \in Call |-> "none"]
  /\ lastSeq = [c \in Call |-> None] /\ received = [c \in Call |-> {}]
  /\ overtaken = [c \in Call |-> FALSE] /\ told = [c \in Call |-> FALSE]
  /\ ended = {} /\ hurt = {} /\ bootId = 0

-----------------------------------------------------------------------------
(* subscribe().                                                            *)

\* The engine sends the request; destroyed by stop(), it refuses.
Requested == IF stopped THEN "failed" ELSE "asked"

\* The first call opens the listener, after stop() a new one; until it is open
\* there is no URL to give, and a second call fails.
Subscribe(c) ==
  /\ Work + 2 <= MaxWork
  /\ calls[c] = "none"
  /\ calls' = [calls EXCEPT ![c] = CASE listener = "none"    -> "listening"
                                     [] listener = "binding" -> "failed"
                                     [] OTHER                -> Requested]
  /\ listener' = IF listener = "none" THEN "binding" ELSE listener
  /\ UNCHANGED <<gatewayVars, notes, stopped, chainVars, noteVars>>

ListenerOpens(c) ==
  /\ calls[c] = "listening"
  /\ calls' = [calls EXCEPT ![c] = Requested]
  /\ listener' = "open"
  /\ UNCHANGED <<gatewayVars, notes, stopped, chainVars, noteVars>>

\* A listener that stop() closed opens all the same; the callback asks the one
\* that has taken its place, if any, for its port.
OrphanOpens(c) ==
  /\ calls[c] = "orphaned"
  /\ calls' = [calls EXCEPT ![c] = IF listener = "open" THEN Requested ELSE "thrown"]
  /\ UNCHANGED <<gatewayVars, notes, stopped, listener, chainVars, noteVars>>

\* The port is taken: a warning, no callback, and no URL for later calls.
ListenerFails(c) ==
  /\ calls[c] \in {"listening", "orphaned"}
  /\ calls' = [calls EXCEPT ![c] = "silent"]
  /\ UNCHANGED <<gatewayVars, notes, stopped, listener, chainVars, noteVars>>

\* handle_subscribe() without a SID.
GatewaySubscribes(c) ==
  /\ calls[c] = "asked"
  /\ given' = given + 1
  /\ subscribers' = subscribers \cup {given'} /\ lapsed' = lapsed \ {given'}
  /\ seq' = [seq EXCEPT ![given'] = 0]
  /\ calls' = [calls EXCEPT ![c] = "granted"] /\ sid' = [sid EXCEPT ![c] = given']
  /\ UNCHANGED <<changes, boots, notes, stopped, listener, records, timer, renew, unsub,
                 ended, hurt, bootId, noteVars>>

\* The answer makes the record and sets the timer, whether or not stop() came first.
SubscribeEnds(c) ==
  /\ calls[c] = "granted"
  /\ calls' = [calls EXCEPT ![c] = "held"]
  /\ records' = [records EXCEPT ![sid[c]] = c]
  /\ timer' = [timer EXCEPT ![c] = TRUE]
  /\ UNCHANGED <<gatewayVars, notes, stopped, listener, sid, renew, unsub, ended, hurt, bootId, noteVars>>

SubscribeLost(c) ==
  /\ calls[c] \in {"asked", "granted"}
  /\ calls' = [calls EXCEPT ![c] = "failed"]
  /\ UNCHANGED <<gatewayVars, notes, stopped, listener, chainVars, noteVars>>

-----------------------------------------------------------------------------
(* The renewals.                                                           *)

RenewFiresFaulty(c) ==   \* whether the engine still has a record is not looked at
  /\ timer[c]
  /\ timer' = [timer EXCEPT ![c] = FALSE]
  /\ renew' = [renew EXCEPT ![c] = "asked"]
  /\ UNCHANGED <<gatewayVars, notes, stopped, listener, calls, sid, records, unsub, ended, hurt, bootId, noteVars>>

\* A subscription the engine has no record of any more is renewed no more.
RenewFires(c) ==
  /\ timer[c]
  /\ timer' = [timer EXCEPT ![c] = FALSE]
  /\ renew' = [renew EXCEPT ![c] = IF records[sid[c]] = None THEN "none" ELSE "asked"]
  /\ UNCHANGED <<gatewayVars, notes, stopped, listener, calls, sid, records, unsub, ended, hurt, bootId, noteVars>>

\* handle_subscribe() with a SID: an entry whose lease is over but that is still
\* in the table is renewed.
GatewayRenews(c) ==
  /\ renew[c] = "asked"
  /\ IF sid[c] \in subscribers
     THEN lapsed' = lapsed \ {sid[c]} /\ renew' = [renew EXCEPT ![c] = "ok"]
     ELSE renew' = [renew EXCEPT ![c] = "gone"] /\ UNCHANGED lapsed
  /\ UNCHANGED <<subscribers, seq, given, changes, boots, notes, stopped, listener, calls, sid, records,
                 timer, unsub, ended, hurt, bootId, noteVars>>

RenewEndsFaulty(c) ==   \* the timer is not set again
  /\ renew[c] \in {"ok", "gone"}
  /\ renew' = [renew EXCEPT ![c] = "none"]
  /\ records' = IF renew[c] = "ok" THEN records ELSE [records EXCEPT ![sid[c]] = None]
  /\ UNCHANGED <<gatewayVars, notes, stopped, listener, calls, sid, timer, unsub, ended, hurt, bootId, noteVars>>

RenewEnds(c) ==
  /\ renew[c] \in {"ok", "gone"}
  /\ renew' = [renew EXCEPT ![c] = "none"]
  /\ IF renew[c] = "ok" THEN timer' = [timer EXCEPT ![c] = TRUE] /\ UNCHANGED records
     ELSE records' = [records EXCEPT ![sid[c]] = None] /\ UNCHANGED timer
  /\ UNCHANGED <<gatewayVars, notes, stopped, listener, calls, sid, unsub, ended, hurt, bootId, noteVars>>

\* One lost renewal is the last: there is only a warning.
RenewLost(c) ==
  /\ renew[c] # "none"
  /\ renew' = [renew EXCEPT ![c] = "none"] /\ hurt' = hurt \cup {c}
  /\ UNCHANGED <<gatewayVars, notes, stopped, listener, calls, sid, records, timer, unsub, ended, bootId, noteVars>>

-----------------------------------------------------------------------------
(* unsubscribe() and stop().                                               *)

\* A subscription without a record is not asked about.
Unsubscribe(c) ==
  /\ calls[c] = "held" /\ c \notin ended
  /\ ended' = ended \cup {c}
  /\ unsub' = [unsub EXCEPT ![c] = IF records[sid[c]] = None THEN "none" ELSE "asked"]
  /\ UNCHANGED <<gatewayVars, notes, stopped, listener, calls, sid, records, timer, renew, hurt, bootId, noteVars>>

GatewayUnsubscribes(c) ==
  /\ unsub[c] = "asked"
  /\ subscribers' = subscribers \ {sid[c]} /\ lapsed' = lapsed \ {sid[c]}
  /\ unsub' = [unsub EXCEPT ![c] = "answered"]
  /\ UNCHANGED <<seq, given, changes, boots, notes, stopped, listener, calls, sid, records,
                 timer, renew, ended, hurt, bootId, noteVars>>

\* The record goes, answered or not.
UnsubscribeEnds(c) ==
  /\ unsub[c] \in {"asked", "answered"}
  /\ unsub' = [unsub EXCEPT ![c] = "none"]
  /\ records' = [records EXCEPT ![sid[c]] = None]
  /\ UNCHANGED <<gatewayVars, notes, stopped, listener, calls, sid, timer, renew, ended, hurt, bootId, noteVars>>

\* stop(): every subscription on record is ended, and nobody waits for it.
EventsStop ==
  /\ ~stopped /\ stopped' = TRUE
  /\ listener' = "none" /\ notes' = {}
  /\ calls' = [c \in Call |-> IF calls[c] = "listening" THEN "orphaned" ELSE calls[c]]
  /\ LET recorded == {c \in Call : \E s \in Sid : records[s] = c} IN
     /\ timer' = [c \in Call |-> timer[c] /\ c \notin recorded]
     /\ unsub' = [c \in Call |-> IF c \in recorded THEN "asked" ELSE unsub[c]]
     /\ ended' = ended \cup recorded
  /\ UNCHANGED <<gatewayVars, sid, records, renew, hurt, bootId, noteVars>>

-----------------------------------------------------------------------------
(* The events.                                                             *)

\* setExternalIp() and notify(): an entry whose lease is over goes now.
Change ==
  /\ Work < MaxWork
  /\ changes' = changes + 1
  /\ subscribers' = subscribers \ lapsed /\ lapsed' = {}
  /\ seq' = [s \in Sid |-> IF s \in subscribers' THEN seq[s] + 1 ELSE seq[s]]
  /\ notes' = IF stopped THEN notes ELSE notes \cup {<<s, seq[s]>> : s \in subscribers'}
  /\ UNCHANGED <<given, boots, stopped, listener, calls, chainVars, noteVars>>

HandleNotifyFaulty(s, n) ==   \* a number that comes late is no gap
  LET c == records[s] IN
  IF c = None THEN UNCHANGED noteVars
  ELSE /\ lastSeq' = [lastSeq EXCEPT ![c] = n]
       /\ received' = [received EXCEPT ![c] = @ \cup {n}]
       /\ overtaken' = [overtaken EXCEPT ![c] = @ \/ (n = 0 /\ lastSeq[c] # None)]
       /\ told' = [told EXCEPT ![c] = @ \/ (lastSeq[c] # None /\ n > lastSeq[c] + 1)]

\* handle_notify(): a gap is told of; number 0 never counts as one.
HandleNotify(s, n) ==
  LET c == records[s] IN
  IF c = None THEN UNCHANGED noteVars
  ELSE /\ lastSeq' = [lastSeq EXCEPT ![c] = n]
       /\ received' = [received EXCEPT ![c] = @ \cup {n}]
       /\ overtaken' = [overtaken EXCEPT ![c] = @ \/ (n = 0 /\ lastSeq[c] # None)]
       /\ told' = [told EXCEPT ![c] = @ \/ (n # 0 /\ lastSeq[c] # None /\ n # lastSeq[c] + 1)]

Notified(note) ==
  /\ note \in notes /\ notes' = notes \ {note}
  /\ HandleNotify(note[1], note[2])
  /\ UNCHANGED <<gatewayVars, stopped, listener, calls, chainVars>>

NoteLost(note) ==
  /\ note \in notes /\ notes' = notes \ {note}
  /\ UNCHANGED <<gatewayVars, stopped, listener, calls, chainVars, noteVars>>

\* The time a lease was given for passes.
Lapse(s) ==
  /\ s \in subscribers \ lapsed
  /\ \A c \in Call : sid[c] = s => ~timer[c] /\ renew[c] = "none" /\ calls[c] # "granted"
  /\ lapsed' = lapsed \cup {s}
  /\ UNCHANGED <<subscribers, seq, given, changes, boots, notes, stopped, listener, calls, chainVars, noteVars>>

\* The gateway is started again and remembers nothing.
Restart ==
  /\ Work < MaxWork /\ boots < MaxBoot /\ boots' = boots + 1
  /\ subscribers' = {} /\ lapsed' = {} /\ given' = 0 /\ seq' = [s \in Sid |-> 0]
  /\ UNCHANGED <<changes, notes, stopped, listener, calls, chainVars, noteVars>>

\* check_boot_id(): its advertisement says so; the records are void.
BootHeard ==
  /\ bootId < boots /\ ~stopped
  /\ bootId' = boots
  /\ records' = [s \in Sid |-> None]
  /\ UNCHANGED <<gatewayVars, notes, stopped, listener, calls, sid, timer, renew, unsub, ended, hurt, noteVars>>

-----------------------------------------------------------------------------
EventsNext ==
  \/ \E c \in Call :
       \/ Subscribe(c) \/ ListenerOpens(c) \/ OrphanOpens(c) \/ ListenerFails(c)
       \/ GatewaySubscribes(c) \/ SubscribeEnds(c) \/ SubscribeLost(c)
       \/ RenewFires(c) \/ GatewayRenews(c) \/ RenewEnds(c) \/ RenewLost(c)
       \/ Unsubscribe(c) \/ GatewayUnsubscribes(c) \/ UnsubscribeEnds(c)
  \/ EventsStop
  \/ Change
  \/ \E note \in notes : Notified(note) \/ NoteLost(note)
  \/ \E s \in Sid : Lapse(s)
  \/ Restart
  \/ BootHeard

\* Timers fire, and an HTTP exchange ends with an answer or its timeout.
EventsFairness ==
  \A c \in Call :
    /\ WF_eventsVars(RenewFires(c))
    /\ WF_eventsVars(RenewEnds(c) \/ RenewLost(c))
    /\ WF_eventsVars(UnsubscribeEnds(c))

EventsSpec == EventsInit /\ [][EventsNext]_eventsVars /\ EventsFairness

-----------------------------------------------------------------------------
\* A subscriber that was told of no gap has every event from the first it
\* received to the last, however notifications overtake each other or get lost,
\* unless it was number 0 that came late (upnp_session.js:1132).
GapIsTold ==
  \A c \in Call : ~told[c] /\ ~overtaken[c] /\ received[c] # {} =>
    \A n \in 0 .. changes :
      n \in received[c] <=> n <= lastSeq[c] /\ \E first \in received[c] : first <= n

\* A subscription the client has not ended, whose exchanges all reached their
\* end with a gateway that did not restart, is in force there: it is renewed
\* before its lease is over (mapper.js:1333), and the engine has its record.
KeptWhileAnswered ==
  \A c \in Call \ (ended \cup hurt) : calls[c] = "held" /\ boots = 0 =>
    sid[c] \in subscribers \ lapsed /\ records[sid[c]] = c

\* The gateway gave the number again after a restart.
GivenAgain(c) == \E d \in Call \ {c} : sid[d] = sid[c]

\* A subscription the client ended, with unsubscribe() or with stop(), is some
\* day renewed no more, though UNSUBSCRIBE gets lost or its answer crosses a
\* renewal.  (One that stop() finds still being asked for is not ended.)
LetGo ==
  \A c \in Call : c \in ended ~> [](~timer[c] /\ renew[c] = "none") \/ GivenAgain(c)
=============================================================================
