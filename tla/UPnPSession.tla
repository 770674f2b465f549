---------------------------- MODULE UPnPSession ----------------------------
(***************************************************************************)
(* The UPnP client engine (src/src/upnp_session.js): the search for a      *)
(* gateway, the SOAP calls with their retries (a dropped connection, a     *)
(* refused lease, a contested port), the mapping records with their        *)
(* renewal timers.  Every HTTP exchange ends in its own time, so renewals, *)
(* API calls and searches overlap in any order.                            *)
(*                                                                         *)
(* Time is abstract: a running timer may fire at any moment.  TCP and UDP  *)
(* do not meet, so a port stands for both; context.lifetime is not zero.   *)
(* Operators named ...Faulty are plausible slips in the code they precede; *)
(* no definition uses them.                                                *)
(***************************************************************************)
EXTENDS Naturals, FiniteSets

CONSTANTS
  MaxPort,        \* 65535
  AddAny,         \* the gateway has AddAnyPortMapping
  Recreate,       \* quirk: renewal deletes and maps again
  ConflictLimit,  \* MAX_CONFLICT_RETRIES
  Op,             \* the API calls made: "map", "unmap", "foreign", "discover", "cancel"
  None,
  MaxCalls,       \* bound: API calls in one run
  Slot            \* bound: HTTP exchanges under way at one time

AnyPort == 0                       \* the gateway is to choose
Port    == 1 .. MaxPort
Held    == Port \cup {AnyPort}     \* ports a record may be kept under
Asked   == 0 .. MaxPort + ConflictLimit   \* increments do not stop at the last port
Call    == 1 .. MaxCalls
NoCall  == 0
Service == {"connection", "firewall", "common"}

ASSUME UPnPSessionAssumption ==
  /\ MaxPort \in Nat \ {0} /\ MaxCalls \in Nat /\ ConflictLimit \in Nat \ {0}
  /\ {AddAny, Recreate} \subseteq BOOLEAN
  /\ Slot \subseteq Nat /\ IsFiniteSet(Slot)

\* An HTTP exchange with the closure that waits for it.  origin is the port of
\* the record a renewal is for, None for an API call; own says whether that
\* record (for a deletion: any record) is the one kept under the port.
Exchange == [kind    : {"describe", "map", "recreate", "unmap", "foreign"},
             call    : Call \cup {NoCall},
             port    : Asked,
             origin  : Held \cup {None},
             own     : BOOLEAN,
             exact   : BOOLEAN,
             finite  : BOOLEAN,
             attempt : 0 .. ConflictLimit + 1,
             retried : BOOLEAN,
             wait    : BOOLEAN,                \* for the timer of the one retry
             to      : Service,
             saved   : Service]                \* call_service(): what to restore

Record == [exact : BOOLEAN, finite : BOOLEAN,
           state : {"ACTIVE", "RENEWING", "LOST"}, timer : BOOLEAN]

ASSUME NoneAssumption == None \notin Held \cup Exchange \cup Record

VARIABLES
  state,          \* context.state
  search,         \* context.searchCb, the call it belongs to
  searchTimer,    \* context.searchTimer runs
  usable,         \* context.candidates holds one that may be chosen: it is on the
                  \* path of this host's traffic, or allowOffPath is set
  service,        \* context.service
  permanentOnly,  \* context.permanentLeasesOnly
  http,           \* exchanges under way
  mappings,       \* context.mappings
  orphans,        \* timers running for records no longer kept: port and exact
  calls,          \* API calls made so far
  answers,        \* what the callback of each call was given
  strayed         \* history: ports whose record the code leaves untended, see LeaseTended

searchVars == <<search, searchTimer, usable>>
tableVars  == <<mappings, orphans, strayed>>
vars == <<state, searchVars, service, permanentOnly, http, tableVars, calls, answers>>

-----------------------------------------------------------------------------
(* Exchanges.                                                              *)

Blank == [kind |-> "map", call |-> NoCall, port |-> AnyPort, origin |-> None, own |-> FALSE,
          exact |-> FALSE, finite |-> FALSE, attempt |-> 0, retried |-> FALSE, wait |-> FALSE,
          to |-> "connection", saved |-> "connection"]

Free == {s \in Slot : http[s] = None}

Post(x) ==
  /\ Free # {}
  /\ http' = [http EXCEPT ![CHOOSE s \in Free : \A t \in Free : s <= t] = x]

\* call() begins in the slot its predecessor leaves.
Repost(s, x) == http' = [http EXCEPT ![s] = [x EXCEPT !.retried = FALSE, !.to = service]]

Close(s) == http' = [http EXCEPT ![s] = None]

Told(c, outcome) == IF c = NoCall THEN answers ELSE [answers EXCEPT ![c] = outcome]

NewCall == calls < MaxCalls /\ calls' = calls + 1

-----------------------------------------------------------------------------
(* Discovery.                                                              *)

Init ==
  /\ state = "new"
  /\ search = NoCall /\ searchTimer = FALSE /\ usable = FALSE
  /\ service = "connection" /\ permanentOnly = FALSE
  /\ http = [s \in Slot |-> None]
  /\ mappings = [p \in Held |-> None] /\ orphans = {} /\ strayed = {}
  /\ calls = 0 /\ answers = [c \in Call |-> "none"]

\* end_search(): whichever discover() waits is told.
EndSearch(outcome) ==
  /\ answers' = Told(search, outcome)
  /\ search' = NoCall
  /\ searchTimer' = FALSE

Discover ==
  /\ "discover" \in Op
  /\ NewCall
  /\ IF state \in {"destroyed", "searching"}
     THEN answers' = Told(calls', "error") /\ UNCHANGED <<state, searchVars>>
     ELSE /\ state' = "searching"
          /\ search' = calls'
          /\ answers' = Told(calls', "pending")
          /\ searchTimer' = TRUE
          /\ usable' = FALSE
  /\ UNCHANGED <<service, permanentOnly, http, tableVars>>

\* The handle of any discover(): it stops the search there is now.
CancelSearch ==
  /\ "cancel" \in Op
  /\ state = "searching"
  /\ state' = "new"
  /\ EndSearch("cancelled")
  /\ UNCHANGED <<usable, service, permanentOnly, http, tableVars, calls>>

\* A search response or an advertisement, in any state.
Sighted ==
  /\ state # "destroyed"
  /\ usable' = TRUE
  /\ UNCHANGED <<state, search, searchTimer, service, permanentOnly, http, tableVars,
                 calls, answers>>

\* The only device that could be chosen takes its leave.
ByeBye ==
  /\ state # "destroyed"
  /\ usable' = FALSE
  /\ UNCHANGED <<state, search, searchTimer, service, permanentOnly, http, tableVars,
                 calls, answers>>

\* The last search window closes: finish_search().
FinishSearch ==
  /\ state = "searching" /\ searchTimer
  /\ IF usable
     THEN /\ Post([Blank EXCEPT !.kind = "describe"])
          /\ searchTimer' = FALSE
          /\ UNCHANGED <<state, search, answers>>
     ELSE state' = "new" /\ EndSearch("error") /\ UNCHANGED http
  /\ UNCHANGED <<usable, service, permanentOnly, tableVars, calls>>

\* fetch_description() ends.  A description that cannot be used ends the search
\* and leaves the state as it is.
Described(s) ==
  /\ http[s].kind = "describe"
  /\ \/ /\ EndSearch("error")
        /\ UNCHANGED <<state, service>>
     \/ /\ EndSearch("ok")
        /\ state' = "ready"
        /\ service' = "connection"
  /\ Close(s)
  /\ UNCHANGED <<usable, permanentOnly, tableVars, calls>>

-----------------------------------------------------------------------------
(* Mapping.                                                                *)

\* The callback of a mapping request is given an error: a renewal loses the
\* record it was for.
Fail(x) ==
  /\ answers' = Told(x.call, "error")
  /\ mappings' = IF x.own THEN [mappings EXCEPT ![x.origin].state = "LOST"] ELSE mappings

AttemptFaulty(s, x) ==   \* nobody is told that the session is not ready
  IF state = "ready" THEN Repost(s, x) /\ UNCHANGED <<answers, mappings>>
  ELSE Close(s) /\ UNCHANGED <<answers, mappings>>

\* attempt_map(), called again from a callback.
Attempt(s, x) ==
  IF state = "ready"
  THEN Repost(s, [x EXCEPT !.finite = @ /\ ~permanentOnly']) /\ UNCHANGED <<answers, mappings>>
  ELSE Close(s) /\ Fail(x)

Map(p, exact, finite) ==
  /\ "map" \in Op
  /\ NewCall
  /\ IF state # "ready"
     THEN answers' = Told(calls', "error") /\ UNCHANGED http
     ELSE /\ answers' = Told(calls', "pending")
          /\ Post([Blank EXCEPT !.call = calls', !.port = p, !.exact = exact,
                                !.finite = finite /\ ~permanentOnly, !.to = service])
  /\ UNCHANGED <<state, searchVars, service, permanentOnly, tableVars>>

OnMappedFaulty(x, p) ==   \* the timer of a record there was is not armed again
  [exact  |-> IF mappings[p] = None THEN x.exact ELSE mappings[p].exact,
   finite |-> x.finite,
   state  |-> "ACTIVE",
   timer  |-> mappings[p] = None /\ x.finite]

\* on_mapped(): a record there is already keeps what it was made for.
OnMapped(x, p) ==
  [exact  |-> IF mappings[p] = None THEN x.exact ELSE mappings[p].exact,
   finite |-> x.finite,
   state  |-> "ACTIVE",
   timer  |-> x.finite \/ (mappings[p] # None /\ mappings[p].timer)]

\* A request sent to another service is answered with a fault.
Granted(s) ==
  /\ http[s].kind = "map" /\ http[s].to = "connection"
  /\ \E p \in IF AddAny /\ ~http[s].exact THEN Port \cup ({http[s].port} \cap Held)
              ELSE {http[s].port} \cap Held :
       /\ mappings' = [mappings EXCEPT ![p] = OnMapped(http[s], p)]
       /\ strayed' = IF http[s].own /\ p # http[s].origin
                     THEN strayed \cup {http[s].origin} ELSE strayed
  /\ answers' = Told(http[s].call, "ok")
  /\ Close(s)
  /\ UNCHANGED <<state, searchVars, service, permanentOnly, orphans, calls>>

\* 725 OnlyPermanentLeasesSupported: once, and remembered.
LeaseRefused(s) ==
  /\ http[s].kind = "map" /\ http[s].to = "connection"
  /\ ~permanentOnly
  /\ permanentOnly' = TRUE
  /\ Attempt(s, http[s])
  /\ UNCHANGED <<state, searchVars, service, orphans, strayed, calls>>

NextPortFaulty(x, limit) ==   \* off by one
  IF x.attempt > limit
  THEN [x EXCEPT !.port = AnyPort, !.attempt = @ + 1]
  ELSE [x EXCEPT !.port = @ + 1, !.attempt = @ + 1]

\* What on_conflict() asks for next: the ports that follow, then any port.
NextPort(x, limit) ==
  IF x.attempt >= limit
  THEN [x EXCEPT !.port = AnyPort, !.attempt = @ + 1]
  ELSE [x EXCEPT !.port = @ + 1, !.attempt = @ + 1]

\* The port is taken, or perhaps the request was not authorised.
Contested(s) ==
  /\ http[s].kind = "map" /\ http[s].to = "connection"
  /\ UNCHANGED permanentOnly
  /\ \E ambiguous \in BOOLEAN :
       LET limit == IF ambiguous THEN 1 ELSE ConflictLimit IN
       IF http[s].exact \/ (http[s].attempt >= limit /\ http[s].port = AnyPort)
       THEN Close(s) /\ Fail(http[s])
       ELSE Attempt(s, NextPort(http[s], limit))
  /\ UNCHANGED <<state, searchVars, service, orphans, strayed, calls>>

\* Any other fault, an unreadable answer, a connection that cannot be made.
Refused(s) ==
  /\ http[s].kind = "map"
  /\ Fail(http[s])
  /\ Close(s)
  /\ UNCHANGED <<state, searchVars, service, permanentOnly, orphans, strayed, calls>>

-----------------------------------------------------------------------------
(* Renewal.                                                                *)

\* What renew() posts for a record.
Renewal(p, exact, own) ==
  [Blank EXCEPT !.kind = IF Recreate THEN "recreate" ELSE "map", !.port = p, !.origin = p,
                !.own = own, !.exact = exact, !.finite = ~permanentOnly, !.to = service]

\* Half the lease is over: renew().  A session that searches again is not ready.
RenewFires(p) ==
  /\ mappings[p] # None /\ mappings[p].timer
  /\ IF state = "ready"
     THEN /\ Post(Renewal(p, mappings[p].exact, TRUE))
          /\ mappings' = [mappings EXCEPT ![p].timer = FALSE, ![p].state = "RENEWING"]
     ELSE /\ mappings' = [mappings EXCEPT ![p].timer = FALSE, ![p].state = "LOST"]
          /\ UNCHANGED http
  /\ UNCHANGED <<state, searchVars, service, permanentOnly, orphans, strayed, calls, answers>>

\* The timer of a record that was deleted: renew() only looks whether there is
\* a record under that port.
OrphanFires(o) ==
  /\ o \in orphans
  /\ orphans' = orphans \ {o}
  /\ IF state = "ready" /\ mappings[o[1]] # None
     THEN Post(Renewal(o[1], o[2], FALSE)) ELSE UNCHANGED http
  /\ UNCHANGED <<state, searchVars, service, permanentOnly, mappings, strayed, calls, answers>>

\* The deletion before a renewal is answered, it does not matter how.
Recreated(s) ==
  /\ http[s].kind = "recreate"
  /\ UNCHANGED permanentOnly
  /\ Attempt(s, [http[s] EXCEPT !.kind = "map", !.finite = TRUE])
  /\ UNCHANGED <<state, searchVars, service, orphans, strayed, calls>>

-----------------------------------------------------------------------------
(* Deletion.                                                               *)

\* unmap() cancels the timer before it knows whether it can send.
Unmap(p) ==
  /\ "unmap" \in Op
  /\ NewCall
  /\ mappings' = IF mappings[p] = None THEN mappings
                 ELSE [mappings EXCEPT ![p].timer = FALSE]
  /\ IF state # "ready"
     THEN /\ answers' = Told(calls', "error")
          /\ strayed' = strayed \cup {p}
          /\ UNCHANGED http
     ELSE /\ answers' = Told(calls', "pending")
          /\ Post([Blank EXCEPT !.kind = "unmap", !.call = calls', !.port = p,
                                !.own = mappings[p] # None, !.to = service])
          /\ UNCHANGED strayed
  /\ UNCHANGED <<state, searchVars, service, permanentOnly, orphans>>

\* Deleted, or there was nothing to delete.  The record leaves the table; a
\* renewal answered meanwhile has armed its timer again.
Unmapped(s) ==
  /\ http[s].kind = "unmap" /\ http[s].to = "connection"
  /\ LET p == http[s].port
         gone == http[s].own /\ mappings[p] # None
     IN  /\ mappings' = IF gone THEN [mappings EXCEPT ![p] = None] ELSE mappings
         /\ orphans' = IF gone /\ mappings[p].timer
                       THEN orphans \cup {<<p, mappings[p].exact>>} ELSE orphans
         /\ http' = [t \in Slot |->
              IF t = s THEN None
              ELSE IF gone /\ http[t] # None /\ http[t].origin = p
                   THEN [http[t] EXCEPT !.own = FALSE] ELSE http[t]]
  /\ answers' = Told(http[s].call, "ok")
  /\ UNCHANGED <<state, searchVars, service, permanentOnly, strayed, calls>>

UnmapRefused(s) ==
  /\ http[s].kind = "unmap"
  /\ strayed' = strayed \cup {http[s].port}
  /\ answers' = Told(http[s].call, "error")
  /\ Close(s)
  /\ UNCHANGED <<state, searchVars, service, permanentOnly, mappings, orphans, calls>>

-----------------------------------------------------------------------------
(* Calls to the other services of the device: pinholes and statistics.     *)

\* call_service() swaps context.service for the time of the exchange.
ForeignCall(other) ==
  /\ "foreign" \in Op
  /\ NewCall
  /\ IF state # "ready"
     THEN answers' = Told(calls', "error") /\ UNCHANGED <<service, http>>
     ELSE /\ answers' = Told(calls', "pending")
          /\ service' = other
          /\ Post([Blank EXCEPT !.kind = "foreign", !.call = calls', !.to = other,
                                !.saved = service])
  /\ UNCHANGED <<state, searchVars, permanentOnly, tableVars>>

ForeignAnswered(s) ==
  /\ http[s].kind = "foreign"
  /\ service' = http[s].saved
  /\ \E outcome \in {"ok", "error"} : answers' = Told(http[s].call, outcome)
  /\ Close(s)
  /\ UNCHANGED <<state, searchVars, permanentOnly, tableVars, calls>>

-----------------------------------------------------------------------------
(* The connection, and the end.                                            *)

DroppedFaulty(s) ==   \* it is not remembered
  /\ http[s].kind # "describe"
  /\ ~http[s].retried
  /\ http' = [http EXCEPT ![s].wait = TRUE]
  /\ UNCHANGED <<state, searchVars, service, permanentOnly, tableVars, calls, answers>>

\* The gateway hangs up: one retry, after a moment.
Dropped(s) ==
  /\ http[s].kind # "describe"
  /\ ~http[s].retried
  /\ http' = [http EXCEPT ![s].retried = TRUE, ![s].wait = TRUE]
  /\ UNCHANGED <<state, searchVars, service, permanentOnly, tableVars, calls, answers>>

\* The retry goes to whatever context.service is by now, and is sent though
\* the session may be destroyed.
Retry(s) ==
  /\ http[s] # None /\ http[s].wait
  /\ http' = [http EXCEPT ![s].wait = FALSE, ![s].to = service]
  /\ UNCHANGED <<state, searchVars, service, permanentOnly, tableVars, calls, answers>>

Destroy ==
  /\ state # "destroyed"
  /\ state' = "destroyed"
  /\ searchTimer' = FALSE
  /\ mappings' = [p \in Held |-> IF mappings[p] = None THEN None
                                 ELSE [mappings[p] EXCEPT !.timer = FALSE]]
  /\ UNCHANGED <<search, usable, service, permanentOnly, http, orphans, strayed,
                 calls, answers>>

\* After destroy() no callback is called.
Ignored(s) == Close(s) /\ UNCHANGED <<state, searchVars, service, permanentOnly, tableVars,
                                      calls, answers>>

Ends(s) ==
  /\ http[s] # None /\ ~http[s].wait
  /\ IF state = "destroyed" THEN Ignored(s)
     ELSE \/ Dropped(s)
          \/ Described(s)
          \/ Granted(s)
          \/ LeaseRefused(s)
          \/ Contested(s)
          \/ Refused(s)
          \/ Recreated(s)
          \/ Unmapped(s)
          \/ UnmapRefused(s)
          \/ ForeignAnswered(s)

Next ==
  \/ Discover
  \/ CancelSearch
  \/ Sighted
  \/ ByeBye
  \/ FinishSearch
  \/ \E p \in Held, exact, finite \in BOOLEAN : Map(p, exact, finite)
  \/ \E p \in Held : RenewFires(p)
  \/ \E o \in orphans : OrphanFires(o)
  \/ \E p \in Port : Unmap(p)
  \/ \E other \in Service \ {"connection"} : ForeignCall(other)
  \/ \E s \in Slot : Retry(s)
  \/ \E s \in Slot : Ends(s)
  \/ Destroy

\* HTTP requests end, if only with their own timeout, and timers fire.
Fairness ==
  /\ WF_vars(FinishSearch)
  /\ \A s \in Slot : WF_vars(Retry(s)) /\ WF_vars(Ends(s))

Spec == Init /\ [][Next]_vars /\ Fairness

-----------------------------------------------------------------------------
TypeOK ==
  /\ state \in {"new", "searching", "ready", "destroyed"}
  /\ search \in Call \cup {NoCall} /\ searchTimer \in BOOLEAN
  /\ usable \in BOOLEAN
  /\ service \in Service /\ permanentOnly \in BOOLEAN
  /\ http \in [Slot -> Exchange \cup {None}]
  /\ mappings \in [Held -> Record \cup {None}]
  /\ orphans \subseteq Held \X BOOLEAN
  /\ calls \in 0 .. MaxCalls
  /\ answers \in [Call -> {"none", "pending", "ok", "error", "cancelled"}]
  /\ strayed \subseteq Held

Carriers(c) == {s \in Slot : http[s] # None /\ http[s].call = c}

\* Every call whose callback is owed is carried by exactly one thing, an HTTP
\* exchange or the search under way: no path through retries, downgrades,
\* conflicts and cancelled searches drops a callback or lets two have it.
OwedOnce ==
  state # "destroyed" =>
    /\ \A c \in Call :
         Cardinality(Carriers(c)) + (IF search = c THEN 1 ELSE 0)
           = (IF answers[c] = "pending" THEN 1 ELSE 0)
    /\ search # NoCall =>
         searchTimer \/ \E s \in Slot : http[s] # None /\ http[s].kind = "describe"

\* Again and again no API call waits (a call is answered once, so each of them
\* is answered), though the gateway hangs up, contests every port and refuses
\* every lease, unless the session is destroyed: the retries of map() call one
\* another and come to an end, and none loses its callback.
EveryCallAnswered ==
  []<>(state = "destroyed" \/ \A c \in Call : answers[c] # "pending")

\* A record says how its lease is kept: ACTIVE and finite has a timer, or a
\* deletion decides; RENEWING has its renewal under way.  Except, in strayed,
\* where a renewal was granted another port or unmap() failed.
LeaseTended ==
  \A p \in Held \ strayed :
    state # "destroyed" /\ mappings[p] # None =>
      LET under(kinds) == \E s \in Slot : http[s] # None /\ http[s].kind \in kinds
                            /\ (http[s].port = p \/ http[s].origin = p)
      IN  /\ mappings[p].state = "ACTIVE" /\ mappings[p].finite
               => mappings[p].timer \/ under({"map", "recreate", "unmap"})
          /\ mappings[p].state = "RENEWING" => under({"map", "recreate"})

=============================================================================
