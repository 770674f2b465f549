------------------------------- MODULE Mapper -------------------------------
(***************************************************************************)
(* The client facade (src/src/mapper.js with src/src/negotiate.js): start()*)
(* opens the sockets, probes both protocol engines at once and picks one;  *)
(* map() goes through a status check and a local port check before the     *)
(* engine sees it; close() deletes what is held and stops.  Everything in  *)
(* between waits for sockets, replies and timers, and stop(), cancel() and *)
(* more calls of each kind may come while it does.                         *)
(*                                                                         *)
(* The engines are taken by their callbacks: PMPSession says what one does *)
(* inside.  A map call stands for the mapping it asks for.  Operators named *)
(* ...Faulty are plausible slips in the code they precede; no definition   *)
(* uses them.                                                              *)
(***************************************************************************)
EXTENDS Naturals, FiniteSets

CONSTANTS
  Engine,      \* the engines built, of "pmp" and "upnp"
  StartCall,   \* calls of start()
  MapCall,     \* calls of map()
  CloseCall,   \* calls of close()
  CheckPort    \* options.checkLocalPort is not false

Protocol == {"pcp", "natpmp", "upnp"}

\* RANK.
Rank == [pcp |-> 0, natpmp |-> 1, upnp |-> 2]

ASSUME MapperAssumption ==
  Engine \subseteq {"pmp", "upnp"} /\ Engine # {} /\ CheckPort \in BOOLEAN

EngineOf(p) == IF p = "upnp" THEN "upnp" ELSE "pmp"

VARIABLES
  started,      \* start() was called
  settled,      \* start_settled
  destroyed,
  binding,      \* engines whose socket is asked for and not bound
  unbound,      \* those of them whose socket could not be bound
  sockets,      \* sockets open
  negotiation,  \* "none", "running" (the guard timer runs) or "decided"
  probes,       \* what each engine answered: a protocol, "failed", or not yet
  chosen,       \* the protocol chosen, "nobody" when none answered, "none" before
  address,      \* the external address was asked for before start() is answered
  outcome,      \* start_err and start_info
  starts,       \* what each call of start() was answered
  checked,      \* status_checked
  maps,         \* the calls of map(): stage "none", "status", "check", "sent", "dropped"
                \* or "done", cancelled, and how often the callback was called
  held,         \* the mappings the engine holds
  closes        \* the calls of close(): stage "none", "waiting" or "done", the deletions
                \* pending, and how often the callback was called

startVars == <<started, settled, binding, unbound, sockets, negotiation, probes, chosen,
               address, outcome, starts>>
mapVars   == <<checked, maps, held>>
vars      == <<startVars, destroyed, mapVars, closes>>

-----------------------------------------------------------------------------
Init ==
  /\ started = FALSE /\ settled = FALSE /\ destroyed = FALSE
  /\ binding = {} /\ unbound = {} /\ sockets = {}
  /\ negotiation = "none"
  /\ probes = [e \in Engine |-> "none"]
  /\ chosen = "none" /\ address = FALSE /\ outcome = "none"
  /\ starts = [s \in StartCall |-> "none"]
  /\ checked = FALSE
  /\ maps = [m \in MapCall |-> [stage |-> "none", cancelled |-> FALSE, answers |-> 0]]
  /\ held = {}
  /\ closes = [c \in CloseCall |-> [stage |-> "none", pending |-> {}, answers |-> 0]]

-----------------------------------------------------------------------------
(* start().                                                                *)

\* settle_start(): everyone who waits is told the same.
Settle(result) ==
  /\ settled' = TRUE
  /\ outcome' = result
  /\ starts' = [s \in StartCall |-> IF starts[s] = "waiting" THEN result ELSE starts[s]]

StartCalledFaulty(s) ==   \* who joins later is told of success
  /\ starts[s] = "none"
  /\ starts' = [starts EXCEPT ![s] = IF destroyed THEN "refused"
                                     ELSE IF started /\ settled THEN "ok" ELSE "waiting"]
  /\ IF destroyed \/ started THEN UNCHANGED <<started, binding>>
     ELSE started' = TRUE /\ binding' = Engine
  /\ UNCHANGED <<settled, destroyed, unbound, sockets, negotiation, probes, chosen, address,
                 outcome, mapVars, closes>>

StartCalled(s) ==
  /\ starts[s] = "none"
  /\ starts' = [starts EXCEPT ![s] = IF destroyed THEN "refused"
                                     ELSE IF started /\ settled THEN outcome ELSE "waiting"]
  /\ IF destroyed \/ started THEN UNCHANGED <<started, binding>>
     ELSE started' = TRUE /\ binding' = Engine
  /\ UNCHANGED <<settled, destroyed, unbound, sockets, negotiation, probes, chosen, address,
                 outcome, mapVars, closes>>

\* A socket is bound, whether or not stop() came first; with the last one the
\* negotiation begins.  An engine destroyed already fails its probe at once.
SocketBound(e) ==
  /\ e \in binding \ unbound
  /\ binding' = binding \ {e}
  /\ sockets' = sockets \cup (IF e = "pmp" THEN {"pmp", "announce"} ELSE {"ssdp"})
  /\ IF binding' # {} \/ destroyed THEN UNCHANGED <<negotiation, probes>>
     ELSE negotiation' = "running" /\ probes' = [f \in Engine |-> "running"]
  /\ UNCHANGED <<started, settled, destroyed, unbound, chosen, address, outcome, starts, mapVars,
                 closes>>

\* A socket that cannot be bound is only reported: nobody calls ready() for it,
\* so the negotiation never begins.  (An 'error' that no listener takes ends the
\* process; the caller here has one.)
SocketFails(e) ==
  /\ e \in binding \ unbound
  /\ unbound' = unbound \cup {e}
  /\ UNCHANGED <<started, settled, destroyed, binding, sockets, negotiation, probes, chosen,
                 address, outcome, starts, mapVars, closes>>

\* choose() and the callback of run_negotiation(): the best protocol that has
\* answered; with UPnP the external address is asked for first.
Choose(answered) ==
  LET names == Protocol \cap {answered[e] : e \in Engine} IN
  /\ negotiation' = "decided"
  /\ chosen' = IF names = {} THEN "nobody"
               ELSE CHOOSE p \in names : \A q \in names : Rank[p] <= Rank[q]
  /\ address' = (chosen' = "upnp")
  /\ IF address' THEN UNCHANGED <<settled, outcome, starts>>
     ELSE Settle(IF chosen' = "nobody" THEN "failed" ELSE "ok")

\* An engine answers its probe; too late when the guard has decided.
ProbeAnswered(e, answer) ==
  /\ probes[e] = "running" /\ ~destroyed
  /\ answer \in {"failed"} \cup {p \in Protocol : EngineOf(p) = e}
  /\ probes' = [probes EXCEPT ![e] = answer]
  /\ IF negotiation # "running" \/ "running" \in {probes'[f] : f \in Engine}
     THEN UNCHANGED <<negotiation, chosen, address, settled, outcome, starts>>
     ELSE Choose(probes')
  /\ UNCHANGED <<started, destroyed, binding, unbound, sockets, mapVars, closes>>

\* negotiateTimeout is over: whoever has answered decides it.
GuardFires ==
  /\ negotiation = "running"
  /\ IF destroyed
     THEN negotiation' = "decided" /\ UNCHANGED <<chosen, address, settled, outcome, starts>>
     ELSE Choose(probes)
  /\ UNCHANGED <<started, destroyed, binding, unbound, sockets, probes, mapVars, closes>>

\* The external address, or the refusal to tell it.
AddressAnswered ==
  /\ address /\ ~destroyed
  /\ address' = FALSE
  /\ Settle("ok")
  /\ UNCHANGED <<started, destroyed, binding, unbound, sockets, negotiation, probes, chosen, mapVars,
                 closes>>

-----------------------------------------------------------------------------
(* map().                                                                  *)

Ready == ~destroyed /\ chosen \in Protocol

Answer(m, stage) == [maps EXCEPT ![m].stage = stage, ![m].answers = @ + 1]

\* What follows the status check: the local port check, or the request itself.
NextStage == IF CheckPort THEN "check" ELSE "sent"

Map(m) ==
  /\ maps[m].stage = "none"
  /\ IF ~Ready THEN maps' = Answer(m, "done") /\ UNCHANGED checked
     ELSE IF chosen = "upnp" /\ ~checked
     THEN checked' = TRUE /\ maps' = [maps EXCEPT ![m].stage = "status"]
     ELSE maps' = [maps EXCEPT ![m].stage = NextStage] /\ UNCHANGED checked
  /\ UNCHANGED <<startVars, destroyed, held, closes>>

\* check_status_once() calls back; a destroyed engine drops its callbacks.
StatusAnswered(m) ==
  /\ maps[m].stage = "status" /\ ~destroyed
  /\ maps' = [maps EXCEPT ![m].stage = IF maps[m].cancelled THEN "done" ELSE NextStage]
  /\ UNCHANGED <<startVars, destroyed, checked, held, closes>>

\* The local port was looked at: send_map(), which a destroyed engine refuses.
PortChecked(m) ==
  /\ maps[m].stage = "check"
  /\ maps' = IF maps[m].cancelled THEN [maps EXCEPT ![m].stage = "done"]
             ELSE IF destroyed THEN Answer(m, "done")
             ELSE [maps EXCEPT ![m].stage = "sent"]
  /\ UNCHANGED <<startVars, destroyed, checked, held, closes>>

\* The engine calls back.
MapAnswered(m, granted) ==
  /\ maps[m].stage = "sent" /\ ~destroyed
  /\ maps' = Answer(m, "done")
  /\ held' = IF granted THEN held \cup {m} ELSE held
  /\ UNCHANGED <<startVars, destroyed, checked, closes>>

\* The handle map() returned.  A request the engine has goes no further with
\* PMP; the UPnP engine's map() returns no handle, and its request goes on.
Cancel(m) ==
  /\ maps[m].stage \in {"status", "check", "sent", "dropped"}
  /\ ~maps[m].cancelled
  /\ maps' = [Answer(m, IF maps[m].stage = "sent" /\ chosen # "upnp" THEN "done"
                        ELSE maps[m].stage) EXCEPT ![m].cancelled = TRUE]
  /\ UNCHANGED <<startVars, destroyed, checked, held, closes>>

\* cancelAll() reaches only what the PMP engine has.
CancelAll ==
  /\ "pmp" \in Engine /\ ~destroyed
  /\ LET sent == {m \in MapCall : maps[m].stage = "sent" /\ chosen # "upnp"}
     IN  /\ sent # {}
         /\ maps' = [m \in MapCall |->
                       IF m \in sent THEN [maps[m] EXCEPT !.stage = "done", !.answers = @ + 1]
                       ELSE maps[m]]
  /\ UNCHANGED <<startVars, destroyed, checked, held, closes>>

-----------------------------------------------------------------------------
(* stop() and close().                                                     *)

StopFaulty ==   \* who waits on start() is forgotten
  /\ destroyed' = TRUE
  /\ UNCHANGED <<settled, outcome, starts>>
  /\ sockets' = {}
  /\ started' = FALSE
  /\ maps' = maps

\* stop(): who waits on start() is told; what the engines have is dropped.
Stop ==
  IF destroyed THEN UNCHANGED <<destroyed, settled, outcome, starts, sockets, started, maps>>
  ELSE /\ destroyed' = TRUE
       /\ IF ~settled /\ \E s \in StartCall : starts[s] = "waiting"
          THEN Settle("stopped") ELSE UNCHANGED <<settled, outcome, starts>>
       /\ sockets' = {}
       /\ started' = FALSE
       /\ maps' = [m \in MapCall |-> IF maps[m].stage \in {"status", "sent"}
                                     THEN [maps[m] EXCEPT !.stage = "dropped"] ELSE maps[m]]

StopCalled ==
  /\ ~destroyed
  /\ Stop
  /\ UNCHANGED <<binding, unbound, negotiation, probes, chosen, address, checked, held, closes>>

CloseAnswer(c) == [closes EXCEPT ![c].stage = "done", ![c].answers = @ + 1, ![c].pending = {}]

\* close(): a deletion for each mapping held now, and a guard timer.
CloseCalled(c) ==
  /\ closes[c].stage = "none"
  /\ IF ~Ready \/ held = {} THEN Stop /\ closes' = CloseAnswer(c)
     ELSE /\ closes' = [closes EXCEPT ![c].stage = "waiting", ![c].pending = held]
          /\ UNCHANGED <<destroyed, settled, outcome, starts, sockets, started, maps>>
  /\ UNCHANGED <<binding, unbound, negotiation, probes, chosen, address, checked, held>>

UnmapAnsweredFaulty(c, m, deleted) ==   \* the guard is left running
  /\ closes[c].stage = "waiting" /\ m \in closes[c].pending /\ ~destroyed
  /\ held' = IF deleted THEN held \ {m} ELSE held
  /\ IF closes[c].pending = {m}
     THEN Stop /\ closes' = [closes EXCEPT ![c].answers = @ + 1, ![c].pending = {}]
     ELSE /\ closes' = [closes EXCEPT ![c].pending = @ \ {m}]
          /\ UNCHANGED <<destroyed, settled, outcome, starts, sockets, started, maps>>
  /\ UNCHANGED <<binding, unbound, negotiation, probes, chosen, address, checked>>

\* One deletion of close() is answered; with the last one it stops.
UnmapAnswered(c, m, deleted) ==
  /\ closes[c].stage = "waiting" /\ m \in closes[c].pending /\ ~destroyed
  /\ held' = IF deleted THEN held \ {m} ELSE held
  /\ IF closes[c].pending = {m} THEN Stop /\ closes' = CloseAnswer(c)
     ELSE /\ closes' = [closes EXCEPT ![c].pending = @ \ {m}]
          /\ UNCHANGED <<destroyed, settled, outcome, starts, sockets, started, maps>>
  /\ UNCHANGED <<binding, unbound, negotiation, probes, chosen, address, checked>>

\* closeTimeout is over.
CloseGuardFires(c) ==
  /\ closes[c].stage = "waiting"
  /\ Stop
  /\ closes' = CloseAnswer(c)
  /\ UNCHANGED <<binding, unbound, negotiation, probes, chosen, address, checked, held>>

-----------------------------------------------------------------------------
Next ==
  \/ \E s \in StartCall : StartCalled(s)
  \/ \E e \in Engine : SocketBound(e)
  \/ \E e \in Engine : SocketFails(e)
  \/ \E e \in Engine, answer \in Protocol \cup {"failed"} : ProbeAnswered(e, answer)
  \/ GuardFires
  \/ AddressAnswered
  \/ \E m \in MapCall : Map(m)
  \/ \E m \in MapCall : StatusAnswered(m)
  \/ \E m \in MapCall : PortChecked(m)
  \/ \E m \in MapCall, granted \in BOOLEAN : MapAnswered(m, granted)
  \/ \E m \in MapCall : Cancel(m)
  \/ CancelAll
  \/ StopCalled
  \/ \E c \in CloseCall : CloseCalled(c)
  \/ \E c \in CloseCall, m \in MapCall, deleted \in BOOLEAN : UnmapAnswered(c, m, deleted)
  \/ \E c \in CloseCall : CloseGuardFires(c)

\* A bind succeeds or fails, the two guard timers fire, and HTTP requests and
\* the engine's calls end, if only with their own timeouts.  No probe and no
\* deletion has to be answered.
Fairness ==
  /\ \A e \in Engine : WF_vars(SocketBound(e) \/ SocketFails(e))
  /\ WF_vars(GuardFires)
  /\ WF_vars(AddressAnswered)
  /\ \A m \in MapCall :
       /\ WF_vars(StatusAnswered(m))
       /\ WF_vars(PortChecked(m))
       /\ WF_vars(\E granted \in BOOLEAN : MapAnswered(m, granted))
  /\ \A c \in CloseCall : WF_vars(CloseGuardFires(c))

Spec == Init /\ [][Next]_vars /\ Fairness

-----------------------------------------------------------------------------
\* Whoever joins a start() under way or over hears what the first caller
\* heard, and success means an engine was chosen that answered its probe.
StartsAgree ==
  \A s, t \in StartCall :
    /\ {starts[s], starts[t]} \subseteq {"ok", "failed"} => starts[s] = starts[t]
    /\ starts[s] = "ok" => chosen \in Protocol /\ probes[EngineOf(chosen)] = chosen
    /\ starts[s] = "failed" => chosen = "nobody"

\* cancel() of a request the UPnP engine is working on.
Overtaken(m) == chosen = "upnp" /\ maps[m].cancelled

\* No callback is called twice, whatever timer, reply, cancellation and stop
\* race for it, except for a map() cancelled while UPnP works on it.
CalledOnce ==
  /\ \A m \in MapCall : maps[m].answers <= 1 \/ Overtaken(m)
  /\ \A c \in CloseCall : closes[c].answers <= 1

\* Whoever calls is called back, though no gateway speaks and stop() may come at
\* any moment, while sockets open, during the negotiation, while the external
\* address is asked for or deletions are under way: close() always, map() unless
\* the mapper is stopped first, and start() unless a socket cannot be bound, when
\* only stop() answers it (mapper.js:470, 532, 551, 759, 1561).
EveryCallAnswered ==
  /\ \A s \in StartCall :
       starts[s] = "waiting" ~> starts[s] # "waiting" \/ (unbound # {} /\ ~destroyed)
  /\ \A m \in MapCall : maps[m].stage # "none" ~> maps[m].answers > 0 \/ destroyed
  /\ \A c \in CloseCall : closes[c].stage # "none" ~> closes[c].answers > 0
=============================================================================
