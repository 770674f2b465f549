---------------------------- MODULE MapperProofs ----------------------------
(***************************************************************************)
(* What the facade promises whatever engines, calls and orders there are:  *)
(* every start() hears the same, the choice of a protocol is final, and no *)
(* callback is called twice.                                               *)
(*                                                                         *)
(* The second part is about its event subscriptions, for any number of     *)
(* them, of changes and of lost exchanges: a gap in the notifications is   *)
(* told, and a subscription whose exchanges are answered stays in force.   *)
(***************************************************************************)
EXTENDS Mapper, Events, FiniteSetTheorems, TLAPS

\* The answers to start(), and the stages in which a map() may be cancelled.
Results == {"ok", "failed", "stopped"}
Active  == {"status", "check", "sent", "dropped"}

TypeInv ==
  /\ started \in BOOLEAN /\ settled \in BOOLEAN /\ destroyed \in BOOLEAN
  /\ binding \subseteq Engine /\ unbound \subseteq Engine
  /\ negotiation \in {"none", "running", "decided"}
  /\ probes \in [Engine -> {"none", "running", "failed"} \cup Protocol]
  /\ chosen \in {"none", "nobody"} \cup Protocol
  /\ address \in BOOLEAN
  /\ outcome \in {"none"} \cup Results
  /\ starts \in [StartCall -> {"none", "waiting", "refused"} \cup Results]
  /\ maps \in [MapCall -> [stage : {"none", "done"} \cup Active, cancelled : BOOLEAN, answers : Nat]]
  /\ held \subseteq MapCall
  /\ closes \in [CloseCall -> [stage : {"none", "waiting", "done"}, pending : SUBSET MapCall,
                               answers : Nat]]

\* The negotiation begins after the last socket, not at all when one cannot be
\* bound, and only once.
NegotiationInv ==
  /\ unbound \subseteq binding
  /\ binding # {} => negotiation = "none"
  /\ binding # {} \/ negotiation # "none" => started \/ destroyed
  /\ chosen # "none" => negotiation = "decided"
  /\ \A e \in Engine : probes[e] \in {"none", "running", "failed"} \/ EngineOf(probes[e]) = e
  /\ chosen \in Protocol => EngineOf(chosen) \in Engine /\ probes[EngineOf(chosen)] = chosen

\* start() is settled once: after the choice and, with UPnP, the address, or by
\* stop().
SettledInv ==
  /\ address => chosen = "upnp" /\ (~settled \/ destroyed)
  /\ settled => outcome # "none" /\ (destroyed \/ (negotiation = "decided" /\ ~address))
  /\ outcome = "ok" => chosen \in Protocol
  /\ outcome = "failed" => chosen = "nobody"
  /\ \A s \in StartCall : starts[s] \in {"ok", "failed"} => settled /\ starts[s] = outcome

\* A map() has been answered when it is done or cancelled, and only then.
MapInv ==
  \A m \in MapCall :
    /\ maps[m].stage = "none" => maps[m].answers = 0 /\ ~maps[m].cancelled
    /\ maps[m].stage \in Active => maps[m].answers = IF maps[m].cancelled THEN 1 ELSE 0
    /\ maps[m].stage = "sent" /\ maps[m].cancelled => chosen = "upnp"
    /\ maps[m].answers <= 1 \/ Overtaken(m)

CloseInv ==
  \A c \in CloseCall :
    /\ closes[c].stage # "done" => closes[c].answers = 0
    /\ closes[c].answers <= 1

IInv == TypeInv /\ NegotiationInv /\ SettledInv /\ MapInv /\ CloseInv

-----------------------------------------------------------------------------
\* A choice is made of what was answered, or of nobody.
LEMMA BestExists ==
  ASSUME NEW S \in SUBSET Protocol, S # {}
  PROVE  (CHOOSE p \in S : \A q \in S : Rank[p] <= Rank[q]) \in S
<1>1. Rank["pcp"] = 0 /\ Rank["natpmp"] = 1 /\ Rank["upnp"] = 2 BY DEF Rank
<1>2. \E p \in S : \A q \in S : Rank[p] <= Rank[q]
  <2>1. CASE "pcp" \in S BY <1>1, <2>1 DEF Protocol
  <2>2. CASE "pcp" \notin S /\ "natpmp" \in S BY <1>1, <2>2 DEF Protocol
  <2>3. CASE "pcp" \notin S /\ "natpmp" \notin S
    <3>1. S = {"upnp"} BY <2>3 DEF Protocol
    <3> QED BY <1>1, <3>1
  <2> QED BY <2>1, <2>2, <2>3
<1> QED BY <1>2

LEMMA InitIInv == Init => IInv
<1> SUFFICES ASSUME Init PROVE IInv OBVIOUS
<1>1. TypeInv BY DEF Init, TypeInv
<1>2. NegotiationInv /\ SettledInv BY DEF Init, NegotiationInv, SettledInv, Protocol
<1>3. MapInv /\ CloseInv BY DEF Init, MapInv, CloseInv, Active
<1> QED BY <1>1, <1>2, <1>3 DEF IInv

\* choose() is called once, while the mapper lives, with what has been answered.
LEMMA ChooseKeeps ==
  ASSUME IInv, negotiation = "running", ~destroyed, Choose(probes'),
         probes' \in [Engine -> {"none", "running", "failed"} \cup Protocol],
         \A e \in Engine : probes'[e] \in {"none", "running", "failed"} \/ EngineOf(probes'[e]) = e,
         UNCHANGED <<started, destroyed, binding, unbound, sockets, mapVars, closes>>
  PROVE  IInv'
<1> DEFINE names == Protocol \cap {probes'[e] : e \in Engine}
<1>1. chosen = "none" /\ ~settled /\ binding = {}
  BY DEF IInv, TypeInv, NegotiationInv, SettledInv
<1>2. IF names = {} THEN chosen' = "nobody" ELSE chosen' \in names
  BY BestExists DEF Choose
<1>3. chosen' \in {"nobody"} \cup Protocol BY <1>2
<1>4. chosen' \in Protocol => EngineOf(chosen') \in Engine /\ probes'[EngineOf(chosen')] = chosen'
  BY <1>2 DEF EngineOf, Protocol
<1>5. TypeInv'
  <2>1. /\ settled' \in BOOLEAN /\ outcome' \in {"none"} \cup Results
        /\ starts' \in [StartCall -> {"none", "waiting", "refused"} \cup Results]
    <3>1. CASE address' BY <3>1 DEF IInv, TypeInv, Choose
    <3>2. CASE ~address'
      <4>1. PICK result \in {"ok", "failed"} : Settle(result) BY <3>2 DEF Choose
      <4> QED BY <4>1 DEF IInv, TypeInv, Settle, Results
    <3> QED BY <3>1, <3>2
  <2>2. negotiation' = "decided" /\ address' \in BOOLEAN BY DEF Choose
  <2> QED BY <1>3, <2>1, <2>2 DEF IInv, TypeInv, mapVars
<1>6. NegotiationInv'
  BY <1>1, <1>4 DEF IInv, NegotiationInv, Choose
<1>7. SettledInv'
  <2>1. \A s \in StartCall : starts[s] \notin {"ok", "failed"}
    BY <1>1 DEF IInv, SettledInv
  <2>2. CASE address' BY <1>1, <1>3, <2>1, <2>2 DEF IInv, SettledInv, Choose, Protocol
  <2>3. CASE ~address'
    <3>1. Settle(IF chosen' = "nobody" THEN "failed" ELSE "ok") BY <2>3 DEF Choose
    <3>2. negotiation' = "decided" BY DEF Choose
    <3>3. \A s \in StartCall : starts'[s] = IF starts[s] = "waiting" THEN outcome' ELSE starts[s]
      BY <3>1 DEF Settle
    <3> QED BY <1>3, <2>1, <2>3, <3>1, <3>2, <3>3 DEF Settle, SettledInv, Protocol
  <2> QED BY <2>2, <2>3 DEF IInv, TypeInv, Choose
<1>8. MapInv' /\ CloseInv'
  BY <1>1 DEF IInv, MapInv, CloseInv, Overtaken, mapVars
<1> QED BY <1>5, <1>6, <1>7, <1>8 DEF IInv

\* stop(), whoever calls it.
LEMMA StopKeeps ==
  ASSUME IInv, Stop, UNCHANGED <<binding, unbound, negotiation, probes, chosen, address>>,
         held' \subseteq MapCall,
         closes' \in [CloseCall -> [stage : {"none", "waiting", "done"}, pending : SUBSET MapCall,
                                    answers : Nat]],
         CloseInv'
  PROVE  IInv'
<1>1. CASE destroyed
  <2>1. UNCHANGED <<destroyed, settled, outcome, starts, sockets, started, maps>> BY <1>1 DEF Stop
  <2>2. TypeInv' BY <2>1 DEF IInv, TypeInv
  <2>3. NegotiationInv' /\ SettledInv' BY <2>1 DEF IInv, NegotiationInv, SettledInv
  <2>4. MapInv' BY <2>1 DEF IInv, MapInv, Overtaken
  <2> QED BY <2>2, <2>3, <2>4 DEF IInv
<1>2. CASE ~destroyed
  <2>1. destroyed' /\ started' = FALSE BY <1>2 DEF Stop
  <2>2. \A m \in MapCall : maps'[m] = IF maps[m].stage \in {"status", "sent"}
                                      THEN [maps[m] EXCEPT !.stage = "dropped"] ELSE maps[m]
    BY <1>2 DEF Stop
  <2>3. maps' \in [MapCall -> [stage : {"none", "done"} \cup Active, cancelled : BOOLEAN, answers : Nat]]
    <3>1. DOMAIN maps' = MapCall /\ maps' = [m \in MapCall |-> maps'[m]] BY <1>2 DEF Stop
    <3>2. \A m \in MapCall : maps[m] \in [stage : {"none", "done"} \cup Active, cancelled : BOOLEAN, answers : Nat]
      BY DEF IInv, TypeInv
    <3>3. \A m \in MapCall : maps'[m] \in [stage : {"none", "done"} \cup Active, cancelled : BOOLEAN, answers : Nat]
      <4> SUFFICES ASSUME NEW m \in MapCall
                   PROVE  maps'[m] \in [stage : {"none", "done"} \cup Active, cancelled : BOOLEAN, answers : Nat]
        OBVIOUS
      <4>1. CASE maps[m].stage \in {"status", "sent"}
        <5>1. maps'[m] = [maps[m] EXCEPT !.stage = "dropped"] BY <2>2, <4>1
        <5>2. "dropped" \in {"none", "done"} \cup Active BY DEF Active
        <5> QED BY <3>2, <5>1, <5>2
      <4>2. CASE maps[m].stage \notin {"status", "sent"}
        <5>1. maps'[m] = maps[m] BY <2>2, <4>2
        <5> QED BY <3>2, <5>1
      <4> QED BY <4>1, <4>2
    <3> QED BY <3>1, <3>3
  <2>4. settled' \in BOOLEAN /\ outcome' \in {"none"} \cup Results
        /\ starts' \in [StartCall -> {"none", "waiting", "refused"} \cup Results]
    BY <1>2 DEF Stop, Settle, IInv, TypeInv, Results
  <2>5. TypeInv' BY <2>1, <2>3, <2>4 DEF IInv, TypeInv
  <2>6. NegotiationInv' BY <2>1 DEF IInv, NegotiationInv
  <2>7. SettledInv'
    <3>1. CASE ~settled /\ \E s \in StartCall : starts[s] = "waiting"
      <4>1. Settle("stopped") BY <1>2, <3>1 DEF Stop
      <4>2. \A s \in StartCall : starts'[s] = IF starts[s] = "waiting" THEN "stopped" ELSE starts[s]
        BY <4>1 DEF Settle
      <4> QED BY <2>1, <3>1, <4>1, <4>2 DEF IInv, SettledInv, Settle
    <3>2. CASE ~(~settled /\ \E s \in StartCall : starts[s] = "waiting")
      <4>1. UNCHANGED <<settled, outcome, starts>> BY <1>2, <3>2 DEF Stop
      <4> QED BY <2>1, <4>1 DEF IInv, SettledInv
    <3> QED BY <3>1, <3>2
  <2>8. MapInv'
    <3> SUFFICES ASSUME NEW m \in MapCall
                 PROVE  /\ maps'[m].stage = "none" => maps'[m].answers = 0 /\ ~maps'[m].cancelled
                        /\ maps'[m].stage \in Active =>
                             maps'[m].answers = IF maps'[m].cancelled THEN 1 ELSE 0
                        /\ maps'[m].stage = "sent" /\ maps'[m].cancelled => chosen' = "upnp"
                        /\ maps'[m].answers <= 1 \/ Overtaken(m)'
      BY DEF MapInv
    <3>1. maps[m] \in [stage : {"none", "done"} \cup Active, cancelled : BOOLEAN, answers : Nat]
      BY DEF IInv, TypeInv
    <3>2. maps'[m].cancelled = maps[m].cancelled /\ maps'[m].answers = maps[m].answers
          /\ maps'[m].stage = IF maps[m].stage \in {"status", "sent"} THEN "dropped" ELSE maps[m].stage
      BY <2>2, <3>1
    <3> QED BY <3>2 DEF IInv, MapInv, Overtaken, Active
  <2> QED BY <2>5, <2>6, <2>7, <2>8 DEF IInv
<1> QED BY <1>1, <1>2

\* A record that is answered and done.
LEMMA RecordAnswered ==
  ASSUME NEW r, NEW q, NEW S, r \in [stage : S, cancelled : BOOLEAN, answers : Nat], "done" \in S,
         r.answers = 0, q = [r EXCEPT !.stage = "done", !.answers = r.answers + 1]
  PROVE  q.stage = "done" /\ q.answers = 1 /\ q.cancelled = r.cancelled
         /\ q \in [stage : S, cancelled : BOOLEAN, answers : Nat]
<1> DEFINE p == [r EXCEPT !.stage = "done"]
<1>1. p.stage = "done" /\ p.answers = 0 /\ p.cancelled = r.cancelled
      /\ p \in [stage : S, cancelled : BOOLEAN, answers : Nat]
  OBVIOUS
<1>2. q = [p EXCEPT !.answers = 1] OBVIOUS
<1> HIDE DEF p
<1> QED BY <1>1, <1>2

\* A step of one map() call.
LEMMA MapKeeps ==
  ASSUME IInv, NEW m \in MapCall,
         UNCHANGED <<startVars, destroyed, closes>>,
         held' \subseteq MapCall,
         maps' = [maps EXCEPT ![m] = maps'[m]],
         maps'[m] \in [stage : {"done"} \cup Active, cancelled : BOOLEAN, answers : Nat],
         maps'[m].stage \in Active => maps'[m].answers = IF maps'[m].cancelled THEN 1 ELSE 0,
         maps'[m].stage = "sent" /\ maps'[m].cancelled => chosen = "upnp",
         maps'[m].answers <= 1 \/ (chosen = "upnp" /\ maps'[m].cancelled)
  PROVE  IInv'
<1>1. chosen' = chosen BY DEF startVars
<1>2. \A n \in MapCall \ {m} : maps'[n] = maps[n] BY DEF IInv, TypeInv
<1>3. TypeInv'
  <2>1. maps' \in [MapCall -> [stage : {"none", "done"} \cup Active, cancelled : BOOLEAN, answers : Nat]]
    BY DEF IInv, TypeInv
  <2> QED BY <2>1 DEF IInv, TypeInv, startVars
<1>4. NegotiationInv' /\ SettledInv' /\ CloseInv'
  BY DEF IInv, NegotiationInv, SettledInv, CloseInv, startVars
<1>5. MapInv'
  <2>1. \A n \in MapCall \ {m} : Overtaken(n)' <=> Overtaken(n) BY <1>1, <1>2 DEF Overtaken
  <2>2. Overtaken(m)' <=> (chosen = "upnp" /\ maps'[m].cancelled) BY <1>1 DEF Overtaken
  <2>3. maps'[m].stage # "none" BY DEF Active
  <2> QED BY <1>1, <1>2, <2>1, <2>2, <2>3 DEF IInv, MapInv
<1> QED BY <1>3, <1>4, <1>5 DEF IInv

LEMMA NextIInv == IInv /\ [Next]_vars => IInv'
<1> SUFFICES ASSUME IInv, [Next]_vars PROVE IInv' OBVIOUS
<1> USE MapperAssumption
<1>1. ASSUME NEW s \in StartCall, StartCalled(s) PROVE IInv'
  <2>1. starts' \in [StartCall -> {"none", "waiting", "refused"} \cup Results]
        /\ \A t \in StartCall : starts'[t] \in {"ok", "failed"} =>
             \/ starts'[t] = starts[t]
             \/ settled /\ starts'[t] = outcome
    BY <1>1 DEF StartCalled, IInv, TypeInv, SettledInv, Results
  <2>2. CASE destroyed \/ started
    <3>1. UNCHANGED <<started, binding>> BY <1>1, <2>2 DEF StartCalled
    <3>2. TypeInv' BY <1>1, <2>1, <3>1 DEF StartCalled, IInv, TypeInv, mapVars
    <3>3. NegotiationInv' BY <1>1, <3>1 DEF StartCalled, IInv, NegotiationInv
    <3>4. SettledInv' BY <1>1, <2>1, <3>1 DEF StartCalled, IInv, SettledInv
    <3>5. MapInv' /\ CloseInv' BY <1>1 DEF StartCalled, IInv, MapInv, CloseInv, Overtaken, mapVars
    <3> QED BY <3>2, <3>3, <3>4, <3>5 DEF IInv
  <2>3. CASE ~destroyed /\ ~started
    <3>1. started' = TRUE /\ binding' = Engine BY <1>1, <2>3 DEF StartCalled
    <3>2. negotiation = "none" BY <2>3 DEF IInv, NegotiationInv
    <3>3. TypeInv' BY <1>1, <2>1, <3>1 DEF StartCalled, IInv, TypeInv, mapVars
    <3>4. NegotiationInv' BY <1>1, <3>1, <3>2 DEF StartCalled, IInv, NegotiationInv
    <3>5. SettledInv' BY <1>1, <2>1, <3>1 DEF StartCalled, IInv, SettledInv
    <3>6. MapInv' /\ CloseInv' BY <1>1 DEF StartCalled, IInv, MapInv, CloseInv, Overtaken, mapVars
    <3> QED BY <3>3, <3>4, <3>5, <3>6 DEF IInv
  <2> QED BY <2>2, <2>3 DEF IInv, TypeInv
<1>2. ASSUME NEW e \in Engine, SocketBound(e) PROVE IInv'
  <2>1. negotiation = "none" /\ chosen = "none" BY <1>2 DEF SocketBound, IInv, NegotiationInv
  <2>2. TypeInv'
    <3>1. probes' \in [Engine -> {"none", "running", "failed"} \cup Protocol]
          /\ negotiation' \in {"none", "running"}
      BY <1>2, <2>1 DEF SocketBound, IInv, TypeInv
    <3> QED BY <1>2, <3>1 DEF SocketBound, IInv, TypeInv, mapVars
  <2>3. NegotiationInv'
    <3>1. \A f \in Engine : probes'[f] = probes[f] \/ probes'[f] = "running"
      BY <1>2 DEF SocketBound, IInv, TypeInv
    <3>2. binding' \subseteq binding /\ (binding' # {} => negotiation' = "none")
      BY <1>2, <2>1 DEF SocketBound
    <3>3. started \/ destroyed BY <1>2 DEF SocketBound, IInv, NegotiationInv
    <3> QED BY <1>2, <2>1, <3>1, <3>2, <3>3 DEF SocketBound, IInv, NegotiationInv, Protocol
  <2>4. SettledInv' BY <1>2, <2>1 DEF SocketBound, IInv, SettledInv
  <2>5. MapInv' /\ CloseInv' BY <1>2 DEF SocketBound, IInv, MapInv, CloseInv, Overtaken, mapVars
  <2> QED BY <2>2, <2>3, <2>4, <2>5 DEF IInv
<1>17. ASSUME NEW e \in Engine, SocketFails(e) PROVE IInv'
  <2>1. TypeInv' BY <1>17 DEF SocketFails, IInv, TypeInv, mapVars
  <2>2. NegotiationInv' /\ SettledInv' BY <1>17 DEF SocketFails, IInv, NegotiationInv, SettledInv
  <2>3. MapInv' /\ CloseInv' BY <1>17 DEF SocketFails, IInv, MapInv, CloseInv, Overtaken, mapVars
  <2> QED BY <2>1, <2>2, <2>3 DEF IInv
<1>3. ASSUME NEW e \in Engine, NEW answer \in Protocol \cup {"failed"}, ProbeAnswered(e, answer)
      PROVE IInv'
  <2>1. probes' = [probes EXCEPT ![e] = answer] /\ probes[e] = "running" /\ ~destroyed
        /\ (answer = "failed" \/ EngineOf(answer) = e)
        /\ UNCHANGED <<started, destroyed, binding, unbound, sockets, mapVars, closes>>
    BY <1>3 DEF ProbeAnswered
  <2>2. probes' \in [Engine -> {"none", "running", "failed"} \cup Protocol]
    BY <2>1 DEF IInv, TypeInv
  <2>3. \A f \in Engine : probes'[f] \in {"none", "running", "failed"} \/ EngineOf(probes'[f]) = f
    BY <2>1 DEF IInv, TypeInv, NegotiationInv
  <2>4. CASE negotiation # "running" \/ "running" \in {probes'[f] : f \in Engine}
    <3>1. UNCHANGED <<negotiation, chosen, address, settled, outcome, starts>>
      BY <1>3, <2>4 DEF ProbeAnswered
    <3>2. TypeInv' BY <2>1, <2>2, <3>1 DEF IInv, TypeInv, mapVars
    <3>3. NegotiationInv'
      <4>1. chosen \in Protocol => EngineOf(chosen) # e /\ probes'[EngineOf(chosen)] = chosen
        BY <2>1 DEF IInv, TypeInv, NegotiationInv, Protocol
      <4> QED BY <2>1, <2>3, <3>1, <4>1 DEF IInv, NegotiationInv
    <3>4. SettledInv' BY <2>1, <3>1 DEF IInv, SettledInv
    <3>5. MapInv' /\ CloseInv' BY <2>1, <3>1 DEF IInv, MapInv, CloseInv, Overtaken, mapVars
    <3> QED BY <3>2, <3>3, <3>4, <3>5 DEF IInv
  <2>5. CASE negotiation = "running" /\ "running" \notin {probes'[f] : f \in Engine}
    <3>1. Choose(probes') BY <1>3, <2>5 DEF ProbeAnswered
    <3> QED BY <2>1, <2>2, <2>3, <2>5, <3>1, ChooseKeeps
  <2> QED BY <2>4, <2>5
<1>4. CASE GuardFires
  <2>1. CASE destroyed
    <3>1. negotiation' = "decided" /\ UNCHANGED <<chosen, address, settled, outcome, starts>>
      BY <1>4, <2>1 DEF GuardFires
    <3>2. TypeInv' BY <1>4, <3>1 DEF GuardFires, IInv, TypeInv, mapVars
    <3>3. NegotiationInv' BY <1>4, <2>1, <3>1 DEF GuardFires, IInv, NegotiationInv
    <3>4. SettledInv' BY <1>4, <3>1 DEF GuardFires, IInv, SettledInv
    <3>5. MapInv' /\ CloseInv' BY <1>4, <3>1 DEF GuardFires, IInv, MapInv, CloseInv, Overtaken, mapVars
    <3> QED BY <3>2, <3>3, <3>4, <3>5 DEF IInv
  <2>2. CASE ~destroyed
    <3>1. negotiation = "running" /\ Choose(probes) /\ probes' = probes
          /\ UNCHANGED <<started, destroyed, binding, unbound, sockets, mapVars, closes>>
      BY <1>4, <2>2 DEF GuardFires
    <3>2. Choose(probes') BY <3>1
    <3>3. probes' \in [Engine -> {"none", "running", "failed"} \cup Protocol] BY <3>1 DEF IInv, TypeInv
    <3>4. \A e \in Engine : probes'[e] \in {"none", "running", "failed"} \/ EngineOf(probes'[e]) = e
      BY <3>1 DEF IInv, NegotiationInv
    <3> QED BY <2>2, <3>1, <3>2, <3>3, <3>4, ChooseKeeps
  <2> QED BY <2>1, <2>2
<1>5. CASE AddressAnswered
  <2>1. chosen = "upnp" /\ ~settled /\ negotiation = "decided" /\ Settle("ok")
    BY <1>5 DEF AddressAnswered, IInv, SettledInv, NegotiationInv
  <2>2. \A s \in StartCall : starts'[s] = IF starts[s] = "waiting" THEN "ok" ELSE starts[s]
    BY <2>1 DEF Settle
  <2>3. TypeInv' BY <1>5, <2>1 DEF AddressAnswered, Settle, IInv, TypeInv, Results, mapVars
  <2>4. NegotiationInv' BY <1>5 DEF AddressAnswered, IInv, NegotiationInv
  <2>5. SettledInv'
    BY <1>5, <2>1, <2>2 DEF AddressAnswered, Settle, IInv, SettledInv, Protocol
  <2>6. MapInv' /\ CloseInv' BY <1>5 DEF AddressAnswered, IInv, MapInv, CloseInv, Overtaken, mapVars
  <2> QED BY <2>3, <2>4, <2>5, <2>6 DEF IInv
<1> DEFINE MapRecord == [stage : {"none", "done"} \cup Active, cancelled : BOOLEAN, answers : Nat]
<1>m. held \subseteq MapCall /\ \A m \in MapCall : maps[m] \in MapRecord
  BY DEF IInv, TypeInv
<1>6. ASSUME NEW m \in MapCall, Map(m) PROVE IInv'
  <2>1. maps[m].stage = "none" /\ maps[m].answers = 0 /\ ~maps[m].cancelled
    BY <1>6 DEF Map, IInv, MapInv
  <2>2. maps' = [maps EXCEPT ![m] = maps'[m]] /\ UNCHANGED <<startVars, destroyed, held, closes>>
        /\ maps'[m].cancelled = FALSE
        /\ \/ maps'[m].stage = "done" /\ maps'[m].answers = 1
           \/ maps'[m].stage \in {"status", "check", "sent"} /\ maps'[m].answers = 0
        /\ maps'[m] \in MapRecord
    BY <1>6, <1>m, <2>1 DEF Map, Answer, NextStage, Active, IInv, TypeInv
  <2> QED BY <2>2, <1>m, MapKeeps DEF Active
<1>7. ASSUME NEW m \in MapCall, StatusAnswered(m) PROVE IInv'
  <2>1. maps[m].stage = "status" /\ maps[m].answers = IF maps[m].cancelled THEN 1 ELSE 0
    BY <1>7 DEF StatusAnswered, IInv, MapInv, Active
  <2>2. maps' = [maps EXCEPT ![m] = maps'[m]] /\ UNCHANGED <<startVars, destroyed, held, closes>>
        /\ maps'[m].cancelled = maps[m].cancelled /\ maps'[m].answers = maps[m].answers
        /\ maps'[m].stage = (IF maps[m].cancelled THEN "done" ELSE IF CheckPort THEN "check" ELSE "sent")
        /\ maps'[m] \in MapRecord
    BY <1>7, <1>m DEF StatusAnswered, NextStage, Active, IInv, TypeInv
  <2> QED BY <1>m, <2>1, <2>2, MapKeeps DEF Active
<1>8. ASSUME NEW m \in MapCall, PortChecked(m) PROVE IInv'
  <2>1. maps[m].stage = "check" /\ maps[m].answers = IF maps[m].cancelled THEN 1 ELSE 0
    BY <1>8 DEF PortChecked, IInv, MapInv, Active
  <2>2. maps' = [maps EXCEPT ![m] = maps'[m]] /\ UNCHANGED <<startVars, destroyed, held, closes>>
        /\ maps'[m].cancelled = maps[m].cancelled
        /\ \/ maps'[m].stage = "done" /\ maps'[m].answers = 1
           \/ maps'[m].stage = "sent" /\ ~maps[m].cancelled /\ maps'[m].answers = 0
        /\ maps'[m] \in MapRecord
    <3>1. CASE maps[m].cancelled
      <4>1. maps' = [maps EXCEPT ![m].stage = "done"] BY <1>8, <3>1 DEF PortChecked
      <4>2. maps'[m] = [maps[m] EXCEPT !.stage = "done"] BY <4>1 DEF IInv, TypeInv
      <4>3. maps[m].answers = 1 BY <2>1, <3>1
      <4>4. maps'[m] \in MapRecord /\ maps'[m].stage = "done" /\ maps'[m].answers = 1
            /\ maps'[m].cancelled = maps[m].cancelled
        BY <1>m, <4>2, <4>3
      <4> QED BY <1>8, <4>1, <4>2, <4>4 DEF PortChecked, IInv, TypeInv
    <3>2. CASE ~maps[m].cancelled /\ destroyed
      <4>1. maps' = Answer(m, "done") BY <1>8, <3>2 DEF PortChecked
      <4> QED BY <1>8, <1>m, <2>1, <3>2, <4>1 DEF PortChecked, Answer, IInv, TypeInv
    <3>3. CASE ~maps[m].cancelled /\ ~destroyed
      <4>1. maps' = [maps EXCEPT ![m].stage = "sent"] BY <1>8, <3>3 DEF PortChecked
      <4> QED BY <1>8, <1>m, <2>1, <3>3, <4>1 DEF PortChecked, Active, IInv, TypeInv
    <3> QED BY <3>1, <3>2, <3>3
  <2> QED BY <1>m, <2>1, <2>2, MapKeeps DEF Active
<1>9. ASSUME NEW m \in MapCall, NEW granted \in BOOLEAN, MapAnswered(m, granted) PROVE IInv'
  <2>1. maps[m].stage = "sent" /\ maps[m].answers = (IF maps[m].cancelled THEN 1 ELSE 0)
        /\ (maps[m].cancelled => chosen = "upnp")
    BY <1>9 DEF MapAnswered, IInv, MapInv, Active
  <2>2. maps' = [maps EXCEPT ![m] = maps'[m]] /\ UNCHANGED <<startVars, destroyed, checked, closes>>
        /\ held' \subseteq MapCall
        /\ maps'[m].cancelled = maps[m].cancelled
        /\ maps'[m].stage = "done" /\ maps'[m].answers = maps[m].answers + 1
        /\ maps'[m] \in MapRecord
    BY <1>9, <1>m DEF MapAnswered, Answer, Active, IInv, TypeInv
  <2> QED BY <1>m, <2>1, <2>2, MapKeeps DEF Active
<1>10. ASSUME NEW m \in MapCall, Cancel(m) PROVE IInv'
  <2>1. maps[m].stage \in Active /\ maps[m].answers = 0 /\ ~maps[m].cancelled
    BY <1>10 DEF Cancel, IInv, MapInv, Active
  <2>2. maps' = [maps EXCEPT ![m] = maps'[m]] /\ UNCHANGED <<startVars, destroyed, held, closes>>
        /\ maps'[m].cancelled /\ maps'[m].answers = 1
        /\ maps'[m].stage = (IF maps[m].stage = "sent" /\ chosen # "upnp" THEN "done" ELSE maps[m].stage)
        /\ maps'[m] \in MapRecord
    BY <1>10, <1>m, <2>1 DEF Cancel, Answer, Active, IInv, TypeInv
  <2> QED BY <1>m, <2>1, <2>2, MapKeeps DEF Active
<1>11. CASE CancelAll
  <2> DEFINE sent == {m \in MapCall : maps[m].stage = "sent" /\ chosen # "upnp"}
  <2>1. UNCHANGED <<startVars, destroyed, checked, held, closes>>
        /\ maps' = [m \in MapCall |->
                       IF m \in sent THEN [maps[m] EXCEPT !.stage = "done", !.answers = @ + 1]
                       ELSE maps[m]]
    BY <1>11 DEF CancelAll
  <2>2. \A m \in sent : /\ maps[m].answers = 0 /\ ~maps[m].cancelled
                        /\ maps'[m].stage = "done" /\ maps'[m].answers = 1
                        /\ ~maps'[m].cancelled /\ maps'[m] \in MapRecord
    <3> SUFFICES ASSUME NEW m \in sent
                 PROVE  /\ maps[m].answers = 0 /\ ~maps[m].cancelled
                        /\ maps'[m].stage = "done" /\ maps'[m].answers = 1
                        /\ ~maps'[m].cancelled /\ maps'[m] \in MapRecord
      OBVIOUS
    <3>1. maps[m].stage = "sent" /\ chosen # "upnp" OBVIOUS
    <3>2. maps[m].answers = 0 /\ ~maps[m].cancelled BY <3>1 DEF IInv, MapInv, Active
    <3>3. maps'[m] = [maps[m] EXCEPT !.stage = "done", !.answers = maps[m].answers + 1] BY <2>1
    <3>4. maps[m] \in MapRecord BY <1>m
    <3>5. maps'[m].stage = "done" /\ maps'[m].answers = 1 /\ maps'[m].cancelled = maps[m].cancelled
          /\ maps'[m] \in MapRecord
      <4>1. "done" \in {"none", "done"} \cup Active OBVIOUS
      <4>2. maps[m].answers = 0 BY <3>2
      <4> QED BY <3>3, <3>4, <4>1, <4>2, RecordAnswered
    <3> QED BY <3>2, <3>5
  <2>3. \A m \in MapCall \ sent : maps'[m] = maps[m] BY <2>1
  <2>4. maps' \in [MapCall -> MapRecord] BY <1>m, <2>1, <2>2, <2>3
  <2>5. TypeInv' BY <2>1, <2>4 DEF IInv, TypeInv, startVars
  <2>6. NegotiationInv' /\ SettledInv' /\ CloseInv'
    BY <2>1 DEF IInv, NegotiationInv, SettledInv, CloseInv, startVars
  <2>7. MapInv'
    <3>1. chosen' = chosen BY <2>1 DEF startVars
    <3>2. \A m \in MapCall \ sent : Overtaken(m)' <=> Overtaken(m) BY <2>3, <3>1 DEF Overtaken
    <3> HIDE DEF sent
    <3> QED BY <2>2, <2>3, <3>1, <3>2 DEF IInv, MapInv, Active
  <2> QED BY <2>5, <2>6, <2>7 DEF IInv
<1>12. CASE StopCalled
  <2>1. closes' \in [CloseCall -> [stage : {"none", "waiting", "done"}, pending : SUBSET MapCall,
                                   answers : Nat]]
    BY <1>12 DEF StopCalled, IInv, TypeInv
  <2>2. CloseInv' BY <1>12 DEF StopCalled, IInv, CloseInv
  <2>3. held' \subseteq MapCall BY <1>12 DEF StopCalled, IInv, TypeInv
  <2> QED BY <1>12, <2>1, <2>2, <2>3, StopKeeps DEF StopCalled
<1> DEFINE Closing == [stage : {"none", "waiting", "done"}, pending : SUBSET MapCall, answers : Nat]
<1>c. \A c \in CloseCall : closes[c] \in Closing BY DEF IInv, TypeInv
<1>d. ASSUME NEW c \in CloseCall, closes[c].stage # "done", closes' = CloseAnswer(c)
      PROVE  closes' \in [CloseCall -> Closing] /\ CloseInv'
  <2>1. closes[c].answers = 0 BY <1>d DEF IInv, CloseInv
  <2>2. closes'[c].stage = "done" /\ closes'[c].answers = 1 /\ closes'[c] \in Closing
        /\ closes' \in [CloseCall -> Closing]
    BY <1>c, <1>d, <2>1 DEF CloseAnswer, IInv, TypeInv
  <2>3. \A d \in CloseCall \ {c} : closes'[d] = closes[d] BY <1>d DEF CloseAnswer, IInv, TypeInv
  <2> QED BY <2>2, <2>3 DEF IInv, CloseInv
\* A close() that goes on.
<1>w. ASSUME NEW c \in CloseCall, NEW S \in SUBSET MapCall, closes[c].stage # "done",
             closes' = [closes EXCEPT ![c].stage = "waiting", ![c].pending = S],
             UNCHANGED <<startVars, destroyed, checked, maps>>, held' \subseteq MapCall
      PROVE  IInv'
  <2>1. closes'[c].stage = "waiting" /\ closes'[c].answers = closes[c].answers
        /\ closes' \in [CloseCall -> Closing]
    <3> DEFINE goes == [closes[c] EXCEPT !.stage = "waiting", !.pending = S]
    <3>1. goes \in Closing /\ goes.stage = "waiting" /\ goes.answers = closes[c].answers
      BY <1>c
    <3>2. closes \in [CloseCall -> Closing] BY DEF IInv, TypeInv
    <3>3. closes' = [closes EXCEPT ![c] = goes] BY <1>w
    <3> HIDE DEF goes, Closing
    <3> QED BY <3>1, <3>2, <3>3
  <2>2. \A d \in CloseCall \ {c} : closes'[d] = closes[d] BY <1>w DEF IInv, TypeInv
  <2>3. TypeInv' BY <1>w, <2>1 DEF IInv, TypeInv, startVars
  <2>4. CloseInv' BY <1>w, <2>1, <2>2 DEF IInv, CloseInv
  <2>5. NegotiationInv' /\ SettledInv' /\ MapInv'
    BY <1>w DEF IInv, NegotiationInv, SettledInv, MapInv, Overtaken, startVars
  <2> QED BY <2>3, <2>4, <2>5 DEF IInv
<1>13. ASSUME NEW c \in CloseCall, CloseCalled(c) PROVE IInv'
  <2>1. closes[c].stage = "none"
        /\ UNCHANGED <<binding, unbound, negotiation, probes, chosen, address, checked, held>>
    BY <1>13 DEF CloseCalled
  <2>2. CASE ~Ready \/ held = {}
    <3>1. Stop /\ closes' = CloseAnswer(c) BY <1>13, <2>2 DEF CloseCalled
    <3> QED BY <1>d, <1>m, <2>1, <3>1, StopKeeps DEF IInv, TypeInv
  <2>3. CASE ~(~Ready \/ held = {})
    <3>1. closes' = [closes EXCEPT ![c].stage = "waiting", ![c].pending = held]
          /\ UNCHANGED <<startVars, destroyed, checked, maps>>
      BY <1>13, <2>1, <2>3 DEF CloseCalled, startVars
    <3> QED BY <1>w, <2>1, <3>1 DEF IInv, TypeInv
  <2> QED BY <2>2, <2>3
<1>14. ASSUME NEW c \in CloseCall, NEW m \in MapCall, NEW deleted \in BOOLEAN,
              UnmapAnswered(c, m, deleted)
       PROVE IInv'
  <2>1. closes[c].stage = "waiting"
        /\ UNCHANGED <<binding, unbound, negotiation, probes, chosen, address, checked>>
        /\ held' \subseteq MapCall
    BY <1>14 DEF UnmapAnswered, IInv, TypeInv
  <2>2. CASE closes[c].pending = {m}
    <3>1. Stop /\ closes' = CloseAnswer(c) BY <1>14, <2>2 DEF UnmapAnswered
    <3> QED BY <1>d, <2>1, <3>1, StopKeeps
  <2>3. CASE closes[c].pending # {m}
    <3>1. closes' = [closes EXCEPT ![c].pending = @ \ {m}]
          /\ UNCHANGED <<destroyed, settled, outcome, starts, sockets, started, maps>>
      BY <1>14, <2>3 DEF UnmapAnswered
    <3>2. closes' = [closes EXCEPT ![c].stage = "waiting", ![c].pending = closes[c].pending \ {m}]
      BY <1>c, <2>1, <3>1 DEF IInv, TypeInv
    <3>3. UNCHANGED <<startVars, destroyed, checked, maps>> BY <2>1, <3>1 DEF startVars
    <3>4. closes[c].pending \ {m} \in SUBSET MapCall BY <1>c
    <3> QED BY <1>w, <2>1, <3>2, <3>3, <3>4
  <2> QED BY <2>2, <2>3
<1>15. ASSUME NEW c \in CloseCall, CloseGuardFires(c) PROVE IInv'
  <2>1. closes[c].stage = "waiting" /\ Stop /\ closes' = CloseAnswer(c)
        /\ UNCHANGED <<binding, unbound, negotiation, probes, chosen, address, checked, held>>
    BY <1>15 DEF CloseGuardFires
  <2> QED BY <1>d, <1>m, <2>1, StopKeeps DEF IInv, TypeInv
<1>16. CASE UNCHANGED vars
  <2>1. UNCHANGED <<startVars, destroyed, mapVars, closes>> BY <1>16 DEF vars
  <2>2. TypeInv' BY <2>1 DEF IInv, TypeInv, startVars, mapVars
  <2>3. NegotiationInv' /\ SettledInv' BY <2>1 DEF IInv, NegotiationInv, SettledInv, startVars
  <2>4. MapInv' /\ CloseInv' BY <2>1 DEF IInv, MapInv, CloseInv, Overtaken, startVars, mapVars
  <2> QED BY <2>2, <2>3, <2>4 DEF IInv
<1> QED
  BY <1>1, <1>2, <1>3, <1>4, <1>5, <1>6, <1>7, <1>8, <1>9, <1>10, <1>11, <1>12, <1>13, <1>14,
     <1>15, <1>16, <1>17 DEF Next

\* The invariant holds of every reachable state of the facade.
THEOREM Invariance == Spec => []IInv
BY InitIInv, NextIInv, PTL DEF Spec

-----------------------------------------------------------------------------
\* Every start() is answered the same, success only with an engine that has
\* answered its probe, with any number of callers.
THEOREM StartsCorrect == Spec => []StartsAgree
<1>1. IInv => StartsAgree BY DEF IInv, TypeInv, NegotiationInv, SettledInv, StartsAgree
<1> QED BY <1>1, Invariance, PTL

\* No callback of map() or close() is called twice, but for a map() cancelled
\* while UPnP works on it.
THEOREM AnswersCorrect == Spec => []CalledOnce
<1>1. MapInv /\ CloseInv => CalledOnce BY Zenon DEF MapInv, CloseInv, CalledOnce
<1>2. IInv => CalledOnce BY <1>1, Zenon DEF IInv
<1> QED BY <1>2, Invariance, PTL

\* The protocol chosen is final: no late answer, second guard or stop() changes
\* it (negotiate.js has one settled flag for all of them).
THEOREM ChoiceFinal == Spec => [][chosen # "none" => UNCHANGED chosen]_vars
<1>1. IInv /\ [Next]_vars => [chosen # "none" => UNCHANGED chosen]_vars
  <2> SUFFICES ASSUME IInv, Next, chosen # "none" PROVE chosen' = chosen
    BY DEF vars
  <2>1. negotiation = "decided" BY DEF IInv, NegotiationInv
  <2>2. CASE \E s \in StartCall : StartCalled(s) BY <2>2 DEF StartCalled
  <2>3. CASE \E e \in Engine : SocketBound(e) \/ SocketFails(e) BY <2>3 DEF SocketBound, SocketFails
  <2>4. CASE \E e \in Engine, answer \in Protocol \cup {"failed"} : ProbeAnswered(e, answer)
    BY <2>1, <2>4 DEF ProbeAnswered
  <2>5. CASE GuardFires BY <2>1, <2>5 DEF GuardFires
  <2>6. CASE AddressAnswered BY <2>6 DEF AddressAnswered
  <2>7. CASE UNCHANGED startVars BY <2>7 DEF startVars
  <2>8. ASSUME \/ StopCalled \/ \E c \in CloseCall : CloseCalled(c) \/ CloseGuardFires(c)
               \/ \E c \in CloseCall, m \in MapCall, deleted \in BOOLEAN : UnmapAnswered(c, m, deleted)
        PROVE  chosen' = chosen
    BY <2>8 DEF StopCalled, CloseCalled, CloseGuardFires, UnmapAnswered
  <2> QED
    BY <2>2, <2>3, <2>4, <2>5, <2>6, <2>7, <2>8, Zenon
    DEF Next, Map, StatusAnswered, PortChecked, MapAnswered, Cancel, CancelAll
<1> QED BY <1>1, Invariance, PTL DEF Spec

-----------------------------------------------------------------------------
(* The event subscriptions.                                                *)

\* Where a subscribe() stands.
Stage == {"none", "listening", "orphaned", "asked", "granted", "held", "failed", "silent", "thrown"}

EventsTypeInv ==
  /\ subscribers \subseteq Sid /\ lapsed \subseteq Sid
  /\ seq \in [Sid -> Nat] /\ given \in Nat /\ changes \in Nat /\ boots \in Nat
  /\ notes \subseteq Sid \X Nat
  /\ calls \in [Call -> Stage]
  /\ sid \in [Call -> Sid \cup {None}]
  /\ records \in [Sid -> Call \cup {None}]
  /\ timer \in [Call -> BOOLEAN]
  /\ renew \in [Call -> {"none", "asked", "ok", "gone"}]
  /\ unsub \in [Call -> {"none", "asked", "answered"}]
  /\ ended \subseteq Call /\ hurt \subseteq Call /\ bootId \in Nat
  /\ lastSeq \in [Call -> Nat \cup {None}]
  /\ received \in [Call -> SUBSET Nat]
  /\ overtaken \in [Call -> BOOLEAN] /\ told \in [Call -> BOOLEAN]

\* What a subscriber has received without being told of a gap has none.
GapInv ==
  \A c \in Call :
    /\ lastSeq[c] = None <=> received[c] = {}
    /\ ~told[c] /\ ~overtaken[c] /\ received[c] # {} =>
         \A n \in Nat :
           n \in received[c] <=> n <= lastSeq[c] /\ \E first \in received[c] : first <= n

\* The calls that were given a number.
Given == {c \in Call : sid[c] # None}

\* No number is given twice before the gateway restarts, and there are enough
\* of them.
SidInv ==
  /\ given <= Cardinality(Given)
  /\ \A c \in Call : calls[c] \in {"none", "listening", "orphaned", "asked"} => sid[c] = None
  /\ \A c \in Call : calls[c] \in {"granted", "held"} => sid[c] # None
  /\ boots = 0 => \A c \in Given : sid[c] <= given /\ \A d \in Given \ {c} : sid[d] # sid[c]

\* Who a record, a timer and an exchange belong to.
ChainInv ==
  /\ bootId <= boots
  /\ \A c \in Call : timer[c] \/ renew[c] # "none" \/ c \in hurt => calls[c] = "held"
  /\ \A c \in Call : unsub[c] # "none" => c \in ended
  /\ \A c \in ended : sid[c] # None
  /\ \A s \in Sid : records[s] # None => calls[records[s]] = "held"

\* Before a restart a granted subscription is in force until the client has ended
\* it or an exchange was lost, and a renewal is due or under way.
ForceInv ==
  boots = 0 =>
    \A c \in Call \ (ended \cup hurt) :
      /\ calls[c] \in {"granted", "held"} => sid[c] \in subscribers \ lapsed
      /\ calls[c] = "held" => /\ records[sid[c]] = c
                              /\ timer[c] \/ renew[c] \in {"asked", "ok"}
                              /\ renew[c] # "gone"

EventsIInv == EventsTypeInv /\ GapInv /\ SidInv /\ ChainInv /\ ForceInv

-----------------------------------------------------------------------------
\* A flag of one call is set.
LEMMA FlagSet ==
  ASSUME NEW f \in [Call -> BOOLEAN], NEW c \in Call, NEW v \in BOOLEAN, NEW g,
         g = [f EXCEPT ![c] = v]
  PROVE  g \in [Call -> BOOLEAN] /\ g[c] = v /\ \A d \in Call \ {c} : g[d] = f[d]
OBVIOUS

\* What taking number n of call c changes.
Takes(c, n) ==
  /\ lastSeq' \in [Call -> Nat \cup {None}] /\ received' \in [Call -> SUBSET Nat]
  /\ overtaken' \in [Call -> BOOLEAN] /\ told' \in [Call -> BOOLEAN]
  /\ lastSeq'[c] = n /\ received'[c] = received[c] \cup {n}
  /\ overtaken'[c] = (overtaken[c] \/ (n = 0 /\ lastSeq[c] # None))
  /\ told'[c] = (told[c] \/ (n # 0 /\ lastSeq[c] # None /\ n # lastSeq[c] + 1))
  /\ \A d \in Call \ {c} : /\ lastSeq'[d] = lastSeq[d] /\ received'[d] = received[d]
                          /\ overtaken'[d] = overtaken[d] /\ told'[d] = told[d]

\* A notification the engine takes.
LEMMA Taken ==
  ASSUME EventsTypeInv, NEW s \in Sid, NEW n \in Nat, HandleNotify(s, n), NEW c \in Call, c = records[s]
  PROVE  Takes(c, n)
<1> DEFINE over == overtaken[c] \/ (n = 0 /\ lastSeq[c] # None)
           gap  == told[c] \/ (n # 0 /\ lastSeq[c] # None /\ n # lastSeq[c] + 1)
<1>1. c # None BY EventsAssumption
<1>2. /\ lastSeq' = [lastSeq EXCEPT ![c] = n]
      /\ received' = [received EXCEPT ![c] = received[c] \cup {n}]
      /\ overtaken' = [overtaken EXCEPT ![c] = over] /\ told' = [told EXCEPT ![c] = gap]
  BY <1>1, Zenon DEF HandleNotify
<1>3. overtaken \in [Call -> BOOLEAN] /\ told \in [Call -> BOOLEAN] BY DEF EventsTypeInv
<1>4. over \in BOOLEAN /\ gap \in BOOLEAN BY <1>3
<1> HIDE DEF over, gap
<1>5. overtaken' \in [Call -> BOOLEAN] /\ overtaken'[c] = over
      /\ \A d \in Call \ {c} : overtaken'[d] = overtaken[d]
  BY <1>2, <1>3, <1>4, FlagSet
<1>6. told' \in [Call -> BOOLEAN] /\ told'[c] = gap /\ \A d \in Call \ {c} : told'[d] = told[d]
  BY <1>2, <1>3, <1>4, FlagSet
<1>7. /\ lastSeq' \in [Call -> Nat \cup {None}] /\ received' \in [Call -> SUBSET Nat]
      /\ lastSeq'[c] = n /\ received'[c] = received[c] \cup {n}
      /\ \A d \in Call \ {c} : lastSeq'[d] = lastSeq[d] /\ received'[d] = received[d]
  BY <1>2 DEF EventsTypeInv
<1> QED BY <1>5, <1>6, <1>7, Zenon DEF Takes, over, gap

\* A call that waits for its number finds one that is left.
LEMMA NumberLeft ==
  ASSUME EventsTypeInv, SidInv, NEW c \in Call, calls[c] = "asked"
  PROVE  /\ given + 1 \in Sid
         /\ Cardinality(Given \cup {c}) = Cardinality(Given) + 1
<1>1. IsFiniteSet(Call) /\ Given \subseteq Call /\ c \notin Given
  BY EventsAssumption DEF SidInv, Given
<1>2. IsFiniteSet(Given) BY <1>1, FS_Subset
<1>3. Cardinality(Given \cup {c}) = Cardinality(Given) + 1 BY <1>1, <1>2, FS_AddElement
<1>4. Cardinality(Given \cup {c}) <= Cardinality(Call)
  <2>1. Given \cup {c} \subseteq Call BY <1>1
  <2> QED BY <1>1, <2>1, FS_Subset
<1>5. Cardinality(Call) \in Nat /\ Cardinality(Given) \in Nat
  BY <1>1, <1>2, FS_CardinalityType
<1> QED BY <1>3, <1>4, <1>5 DEF SidInv, EventsTypeInv, Sid

LEMMA EventsInitIInv == EventsInit => EventsIInv
<1> SUFFICES ASSUME EventsInit PROVE EventsIInv OBVIOUS
<1> USE EventsAssumption DEF EventsInit
<1>1. EventsTypeInv BY DEF EventsTypeInv, Stage
<1>2. GapInv BY DEF GapInv
<1>3. SidInv
  <2>1. Given = {} BY DEF Given
  <2>2. Cardinality(Given) = 0 BY <2>1, FS_EmptySet
  <2> QED BY <2>1, <2>2 DEF SidInv
<1>4. ChainInv BY DEF ChainInv
<1>5. ForceInv BY DEF ForceInv
<1> QED BY <1>1, <1>2, <1>3, <1>4, <1>5 DEF EventsIInv

LEMMA TypeNext == EventsIInv /\ [EventsNext]_eventsVars => EventsTypeInv'
<1> SUFFICES ASSUME EventsIInv, [EventsNext]_eventsVars PROVE EventsTypeInv' OBVIOUS
<1>t. EventsTypeInv BY DEF EventsIInv
<1> USE EventsAssumption DEF EventsTypeInv, eventsVars, gatewayVars, noteVars, chainVars
<1>1. ASSUME NEW c \in Call,
             Subscribe(c) \/ ListenerOpens(c) \/ OrphanOpens(c) \/ ListenerFails(c) \/ SubscribeLost(c)
      PROVE  EventsTypeInv'
  <2>1. CASE Subscribe(c) BY <1>t, <2>1 DEF Subscribe, Requested, Stage
  <2>2. CASE ListenerOpens(c) \/ OrphanOpens(c)
    BY <1>t, <2>2 DEF ListenerOpens, OrphanOpens, Requested, Stage
  <2>3. CASE ListenerFails(c) \/ SubscribeLost(c)
    BY <1>t, <2>3 DEF ListenerFails, SubscribeLost, Stage
  <2> QED BY <1>1, <2>1, <2>2, <2>3
<1>2. ASSUME NEW c \in Call, GatewaySubscribes(c) PROVE EventsTypeInv'
  <2>1. SidInv /\ calls[c] = "asked" /\ given' = given + 1 BY <1>2 DEF GatewaySubscribes, EventsIInv
  <2>2. given' \in Sid /\ given' \in Nat
    <3>1. given + 1 \in Sid BY <1>t, <2>1, NumberLeft
    <3> QED BY <1>t, <2>1, <3>1
  <2> QED BY <1>t, <1>2, <2>2 DEF GatewaySubscribes, Stage
<1>3. ASSUME NEW c \in Call, SubscribeEnds(c) PROVE EventsTypeInv'
  <2>1. sid[c] \in Sid BY <1>3 DEF SubscribeEnds, EventsIInv, SidInv
  <2>2. records' \in [Sid -> Call \cup {None}] /\ timer' \in [Call -> BOOLEAN]
        /\ calls' \in [Call -> Stage]
    BY <1>t, <1>3 DEF SubscribeEnds, Stage
  <2> QED BY <1>t, <1>3, <2>2 DEF SubscribeEnds
<1>4. ASSUME NEW c \in Call, RenewFires(c) \/ GatewayRenews(c) \/ RenewLost(c) PROVE EventsTypeInv'
  <2>1. CASE RenewFires(c) BY <1>t, <2>1 DEF RenewFires
  <2>2. CASE GatewayRenews(c) BY <1>t, <2>2 DEF GatewayRenews
  <2>3. CASE RenewLost(c) BY <1>t, <2>3 DEF RenewLost
  <2> QED BY <1>4, <2>1, <2>2, <2>3
<1>5. ASSUME NEW c \in Call, RenewEnds(c) PROVE EventsTypeInv'
  BY <1>t, <1>5 DEF RenewEnds
<1>6. ASSUME NEW c \in Call, Unsubscribe(c) \/ GatewayUnsubscribes(c) \/ UnsubscribeEnds(c)
      PROVE  EventsTypeInv'
  BY <1>t, <1>6 DEF Unsubscribe, GatewayUnsubscribes, UnsubscribeEnds
<1>7. CASE EventsStop
  <2>1. timer' \in [Call -> BOOLEAN] /\ ended' \subseteq Call BY <1>t, <1>7 DEF EventsStop
  <2>2. unsub' \in [Call -> {"none", "asked", "answered"}] BY <1>t, <1>7 DEF EventsStop
  <2>3. calls' \in [Call -> Stage] BY <1>t, <1>7 DEF EventsStop, Stage
  <2> QED BY <1>t, <1>7, <2>1, <2>2, <2>3 DEF EventsStop
<1>8. CASE Change
  <2>1. subscribers' \subseteq Sid /\ seq' \in [Sid -> Nat] BY <1>t, <1>8 DEF Change
  <2>2. notes' \subseteq Sid \X Nat BY <1>t, <1>8, <2>1 DEF Change
  <2> QED BY <1>t, <1>8, <2>1, <2>2 DEF Change
<1>9. ASSUME NEW note \in notes, Notified(note) PROVE EventsTypeInv'
  <2>1. note[1] \in Sid /\ note[2] \in Nat BY <1>t
  <2>2. CASE records[note[1]] = None BY <1>t, <1>9, <2>2 DEF Notified, HandleNotify
  <2>3. CASE records[note[1]] # None
    <3>1. records[note[1]] \in Call BY <1>t, <2>1, <2>3
    <3>2. HandleNotify(note[1], note[2]) BY <1>9 DEF Notified
    <3>3. /\ lastSeq' \in [Call -> Nat \cup {None}] /\ received' \in [Call -> SUBSET Nat]
          /\ overtaken' \in [Call -> BOOLEAN] /\ told' \in [Call -> BOOLEAN]
      <4>1. PICK s \in Sid, n \in Nat, c \in Call : s = note[1] /\ n = note[2] /\ c = records[s]
        BY <2>1, <3>1, Zenon
      <4>2. HandleNotify(s, n) BY <3>2, <4>1, Zenon
      <4>3. Takes(c, n) BY <1>t, <4>1, <4>2, Taken
      <4> QED BY <4>3, Zenon DEF Takes
    <3> QED BY <1>t, <1>9, <3>3 DEF Notified
  <2> QED BY <2>2, <2>3
<1>10. ASSUME NEW note \in notes, NoteLost(note) PROVE EventsTypeInv'
  BY <1>t, <1>10 DEF NoteLost
<1>11. ASSUME NEW s \in Sid, Lapse(s) PROVE EventsTypeInv'
  BY <1>t, <1>11 DEF Lapse
<1>12. CASE Restart BY <1>t, <1>12 DEF Restart
<1>13. CASE BootHeard BY <1>t, <1>13 DEF BootHeard
<1>14. CASE UNCHANGED eventsVars BY <1>t, <1>14
<1> QED
  BY <1>1, <1>2, <1>3, <1>4, <1>5, <1>6, <1>7, <1>8, <1>9, <1>10, <1>11, <1>12, <1>13, <1>14
  DEF EventsNext

\* Only a notification that the engine takes changes what was received.
LEMMA GapNext == EventsIInv /\ [EventsNext]_eventsVars => GapInv'
<1> SUFFICES ASSUME EventsIInv, [EventsNext]_eventsVars PROVE GapInv' OBVIOUS
<1> USE EventsAssumption
<1>1. CASE UNCHANGED noteVars BY <1>1 DEF EventsIInv, GapInv, noteVars
<1>2. ASSUME NEW note \in notes, Notified(note), records[note[1]] # None PROVE GapInv'
  <2>i. EventsTypeInv /\ GapInv BY DEF EventsIInv
  <2>t. note[1] \in Sid /\ note[2] \in Nat /\ records[note[1]] \in Call
    BY <1>2, <2>i DEF EventsTypeInv
  <2>p. PICK s \in Sid, n \in Nat, c \in Call : s = note[1] /\ n = note[2] /\ c = records[s]
    BY <2>t, Zenon
  <2>2. HandleNotify(s, n) BY <1>2, <2>p, Zenon DEF Notified
  <2>q. Takes(c, n) BY <2>2, <2>i, <2>p, Taken
  <2>3. /\ lastSeq'[c] = n /\ received'[c] = received[c] \cup {n}
        /\ overtaken'[c] = (overtaken[c] \/ (n = 0 /\ lastSeq[c] # None))
        /\ told'[c] = (told[c] \/ (n # 0 /\ lastSeq[c] # None /\ n # lastSeq[c] + 1))
        /\ \A d \in Call \ {c} : /\ lastSeq'[d] = lastSeq[d] /\ received'[d] = received[d]
                                /\ overtaken'[d] = overtaken[d] /\ told'[d] = told[d]
    BY <2>q, Zenon DEF Takes
  <2>4. ASSUME ~told'[c], ~overtaken'[c], NEW m \in Nat
        PROVE  m \in received'[c] <=> m <= lastSeq'[c] /\ \E first \in received'[c] : first <= m
    <3>1. CASE lastSeq[c] = None
      <4>1. received'[c] = {n} BY <2>3, <2>i, <3>1 DEF GapInv
      <4> QED BY <2>3, <4>1
    <3>2. CASE lastSeq[c] # None
      <4>1. n = lastSeq[c] + 1 /\ ~told[c] /\ ~overtaken[c] BY <2>3, <2>4, <3>2
      <4>2. lastSeq[c] \in Nat /\ received[c] \subseteq Nat BY <2>i, <3>2 DEF EventsTypeInv
      <4>3. \A k \in Nat : k \in received[c] <=> k <= lastSeq[c] /\ \E first \in received[c] : first <= k
        BY <2>i, <3>2, <4>1 DEF GapInv
      <4> QED BY <2>3, <4>1, <4>2, <4>3
    <3> QED BY <3>1, <3>2
  <2> QED BY <2>3, <2>4, <2>i DEF GapInv
<1>3. ASSUME NEW note \in notes, Notified(note), records[note[1]] = None PROVE UNCHANGED noteVars
  BY <1>3 DEF Notified, HandleNotify
<1> QED
  BY <1>1, <1>2, <1>3
  DEF EventsNext, Subscribe, ListenerOpens, OrphanOpens, Requested, ListenerFails, GatewaySubscribes,
      SubscribeEnds, SubscribeLost, RenewFires, GatewayRenews, RenewEnds, RenewLost, Unsubscribe, GatewayUnsubscribes,
      UnsubscribeEnds, EventsStop, Change, NoteLost, Lapse, Restart, BootHeard, eventsVars

LEMMA SidNext == EventsIInv /\ [EventsNext]_eventsVars => SidInv'
<1> SUFFICES ASSUME EventsIInv, [EventsNext]_eventsVars PROVE SidInv' OBVIOUS
<1>t. EventsTypeInv /\ SidInv BY DEF EventsIInv
<1> USE EventsAssumption
\* A call changes its stage only.
<1>1. ASSUME NEW c \in Call, UNCHANGED <<sid, given, boots>>,
             calls' = [calls EXCEPT ![c] = calls'[c]],
             calls'[c] \in {"none", "listening", "orphaned", "asked"} => sid[c] = None,
             calls'[c] \in {"granted", "held"} => sid[c] # None
      PROVE  SidInv'
  <2>1. Given' = Given BY <1>1 DEF Given
  <2>2. \A d \in Call \ {c} : calls'[d] = calls[d] BY <1>t, <1>1 DEF EventsTypeInv
  <2> QED BY <1>t, <1>1, <2>1, <2>2 DEF SidInv
<1>2. ASSUME NEW c \in Call,
             Subscribe(c) \/ ListenerOpens(c) \/ OrphanOpens(c) \/ ListenerFails(c) \/ SubscribeLost(c)
      PROVE  SidInv'
  <2>1. UNCHANGED <<sid, given, boots>> /\ calls' = [calls EXCEPT ![c] = calls'[c]]
        /\ calls'[c] \in {"listening", "asked", "failed", "silent", "thrown"}
        /\ (calls'[c] \in {"listening", "asked"} => calls[c] \in {"none", "listening", "orphaned"})
    BY <1>t, <1>2
    DEF Subscribe, ListenerOpens, OrphanOpens, Requested, ListenerFails, SubscribeLost,
        EventsTypeInv, gatewayVars, chainVars
  <2> QED BY <1>t, <1>1, <2>1 DEF SidInv
<1>3. ASSUME NEW c \in Call, SubscribeEnds(c) PROVE SidInv'
  <2>1. UNCHANGED <<sid, given, boots>> /\ calls' = [calls EXCEPT ![c] = calls'[c]]
        /\ calls'[c] = "held" /\ calls[c] = "granted"
    BY <1>t, <1>3 DEF SubscribeEnds, EventsTypeInv, gatewayVars
  <2> QED BY <1>t, <1>1, <2>1 DEF SidInv
<1>4. ASSUME NEW c \in Call, GatewaySubscribes(c) PROVE SidInv'
  <2>1. calls[c] = "asked" /\ given' = given + 1 /\ boots' = boots
        /\ calls' = [calls EXCEPT ![c] = "granted"] /\ sid' = [sid EXCEPT ![c] = given + 1]
    BY <1>4 DEF GatewaySubscribes
  <2>2. given + 1 \in Sid /\ Cardinality(Given \cup {c}) = Cardinality(Given) + 1
    BY <1>t, <2>1, NumberLeft
  <2>3. sid'[c] = given + 1 /\ sid'[c] # None /\ calls'[c] = "granted"
        /\ \A d \in Call \ {c} : sid'[d] = sid[d] /\ calls'[d] = calls[d]
    BY <1>t, <2>1, <2>2 DEF EventsTypeInv, Sid
  <2>4. Given' = Given \cup {c} BY <2>3 DEF Given
  <2>5. given' <= Cardinality(Given')
    <3>1. IsFiniteSet(Given) BY FS_Subset DEF Given
    <3>2. Cardinality(Given) \in Nat BY <3>1, FS_CardinalityType
    <3> QED BY <1>t, <2>1, <2>2, <2>4, <3>2 DEF SidInv, EventsTypeInv
  <2>6. ASSUME boots' = 0, NEW d \in Given', NEW e \in Given' \ {d}
        PROVE  sid'[d] <= given' /\ sid'[e] # sid'[d]
    <3>1. \A f \in Given : sid[f] \in Nat /\ sid[f] <= given
      BY <1>t, <2>1, <2>6 DEF SidInv, EventsTypeInv, Sid, Given
    <3>2. c \notin Given BY <1>t, <2>1 DEF SidInv, Given
    <3>3. given \in Nat BY <1>t DEF EventsTypeInv
    <3>4. CASE d = c
      <4>1. e \in Given /\ e \in Call /\ e # c BY <2>4, <3>4 DEF Given
      <4>2. sid'[e] = sid[e] BY <2>3, <4>1
      <4> QED BY <2>1, <2>3, <3>1, <3>3, <3>4, <4>1, <4>2
    <3>5. CASE d # c
      <4>1. d \in Given /\ d \in Call BY <2>4, <3>5 DEF Given
      <4>2. sid'[d] = sid[d] BY <2>3, <3>5, <4>1
      <4>3. sid'[e] # sid'[d]
        <5>1. CASE e = c BY <2>3, <3>1, <3>3, <4>1, <4>2, <5>1
        <5>2. CASE e # c
          <6>1. e \in Given /\ e \in Call BY <2>4, <5>2 DEF Given
          <6>2. sid'[e] = sid[e] BY <2>3, <5>2, <6>1
          <6> QED BY <1>t, <2>1, <2>6, <4>1, <4>2, <6>1, <6>2 DEF SidInv
        <5> QED BY <5>1, <5>2
      <4> QED BY <2>1, <3>1, <3>3, <4>1, <4>2, <4>3
    <3> QED BY <3>4, <3>5
  <2>7. \A d \in Given' : boots' = 0 => sid'[d] <= given'
    <3> SUFFICES ASSUME boots' = 0, NEW d \in Given' PROVE sid'[d] <= given' OBVIOUS
    <3>1. given \in Nat BY <1>t DEF EventsTypeInv
    <3>2. CASE d = c BY <2>1, <2>3, <3>1, <3>2
    <3>3. CASE d # c
      <4>1. d \in Given /\ d \in Call BY <2>4, <3>3 DEF Given
      <4>2. sid'[d] = sid[d] /\ sid[d] \in Nat /\ sid[d] <= given
        BY <1>t, <2>1, <2>3, <3>3, <4>1 DEF SidInv, EventsTypeInv, Sid, Given
      <4> QED BY <2>1, <3>1, <4>2
    <3> QED BY <3>2, <3>3
  <2>8. \A d \in Call : /\ calls'[d] \in {"none", "listening", "orphaned", "asked"} => sid'[d] = None
                        /\ calls'[d] \in {"granted", "held"} => sid'[d] # None
    BY <1>t, <2>3 DEF SidInv
  <2> QED BY <2>5, <2>6, <2>7, <2>8 DEF SidInv
<1>5. CASE Restart
  <2>1. UNCHANGED <<sid, calls>> /\ given' = 0 /\ boots' # 0
    BY <1>t, <1>5 DEF Restart, chainVars, EventsTypeInv
  <2>2. Given' = Given BY <2>1 DEF Given
  <2>3. IsFiniteSet(Given) BY FS_Subset DEF Given
  <2>4. Cardinality(Given) \in Nat BY <2>3, FS_CardinalityType
  <2> QED BY <1>t, <2>1, <2>2, <2>4 DEF SidInv
<1>6. CASE UNCHANGED <<calls, sid, given, boots>>
  <2>1. Given' = Given BY <1>6 DEF Given
  <2> QED BY <1>t, <1>6, <2>1 DEF SidInv
<1>7. CASE EventsStop
  <2>1. UNCHANGED <<sid, given, boots>>
        /\ \A d \in Call : calls'[d] = calls[d] \/ (calls[d] = "listening" /\ calls'[d] = "orphaned")
    BY <1>t, <1>7 DEF EventsStop, EventsTypeInv, gatewayVars
  <2>2. Given' = Given BY <2>1 DEF Given
  <2> QED BY <1>t, <2>1, <2>2 DEF SidInv
<1> QED
  BY <1>2, <1>3, <1>4, <1>5, <1>6, <1>7
  DEF EventsNext, RenewFires, GatewayRenews, RenewEnds, RenewLost, Unsubscribe, GatewayUnsubscribes,
      UnsubscribeEnds, Change, Notified, NoteLost, Lapse, BootHeard, eventsVars, gatewayVars, chainVars

LEMMA ChainNext == EventsIInv /\ [EventsNext]_eventsVars => ChainInv'
<1> SUFFICES ASSUME EventsIInv, [EventsNext]_eventsVars PROVE ChainInv' OBVIOUS
<1>t. EventsTypeInv /\ SidInv /\ ChainInv BY DEF EventsIInv
<1> USE EventsAssumption
<1>1. ASSUME NEW c \in Call,
             Subscribe(c) \/ ListenerOpens(c) \/ OrphanOpens(c) \/ ListenerFails(c) \/ SubscribeLost(c)
      PROVE  ChainInv'
  <2>1. UNCHANGED <<chainVars, boots>> /\ calls[c] # "held"
        /\ \A d \in Call \ {c} : calls'[d] = calls[d]
    BY <1>t, <1>1
    DEF Subscribe, ListenerOpens, OrphanOpens, Requested, ListenerFails, SubscribeLost,
        EventsTypeInv, gatewayVars
  <2>2. \A d \in Call : calls[d] = "held" => calls'[d] = "held" BY <2>1
  <2> QED BY <1>t, <2>1, <2>2 DEF ChainInv, chainVars, EventsTypeInv
<1>2. ASSUME NEW c \in Call, GatewaySubscribes(c) PROVE ChainInv'
  <2>1. UNCHANGED <<records, timer, renew, unsub, ended, hurt, bootId, boots>> /\ calls[c] = "asked"
        /\ given' = given + 1 /\ sid' = [sid EXCEPT ![c] = given + 1]
        /\ \A d \in Call \ {c} : calls'[d] = calls[d]
    BY <1>t, <1>2 DEF GatewaySubscribes, EventsTypeInv
  <2>2. \A d \in Call : calls[d] = "held" => calls'[d] = "held" BY <2>1
  <2>3. \A d \in ended : sid'[d] # None
    <3>1. given + 1 # None /\ ended \subseteq Call BY <1>t DEF EventsTypeInv
    <3>2. \A d \in Call : sid'[d] = sid[d] \/ sid'[d] = given + 1 BY <1>t, <2>1 DEF EventsTypeInv
    <3> QED BY <1>t, <3>1, <3>2 DEF ChainInv
  <2> QED BY <1>t, <2>1, <2>2, <2>3 DEF ChainInv, EventsTypeInv
<1>3. ASSUME NEW c \in Call, SubscribeEnds(c) PROVE ChainInv'
  <2>1. /\ UNCHANGED <<sid, renew, unsub, ended, hurt, bootId, boots>>
        /\ calls'[c] = "held" /\ \A d \in Call \ {c} : calls'[d] = calls[d] /\ timer'[d] = timer[d]
        /\ \A s \in Sid : records'[s] = records[s] \/ records'[s] = c
    BY <1>t, <1>3 DEF SubscribeEnds, EventsTypeInv, gatewayVars
  <2> QED BY <1>t, <2>1 DEF ChainInv, EventsTypeInv
<1>4. ASSUME NEW c \in Call,
             RenewFires(c) \/ GatewayRenews(c) \/ RenewEnds(c) \/ RenewLost(c)
      PROVE  ChainInv'
  <2>1. calls[c] = "held" /\ UNCHANGED <<calls, sid, unsub, ended, bootId, boots>>
    BY <1>t, <1>4 DEF RenewFires, GatewayRenews, RenewEnds, RenewLost, ChainInv, EventsTypeInv, gatewayVars
  <2>2. \A d \in Call \ {c} : timer'[d] = timer[d] /\ renew'[d] = renew[d] /\ (d \in hurt' <=> d \in hurt)
    BY <1>t, <1>4 DEF RenewFires, GatewayRenews, RenewEnds, RenewLost, EventsTypeInv
  <2>3. \A s \in Sid : records'[s] = records[s] \/ records'[s] = None
    BY <1>t, <1>4 DEF RenewFires, GatewayRenews, RenewEnds, RenewLost, EventsTypeInv
  <2> QED BY <1>t, <2>1, <2>2, <2>3 DEF ChainInv
<1>5. ASSUME NEW c \in Call, Unsubscribe(c) PROVE ChainInv'
  <2>1. calls[c] = "held" /\ ended' = ended \cup {c} /\ \A d \in Call \ {c} : unsub'[d] = unsub[d]
    BY <1>t, <1>5 DEF Unsubscribe, EventsTypeInv
  <2>2. UNCHANGED <<calls, sid, records, timer, renew, hurt, bootId, boots>>
    BY <1>5 DEF Unsubscribe, gatewayVars
  <2> QED BY <1>t, <2>1, <2>2 DEF ChainInv, SidInv
<1>6. ASSUME NEW c \in Call, GatewayUnsubscribes(c) \/ UnsubscribeEnds(c) PROVE ChainInv'
  <2>1. unsub[c] # "none" /\ (\A d \in Call \ {c} : unsub'[d] = unsub[d])
        /\ \A s \in Sid : records'[s] = records[s] \/ records'[s] = None
    BY <1>t, <1>6 DEF GatewayUnsubscribes, UnsubscribeEnds, EventsTypeInv
  <2>2. UNCHANGED <<calls, sid, timer, renew, ended, hurt, bootId, boots>>
    BY <1>6 DEF GatewayUnsubscribes, UnsubscribeEnds, gatewayVars
  <2> QED BY <1>t, <2>1, <2>2 DEF ChainInv
<1>7. CASE EventsStop
  <2> DEFINE recorded == {c \in Call : \E s \in Sid : records[s] = c}
  <2>1. /\ UNCHANGED <<sid, records, renew, hurt, bootId, boots>>
        /\ \A c \in Call : calls[c] = "held" => calls'[c] = "held"
        /\ ended' = ended \cup recorded
        /\ \A c \in Call : timer'[c] => timer[c]
        /\ \A c \in Call : unsub'[c] # "none" => c \in recorded \/ unsub[c] # "none"
    BY <1>t, <1>7 DEF EventsStop, EventsTypeInv, gatewayVars
  <2>2. \A c \in recorded : calls[c] = "held" BY <1>t DEF ChainInv
  <2>3. \A c \in recorded : sid[c] # None BY <1>t, <2>2 DEF SidInv
  <2> HIDE DEF recorded
  <2> QED BY <1>t, <2>1, <2>3 DEF ChainInv, EventsTypeInv
<1>8. CASE BootHeard
  BY <1>t, <1>8 DEF BootHeard, ChainInv, EventsTypeInv, gatewayVars
<1>9. CASE Restart
  BY <1>t, <1>9 DEF Restart, ChainInv, EventsTypeInv, chainVars
<1>10. CASE UNCHANGED <<calls, chainVars, boots>>
  BY <1>t, <1>10 DEF ChainInv, chainVars
<1> QED
  BY <1>1, <1>2, <1>3, <1>4, <1>5, <1>6, <1>7, <1>8, <1>9, <1>10
  DEF EventsNext, Change, Notified, NoteLost, Lapse, eventsVars, gatewayVars

LEMMA ForceNext == EventsIInv /\ [EventsNext]_eventsVars => ForceInv'
<1> SUFFICES ASSUME EventsIInv, [EventsNext]_eventsVars, boots' = 0, NEW c \in Call,
                    c \notin ended', c \notin hurt'
             PROVE  /\ calls'[c] \in {"granted", "held"} => sid'[c] \in subscribers' \ lapsed'
                    /\ calls'[c] = "held" => /\ records'[sid'[c]] = c
                                             /\ timer'[c] \/ renew'[c] \in {"asked", "ok"}
                                             /\ renew'[c] # "gone"
  BY DEF ForceInv
<1> USE EventsAssumption
<1> DEFINE Goal == /\ calls'[c] \in {"granted", "held"} => sid'[c] \in subscribers' \ lapsed'
                   /\ calls'[c] = "held" => /\ records'[sid'[c]] = c
                                            /\ timer'[c] \/ renew'[c] \in {"asked", "ok"}
                                            /\ renew'[c] # "gone"
<1>t. EventsTypeInv /\ SidInv /\ ChainInv /\ ForceInv BY DEF EventsIInv
<1>b. CASE boots = 0 /\ c \notin ended /\ c \notin hurt
  <2>t. EventsTypeInv /\ (calls[c] \in {"granted", "held"} => sid[c] \in Sid)
    BY <1>t DEF SidInv, EventsTypeInv
  <2>f. /\ calls[c] \in {"granted", "held"} => sid[c] \in subscribers /\ sid[c] \notin lapsed
        /\ calls[c] = "held" => /\ records[sid[c]] = c
                                /\ timer[c] \/ renew[c] \in {"asked", "ok"}
                                /\ renew[c] # "gone"
    BY <1>t, <1>b DEF ForceInv
  \* No other call has its number.
  <2>u. ASSUME NEW d \in Call \ {c}, sid[d] # None, calls[c] \in {"granted", "held"}
        PROVE  sid[d] # sid[c]
    BY <1>t, <1>b, <2>u DEF SidInv, Given
  <2>1. ASSUME NEW d \in Call,
               Subscribe(d) \/ ListenerOpens(d) \/ OrphanOpens(d) \/ ListenerFails(d) \/ SubscribeLost(d)
        PROVE  Goal
    <3>1. /\ UNCHANGED <<chainVars, subscribers, lapsed>>
          /\ calls'[c] = calls[c] \/ calls'[c] \notin {"granted", "held"}
      BY <1>t, <2>1
      DEF Subscribe, ListenerOpens, OrphanOpens, Requested, ListenerFails, SubscribeLost,
        EventsTypeInv, gatewayVars
    <3> QED BY <2>f, <3>1 DEF chainVars
  <2>2. ASSUME NEW d \in Call, GatewaySubscribes(d) PROVE Goal
    <3>1. /\ calls[d] = "asked" /\ given' = given + 1 /\ UNCHANGED <<records, timer, renew>>
          /\ subscribers' = subscribers \cup {given + 1} /\ lapsed' = lapsed \ {given + 1}
          /\ calls' = [calls EXCEPT ![d] = "granted"] /\ sid' = [sid EXCEPT ![d] = given + 1]
      BY <2>2 DEF GatewaySubscribes
    <3>2. CASE d = c BY <1>t, <3>1, <3>2 DEF EventsTypeInv
    <3>3. CASE d # c
      <4>1. calls'[c] = calls[c] /\ sid'[c] = sid[c] BY <1>t, <3>1, <3>3 DEF EventsTypeInv
      <4> QED BY <2>f, <3>1, <4>1
    <3> QED BY <3>2, <3>3
  <2>3. ASSUME NEW d \in Call, SubscribeEnds(d) PROVE Goal
    <3>1. /\ calls[d] = "granted" /\ UNCHANGED <<subscribers, lapsed, sid, renew>>
          /\ records' = [records EXCEPT ![sid[d]] = d]
          /\ calls' = [calls EXCEPT ![d] = "held"] /\ timer' = [timer EXCEPT ![d] = TRUE]
      BY <2>3 DEF SubscribeEnds, gatewayVars
    <3>2. CASE d = c
      <4>1. sid[c] \in Sid /\ renew[c] = "none" BY <1>t, <2>t, <3>1, <3>2 DEF ChainInv
      <4> QED BY <1>t, <2>f, <3>1, <3>2, <4>1 DEF EventsTypeInv
    <3>3. CASE d # c
      <4>1. sid[d] # None BY <1>t, <3>1 DEF SidInv
      <4>2. calls[c] = "held" => sid[d] # sid[c] BY <2>u, <3>3, <4>1
      <4>3. calls'[c] = calls[c] /\ timer'[c] = timer[c]
            /\ (calls[c] = "held" => records'[sid[c]] = records[sid[c]])
        BY <1>t, <2>t, <3>1, <3>3, <4>2 DEF EventsTypeInv
      <4> QED BY <2>f, <3>1, <4>3
    <3> QED BY <3>2, <3>3
  <2>4. ASSUME NEW d \in Call, RenewFires(d) PROVE Goal
    <3>1. /\ UNCHANGED <<subscribers, lapsed, calls, sid, records>>
          /\ timer[d] /\ timer' = [timer EXCEPT ![d] = FALSE]
          /\ renew' = [renew EXCEPT ![d] = IF records[sid[d]] = None THEN "none" ELSE "asked"]
      BY <2>4 DEF RenewFires, gatewayVars
    <3>2. CASE d = c
      <4>1. calls[c] = "held" BY <1>t, <3>1, <3>2 DEF ChainInv
      <4>2. records[sid[c]] # None BY <2>f, <4>1
      <4> QED BY <1>t, <2>f, <3>1, <3>2, <4>2 DEF EventsTypeInv
    <3>3. CASE d # c
      <4>1. timer'[c] = timer[c] /\ renew'[c] = renew[c] BY <1>t, <3>1, <3>3 DEF EventsTypeInv
      <4> QED BY <2>f, <3>1, <4>1
    <3> QED BY <3>2, <3>3
  <2>5. ASSUME NEW d \in Call, GatewayRenews(d) PROVE Goal
    <3>1. /\ UNCHANGED <<subscribers, calls, sid, records, timer>> /\ lapsed' \subseteq lapsed
          /\ renew[d] = "asked"
          /\ renew' = [renew EXCEPT ![d] = IF sid[d] \in subscribers THEN "ok" ELSE "gone"]
      BY <2>5 DEF GatewayRenews
    <3>2. CASE d = c
      <4>1. calls[c] = "held" BY <1>t, <3>1, <3>2 DEF ChainInv
      <4> QED BY <1>t, <2>f, <3>1, <3>2, <4>1 DEF EventsTypeInv
    <3>3. CASE d # c
      <4>1. renew'[c] = renew[c] BY <1>t, <3>1, <3>3 DEF EventsTypeInv
      <4> QED BY <2>f, <3>1, <4>1
    <3> QED BY <3>2, <3>3
  <2>6. ASSUME NEW d \in Call, RenewEnds(d) PROVE Goal
    <3>1. /\ UNCHANGED <<subscribers, lapsed, calls, sid>>
          /\ renew[d] \in {"ok", "gone"} /\ renew' = [renew EXCEPT ![d] = "none"]
          /\ IF renew[d] = "ok" THEN timer' = [timer EXCEPT ![d] = TRUE] /\ UNCHANGED records
             ELSE records' = [records EXCEPT ![sid[d]] = None] /\ UNCHANGED timer
      BY <2>6 DEF RenewEnds, gatewayVars
    <3>2. calls[d] = "held" BY <1>t, <3>1 DEF ChainInv
    <3>3. CASE d = c BY <1>t, <2>f, <3>1, <3>2, <3>3 DEF EventsTypeInv
    <3>4. CASE d # c
      <4>1. sid[d] # None BY <1>t, <3>2 DEF SidInv
      <4>2. calls[c] = "held" => sid[d] # sid[c] BY <2>u, <3>4, <4>1
      <4>3. renew'[c] = renew[c] /\ timer'[c] = timer[c]
            /\ (calls[c] = "held" => records'[sid[c]] = records[sid[c]])
        BY <1>t, <2>t, <3>1, <3>4, <4>2 DEF EventsTypeInv
      <4> QED BY <2>f, <3>1, <4>3
    <3> QED BY <3>3, <3>4
  <2>7. ASSUME NEW d \in Call, RenewLost(d) PROVE Goal
    <3>1. d # c /\ UNCHANGED <<subscribers, lapsed, calls, sid, records, timer>>
          /\ renew' = [renew EXCEPT ![d] = "none"]
      BY <2>7 DEF RenewLost, gatewayVars
    <3>2. renew'[c] = renew[c] BY <1>t, <3>1 DEF EventsTypeInv
    <3> QED BY <2>f, <3>1, <3>2
  <2>8. ASSUME NEW d \in Call, Unsubscribe(d) PROVE Goal
    BY <2>f, <2>8 DEF Unsubscribe, gatewayVars
  <2>9. ASSUME NEW d \in Call, GatewayUnsubscribes(d) PROVE Goal
    <3>1. /\ UNCHANGED <<calls, sid, records, timer, renew>> /\ lapsed' \subseteq lapsed
          /\ unsub[d] = "asked" /\ subscribers' = subscribers \ {sid[d]}
      BY <2>9 DEF GatewayUnsubscribes
    <3>2. d # c /\ sid[d] # None BY <1>t, <1>b, <3>1 DEF ChainInv
    <3>3. calls[c] \in {"granted", "held"} => sid[d] # sid[c] BY <2>u, <3>2
    <3> QED BY <2>f, <3>1, <3>3
  <2>10. ASSUME NEW d \in Call, UnsubscribeEnds(d) PROVE Goal
    <3>1. /\ UNCHANGED <<subscribers, lapsed, calls, sid, timer, renew>>
          /\ unsub[d] # "none" /\ records' = [records EXCEPT ![sid[d]] = None]
      BY <2>10 DEF UnsubscribeEnds, gatewayVars
    <3>2. d # c /\ sid[d] # None BY <1>t, <1>b, <3>1 DEF ChainInv
    <3>3. calls[c] = "held" => sid[d] # sid[c] BY <2>u, <3>2
    <3>4. calls[c] = "held" => records'[sid[c]] = records[sid[c]] BY <1>t, <2>t, <3>1, <3>3 DEF EventsTypeInv
    <3> QED BY <2>f, <3>1, <3>4
  <2>11. CASE EventsStop
    <3>1. /\ UNCHANGED <<subscribers, lapsed, sid, records, renew>>
          /\ calls'[c] = calls[c] \/ calls'[c] \notin {"granted", "held"}
          /\ ended' = ended \cup {d \in Call : \E s \in Sid : records[s] = d}
      BY <1>t, <2>11 DEF EventsStop, EventsTypeInv, gatewayVars
    <3>2. ~\E s \in Sid : records[s] = c BY <3>1
    <3>3. calls[c] # "held" BY <2>t, <2>f, <3>2
    <3> QED BY <2>f, <3>1, <3>3
  <2>12. CASE Change
    BY <2>f, <2>12 DEF Change, chainVars
  <2>13. ASSUME NEW s \in Sid, Lapse(s) PROVE Goal
    <3>1. /\ UNCHANGED <<subscribers, calls, sid, records, timer, renew>> /\ lapsed' = lapsed \cup {s}
          /\ \A d \in Call : sid[d] = s => ~timer[d] /\ renew[d] = "none" /\ calls[d] # "granted"
      BY <2>13 DEF Lapse, chainVars
    <3>2. calls[c] \in {"granted", "held"} => sid[c] # s BY <2>f, <3>1
    <3> QED BY <2>f, <3>1, <3>2
  <2>14. CASE Restart BY <1>t, <2>14 DEF Restart, EventsTypeInv
  <2>15. CASE BootHeard BY <1>b, <1>t, <2>15 DEF BootHeard, EventsTypeInv
  <2>16. CASE UNCHANGED <<subscribers, lapsed, calls, sid, records, timer, renew>>
    BY <2>f, <2>16
  <2> QED
    BY <2>1, <2>2, <2>3, <2>4, <2>5, <2>6, <2>7, <2>8, <2>9, <2>10, <2>11, <2>12, <2>13, <2>14, <2>15,
       <2>16
    DEF EventsNext, Notified, NoteLost, eventsVars, gatewayVars, chainVars
\* What was ended or hurt stays so, and restarts are counted up.
<1>c. boots = 0 /\ c \notin ended /\ c \notin hurt
  <2>1. boots' = boots \/ boots' = boots + 1
    BY DEF EventsNext, Subscribe, ListenerOpens, OrphanOpens, Requested, ListenerFails, GatewaySubscribes, SubscribeEnds,
           SubscribeLost, RenewFires, GatewayRenews, RenewEnds, RenewLost, Unsubscribe,
           GatewayUnsubscribes, UnsubscribeEnds, EventsStop, Change, Notified, NoteLost, Lapse, Restart,
           BootHeard, eventsVars, gatewayVars
  <2>2. ended \subseteq ended' /\ hurt \subseteq hurt'
    BY DEF EventsNext, Subscribe, ListenerOpens, OrphanOpens, Requested, ListenerFails, GatewaySubscribes, SubscribeEnds,
           SubscribeLost, RenewFires, GatewayRenews, RenewEnds, RenewLost, Unsubscribe,
           GatewayUnsubscribes, UnsubscribeEnds, EventsStop, Change, Notified, NoteLost, Lapse, Restart,
           BootHeard, eventsVars, chainVars
  <2> QED BY <1>t, <2>1, <2>2 DEF EventsTypeInv
<1> QED BY <1>b, <1>c

\* The invariant holds of every reachable state of client and gateway.
THEOREM EventsInvariance == EventsSpec => []EventsIInv
<1>1. EventsIInv /\ [EventsNext]_eventsVars => EventsIInv'
  BY TypeNext, GapNext, SidNext, ChainNext, ForceNext DEF EventsIInv
<1> QED BY <1>1, EventsInitIInv, PTL DEF EventsSpec

-----------------------------------------------------------------------------
\* Whatever the order and the losses of notifications, of any number of
\* subscriptions, who was told of no gap has none (handle_notify()).
THEOREM GapsTold == EventsSpec => []GapIsTold
<1>1. EventsIInv => GapIsTold
  <2>1. \A n \in 0 .. changes : n \in Nat OBVIOUS
  <2> QED BY <2>1 DEF EventsIInv, GapInv, GapIsTold
<1> QED BY <1>1, EventsInvariance, PTL

\* A subscription that is renewed at two thirds of its lease and whose exchanges
\* are answered is never lost while the gateway runs.
THEOREM SubscriptionsKept == EventsSpec => []KeptWhileAnswered
<1>1. EventsIInv => KeptWhileAnswered BY DEF EventsIInv, ForceInv, KeptWhileAnswered
<1> QED BY <1>1, EventsInvariance, PTL
=============================================================================
