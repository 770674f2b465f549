-------------------------- MODULE PMPSystemProofs --------------------------
(***************************************************************************)
(* What the PCP and NAT-PMP client engine promises its callers, for any    *)
(* number of ports, calls, dialects and attempts and whatever a gateway    *)
(* answers: no callback is lost or called twice, and a lease it reports is *)
(* tended.  This first part is about PMPSession alone and uses only the    *)
(* assumptions of that module.                                             *)
(*                                                                         *)
(* The second part is about the client and a gateway over a network: what  *)
(* the client reports the gateway does.  Nothing of the gateway is proved  *)
(* again: Gate is the module of the gateway's own proofs, instantiated as  *)
(* PMPSystem instantiates PMPServer, and its lemmas are cited.             *)
(*                                                                         *)
(* The third part is about the epoch the client hears from a gateway: no   *)
(* restart is seen that did not happen, and one that matters is seen.      *)
(***************************************************************************)
EXTENDS PMPSystem, Epoch, FiniteSetTheorems, SequenceTheorems, WellFoundedInduction, TLAPS

\* The transactions there are: one for a mapping has its key, renewals and
\* recreations are for mappings and answer nobody, and a dialect is left that
\* the request can be sent in.
Fit ==
  {tx \in Tx : /\ tx.kind = "map" => tx.key \in Key
               /\ tx.origin # "call" => tx.kind = "map"
               /\ tx.origin = "call" <=> tx.call # 0
               /\ Sendable(tx) # {}}

Table == [Key -> Mapping \cup {None}]

LineType == queue \in Seq(Fit) /\ inflight \in Fit \cup {None} /\ out \in Packet \cup {None}

RestType ==
  /\ state \in {"open", "destroyed"}
  /\ mappings \in Table
  /\ epoch \in [Dialect -> Boot \cup {None}]
  /\ calls \in 0 .. MaxCalls
  /\ answers \in [Call -> {"none", "pending", "ok", "error", "cancelled"}]

\* What a transaction is known by while it waits, is sent and changes dialects.
Id(tx)   == [call |-> tx.call, origin |-> tx.origin, key |-> tx.key, nonce |-> tx.nonce]
IdsOf(q) == {Id(q[i]) : i \in DOMAIN q}
Ids      == IdsOf(queue) \cup (IF inflight = None THEN {} ELSE {Id(inflight)})

\* No two of the transactions in line answer the same call.
Apart(q) == \A i, j \in DOMAIN q : q[i].call = q[j].call /\ q[i].call # 0 => i = j
Single   == /\ Apart(queue)
            /\ inflight # None /\ inflight.call # 0 =>
                 \A i \in DOMAIN queue : queue[i].call # inflight.call

\* Calls are numbered in turn, and those that wait for their answer are those in
\* line.
OwedInv ==
  /\ \A id \in Ids : id.call <= calls
  /\ \A c \in Call : c > calls => answers[c] # "pending"
  /\ state = "open" => \A c \in Call : answers[c] = "pending" <=> \E id \in Ids : id.call = c

\* A table whose records are tended, given what is in line.
Tended(maps, ids) ==
  \A k \in Key :
    maps[k] # None =>
      /\ maps[k].state = "ACTIVE" /\ maps[k].lease => maps[k].timer \in {"renew", "dropped"}
      /\ maps[k].state = "RENEWING"
           => \E id \in ids : id.origin = "renew" /\ id.key = k /\ id.nonce = maps[k].nonce

LeaseInv == state = "open" => Tended(mappings, Ids)

IInv == LineType /\ RestType /\ Single /\ OwedInv /\ LeaseInv

-----------------------------------------------------------------------------
(* The line of transactions.                                               *)

LEMMA Least ==
  ASSUME NEW T \in SUBSET Nat, T # {}
  PROVE  \E x \in T : \A y \in T : x <= y
<1> DEFINE Less == {pair \in Nat \X Nat : pair[1] < pair[2]}
<1>1. IsWellFoundedOn(Less, Nat) BY NatLessThanWellFounded DEF OpToRel
<1>2. \A x, y \in T : <<y, x>> \notin Less => x <= y OBVIOUS
<1> HIDE DEF Less
<1>3. \E x \in T : \A y \in T : ~ (<<y, x>> \in Less) BY <1>1, WFMin
<1> QED BY <1>2, <1>3

LEMMA Constants ==
  /\ Len(Protocols) \in Nat \ {0} /\ \A d \in 1 .. Len(Protocols) : Protocols[d] \in Dialect
  /\ AttemptBound \in Nat /\ 1 <= AttemptBound
  /\ \A tx \in Tx : Attempts(tx) \in Nat /\ 1 <= Attempts(tx) /\ Attempts(tx) <= AttemptBound
BY SessionAssumption DEF AttemptBound, Attempts

\* A transaction is started in a dialect it can be sent in.
LEMMA StartedFit ==
  ASSUME NEW tx \in Tx, Sendable(tx) # {},
         tx.kind = "map" => tx.key \in Key, tx.origin # "call" => tx.kind = "map",
         tx.origin = "call" <=> tx.call # 0
  PROVE  Started(tx) \in Fit /\ Id(Started(tx)) = Id(tx) /\ Started(tx).call = tx.call
<1> DEFINE d == CHOOSE e \in Sendable(tx) : \A f \in Sendable(tx) : e <= f
<1>1. Sendable(tx) \subseteq 1 .. Len(Protocols) BY Constants DEF Sendable, Tx
<1>2. \E e \in Sendable(tx) : \A f \in Sendable(tx) : e <= f
  <2>1. Sendable(tx) \in SUBSET Nat BY <1>1
  <2> QED BY <2>1, Least
<1>3. d \in Sendable(tx) BY <1>2
<1>4. d \in 1 .. Len(Protocols) BY <1>1, <1>3
<1> HIDE DEF d
<1>5. Started(tx) = [tx EXCEPT !.dialect = d, !.attempt = 1, !.timer = TRUE] BY DEF Started, d
<1>6. Started(tx) \in Tx
  <2>1. [tx EXCEPT !.dialect = d] \in Tx BY <1>4 DEF Tx
  <2>2. \A t \in Tx : [t EXCEPT !.attempt = 1] \in Tx
    <3>1. 1 \in 1 .. AttemptBound BY Constants
    <3> QED BY <3>1 DEF Tx
  <2>3. \A t \in Tx : [t EXCEPT !.timer = TRUE] \in Tx BY DEF Tx
  <2>4. Started(tx) = [[[tx EXCEPT !.dialect = d] EXCEPT !.attempt = 1] EXCEPT !.timer = TRUE]
    BY <1>5
  <2> QED BY <2>1, <2>2, <2>3, <2>4
<1>7. /\ Started(tx).dialect = d /\ Started(tx).kind = tx.kind /\ Started(tx).key = tx.key
      /\ Started(tx).origin = tx.origin /\ Started(tx).call = tx.call
      /\ Started(tx).nonce = tx.nonce
  BY <1>5 DEF Tx
<1>8. d \in Sendable(Started(tx)) BY <1>3, <1>4, <1>7, Constants DEF Sendable
<1> QED BY <1>6, <1>7, <1>8 DEF Fit, Id

LEMMA PacketType == ASSUME NEW tx \in Fit PROVE PacketOf(tx) \in Packet
BY Constants DEF Fit, Tx, PacketOf, Packet, DialectOf, Dialect, NoPort

\* pump().
LEMMA PumpLine ==
  ASSUME NEW q \in Seq(Fit), Apart(q), Pump(q)
  PROVE  LineType' /\ Single' /\ Ids' = IdsOf(q)
<1>1. CASE q = <<>>
  <2>1. queue' = <<>> /\ inflight' = None /\ out' = None BY <1>1 DEF Pump
  <2> QED BY <1>1, <2>1 DEF LineType, Single, Apart, Ids, IdsOf
<1>2. CASE q # <<>>
  <2> DEFINE tx == Started(Head(q))
  <2>1. inflight' = tx /\ queue' = Tail(q) /\ out' = PacketOf(tx) BY <1>2 DEF Pump, Send
  <2>2. Head(q) \in Fit /\ Head(q) = q[1] /\ 1 \in DOMAIN q BY <1>2
  <2>3. tx \in Fit /\ Id(tx) = Id(q[1]) /\ tx.call = q[1].call BY <2>2, StartedFit DEF Fit
  <2> HIDE DEF tx
  <2>4. /\ Tail(q) \in Seq(Fit)
        /\ \A i \in DOMAIN Tail(q) : Tail(q)[i] = q[i + 1] /\ i + 1 \in DOMAIN q /\ i + 1 # 1
        /\ \A i \in DOMAIN q \ {1} : i - 1 \in DOMAIN Tail(q) /\ q[i] = Tail(q)[i - 1]
    BY <1>2
  <2>5. LineType' BY <2>1, <2>3, <2>4, PacketType DEF LineType
  <2>6. tx # None BY <2>3, NoneAssumption DEF Fit
  <2>7. Single' 
    <3>1. Apart(Tail(q)) 
      <4> SUFFICES ASSUME NEW i \in DOMAIN Tail(q), NEW j \in DOMAIN Tail(q),
                          Tail(q)[i].call = Tail(q)[j].call, Tail(q)[i].call # 0
                   PROVE  i = j
        BY DEF Apart
      <4>1. i + 1 = j + 1 BY <2>4 DEF Apart
      <4>2. i \in Nat /\ j \in Nat BY <2>4
      <4> QED BY <4>1, <4>2
    <3>2. tx.call # 0 => \A i \in DOMAIN Tail(q) : Tail(q)[i].call # tx.call
      BY <2>2, <2>3, <2>4 DEF Apart
    <3> QED BY <2>1, <3>1, <3>2 DEF Single
  <2>8. IdsOf(q) = {Id(q[1])} \cup IdsOf(Tail(q))
    <3>1. ASSUME NEW id \in IdsOf(q) PROVE id \in {Id(q[1])} \cup IdsOf(Tail(q))
      <4>1. PICK i \in DOMAIN q : id = Id(q[i]) BY DEF IdsOf
      <4> QED BY <2>4, <4>1 DEF IdsOf
    <3>2. ASSUME NEW id \in IdsOf(Tail(q)) PROVE id \in IdsOf(q)
      <4>1. PICK i \in DOMAIN Tail(q) : id = Id(Tail(q)[i]) BY DEF IdsOf
      <4>2. i + 1 \in DOMAIN q /\ id = Id(q[i + 1]) BY <2>4, <4>1
      <4> QED BY <4>2 DEF IdsOf
    <3>3. Id(q[1]) \in IdsOf(q) BY <2>2 DEF IdsOf
    <3> QED BY <3>1, <3>2, <3>3
  <2> QED BY <2>1, <2>3, <2>5, <2>6, <2>7, <2>8 DEF Ids
<1> QED BY <1>1, <1>2

\* enqueue() of a transaction that answers nobody, or a new call.
LEMMA EnqueueLine ==
  ASSUME LineType, Single, NEW tx \in Fit, Enqueue(tx),
         tx.call # 0 => \A id \in Ids : id.call # tx.call
  PROVE  LineType' /\ Single' /\ Ids' = Ids \cup {Id(tx)}
<1> DEFINE q == Append(queue, tx)
<1>1. /\ q \in Seq(Fit) /\ Len(q) = Len(queue) + 1 /\ DOMAIN q = DOMAIN queue \cup {Len(q)}
      /\ Len(q) \notin DOMAIN queue /\ q[Len(q)] = tx
      /\ \A i \in DOMAIN queue : q[i] = queue[i]
  BY DEF LineType
<1> HIDE DEF q
<1>2. IdsOf(q) = IdsOf(queue) \cup {Id(tx)} BY <1>1 DEF IdsOf
<1>3. tx.call # 0 => \A i \in DOMAIN queue : queue[i].call # tx.call
  <2>1. \A i \in DOMAIN queue : Id(queue[i]) \in Ids /\ Id(queue[i]).call = queue[i].call
    BY DEF Ids, IdsOf, Id
  <2> QED BY <2>1
<1>4. Apart(q) BY <1>1, <1>3 DEF Apart, Single
<1>5. CASE state = "destroyed" \/ inflight # None
  <2>1. queue' = q /\ inflight' = inflight /\ out' = None BY <1>5 DEF Enqueue, q
  <2>2. LineType' BY <1>1, <2>1 DEF LineType
  <2>3. inflight # None /\ inflight.call # 0 => tx.call # inflight.call
    <3>1. inflight # None => Id(inflight) \in Ids /\ Id(inflight).call = inflight.call BY DEF Ids, Id
    <3> QED BY <3>1
  <2>4. Single' BY <1>1, <1>4, <2>1, <2>3 DEF Single
  <2> QED BY <1>2, <2>1, <2>2, <2>4 DEF Ids
<1>6. CASE ~(state = "destroyed" \/ inflight # None)
  <2>1. Pump(q) BY <1>6 DEF Enqueue, q
  <2> QED BY <1>1, <1>2, <1>4, <1>6, <2>1, PumpLine DEF Ids
<1> QED BY <1>5, <1>6

\* The transaction in flight is sent again, perhaps in another dialect.
LEMMA SendLine ==
  ASSUME LineType, Single, inflight # None, NEW tx \in Fit, Id(tx) = Id(inflight), Send(tx, queue)
  PROVE  LineType' /\ Single' /\ Ids' = Ids
<1>1. inflight' = tx /\ queue' = queue /\ out' = PacketOf(tx) BY DEF Send
<1>2. LineType' BY <1>1, PacketType DEF LineType
<1>3. tx # None BY NoneAssumption DEF Fit
<1>4. tx.call = inflight.call BY DEF Id
<1> QED BY <1>1, <1>2, <1>3, <1>4 DEF Single, Ids

\* The transaction in flight has left: nothing in line answers its call.
LEMMA FinishLine ==
  ASSUME LineType, Single, inflight # None, Pump(queue)
  PROVE  /\ LineType' /\ Single' /\ Ids = Ids' \cup {Id(inflight)}
         /\ inflight.call # 0 => \A id \in Ids' : id.call # inflight.call
<1>1. LineType' /\ Single' /\ Ids' = IdsOf(queue) BY PumpLine DEF LineType, Single
<1>2. \A id \in IdsOf(queue) : \E i \in DOMAIN queue : id.call = queue[i].call BY DEF IdsOf, Id
<1> QED BY <1>1, <1>2 DEF Ids, Single

\* Every transaction in line has its identity among Ids, and conversely.
LEMMA PendingIds == ASSUME LineType PROVE Ids = {Id(tx) : tx \in Pending}
<1>1. None \notin Fit BY NoneAssumption DEF Fit
<1>2. \A i \in DOMAIN queue : queue[i] \in Fit BY DEF LineType
<1>3. ASSUME NEW id \in Ids PROVE \E tx \in Pending : id = Id(tx)
  <2>1. CASE id \in IdsOf(queue) BY <2>1 DEF IdsOf, Pending
  <2>2. CASE id \notin IdsOf(queue) BY <1>3, <2>2 DEF Ids, Pending
  <2> QED BY <2>1, <2>2
<1>4. ASSUME NEW tx \in Pending PROVE Id(tx) \in Ids
  <2>1. CASE \E i \in DOMAIN queue : tx = queue[i] BY <2>1 DEF Ids, IdsOf
  <2>2. CASE tx = inflight /\ inflight # None BY <2>2 DEF Ids
  <2> QED BY <1>4, <2>1, <2>2 DEF Pending
<1> QED BY <1>3, <1>4

-----------------------------------------------------------------------------
(* Settling a transaction.                                                 *)

Outcome == {"ok", "error", "cancelled"}
Answer  == {"none", "pending", "ok", "error", "cancelled"}

LEMMA CallbackDone ==
  ASSUME NEW maps \in Table, NEW tx \in Fit, NEW outcome \in Outcome,
         answers \in [Call -> Answer], Callback(tx, outcome, maps)
  PROVE  /\ mappings' \in Table
         /\ answers' \in [Call -> Answer]
         /\ \A c \in Call : answers'[c] = IF c = tx.call THEN outcome ELSE answers[c]
         /\ \A k \in Key : mappings'[k] # None =>
              /\ maps[k] # None
              /\ \/ mappings'[k].state = "LOST"
                 \/ /\ mappings'[k] = maps[k]
                    /\ ~ (/\ tx.origin = "renew" /\ outcome # "ok"
                          /\ tx.key = k /\ maps[k].nonce = tx.nonce)
<1> DEFINE fails == /\ tx.origin = "renew" /\ outcome # "ok" /\ maps[tx.key] # None
                    /\ maps[tx.key].nonce = tx.nonce
<1>1. tx.call \in Call \cup {0} /\ 0 \notin Call BY DEF Fit, Tx, Call
<1>2. answers' = IF tx.call = 0 THEN answers ELSE [answers EXCEPT ![tx.call] = outcome]
  BY DEF Callback
<1>3. /\ answers' \in [Call -> Answer]
      /\ \A c \in Call : answers'[c] = IF c = tx.call THEN outcome ELSE answers[c]
  BY <1>1, <1>2 DEF Answer, Outcome
<1>4. CASE fails
  <2>1. tx.key \in Key BY <1>4 DEF Fit
  <2>2. maps[tx.key] \in Mapping BY <1>4, <2>1 DEF Table
  <2> DEFINE lost == [maps[tx.key] EXCEPT !.state = "LOST"]
  <2>3. lost \in Mapping /\ lost.state = "LOST" BY <2>2 DEF Mapping
  <2>4. mappings' = [maps EXCEPT ![tx.key] = lost] BY <1>4 DEF Callback
  <2> HIDE DEF lost
  <2>5. mappings' \in Table BY <2>1, <2>3, <2>4 DEF Table
  <2>6. \A k \in Key : mappings'[k] = IF k = tx.key THEN lost ELSE maps[k]
    BY <2>1, <2>4 DEF Table
  <2> QED BY <1>3, <1>4, <2>3, <2>5, <2>6
<1>5. CASE ~fails
  <2>1. mappings' = maps BY <1>5 DEF Callback
  <2> QED BY <1>3, <1>5, <2>1
<1> QED BY <1>4, <1>5

LEMMA FinishKeeps ==
  ASSUME LineType, RestType, Single, OwedInv, inflight # None,
         NEW maps \in Table, NEW outcome \in Outcome, Finish(outcome, maps),
         state' = state, calls' = calls, epoch' \in [Dialect -> Boot \cup {None}],
         state = "open" => Tended(maps, Ids),
         outcome = "ok" /\ inflight.origin = "renew"
           => \/ maps[inflight.key] = None
              \/ maps[inflight.key].state # "RENEWING"
  PROVE  IInv'
<1>1. inflight \in Fit /\ inflight.call \in Call \cup {0} BY DEF LineType, Fit, Tx
<1>2. Callback(inflight, outcome, maps) /\ Pump(queue) BY DEF Finish
<1>3. /\ LineType' /\ Single' /\ Ids = Ids' \cup {Id(inflight)}
      /\ inflight.call # 0 => \A id \in Ids' : id.call # inflight.call
  BY <1>2, FinishLine
<1>4. /\ mappings' \in Table
      /\ answers' \in [Call -> Answer]
      /\ \A c \in Call : answers'[c] = IF c = inflight.call THEN outcome ELSE answers[c]
      /\ \A k \in Key : mappings'[k] # None =>
           /\ maps[k] # None
           /\ \/ mappings'[k].state = "LOST"
              \/ /\ mappings'[k] = maps[k]
                 /\ ~ (/\ inflight.origin = "renew" /\ outcome # "ok"
                       /\ inflight.key = k /\ maps[k].nonce = inflight.nonce)
  <2>1. answers \in [Call -> Answer] BY DEF RestType, Answer
  <2> QED BY <1>1, <1>2, <2>1, CallbackDone
<1>5. RestType' BY <1>4 DEF RestType, Answer
<1>6. Id(inflight).call = inflight.call /\ Id(inflight).origin = inflight.origin
      /\ Id(inflight).key = inflight.key /\ Id(inflight).nonce = inflight.nonce
  BY DEF Id
<1>7. OwedInv'
  <2>1. \A id \in Ids' : id.call <= calls' BY <1>3 DEF OwedInv
  <2>2. \A c \in Call : c > calls' => answers'[c] # "pending" BY <1>4 DEF OwedInv, Outcome
  <2>3. ASSUME state = "open", NEW c \in Call
        PROVE  answers'[c] = "pending" <=> \E id \in Ids' : id.call = c
    <3>1. answers[c] = "pending" <=> \E id \in Ids : id.call = c BY <2>3 DEF OwedInv
    <3>2. CASE c = inflight.call BY <1>3, <1>4, <3>2 DEF Outcome, Call
    <3>3. CASE c # inflight.call BY <1>3, <1>4, <1>6, <3>1, <3>3
    <3> QED BY <3>2, <3>3
  <2> QED BY <2>1, <2>2, <2>3 DEF OwedInv
<1>8. LeaseInv'
  <2> SUFFICES ASSUME state = "open", NEW k \in Key, mappings'[k] # None
               PROVE  /\ mappings'[k].state = "ACTIVE" /\ mappings'[k].lease
                           => mappings'[k].timer \in {"renew", "dropped"}
                      /\ mappings'[k].state = "RENEWING"
                           => \E id \in Ids' : /\ id.origin = "renew" /\ id.key = k
                                               /\ id.nonce = mappings'[k].nonce
    BY DEF LeaseInv, Tended
  <2>1. CASE mappings'[k].state = "LOST" BY <2>1
  <2>2. CASE mappings'[k].state # "LOST"
    <3>1. /\ maps[k] # None /\ mappings'[k] = maps[k]
          /\ ~ (/\ inflight.origin = "renew" /\ outcome # "ok"
                /\ inflight.key = k /\ maps[k].nonce = inflight.nonce)
      BY <1>4, <2>2
    <3>2. /\ maps[k].state = "ACTIVE" /\ maps[k].lease => maps[k].timer \in {"renew", "dropped"}
          /\ maps[k].state = "RENEWING"
               => \E id \in Ids : id.origin = "renew" /\ id.key = k /\ id.nonce = maps[k].nonce
      BY <3>1 DEF Tended
    <3>3. ASSUME maps[k].state = "RENEWING"
          PROVE  \E id \in Ids' : id.origin = "renew" /\ id.key = k /\ id.nonce = maps[k].nonce
      <4>1. PICK id \in Ids : id.origin = "renew" /\ id.key = k /\ id.nonce = maps[k].nonce
        BY <3>2, <3>3
      <4>2. id # Id(inflight) BY <1>6, <3>1, <3>3, <4>1
      <4> QED BY <1>3, <4>1, <4>2
    <3> QED BY <3>1, <3>2, <3>3
  <2> QED BY <2>1, <2>2
<1> QED BY <1>3, <1>5, <1>7, <1>8 DEF IInv

LEMMA SwitchKeeps ==
  ASSUME LineType, RestType, Single, OwedInv, inflight # None,
         NEW maps \in Table, SwitchOrFinish("error", maps),
         state' = state, calls' = calls, epoch' \in [Dialect -> Boot \cup {None}],
         state = "open" => Tended(maps, Ids)
  PROVE  IInv'
<1> DEFINE next == [inflight EXCEPT !.dialect = @ + 1]
<1>1. CASE inflight.dialect < Len(Protocols) /\ Sendable(next) # {}
  <2>1. Send(Started(next), queue) /\ mappings' = maps /\ answers' = answers
    BY <1>1 DEF SwitchOrFinish
  <2>2. inflight \in Fit BY DEF LineType
  <2>3. /\ next \in Tx /\ Id(next) = Id(inflight) /\ next.kind = inflight.kind
        /\ next.key = inflight.key /\ next.call = inflight.call /\ next.origin = inflight.origin
    BY <1>1, <2>2, Constants, SMTT(20) DEF Fit, Tx, Id
  <2> HIDE DEF next
  <2>4. Started(next) \in Fit /\ Id(Started(next)) = Id(inflight)
    BY <1>1, <2>2, <2>3, StartedFit DEF Fit
  <2>5. LineType' /\ Single' /\ Ids' = Ids BY <2>1, <2>4, SendLine
  <2>6. RestType' BY <2>1 DEF RestType
  <2>7. OwedInv' BY <2>1, <2>5 DEF OwedInv
  <2>8. LeaseInv' BY <2>1, <2>5 DEF LeaseInv
  <2> QED BY <2>5, <2>6, <2>7, <2>8 DEF IInv
<1>2. CASE ~(inflight.dialect < Len(Protocols) /\ Sendable(next) # {})
  <2>1. Finish("error", maps) BY <1>2 DEF SwitchOrFinish
  <2> QED BY <2>1, FinishKeeps DEF Outcome
<1> QED BY <1>1, <1>2

-----------------------------------------------------------------------------
(* A transaction joins the line.                                           *)

LEMMA NewTxFit ==
  ASSUME NEW kind \in {"map", "probe", "address"}, NEW key \in Key \cup {None},
         NEW ext \in External \cup {NoPort}, NEW delete \in BOOLEAN, NEW nonce \in Call,
         NEW origin \in {"call", "renew", "recreate"}, NEW call \in Call \cup {0},
         NEW exact \in BOOLEAN,
         kind = "map" => key \in Key, origin # "call" => kind = "map",
         origin = "call" <=> call # 0,
         kind = "address" => \E d \in DOMAIN Protocols : Protocols[d] = "natpmp"
  PROVE  LET tx == NewTx(kind, key, ext, delete, nonce, origin, call, exact) IN
         tx \in Fit /\ Id(tx) = [call |-> call, origin |-> origin, key |-> key, nonce |-> nonce]
<1> DEFINE tx == NewTx(kind, key, ext, delete, nonce, origin, call, exact)
<1>1. 1 \in 1 .. Len(Protocols) /\ DOMAIN Protocols = 1 .. Len(Protocols)
  BY Constants, SessionAssumption
<1>2. tx \in Tx BY <1>1, Constants DEF NewTx, Tx
<1>3. /\ tx.kind = kind /\ tx.key = key /\ tx.origin = origin /\ tx.call = call
      /\ tx.nonce = nonce /\ tx.dialect = 1
  BY DEF NewTx
<1> HIDE DEF tx
<1>4. Sendable(tx) # {} BY <1>1, <1>3 DEF Sendable
<1>5. tx \in Fit BY <1>2, <1>3, <1>4 DEF Fit
<1> QED BY <1>3, <1>5 DEF Id, tx

\* The transactions of probe() and getExternalIp(), and those of a recreation.
LEMMA InquiryFit ==
  ASSUME NEW kind \in {"probe", "address"}, NEW call \in Call,
         kind = "address" => \E d \in DOMAIN Protocols : Protocols[d] = "natpmp"
  PROVE  LET tx == NewTx(kind, None, NoPort, FALSE, call, "call", call, FALSE) IN
         tx \in Fit /\ tx.call = call /\ tx.key = None
<1> DEFINE tx == NewTx(kind, None, NoPort, FALSE, call, "call", call, FALSE)
<1>1. /\ kind \in {"map", "probe", "address"} /\ kind # "map" /\ None \in Key \cup {None}
      /\ NoPort \in External \cup {NoPort} /\ FALSE \in BOOLEAN
      /\ "call" \in {"call", "renew", "recreate"} /\ call \in Call \cup {0}
  OBVIOUS
<1>2. call # 0 BY DEF Call
<1>3. tx \in Fit BY <1>1, <1>2, NewTxFit, Zenon
<1> QED BY <1>3 DEF NewTx

LEMMA RecreationFit ==
  ASSUME NEW k \in Key, NEW old \in Mapping
  PROVE  LET tx == NewTx("map", k, old.ext, FALSE, old.nonce, "recreate", 0, FALSE) IN
         tx \in Fit /\ tx.call = 0 /\ tx.key = k /\ tx.nonce = old.nonce
<1> DEFINE tx == NewTx("map", k, old.ext, FALSE, old.nonce, "recreate", 0, FALSE)
<1>1. /\ "map" \in {"map", "probe", "address"} /\ "map" # "address"
      /\ k \in Key \cup {None} /\ FALSE \in BOOLEAN
      /\ "recreate" \in {"call", "renew", "recreate"} /\ "recreate" # "call"
      /\ 0 \in Call \cup {0} /\ 0 = 0
      /\ old.ext \in External \cup {NoPort} /\ old.nonce \in Call
  BY DEF Mapping
<1>2. tx \in Fit BY <1>1, NewTxFit, Zenon
<1> QED BY <1>2 DEF NewTx

LEMMA MoreTended ==
  ASSUME NEW maps, NEW ids, NEW more, Tended(maps, ids), ids \subseteq more
  PROVE  Tended(maps, more)
BY DEF Tended

\* A table with one record changed is tended when that record is.
LEMMA OneTended ==
  ASSUME NEW maps, NEW ids, Tended(maps, ids), NEW k \in Key, NEW new, NEW next,
         \A j \in Key : next[j] = IF j = k THEN new ELSE maps[j],
         new.state = "ACTIVE" /\ new.lease => new.timer \in {"renew", "dropped"},
         new.state = "RENEWING"
           => \E id \in ids : id.origin = "renew" /\ id.key = k /\ id.nonce = new.nonce
  PROVE  Tended(next, ids)
<1> SUFFICES ASSUME NEW j \in Key, next[j] # None
             PROVE  /\ next[j].state = "ACTIVE" /\ next[j].lease
                         => next[j].timer \in {"renew", "dropped"}
                    /\ next[j].state = "RENEWING"
                         => \E id \in ids : /\ id.origin = "renew" /\ id.key = j
                                            /\ id.nonce = next[j].nonce
  BY DEF Tended
<1>1. CASE j = k BY <1>1
<1>2. CASE j # k
  <2>1. next[j] = maps[j] /\ maps[j] # None BY <1>2
  <2>2. maps[j].state = "ACTIVE" /\ maps[j].lease => maps[j].timer \in {"renew", "dropped"}
    BY <2>1 DEF Tended
  <2>3. maps[j].state = "RENEWING"
          => \E id \in ids : id.origin = "renew" /\ id.key = j /\ id.nonce = maps[j].nonce
    BY <2>1 DEF Tended
  <2> QED BY <2>1, <2>2, <2>3
<1> QED BY <1>1, <1>2

\* A new call has a number no transaction in line answers.
LEMMA FreshCall ==
  ASSUME IInv, NewCall
  PROVE  /\ calls \in Nat /\ calls' = calls + 1 /\ calls' \in 0 .. MaxCalls /\ calls' \in Call
         /\ \A id \in Ids : id.call \in Int /\ id.call <= calls /\ id.call # calls'
<1>1. /\ calls \in Nat /\ calls' = calls + 1 /\ calls' \in 0 .. MaxCalls /\ calls' \in Call
  BY SessionAssumption DEF NewCall, IInv, RestType, Call
<1>2. \A id \in Ids : id.call <= calls BY DEF IInv, OwedInv
<1>3. \A id \in Ids : id.call \in Int
  <2>1. \A t \in Fit : Id(t).call \in Int BY DEF Fit, Tx, Id, Call
  <2> QED BY <2>1, PendingIds DEF IInv, LineType, Pending
<1> QED BY <1>1, <1>2, <1>3

\* A new call whose transaction joins the line.
LEMMA CallKeeps ==
  ASSUME IInv, NewCall, NEW tx \in Fit, tx.call = calls', Enqueue(tx), state' = state,
         epoch' = epoch, mappings' \in Table,
         state = "open" => Tended(mappings', Ids)
  PROVE  IInv'
<1>1. /\ calls \in Nat /\ calls' = calls + 1 /\ calls' \in 0 .. MaxCalls /\ calls' \in Call
      /\ answers \in [Call -> Answer] /\ answers' = [answers EXCEPT ![calls'] = "pending"]
  BY FreshCall DEF NewCall, IInv, RestType, Answer
<1>2. \A id \in Ids : id.call <= calls BY FreshCall
<1>3. \A id \in Ids : id.call \in Int BY FreshCall
<1>4. \A id \in Ids : id.call # calls' BY FreshCall
<1>5. LineType' /\ Single' /\ Ids' = Ids \cup {Id(tx)}
  BY <1>4, EnqueueLine DEF IInv
<1>6. \A c \in Call : answers'[c] = IF c = calls' THEN "pending" ELSE answers[c] BY <1>1
<1>7. RestType' BY <1>1 DEF IInv, RestType, Answer
<1>8. Id(tx).call = calls' BY DEF Id
<1>9. OwedInv'
  <2>1. \A id \in Ids' : id.call <= calls' BY <1>1, <1>2, <1>3, <1>5, <1>8
  <2>2. \A c \in Call : c > calls' => answers'[c] # "pending"
    BY <1>1, <1>6 DEF IInv, OwedInv, Call
  <2>3. ASSUME state = "open", NEW c \in Call
        PROVE  answers'[c] = "pending" <=> \E id \in Ids' : id.call = c
    <3>1. answers[c] = "pending" <=> \E id \in Ids : id.call = c BY <2>3 DEF IInv, OwedInv
    <3> QED BY <1>5, <1>6, <1>8, <3>1
  <2> QED BY <2>1, <2>2, <2>3 DEF OwedInv
<1>10. LeaseInv' BY <1>5, MoreTended DEF LeaseInv
<1> QED BY <1>5, <1>7, <1>9, <1>10 DEF IInv

LEMMA MapKeeps ==
  ASSUME IInv, NEW k \in Key, NEW ext \in External \cup {NoPort}, NEW exact \in BOOLEAN,
         NEW permanent \in BOOLEAN, Map(k, ext, exact, permanent)
  PROVE  IInv'
<1> DEFINE tx == NewTx("map", k, ext, permanent, calls', "call", calls', exact)
<1>1. NewCall /\ Enqueue(tx) /\ state' = state /\ mappings' = mappings /\ epoch' = epoch
  BY DEF Map
<1>2. calls' \in Call /\ calls' # 0
  BY <1>1, SessionAssumption DEF NewCall, IInv, RestType, Call
<1>3. tx \in Fit /\ tx.call = calls'
  <2>1. /\ "map" \in {"map", "probe", "address"} /\ k \in Key \cup {None}
        /\ "call" \in {"call", "renew", "recreate"} /\ calls' \in Call \cup {0}
        /\ "map" # "address"
    BY <1>2
  <2>2. tx \in Fit BY <1>2, <2>1, NewTxFit, Zenon
  <2> QED BY <2>2 DEF NewTx
<1> HIDE DEF tx
<1>4. mappings' \in Table /\ (state = "open" => Tended(mappings', Ids))
  BY <1>1 DEF IInv, RestType, LeaseInv
<1> QED BY <1>1, <1>3, <1>4, CallKeeps

LEMMA UnmapKeeps == ASSUME IInv, NEW k \in Key, Unmap(k) PROVE IInv'
<1> DEFINE nonce == IF mappings[k] = None THEN calls' ELSE mappings[k].nonce
           tx    == NewTx("map", k, NoPort, TRUE, nonce, "call", calls', FALSE)
<1>1. /\ NewCall /\ Enqueue(tx) /\ state' = state /\ epoch' = epoch
      /\ mappings' = IF mappings[k] = None THEN mappings
                     ELSE [mappings EXCEPT ![k].timer = "dropped"]
  BY DEF Unmap
<1>2. calls' \in Call /\ calls' # 0 /\ mappings \in Table
  <2>0. NewCall BY <1>1
  <2>1. calls' \in Call /\ calls' # 0
    BY <2>0, SessionAssumption DEF NewCall, IInv, RestType, Call
  <2> QED BY <2>1 DEF IInv, RestType
<1>3. nonce \in Call BY <1>2 DEF Table, Mapping
<1> HIDE DEF nonce
<1>4. tx \in Fit /\ tx.call = calls' BY <1>2, <1>3, NewTxFit DEF NewTx
<1> HIDE DEF tx
<1>5. mappings' \in Table /\ (state = "open" => Tended(mappings', Ids))
  <2>1. CASE mappings[k] = None BY <1>1, <1>2, <2>1 DEF IInv, LeaseInv
  <2>2. CASE mappings[k] # None
    <3> DEFINE new == [mappings[k] EXCEPT !.timer = "dropped"]
    <3>1. mappings[k] \in Mapping BY <1>2, <2>2 DEF Table
    <3>2. /\ new \in Mapping /\ new.timer = "dropped" /\ new.state = mappings[k].state
          /\ new.nonce = mappings[k].nonce
      BY <3>1 DEF Mapping
    <3>3. mappings' = [mappings EXCEPT ![k] = new] BY <1>1, <2>2
    <3> HIDE DEF new
    <3>4. mappings' \in Table BY <1>2, <3>2, <3>3 DEF Table
    <3>5. \A j \in Key : mappings'[j] = IF j = k THEN new ELSE mappings[j]
      BY <1>2, <3>3 DEF Table
    <3>6. ASSUME state = "open" PROVE Tended(mappings', Ids)
      <4>1. Tended(mappings, Ids) BY <3>6 DEF IInv, LeaseInv
      <4>2. new.state = "RENEWING"
              => \E id \in Ids : id.origin = "renew" /\ id.key = k /\ id.nonce = new.nonce
        <5>1. mappings[k].state = "RENEWING"
                => \E id \in Ids : id.origin = "renew" /\ id.key = k /\ id.nonce = mappings[k].nonce
          BY <2>2, <4>1 DEF Tended
        <5> QED BY <3>2, <5>1
      <4> QED BY <3>2, <3>5, <4>1, <4>2, OneTended
    <3> QED BY <3>4, <3>6
  <2> QED BY <2>1, <2>2
<1> QED BY <1>1, <1>4, <1>5, CallKeeps

LEMMA ProbeKeeps == ASSUME IInv, Probe PROVE IInv'
<1> DEFINE tx == NewTx("probe", None, NoPort, FALSE, calls', "call", calls', FALSE)
<1>1. NewCall /\ Enqueue(tx) /\ state' = state /\ mappings' = mappings /\ epoch' = epoch
  BY DEF Probe
<1>2. calls' \in Call /\ calls' # 0
  BY <1>1, SessionAssumption DEF NewCall, IInv, RestType, Call
<1>3. tx \in Fit /\ tx.call = calls' BY <1>2, InquiryFit
<1> HIDE DEF tx
<1>4. mappings' \in Table /\ (state = "open" => Tended(mappings', Ids))
  BY <1>1 DEF IInv, RestType, LeaseInv
<1> QED BY <1>1, <1>3, <1>4, CallKeeps

LEMMA GetExternalIpKeeps == ASSUME IInv, GetExternalIp PROVE IInv'
<1> DEFINE tx == NewTx("address", None, NoPort, FALSE, calls', "call", calls', FALSE)
<1>1. /\ NewCall /\ Enqueue(tx) /\ state' = state /\ mappings' = mappings /\ epoch' = epoch
      /\ \E d \in DOMAIN Protocols : Protocols[d] = "natpmp"
  BY DEF GetExternalIp
<1>2. calls' \in Call /\ calls' # 0
  BY <1>1, SessionAssumption DEF NewCall, IInv, RestType, Call
<1>3. tx \in Fit /\ tx.call = calls' BY <1>1, <1>2, InquiryFit
<1> HIDE DEF tx
<1>4. mappings' \in Table /\ (state = "open" => Tended(mappings', Ids))
  BY <1>1 DEF IInv, RestType, LeaseInv
<1> QED BY <1>1, <1>3, <1>4, CallKeeps

\* The timer of a mapping: its transaction joins the line and answers nobody.
LEMMA TimerKeeps ==
  ASSUME IInv, NEW tx \in Fit, tx.call = 0, Enqueue(tx), mappings' \in Table,
         UNCHANGED <<state, epoch, calls, answers>>,
         state = "open" => Tended(mappings', Ids \cup {Id(tx)})
  PROVE  IInv'
<1>1. LineType' /\ Single' /\ Ids' = Ids \cup {Id(tx)} BY EnqueueLine DEF IInv
<1>2. RestType' BY DEF IInv, RestType
<1>3. Id(tx).call = 0 /\ 0 \notin Call /\ 0 <= calls BY DEF Id, Call, IInv, RestType
<1>4. OwedInv' BY <1>1, <1>3 DEF IInv, OwedInv
<1>5. LeaseInv' BY <1>1 DEF LeaseInv
<1> QED BY <1>1, <1>2, <1>4, <1>5 DEF IInv

LEMMA RenewKeeps == ASSUME IInv, NEW k \in Key, RenewFires(k) PROVE IInv'
<1> DEFINE old == mappings[k]
           new == [old EXCEPT !.timer = "off", !.state = "RENEWING"]
           tx  == NewTx("map", k, old.ext, FALSE, old.nonce, "renew", 0, old.exact)
<1>1. mappings \in Table /\ old \in Mapping BY DEF RenewFires, IInv, RestType, Table
<1>2. /\ mappings' = [mappings EXCEPT ![k] = new] /\ Enqueue(tx)
      /\ UNCHANGED <<state, epoch, calls, answers>>
  <2>1. mappings' = [mappings EXCEPT ![k].timer = "off", ![k].state = "RENEWING"]
    BY DEF RenewFires
  <2>2. mappings' = [mappings EXCEPT ![k] = new] BY <1>1, <2>1 DEF Table
  <2> QED BY <2>2 DEF RenewFires
<1>3. new \in Mapping /\ new.state = "RENEWING" /\ new.nonce = old.nonce BY <1>1 DEF Mapping
<1>4. /\ tx \in Fit /\ tx.call = 0
      /\ Id(tx).origin = "renew" /\ Id(tx).key = k /\ Id(tx).nonce = old.nonce
  <2>1. old.ext \in External \cup {NoPort} /\ old.nonce \in Call /\ old.exact \in BOOLEAN
    BY <1>1 DEF Mapping
  <2>2. /\ "map" \in {"map", "probe", "address"} /\ k \in Key \cup {None}
        /\ "renew" \in {"call", "renew", "recreate"} /\ 0 \in Call \cup {0}
        /\ "map" # "address" /\ "renew" # "call" /\ FALSE \in BOOLEAN /\ 0 = 0
    OBVIOUS
  <2>3. tx \in Fit BY <2>1, <2>2, NewTxFit, Zenon
  <2> QED BY <2>3 DEF NewTx, Id
<1> HIDE DEF new, tx, old
<1>5. mappings' \in Table BY <1>1, <1>2, <1>3 DEF Table
<1>6. \A j \in Key : mappings'[j] = IF j = k THEN new ELSE mappings[j]
  BY <1>1, <1>2 DEF Table
<1>7. ASSUME state = "open" PROVE Tended(mappings', Ids \cup {Id(tx)})
  <2>1. Tended(mappings, Ids \cup {Id(tx)}) BY <1>7, MoreTended DEF IInv, LeaseInv
  <2>2. \E id \in Ids \cup {Id(tx)} : id.origin = "renew" /\ id.key = k /\ id.nonce = new.nonce
    BY <1>3, <1>4
  <2> QED BY <1>3, <1>6, <2>1, <2>2, OneTended
<1> QED BY <1>2, <1>4, <1>5, <1>7, TimerKeeps

LEMMA RecreateKeeps == ASSUME IInv, NEW k \in Key, RecreateFires(k) PROVE IInv'
<1> DEFINE old == mappings[k]
           new == [old EXCEPT !.timer = "off"]
           tx  == NewTx("map", k, old.ext, FALSE, old.nonce, "recreate", 0, FALSE)
<1>1. mappings \in Table /\ old \in Mapping /\ old # None /\ old.timer = "recreate"
  BY DEF RecreateFires, IInv, RestType, Table
<1>2. /\ mappings' = [mappings EXCEPT ![k] = new] /\ Enqueue(tx)
      /\ UNCHANGED <<state, epoch, calls, answers>>
  BY DEF RecreateFires
<1>3. new \in Mapping /\ new.state = old.state /\ new.nonce = old.nonce /\ new.lease = old.lease
  BY <1>1 DEF Mapping
<1>4. tx \in Fit /\ tx.call = 0 BY <1>1, RecreationFit
<1> HIDE DEF new, tx
<1>5. mappings' \in Table BY <1>1, <1>2, <1>3 DEF Table
<1>6. \A j \in Key : mappings'[j] = IF j = k THEN new ELSE mappings[j]
  BY <1>1, <1>2 DEF Table
<1>7. ASSUME state = "open" PROVE Tended(mappings', Ids \cup {Id(tx)})
  <2>1. Tended(mappings, Ids \cup {Id(tx)}) BY <1>7, MoreTended DEF IInv, LeaseInv
  <2>2. /\ ~ (old.state = "ACTIVE" /\ old.lease)
        /\ old.state = "RENEWING"
             => \E id \in Ids \cup {Id(tx)} :
                   id.origin = "renew" /\ id.key = k /\ id.nonce = old.nonce
    BY <1>1, <2>1 DEF Tended
  <2>3. ~ (new.state = "ACTIVE" /\ new.lease) BY <1>3, <2>2
  <2>4. new.state = "RENEWING"
          => \E id \in Ids \cup {Id(tx)} :
                id.origin = "renew" /\ id.key = k /\ id.nonce = new.nonce
    BY <1>3, <2>2
  <2> HIDE DEF old
  <2> QED BY <1>6, <2>1, <2>3, <2>4, OneTended
<1> QED BY <1>2, <1>4, <1>5, <1>7, TimerKeeps

-----------------------------------------------------------------------------
(* Cancellation and destruction.                                           *)

LEMMA RemoveLine ==
  ASSUME NEW q \in Seq(Fit), NEW i \in DOMAIN q, Apart(q), q[i].call # 0
  PROVE  /\ RemoveAt(q, i) \in Seq(Fit) /\ Apart(RemoveAt(q, i))
         /\ IdsOf(q) = IdsOf(RemoveAt(q, i)) \cup {Id(q[i])}
         /\ \A j \in DOMAIN RemoveAt(q, i) : \E l \in DOMAIN q : RemoveAt(q, i)[j] = q[l]
         /\ \A id \in IdsOf(RemoveAt(q, i)) : id.call # q[i].call
<1> DEFINE r     == RemoveAt(q, i)
           front == SubSeq(q, 1, i - 1)
           back  == SubSeq(q, i + 1, Len(q))
           at(j) == IF j < i THEN j ELSE j + 1
           to(j) == IF j < i THEN j ELSE j - 1
<1>1. i \in Nat /\ 1 <= i /\ i <= Len(q) /\ Len(q) \in Nat /\ DOMAIN q = 1 .. Len(q) OBVIOUS
<1>2. /\ front \in Seq(Fit) /\ Len(front) = i - 1
      /\ \A j \in 1 .. (i - 1) : front[j] = q[j]
  BY <1>1
<1>3. /\ back \in Seq(Fit) /\ Len(back) = Len(q) - i
      /\ \A j \in 1 .. (Len(q) - i) : back[j] = q[i + j]
  BY <1>1
<1>4. r = front \o back BY DEF RemoveAt
<1> HIDE DEF r, front, back
<1>5. /\ r \in Seq(Fit) /\ Len(r) = Len(q) - 1
      /\ \A j \in 1 .. (Len(q) - 1) : r[j] = q[at(j)]
  <2>1. /\ r \in Seq(Fit) /\ Len(r) = Len(front) + Len(back)
        /\ \A j \in 1 .. (Len(front) + Len(back)) :
             r[j] = IF j <= Len(front) THEN front[j] ELSE back[j - Len(front)]
    BY <1>2, <1>3, <1>4, ConcatProperties
  <2>2. ASSUME NEW j \in 1 .. (Len(q) - 1) PROVE r[j] = q[at(j)]
    <3>1. CASE j < i BY <1>1, <1>2, <1>3, <2>1, <3>1
    <3>2. CASE ~ (j < i)
      <4>1. j - (i - 1) \in 1 .. (Len(q) - i) /\ i + (j - (i - 1)) = j + 1 BY <1>1, <3>2
      <4>2. r[j] = back[j - (i - 1)]
        <5>1. /\ j \in 1 .. (Len(front) + Len(back)) /\ ~ (j <= Len(front))
              /\ j - Len(front) = j - (i - 1)
          BY <1>1, <1>2, <1>3, <3>2
        <5> QED BY <2>1, <5>1
      <4> QED BY <1>3, <3>2, <4>1, <4>2
    <3> QED BY <3>1, <3>2
  <2> QED BY <1>1, <1>2, <1>3, <2>1, <2>2
<1>6. DOMAIN r = 1 .. (Len(q) - 1) BY <1>1, <1>5
<1>7. /\ \A j \in DOMAIN r : at(j) \in DOMAIN q /\ at(j) # i /\ r[j] = q[at(j)]
      /\ \A j, l \in DOMAIN r : at(j) = at(l) => j = l
      /\ \A j \in DOMAIN q \ {i} : to(j) \in DOMAIN r /\ at(to(j)) = j
  BY <1>1, <1>5, <1>6
<1> HIDE DEF at, to
<1>8. Apart(r)
  <2> SUFFICES ASSUME NEW j \in DOMAIN r, NEW l \in DOMAIN r, r[j].call = r[l].call, r[j].call # 0
               PROVE  j = l
    BY DEF Apart
  <2>1. q[at(j)].call = q[at(l)].call /\ q[at(j)].call # 0 BY <1>7
  <2>2. at(j) = at(l) BY <1>7, <2>1 DEF Apart
  <2> QED BY <1>7, <2>2
<1>9. IdsOf(q) = IdsOf(r) \cup {Id(q[i])}
  <2>1. ASSUME NEW id \in IdsOf(q) PROVE id \in IdsOf(r) \cup {Id(q[i])}
    <3>1. PICK j \in DOMAIN q : id = Id(q[j]) BY DEF IdsOf
    <3>2. CASE j # i
      <4>1. to(j) \in DOMAIN r /\ r[to(j)] = q[j] BY <1>7, <3>2
      <4> QED BY <3>1, <4>1 DEF IdsOf
    <3> QED BY <3>1, <3>2
  <2>2. ASSUME NEW id \in IdsOf(r) PROVE id \in IdsOf(q)
    <3>1. PICK j \in DOMAIN r : id = Id(r[j]) BY DEF IdsOf
    <3>2. at(j) \in DOMAIN q /\ id = Id(q[at(j)]) BY <1>7, <3>1
    <3> QED BY <3>2 DEF IdsOf
  <2>3. Id(q[i]) \in IdsOf(q) BY DEF IdsOf
  <2> QED BY <2>1, <2>2, <2>3
<1>10. \A id \in IdsOf(r) : id.call # q[i].call
  <2> SUFFICES ASSUME NEW id \in IdsOf(r), id.call = q[i].call PROVE FALSE OBVIOUS
  <2>1. PICK j \in DOMAIN r : id = Id(r[j]) BY DEF IdsOf
  <2>2. q[at(j)].call = q[i].call BY <1>7, <2>1 DEF Id
  <2> QED BY <1>7, <2>2 DEF Apart
<1> QED BY <1>5, <1>7, <1>8, <1>9, <1>10 DEF r

\* The call of a transaction that leaves the line is answered; no other is.
LEMMA AnsweredOwed ==
  ASSUME OwedInv, NEW tx, NEW outcome \in Outcome, tx.call \in Call \cup {0},
         state' = state, calls' = calls, Ids = Ids' \cup {Id(tx)},
         tx.call # 0 => \A id \in Ids' : id.call # tx.call,
         \A c \in Call : answers'[c] = IF c = tx.call THEN outcome ELSE answers[c]
  PROVE  OwedInv'
<1>1. \A id \in Ids' : id.call <= calls' BY DEF OwedInv
<1>2. \A c \in Call : c > calls' => answers'[c] # "pending" BY DEF OwedInv, Outcome
<1>3. ASSUME state = "open", NEW c \in Call
      PROVE  answers'[c] = "pending" <=> \E id \in Ids' : id.call = c
  <2>1. answers[c] = "pending" <=> \E id \in Ids : id.call = c BY <1>3 DEF OwedInv
  <2>2. CASE c = tx.call BY <2>2 DEF Outcome, Call
  <2>3. CASE c # tx.call BY <2>1, <2>3 DEF Id
  <2> QED BY <2>2, <2>3
<1> QED BY <1>1, <1>2, <1>3 DEF OwedInv

LEMMA CancelQueuedKeeps == ASSUME IInv, NEW i \in DOMAIN queue, CancelQueued(i) PROVE IInv'
<1> DEFINE q == RemoveAt(queue, i)
<1>1. /\ Callback(queue[i], "cancelled", mappings) /\ UNCHANGED <<state, epoch, calls>>
      /\ queue[i].call # 0
      /\ IF state = "destroyed" \/ inflight # None
         THEN queue' = q /\ inflight' = inflight /\ out' = None ELSE Pump(q)
  BY DEF CancelQueued
<1>2. queue[i] \in Fit /\ queue[i].call \in Call \cup {0} /\ queue[i].origin = "call"
  BY <1>1 DEF IInv, LineType, Fit, Tx
<1>3. /\ q \in Seq(Fit) /\ Apart(q) /\ IdsOf(queue) = IdsOf(q) \cup {Id(queue[i])}
      /\ \A j \in DOMAIN q : \E l \in DOMAIN queue : q[j] = queue[l]
      /\ \A id \in IdsOf(q) : id.call # queue[i].call
  BY <1>1, RemoveLine DEF IInv, LineType, Single
<1> HIDE DEF q
<1>4. /\ mappings' = mappings /\ answers' \in [Call -> Answer]
      /\ \A c \in Call : answers'[c] = IF c = queue[i].call THEN "cancelled" ELSE answers[c]
  <2>1. mappings' = mappings BY <1>1, <1>2 DEF Callback
  <2>2. answers \in [Call -> Answer] /\ mappings \in Table BY DEF IInv, RestType, Answer
  <2> QED BY <1>1, <1>2, <2>1, <2>2, CallbackDone DEF Outcome
<1>5. /\ LineType' /\ Single' /\ Ids = Ids' \cup {Id(queue[i])}
      /\ \A id \in Ids' : id.call # queue[i].call
  <2>1. CASE state = "destroyed" \/ inflight # None
    <3>1. queue' = q /\ inflight' = inflight /\ out' = None BY <1>1, <2>1
    <3>2. LineType' BY <1>3, <3>1 DEF IInv, LineType
    <3>3. Single' BY <1>3, <3>1 DEF IInv, Single
    <3>4. inflight # None => Id(inflight).call # queue[i].call
      BY <1>1 DEF IInv, Single, Id
    <3> QED BY <1>3, <3>1, <3>2, <3>3, <3>4 DEF Ids
  <2>2. CASE ~(state = "destroyed" \/ inflight # None)
    <3>1. Pump(q) BY <1>1, <2>2
    <3>2. LineType' /\ Single' /\ Ids' = IdsOf(q) BY <1>3, <3>1, PumpLine
    <3> QED BY <1>3, <2>2, <3>2 DEF Ids
  <2> QED BY <2>1, <2>2
<1>6. RestType' BY <1>1, <1>4 DEF IInv, RestType, Answer
<1>7. OwedInv' BY <1>1, <1>2, <1>4, <1>5, AnsweredOwed DEF IInv, Outcome
<1>8. LeaseInv'
  <2> SUFFICES ASSUME state = "open" PROVE Tended(mappings, Ids')
    BY <1>1, <1>4 DEF LeaseInv
  <2>1. Tended(mappings, Ids) BY DEF IInv, LeaseInv
  <2>2. \A id \in Ids : id.origin = "renew" => id \in Ids' BY <1>2, <1>5 DEF Id
  <2> QED BY <2>1, <2>2 DEF Tended
<1> QED BY <1>5, <1>6, <1>7, <1>8 DEF IInv

LEMMA CancelInflightKeeps == ASSUME IInv, CancelInflight PROVE IInv'
<1>1. /\ Finish("cancelled", mappings) /\ inflight # None
      /\ state' = state /\ calls' = calls /\ epoch' = epoch
  BY DEF CancelInflight
<1>2. mappings \in Table /\ epoch' \in [Dialect -> Boot \cup {None}]
  BY <1>1 DEF IInv, RestType
<1>3. LineType /\ RestType /\ Single /\ OwedInv /\ (state = "open" => Tended(mappings, Ids))
  BY DEF IInv, LeaseInv
<1> QED BY <1>1, <1>2, <1>3, FinishKeeps DEF Outcome

LEMMA CancelAllKeeps == ASSUME IInv, CancelAll PROVE IInv'
<1> DEFINE drops(k, origin) == \E tx \in Pending : tx.origin = origin /\ tx.key = k
                                                   /\ tx.nonce = mappings[k].nonce
<1>1. /\ answers' = [c \in Call |-> IF \E tx \in Pending : tx.call = c
                                    THEN "cancelled" ELSE answers[c]]
      /\ mappings' = [k \in Key |->
            IF mappings[k] = None THEN None
            ELSE [mappings[k] EXCEPT
                    !.state = IF drops(k, "renew") THEN "LOST" ELSE @,
                    !.timer = IF drops(k, "recreate") /\ @ = "off" THEN "dropped" ELSE @]]
      /\ queue' = <<>> /\ inflight' = None /\ out' = None
      /\ UNCHANGED <<state, epoch, calls>>
  BY DEF CancelAll
<1>2. Ids = {Id(tx) : tx \in Pending} BY PendingIds DEF IInv
<1>3. /\ \A k \in Key : drops(k, "renew") <=>
                          \E id \in Ids : /\ id.origin = "renew" /\ id.key = k
                                          /\ id.nonce = mappings[k].nonce
      /\ \A c \in Call : (\E tx \in Pending : tx.call = c) <=> \E id \in Ids : id.call = c
  <2>1. \A tx : Id(tx).call = tx.call /\ Id(tx).origin = tx.origin /\ Id(tx).key = tx.key
                /\ Id(tx).nonce = tx.nonce
    BY DEF Id
  <2> HIDE DEF drops
  <2>2. ASSUME NEW k \in Key
        PROVE  drops(k, "renew") <=>
                 \E id \in Ids : /\ id.origin = "renew" /\ id.key = k
                                 /\ id.nonce = mappings[k].nonce
    <3>1. (\E id \in Ids : id.origin = "renew" /\ id.key = k /\ id.nonce = mappings[k].nonce)
            => drops(k, "renew")
      BY <1>2, <2>1 DEF drops
    <3>2. drops(k, "renew") =>
            \E id \in Ids : id.origin = "renew" /\ id.key = k /\ id.nonce = mappings[k].nonce
      BY <1>2, <2>1 DEF drops
    <3> QED BY <3>1, <3>2
  <2>3. ASSUME NEW c \in Call
        PROVE  (\E tx \in Pending : tx.call = c) <=> \E id \in Ids : id.call = c
    BY <1>2, <2>1
  <2> QED BY <2>2, <2>3
<1> HIDE DEF drops
<1>4. LineType' /\ Single' /\ Ids' = {}
  <2>1. queue' = <<>> /\ inflight' = None /\ out' = None BY <1>1
  <2> QED BY <2>1 DEF LineType, Single, Apart, Ids, IdsOf
<1>5. \A k \in Key : mappings'[k] # None =>
        /\ mappings[k] \in Mapping /\ mappings[k] # None /\ mappings'[k] \in Mapping
        /\ mappings'[k].state = IF drops(k, "renew") THEN "LOST" ELSE mappings[k].state
        /\ mappings'[k].timer = mappings[k].timer \/ mappings'[k].timer = "dropped"
        /\ mappings'[k].lease = mappings[k].lease /\ mappings'[k].nonce = mappings[k].nonce
  <2> SUFFICES ASSUME NEW k \in Key, mappings'[k] # None
               PROVE  /\ mappings[k] \in Mapping /\ mappings[k] # None /\ mappings'[k] \in Mapping
                      /\ mappings'[k].state = IF drops(k, "renew") THEN "LOST" ELSE mappings[k].state
                      /\ mappings'[k].timer = mappings[k].timer \/ mappings'[k].timer = "dropped"
                      /\ mappings'[k].lease = mappings[k].lease /\ mappings'[k].nonce = mappings[k].nonce
    OBVIOUS
  <2>1. mappings[k] # None /\ mappings[k] \in Mapping BY <1>1 DEF IInv, RestType, Table
  <2>2. mappings'[k] = [mappings[k] EXCEPT
                          !.state = IF drops(k, "renew") THEN "LOST" ELSE @,
                          !.timer = IF drops(k, "recreate") /\ @ = "off" THEN "dropped" ELSE @]
    BY <1>1, <2>1
  <2> QED BY <2>1, <2>2 DEF Mapping
<1>6. RestType'
  <2>1. mappings' \in Table BY <1>1, <1>5 DEF Table
  <2> QED BY <1>1, <2>1 DEF IInv, RestType
<1>7. OwedInv' BY <1>1, <1>3, <1>4 DEF IInv, OwedInv
<1>8. LeaseInv'
  <2> SUFFICES ASSUME state = "open", NEW k \in Key, mappings'[k] # None
               PROVE  /\ mappings'[k].state = "ACTIVE" /\ mappings'[k].lease
                           => mappings'[k].timer \in {"renew", "dropped"}
                      /\ mappings'[k].state # "RENEWING"
    BY <1>1 DEF LeaseInv, Tended
  <2>1. /\ mappings[k].state = "ACTIVE" /\ mappings[k].lease
             => mappings[k].timer \in {"renew", "dropped"}
        /\ mappings[k].state = "RENEWING" => drops(k, "renew")
    BY <1>3, <1>5 DEF IInv, LeaseInv, Tended
  <2>2. mappings'[k].state # "RENEWING" BY <1>5, <2>1
  <2>3. mappings'[k].state = "ACTIVE" => mappings[k].state = "ACTIVE" BY <1>5
  <2> QED BY <1>5, <2>1, <2>2, <2>3
<1> QED BY <1>4, <1>6, <1>7, <1>8 DEF IInv

LEMMA DestroyKeeps == ASSUME IInv, Destroy PROVE IInv'
<1>1. /\ state' = "destroyed" /\ queue' = <<>> /\ inflight' = None /\ out' = None
      /\ mappings' = [k \in Key |-> IF mappings[k] = None THEN None
                                    ELSE [mappings[k] EXCEPT !.timer = "off"]]
      /\ UNCHANGED <<epoch, calls, answers>>
  BY DEF Destroy
<1>2. LineType' /\ Single' /\ Ids' = {} BY <1>1 DEF LineType, Single, Apart, Ids, IdsOf
<1>3. \A r \in Mapping : [r EXCEPT !.timer = "off"] \in Mapping BY DEF Mapping
<1>4. mappings' \in Table BY <1>1, <1>3 DEF IInv, RestType, Table
<1>5. RestType' BY <1>1, <1>4 DEF IInv, RestType
<1>6. OwedInv' BY <1>1, <1>2 DEF IInv, OwedInv
<1>7. LeaseInv' BY <1>1 DEF LeaseInv
<1> QED BY <1>2, <1>5, <1>6, <1>7 DEF IInv

LEMMA CancelDroppedKeeps == ASSUME IInv, NEW c \in Call, CancelDropped(c) PROVE IInv'
<1>1. /\ answers[c] = "pending" /\ ~ \E tx \in Pending : tx.call = c
      /\ answers' = [answers EXCEPT ![c] = "cancelled"] /\ out' = None
      /\ UNCHANGED <<state, queue, inflight, mappings, epoch, calls>>
  BY DEF CancelDropped
<1>2. ~ \E id \in Ids : id.call = c BY <1>1, PendingIds DEF IInv, Id
<1>3. state # "open" BY <1>1, <1>2 DEF IInv, OwedInv
<1>4. LineType' /\ Single' /\ Ids' = Ids BY <1>1 DEF IInv, LineType, Single, Apart, Ids, IdsOf
<1>5. RestType' BY <1>1 DEF IInv, RestType
<1>6. OwedInv' BY <1>1, <1>3, <1>4 DEF IInv, OwedInv, RestType
<1>7. LeaseInv' BY <1>1, <1>3 DEF LeaseInv
<1> QED BY <1>4, <1>5, <1>6, <1>7 DEF IInv

-----------------------------------------------------------------------------
(* Retransmission and replies.                                             *)

LEMMA RetransmitKeeps == ASSUME IInv, Retransmit PROVE IInv'
<1>1. inflight # None /\ inflight \in Fit /\ state' = state /\ epoch' = epoch /\ calls' = calls
  BY DEF Retransmit, IInv, LineType
<1>2. CASE inflight.attempt < Attempts(inflight)
  <2> DEFINE tx == [inflight EXCEPT !.attempt = @ + 1]
  <2>1. Send(tx, queue) /\ mappings' = mappings /\ answers' = answers
    BY <1>2 DEF Retransmit
  <2>2. inflight.attempt + 1 \in 0 .. AttemptBound BY <1>1, <1>2, Constants DEF Fit, Tx
  <2>3. /\ tx \in Tx /\ Id(tx) = Id(inflight) /\ tx.kind = inflight.kind
        /\ tx.key = inflight.key /\ tx.origin = inflight.origin /\ tx.call = inflight.call
        /\ tx.dialect = inflight.dialect
    BY <1>1, <2>2 DEF Fit, Tx, Id
  <2> HIDE DEF tx
  <2>4. tx \in Fit BY <1>1, <2>3 DEF Fit, Sendable
  <2>5. LineType' /\ Single' /\ Ids' = Ids BY <1>1, <2>1, <2>3, <2>4, SendLine DEF IInv
  <2>6. RestType' /\ OwedInv' /\ LeaseInv'
    BY <1>1, <2>1, <2>5 DEF IInv, RestType, OwedInv, LeaseInv
  <2> QED BY <2>5, <2>6 DEF IInv
<1>3. CASE ~ (inflight.attempt < Attempts(inflight))
  <2>1. SwitchOrFinish("error", mappings) BY <1>3 DEF Retransmit
  <2>2. mappings \in Table /\ epoch' \in [Dialect -> Boot \cup {None}]
    BY <1>1 DEF IInv, RestType
  <2>3. LineType /\ RestType /\ Single /\ OwedInv /\ (state = "open" => Tended(mappings, Ids))
    BY DEF IInv, LeaseInv
  <2> QED BY <1>1, <2>1, <2>2, <2>3, SwitchKeeps
<1> QED BY <1>2, <1>3

\* After a restart nothing held is reported as held.
LEMMA AfterRestartTended ==
  ASSUME mappings \in Table, NEW ids PROVE AfterRestart \in Table /\ Tended(AfterRestart, ids)
<1>1. \A r \in Mapping : LET new == [r EXCEPT !.state = "LOST", !.timer = "recreate"] IN
        new \in Mapping /\ new.state = "LOST"
  BY DEF Mapping
<1>2. AfterRestart \in Table BY <1>1 DEF AfterRestart, Table
<1>3. \A k \in Key : AfterRestart[k] # None => AfterRestart[k].state = "LOST"
  BY <1>1 DEF AfterRestart, Table
<1> QED BY <1>2, <1>3 DEF Tended

LEMMA GrantedMapping ==
  ASSUME NEW maps \in Table, NEW tx \in Tx, tx.key \in Key, NEW m \in Reply
  PROVE  /\ Granted(maps, tx, m) \in Mapping /\ Granted(maps, tx, m).state = "ACTIVE"
         /\ Granted(maps, tx, m).lease => Granted(maps, tx, m).timer = "renew"
<1>1. maps[tx.key] # None => maps[tx.key] \in Mapping BY DEF Table
<1> QED BY <1>1 DEF Granted, Mapping, Tx, Reply

LEMMA ReceiveKeeps == ASSUME IInv, NEW m \in Replies, Receive(m) PROVE IInv'
<1> DEFINE maps == IF Restarted(m.dialect, m.boot) THEN AfterRestart ELSE mappings
<1>1. /\ state' = state /\ calls' = calls /\ epoch' = [epoch EXCEPT ![m.dialect] = m.boot]
      /\ \/ /\ mappings' = maps /\ out' = None
            /\ UNCHANGED <<queue, inflight, answers>>
         \/ Rejected(m) /\ SwitchOrFinish("error", maps)
         \/ Answered(m) /\ IF m.result = "ok" THEN Succeed(m, maps) ELSE Finish("error", maps)
  BY DEF Receive
<1>2. m \in Reply /\ epoch' \in [Dialect -> Boot \cup {None}]
  BY <1>1 DEF Replies, Reply, IInv, RestType
<1>3. maps \in Table /\ (state = "open" => Tended(maps, Ids))
  BY AfterRestartTended DEF IInv, RestType, LeaseInv
<1> HIDE DEF maps
<1>4. LineType /\ RestType /\ Single /\ OwedInv BY DEF IInv
<1>5. CASE mappings' = maps /\ out' = None /\ UNCHANGED <<queue, inflight, answers>>
  <2>1. LineType' /\ Single' /\ Ids' = Ids
    BY <1>4, <1>5 DEF LineType, Single, Apart, Ids, IdsOf
  <2>2. RestType' BY <1>1, <1>2, <1>3, <1>4, <1>5 DEF RestType
  <2>3. OwedInv' BY <1>1, <1>4, <1>5, <2>1 DEF OwedInv
  <2>4. LeaseInv' BY <1>1, <1>3, <1>5, <2>1 DEF LeaseInv
  <2> QED BY <2>1, <2>2, <2>3, <2>4 DEF IInv
<1>6. CASE Rejected(m) /\ SwitchOrFinish("error", maps)
  <2>1. inflight # None BY <1>6 DEF Rejected
  <2> QED BY <1>1, <1>2, <1>3, <1>4, <1>6, <2>1, SwitchKeeps
<1>7. CASE Answered(m) /\ IF m.result = "ok" THEN Succeed(m, maps) ELSE Finish("error", maps)
  <2>1. inflight # None /\ inflight \in Fit BY <1>4, <1>7 DEF Answered, LineType
  <2>2. ASSUME Finish("error", maps) PROVE IInv'
    BY <1>1, <1>2, <1>3, <1>4, <2>1, <2>2, FinishKeeps DEF Outcome
  <2>3. CASE m.result # "ok" BY <1>7, <2>2, <2>3
  <2>4. CASE m.result = "ok" /\ inflight.kind # "map"
    <3>1. Finish("ok", maps) BY <1>7, <2>4 DEF Succeed
    <3>2. inflight.origin # "renew" BY <2>1, <2>4 DEF Fit
    <3> QED BY <1>1, <1>2, <1>3, <1>4, <2>1, <3>1, <3>2, FinishKeeps DEF Outcome
  <2>5. CASE m.result = "ok" /\ inflight.kind = "map" /\ WrongPort(inflight, m)
    <3>1. Finish("error", maps) BY <1>7, <2>5 DEF Succeed
    <3> QED BY <2>2, <3>1
  <2>6. CASE m.result = "ok" /\ inflight.kind = "map" /\ ~WrongPort(inflight, m)
    <3> DEFINE new  == IF inflight.delete THEN None ELSE Granted(maps, inflight, m)
               then == [maps EXCEPT ![inflight.key] = new]
    <3>1. Finish("ok", then) BY <1>7, <2>6 DEF Succeed
    <3>2. inflight \in Tx /\ inflight.key \in Key BY <2>1, <2>6 DEF Fit
    <3>3. /\ new = None \/ new \in Mapping
          /\ new # None => new.state = "ACTIVE" /\ (new.lease => new.timer = "renew")
      BY <1>2, <1>3, <3>2, GrantedMapping
    <3> HIDE DEF new
    <3>4. \A k \in Key : then[k] = IF k = inflight.key THEN new ELSE maps[k]
      BY <1>3, <3>2 DEF Table
    <3>5. then \in Table BY <1>3, <3>2, <3>3 DEF Table
    <3> HIDE DEF then
    <3>6. state = "open" => Tended(then, Ids) BY <1>3, <3>3, <3>4 DEF Tended
    <3>7. then[inflight.key] = None \/ then[inflight.key].state # "RENEWING"
      BY <3>2, <3>3, <3>4
    <3> QED BY <1>1, <1>2, <1>4, <2>1, <3>1, <3>5, <3>6, <3>7, FinishKeeps DEF Outcome
  <2> QED BY <2>3, <2>4, <2>5, <2>6
<1> QED BY <1>1, <1>5, <1>6, <1>7

-----------------------------------------------------------------------------
(* The invariant.                                                          *)

LEMMA InitIInv == Init => IInv
<1> SUFFICES ASSUME Init PROVE IInv OBVIOUS
<1>1. /\ state = "open" /\ queue = <<>> /\ inflight = None /\ out = None /\ calls = 0
      /\ mappings = [k \in Key |-> None] /\ epoch = [d \in Dialect |-> None]
      /\ answers = [c \in Call |-> "none"]
  BY DEF Init
<1>2. LineType /\ Single /\ Ids = {} BY <1>1 DEF LineType, Single, Apart, Ids, IdsOf
<1>3. RestType BY <1>1, SessionAssumption DEF RestType, Table
<1>4. OwedInv BY <1>1, <1>2 DEF OwedInv
<1>5. LeaseInv BY <1>1 DEF LeaseInv, Tended
<1> QED BY <1>2, <1>3, <1>4, <1>5 DEF IInv

LEMMA NextIInv == IInv /\ [Next]_vars => IInv'
<1> SUFFICES ASSUME IInv, [Next]_vars PROVE IInv' OBVIOUS
<1>1. CASE UNCHANGED vars
  BY <1>1 DEF vars, IInv, LineType, RestType, Single, Apart, OwedInv, LeaseInv, Ids, IdsOf, Table
<1>2. CASE CallStep
  <2>1. ASSUME NEW k \in Key, NEW ext \in External \cup {NoPort}, NEW exact \in BOOLEAN,
               NEW permanent \in BOOLEAN, Map(k, ext, exact, permanent)
        PROVE  IInv'
    BY <2>1, MapKeeps
  <2>2. ASSUME NEW k \in Key, Unmap(k) PROVE IInv' BY <2>2, UnmapKeeps
  <2>3. ASSUME NEW i \in DOMAIN queue, CancelQueued(i) PROVE IInv' BY <2>3, CancelQueuedKeeps
  <2>4. ASSUME NEW c \in Call, CancelDropped(c) PROVE IInv' BY <2>4, CancelDroppedKeeps
  <2> QED BY <1>2, <2>1, <2>2, <2>3, <2>4, ProbeKeeps, GetExternalIpKeeps, CancelInflightKeeps,
             CancelAllKeeps, DestroyKeeps DEF CallStep
<1>3. CASE TimerStep BY <1>3, RetransmitKeeps, RenewKeeps, RecreateKeeps DEF TimerStep
<1>4. CASE \E m \in Replies : Timely(m) /\ Receive(m) BY <1>4, ReceiveKeeps
<1> QED BY <1>1, <1>2, <1>3, <1>4 DEF Next

LEMMA Invariance == Spec => []IInv
<1> QED BY InitIInv, NextIInv, PTL DEF Spec

\* The engine's table, queue and answers keep their shape.
THEOREM TypeCorrect == Spec => []TypeOK
<1>1. IInv => TypeOK
  <2> SUFFICES ASSUME IInv PROVE TypeOK OBVIOUS
  <2>1. queue \in Seq(Tx) /\ inflight \in Tx \cup {None} BY DEF IInv, LineType, Fit
  <2> QED BY <2>1 DEF TypeOK, IInv, LineType, RestType, Table
<1> QED BY <1>1, Invariance, PTL

\* However calls, cancellations, fall-backs and replies interleave, the callback
\* of every call is owed by exactly one transaction until it is given its
\* answer, and by none afterwards.
THEOREM OwedCorrect == Spec => []OwedOnce
<1>1. IInv => OwedOnce
  <2> SUFFICES ASSUME IInv PROVE OwedOnce OBVIOUS
  <2>1. \A c \in Call : (\E tx \in Pending : tx.call = c) <=> \E id \in Ids : id.call = c
    <3>1. Ids = {Id(tx) : tx \in Pending} BY PendingIds DEF IInv
    <3>2. \A tx : Id(tx).call = tx.call BY DEF Id
    <3> QED BY <3>1, <3>2
  <2> QED BY <2>1 DEF IInv, Single, Apart, OwedInv, OwedOnce
<1> QED BY <1>1, Invariance, PTL

\* A finite lease the engine reports as ACTIVE is going to be renewed unless its
\* caller gave it up, and one it reports as RENEWING has its renewal under way,
\* whatever is granted, cancelled, lost or restarted meanwhile.
THEOREM LeaseCorrect == Spec => []LeaseTended
<1>1. IInv => LeaseTended
  <2> SUFFICES ASSUME IInv, NEW k \in Key, state = "open", mappings[k] # None
               PROVE  /\ mappings[k].state = "ACTIVE" /\ mappings[k].lease
                           => mappings[k].timer \in {"renew", "dropped"}
                      /\ mappings[k].state = "RENEWING"
                           => \E tx \in Pending : /\ tx.origin = "renew" /\ tx.key = k
                                                  /\ tx.nonce = mappings[k].nonce
    BY DEF LeaseTended
  <2>1. /\ mappings[k].state = "ACTIVE" /\ mappings[k].lease
             => mappings[k].timer \in {"renew", "dropped"}
        /\ mappings[k].state = "RENEWING"
             => \E id \in Ids : id.origin = "renew" /\ id.key = k /\ id.nonce = mappings[k].nonce
    BY DEF IInv, LeaseInv, Tended
  <2>2. \A id \in Ids : \E tx \in Pending : id.origin = tx.origin /\ id.key = tx.key
                                              /\ id.nonce = tx.nonce
    BY PendingIds DEF IInv, Id
  <2> QED BY <2>1, <2>2
<1> QED BY <1>1, Invariance, PTL

-----------------------------------------------------------------------------
(* What a step of the client changes, as the network sees it: what it      *)
(* sends, and who holds which nonce.                                       *)

\* What leaves is what is in flight.
Sent == out # None => inflight # None /\ out = PacketOf(inflight)

\* The ports the nonces belong to, by the transactions in line and the records.
ClaimsOf(ids, maps) ==
       {<<id.key, id.nonce>> : id \in {i \in ids : i.key # None}}
  \cup {<<k, maps[k].nonce>> : k \in {l \in Key : maps[l] # None}}
Claims == ClaimsOf(Ids, mappings)

\* A step of the client that is not caused by a reply: no record becomes ACTIVE
\* or changes its port, and a nonce is drawn by a call for one port.
Moved ==
  /\ Sent'
  /\ epoch' = epoch
  /\ \A k \in Key : mappings'[k] # None =>
       /\ mappings[k] # None
       /\ mappings'[k].state = "ACTIVE" =>
            mappings[k].state = "ACTIVE" /\ mappings'[k].ext = mappings[k].ext
  /\ \/ calls' = calls /\ Claims' \subseteq Claims
     \/ /\ calls' = calls + 1
        /\ \E k \in Key \cup {None} : Claims' \subseteq Claims \cup {<<k, calls'>>}

LEMMA PumpSends == ASSUME NEW q \in Seq(Fit), Pump(q) PROVE Sent'
<1>1. CASE q = <<>> BY <1>1 DEF Pump, Sent
<1>2. CASE q # <<>>
  <2>1. Head(q) \in Fit BY <1>2
  <2>2. Started(Head(q)) \in Fit BY <2>1, StartedFit DEF Fit
  <2>3. Started(Head(q)) # None BY <2>2, NoneAssumption DEF Fit
  <2> QED BY <1>2, <2>3 DEF Pump, Send, Sent
<1> QED BY <1>1, <1>2

LEMMA EnqueueSends == ASSUME LineType, NEW tx \in Fit, Enqueue(tx) PROVE Sent'
<1>1. Append(queue, tx) \in Seq(Fit) BY DEF LineType
<1>2. CASE state = "destroyed" \/ inflight # None BY <1>2 DEF Enqueue, Sent
<1>3. CASE ~ (state = "destroyed" \/ inflight # None)
  <2>1. Pump(Append(queue, tx)) BY <1>3 DEF Enqueue
  <2> QED BY <1>1, <2>1, PumpSends
<1> QED BY <1>2, <1>3

LEMMA SwitchSends ==
  ASSUME LineType, Single, inflight # None, NEW maps, SwitchOrFinish("error", maps)
  PROVE  Sent' /\ Ids' \subseteq Ids
<1> DEFINE next == [inflight EXCEPT !.dialect = @ + 1]
<1>1. CASE inflight.dialect < Len(Protocols) /\ Sendable(next) # {}
  <2>1. Send(Started(next), queue) BY <1>1 DEF SwitchOrFinish
  <2>2. inflight \in Fit BY DEF LineType
  <2>3. /\ next \in Tx /\ next.kind = inflight.kind /\ next.key = inflight.key
        /\ next.call = inflight.call /\ next.origin = inflight.origin /\ Id(next) = Id(inflight)
    BY <1>1, <2>2, Constants DEF Fit, Tx, Id
  <2> HIDE DEF next
  <2>4. Started(next) \in Fit /\ Id(Started(next)) = Id(inflight)
    BY <1>1, <2>2, <2>3, StartedFit DEF Fit
  <2>5. Started(next) # None BY <2>4, NoneAssumption DEF Fit
  <2>6. Ids' = Ids BY <2>1, <2>4, SendLine
  <2> QED BY <2>1, <2>5, <2>6 DEF Send, Sent
<1>2. CASE ~(inflight.dialect < Len(Protocols) /\ Sendable(next) # {})
  <2>1. Pump(queue) BY <1>2 DEF SwitchOrFinish, Finish
  <2> QED BY <2>1, PumpSends, FinishLine DEF LineType
<1> QED BY <1>1, <1>2

\* A callback changes no record but to lose it.
LEMMA CallbackRecords ==
  ASSUME NEW maps \in Table, NEW tx \in Fit, NEW outcome, Callback(tx, outcome, maps)
  PROVE  \A k \in Key : mappings'[k] # None =>
           /\ maps[k] # None /\ mappings'[k].nonce = maps[k].nonce
           /\ mappings'[k].state = "ACTIVE" => mappings'[k] = maps[k]
<1> DEFINE fails == /\ tx.origin = "renew" /\ outcome # "ok" /\ maps[tx.key] # None
                    /\ maps[tx.key].nonce = tx.nonce
<1>1. CASE fails
  <2>1. tx.key \in Key BY <1>1 DEF Fit
  <2>2. maps[tx.key] \in Mapping BY <1>1, <2>1 DEF Table
  <2> DEFINE lost == [maps[tx.key] EXCEPT !.state = "LOST"]
  <2>3. lost.state = "LOST" /\ lost.nonce = maps[tx.key].nonce BY <2>2 DEF Mapping
  <2>4. mappings' = [maps EXCEPT ![tx.key] = lost] BY <1>1 DEF Callback
  <2> HIDE DEF lost
  <2>5. \A k \in Key : mappings'[k] = IF k = tx.key THEN lost ELSE maps[k]
    BY <2>1, <2>4 DEF Table
  <2> QED BY <1>1, <2>3, <2>5
<1>2. CASE ~fails BY <1>2 DEF Callback
<1> QED BY <1>1, <1>2

LEMMA ClaimsGrow ==
  ASSUME NEW ids, NEW maps, NEW ids2, NEW maps2, NEW i, ids2 \subseteq ids \cup {i},
         \A k \in Key : maps2[k] # None =>
           \/ maps[k] # None /\ maps2[k].nonce = maps[k].nonce
           \/ <<k, maps2[k].nonce>> \in ClaimsOf(ids, maps)
  PROVE  /\ ClaimsOf(ids2, maps2) \subseteq ClaimsOf(ids, maps) \cup {<<i.key, i.nonce>>}
         /\ i.key = None \/ <<i.key, i.nonce>> \in ClaimsOf(ids, maps) \/ ids2 \subseteq ids
              => ClaimsOf(ids2, maps2) \subseteq ClaimsOf(ids, maps)
<1>1. ASSUME NEW k \in Key, maps2[k] # None
      PROVE  <<k, maps2[k].nonce>> \in ClaimsOf(ids, maps)
  BY <1>1 DEF ClaimsOf
<1>2. ASSUME NEW id \in ids2, id.key # None
      PROVE  <<id.key, id.nonce>> \in ClaimsOf(ids, maps) \/ id = i
  BY <1>2 DEF ClaimsOf
<1>3. \A c \in ClaimsOf(ids2, maps2) :
        \/ \E k \in Key : maps2[k] # None /\ c = <<k, maps2[k].nonce>>
        \/ \E id \in ids2 : id.key # None /\ c = <<id.key, id.nonce>>
  BY DEF ClaimsOf
<1>4. \A id \in ids : id.key # None => <<id.key, id.nonce>> \in ClaimsOf(ids, maps)
  BY DEF ClaimsOf
<1> QED BY <1>1, <1>2, <1>3, <1>4

\* No record is added, given a nonce or made ACTIVE.
Records ==
  \A k \in Key : mappings'[k] # None =>
    /\ mappings[k] # None /\ mappings'[k].nonce = mappings[k].nonce
    /\ mappings'[k].state = "ACTIVE" =>
         mappings[k].state = "ACTIVE" /\ mappings'[k].ext = mappings[k].ext

LEMMA CallMoves ==
  ASSUME IInv, NewCall, NEW tx \in Fit, tx.call = calls', Enqueue(tx), epoch' = epoch, Records,
         \/ tx.key = None
         \/ tx.key \in Key /\ tx.nonce = calls'
         \/ <<tx.key, tx.nonce>> \in Claims
  PROVE  Moved
<1>1. calls' = calls + 1 /\ \A id \in Ids : id.call # calls' BY FreshCall
<1>2. Sent' /\ Ids' = Ids \cup {Id(tx)}
  BY <1>1, EnqueueSends, EnqueueLine DEF IInv
<1>3. Id(tx).key = tx.key /\ Id(tx).nonce = tx.nonce BY DEF Id
<1>4. /\ Claims' \subseteq Claims \cup {<<tx.key, tx.nonce>>}
      /\ tx.key = None \/ <<tx.key, tx.nonce>> \in Claims => Claims' \subseteq Claims
  BY <1>2, <1>3, ClaimsGrow DEF Claims, Records
<1>5. \E k \in Key \cup {None} : Claims' \subseteq Claims \cup {<<k, calls'>>}
  <2>1. tx.key \in Key \cup {None} BY DEF Fit, Tx
  <2> QED BY <1>4, <2>1
<1> QED BY <1>1, <1>2, <1>5 DEF Moved, Records

LEMMA TimerMoves ==
  ASSUME IInv, NEW tx \in Fit, tx.call = 0, Enqueue(tx), epoch' = epoch, calls' = calls, Records,
         <<tx.key, tx.nonce>> \in Claims
  PROVE  Moved
<1>1. Sent' /\ Ids' = Ids \cup {Id(tx)} BY EnqueueSends, EnqueueLine DEF IInv
<1>2. Id(tx).key = tx.key /\ Id(tx).nonce = tx.nonce BY DEF Id
<1>3. Claims' \subseteq Claims BY <1>1, <1>2, ClaimsGrow DEF Claims, Records
<1> QED BY <1>1, <1>3 DEF Moved, Records

LEMMA LeaveMoves ==
  ASSUME Sent', Ids' \subseteq Ids, epoch' = epoch, calls' = calls, Records
  PROVE  Moved
<1>1. \A i : Ids' \subseteq Ids \cup {i} OBVIOUS
<1>2. Claims' \subseteq Claims BY <1>1, ClaimsGrow DEF Claims, Records
<1> QED BY <1>2 DEF Moved, Records

LEMMA SwitchRecords ==
  ASSUME LineType, inflight # None, NEW maps \in Table, SwitchOrFinish("error", maps)
  PROVE  \A k \in Key : mappings'[k] # None =>
           /\ maps[k] # None /\ mappings'[k].nonce = maps[k].nonce
           /\ mappings'[k].state = "ACTIVE" => mappings'[k] = maps[k]
<1>1. mappings' = maps \/ Callback(inflight, "error", maps) BY DEF SwitchOrFinish, Finish
<1>2. inflight \in Fit BY DEF LineType
<1> QED BY <1>1, <1>2, CallbackRecords

LEMMA RecordClaim ==
  ASSUME NEW k \in Key, mappings[k] # None
  PROVE  <<k, mappings[k].nonce>> \in Claims
BY DEF Claims, ClaimsOf

LEMMA MapMoves ==
  ASSUME IInv, NEW k \in Key, NEW ext \in External \cup {NoPort}, NEW exact \in BOOLEAN,
         NEW permanent \in BOOLEAN, Map(k, ext, exact, permanent)
  PROVE  Moved
<1> DEFINE tx == NewTx("map", k, ext, permanent, calls', "call", calls', exact)
<1>1. NewCall /\ Enqueue(tx) /\ mappings' = mappings /\ epoch' = epoch BY DEF Map
<1>2. calls' \in Call /\ calls' # 0 BY <1>1, FreshCall DEF Call
<1>3. tx \in Fit /\ tx.call = calls' /\ tx.key = k /\ tx.nonce = calls'
  <2>1. /\ "map" \in {"map", "probe", "address"} /\ k \in Key \cup {None}
        /\ "call" \in {"call", "renew", "recreate"} /\ calls' \in Call \cup {0}
        /\ "map" # "address"
    BY <1>2
  <2>2. tx \in Fit BY <1>2, <2>1, NewTxFit, Zenon
  <2> QED BY <2>2 DEF NewTx
<1> HIDE DEF tx
<1> QED BY <1>1, <1>3, CallMoves DEF Records

LEMMA UnmapMoves == ASSUME IInv, NEW k \in Key, Unmap(k) PROVE Moved
<1> DEFINE nonce == IF mappings[k] = None THEN calls' ELSE mappings[k].nonce
           tx    == NewTx("map", k, NoPort, TRUE, nonce, "call", calls', FALSE)
<1>1. /\ NewCall /\ Enqueue(tx) /\ epoch' = epoch
      /\ mappings' = IF mappings[k] = None THEN mappings
                     ELSE [mappings EXCEPT ![k].timer = "dropped"]
  BY DEF Unmap
<1>2. calls' \in Call /\ calls' # 0 /\ mappings \in Table
  BY <1>1, FreshCall DEF Call, IInv, RestType
<1>3. nonce \in Call BY <1>2 DEF Table, Mapping
<1>4. nonce = calls' \/ <<k, nonce>> \in Claims BY RecordClaim
<1> HIDE DEF nonce
<1>5. tx \in Fit /\ tx.call = calls' /\ tx.key = k /\ tx.nonce = nonce
  BY <1>2, <1>3, NewTxFit DEF NewTx
<1> HIDE DEF tx
<1>6. Records
  <2>1. mappings[k] # None =>
          LET new == [mappings[k] EXCEPT !.timer = "dropped"] IN
          /\ new.nonce = mappings[k].nonce /\ new.state = mappings[k].state
          /\ new.ext = mappings[k].ext
    BY <1>2 DEF Table, Mapping
  <2>2. \A j \in Key : mappings'[j] = IF j = k /\ mappings[k] # None
                                       THEN [mappings[k] EXCEPT !.timer = "dropped"] ELSE mappings[j]
    BY <1>1, <1>2 DEF Table
  <2> QED BY <2>1, <2>2 DEF Records
<1> QED BY <1>1, <1>4, <1>5, <1>6, CallMoves

LEMMA ProbeMoves == ASSUME IInv, Probe PROVE Moved
<1> DEFINE tx == NewTx("probe", None, NoPort, FALSE, calls', "call", calls', FALSE)
<1>1. NewCall /\ Enqueue(tx) /\ mappings' = mappings /\ epoch' = epoch BY DEF Probe
<1>2. calls' \in Call /\ calls' # 0 BY <1>1, FreshCall DEF Call
<1>3. tx \in Fit /\ tx.call = calls' /\ tx.key = None BY <1>2, InquiryFit
<1> HIDE DEF tx
<1> QED BY <1>1, <1>3, CallMoves DEF Records

LEMMA GetExternalIpMoves == ASSUME IInv, GetExternalIp PROVE Moved
<1> DEFINE tx == NewTx("address", None, NoPort, FALSE, calls', "call", calls', FALSE)
<1>1. /\ NewCall /\ Enqueue(tx) /\ mappings' = mappings /\ epoch' = epoch
      /\ \E d \in DOMAIN Protocols : Protocols[d] = "natpmp"
  BY DEF GetExternalIp
<1>2. calls' \in Call /\ calls' # 0 BY <1>1, FreshCall DEF Call
<1>3. tx \in Fit /\ tx.call = calls' /\ tx.key = None BY <1>1, <1>2, InquiryFit
<1> HIDE DEF tx
<1> QED BY <1>1, <1>3, CallMoves DEF Records

LEMMA CancelQueuedMoves == ASSUME IInv, NEW i \in DOMAIN queue, CancelQueued(i) PROVE Moved
<1> DEFINE q == RemoveAt(queue, i)
<1>1. /\ Callback(queue[i], "cancelled", mappings) /\ UNCHANGED <<epoch, calls>>
      /\ queue[i].call # 0
      /\ IF state = "destroyed" \/ inflight # None
         THEN queue' = q /\ inflight' = inflight /\ out' = None ELSE Pump(q)
  BY DEF CancelQueued
<1>2. queue[i] \in Fit /\ mappings \in Table BY DEF IInv, LineType, RestType
<1>3. q \in Seq(Fit) /\ Apart(q) /\ IdsOf(q) \subseteq IdsOf(queue)
  BY <1>1, RemoveLine DEF IInv, LineType, Single
<1> HIDE DEF q
<1>4. Sent' /\ Ids' \subseteq Ids
  <2>1. CASE state = "destroyed" \/ inflight # None BY <1>1, <1>3, <2>1 DEF Sent, Ids
  <2>2. CASE ~(state = "destroyed" \/ inflight # None)
    <3>1. Pump(q) BY <1>1, <2>2
    <3> QED BY <1>3, <3>1, PumpLine, PumpSends DEF Ids
  <2> QED BY <2>1, <2>2
<1>5. Records BY <1>1, <1>2, CallbackRecords DEF Records
<1> QED BY <1>1, <1>4, <1>5, LeaveMoves

LEMMA CancelInflightMoves == ASSUME IInv, CancelInflight PROVE Moved
<1>1. /\ Callback(inflight, "cancelled", mappings) /\ Pump(queue) /\ inflight # None
      /\ calls' = calls /\ epoch' = epoch
  BY DEF CancelInflight, Finish
<1>2. inflight \in Fit /\ mappings \in Table /\ queue \in Seq(Fit) /\ LineType /\ Single
  BY <1>1 DEF IInv, LineType, RestType
<1>3. Sent' /\ Ids' \subseteq Ids BY <1>1, <1>2, FinishLine, PumpSends
<1>4. Records BY <1>1, <1>2, CallbackRecords DEF Records
<1> QED BY <1>1, <1>3, <1>4, LeaveMoves

LEMMA CancelAllMoves == ASSUME IInv, CancelAll PROVE Moved
<1> DEFINE drops(k, origin) == \E tx \in Pending : tx.origin = origin /\ tx.key = k
                                                   /\ tx.nonce = mappings[k].nonce
<1>1. /\ mappings' = [k \in Key |->
            IF mappings[k] = None THEN None
            ELSE [mappings[k] EXCEPT
                    !.state = IF drops(k, "renew") THEN "LOST" ELSE @,
                    !.timer = IF drops(k, "recreate") /\ @ = "off" THEN "dropped" ELSE @]]
      /\ UNCHANGED <<epoch, calls>>
  BY DEF CancelAll
<1> HIDE DEF drops
<1>2. Sent' /\ Ids' \subseteq Ids
  <2>1. queue' = <<>> /\ inflight' = None /\ out' = None BY DEF CancelAll
  <2> QED BY <2>1 DEF Sent, Ids, IdsOf
<1>3. Records
  <2> SUFFICES ASSUME NEW k \in Key, mappings'[k] # None
               PROVE  /\ mappings[k] # None /\ mappings'[k].nonce = mappings[k].nonce
                      /\ mappings'[k].state = "ACTIVE" =>
                           mappings[k].state = "ACTIVE" /\ mappings'[k].ext = mappings[k].ext
    BY DEF Records
  <2>1. mappings[k] # None /\ mappings[k] \in Mapping BY <1>1 DEF IInv, RestType, Table
  <2> QED BY <1>1, <2>1 DEF Mapping
<1> QED BY <1>1, <1>2, <1>3, LeaveMoves

LEMMA DestroyMoves == ASSUME IInv, Destroy PROVE Moved
<1>1. /\ mappings' = [k \in Key |-> IF mappings[k] = None THEN None
                                    ELSE [mappings[k] EXCEPT !.timer = "off"]]
      /\ queue' = <<>> /\ inflight' = None /\ out' = None
      /\ UNCHANGED <<epoch, calls>>
  BY DEF Destroy
<1>2. Sent' /\ Ids' \subseteq Ids BY <1>1 DEF Sent, Ids, IdsOf
<1>3. Records
  <2>1. \A r \in Mapping : LET new == [r EXCEPT !.timer = "off"] IN
          new.nonce = r.nonce /\ new.state = r.state /\ new.ext = r.ext
    BY DEF Mapping
  <2> QED BY <1>1, <2>1 DEF Records, IInv, RestType, Table
<1> QED BY <1>1, <1>2, <1>3, LeaveMoves

LEMMA CancelDroppedMoves == ASSUME IInv, NEW c \in Call, CancelDropped(c) PROVE Moved
<1>1. out' = None /\ UNCHANGED <<queue, inflight, mappings, epoch, calls>> BY DEF CancelDropped
<1>2. Sent' /\ Ids' = Ids BY <1>1 DEF Sent, Ids, IdsOf
<1> QED BY <1>1, <1>2, LeaveMoves DEF Records

LEMMA RetransmitMoves == ASSUME IInv, Retransmit PROVE Moved
<1>1. /\ inflight # None /\ inflight \in Fit /\ epoch' = epoch /\ calls' = calls
      /\ LineType /\ Single /\ mappings \in Table
  BY DEF Retransmit, IInv, LineType, RestType
<1>2. CASE inflight.attempt < Attempts(inflight)
  <2> DEFINE tx == [inflight EXCEPT !.attempt = @ + 1]
  <2>1. Send(tx, queue) /\ mappings' = mappings BY <1>2 DEF Retransmit
  <2>2. inflight.attempt + 1 \in 0 .. AttemptBound BY <1>1, <1>2, Constants DEF Fit, Tx
  <2>3. tx \in Tx /\ Id(tx) = Id(inflight) BY <1>1, <2>2 DEF Fit, Tx, Id
  <2> HIDE DEF tx
  <2>4. tx # None BY <2>3, NoneAssumption
  <2>5. Sent' /\ Ids' = Ids BY <1>1, <2>1, <2>3, <2>4 DEF Send, Sent, Ids
  <2> QED BY <1>1, <2>1, <2>5, LeaveMoves DEF Records
<1>3. CASE ~ (inflight.attempt < Attempts(inflight))
  <2>1. SwitchOrFinish("error", mappings) BY <1>3 DEF Retransmit
  <2>2. Records BY <1>1, <2>1, SwitchRecords DEF Records
  <2> QED BY <1>1, <2>1, <2>2, SwitchSends, LeaveMoves
<1> QED BY <1>2, <1>3

LEMMA RenewMoves == ASSUME IInv, NEW k \in Key, RenewFires(k) PROVE Moved
<1> DEFINE old == mappings[k]
           new == [old EXCEPT !.timer = "off", !.state = "RENEWING"]
           tx  == NewTx("map", k, old.ext, FALSE, old.nonce, "renew", 0, old.exact)
<1>1. mappings \in Table /\ old \in Mapping /\ old # None
  BY DEF RenewFires, IInv, RestType, Table
<1>2. mappings' = [mappings EXCEPT ![k] = new] /\ Enqueue(tx) /\ UNCHANGED <<epoch, calls>>
  <2>1. mappings' = [mappings EXCEPT ![k].timer = "off", ![k].state = "RENEWING"]
    BY DEF RenewFires
  <2>2. mappings' = [mappings EXCEPT ![k] = new] BY <1>1, <2>1 DEF Table
  <2> QED BY <2>2 DEF RenewFires
<1>3. new.state = "RENEWING" /\ new.nonce = old.nonce BY <1>1 DEF Mapping
<1>4. tx \in Fit /\ tx.call = 0 /\ tx.key = k /\ tx.nonce = old.nonce
  <2>1. old.ext \in External \cup {NoPort} /\ old.nonce \in Call /\ old.exact \in BOOLEAN
    BY <1>1 DEF Mapping
  <2>2. /\ "map" \in {"map", "probe", "address"} /\ k \in Key \cup {None}
        /\ "renew" \in {"call", "renew", "recreate"} /\ 0 \in Call \cup {0}
        /\ "map" # "address" /\ "renew" # "call" /\ FALSE \in BOOLEAN /\ 0 = 0
    OBVIOUS
  <2>3. tx \in Fit BY <2>1, <2>2, NewTxFit, Zenon
  <2> QED BY <2>3 DEF NewTx
<1>5. <<k, old.nonce>> \in Claims BY <1>1, RecordClaim
<1> HIDE DEF new, tx, old
<1>6. \A j \in Key : mappings'[j] = IF j = k THEN new ELSE mappings[j]
  BY <1>1, <1>2 DEF Table
<1>7. Records BY <1>1, <1>3, <1>6 DEF Records, old
<1> QED BY <1>2, <1>4, <1>5, <1>7, TimerMoves

LEMMA RecreateMoves == ASSUME IInv, NEW k \in Key, RecreateFires(k) PROVE Moved
<1> DEFINE old == mappings[k]
           new == [old EXCEPT !.timer = "off"]
           tx  == NewTx("map", k, old.ext, FALSE, old.nonce, "recreate", 0, FALSE)
<1>1. mappings \in Table /\ old \in Mapping /\ old # None
  BY DEF RecreateFires, IInv, RestType, Table
<1>2. mappings' = [mappings EXCEPT ![k] = new] /\ Enqueue(tx) /\ UNCHANGED <<epoch, calls>>
  BY DEF RecreateFires
<1>3. new.state = old.state /\ new.nonce = old.nonce /\ new.ext = old.ext BY <1>1 DEF Mapping
<1>4. tx \in Fit /\ tx.call = 0 /\ tx.key = k /\ tx.nonce = old.nonce BY <1>1, RecreationFit
<1>5. <<k, old.nonce>> \in Claims BY <1>1, RecordClaim
<1> HIDE DEF new, tx, old
<1>6. \A j \in Key : mappings'[j] = IF j = k THEN new ELSE mappings[j]
  BY <1>1, <1>2 DEF Table
<1>7. Records BY <1>1, <1>3, <1>6 DEF Records, old
<1> QED BY <1>2, <1>4, <1>5, <1>7, TimerMoves

LEMMA ClientMoves == IInv /\ (CallStep \/ TimerStep) => Moved
<1> SUFFICES ASSUME IInv, CallStep \/ TimerStep PROVE Moved OBVIOUS
<1>1. CASE CallStep
  <2>1. ASSUME NEW k \in Key, NEW ext \in External \cup {NoPort}, NEW exact \in BOOLEAN,
               NEW permanent \in BOOLEAN, Map(k, ext, exact, permanent)
        PROVE  Moved
    BY <2>1, MapMoves
  <2> QED BY <1>1, <2>1, UnmapMoves, ProbeMoves, GetExternalIpMoves, CancelQueuedMoves,
             CancelInflightMoves, CancelDroppedMoves, CancelAllMoves, DestroyMoves DEF CallStep
<1>2. CASE TimerStep BY <1>2, RetransmitMoves, RenewMoves, RecreateMoves DEF TimerStep
<1> QED BY <1>1, <1>2

\* What a reply does to the records: one becomes or stays ACTIVE only on its word,
\* or because no restart was noticed.
Heard(m) ==
  /\ Sent'
  /\ epoch' = [epoch EXCEPT ![m.dialect] = m.boot] /\ calls' = calls
  /\ Claims' \subseteq Claims
  /\ \A k \in Key : mappings'[k] # None /\ mappings'[k].state = "ACTIVE" =>
       \/ /\ ~Restarted(m.dialect, m.boot)
          /\ mappings[k] # None /\ mappings[k].state = "ACTIVE"
          /\ mappings'[k].ext = mappings[k].ext
       \/ /\ m.kind = "map" /\ m.result = "ok" /\ mappings'[k].ext = m.ext
          /\ IF m.dialect = "pcp" THEN <<k, m.nonce>> \in Claims ELSE m.key = k

LEMMA RestartRecords ==
  ASSUME mappings \in Table, NEW m
  PROVE  LET maps == IF Restarted(m.dialect, m.boot) THEN AfterRestart ELSE mappings IN
         \A k \in Key : maps[k] # None =>
           /\ mappings[k] # None /\ maps[k].nonce = mappings[k].nonce
           /\ maps[k].state = "ACTIVE" =>
                ~Restarted(m.dialect, m.boot) /\ maps[k] = mappings[k]
<1>1. \A r \in Mapping : LET new == [r EXCEPT !.state = "LOST", !.timer = "recreate"] IN
        new.state = "LOST" /\ new.nonce = r.nonce
  BY DEF Mapping
<1>2. \A k \in Key : AfterRestart[k] # None =>
        mappings[k] # None /\ AfterRestart[k].nonce = mappings[k].nonce
        /\ AfterRestart[k].state = "LOST"
  BY <1>1 DEF AfterRestart, Table
<1> QED BY <1>2

\* A reply that answers the request in flight is about its port.
LEMMA AnswerAbout ==
  ASSUME LineType, NEW m \in Replies, Answered(m), m.result = "ok", inflight.kind = "map"
  PROVE  /\ m.kind = "map" /\ inflight.key \in Key
         /\ <<inflight.key, inflight.nonce>> \in Claims
         /\ IF m.dialect = "pcp" THEN m.nonce = inflight.nonce ELSE m.key = inflight.key
<1>1. inflight # None /\ inflight \in Fit /\ Matches(inflight, m) BY DEF Answered, LineType
<1>2. m.dialect \in {"pcp", "natpmp"} BY DEF Replies, Reply, Dialect
<1>3. m.kind = "map" /\ (IF m.dialect = "pcp" THEN m.nonce \in {0, inflight.nonce}
                         ELSE m.key \in {None, inflight.key})
  BY <1>1 DEF Matches
<1>4. IF m.dialect = "pcp" THEN m.nonce # 0 ELSE m.key # None BY <1>3 DEF Replies
<1>5. inflight.key \in Key BY <1>1 DEF Fit
<1>6. <<inflight.key, inflight.nonce>> \in Claims
  <2>1. Id(inflight) \in Ids BY <1>1 DEF Ids
  <2>2. Id(inflight).key = inflight.key /\ Id(inflight).nonce = inflight.nonce BY DEF Id
  <2>3. inflight.key # None BY <1>5, NoneAssumption
  <2> QED BY <2>1, <2>2, <2>3 DEF Claims, ClaimsOf
<1> QED BY <1>3, <1>4, <1>5, <1>6

LEMMA ReceiveMoves == ASSUME IInv, NEW m \in Replies, Receive(m) PROVE Heard(m)
<1> DEFINE maps == IF Restarted(m.dialect, m.boot) THEN AfterRestart ELSE mappings
<1>1. /\ calls' = calls /\ epoch' = [epoch EXCEPT ![m.dialect] = m.boot]
      /\ \/ /\ mappings' = maps /\ out' = None
            /\ UNCHANGED <<queue, inflight, answers>>
         \/ Rejected(m) /\ SwitchOrFinish("error", maps)
         \/ Answered(m) /\ IF m.result = "ok" THEN Succeed(m, maps) ELSE Finish("error", maps)
  BY DEF Receive
<1>2. /\ maps \in Table
      /\ \A k \in Key : maps[k] # None =>
           /\ mappings[k] # None /\ maps[k].nonce = mappings[k].nonce
           /\ maps[k].state = "ACTIVE" =>
                ~Restarted(m.dialect, m.boot) /\ maps[k] = mappings[k]
  BY AfterRestartTended, RestartRecords DEF IInv, RestType
<1> HIDE DEF maps
<1>3. LineType /\ Single /\ queue \in Seq(Fit) BY DEF IInv, LineType
<1>4. ASSUME Sent', Ids' \subseteq Ids,
             \A k \in Key : mappings'[k] # None =>
               /\ maps[k] # None /\ mappings'[k].nonce = maps[k].nonce
               /\ mappings'[k].state = "ACTIVE" => mappings'[k] = maps[k]
      PROVE  Heard(m)
  <2>1. \A k \in Key : mappings'[k] # None =>
          mappings[k] # None /\ mappings'[k].nonce = mappings[k].nonce
    BY <1>2, <1>4
  <2>2. \A i : Ids' \subseteq Ids \cup {i} BY <1>4
  <2>3. Claims' \subseteq Claims BY <1>4, <2>1, <2>2, ClaimsGrow DEF Claims
  <2> QED BY <1>1, <1>2, <1>4, <2>3 DEF Heard
<1>5. CASE mappings' = maps /\ out' = None /\ UNCHANGED <<queue, inflight, answers>>
  <2>1. Sent' /\ Ids' \subseteq Ids BY <1>5 DEF Sent, Ids, IdsOf
  <2> QED BY <1>4, <1>5, <2>1
<1>6. CASE Rejected(m) /\ SwitchOrFinish("error", maps)
  <2>1. inflight # None BY <1>6 DEF Rejected
  <2> QED BY <1>2, <1>3, <1>4, <1>6, <2>1, SwitchSends, SwitchRecords
<1>7. CASE Answered(m) /\ IF m.result = "ok" THEN Succeed(m, maps) ELSE Finish("error", maps)
  <2>1. inflight # None /\ inflight \in Fit BY <1>3, <1>7 DEF Answered, LineType
  <2>2. ASSUME NEW outcome, NEW then \in Table, Finish(outcome, then)
        PROVE  /\ Sent' /\ Ids' \subseteq Ids
               /\ \A k \in Key : mappings'[k] # None =>
                    /\ then[k] # None /\ mappings'[k].nonce = then[k].nonce
                    /\ mappings'[k].state = "ACTIVE" => mappings'[k] = then[k]
    <3>1. Callback(inflight, outcome, then) /\ Pump(queue) BY <2>2 DEF Finish
    <3> QED BY <1>3, <2>1, <3>1, FinishLine, PumpSends, CallbackRecords
  <2>3. ASSUME NEW outcome, Finish(outcome, maps) PROVE Heard(m) BY <1>2, <1>4, <2>2, <2>3
  <2>4. CASE ~ (m.result = "ok" /\ inflight.kind = "map" /\ ~WrongPort(inflight, m))
    BY <1>7, <2>3, <2>4 DEF Succeed
  <2>5. CASE m.result = "ok" /\ inflight.kind = "map" /\ ~WrongPort(inflight, m)
    <3> DEFINE new  == IF inflight.delete THEN None ELSE Granted(maps, inflight, m)
               then == [maps EXCEPT ![inflight.key] = new]
    <3>1. Finish("ok", then) BY <1>7, <2>5 DEF Succeed
    <3>2. /\ m.kind = "map" /\ inflight.key \in Key
          /\ <<inflight.key, inflight.nonce>> \in Claims
          /\ IF m.dialect = "pcp" THEN m.nonce = inflight.nonce ELSE m.key = inflight.key
      BY <1>3, <1>7, <2>5, AnswerAbout
    <3>3. /\ new = None \/ new \in Mapping
          /\ new # None =>
               /\ new.ext = m.ext
               /\ new.nonce = inflight.nonce
                  \/ (maps[inflight.key] # None /\ new.nonce = maps[inflight.key].nonce)
      <4>1. m \in Reply /\ inflight \in Tx BY <2>1 DEF Replies, Fit
      <4>2. Granted(maps, inflight, m) \in Mapping BY <1>2, <3>2, <4>1, GrantedMapping
      <4> QED BY <4>2 DEF Granted
    <3> HIDE DEF new
    <3>4. then \in Table /\ \A k \in Key : then[k] = IF k = inflight.key THEN new ELSE maps[k]
      BY <1>2, <3>2, <3>3 DEF Table
    <3> HIDE DEF then
    <3>5. /\ Sent' /\ Ids' \subseteq Ids
          /\ \A k \in Key : mappings'[k] # None =>
               /\ then[k] # None /\ mappings'[k].nonce = then[k].nonce
               /\ mappings'[k].state = "ACTIVE" => mappings'[k] = then[k]
      BY <2>2, <3>1, <3>4
    <3>6. \A k \in Key : maps[k] # None => <<k, maps[k].nonce>> \in Claims
      BY <1>2, RecordClaim
    <3>7. \A k \in Key : mappings'[k] # None => <<k, mappings'[k].nonce>> \in Claims
      BY <3>2, <3>3, <3>4, <3>5, <3>6
    <3>8. Claims' \subseteq Claims
      <4>1. \A i : Ids' \subseteq Ids \cup {i} BY <3>5
      <4> QED BY <3>5, <3>7, <4>1, ClaimsGrow DEF Claims
    <3>9. ASSUME NEW k \in Key, mappings'[k] # None, mappings'[k].state = "ACTIVE"
          PROVE  \/ /\ ~Restarted(m.dialect, m.boot)
                    /\ mappings[k] # None /\ mappings[k].state = "ACTIVE"
                    /\ mappings'[k].ext = mappings[k].ext
                 \/ /\ m.kind = "map" /\ m.result = "ok" /\ mappings'[k].ext = m.ext
                    /\ IF m.dialect = "pcp" THEN <<k, m.nonce>> \in Claims ELSE m.key = k
      <4>1. then[k] # None /\ mappings'[k] = then[k] BY <3>5, <3>9
      <4>2. CASE k = inflight.key BY <2>5, <3>2, <3>3, <3>4, <4>1, <4>2
      <4>3. CASE k # inflight.key BY <1>2, <3>4, <3>9, <4>1, <4>3
      <4> QED BY <4>2, <4>3
    <3> QED BY <1>1, <3>5, <3>8, <3>9 DEF Heard
  <2> QED BY <2>4, <2>5
<1> QED BY <1>1, <1>5, <1>6, <1>7

-----------------------------------------------------------------------------
(* The gateway of the composition is an instance of PMPServer, and what    *)
(* PMPServerProofs proves of it is taken over: the definitions of the two  *)
(* instances are the same, and PMPServer's assumptions hold of the         *)
(* composition's constants.                                                *)

Gate == INSTANCE PMPServerProofs WITH
  Client <- {Host}, InternalPort <- Key,
  MaxMappings <- 2 * Cardinality(Key), MaxPerClient <- 2 * Cardinality(Key),
  MinLifetime <- Lease, MaxLifetime <- Lease,
  Lifetime <- {Lease}, AllowAll <- TRUE, Async <- FALSE, Steer <- FALSE, Slot <- {},
  CountBound <- 2 * Cardinality(Key), state <- gateway

LEMMA SameKeys ==
  /\ Server!ExternalKey = Gate!ExternalKey /\ Server!InternalKey = Gate!InternalKey
  /\ Server!ExternalPort = Gate!ExternalPort /\ Server!NoPort = Gate!NoPort
  /\ Server!Caps = Gate!Caps /\ Server!Verdict = Gate!Verdict /\ Server!EmptyTable = Gate!EmptyTable
BY DEF Server!ExternalKey, Gate!ExternalKey, Server!InternalKey, Gate!InternalKey,
       Server!ExternalPort, Gate!ExternalPort, Server!NoPort, Gate!NoPort, Server!Caps, Gate!Caps,
       Server!Verdict, Gate!Verdict, Server!Protocol, Gate!Protocol,
       Server!EmptyTable, Gate!EmptyTable

LEMMA GateAssumptions ==
  /\ Gate!ExternalPort \subseteq Nat \ {Gate!NoPort} /\ Key \subseteq Nat
  /\ Gate!IsFiniteSet(Gate!ExternalPort)
  /\ NoEntry \notin Gate!Entry /\ Idle \notin Gate!Waiting
  /\ 2 * Cardinality(Key) \in Nat /\ Lease \in Nat /\ {Lease} \subseteq Nat \ {0}
<1>1. Gate!ExternalPort = External /\ Gate!NoPort = NoPort
  BY SystemAssumption DEF Gate!ExternalPort, Gate!NoPort, NoPort
<1>2. Gate!Entry = Server!Entry /\ Gate!Waiting = Server!Waiting
  BY SameKeys DEF Gate!Entry, Server!Entry, Gate!Waiting, Server!Waiting, Gate!Request,
                  Server!Request, Gate!Protocol, Server!Protocol
<1>3. Cardinality(Key) \in Nat BY SystemAssumption, FS_CardinalityType
<1>4. IsFiniteSet(External) => Gate!IsFiniteSet(External)
  BY DEF Gate!IsFiniteSet, IsFiniteSet
<1> QED BY <1>1, <1>2, <1>3, <1>4, SystemAssumption, SessionAssumption

LEMMA SameTables ==
  ASSUME NEW t, NEW k, NEW e, NEW c
  PROVE  /\ Server!Live(t) = Gate!Live(t)
         /\ Server!Remove(t, k) = Gate!Remove(t, k)
         /\ Server!Store(t, k, e) = Gate!Store(t, k, e)
         /\ Server!IsFree(t, k, c) = Gate!IsFree(t, k, c)
<1>1. Server!Live(t) = Gate!Live(t) BY SameKeys DEF Server!Live, Gate!Live
<1>2. \A u : Server!InternalOf(u, k) = Gate!InternalOf(u, k) BY DEF Server!InternalOf, Gate!InternalOf
<1>3. \A u : Server!IndexAdd(u, k) = Gate!IndexAdd(u, k)
  BY <1>2 DEF Server!IndexAdd, Gate!IndexAdd
<1>4. \A u : Server!IndexRemove(u, k) = Gate!IndexRemove(u, k)
  BY <1>2, SameKeys DEF Server!IndexRemove, Gate!IndexRemove
<1>5. \A u : Server!Arm(u, k) = Gate!Arm(u, k) BY DEF Server!Arm, Gate!Arm
<1>6. Server!StoreNew(t, k, e) = Gate!StoreNew(t, k, e)
  BY <1>3, <1>5 DEF Server!StoreNew, Gate!StoreNew
<1>7. Server!StoreExisting(t, k, e) = Gate!StoreExisting(t, k, e)
  <2> DEFINE After(d) == [d EXCEPT !.mappings[k].iport = e.iport, !.mappings[k].lifetime = e.lifetime,
                                   !.timers = @ \ {k}]
             u == After(IF t.mappings[k].iport # e.iport THEN Server!IndexRemove(t, k) ELSE t)
             v == After(IF t.mappings[k].iport # e.iport THEN Gate!IndexRemove(t, k) ELSE t)
  <2>1. Server!StoreExisting(t, k, e)
          = Server!Arm(IF u.byInternal[Server!InternalOf(u, k)] = Server!NoPort
                       THEN Server!IndexAdd(u, k) ELSE u, k)
    BY DEF Server!StoreExisting
  <2>2. Gate!StoreExisting(t, k, e)
          = Gate!Arm(IF v.byInternal[Gate!InternalOf(v, k)] = Gate!NoPort
                     THEN Gate!IndexAdd(v, k) ELSE v, k)
    BY DEF Gate!StoreExisting
  <2> HIDE DEF After
  <2>3. u = v BY <1>4
  <2> HIDE DEF u, v
  <2> QED BY <1>2, <1>3, <1>5, <2>1, <2>2, <2>3, SameKeys
<1>8. Server!Remove(t, k) = Gate!Remove(t, k)
  BY <1>1, <1>4 DEF Server!Remove, Gate!Remove
<1>9. Server!Store(t, k, e) = Gate!Store(t, k, e) BY <1>1, <1>6, <1>7 DEF Server!Store, Gate!Store
<1>10. Server!IsFree(t, k, c) = Gate!IsFree(t, k, c)
  BY <1>1 DEF Server!IsFree, Gate!IsFree, Server!Companion, Gate!Companion
<1> QED BY <1>1, <1>8, <1>9, <1>10

LEMMA SameGrants ==
  ASSUME NEW t, NEW w, NEW p, NEW x, NEW c
  PROVE  /\ Server!Granted(t, w, p, x) = Gate!Granted(t, w, p, x)
         /\ Server!Allocations(t, p, x, c) = Gate!Allocations(t, p, x, c)
         /\ Server!HeldPort(t, w) = Gate!HeldPort(t, w)
         /\ Server!WithinQuota(t, w) = Gate!WithinQuota(t, w)
<1>1. \A a, b : Server!Least(a, b) = Gate!Least(a, b) BY DEF Server!Least, Gate!Least
<1>2. \A a : Server!ClampLifetime(a) = Gate!ClampLifetime(a)
   BY DEF Server!ClampLifetime, Gate!ClampLifetime
<1>3. /\ \A u, k, e : Server!Store(u, k, e) = Gate!Store(u, k, e)
      /\ \A u, k : Server!Remove(u, k) = Gate!Remove(u, k)
      /\ \A u, k, d : Server!IsFree(u, k, d) = Gate!IsFree(u, k, d)
  BY SameTables
<1>4. Server!Granted(t, w, p, x) = Gate!Granted(t, w, p, x)
  BY <1>1, <1>2, <1>3, SameKeys DEF Server!Granted, Gate!Granted
<1>5. Server!Allocations(t, p, x, c) = Gate!Allocations(t, p, x, c)
  BY <1>3, SameKeys DEF Server!Allocations, Gate!Allocations
<1>6. Server!HeldPort(t, w) = Gate!HeldPort(t, w) BY DEF Server!HeldPort, Gate!HeldPort
<1>7. Server!WithinQuota(t, w) = Gate!WithinQuota(t, w)
  BY <1>6, SameKeys DEF Server!WithinQuota, Gate!WithinQuota
<1> QED BY <1>4, <1>5, <1>6, <1>7

LEMMA SameSteps ==
  /\ Server!ResetEpoch => Gate!ResetEpoch
  /\ \A i : Server!DeleteOne(Host, "tcp", i) => Gate!DeleteOne(Host, "tcp", i)
  /\ \A r : Server!MapNow(r) => Gate!MapNow(r)
<1>1. Server!ResetEpoch => Gate!ResetEpoch BY SameKeys DEF Server!ResetEpoch, Gate!ResetEpoch
<1>2. ASSUME NEW i, Server!DeleteOne(Host, "tcp", i) PROVE Gate!DeleteOne(Host, "tcp", i)
  BY <1>2, SameKeys, SameTables DEF Server!DeleteOne, Gate!DeleteOne
<1>3. ASSUME NEW r, Server!MapNow(r) PROVE Gate!MapNow(r)
  <2>1. ASSUME NEW w, Server!Resolve(w) PROVE Gate!Resolve(w)
    <3>1. \A v : Server!Allowed(v) <=> Gate!Allowed(v) BY DEF Server!Allowed, Gate!Allowed
    <3>2. Server!Steers(w) = Gate!Steers(w)
      BY SameKeys DEF Server!Steers, Gate!Steers, Server!Proposed, Gate!Proposed
    <3>3. \A wanted : Server!Allocations(table, w.req.protocol, wanted, w.req.client)
                       = Gate!Allocations(table, w.req.protocol, wanted, w.req.client)
      BY SameGrants
    <3>4. \A port, ttl : Server!Granted(table, w, port, ttl) = Gate!Granted(table, w, port, ttl)
      BY SameGrants
    <3> QED BY <2>1, <3>1, <3>2, <3>3, <3>4, SameKeys DEF Server!Resolve, Gate!Resolve
  <2> QED BY <1>3, <2>1, SameGrants DEF Server!MapNow, Gate!MapNow
<1> QED BY <1>1, <1>2, <1>3

-----------------------------------------------------------------------------
(* The invariant of the composition.                                       *)

\* The ports the nonces belong to, those of the requests under way among them.
Owns == Claims \cup {<<p.key, p.nonce>> : p \in {r \in requests : r.nonce # 0}}

\* What an internal port was told holds, or it was given up.
Forwards(t, gone, k, ext) == k \in gone \/ (ext # NoPort /\ Held(t, k) = ext)

\* The internal port a reply is about.
About(m, k) == IF m.dialect = "pcp" THEN <<k, m.nonce>> \in Owns ELSE m.key = k

BootInv ==
  /\ boot \in Boot
  /\ \A d \in Dialect : epoch[d] # None => epoch[d] <= boot
  /\ (\A d \in Dialect : epoch[d] = None) => \A k \in Key : mappings[k] = None
  /\ \A m \in replies : m.boot <= boot

Shaped(p) ==
  /\ p \in Packet
  /\ p.kind = "map" => p.key \in Key
  /\ p.dialect = "pcp" => p.kind # "address"
  /\ p.dialect = "natpmp" => p.kind # "announce"
  /\ p.nonce # 0 <=> p.dialect = "pcp" /\ p.kind = "map"

RequestInv == \A p \in requests : Shaped(p) /\ (p.delete => p.key \in forgone)

\* A nonce belongs to one internal port, for as long as anybody holds it.
NonceInv ==
  /\ \A o \in Owns : o[2] \in 0 .. calls
  /\ \A o, n \in Owns : o[2] = n[2] => o = n

\* A reply of the gateway's own epoch is still true when it arrives, however late.
ReplyTrue(m) ==
  /\ m \in Replies /\ m.nonce \in 0 .. calls
  /\ m.kind = "map" /\ m.result = "ok" /\ m.boot = boot =>
       \A k \in Key : About(m, k) => Forwards(table, forgone, k, m.ext)

ReplyInv == \A m \in replies : ReplyTrue(m)

ActiveInv ==
  UpToDate => \A k \in Key : mappings[k] # None /\ mappings[k].state = "ACTIVE"
                               => Forwards(table, forgone, k, mappings[k].ext)

SystemInv ==
  IInv /\ Gate!SyncInv /\ BootInv /\ RequestInv /\ NonceInv /\ ReplyInv /\ ActiveInv

\* What a step of the gateway may not take back.
Kept == \A k \in Key : \A ext : Forwards(table, forgone, k, ext) => Forwards(table', forgone', k, ext)

\* The gateway stands still.
LEMMA GateStutter ==
  ASSUME Gate!SyncInv, table' = table, gateway' = gateway, waiting' = waiting
  PROVE  Gate!SyncInv'
<1>1. [Gate!Next]_Gate!vars BY DEF Gate!vars
<1> QED BY <1>1, GateAssumptions, Gate!NextSyncInv

LEMMA PacketShape ==
  ASSUME NEW tx \in Fit
  PROVE  /\ Shaped(PacketOf(tx))
         /\ PacketOf(tx).nonce # 0 => PacketOf(tx).key = tx.key /\ PacketOf(tx).nonce = tx.nonce
<1>1. tx \in Tx /\ (tx.kind = "map" => tx.key \in Key) BY DEF Fit
<1>2. tx.nonce # 0 /\ tx.kind \in {"map", "probe", "address"} BY <1>1 DEF Tx, Call
<1>3. DialectOf(tx) \in {"pcp", "natpmp"} BY <1>1, Constants DEF DialectOf, Tx, Dialect
<1>4. PacketOf(tx) \in Packet BY PacketType
<1>5. /\ PacketOf(tx).dialect = DialectOf(tx) /\ PacketOf(tx).key = tx.key
      /\ PacketOf(tx).kind = IF tx.kind = "map" THEN "map"
                             ELSE IF DialectOf(tx) = "pcp" THEN "announce" ELSE "address"
      /\ PacketOf(tx).nonce = IF DialectOf(tx) = "pcp" /\ tx.kind = "map" THEN tx.nonce ELSE 0
  BY DEF PacketOf
<1> QED BY <1>1, <1>2, <1>3, <1>4, <1>5 DEF Shaped

\* What the client emits is a request of its own shape, with a nonce it claims.
LEMMA EmitKeeps ==
  ASSUME RequestInv, LineType', Sent', Emit
  PROVE  /\ RequestInv' /\ forgone \subseteq forgone'
         /\ Owns' \subseteq Owns \cup Claims'
<1>1. CASE out' = None
  <2>1. requests' = requests /\ forgone' = forgone BY <1>1 DEF Emit
  <2> QED BY <2>1 DEF RequestInv, Owns
<1>2. CASE out' # None
  <2>1. inflight' # None /\ out' = PacketOf(inflight') BY <1>2 DEF Sent
  <2>2. inflight' \in Fit BY <2>1 DEF LineType
  <2> DEFINE p == PacketOf(inflight')
  <2>3. /\ Shaped(p)
        /\ p.nonce # 0 => p.key = inflight'.key /\ p.nonce = inflight'.nonce
    BY <2>2, PacketShape
  <2>4. p.nonce # 0 => <<p.key, p.nonce>> \in Claims'
    <3>1. Id(inflight') \in Ids' BY <2>1 DEF Ids
    <3>2. Id(inflight').key = inflight'.key /\ Id(inflight').nonce = inflight'.nonce BY DEF Id
    <3>3. p.nonce # 0 => p.key \in Key BY <2>3 DEF Shaped
    <3>4. None \notin Key BY NoneAssumption
    <3> HIDE DEF p
    <3> QED BY <2>3, <3>1, <3>2, <3>3, <3>4 DEF Claims, ClaimsOf
  <2>5. /\ requests' = requests \cup {p}
        /\ forgone' = IF p.delete THEN forgone \cup {p.key} ELSE forgone
    BY <1>2, <2>1 DEF Emit
  <2> HIDE DEF p
  <2>6. RequestInv' BY <2>3, <2>5 DEF RequestInv
  <2>7. Owns' \subseteq Owns \cup Claims' BY <2>4, <2>5 DEF Owns
  <2> QED BY <2>5, <2>6, <2>7
<1> QED BY <1>1, <1>2

\* A nonce is drawn for one internal port and passed on from there.
LEMMA NonceKeeps ==
  ASSUME NonceInv, calls \in Nat,
         \/ calls' = calls /\ Owns' \subseteq Owns
         \/ calls' = calls + 1 /\ \E k : Owns' \subseteq Owns \cup {<<k, calls'>>}
  PROVE  /\ NonceInv'
         /\ \A k : \A n \in 0 .. calls : <<k, n>> \in Owns' => <<k, n>> \in Owns
<1>1. CASE calls' = calls /\ Owns' \subseteq Owns BY <1>1 DEF NonceInv
<1>2. ASSUME NEW j, calls' = calls + 1, Owns' \subseteq Owns \cup {<<j, calls'>>}
      PROVE  /\ NonceInv'
             /\ \A k : \A n \in 0 .. calls : <<k, n>> \in Owns' => <<k, n>> \in Owns
  <2> DEFINE new == <<j, calls'>>
  <2>1. new[2] = calls + 1 /\ \A o \in Owns : o[2] # calls + 1 /\ o[2] \in 0 .. calls'
    BY <1>2 DEF NonceInv
  <2>2. \A k : \A n \in 0 .. calls : <<k, n>> # new BY <1>2
  <2>3. calls + 1 \in 0 .. calls' BY <1>2
  <2> HIDE DEF new
  <2>4. \A o \in Owns' : o \in Owns \/ o = new BY <1>2 DEF new
  <2> QED BY <2>1, <2>2, <2>3, <2>4 DEF NonceInv
<1> QED BY <1>1, <1>2

\* A reply that is true stays so.
LEMMA ReplyKeeps ==
  ASSUME NEW m, ReplyTrue(m), boot' = boot, calls \in Nat, calls' \in Nat, calls <= calls', Kept,
         \A k : \A n \in 0 .. calls : <<k, n>> \in Owns' => <<k, n>> \in Owns
  PROVE  ReplyTrue(m)'
<1>1. m \in Replies /\ m.nonce \in 0 .. calls /\ m.nonce \in 0 .. calls' BY DEF ReplyTrue
<1>2. \A k : About(m, k)' => About(m, k) BY <1>1 DEF About
<1>3. ASSUME m.kind = "map", m.result = "ok", m.boot = boot', NEW k \in Key, About(m, k)'
      PROVE  Forwards(table', forgone', k, m.ext)
  <2>1. Forwards(table, forgone, k, m.ext) BY <1>2, <1>3 DEF ReplyTrue
  <2> QED BY <2>1 DEF Kept
<1> QED BY <1>1, <1>3 DEF ReplyTrue

-----------------------------------------------------------------------------
(* The steps of the client.                                                *)

LEMMA ClientStepKeeps == ASSUME SystemInv, ClientStep PROVE SystemInv'
<1>1. /\ CallStep \/ TimerStep
      /\ Emit /\ UNCHANGED server /\ replies' = replies
  BY DEF ClientStep
<1>2. /\ boot' = boot /\ table' = table /\ gateway' = gateway /\ waiting' = waiting
  BY <1>1 DEF server
<1>3. IInv' BY <1>1, NextIInv DEF Next, SystemInv
<1>4. Moved BY <1>1, ClientMoves DEF SystemInv
<1>5. Gate!SyncInv' BY <1>2, GateStutter DEF SystemInv
<1>6. /\ RequestInv' /\ forgone \subseteq forgone' /\ Owns' \subseteq Owns \cup Claims'
  BY <1>1, <1>3, <1>4, EmitKeeps DEF SystemInv, IInv, Moved
<1>7. calls \in Nat /\ calls' \in Nat /\ calls <= calls'
  BY <1>4 DEF SystemInv, IInv, RestType, Moved
<1>8. NonceInv' /\ \A k : \A n \in 0 .. calls : <<k, n>> \in Owns' => <<k, n>> \in Owns
  <2>1. Claims \subseteq Owns BY DEF Owns
  <2>2. \/ calls' = calls /\ Owns' \subseteq Owns
        \/ calls' = calls + 1 /\ \E k : Owns' \subseteq Owns \cup {<<k, calls'>>}
    BY <1>4, <1>6, <2>1 DEF Moved
  <2> QED BY <1>7, <2>2, NonceKeeps DEF SystemInv
<1>9. Kept BY <1>2, <1>6 DEF Kept, Forwards
<1>10. ReplyInv'
  <2>1. \A m \in replies : ReplyTrue(m) BY DEF SystemInv, ReplyInv
  <2>2. \A m \in replies : ReplyTrue(m)' BY <1>2, <1>7, <1>8, <1>9, <2>1, ReplyKeeps
  <2> QED BY <1>1, <2>2 DEF ReplyInv
<1>11. BootInv' BY <1>1, <1>2, <1>4 DEF SystemInv, BootInv, Moved
<1>12. ActiveInv'
  <2> SUFFICES ASSUME UpToDate', NEW k \in Key, mappings'[k] # None, mappings'[k].state = "ACTIVE"
               PROVE  Forwards(table', forgone', k, mappings'[k].ext)
    BY DEF ActiveInv
  <2>1. /\ mappings[k] # None /\ mappings[k].state = "ACTIVE"
        /\ mappings'[k].ext = mappings[k].ext
    BY <1>4 DEF Moved
  <2>2. UpToDate BY <1>2, <1>4 DEF UpToDate, Moved
  <2>3. Forwards(table, forgone, k, mappings[k].ext) BY <2>1, <2>2 DEF SystemInv, ActiveInv
  <2> QED BY <1>9, <2>1, <2>3 DEF Kept
<1> QED BY <1>3, <1>5, <1>6, <1>8, <1>10, <1>11, <1>12 DEF SystemInv

\* A reply leaves the client up to date only if it is of the gateway's own epoch,
\* and then the client was so before, or notices the restart it missed.
LEMMA StillUpToDate ==
  ASSUME BootInv, epoch \in [Dialect -> Boot \cup {None}], NEW m \in Reply,
         epoch' = [epoch EXCEPT ![m.dialect] = m.boot], boot' = boot, UpToDate'
  PROVE  m.boot = boot /\ (UpToDate \/ Restarted(m.dialect, m.boot))
<1>1. m.dialect \in Dialect /\ m.boot \in Boot /\ Dialect = {"pcp", "natpmp"} /\ None \notin Boot
  BY NoneAssumption DEF Reply, Dialect
<1>2. m.boot = boot BY <1>1 DEF UpToDate
<1>3. \A d \in Dialect \ {m.dialect} : epoch[d] \in {None, boot} BY <1>1 DEF UpToDate
<1>4. epoch[m.dialect] \in {None, boot} \/ Restarted(m.dialect, m.boot)
  <2> SUFFICES ASSUME epoch[m.dialect] \notin {None, boot} PROVE Restarted(m.dialect, m.boot)
    OBVIOUS
  <2>1. /\ epoch[m.dialect] \in Boot /\ epoch[m.dialect] <= boot /\ epoch[m.dialect] # boot
        /\ boot \in Boot
    BY <1>1 DEF BootInv
  <2>2. epoch[m.dialect] < boot BY <2>1 DEF Boot
  <2> QED BY <1>2, <2>1, <2>2 DEF Restarted, Boot
<1> QED BY <1>1, <1>2, <1>3, <1>4 DEF UpToDate

LEMMA ClientReceivesKeeps == ASSUME SystemInv, NEW m, ClientReceives(m) PROVE SystemInv'
<1>1. /\ m \in replies /\ Receive(m) /\ replies' = replies \ {m}
      /\ Emit /\ UNCHANGED server
  BY DEF ClientReceives
<1>2. /\ boot' = boot /\ table' = table /\ gateway' = gateway /\ waiting' = waiting
  BY <1>1 DEF server
<1>3. ReplyTrue(m) /\ m \in Replies /\ m \in Reply
  BY <1>1 DEF SystemInv, ReplyInv, ReplyTrue, Replies
<1>4. IInv' BY <1>1, <1>3, ReceiveKeeps DEF SystemInv
<1>5. Heard(m) BY <1>1, <1>3, ReceiveMoves DEF SystemInv
<1>6. Gate!SyncInv' BY <1>2, GateStutter DEF SystemInv
<1>7. /\ RequestInv' /\ forgone \subseteq forgone' /\ Owns' \subseteq Owns \cup Claims'
  BY <1>1, <1>4, <1>5, EmitKeeps DEF SystemInv, IInv, Heard
<1>8. calls \in Nat /\ calls' = calls BY <1>5 DEF SystemInv, IInv, RestType, Heard
<1>9. Claims \subseteq Owns BY DEF Owns
<1>10. NonceInv' /\ \A k : \A n \in 0 .. calls : <<k, n>> \in Owns' => <<k, n>> \in Owns
  <2>1. Owns' \subseteq Owns BY <1>5, <1>7, <1>9 DEF Heard
  <2> QED BY <1>8, <2>1, NonceKeeps DEF SystemInv
<1>11. Kept BY <1>2, <1>7 DEF Kept, Forwards
<1>12. ReplyInv'
  <2>1. \A l \in replies : ReplyTrue(l) BY DEF SystemInv, ReplyInv
  <2>2. \A l \in replies : ReplyTrue(l)' BY <1>2, <1>8, <1>10, <1>11, <2>1, ReplyKeeps
  <2> QED BY <1>1, <2>2 DEF ReplyInv
<1>13. epoch \in [Dialect -> Boot \cup {None}] /\ epoch' = [epoch EXCEPT ![m.dialect] = m.boot]
  BY <1>5 DEF SystemInv, IInv, RestType, Heard
<1>14. m.dialect \in Dialect /\ m.boot \in Boot /\ None \notin Boot
  BY <1>3, NoneAssumption DEF Reply
<1>15. BootInv'
  <2>1. \A d \in Dialect : epoch'[d] = IF d = m.dialect THEN m.boot ELSE epoch[d] BY <1>13
  <2>2. m.boot <= boot BY <1>1 DEF SystemInv, BootInv
  <2>3. epoch'[m.dialect] # None BY <1>14, <2>1
  <2> QED BY <1>1, <1>2, <1>14, <2>1, <2>2, <2>3 DEF SystemInv, BootInv
<1>16. ActiveInv'
  <2> SUFFICES ASSUME UpToDate', NEW k \in Key, mappings'[k] # None, mappings'[k].state = "ACTIVE"
               PROVE  Forwards(table', forgone', k, mappings'[k].ext)
    BY DEF ActiveInv
  <2>1. m.boot = boot /\ (UpToDate \/ Restarted(m.dialect, m.boot))
    BY <1>2, <1>3, <1>13, StillUpToDate DEF SystemInv
  <2>2. CASE /\ ~Restarted(m.dialect, m.boot)
             /\ mappings[k] # None /\ mappings[k].state = "ACTIVE"
             /\ mappings'[k].ext = mappings[k].ext
    <3>1. Forwards(table, forgone, k, mappings[k].ext) BY <2>1, <2>2 DEF SystemInv, ActiveInv
    <3> QED BY <1>11, <2>2, <3>1 DEF Kept
  <2>3. CASE /\ m.kind = "map" /\ m.result = "ok" /\ mappings'[k].ext = m.ext
             /\ IF m.dialect = "pcp" THEN <<k, m.nonce>> \in Claims ELSE m.key = k
    <3>1. About(m, k) BY <1>9, <2>3 DEF About
    <3>2. Forwards(table, forgone, k, m.ext) BY <1>3, <2>1, <2>3, <3>1 DEF ReplyTrue
    <3> QED BY <1>11, <2>3, <3>2 DEF Kept
  <2> QED BY <1>5, <2>2, <2>3 DEF Heard
<1> QED BY <1>4, <1>6, <1>7, <1>10, <1>12, <1>15, <1>16 DEF SystemInv

-----------------------------------------------------------------------------
(* The steps of the gateway and of the network.                            *)

\* A reply the gateway has just written.
NewReply(m) ==
  /\ m \in Replies /\ m.nonce \in 0 .. calls /\ m.boot = boot
  /\ m.kind = "map" /\ m.result = "ok" =>
       \A k \in Key : About(m, k) => Forwards(table', forgone', k, m.ext)

LEMMA ServerKeeps ==
  ASSUME SystemInv, UNCHANGED <<client, boot>>, requests' \subseteq requests,
         forgone \subseteq forgone', Gate!SyncInv', Kept,
         \A m \in replies' : m \in replies \/ NewReply(m)
  PROVE  SystemInv'
<1>1. /\ UNCHANGED vars /\ boot' = boot
      /\ queue' = queue /\ inflight' = inflight /\ mappings' = mappings /\ epoch' = epoch
      /\ calls' = calls
  BY DEF client, vars
<1>2. IInv' BY <1>1, NextIInv DEF SystemInv
<1>3. calls \in Nat BY DEF SystemInv, IInv, RestType
<1>4. Claims' = Claims BY <1>1 DEF Claims, ClaimsOf, Ids, IdsOf
<1>5. Owns' \subseteq Owns BY <1>4 DEF Owns
<1>6. NonceInv' /\ \A k : \A n \in 0 .. calls : <<k, n>> \in Owns' => <<k, n>> \in Owns
  BY <1>1, <1>3, <1>5, NonceKeeps DEF SystemInv
<1>7. ReplyInv'
  <2>1. \A m \in replies : ReplyTrue(m)' BY <1>1, <1>3, <1>6, ReplyKeeps DEF SystemInv, ReplyInv
  <2>2. ASSUME NEW m, NewReply(m) PROVE ReplyTrue(m)'
    <3>1. \A k : About(m, k)' => About(m, k) BY <1>5 DEF About
    <3> QED BY <1>1, <2>2, <3>1 DEF NewReply, ReplyTrue
  <2> QED BY <2>1, <2>2 DEF ReplyInv
<1>8. RequestInv' BY DEF SystemInv, RequestInv
<1>9. BootInv'
  <2>1. \A m \in replies' : m.boot <= boot
    BY DEF SystemInv, BootInv, NewReply, Boot
  <2> QED BY <1>1, <2>1 DEF SystemInv, BootInv
<1>10. ActiveInv' BY <1>1 DEF SystemInv, ActiveInv, UpToDate, Kept
<1> QED BY <1>2, <1>6, <1>7, <1>8, <1>9, <1>10 DEF SystemInv

\* What a request taken from the network is known to be.
LEMMA RequestKnown ==
  ASSUME SystemInv, NEW p \in requests
  PROVE  /\ Shaped(p) /\ p.nonce \in 0 .. calls
         /\ p.delete => p.key \in forgone
         /\ p.nonce # 0 => \A k : <<k, p.nonce>> \in Owns => k = p.key
         /\ boot \in Boot
<1>1. Shaped(p) /\ (p.delete => p.key \in forgone) /\ boot \in Boot
  BY DEF SystemInv, RequestInv, BootInv
<1>2. p.nonce # 0 => <<p.key, p.nonce>> \in Owns BY DEF Owns
<1>3. calls \in Nat BY DEF SystemInv, IInv, RestType
<1>4. p.nonce \in 0 .. calls
  <2>1. CASE p.nonce = 0 BY <1>3, <2>1
  <2>2. CASE p.nonce # 0
    <3> DEFINE o == <<p.key, p.nonce>>
    <3>1. o \in Owns /\ o[2] = p.nonce BY <1>2, <2>2
    <3> HIDE DEF o
    <3> QED BY <3>1 DEF SystemInv, NonceInv
  <2> QED BY <2>1, <2>2
<1>5. ASSUME p.nonce # 0, NEW k, <<k, p.nonce>> \in Owns PROVE k = p.key
  <2>1. <<k, p.nonce>>[2] = <<p.key, p.nonce>>[2] OBVIOUS
  <2>2. <<k, p.nonce>> = <<p.key, p.nonce>> BY <1>2, <1>5, <2>1 DEF SystemInv, NonceInv
  <2> QED BY <2>2
<1> QED BY <1>1, <1>4, <1>5

\* The replies the gateway writes are replies the client knows.
LEMMA ReplyToType ==
  ASSUME SystemInv, NEW p \in requests, NEW ext \in External \cup {NoPort}, NEW lease \in BOOLEAN,
         NEW result \in {"ok", "error"},
         p.kind # "map" \/ result # "ok" => ext = NoPort /\ ~lease,
         ext = NoPort => ~lease
  PROVE  LET m == ReplyTo(p, ext, lease, result) IN
         /\ m \in Replies /\ m.nonce \in 0 .. calls /\ m.boot = boot
         /\ m.kind = p.kind /\ m.ext = ext /\ m.result = result
         /\ \A k : m.kind = "map" /\ About(m, k) => k = p.key
<1> DEFINE m == ReplyTo(p, ext, lease, result)
<1>1. /\ Shaped(p) /\ p.nonce \in 0 .. calls /\ boot \in Boot
      /\ p.nonce # 0 => \A k : <<k, p.nonce>> \in Owns => k = p.key
  BY RequestKnown
<1>2. /\ p.dialect \in {"pcp", "natpmp"} /\ p.kind \in {"map", "address", "announce"}
      /\ p.key \in Key \cup {None} /\ p.nonce \in Call \cup {0}
  BY <1>1 DEF Shaped, Packet, Dialect
<1>3. /\ m.dialect = p.dialect /\ m.kind = p.kind /\ m.ext = ext /\ m.lease = lease
      /\ m.nonce = p.nonce /\ m.result = result /\ m.boot = boot
      /\ m.key = IF p.dialect = "natpmp" /\ p.kind = "map" THEN p.key ELSE None
  BY DEF ReplyTo
<1>4. m \in Reply
  <2>1. IF p.dialect = "natpmp" /\ p.kind = "map" THEN p.key \in Key \cup {None}
                                                  ELSE None \in Key \cup {None}
    BY <1>2
  <2> QED BY <1>1, <1>2, <2>1 DEF ReplyTo, Reply, Dialect
<1> HIDE DEF m
<1>5. Speaks = Dialect /\ None \notin Key BY SystemAssumption, NoneAssumption
<1>6. p.nonce # 0 <=> p.dialect = "pcp" /\ p.kind = "map" BY <1>1 DEF Shaped
<1>7. /\ p.dialect = "pcp" => p.kind # "address"
      /\ p.dialect = "natpmp" => p.kind # "announce"
      /\ p.kind = "map" => p.key \in Key
  BY <1>1 DEF Shaped
<1>8. m \in Replies BY <1>2, <1>3, <1>4, <1>5, <1>6, <1>7 DEF Replies, Dialect
<1>9. ASSUME NEW k, m.kind = "map", About(m, k) PROVE k = p.key
  BY <1>1, <1>2, <1>3, <1>6, <1>9 DEF About
<1> QED BY <1>1, <1>3, <1>8, <1>9 DEF m

\* What was just said of a reply, for one that grants a port and for the others.
LEMMA GrantType ==
  ASSUME SystemInv, NEW p \in requests, p.kind = "map", NEW ext \in External
  PROVE  LET m == ReplyTo(p, ext, TRUE, "ok") IN
         /\ m \in Replies /\ m.nonce \in 0 .. calls /\ m.boot = boot /\ m.kind = "map"
         /\ m.ext = ext /\ \A k : About(m, k) => k = p.key
<1> DEFINE R(l, r) == ReplyTo(p, ext, l, r)
<1>1. ext \in External \cup {NoPort} /\ ext # NoPort BY SessionAssumption DEF NoPort
<1>2. ASSUME NEW l \in BOOLEAN, NEW r \in {"ok", "error"}, l, r = "ok"
      PROVE  /\ R(l, r) \in Replies /\ R(l, r).nonce \in 0 .. calls /\ R(l, r).boot = boot
             /\ R(l, r).kind = "map" /\ R(l, r).ext = ext
             /\ \A k : About(R(l, r), k) => k = p.key
  <2>1. ext = NoPort => ~l BY <1>1
  <2>2. p.kind # "map" \/ r # "ok" => ext = NoPort /\ ~l BY <1>2
  <2>3. /\ R(l, r) \in Replies /\ R(l, r).nonce \in 0 .. calls /\ R(l, r).boot = boot
        /\ R(l, r).kind = p.kind /\ R(l, r).ext = ext
        /\ \A k : R(l, r).kind = "map" /\ About(R(l, r), k) => k = p.key
    BY <1>1, <2>1, <2>2, ReplyToType
  <2> HIDE DEF R
  <2> QED BY <2>3
<1> HIDE DEF R
<1>3. /\ R(TRUE, "ok") \in Replies /\ R(TRUE, "ok").nonce \in 0 .. calls
      /\ R(TRUE, "ok").boot = boot /\ R(TRUE, "ok").kind = "map" /\ R(TRUE, "ok").ext = ext
      /\ \A k : About(R(TRUE, "ok"), k) => k = p.key
  BY <1>2
<1> QED BY <1>3 DEF R

LEMMA RefusalType ==
  ASSUME SystemInv, NEW p \in requests, NEW result \in {"ok", "error"}
  PROVE  LET m == ReplyTo(p, NoPort, FALSE, result) IN
         /\ m \in Replies /\ m.nonce \in 0 .. calls /\ m.boot = boot /\ m.kind = p.kind
         /\ m.result = result /\ \A k : m.kind = "map" /\ About(m, k) => k = p.key
<1> DEFINE R(e, l) == ReplyTo(p, e, l, result)
<1>1. ASSUME NEW e \in External \cup {NoPort}, NEW l \in BOOLEAN, e = NoPort, ~l
      PROVE  /\ R(e, l) \in Replies /\ R(e, l).nonce \in 0 .. calls /\ R(e, l).boot = boot
             /\ R(e, l).kind = p.kind /\ R(e, l).result = result
             /\ \A k : R(e, l).kind = "map" /\ About(R(e, l), k) => k = p.key
  BY <1>1, ReplyToType
<1> HIDE DEF R
<1>2. /\ R(NoPort, FALSE) \in Replies /\ R(NoPort, FALSE).nonce \in 0 .. calls
      /\ R(NoPort, FALSE).boot = boot
      /\ R(NoPort, FALSE).kind = p.kind /\ R(NoPort, FALSE).result = result
      /\ \A k : R(NoPort, FALSE).kind = "map" /\ About(R(NoPort, FALSE), k) => k = p.key
  BY <1>1
<1> QED BY <1>2 DEF R

\* decide() takes no port from an internal port but to give it to another.
LEMMA ServeMapKeeps == ASSUME SystemInv, NEW p, ServeMap(p) PROVE SystemInv'
<1> DEFINE r == [client |-> Host, protocol |-> "tcp", iport |-> p.key,
                 eport |-> p.ext, lifetime |-> Lease]
           m == ReplyTo(p, Held(table', p.key), TRUE, "ok")
<1>1. /\ p \in requests /\ p.kind = "map" /\ Server!MapNow(r) /\ Held(table', p.key) # 0
      /\ forgone' = forgone \cup {k \in Key \ {p.key} : Held(table, k) = Held(table', p.key)}
      /\ requests' = requests \ {p} /\ replies' = replies \cup {m}
      /\ UNCHANGED <<client, boot>>
  BY DEF ServeMap, Respond
<1>2. Gate!SyncInv /\ p.key \in Key /\ p.ext \in External \cup {NoPort}
  BY <1>1, RequestKnown DEF SystemInv, Shaped, Packet
<1>3. r \in Gate!Request /\ Gate!ExternalPort = External /\ Gate!NoPort = NoPort
  BY <1>2, SystemAssumption DEF Gate!Request, Gate!Protocol, Gate!ExternalPort, Gate!NoPort, NoPort
<1>4. Gate!MapNow(r) BY <1>1, SameSteps
<1>5. Gate!SyncInv'
  <2>1. Gate!Next BY <1>3, <1>4 DEF Gate!Next
  <2> QED BY <1>2, <2>1, GateAssumptions, Gate!NextSyncInv
<1>6. \A k \in Key : <<Host, "tcp", k>> \in Gate!InternalKey
  BY DEF Gate!InternalKey, Gate!Protocol
<1>7. \A k \in Key :
        Held(table', k) # Held(table, k) =>
          /\ Held(table, p.key) = NoPort
          /\ k # p.key => Held(table, k) = Held(table', p.key)
  <2> DEFINE own == <<r.client, r.protocol, r.iport>>
  <2>1. \A j \in Gate!InternalKey :
          table'.byInternal[j] # table.byInternal[j] =>
            /\ table.byInternal[own] = Gate!NoPort
            /\ j # own => table.byInternal[j] = table'.byInternal[own]
    BY <1>2, <1>3, <1>4, GateAssumptions, Gate!MapNowIndex
  <2>2. own = <<Host, "tcp", p.key>> OBVIOUS
  <2> HIDE DEF own, r
  <2>3. \A k \in Key : <<Host, "tcp", k>> = own <=> k = p.key BY <2>2
  <2> QED BY <1>3, <1>6, <2>1, <2>2, <2>3 DEF Held
<1> HIDE DEF r, m
<1>8. Kept
  <2> SUFFICES ASSUME NEW k \in Key, NEW ext, Forwards(table, forgone, k, ext)
               PROVE  Forwards(table', forgone', k, ext)
    BY DEF Kept
  <2>1. CASE k \in forgone BY <1>1, <2>1 DEF Forwards
  <2>2. CASE k \notin forgone /\ Held(table', k) = Held(table, k) BY <2>2 DEF Forwards
  <2>3. CASE k \notin forgone /\ Held(table', k) # Held(table, k)
    <3>1. ext # NoPort /\ Held(table, k) = ext BY <2>3 DEF Forwards
    <3>2. k # p.key /\ Held(table, k) = Held(table', p.key) BY <1>7, <2>3, <3>1
    <3> QED BY <1>1, <3>2 DEF Forwards
  <2> QED BY <2>1, <2>2, <2>3
<1>9. Held(table', p.key) \in External
  <2>1. table' \in Gate!Table BY <1>5 DEF Gate!SyncInv, Gate!IInv, Gate!TypeOK
  <2>2. Held(table', p.key) \in External \cup {NoPort}
    BY <1>2, <1>3, <1>6, <2>1 DEF Gate!Table, Held
  <2> QED BY <1>1, <2>2 DEF NoPort
<1>10. NewReply(m)
  <2>1. /\ m \in Replies /\ m.nonce \in 0 .. calls /\ m.boot = boot
        /\ m.ext = Held(table', p.key) /\ m.kind = "map"
        /\ \A k : About(m, k) => k = p.key
    BY <1>1, <1>9, GrantType DEF m
  <2>2. Forwards(table', forgone', p.key, m.ext) BY <1>1, <2>1 DEF Forwards, NoPort
  <2> QED BY <2>1, <2>2 DEF NewReply
<1>11. requests' \subseteq requests /\ forgone \subseteq forgone'
       /\ \A l \in replies' : l \in replies \/ NewReply(l)
  BY <1>1, <1>10
<1> QED BY <1>1, <1>5, <1>8, <1>11, ServerKeeps

\* A deletion is only served for a port given up, and spares the others.
LEMMA ServeDeleteKeeps == ASSUME SystemInv, NEW p, ServeDelete(p) PROVE SystemInv'
<1> DEFINE m == ReplyTo(p, 0, FALSE, "ok")
<1>1. /\ p \in requests /\ p.kind = "map" /\ p.delete /\ forgone' = forgone
      /\ IF Held(table, p.key) # 0 THEN Server!DeleteOne(Host, "tcp", p.key)
         ELSE UNCHANGED <<gateway, table, waiting>>
      /\ requests' = requests \ {p} /\ replies' = replies \cup {m}
      /\ UNCHANGED <<client, boot>>
  BY DEF ServeDelete, Respond
<1>2. Gate!SyncInv /\ p.key \in Key /\ p.key \in forgone
  BY <1>1, RequestKnown DEF SystemInv, Shaped
<1>3. Gate!SyncInv' /\ \A k \in Key \ {p.key} : Held(table', k) = Held(table, k)
  <2>1. CASE Held(table, p.key) # 0
    <3>1. Gate!DeleteOne(Host, "tcp", p.key) BY <1>1, <2>1, SameSteps
    <3>2. Gate!Next BY <1>2, <3>1 DEF Gate!Next, Gate!Protocol
    <3>3. Gate!SyncInv' BY <1>2, <3>2, GateAssumptions, Gate!NextSyncInv
    <3> DEFINE own == <<Host, "tcp", p.key>>
    <3>4. \A j \in Gate!InternalKey \ {own} : table'.byInternal[j] = table.byInternal[j]
      <4>1. Host \in {Host} /\ "tcp" \in Gate!Protocol BY DEF Gate!Protocol
      <4> QED BY <1>2, <3>1, <4>1, GateAssumptions, Gate!DeleteOneIndex
    <3>5. \A k \in Key \ {p.key} : <<Host, "tcp", k>> \in Gate!InternalKey \ {own}
      BY DEF Gate!InternalKey, Gate!Protocol
    <3> HIDE DEF own
    <3> QED BY <3>3, <3>4, <3>5 DEF Held
  <2>2. CASE Held(table, p.key) = 0
    <3>1. gateway' = gateway /\ table' = table /\ waiting' = waiting BY <1>1, <2>2
    <3> QED BY <1>2, <3>1, GateStutter
  <2> QED BY <2>1, <2>2
<1>4. Kept BY <1>1, <1>2, <1>3 DEF Kept, Forwards
<1> HIDE DEF m
<1>5. NewReply(m)
  <2>1. /\ m \in Replies /\ m.nonce \in 0 .. calls /\ m.boot = boot /\ m.kind = "map"
        /\ \A k : About(m, k) => k = p.key
    BY <1>1, RefusalType DEF m, NoPort
  <2> QED BY <1>1, <1>2, <2>1 DEF NewReply, Forwards
<1>6. requests' \subseteq requests /\ forgone \subseteq forgone'
      /\ \A l \in replies' : l \in replies \/ NewReply(l)
  BY <1>1, <1>5
<1> QED BY <1>1, <1>3, <1>4, <1>6, ServerKeeps

\* A refusal, and what is not about a mapping, says nothing of a port.
LEMMA OtherKeeps ==
  ASSUME SystemInv, NEW p, RefuseMap(p) \/ ServeOther(p)
  PROVE  SystemInv'
<1>1. PICK result \in {"ok", "error"} :
        /\ p \in requests /\ (p.kind = "map" => result = "error")
        /\ requests' = requests \ {p}
        /\ replies' = replies \cup {ReplyTo(p, 0, FALSE, result)}
        /\ UNCHANGED <<client, boot>> /\ forgone' = forgone
        /\ gateway' = gateway /\ table' = table /\ waiting' = waiting
  BY DEF RefuseMap, ServeOther, Respond
<1> DEFINE m == ReplyTo(p, 0, FALSE, result)
<1>2. Gate!SyncInv' BY <1>1, GateStutter DEF SystemInv
<1>3. Kept BY <1>1 DEF Kept, Forwards
<1>4. /\ m \in Replies /\ m.nonce \in 0 .. calls /\ m.boot = boot
      /\ m.kind = p.kind /\ m.result = result
  BY <1>1, RefusalType DEF NoPort
<1> HIDE DEF m
<1>5. NewReply(m) BY <1>1, <1>4 DEF NewReply
<1>6. requests' \subseteq requests /\ forgone \subseteq forgone'
      /\ \A l \in replies' : l \in replies \/ NewReply(l)
  BY <1>1, <1>5 DEF m
<1> QED BY <1>1, <1>2, <1>3, <1>6, ServerKeeps

LEMMA LoseKeeps == ASSUME SystemInv, Lose PROVE SystemInv'
<1>1. /\ UNCHANGED <<client, boot>> /\ forgone' = forgone
      /\ gateway' = gateway /\ table' = table /\ waiting' = waiting
      /\ requests' \subseteq requests /\ replies' \subseteq replies
  BY DEF Lose, server
<1>2. Gate!SyncInv' BY <1>1, GateStutter DEF SystemInv
<1>3. Kept BY <1>1 DEF Kept, Forwards
<1> QED BY <1>1, <1>2, <1>3, ServerKeeps

\* Nobody is up to date with a gateway that has just restarted but a client that
\* has heard nothing, and holds nothing.
LEMMA RestartKeeps == ASSUME SystemInv, Restart PROVE SystemInv'
<1>1. /\ boot < MaxBoot /\ boot' = boot + 1 /\ Server!ResetEpoch
      /\ replies' = replies \cup Announcements(boot')
      /\ UNCHANGED client /\ requests' = requests /\ forgone' = forgone
  BY DEF Restart
<1>2. /\ UNCHANGED vars
      /\ queue' = queue /\ inflight' = inflight /\ mappings' = mappings /\ epoch' = epoch
      /\ calls' = calls
  BY <1>1 DEF client, vars
<1>3. IInv' BY <1>2, NextIInv DEF SystemInv
<1>4. Gate!SyncInv'
  <2>1. Gate!Next BY <1>1, SameSteps DEF Gate!Next
  <2> QED BY <2>1, GateAssumptions, Gate!NextSyncInv DEF SystemInv
<1>5. Claims' = Claims BY <1>2 DEF Claims, ClaimsOf, Ids, IdsOf
<1>6. Owns' = Owns BY <1>1, <1>5 DEF Owns
<1>7. boot \in Boot /\ boot' \in Boot /\ boot \in Int /\ calls \in Nat /\ None \notin Boot
  BY <1>1, SessionAssumption, NoneAssumption DEF SystemInv, BootInv, Boot, IInv, RestType
<1>8. RequestInv' /\ NonceInv' BY <1>1, <1>2, <1>6 DEF SystemInv, RequestInv, NonceInv
<1>9. \A m \in replies : m.boot \in Boot /\ m.boot <= boot
  BY DEF SystemInv, BootInv, ReplyInv, ReplyTrue, Replies, Reply
<1>10. \A m \in Announcements(boot') : /\ m \in Replies /\ m.nonce = 0 /\ m.boot = boot'
                                       /\ m.kind # "map"
  <2> SUFFICES ASSUME NEW d \in {"pcp", "natpmp"}
               PROVE  LET m == [dialect |-> d, kind |-> IF d = "pcp" THEN "announce" ELSE "address",
                                key |-> None, ext |-> 0, lease |-> FALSE, nonce |-> 0,
                                result |-> "ok", boot |-> boot'] IN
                      m \in Replies /\ m.nonce = 0 /\ m.boot = boot' /\ m.kind # "map"
    BY DEF Announcements
  <2> DEFINE m == [dialect |-> d, kind |-> IF d = "pcp" THEN "announce" ELSE "address",
                   key |-> None, ext |-> 0, lease |-> FALSE, nonce |-> 0,
                   result |-> "ok", boot |-> boot']
  <2>1. m \in Reply BY <1>7 DEF Reply, Dialect, NoPort
  <2>2. /\ m.dialect = d /\ m.kind = (IF d = "pcp" THEN "announce" ELSE "address")
        /\ m.key = None /\ m.ext = NoPort /\ ~m.lease /\ m.nonce = 0 /\ m.boot = boot'
    BY DEF NoPort
  <2> HIDE DEF m
  <2>3. m \in Replies BY <2>1, <2>2, SystemAssumption DEF Replies, Dialect
  <2> QED BY <2>2, <2>3 DEF m
<1>11. ReplyInv'
  <2>1. ASSUME NEW m \in replies PROVE ReplyTrue(m)'
    <3>1. m \in Replies /\ m.nonce \in 0 .. calls BY DEF SystemInv, ReplyInv, ReplyTrue
    <3>2. m.boot # boot' BY <1>1, <1>7, <1>9 DEF Boot
    <3> QED BY <1>2, <3>1, <3>2 DEF ReplyTrue
  <2>2. ASSUME NEW m \in Announcements(boot') PROVE ReplyTrue(m)'
    BY <1>2, <1>7, <1>10 DEF ReplyTrue
  <2> QED BY <1>1, <2>1, <2>2 DEF ReplyInv
<1>12. BootInv'
  <2>1. \A d \in Dialect : epoch'[d] # None => epoch'[d] <= boot'
    <3>1. \A d \in Dialect : epoch[d] # None => epoch[d] \in Boot /\ epoch[d] <= boot
      BY DEF SystemInv, BootInv, IInv, RestType
    <3> QED BY <1>1, <1>2, <1>7, <3>1 DEF Boot
  <2>2. \A m \in replies' : m.boot <= boot'
    BY <1>1, <1>7, <1>9, <1>10 DEF Boot
  <2> QED BY <1>2, <1>7, <2>1, <2>2 DEF SystemInv, BootInv
<1>13. ActiveInv'
  <2> SUFFICES ASSUME UpToDate' PROVE \A k \in Key : mappings'[k] = None
    BY DEF ActiveInv
  <2>1. \A d \in Dialect : epoch[d] \in {None, boot'} BY <1>2 DEF UpToDate, Dialect
  <2>2. \A d \in Dialect : epoch[d] # None => epoch[d] \in Boot /\ epoch[d] <= boot
    BY DEF SystemInv, BootInv, IInv, RestType
  <2>3. \A d \in Dialect : epoch[d] = None BY <1>1, <1>7, <2>1, <2>2 DEF Boot
  <2> QED BY <1>2, <2>3 DEF SystemInv, BootInv
<1> QED BY <1>3, <1>4, <1>8, <1>11, <1>12, <1>13 DEF SystemInv

-----------------------------------------------------------------------------
(* The theorems.                                                           *)

LEMMA InitSystemInv == SystemInit => SystemInv
<1> SUFFICES ASSUME SystemInit PROVE SystemInv OBVIOUS
<1>1. /\ Init /\ Server!Init /\ boot = 0 /\ requests = {} /\ replies = {}
  BY DEF SystemInit
<1>2. IInv BY <1>1, InitIInv
<1>3. Gate!SyncInv
  <2>1. Gate!Init BY <1>1, SameKeys DEF Gate!Init, Server!Init
  <2> QED BY <2>1, GateAssumptions, Gate!InitSyncInv
<1>4. /\ queue = <<>> /\ inflight = None /\ mappings = [k \in Key |-> None]
      /\ epoch = [d \in Dialect |-> None]
  BY <1>1 DEF Init
<1>5. Owns = {} BY <1>1, <1>4 DEF Owns, Claims, ClaimsOf, Ids, IdsOf
<1>6. BootInv BY <1>1, <1>4, SessionAssumption DEF BootInv, Boot
<1>7. RequestInv /\ ReplyInv /\ NonceInv BY <1>1, <1>5 DEF RequestInv, ReplyInv, NonceInv
<1>8. ActiveInv BY <1>4 DEF ActiveInv
<1> QED BY <1>2, <1>3, <1>6, <1>7, <1>8 DEF SystemInv

LEMMA NextSystemInv == SystemInv /\ [SystemNext]_systemVars => SystemInv'
<1> SUFFICES ASSUME SystemInv, [SystemNext]_systemVars PROVE SystemInv' OBVIOUS
<1>1. CASE UNCHANGED systemVars
  <2>1. /\ UNCHANGED <<client, boot>> /\ forgone' = forgone
        /\ gateway' = gateway /\ table' = table /\ waiting' = waiting
        /\ requests' \subseteq requests /\ replies' \subseteq replies
    BY <1>1 DEF systemVars, server
  <2>2. Gate!SyncInv' BY <2>1, GateStutter DEF SystemInv
  <2>3. Kept BY <2>1 DEF Kept, Forwards
  <2> QED BY <2>1, <2>2, <2>3, ServerKeeps
<1>2. CASE SystemNext
  BY <1>2, ClientStepKeeps, ClientReceivesKeeps, ServeMapKeeps, ServeDeleteKeeps, OtherKeeps,
     RestartKeeps, LoseKeeps DEF SystemNext
<1> QED BY <1>1, <1>2

LEMMA SystemInvariance == SystemSpec => []SystemInv
<1> QED BY InitSystemInv, NextSystemInv, PTL DEF SystemSpec

\* However requests are retransmitted, lost, overtaken and answered twice, and
\* replies of earlier epochs arrive: what an up-to-date client calls ACTIVE, and
\* nobody gave up, the gateway forwards on the port the client was told.
THEOREM ActiveCorrect == SystemSpec => []ActiveIsForwarded
<1>1. SystemInv => ActiveIsForwarded
  BY DEF SystemInv, ActiveInv, Forwards, ActiveIsForwarded
<1> QED BY <1>1, SystemInvariance, PTL

\* The client of the composition is the PMPSession of the module of that name,
\* and what that module lets a gateway answer covers what PMPServer answers; so
\* what is proved of PMPSession and PMPServer holds of the composition.
THEOREM Composed == SystemSpec => (Init /\ [][Next]_vars) /\ Server!Spec
<1>1. SystemInit => Init /\ Server!Init BY DEF SystemInit
<1>2. SystemInv /\ [SystemNext]_systemVars => [Next]_vars
  <2> SUFFICES ASSUME SystemInv, [SystemNext]_systemVars PROVE [Next]_vars OBVIOUS
  <2>1. CASE ClientStep BY <2>1 DEF ClientStep, Next
  <2>2. ASSUME NEW m \in replies, ClientReceives(m) PROVE Next
    <3>1. m \in Replies /\ Timely(m)
      BY SystemAssumption DEF SystemInv, ReplyInv, ReplyTrue, Timely
    <3> QED BY <2>2, <3>1 DEF ClientReceives, Next
  <2>3. CASE /\ ~ClientStep /\ ~ \E m \in replies : ClientReceives(m)
    <3>1. UNCHANGED client
      BY <2>3 DEF SystemNext, systemVars, ServeMap, RefuseMap, ServeDelete, ServeOther, Respond,
                  Restart, Lose
    <3> QED BY <3>1 DEF client
  <2> QED BY <2>1, <2>2, <2>3
<1>3. SystemInv /\ [SystemNext]_systemVars => [Server!Next]_(Server!vars)
  <2> SUFFICES ASSUME SystemInv, [SystemNext]_systemVars PROVE [Server!Next]_(Server!vars)
    OBVIOUS
  <2>1. ASSUME NEW p \in requests, ServeMap(p) PROVE Server!Next
    <3> DEFINE r == [client |-> Host, protocol |-> "tcp", iport |-> p.key,
                     eport |-> p.ext, lifetime |-> Lease]
    <3>1. Server!MapNow(r) /\ p.kind = "map" BY <2>1 DEF ServeMap
    <3>2. p.key \in Key /\ p.ext \in External \cup {NoPort}
      BY <3>1, RequestKnown DEF Shaped, Packet
    <3>3. r \in Server!Request
      BY <3>2, SystemAssumption
      DEF Server!Request, Server!Protocol, Server!ExternalPort, Server!NoPort, NoPort
    <3> QED BY <3>1, <3>3 DEF Server!Next
  <2>2. ASSUME NEW p \in requests, ServeDelete(p) PROVE [Server!Next]_(Server!vars)
    <3>1. p.key \in Key BY <2>2, RequestKnown DEF ServeDelete, Shaped
    <3>2. \/ Server!DeleteOne(Host, "tcp", p.key)
          \/ gateway' = gateway /\ table' = table /\ waiting' = waiting
      BY <2>2 DEF ServeDelete
    <3> QED BY <3>1, <3>2 DEF Server!Next, Server!Protocol, Server!vars
  <2>3. CASE Restart BY <2>3 DEF Restart, Server!Next
  <2>4. CASE /\ ~Restart /\ ~ \E p \in requests : ServeMap(p) \/ ServeDelete(p)
    <3>1. gateway' = gateway /\ table' = table /\ waiting' = waiting
      BY <2>4 DEF SystemNext, systemVars, server, ClientStep, ClientReceives, RefuseMap, ServeOther,
                  Lose
    <3> QED BY <3>1 DEF Server!vars
  <2> QED BY <2>1, <2>2, <2>3, <2>4
<1> QED BY <1>1, <1>2, <1>3, SystemInvariance, PTL DEF SystemSpec, Server!Spec

-----------------------------------------------------------------------------
(***************************************************************************)
(* The third part is about the detector of restarts, for clocks of any     *)
(* length, any number of packets and of restarts: PMPSession takes the     *)
(* epoch of a reply for the boot it belongs to, and these theorems say how *)
(* far that is what the seconds in a reply tell.  The invariant says what  *)
(* an epoch value is worth: the whole seconds from the start of its epoch  *)
(* to its sending, and no packet of an older epoch was sent after the start*)
(* of a newer one.                                                         *)
(***************************************************************************)

StampSound(p) ==
  /\ p.start <= p.sent /\ p.sent <= now /\ p.start <= epochStart
  /\ p.epoch = (p.sent - p.start) \div 1000
  /\ p.start < epochStart => p.sent <= epochStart

StampsOrdered(p, q) == p.start < q.start => p.sent <= q.start

StampsSound ==
  \A p \in packets : StampSound(p) /\ now - p.sent <= MaxDelay

PrevSound ==
  prev # Unheard =>
    /\ StampSound(prev)
    /\ prev.sent <= prev.seenAt /\ prev.seenAt <= now
    /\ prev.seenAt - prev.sent <= MaxDelay

EpochsOrdered ==
  /\ \A p, q \in packets : StampsOrdered(p, q)
  /\ prev # Unheard => \A p \in packets : StampsOrdered(p, prev) /\ StampsOrdered(prev, p)

EpochInv == EpochTypeOK /\ StampsSound /\ PrevSound /\ EpochsOrdered

-----------------------------------------------------------------------------
\* Arithmetic: two packets of one epoch that were each at most a second under
\* way are apart by nearly the same time for the sender and for the receiver.
LEMMA SameEpochClose ==
  ASSUME NEW start \in Nat, NEW s1 \in Nat, NEW r1 \in Nat, NEW s2 \in Nat, NEW r2 \in Nat,
         start <= s1, start <= s2, s1 <= r1, s2 <= r2, r1 <= r2,
         r1 - s1 <= 1000, r2 - s2 <= 1000
  PROVE  LET e1 == (s1 - start) \div 1000
             e2 == (s2 - start) \div 1000
             c  == (r2 - r1) \div 1000
         IN  e1 \in Nat /\ e2 \in Nat /\ c \in Nat
             /\ e2 + 1 >= e1 /\ e2 - e1 <= c + 2 /\ c <= e2 - e1 + 1
<1> DEFINE e1 == (s1 - start) \div 1000
           e2 == (s2 - start) \div 1000
           c  == (r2 - r1) \div 1000
<1>1. /\ e1 \in Nat /\ 1000 * e1 <= s1 - start /\ s1 - start < 1000 * e1 + 1000
      /\ e2 \in Nat /\ 1000 * e2 <= s2 - start /\ s2 - start < 1000 * e2 + 1000
      /\ c \in Nat /\ 1000 * c <= r2 - r1 /\ r2 - r1 < 1000 * c + 1000
  OBVIOUS
<1> HIDE DEF e1, e2, c
<1>2. e2 + 1 >= e1 /\ e2 - e1 <= c + 2 /\ c <= e2 - e1 + 1
  BY <1>1
<1>3. QED
  BY <1>1, <1>2 DEF e1, e2, c

\* Arithmetic: neither test fires on such values.
LEMMA CloseNotLost ==
  ASSUME NEW e1 \in Nat, NEW e2 \in Nat, NEW c \in Nat,
         e2 + 1 >= e1, e2 - e1 <= c + 2, c <= e2 - e1 + 1
  PROVE  /\ ~(e2 + 1 < e1)
         /\ ~(c + 2 < (e2 - e1) - (e2 - e1) \div 16)
         /\ ~((e2 - e1) + 2 < c - c \div 16)
         /\ ~(e2 < e1 + (c * 7) \div 8 - 2)
<1>1. ~(e2 + 1 < e1)
  OBVIOUS
<1>2. ~(c + 2 < (e2 - e1) - (e2 - e1) \div 16)
  <2> DEFINE s == e2 - e1
             t == s \div 16
  <2>1. s \in Int /\ s >= -1 /\ s <= c + 2
    OBVIOUS
  <2>2. t \in Int /\ 16 * t <= s /\ s < 16 * t + 16
    BY <2>1
  <2> HIDE DEF s, t
  <2>3. ~(c + 2 < s - t)
    BY <2>1, <2>2
  <2>4. QED
    BY <2>3 DEF s, t
<1>3. ~((e2 - e1) + 2 < c - c \div 16)
  OBVIOUS
<1>4. ~(e2 < e1 + (c * 7) \div 8 - 2)
  OBVIOUS
<1>5. QED
  BY <1>1, <1>2, <1>3, <1>4

\* Arithmetic: a packet of a later epoch carries at most the seconds since the
\* tracker was last fed, and one more.
LEMMA NewEpochYoung ==
  ASSUME NEW start \in Nat, NEW s1 \in Nat, NEW r1 \in Nat, NEW s2 \in Nat, NEW r2 \in Nat,
         s1 <= start, start <= s2, s1 <= r1, s2 <= r2, r1 <= r2, r1 - s1 <= 1000
  PROVE  (s2 - start) \div 1000 <= (r2 - r1) \div 1000 + 1
OBVIOUS

\* Arithmetic: both tests fire on such a packet after a long enough uptime.
LEMMA YoungLost ==
  ASSUME NEW e1 \in Nat, NEW e2 \in Nat, NEW c \in Nat, e2 <= c + 1
  PROVE  /\ e1 > c \div 16 + 3 => (e2 - e1) + 2 < c - c \div 16
         /\ e1 > c - (c * 7) \div 8 + 3 => e2 < e1 + (c * 7) \div 8 - 2
OBVIOUS

-----------------------------------------------------------------------------
LEMMA EpochInitial == EpochInit => EpochInv
BY EpochAssumption, UnheardAssumption
   DEF EpochInit, EpochInv, EpochTypeOK, StampsSound, PrevSound, EpochsOrdered, Seen

LEMMA TickStep == ASSUME EpochInv, NEW d \in Steps, Tick(d) PROVE EpochInv'
<1>1. EpochTypeOK'
  BY EpochAssumption DEF EpochInv, EpochTypeOK, Tick
<1>2. StampsSound' /\ PrevSound'
  BY EpochAssumption, <1>1
  DEF EpochInv, EpochTypeOK, Tick, StampsSound, PrevSound, StampSound, Stamp, Seen
<1>3. EpochsOrdered'
  BY DEF EpochInv, Tick, EpochsOrdered, StampsOrdered
<1>4. QED
  BY <1>1, <1>2, <1>3 DEF EpochInv

LEMMA SendEpochStep == ASSUME EpochInv, SendEpoch PROVE EpochInv'
<1> DEFINE n == [epoch |-> (now - epochStart) \div 1000, sent |-> now, start |-> epochStart]
<1>1. /\ n \in Stamp /\ n.sent = now /\ n.start = epochStart
      /\ n.epoch = (now - epochStart) \div 1000
  BY DEF EpochInv, EpochTypeOK, Stamp
<1>2. /\ packets' = packets \cup {n}
      /\ UNCHANGED <<dialect, now, epochStart, restarts, prev, reported>>
  BY DEF SendEpoch
<1> HIDE DEF n
<1>3. EpochTypeOK'
  BY <1>1, <1>2 DEF EpochInv, EpochTypeOK
<1>4. StampsSound'
  BY <1>1, <1>2, EpochAssumption DEF EpochInv, EpochTypeOK, StampsSound, StampSound, Stamp
<1>5. PrevSound'
  BY <1>2 DEF EpochInv, PrevSound, StampSound
<1>6. EpochsOrdered'
  BY <1>1, <1>2
  DEF EpochInv, EpochTypeOK, EpochsOrdered, StampsOrdered, StampsSound, PrevSound, StampSound,
      Stamp, Seen
<1>7. QED
  BY <1>3, <1>4, <1>5, <1>6 DEF EpochInv

LEMMA ResetEpochStep == ASSUME EpochInv, ResetEpoch PROVE EpochInv'
<1>1. EpochTypeOK'
  BY DEF EpochInv, EpochTypeOK, ResetEpoch
<1>2. StampsSound' /\ PrevSound'
  BY DEF EpochInv, EpochTypeOK, ResetEpoch, StampsSound, PrevSound, StampSound, Stamp, Seen
<1>3. EpochsOrdered'
  BY DEF EpochInv, ResetEpoch, EpochsOrdered, StampsOrdered
<1>4. QED
  BY <1>1, <1>2, <1>3 DEF EpochInv

\* What observe() leaves in prev.
LEMMA Remembered ==
  ASSUME EpochInv, NEW p \in packets, Observe(p)
  PROVE  /\ prev' \in Seen /\ prev' # Unheard
         /\ prev'.epoch = p.epoch /\ prev'.sent = p.sent /\ prev'.start = p.start
         /\ prev'.seenAt = now
<1>1. p \in Stamp /\ now \in Nat
  BY DEF EpochInv, EpochTypeOK
<1>2. QED
  BY <1>1, UnheardAssumption DEF Observe, Stamp, Seen

LEMMA ObserveStep == ASSUME EpochInv, NEW p \in packets, Observe(p) PROVE EpochInv'
<1>1. /\ packets' \subseteq packets /\ reported' \in Nat
      /\ UNCHANGED <<dialect, now, epochStart, restarts>>
  BY DEF EpochInv, EpochTypeOK, Observe
<1>2. EpochTypeOK'
  BY <1>1, Remembered DEF EpochInv, EpochTypeOK
<1>3. StampsSound'
  BY <1>1 DEF EpochInv, StampsSound, StampSound
<1>4. PrevSound'
  BY <1>1, Remembered DEF EpochInv, EpochTypeOK, StampsSound, PrevSound, StampSound, Stamp
<1>5. EpochsOrdered'
  BY <1>1, Remembered DEF EpochInv, EpochsOrdered, StampsOrdered
<1>6. QED
  BY <1>2, <1>3, <1>4, <1>5 DEF EpochInv

\* The invariant holds in every run.
THEOREM EpochInvariance == EpochSpec => []EpochInv
<1>1. EpochInv /\ [EpochNext]_epochVars => EpochInv'
  <2> SUFFICES ASSUME EpochInv, [EpochNext]_epochVars PROVE EpochInv'
    OBVIOUS
  <2>1. CASE UNCHANGED epochVars
    BY <2>1
    DEF epochVars, EpochInv, EpochTypeOK, StampsSound, PrevSound, EpochsOrdered, StampSound,
        StampsOrdered
  <2>2. CASE EpochNext
    BY <2>2, TickStep, SendEpochStep, ResetEpochStep, ObserveStep DEF EpochNext
  <2>3. QED
    BY <2>1, <2>2
<1>2. QED
  BY EpochInitial, <1>1, PTL DEF EpochSpec

\* EpochTypeOK in every run.
THEOREM EpochTypeCorrect == EpochSpec => []EpochTypeOK
<1>1. EpochInv => EpochTypeOK
  BY DEF EpochInv
<1>2. QED
  BY <1>1, EpochInvariance, PTL

-----------------------------------------------------------------------------
\* The clock never goes back, so Elapsed() is the plain difference.
LEMMA ElapsedIs ==
  ASSUME EpochInv, prev # Unheard
  PROVE  Elapsed(prev.seenAt, now) = (now - prev.seenAt) \div 1000
BY DEF EpochInv, EpochTypeOK, PrevSound, Seen, Elapsed

\* One packet of the epoch last heard from never makes observe() report a loss.
LEMMA SameEpochQuiet ==
  ASSUME EpochInv, NEW p \in packets, prev # Unheard, p.start = prev.start
  PROVE  ~Lost(prev, p.epoch, now)
<1>1. /\ p \in Stamp /\ prev \in Seen /\ now \in Nat
  BY DEF EpochInv, EpochTypeOK
<1>2. /\ p.epoch \in Nat /\ p.sent \in Nat /\ p.start \in Nat
      /\ prev.epoch \in Nat /\ prev.sent \in Nat /\ prev.start \in Nat /\ prev.seenAt \in Nat
  BY <1>1 DEF Stamp, Seen
<1>3. /\ p.epoch = (p.sent - p.start) \div 1000
      /\ prev.epoch = (prev.sent - p.start) \div 1000
      /\ p.start <= p.sent /\ p.start <= prev.sent
      /\ p.sent <= now /\ prev.sent <= prev.seenAt /\ prev.seenAt <= now
      /\ now - p.sent <= 1000 /\ prev.seenAt - prev.sent <= 1000
  <2>1. StampSound(p) /\ now - p.sent <= MaxDelay
    BY DEF EpochInv, StampsSound
  <2>2. /\ StampSound(prev) /\ prev.sent <= prev.seenAt /\ prev.seenAt <= now
        /\ prev.seenAt - prev.sent <= MaxDelay
    BY DEF EpochInv, PrevSound
  <2>3. prev.epoch = (prev.sent - p.start) \div 1000 /\ p.start <= prev.sent
    BY <2>2 DEF StampSound
  <2>4. MaxDelay \in Nat /\ MaxDelay <= 1000
    BY EpochAssumption
  <2>5. now - p.sent <= 1000 /\ prev.seenAt - prev.sent <= 1000
    BY <1>1, <1>2, <2>1, <2>2, <2>4
  <2>6. QED
    BY <2>1, <2>2, <2>3, <2>5 DEF StampSound
<1> DEFINE c == (now - prev.seenAt) \div 1000
<1>4. /\ c \in Nat /\ p.epoch + 1 >= prev.epoch
      /\ p.epoch - prev.epoch <= c + 2 /\ c <= p.epoch - prev.epoch + 1
  BY <1>1, <1>2, <1>3, SameEpochClose
<1>5. Elapsed(prev.seenAt, now) = c
  BY ElapsedIs
<1> HIDE DEF c
<1>6. /\ ~(p.epoch + 1 < prev.epoch)
      /\ ~(c + 2 < (p.epoch - prev.epoch) - (p.epoch - prev.epoch) \div 16)
      /\ ~((p.epoch - prev.epoch) + 2 < c - c \div 16)
      /\ ~(p.epoch < prev.epoch + (c * 7) \div 8 - 2)
  BY <1>2, <1>4, CloseNotLost
<1>7. QED
  BY <1>5, <1>6 DEF Lost, PcpLost, NatpmpLost

\* A step that reports a loss has received a packet of another epoch than the
\* one before: no delay up to a second, reordering or silence is mistaken for
\* a restart of the gateway by observe().
THEOREM FalseAlarmFree == EpochSpec => NoFalseAlarm
<1> DEFINE A == reported' # reported => prev # Unheard /\ prev'.start # prev.start
<1>1. EpochInv /\ [EpochNext]_epochVars => [A]_epochVars
  <2> SUFFICES ASSUME EpochInv, EpochNext, reported' # reported
               PROVE  prev # Unheard /\ prev'.start # prev.start
    BY DEF epochVars
  <2>1. PICK p \in packets : Observe(p)
    BY DEF EpochNext, Tick, SendEpoch, ResetEpoch
  <2>2. prev # Unheard /\ Lost(prev, p.epoch, now)
    BY <2>1 DEF Observe
  <2>3. p.start # prev.start
    BY <2>2, SameEpochQuiet
  <2>4. QED
    BY <2>1, <2>2, <2>3, Remembered
<1>2. QED
  BY <1>1, EpochInvariance, PTL DEF EpochSpec, NoFalseAlarm

\* The first packet of a new epoch after a long enough uptime.
LEMMA NewEpochReported ==
  ASSUME EpochInv, NEW p \in packets, prev # Unheard, p.start > prev.start, LongUp(prev, now)
  PROVE  Lost(prev, p.epoch, now)
<1>1. /\ p \in Stamp /\ prev \in Seen /\ now \in Nat
  BY DEF EpochInv, EpochTypeOK
<1>2. /\ p.epoch \in Nat /\ p.sent \in Nat /\ p.start \in Nat
      /\ prev.epoch \in Nat /\ prev.sent \in Nat /\ prev.start \in Nat /\ prev.seenAt \in Nat
  BY <1>1 DEF Stamp, Seen
<1>3. /\ p.epoch = (p.sent - p.start) \div 1000
      /\ prev.sent <= p.start /\ p.start <= p.sent /\ p.sent <= now
      /\ prev.sent <= prev.seenAt /\ prev.seenAt <= now /\ prev.seenAt - prev.sent <= 1000
  BY <1>2, EpochAssumption DEF EpochInv, StampsSound, PrevSound, StampSound, EpochsOrdered, StampsOrdered
<1> DEFINE c == (now - prev.seenAt) \div 1000
<1>4. c \in Nat
  BY <1>1, <1>2, <1>3
<1>5. p.epoch <= c + 1
  BY <1>1, <1>2, <1>3, NewEpochYoung
<1>6. Elapsed(prev.seenAt, now) = c
  BY ElapsedIs
<1> HIDE DEF c
<1>7. /\ prev.epoch > c \div 16 + 3 => (p.epoch - prev.epoch) + 2 < c - c \div 16
      /\ prev.epoch > c - (c * 7) \div 8 + 3 => p.epoch < prev.epoch + (c * 7) \div 8 - 2
  BY <1>2, <1>4, <1>5, YoungLost
<1>8. QED
  BY <1>6, <1>7 DEF Lost, PcpLost, NatpmpLost, LongUp

\* The first packet received from a new epoch makes observe() report the loss,
\* if the gateway had been up long enough when it was last heard from.
THEOREM RestartSeen == EpochSpec => RestartNoticed
<1> DEFINE A == /\ prev # Unheard /\ prev' # prev
                /\ prev'.start > prev.start
                /\ LongUp(prev, now)
                => reported' = reported + 1
<1>1. EpochInv /\ [EpochNext]_epochVars => [A]_epochVars
  <2> SUFFICES ASSUME EpochInv, EpochNext, prev # Unheard, prev' # prev,
                      prev'.start > prev.start, LongUp(prev, now)
               PROVE  reported' = reported + 1
    BY DEF epochVars
  <2>1. PICK p \in packets : Observe(p)
    BY DEF EpochNext, Tick, SendEpoch, ResetEpoch
  <2>2. Lost(prev, p.epoch, now)
    BY <2>1, Remembered, NewEpochReported
  <2>3. QED
    BY <2>1, <2>2 DEF Observe
<1>2. QED
  BY <1>1, EpochInvariance, PTL DEF EpochSpec, RestartNoticed
=============================================================================
