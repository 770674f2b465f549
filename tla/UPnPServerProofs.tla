-------------------------- MODULE UPnPServerProofs --------------------------
(***************************************************************************)
(* What the UPnP gateway engine keeps beside its tables is exact for any   *)
(* number of clients, ports, pinholes and waiting requests, and no step    *)
(* taken for a client touches the mappings of another.                     *)
(***************************************************************************)
EXTENDS UPnPServer, FiniteSetTheorems, TLAPS

\* The type invariant, in two parts.
TableType ==
  /\ mappings \in [Port -> Entry \cup {None}]
  /\ tally \in [Client -> Nat]
  /\ timers \subseteq Port
  /\ sorted \in {None} \cup SUBSET Port

RestType ==
  /\ destroyed \in BOOLEAN
  /\ waiting \in [Slot -> MapRequest \cup PinholeRequest \cup {None}]
  /\ pinholes \in [PinholeId -> Pinhole \cup {None}]
  /\ nextId \in PinholeId
  /\ ptimers \in [PinholeId -> 0 .. TimerBound]
  /\ reused \subseteq PinholeId

\* The timer of a pinhole that has one runs, whatever others run for its id.
PinholeTimerRuns == \A id \in PinholeId : Timed(id) => ptimers[id] >= 1

TableInv   == TableType /\ DerivedExact
PinholeInv == RestType /\ PinholeTimersExact /\ PinholeTimerRuns
IInv       == TableInv /\ PinholeInv

-----------------------------------------------------------------------------
LEMMA Finite ==
  ASSUME TableType
  PROVE  /\ IsFiniteSet(Port) /\ Live \subseteq Port /\ IsFiniteSet(Live)
         /\ \A S : IsFiniteSet(S \cap Live) /\ Cardinality(S \cap Live) \in Nat
         /\ \A c : IsFiniteSet(LiveOf(c)) /\ Cardinality(LiveOf(c)) \in Nat
<1>1. IsFiniteSet(Port)
  BY UPnPServerAssumption, FS_Union, FS_Singleton DEF Port
<1>2. Live \subseteq Port BY DEF Live
<1>3. \A S : S \cap Live \subseteq Port BY <1>2
<1>4. \A c : LiveOf(c) \subseteq Port BY DEF LiveOf, Live
<1> QED BY <1>1, <1>2, <1>3, <1>4, FS_Subset, FS_CardinalityType

LEMMA InitIInv == Init => IInv
<1> SUFFICES ASSUME Init PROVE IInv OBVIOUS
<1> USE UPnPServerAssumption
<1>1. Live = {} BY DEF Init, Live
<1>2. \A c : Cardinality(LiveOf(c)) = 0
  <2>1. \A c : LiveOf(c) = {} BY <1>1 DEF LiveOf
  <2> QED BY <2>1, FS_EmptySet
<1>3. TableInv BY <1>1, <1>2 DEF Init, TableInv, TableType, DerivedExact
<1>4. RestType
  <2>1. 1 \in PinholeId /\ 0 \in 0 .. TimerBound BY DEF PinholeId
  <2> QED BY <2>1 DEF Init, RestType
<1>5. \A id \in PinholeId : pinholes[id] = None /\ ptimers[id] = 0 BY DEF Init
<1>6. PinholeTimersExact /\ PinholeTimerRuns
  BY <1>5 DEF PinholeTimersExact, PinholeTimerRuns, Timed, Ticks
<1> QED BY <1>3, <1>4, <1>6 DEF IInv, PinholeInv

\* remove() of live ports keeps what is derived exact.
LEMMA RemoveKeeps ==
  ASSUME TableInv, NEW gone \in SUBSET Live, gone # {}, Remove(gone), destroyed' = destroyed
  PROVE  TableInv'
<1> USE UPnPServerAssumption
<1>1. \A p \in Port : mappings'[p] = IF p \in gone THEN None ELSE mappings[p] BY DEF Remove
<1>2. Live' = Live \ gone BY <1>1 DEF Live
<1>3. \A c \in Client : LiveOf(c)' = LiveOf(c) \ (gone \cap LiveOf(c))
  BY <1>1, <1>2 DEF LiveOf, Live
<1>4. ASSUME NEW c \in Client
      PROVE  /\ Cardinality(gone \cap LiveOf(c)) \in Nat
             /\ Cardinality(LiveOf(c)') = Cardinality(LiveOf(c)) - Cardinality(gone \cap LiveOf(c))
             /\ Cardinality(gone \cap LiveOf(c)) <= Cardinality(LiveOf(c))
  <2>1. IsFiniteSet(LiveOf(c)) /\ Cardinality(LiveOf(c)) \in Nat BY Finite DEF TableInv
  <2>2. gone \cap LiveOf(c) \subseteq LiveOf(c) OBVIOUS
  <2>3. IsFiniteSet(gone \cap LiveOf(c))
        /\ Cardinality(gone \cap LiveOf(c)) <= Cardinality(LiveOf(c))
    BY <2>1, <2>2, FS_Subset
  <2>4. Cardinality(LiveOf(c) \ (gone \cap LiveOf(c)))
          = Cardinality(LiveOf(c)) - Cardinality(LiveOf(c) \cap (gone \cap LiveOf(c)))
    BY <2>1, <2>3, FS_Difference
  <2>5. LiveOf(c) \cap (gone \cap LiveOf(c)) = gone \cap LiveOf(c) OBVIOUS
  <2> QED BY <1>3, <2>3, <2>4, <2>5, FS_CardinalityType
<1>5. \A c \in Client : tally'[c] = Dropped(c, Cardinality(gone \cap LiveOf(c))) BY DEF Remove
<1>6. TableType'
  <2>1. mappings' \in [Port -> Entry \cup {None}] BY DEF Remove, TableInv, TableType
  <2>2. ASSUME NEW c \in Client PROVE tally'[c] \in Nat
    <3>1. tally[c] \in Nat BY DEF TableInv, TableType
    <3>2. Cardinality(gone \cap LiveOf(c)) \in Nat BY <1>4
    <3>3. tally'[c] = Dropped(c, Cardinality(gone \cap LiveOf(c))) BY <1>5
    <3> QED BY <3>1, <3>2, <3>3 DEF Dropped
  <2>3. tally' \in [Client -> Nat] BY <2>2 DEF Remove
  <2> QED BY <2>1, <2>3 DEF Remove, TableInv, TableType
<1>7. timers' = {p \in Live' : mappings'[p].finite}
  BY <1>1, <1>2 DEF Remove, TableInv, DerivedExact, Live
<1>8. ASSUME ~destroyed', NEW c \in Client PROVE tally'[c] = Cardinality(LiveOf(c)')
  <2>1. tally[c] = Cardinality(LiveOf(c)) /\ tally[c] \in Nat
    BY <1>8 DEF TableInv, TableType, DerivedExact
  <2> DEFINE n == Cardinality(LiveOf(c))
             k == Cardinality(gone \cap LiveOf(c))
  <2>2. k \in Nat /\ k <= n /\ Cardinality(LiveOf(c)') = n - k BY <1>4
  <2>3. tally'[c] = Dropped(c, k) BY <1>5
  <2>4. Dropped(c, k) = IF k >= n THEN 0 ELSE n - k BY <2>1 DEF Dropped
  <2>5. n \in Nat BY <2>1
  <2> HIDE DEF n, k
  <2>6. (IF k >= n THEN 0 ELSE n - k) = n - k BY <2>2, <2>5
  <2> QED BY <2>2, <2>3, <2>4, <2>6
<1>9. sorted' = None BY DEF Remove
<1> QED BY <1>6, <1>7, <1>8, <1>9 DEF TableInv, DerivedExact

\* An entry is stored on a port its client may have; list is the sorted list or
\* a new one.
LEMMA StoreKeeps ==
  ASSUME TableInv, NEW p \in Port, NEW r \in MapRequest, NEW list, list \in {sorted, Live},
         Store(p, r, list), destroyed' = destroyed
  PROVE  TableInv'
<1> USE UPnPServerAssumption
<1>0. r.client \in Client /\ r.iport \in InternalPort /\ r.finite \in BOOLEAN BY DEF MapRequest
<1>1. CASE p \in Live
  <2>1. mappings[p] \in Entry BY <1>1 DEF TableInv, TableType, Live
  <2>2. /\ mappings' = [mappings EXCEPT ![p].iport = r.iport, ![p].finite = r.finite]
        /\ sorted' = list /\ tally' = tally
    BY <1>1 DEF Store
  <2>3. mappings'[p] \in Entry /\ mappings'[p].client = mappings[p].client
        /\ mappings'[p].finite = r.finite
    BY <1>0, <2>1, <2>2 DEF Entry, TableInv, TableType
  <2>4. mappings' \in [Port -> Entry \cup {None}] /\ \A q \in Port \ {p} : mappings'[q] = mappings[q]
    BY <2>2, <2>3 DEF TableInv, TableType
  <2>5. Live' = Live /\ \A c \in Client : LiveOf(c)' = LiveOf(c)
    <3>1. mappings'[p] # None BY <2>3
    <3>2. Live' = Live BY <1>1, <2>4, <3>1 DEF Live
    <3> QED BY <2>3, <2>4, <3>2 DEF LiveOf, Live
  <2>6. timers' = {q \in Live' : mappings'[q].finite}
    BY <1>0, <1>1, <2>3, <2>4, <2>5 DEF Store, TableInv, DerivedExact, Live
  <2>7. TableType' BY <2>2, <2>4 DEF Store, TableInv, TableType, Live
  <2>8. ~destroyed' => sorted' \in {None, Live'} /\ \A c \in Client : tally'[c] = Cardinality(LiveOf(c)')
    BY <2>2, <2>5 DEF TableInv, DerivedExact
  <2> QED BY <2>6, <2>7, <2>8 DEF TableInv, DerivedExact
<1>2. CASE p \notin Live
  <2> DEFINE new == [client |-> r.client, iport |-> r.iport, finite |-> r.finite]
  <2>1. mappings' = [mappings EXCEPT ![p] = new] /\ sorted' = None
        /\ tally' = [tally EXCEPT ![r.client] = @ + 1]
    BY <1>2 DEF Store
  <2>2. new \in Entry BY <1>0 DEF Entry
  <2>3. mappings'[p] = new /\ mappings' \in [Port -> Entry \cup {None}]
        /\ \A q \in Port \ {p} : mappings'[q] = mappings[q]
    BY <2>1, <2>2 DEF TableInv, TableType
  <2>4. mappings'[p] # None BY <2>2, <2>3
  <2>5. Live' = Live \cup {p} BY <2>3, <2>4 DEF Live
  <2>6. /\ LiveOf(r.client)' = LiveOf(r.client) \cup {p}
        /\ \A c \in Client \ {r.client} : LiveOf(c)' = LiveOf(c)
    BY <1>2, <2>3, <2>5 DEF LiveOf, Live
  <2>7. Cardinality(LiveOf(r.client)') = Cardinality(LiveOf(r.client)) + 1
    <3>1. IsFiniteSet(LiveOf(r.client)) /\ p \notin LiveOf(r.client)
      BY <1>2, Finite DEF TableInv, LiveOf
    <3> QED BY <2>6, <3>1, FS_AddElement
  <2>8. tally' \in [Client -> Nat] /\ tally'[r.client] = tally[r.client] + 1
        /\ \A c \in Client \ {r.client} : tally'[c] = tally[c]
    BY <1>0, <2>1 DEF TableInv, TableType
  <2>9. timers' = {q \in Live' : mappings'[q].finite}
    BY <1>0, <1>2, <2>3, <2>5 DEF Store, TableInv, DerivedExact, Live
  <2>10. TableType' BY <2>1, <2>3, <2>8 DEF Store, TableInv, TableType
  <2>11. ~destroyed' => \A c \in Client : tally'[c] = Cardinality(LiveOf(c)')
    BY <1>0, <2>6, <2>7, <2>8 DEF TableInv, DerivedExact
  <2> QED BY <2>1, <2>9, <2>10, <2>11 DEF TableInv, DerivedExact
<1> QED BY <1>1, <1>2

\* A list kept or dropped, the table untouched.
LEMMA ListKeeps ==
  ASSUME TableInv, sorted' \in {sorted, None, Live},
         UNCHANGED <<mappings, tally, timers>>, destroyed' = destroyed
  PROVE  TableInv'
<1>1. Live \subseteq Port BY DEF Live
<1>2. TableType'
  <2>1. sorted' \in {None} \cup SUBSET Port BY <1>1 DEF TableInv, TableType
  <2> QED BY <2>1 DEF TableInv, TableType
<1>3. Live' = Live /\ \A c : LiveOf(c)' = LiveOf(c) BY DEF Live, LiveOf
<1>4. DerivedExact' BY <1>3 DEF TableInv, DerivedExact
<1> QED BY <1>2, <1>4 DEF TableInv

LEMMA DecideKeeps ==
  ASSUME TableInv, NEW r \in MapRequest, NEW verdict, NEW list, list \in {sorted, Live},
         Decide(r, verdict, list), destroyed' = destroyed
  PROVE  TableInv'
<1>1. CASE sorted' = list /\ UNCHANGED <<mappings, tally, timers>>
  BY <1>1, ListKeeps
<1>2. CASE \E wanted \in IF Steer THEN Port ELSE {r.port} :
             \E p \in Grants(r, wanted) : Store(p, r, list)
  <2>0. PICK wanted \in IF Steer THEN Port ELSE {r.port} :
               \E p \in Grants(r, wanted) : Store(p, r, list)
    BY <1>2
  <2>1. PICK p \in Grants(r, wanted) : Store(p, r, list) BY <2>0
  <2>2. wanted \in Port BY <2>0 DEF MapRequest, Port
  <2>3. p \in Port BY <2>1, <2>2 DEF Grants, Allocations, Port
  <2> QED BY <2>1, <2>3, StoreKeeps
<1> QED BY <1>1, <1>2 DEF Decide

\* The steps on the port mappings keep what is derived from them exact.
LEMMA TableStep ==
  ASSUME TableInv, RestType, [Next]_vars
  PROVE  TableInv'
<1> USE UPnPServerAssumption
<1>0. \A r : Counted(r) \in {sorted, Live}
  BY DEF Counted, Sorted
<1>1. ASSUME NEW r \in MapRequest, NEW verdict \in Verdict, MapNow(r, verdict) PROVE TableInv'
  <2>1. Decide(r, verdict, Counted(r)) /\ destroyed' = destroyed BY <1>1 DEF MapNow
  <2>2. Counted(r) \in {sorted, Live} BY <1>0
  <2> QED BY <2>1, <2>2, DecideKeeps
<1>2. ASSUME NEW r \in MapRequest, NEW s \in Slot, MapLater(r, s) PROVE TableInv'
  <2>1. sorted' = Counted(r) /\ destroyed' = destroyed
        /\ UNCHANGED <<mappings, tally, timers>>
    BY <1>2 DEF MapLater
  <2> QED BY <1>0, <2>1, ListKeeps
<1>3. ASSUME NEW s \in Slot, NEW verdict \in Verdict, MapResumed(s, verdict) PROVE TableInv'
  <2>1. /\ waiting[s] \in MapRequest
        /\ Decide(waiting[s], verdict, sorted)
        /\ destroyed' = destroyed
    BY <1>3 DEF MapResumed
  <2> QED BY <2>1, DecideKeeps
<1>4. ASSUME NEW c \in Client, NEW p \in Port, DeletePortMapping(c, p) PROVE TableInv'
  <2>1. {p} \in SUBSET Live /\ {p} # {} /\ Remove({p}) /\ destroyed' = destroyed
    BY <1>4 DEF DeletePortMapping
  <2> QED BY <2>1, RemoveKeeps
<1>5. ASSUME NEW c \in Client, NEW first \in Port, NEW last \in Port, DeleteRange(c, first, last)
      PROVE  TableInv'
  <2> DEFINE gone == {p \in Sorted : /\ first <= p /\ p <= last
                                     /\ ThirdParty \/ mappings[p].client = c}
  <2>1. gone # {} /\ Remove(gone) /\ ~destroyed /\ destroyed' = destroyed
    BY <1>5 DEF DeleteRange
  <2>2. Sorted = Live BY <2>1 DEF Sorted, TableInv, DerivedExact
  <2>3. gone \in SUBSET Live BY <2>2
  <2> QED BY <2>1, <2>3, RemoveKeeps
<1>6. ASSUME Walk PROVE TableInv'
  <2>1. sorted' = Sorted /\ destroyed' = destroyed /\ UNCHANGED <<mappings, tally, timers>>
    BY <1>6 DEF Walk
  <2> QED BY <2>1, ListKeeps DEF Sorted
<1>7. ASSUME NEW p \in Port, Expire(p) PROVE TableInv'
  <2>1. {p} \in SUBSET Live /\ {p} # {} /\ Remove({p}) /\ destroyed' = destroyed
    BY <1>7 DEF Expire, TableInv, DerivedExact
  <2> QED BY <2>1, RemoveKeeps
<1>8. ASSUME NEW p \in Port, Revoke(p) PROVE TableInv'
  <2>1. {p} \in SUBSET Live /\ {p} # {} /\ Remove({p}) /\ destroyed' = destroyed
    BY <1>8 DEF Revoke
  <2> QED BY <2>1, RemoveKeeps
<1>9. ASSUME destroyed' = destroyed, UNCHANGED tableVars PROVE TableInv'
  BY <1>9, ListKeeps DEF tableVars
<1>10. ASSUME Destroy PROVE TableInv'
  <2>1. Live' = {} BY <1>10 DEF Destroy, Live
  <2>2. TableType' BY <1>10 DEF Destroy, TableInv, TableType
  <2>3. DerivedExact' BY <1>10, <2>1 DEF Destroy, DerivedExact
  <2> QED BY <2>2, <2>3 DEF TableInv
<1>11. CASE UNCHANGED vars BY <1>9, <1>11 DEF vars
<1>12. CASE \/ \E r \in PinholeRequest : PinholeNow(r)
            \/ \E r \in PinholeRequest, s \in Slot : PinholeLater(r, s)
            \/ \E s \in Slot, verdict \in Verdict : PinholeResumed(s, verdict)
            \/ \E id \in PinholeId, finite \in BOOLEAN : UpdatePinhole(id, finite)
            \/ \E id \in PinholeId : DeletePinhole(id)
            \/ \E id \in PinholeId : PinholeExpires(id)
  <2>1. destroyed' = destroyed /\ UNCHANGED tableVars
    BY <1>12 DEF PinholeNow, PinholeLater, PinholeResumed, UpdatePinhole, DeletePinhole, PinholeExpires
  <2> QED BY <1>9, <2>1
<1> QED
  BY <1>1, <1>2, <1>3, <1>4, <1>5, <1>6, <1>7, <1>8, <1>10, <1>11, <1>12 DEF Next

-----------------------------------------------------------------------------
(* The pinholes.                                                           *)

LEMMA TicksRange == ASSUME NEW f \in BOOLEAN PROVE Ticks(f) \in 0 .. 1 /\ (Ticks(f) = 1 <=> f)
BY DEF Ticks

\* What an action has done to one pinhole, and the others left alone.
LEMMA OnePinhole ==
  ASSUME PinholeInv, NEW id \in PinholeId, NEW n \in 0 .. TimerBound, NEW hole \in Pinhole \cup {None},
         pinholes' = [pinholes EXCEPT ![id] = hole], ptimers' = [ptimers EXCEPT ![id] = n],
         reused \subseteq reused', reused' \subseteq PinholeId, nextId' \in PinholeId,
         destroyed' \in BOOLEAN, waiting' \in [Slot -> MapRequest \cup PinholeRequest \cup {None}],
         id \notin reused' => n = Ticks(hole # None /\ hole.finite),
         hole # None /\ hole.finite => n >= 1
  PROVE  PinholeInv'
<1> USE UPnPServerAssumption
<1>1. pinholes \in [PinholeId -> Pinhole \cup {None}] /\ ptimers \in [PinholeId -> 0 .. TimerBound]
  BY DEF PinholeInv, RestType
<1>2. pinholes'[id] = hole /\ ptimers'[id] = n BY <1>1
<1>3. \A j \in PinholeId \ {id} : pinholes'[j] = pinholes[j] /\ ptimers'[j] = ptimers[j]
  BY <1>1
<1>4. Timed(id)' <=> hole # None /\ hole.finite BY <1>2 DEF Timed
<1>5. \A j \in PinholeId \ {id} : Timed(j)' <=> Timed(j) BY <1>3 DEF Timed
<1>6. RestType' BY <1>1 DEF RestType
<1>7. ASSUME NEW j \in PinholeId, j \notin reused' PROVE ptimers'[j] = Ticks(Timed(j))'
  <2>1. CASE j = id BY <1>2, <1>4, <1>7, <2>1 DEF Ticks
  <2>2. CASE j # id
    <3>1. ptimers[j] = Ticks(Timed(j)) BY <1>7 DEF PinholeInv, PinholeTimersExact
    <3> QED BY <1>3, <1>5, <2>2, <3>1 DEF Ticks
  <2> QED BY <2>1, <2>2
<1>8. ASSUME NEW j \in PinholeId, Timed(j)' PROVE ptimers'[j] >= 1
  <2>1. CASE j = id BY <1>2, <1>4, <1>8, <2>1
  <2>2. CASE j # id BY <1>3, <1>5, <1>8, <2>2 DEF PinholeInv, PinholeTimerRuns
  <2> QED BY <2>1, <2>2
<1>9. PinholeTimersExact' BY <1>7 DEF PinholeTimersExact
<1>10. PinholeTimerRuns' BY <1>8 DEF PinholeTimerRuns
<1> QED BY <1>6, <1>9, <1>10 DEF PinholeInv

LEMMA OpenKeeps ==
  ASSUME PinholeInv, NEW r \in PinholeRequest, OpenPinhole(r), destroyed' \in BOOLEAN,
         waiting' \in [Slot -> MapRequest \cup PinholeRequest \cup {None}]
  PROVE  PinholeInv'
<1> USE UPnPServerAssumption
<1> DEFINE id == nextId
           n  == ptimers[id] + Ticks(r.finite)
<1>1. id \in PinholeId /\ ptimers[id] \in 0 .. TimerBound BY DEF PinholeInv, RestType
<1>2. r \in Pinhole /\ r.finite \in BOOLEAN /\ r # None BY DEF PinholeRequest, Pinhole
<1>3. Ticks(r.finite) \in 0 .. 1 /\ (r.finite => Ticks(r.finite) = 1) BY <1>2, TicksRange
<1>4. n \in 0 .. TimerBound /\ (r.finite => n >= 1) BY <1>1, <1>3 DEF OpenPinhole
<1>5. nextId' \in PinholeId
  <2>1. nextId' = IF id = MaxId THEN 1 ELSE id + 1 BY DEF OpenPinhole
  <2> QED BY <1>1, <2>1 DEF PinholeId
<1>6. reused \subseteq reused' /\ reused' \subseteq PinholeId
  <2>1. reused \subseteq PinholeId BY DEF PinholeInv, RestType
  <2> QED BY <1>1, <2>1 DEF OpenPinhole
<1>7. /\ pinholes' = [pinholes EXCEPT ![id] = r]
      /\ ptimers' = [ptimers EXCEPT ![id] = n]
  BY DEF OpenPinhole
<1>8. ASSUME id \notin reused' PROVE n = Ticks(r # None /\ r.finite)
  <2>1. pinholes[id] = None /\ id \notin reused BY <1>8 DEF OpenPinhole
  <2>2. ptimers[id] = 0 BY <1>1, <2>1 DEF PinholeInv, PinholeTimersExact, Timed, Ticks
  <2>3. n = Ticks(r.finite) BY <1>3, <2>2
  <2> QED BY <1>2, <2>3 DEF Ticks
<1> HIDE DEF id, n
<1> QED BY <1>1, <1>2, <1>4, <1>5, <1>6, <1>7, <1>8, OnePinhole

\* A pinhole that is open changes or goes, with its timer.
LEMMA RetimeKeeps ==
  ASSUME PinholeInv, NEW id \in PinholeId, NEW hole \in Pinhole \cup {None}, NEW f \in BOOLEAN,
         f <=> (hole # None /\ hole.finite),
         pinholes' = [pinholes EXCEPT ![id] = hole],
         ptimers' = [ptimers EXCEPT ![id] = ptimers[id] - Ticks(Timed(id)) + Ticks(f)],
         ptimers[id] - Ticks(Timed(id)) + Ticks(f) <= TimerBound,
         UNCHANGED <<destroyed, waiting, nextId, reused>>
  PROVE  PinholeInv'
<1> USE UPnPServerAssumption
<1> DEFINE n == ptimers[id] - Ticks(Timed(id)) + Ticks(f)
<1>1. ptimers[id] \in 0 .. TimerBound BY DEF PinholeInv, RestType
<1>2. Ticks(f) \in 0 .. 1 /\ (f => Ticks(f) = 1) BY TicksRange
<1>3. Ticks(Timed(id)) \in 0 .. 1 /\ (Ticks(Timed(id)) = 1 => ptimers[id] >= 1)
  BY <1>1 DEF Ticks, PinholeInv, PinholeTimerRuns
<1>4. ptimers[id] - Ticks(Timed(id)) >= 0 BY <1>1, <1>3
<1>5. n \in 0 .. TimerBound /\ (f => n >= 1) BY <1>1, <1>2, <1>3, <1>4
<1>6. ASSUME id \notin reused PROVE n = Ticks(f)
  <2>1. ptimers[id] = Ticks(Timed(id)) BY <1>6 DEF PinholeInv, PinholeTimersExact
  <2> QED BY <1>1, <1>2, <1>3, <2>1
<1>7. Ticks(f) = Ticks(hole # None /\ hole.finite) BY DEF Ticks
<1>8. /\ destroyed' \in BOOLEAN /\ nextId' \in PinholeId /\ reused \subseteq reused'
      /\ waiting' \in [Slot -> MapRequest \cup PinholeRequest \cup {None}]
      /\ reused' \subseteq PinholeId
  BY DEF PinholeInv, RestType
<1>9. ptimers' = [ptimers EXCEPT ![id] = n] OBVIOUS
<1>10. id \notin reused' => n = Ticks(hole # None /\ hole.finite) BY <1>6, <1>7
<1>11. hole # None /\ hole.finite => n >= 1 BY <1>5
<1> HIDE DEF n
<1> QED BY <1>5, <1>8, <1>9, <1>10, <1>11, OnePinhole

\* No step leaves a timer of a pinhole behind.
LEMMA PinholeStep ==
  ASSUME PinholeInv, [Next]_vars
  PROVE  PinholeInv'
<1> USE UPnPServerAssumption
<1>0. ASSUME UNCHANGED pinholeVars, destroyed' \in BOOLEAN,
             waiting' \in [Slot -> MapRequest \cup PinholeRequest \cup {None}]
      PROVE  PinholeInv'
  <2>1. pinholes' = pinholes /\ nextId' = nextId /\ ptimers' = ptimers /\ reused' = reused
    BY <1>0 DEF pinholeVars
  <2>2. RestType' BY <1>0, <2>1 DEF PinholeInv, RestType
  <2>3. PinholeTimersExact' BY <2>1 DEF PinholeInv, PinholeTimersExact, Timed
  <2>4. PinholeTimerRuns' BY <2>1 DEF PinholeInv, PinholeTimerRuns, Timed
  <2> QED BY <2>2, <2>3, <2>4 DEF PinholeInv
<1>1. destroyed \in BOOLEAN /\ waiting \in [Slot -> MapRequest \cup PinholeRequest \cup {None}]
  BY DEF PinholeInv, RestType
<1>2. \A s \in Slot, r \in MapRequest \cup PinholeRequest \cup {None} :
        [waiting EXCEPT ![s] = r] \in [Slot -> MapRequest \cup PinholeRequest \cup {None}]
  BY <1>1
<1>3. CASE UNCHANGED pinholeVars /\ UNCHANGED <<destroyed, waiting>>
  BY <1>0, <1>1, <1>3
<1>4. ASSUME NEW r \in MapRequest, NEW s \in Slot, MapLater(r, s) PROVE PinholeInv'
  BY <1>0, <1>1, <1>2, <1>4 DEF MapLater
<1>5. ASSUME NEW s \in Slot, NEW verdict \in Verdict, MapResumed(s, verdict) PROVE PinholeInv'
  BY <1>0, <1>1, <1>2, <1>5 DEF MapResumed
<1>6. ASSUME NEW r \in PinholeRequest, PinholeNow(r) PROVE PinholeInv'
  BY <1>1, <1>6, OpenKeeps DEF PinholeNow
<1>7. ASSUME NEW r \in PinholeRequest, NEW s \in Slot, PinholeLater(r, s) PROVE PinholeInv'
  BY <1>0, <1>1, <1>2, <1>7 DEF PinholeLater
<1>8. ASSUME NEW s \in Slot, NEW verdict \in Verdict, PinholeResumed(s, verdict) PROVE PinholeInv'
  <2>1. /\ waiting[s] \in PinholeRequest /\ destroyed' = destroyed
        /\ OpenPinhole(waiting[s]) \/ UNCHANGED pinholeVars
        /\ waiting' = [waiting EXCEPT ![s] = None]
    BY <1>8 DEF PinholeResumed
  <2>2. waiting' \in [Slot -> MapRequest \cup PinholeRequest \cup {None}] BY <1>2, <2>1
  <2> QED BY <1>0, <1>1, <2>1, <2>2, OpenKeeps
<1>9. ASSUME NEW id \in PinholeId, NEW finite \in BOOLEAN, UpdatePinhole(id, finite) PROVE PinholeInv'
  <2>1. pinholes[id] \in Pinhole BY <1>9 DEF UpdatePinhole, PinholeInv, RestType
  <2> DEFINE hole == [pinholes[id] EXCEPT !.finite = finite]
  <2>2. hole \in Pinhole /\ hole.finite = finite /\ hole # None BY <2>1 DEF Pinhole
  <2>3. /\ pinholes' = [pinholes EXCEPT ![id] = hole]
        /\ ptimers' = [ptimers EXCEPT ![id] = ptimers[id] - Ticks(Timed(id)) + Ticks(finite)]
        /\ ptimers[id] - Ticks(Timed(id)) + Ticks(finite) <= TimerBound
        /\ UNCHANGED <<destroyed, waiting, nextId, reused>>
    BY <1>9 DEF UpdatePinhole
  <2> HIDE DEF hole
  <2> QED BY <2>2, <2>3, RetimeKeeps
<1>10. ASSUME NEW id \in PinholeId, DeletePinhole(id) PROVE PinholeInv'
  <2>1. ptimers[id] \in 0 .. TimerBound BY DEF PinholeInv, RestType
  <2>2. Ticks(Timed(id)) \in 0 .. 1 BY DEF Ticks
  <2>3. ptimers[id] - Ticks(Timed(id)) + Ticks(FALSE) = ptimers[id] - Ticks(Timed(id))
    <3>1. ptimers[id] - Ticks(Timed(id)) \in Int BY <2>1, <2>2
    <3> QED BY <3>1 DEF Ticks
  <2>4. ptimers[id] - Ticks(Timed(id)) <= TimerBound BY <2>1, <2>2
  <2>5. /\ pinholes' = [pinholes EXCEPT ![id] = None]
        /\ ptimers' = [ptimers EXCEPT ![id] = ptimers[id] - Ticks(Timed(id))]
        /\ UNCHANGED <<destroyed, waiting, nextId, reused>>
    BY <1>10 DEF DeletePinhole
  <2> QED BY <2>3, <2>4, <2>5, RetimeKeeps
<1>11. ASSUME NEW id \in PinholeId, PinholeExpires(id) PROVE PinholeInv'
  <2> DEFINE n == ptimers[id] - 1
  <2>1. ptimers[id] \in 0 .. TimerBound /\ ptimers[id] > 0
    BY <1>11 DEF PinholeExpires, PinholeInv, RestType
  <2>2. n \in 0 .. TimerBound BY <2>1
  <2>3. id \notin reused => n = 0
    BY <2>1 DEF PinholeInv, PinholeTimersExact, Ticks
  <2>4. /\ pinholes' = [pinholes EXCEPT ![id] = None] /\ ptimers' = [ptimers EXCEPT ![id] = n]
        /\ reused' = reused /\ nextId' = nextId /\ destroyed' = destroyed /\ waiting' = waiting
    BY <1>11 DEF PinholeExpires
  <2>5. reused \subseteq PinholeId /\ nextId \in PinholeId BY DEF PinholeInv, RestType
  <2>6. Ticks(None # None /\ None.finite) = 0 BY DEF Ticks
  <2> HIDE DEF n
  <2> QED BY <1>1, <2>2, <2>3, <2>4, <2>5, <2>6, OnePinhole
<1>12. ASSUME Destroy PROVE PinholeInv'
  <2>1. /\ \A id \in PinholeId : pinholes'[id] = None
        /\ \A id \in PinholeId : ptimers'[id] = ptimers[id] - Ticks(Timed(id))
    BY <1>12 DEF Destroy
  <2>2. ASSUME NEW id \in PinholeId PROVE ptimers'[id] \in 0 .. TimerBound
    <3>1. ptimers[id] \in 0 .. TimerBound BY DEF PinholeInv, RestType
    <3>2. Ticks(Timed(id)) \in 0 .. 1 /\ (Ticks(Timed(id)) = 1 => ptimers[id] >= 1)
      BY <3>1 DEF Ticks, PinholeInv, PinholeTimerRuns
    <3> QED BY <2>1, <3>1, <3>2
  <2>3. pinholes' \in [PinholeId -> Pinhole \cup {None}] BY <1>12 DEF Destroy
  <2>4. ptimers' \in [PinholeId -> 0 .. TimerBound]
    <3>1. ptimers' = [id \in PinholeId |-> ptimers'[id]] BY <1>12 DEF Destroy
    <3> QED BY <2>2, <3>1
  <2>5. RestType' BY <1>12, <2>3, <2>4 DEF Destroy, PinholeInv, RestType
  <2>6. \A id \in PinholeId : ~Timed(id)' BY <2>1 DEF Timed
  <2>7. ASSUME NEW id \in PinholeId, id \notin reused' PROVE ptimers'[id] = Ticks(Timed(id))'
    <3>1. ptimers[id] = Ticks(Timed(id))
      BY <1>12, <2>7 DEF Destroy, PinholeInv, PinholeTimersExact
    <3>2. Ticks(Timed(id)) \in 0 .. 1 BY DEF Ticks
    <3>3. ptimers'[id] = 0 BY <2>1, <3>1, <3>2
    <3> QED BY <2>6, <3>3 DEF Ticks
  <2>8. PinholeTimersExact' BY <2>7 DEF PinholeTimersExact
  <2>9. PinholeTimerRuns' BY <2>6 DEF PinholeTimerRuns
  <2> QED BY <2>5, <2>8, <2>9 DEF PinholeInv
<1>13. CASE \/ \E r \in MapRequest, verdict \in Verdict : MapNow(r, verdict)
            \/ \E c \in Client, p \in Port : DeletePortMapping(c, p)
            \/ \E c \in Client, first, last \in Port : DeleteRange(c, first, last)
            \/ Walk
            \/ \E p \in Port : Expire(p)
            \/ \E p \in Port : Revoke(p)
  <2>1. UNCHANGED pinholeVars /\ UNCHANGED <<destroyed, waiting>>
    BY <1>13 DEF MapNow, DeletePortMapping, DeleteRange, Walk, Expire, Revoke
  <2> QED BY <1>3, <2>1
<1>14. CASE UNCHANGED vars BY <1>3, <1>14 DEF vars
<1> QED
  BY <1>4, <1>5, <1>6, <1>7, <1>8, <1>9, <1>10, <1>11, <1>12, <1>13, <1>14 DEF Next

-----------------------------------------------------------------------------
LEMMA Invariance == Spec => []IInv
<1>1. IInv /\ [Next]_vars => IInv'
  BY TableStep, PinholeStep DEF IInv, PinholeInv
<1> QED BY <1>1, InitIInv, PTL DEF Spec

\* Every variable keeps its type: the tally of a client never goes below zero
\* and the next pinhole id stays within what the protocol can name.
THEOREM TypeCorrect == Spec => []TypeOK
<1>1. IInv => TypeOK
  BY DEF IInv, TableInv, TableType, PinholeInv, RestType, TypeOK
<1> QED BY <1>1, Invariance, PTL

\* The tallies, the expiry timers and the sorted list always agree with the
\* table they are derived from.
THEOREM DerivedCorrect == Spec => []DerivedExact
<1>1. IInv => DerivedExact BY DEF IInv, TableInv
<1> QED BY <1>1, Invariance, PTL

\* The timers that run for a pinhole id are those of the pinhole open under it,
\* unless the id was given again while its pinhole was open.
THEOREM PinholeTimersCorrect == Spec => []PinholeTimersExact
<1>1. IInv => PinholeTimersExact BY DEF IInv, PinholeInv
<1> QED BY <1>1, Invariance, PTL

\* An entry is stored on a port that is free or held by its client.
LEMMA StoreSpares ==
  ASSUME TableType, NEW p \in Port, NEW q \in Port, p \in Live, NEW r \in MapRequest, NEW list,
         mappings[p].client # r.client, IsFree(q, r.client), Store(q, r, list)
  PROVE  mappings'[p] = mappings[p]
<1>1. p # q BY DEF IsFree
<1> QED BY <1>1 DEF Store, TableType

LEMMA DecideSpares ==
  ASSUME TableType, NEW p \in Port, p \in Live, NEW r \in MapRequest, NEW verdict, NEW list,
         mappings[p].client # r.client, Decide(r, verdict, list)
  PROVE  mappings'[p] = mappings[p]
<1>1. CASE UNCHANGED mappings BY <1>1
<1>2. CASE \E wanted \in IF Steer THEN Port ELSE {r.port} :
             \E q \in Grants(r, wanted) : Store(q, r, list)
  <2>1. PICK wanted \in IF Steer THEN Port ELSE {r.port} :
               \E q \in Grants(r, wanted) : Store(q, r, list)
    BY <1>2
  <2>2. PICK q \in Grants(r, wanted) : Store(q, r, list) BY <2>1
  <2>3. wanted \in Port BY <2>1 DEF MapRequest, Port
  <2>4. q \in Port /\ IsFree(q, r.client) BY <2>2, <2>3 DEF Grants, Allocations, Port
  <2> QED BY <2>2, <2>4, StoreSpares
<1> QED BY <1>1, <1>2 DEF Decide

\* A step taken for one client never changes the mapping of another, not even
\* when the ports changed hands while its request waited.
THEOREM OthersSafe == Spec => OthersUntouched
<1>1. ASSUME TableType, ~ThirdParty, NEW p \in Live, mappings'[p] # mappings[p],
             NEW c \in Client \ {mappings[p].client}
      PROVE  ~StepOf(c)
  <2>0. p \in Port /\ mappings[p].client # c BY DEF Live
  <2>1. ASSUME NEW r \in MapRequest, r.client = c, MapNow(r, "allow") PROVE FALSE
    <3>1. Decide(r, "allow", Counted(r)) BY <2>1 DEF MapNow
    <3> QED BY <1>1, <2>0, <2>1, <3>1, DecideSpares
  <2>2. ASSUME NEW s \in Slot, waiting[s] \in MapRequest, waiting[s].client = c,
               MapResumed(s, "allow")
        PROVE  FALSE
    <3>1. Decide(waiting[s], "allow", sorted) BY <2>2 DEF MapResumed
    <3> QED BY <1>1, <2>0, <2>2, <3>1, DecideSpares
  <2>3. ASSUME NEW q \in Port, DeletePortMapping(c, q) PROVE FALSE
    <3>1. p # q BY <1>1, <2>0, <2>3 DEF DeletePortMapping
    <3>2. mappings'[p] = mappings[p] BY <2>0, <2>3, <3>1 DEF DeletePortMapping, Remove
    <3> QED BY <1>1, <3>2
  <2>4. ASSUME NEW first \in Port, NEW last \in Port, DeleteRange(c, first, last) PROVE FALSE
    <3> DEFINE gone == {q \in Sorted : /\ first <= q /\ q <= last
                                       /\ ThirdParty \/ mappings[q].client = c}
    <3>1. Remove(gone) BY <2>4 DEF DeleteRange
    <3>2. p \notin gone BY <1>1, <2>0
    <3> HIDE DEF gone
    <3>3. mappings'[p] = mappings[p] BY <2>0, <3>1, <3>2 DEF Remove
    <3> QED BY <1>1, <3>3
  <2> QED BY <2>1, <2>2, <2>3, <2>4 DEF StepOf
<1>2. TableType => (~ThirdParty =>
        \A p \in Live : mappings'[p] # mappings[p] =>
          \A c \in Client \ {mappings[p].client} : ~StepOf(c))
  BY <1>1
<1>3. IInv => TableType BY DEF IInv, TableInv
<1> QED BY <1>2, <1>3, Invariance, PTL DEF OthersUntouched
=============================================================================
