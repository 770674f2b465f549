-------------------------- MODULE PMPServerProofs --------------------------
(***************************************************************************)
(* Theorems about the gateway engine of PMPServer, for every set of        *)
(* clients and ports, every limit, and both kinds of handler.              *)
(*                                                                         *)
(* The state of the engine is one table record, so each invariant is       *)
(* stated for a table t and every table operator is shown to preserve it;  *)
(* the proofs about the actions only combine those lemmas.                 *)
(***************************************************************************)
EXTENDS PMPServer, FiniteSetTheorems, TLAPS

-----------------------------------------------------------------------------
(* Types. *)

LEMMA KeyFinite == IsFiniteSet(ExternalKey)
<1>1. IsFiniteSet(Protocol)
  <2>1. Protocol = {"tcp"} \cup {"udp"}
    BY DEF Protocol
  <2> QED BY <2>1, FS_Singleton, FS_Union
<1> QED BY <1>1, FS_Product, PortAssumption DEF ExternalKey, ExternalPort

LEMMA LiveType ==
  ASSUME NEW t \in Table, NEW k \in Live(t)
  PROVE  /\ k \in ExternalKey
         /\ k[1] \in Protocol /\ k[2] \in ExternalPort /\ k = <<k[1], k[2]>>
         /\ t.mappings[k] \in Entry
         /\ InternalOf(t, k) \in InternalKey
BY DEF Live, Table, ExternalKey, Entry, InternalOf, InternalKey

LEMMA EmptyTableType == EmptyTable \in Table
BY DEF EmptyTable, Table

LEMMA IndexAddType ==
  ASSUME NEW t \in Table, NEW k \in Live(t)
  PROVE  IndexAdd(t, k) \in Table
<1> DEFINE i == InternalOf(t, k)
           c == t.mappings[k].client
<1>1. i \in InternalKey /\ c \in Client /\ k[2] \in ExternalPort
  BY LiveType DEF Entry
<1>2. [t.byInternal EXCEPT ![i] = k[2]] \in [InternalKey -> ExternalPort \cup {NoPort}]
  BY <1>1 DEF Table
<1>3. [t.byClient EXCEPT ![c] = @ + 1] \in [Client -> Int]
  BY <1>1 DEF Table
<1>4. t.count + 1 \in Int
  BY DEF Table
<1> HIDE DEF i, c
<1> QED BY <1>1, <1>2, <1>3, <1>4 DEF IndexAdd, Table, i, c

LEMMA IndexRemoveType ==
  ASSUME NEW t \in Table, NEW k \in Live(t)
  PROVE  IndexRemove(t, k) \in Table
<1> DEFINE i == InternalOf(t, k)
           c == t.mappings[k].client
<1>1. i \in InternalKey /\ c \in Client
  BY LiveType DEF Entry
<1>2. [t.byInternal EXCEPT ![i] = NoPort] \in [InternalKey -> ExternalPort \cup {NoPort}]
  BY <1>1 DEF Table
<1>3. [t.byClient EXCEPT ![c] = IF @ <= 1 THEN 0 ELSE @ - 1] \in [Client -> Int]
  BY <1>1 DEF Table
<1>4. t.count - 1 \in Int
  BY DEF Table
<1> HIDE DEF i, c
<1> QED BY <1>1, <1>2, <1>3, <1>4 DEF IndexRemove, Table, i, c

LEMMA ArmType ==
  ASSUME NEW t \in Table, NEW k \in ExternalKey
  PROVE  Arm(t, k) \in Table
BY DEF Arm, Table

LEMMA EntryUpdateType ==
  ASSUME NEW t \in Table, NEW k \in Live(t), NEW e \in Entry
  PROVE  [t.mappings EXCEPT ![k].iport = e.iport, ![k].lifetime = e.lifetime]
           = [t.mappings EXCEPT ![k] = [client |-> t.mappings[k].client,
                                        iport |-> e.iport, lifetime |-> e.lifetime]]
BY LiveType DEF Table, Entry

\* The table after a store, field by field.
LEMMA StoreNewEffect ==
  ASSUME NEW t \in Table, NEW k \in ExternalKey \ Live(t), NEW e \in Entry
  PROVE  LET u == StoreNew(t, k, e)
         IN  /\ u \in Table
             /\ u.mappings = [t.mappings EXCEPT ![k] = e]
             /\ u.byInternal = [t.byInternal EXCEPT ![<<e.client, k[1], e.iport>>] = k[2]]
             /\ u.timers = IF e.lifetime > 0 THEN t.timers \cup {k} ELSE t.timers
<1> DEFINE a == [t EXCEPT !.mappings[k] = e]
           b == IndexAdd(a, k)
<1>1. a \in Table /\ a.mappings = [t.mappings EXCEPT ![k] = e] /\ a.mappings[k] = e
      /\ a.byInternal = t.byInternal /\ a.timers = t.timers
  BY DEF Table
<1>2. k \in Live(a)
  BY <1>1, NullAssumption DEF Live
<1>3. b \in Table
  BY <1>1, <1>2, IndexAddType
<1>4. /\ b.mappings = a.mappings /\ b.timers = a.timers
      /\ b.byInternal = [a.byInternal EXCEPT ![InternalOf(a, k)] = k[2]]
  <2> HIDE DEF a
  <2> QED BY <1>1 DEF IndexAdd, Table
<1>5. InternalOf(a, k) = <<e.client, k[1], e.iport>>
  BY <1>1 DEF InternalOf
<1>6. StoreNew(t, k, e) = Arm(b, k)
  BY DEF StoreNew
<1>7. Arm(b, k) \in Table
  BY <1>3, ArmType
<1>8. /\ Arm(b, k).mappings = b.mappings /\ Arm(b, k).byInternal = b.byInternal
      /\ Arm(b, k).timers = IF b.mappings[k].lifetime > 0 THEN b.timers \cup {k} ELSE b.timers
  <2> HIDE DEF b
  <2> QED BY <1>3 DEF Arm, Table
<1> HIDE DEF a, b
<1> QED BY <1>1, <1>4, <1>5, <1>6, <1>7, <1>8

\* byInternal once an entry that moves to another internal port left its key.
Freed(t, k, new) == IF InternalOf(t, k) = new THEN t.byInternal
                    ELSE [t.byInternal EXCEPT ![InternalOf(t, k)] = NoPort]

LEMMA StoreExistingEffect ==
  ASSUME NEW t \in Table, NEW k \in Live(t), NEW e \in Entry,
         e.client = t.mappings[k].client
  PROVE  LET u     == StoreExisting(t, k, e)
             new   == <<e.client, k[1], e.iport>>
             freed == Freed(t, k, new)
         IN  /\ u \in Table
             /\ u.mappings = [t.mappings EXCEPT ![k] = e]
             /\ u.byInternal = IF freed[new] = NoPort
                                THEN [freed EXCEPT ![new] = k[2]] ELSE freed
             /\ u.timers = IF e.lifetime > 0 THEN t.timers \cup {k} ELSE t.timers \ {k}
<1> DEFINE moved   == t.mappings[k].iport # e.iport
           dropped == IF moved THEN IndexRemove(t, k) ELSE t
           updated == [dropped EXCEPT !.mappings[k].iport    = e.iport,
                                      !.mappings[k].lifetime = e.lifetime,
                                      !.timers               = @ \ {k}]
           new     == <<e.client, k[1], e.iport>>
           indexed == IF updated.byInternal[InternalOf(updated, k)] = NoPort
                      THEN IndexAdd(updated, k) ELSE updated
<1>1. dropped \in Table
  BY IndexRemoveType
<1>2. /\ dropped.mappings = t.mappings
      /\ dropped.timers = t.timers
      /\ dropped.byInternal = IF InternalOf(t, k) = new THEN t.byInternal
                              ELSE [t.byInternal EXCEPT ![InternalOf(t, k)] = NoPort]
  <2>1. moved <=> InternalOf(t, k) # new
    BY DEF InternalOf
  <2>2. CASE moved
    BY <2>1, <2>2 DEF IndexRemove, Table
  <2>3. CASE ~moved
    BY <2>1, <2>3
  <2> QED BY <2>2, <2>3
<1>3. k \in ExternalKey /\ t.mappings[k] \in Entry /\ t.mappings \in [ExternalKey -> Entry \cup {NoEntry}]
  BY LiveType DEF Table
<1>4. e = [client |-> t.mappings[k].client, iport |-> e.iport, lifetime |-> e.lifetime]
  BY DEF Entry
<1> HIDE DEF dropped
<1>5. /\ updated.mappings = [dropped.mappings EXCEPT ![k].iport    = e.iport,
                                                     ![k].lifetime = e.lifetime]
      /\ updated.timers = dropped.timers \ {k}
      /\ updated.byInternal = dropped.byInternal
      /\ updated.byClient = dropped.byClient
      /\ updated.count = dropped.count
  BY <1>1 DEF Table
<1>6. updated.mappings = [t.mappings EXCEPT ![k] = e]
  BY <1>2, <1>4, <1>5, EntryUpdateType
<1>7. updated.mappings \in [ExternalKey -> Entry \cup {NoEntry}] /\ updated.mappings[k] = e
  BY <1>3, <1>6
<1>8. updated \in Table
  BY <1>1, <1>7 DEF Table
<1>9. k \in Live(updated) /\ InternalOf(updated, k) = new
  BY <1>3, <1>7, NullAssumption DEF Live, InternalOf
<1> HIDE DEF updated
<1>10. indexed \in Table
  BY <1>8, <1>9, IndexAddType
<1>11. /\ indexed.mappings = updated.mappings
       /\ indexed.timers = updated.timers
       /\ indexed.byInternal = IF updated.byInternal[new] = NoPort
                               THEN [updated.byInternal EXCEPT ![new] = k[2]]
                               ELSE updated.byInternal
  <2> HIDE DEF new
  <2> QED BY <1>8, <1>9 DEF IndexAdd, Table
<1>12. StoreExisting(t, k, e) = Arm(indexed, k)
  BY DEF StoreExisting, dropped, updated
<1> HIDE DEF indexed
<1>13. Arm(indexed, k) \in Table
  BY <1>3, <1>10, ArmType
<1>14. /\ Arm(indexed, k).mappings = indexed.mappings
       /\ Arm(indexed, k).byInternal = indexed.byInternal
       /\ Arm(indexed, k).timers = IF indexed.mappings[k].lifetime > 0
                                   THEN indexed.timers \cup {k} ELSE indexed.timers
  BY <1>10 DEF Arm, Table
<1>15. Arm(indexed, k).timers = IF e.lifetime > 0 THEN t.timers \cup {k} ELSE t.timers \ {k}
  BY <1>2, <1>5, <1>7, <1>11, <1>14
<1> HIDE DEF new
<1>16. Arm(indexed, k).byInternal =
         LET freed == Freed(t, k, new)
         IN  IF freed[new] = NoPort THEN [freed EXCEPT ![new] = k[2]] ELSE freed
  BY <1>2, <1>5, <1>11, <1>14 DEF Freed
<1> QED BY <1>6, <1>11, <1>12, <1>13, <1>14, <1>15, <1>16 DEF new

\* Both cases of a store at once.
LEMMA StoreEffect ==
  ASSUME NEW t \in Table, NEW k \in ExternalKey, NEW e \in Entry,
         k \in Live(t) => t.mappings[k].client = e.client
  PROVE  LET u   == Store(t, k, e)
             new == <<e.client, k[1], e.iport>>
         IN  /\ u \in Table
             /\ u.mappings = [t.mappings EXCEPT ![k] = e]
             /\ u.timers \ {k} = t.timers \ {k}
             /\ e.lifetime > 0 => k \in u.timers
             /\ e.lifetime = 0 /\ (k \in t.timers => k \in Live(t)) => k \notin u.timers
             /\ \A i \in InternalKey :
                  u.byInternal[i] =
                    IF i = new /\ (k \notin Live(t) \/ t.byInternal[new] = NoPort) THEN k[2]
                    ELSE IF k \in Live(t) /\ i = InternalOf(t, k) /\ i # new THEN NoPort
                    ELSE t.byInternal[i]
<1> DEFINE new == <<e.client, k[1], e.iport>>
<1>0. new \in InternalKey /\ k[2] \in ExternalPort /\ NoPort \notin ExternalPort
      /\ t.byInternal \in [InternalKey -> ExternalPort \cup {NoPort}]
  BY PortAssumption DEF ExternalKey, Entry, InternalKey, Table
<1>e. e.lifetime \in Nat
  BY DEF Entry
<1>1. CASE k \notin Live(t)
  <2>1. Store(t, k, e) = StoreNew(t, k, e)
    BY <1>1 DEF Store
  <2> DEFINE u == StoreNew(t, k, e)
  <2>2. /\ u \in Table
        /\ u.mappings = [t.mappings EXCEPT ![k] = e]
        /\ u.byInternal = [t.byInternal EXCEPT ![new] = k[2]]
        /\ u.timers = IF e.lifetime > 0 THEN t.timers \cup {k} ELSE t.timers
    <3>1. k \in ExternalKey \ Live(t) BY <1>1
    <3> QED BY <3>1, StoreNewEffect, SMTT(20)
  <2> HIDE DEF u, new
  <2>3. \A i \in InternalKey :
          u.byInternal[i] = IF i = new THEN k[2] ELSE t.byInternal[i]
    BY <1>0, <2>2
  <2> QED BY <1>e, <1>1, <2>1, <2>2, <2>3 DEF u, new
<1>2. CASE k \in Live(t)
  <2>1. Store(t, k, e) = StoreExisting(t, k, e)
    BY <1>2 DEF Store
  <2>2. InternalOf(t, k) \in InternalKey
    BY <1>2, LiveType
  <2> DEFINE u     == StoreExisting(t, k, e)
             freed == Freed(t, k, new)
  <2>0. e.client = t.mappings[k].client
    BY <1>2
  <2>3. /\ u \in Table
        /\ u.mappings = [t.mappings EXCEPT ![k] = e]
        /\ u.byInternal = IF freed[new] = NoPort
                           THEN [freed EXCEPT ![new] = k[2]] ELSE freed
        /\ u.timers = IF e.lifetime > 0 THEN t.timers \cup {k} ELSE t.timers \ {k}
    BY <1>2, <2>0, StoreExistingEffect
  <2> HIDE DEF u, new
  <2>4. freed \in [InternalKey -> ExternalPort \cup {NoPort}]
    BY <1>0 DEF Freed
  <2>5. freed[new] = t.byInternal[new]
    BY <1>0, <2>2 DEF Freed
  <2>6. \A i \in InternalKey :
          u.byInternal[i] =
            IF i = new /\ t.byInternal[new] = NoPort THEN k[2]
            ELSE IF i = InternalOf(t, k) /\ i # new THEN NoPort
            ELSE t.byInternal[i]
    BY <1>0, <2>2, <2>3, <2>4, <2>5 DEF Freed
  <2> QED BY <1>e, <1>2, <2>1, <2>3, <2>6 DEF u, new
<1> QED BY <1>1, <1>2

LEMMA RemoveEffect ==
  ASSUME NEW t \in Table, NEW k \in Live(t)
  PROVE  LET u == Remove(t, k)
         IN  /\ u \in Table
             /\ u.mappings = [t.mappings EXCEPT ![k] = NoEntry]
             /\ u.byInternal = [t.byInternal EXCEPT ![InternalOf(t, k)] = NoPort]
             /\ u.timers = t.timers \ {k}
<1> DEFINE a == IndexRemove(t, k)
<1>1. a \in Table
  BY IndexRemoveType
<1>2. /\ a.mappings = t.mappings /\ a.timers = t.timers
      /\ a.byInternal = [t.byInternal EXCEPT ![InternalOf(t, k)] = NoPort]
  BY DEF IndexRemove, Table
<1>3. Remove(t, k) = [a EXCEPT !.mappings[k] = NoEntry, !.timers = @ \ {k}]
  BY DEF Remove
<1>4. [t.mappings EXCEPT ![k] = NoEntry] \in [ExternalKey -> Entry \cup {NoEntry}]
  BY DEF Table
<1> HIDE DEF a
<1>5. /\ Remove(t, k).mappings = [a.mappings EXCEPT ![k] = NoEntry]
      /\ Remove(t, k).byInternal = a.byInternal
      /\ Remove(t, k).timers = a.timers \ {k}
  BY <1>1, <1>3 DEF Table
<1>6. [a EXCEPT !.mappings[k] = NoEntry, !.timers = @ \ {k}] \in Table
  <2>1. [a.mappings EXCEPT ![k] = NoEntry] \in [ExternalKey -> Entry \cup {NoEntry}]
    BY <1>2, <1>4
  <2>2. a.timers \ {k} \in SUBSET ExternalKey
    BY <1>1 DEF Table
  <2> QED BY <1>1, <2>1, <2>2 DEF Table
<1> QED BY <1>2, <1>3, <1>5, <1>6

LEMMA RemoveMissing ==
  ASSUME NEW t \in Table, NEW k \in ExternalKey \ Live(t)
  PROVE  Remove(t, k) = t
BY DEF Remove

LEMMA RemoveAllForEffect ==
  ASSUME NEW t \in Table, NEW c \in Client, NEW p \in Protocol
  PROVE  LET u    == RemoveAllFor(t, c, p)
             gone == {k \in LiveOf(t, c) : k[1] = p}
         IN  /\ u \in Table
             /\ \A k \in ExternalKey : u.mappings[k] = IF k \in gone THEN NoEntry ELSE t.mappings[k]
             /\ \A i \in InternalKey :
                  u.byInternal[i] = IF \E k \in gone : InternalOf(t, k) = i
                                    THEN NoPort ELSE t.byInternal[i]
             /\ u.timers = t.timers \ gone
<1> DEFINE gone == {k \in LiveOf(t, c) : k[1] = p}
           left == t.byClient[c] - Cardinality(gone)
<1>1. Cardinality(gone) \in Nat
  <2>1. gone \subseteq ExternalKey
    BY DEF LiveOf, Live
  <2> QED BY <2>1, KeyFinite, FS_Subset, FS_CardinalityType
<1> DEFINE mappings   == [k \in ExternalKey |-> IF k \in gone THEN NoEntry ELSE t.mappings[k]]
           byInternal == [i \in InternalKey |->
                            IF \E k \in gone : InternalOf(t, k) = i
                            THEN NoPort ELSE t.byInternal[i]]
           byClient   == [t.byClient EXCEPT ![c] = IF left < 0 THEN 0 ELSE left]
<1>2. mappings \in [ExternalKey -> Entry \cup {NoEntry}]
  BY DEF Table
<1>3. byInternal \in [InternalKey -> ExternalPort \cup {NoPort}]
  BY DEF Table
<1>4. byClient \in [Client -> Int]
  BY <1>1 DEF Table
<1>5. t.count - Cardinality(gone) \in Int /\ t.timers \ gone \in SUBSET ExternalKey
  BY <1>1 DEF Table
<1>6. RemoveAllFor(t, c, p) =
        [mappings |-> mappings, byInternal |-> byInternal, byClient |-> byClient,
         count |-> t.count - Cardinality(gone), timers |-> t.timers \ gone]
  BY DEF RemoveAllFor
<1>7. RemoveAllFor(t, c, p) \in Table
  <2> HIDE DEF mappings, byInternal, byClient, gone
  <2> QED BY <1>2, <1>3, <1>4, <1>5, <1>6 DEF Table
<1> QED BY <1>6, <1>7

-----------------------------------------------------------------------------
(* The invariant of a table, and why every operation keeps it.             *)

CompanionInv(t) ==
  \A k \in Live(t) : Companion(k) \in Live(t) =>
    t.mappings[Companion(k)].client = t.mappings[k].client

TimersInv(t) == t.timers = {k \in Live(t) : t.mappings[k].lifetime > 0}

LeaseOK(lifetime) ==
  MinLifetime <= MaxLifetime => lifetime \in MinLifetime .. MaxLifetime

LeaseInv(t) == \A k \in Live(t) : LeaseOK(t.mappings[k].lifetime)

PointersInv(t) ==
  \A i \in InternalKey :
    t.byInternal[i] # NoPort =>
      LET k == <<i[2], t.byInternal[i]>>
      IN  k \in Live(t) /\ InternalOf(t, k) = i

TableInv(t) ==
  t \in Table /\ CompanionInv(t) /\ TimersInv(t) /\ LeaseInv(t) /\ PointersInv(t)

LEMMA CompanionKey ==
  ASSUME NEW k \in ExternalKey
  PROVE  /\ Companion(k) \in ExternalKey /\ Companion(k) # k
         /\ Companion(Companion(k)) = k
BY DEF ExternalKey, Protocol, Companion

LEMMA EmptyTableInv == TableInv(EmptyTable)
<1>1. Live(EmptyTable) = {} /\ EmptyTable.timers = {}
  BY DEF Live, EmptyTable
<1>2. \A i \in InternalKey : EmptyTable.byInternal[i] = NoPort
  BY DEF EmptyTable
<1> QED BY <1>1, <1>2, EmptyTableType
    DEF TableInv, CompanionInv, TimersInv, LeaseInv, PointersInv

LEMMA RemoveInv ==
  ASSUME NEW t, TableInv(t), NEW k \in ExternalKey
  PROVE  TableInv(Remove(t, k))
<1>1. CASE k \notin Live(t)
  BY <1>1 DEF Remove
<1>2. CASE k \in Live(t)
  <2> DEFINE u == Remove(t, k)
  <2>0. t \in Table
    BY DEF TableInv
  <2>1. /\ u \in Table
        /\ u.mappings = [t.mappings EXCEPT ![k] = NoEntry]
        /\ u.byInternal = [t.byInternal EXCEPT ![InternalOf(t, k)] = NoPort]
        /\ u.timers = t.timers \ {k}
    BY <1>2, <2>0, RemoveEffect
  <2> HIDE DEF u
  <2>2. /\ Live(u) = Live(t) \ {k}
        /\ \A l \in Live(u) : u.mappings[l] = t.mappings[l]
    BY <2>0, <2>1 DEF Live, Table
  <2>3. CompanionInv(u)
    BY <2>2 DEF TableInv, CompanionInv
  <2>4. TimersInv(u)
    BY <2>1, <2>2 DEF TableInv, TimersInv
  <2>5. LeaseInv(u)
    BY <2>2 DEF TableInv, LeaseInv
  <2>6. PointersInv(u)
    <3> SUFFICES ASSUME NEW i \in InternalKey, u.byInternal[i] # NoPort
                 PROVE  LET l == <<i[2], u.byInternal[i]>>
                        IN  l \in Live(u) /\ InternalOf(u, l) = i
      BY DEF PointersInv
    <3>1. i # InternalOf(t, k) /\ u.byInternal[i] = t.byInternal[i]
      BY <2>0, <2>1 DEF Table
    <3> DEFINE l == <<i[2], t.byInternal[i]>>
    <3>2. l \in Live(t) /\ InternalOf(t, l) = i
      BY <3>1 DEF TableInv, PointersInv
    <3>3. l # k
      BY <3>1, <3>2
    <3>4. l \in Live(u) /\ InternalOf(u, l) = i
      BY <2>2, <3>2, <3>3 DEF InternalOf
    <3> QED BY <3>1, <3>4
  <2> QED BY <2>1, <2>3, <2>4, <2>5, <2>6 DEF TableInv, u
<1> QED BY <1>1, <1>2

LEMMA RemoveAllForInv ==
  ASSUME NEW t, TableInv(t), NEW c \in Client, NEW p \in Protocol
  PROVE  TableInv(RemoveAllFor(t, c, p))
<1> DEFINE u    == RemoveAllFor(t, c, p)
           gone == {k \in LiveOf(t, c) : k[1] = p}
<1>0. t \in Table
  BY DEF TableInv
<1>1. /\ u \in Table
      /\ \A k \in ExternalKey : u.mappings[k] = IF k \in gone THEN NoEntry ELSE t.mappings[k]
      /\ \A i \in InternalKey :
           u.byInternal[i] = IF \E k \in gone : InternalOf(t, k) = i
                             THEN NoPort ELSE t.byInternal[i]
      /\ u.timers = t.timers \ gone
  BY <1>0, RemoveAllForEffect
<1> HIDE DEF u
<1>2. gone \subseteq Live(t)
  BY DEF LiveOf
<1> HIDE DEF gone
<1>3. /\ Live(u) = Live(t) \ gone
      /\ \A k \in Live(u) : u.mappings[k] = t.mappings[k]
  BY <1>1, <1>2 DEF Live
<1>4. CompanionInv(u)
  BY <1>3 DEF TableInv, CompanionInv
<1>5. TimersInv(u)
  BY <1>1, <1>3 DEF TableInv, TimersInv
<1>6. LeaseInv(u)
  BY <1>3 DEF TableInv, LeaseInv
<1>7. PointersInv(u)
  <2> SUFFICES ASSUME NEW i \in InternalKey, u.byInternal[i] # NoPort
               PROVE  LET l == <<i[2], u.byInternal[i]>>
                      IN  l \in Live(u) /\ InternalOf(u, l) = i
    BY DEF PointersInv
  <2>1. u.byInternal[i] = t.byInternal[i] /\ ~ \E k \in gone : InternalOf(t, k) = i
    BY <1>1
  <2> DEFINE l == <<i[2], t.byInternal[i]>>
  <2>2. l \in Live(t) /\ InternalOf(t, l) = i
    BY <2>1 DEF TableInv, PointersInv
  <2>3. l \in Live(u) /\ InternalOf(u, l) = i
    BY <1>3, <2>1, <2>2 DEF InternalOf
  <2> QED BY <2>1, <2>3
<1> QED BY <1>1, <1>4, <1>5, <1>6, <1>7 DEF TableInv, u

LEMMA StoreInv ==
  ASSUME NEW t, TableInv(t), NEW k \in ExternalKey, NEW e \in Entry,
         IsFree(t, k, e.client), LeaseOK(e.lifetime)
  PROVE  TableInv(Store(t, k, e))
<1> DEFINE u   == Store(t, k, e)
           new == <<e.client, k[1], e.iport>>
<1>0. t \in Table
  BY DEF TableInv
<1>k. k \in Live(t) => t.mappings[k].client = e.client
  BY DEF IsFree
<1>1. /\ u \in Table
      /\ u.mappings = [t.mappings EXCEPT ![k] = e]
      /\ u.timers \ {k} = t.timers \ {k}
      /\ e.lifetime > 0 => k \in u.timers
      /\ e.lifetime = 0 /\ (k \in t.timers => k \in Live(t)) => k \notin u.timers
      /\ \A i \in InternalKey :
           u.byInternal[i] =
             IF i = new /\ (k \notin Live(t) \/ t.byInternal[new] = NoPort) THEN k[2]
             ELSE IF k \in Live(t) /\ i = InternalOf(t, k) /\ i # new THEN NoPort
             ELSE t.byInternal[i]
  BY <1>0, <1>k, StoreEffect
<1> HIDE DEF u
<1>2. e \notin {NoEntry} /\ e.lifetime \in Nat
  BY NullAssumption DEF Entry
<1>3. /\ Live(u) = Live(t) \cup {k}
      /\ u.mappings[k] = e
      /\ \A l \in Live(u) \ {k} : u.mappings[l] = t.mappings[l]
  BY <1>0, <1>1, <1>2 DEF Live, Table
<1>4. CompanionInv(u)
  <2> SUFFICES ASSUME NEW l \in Live(u), Companion(l) \in Live(u)
               PROVE  u.mappings[Companion(l)].client = u.mappings[l].client
    BY DEF CompanionInv
  <2>0. l \in ExternalKey /\ Live(t) \subseteq ExternalKey
    BY DEF Live
  <2>1. Companion(k) \in Live(t) => t.mappings[Companion(k)].client = e.client
    BY <1>k, <2>0 DEF IsFree, TableInv, CompanionInv
  <2>2. CASE l = k
    BY <1>3, <2>1, <2>2, CompanionKey
  <2>3. CASE Companion(l) = k
    <3>1. l = Companion(k) /\ l # k
      BY <2>0, <2>3, CompanionKey
    <3> QED BY <1>3, <2>1, <2>3, <3>1
  <2>4. CASE l # k /\ Companion(l) # k
    BY <1>3, <2>4 DEF TableInv, CompanionInv
  <2> QED BY <2>2, <2>3, <2>4
<1>5. TimersInv(u)
  <2>1. k \in t.timers => k \in Live(t)
    BY DEF TableInv, TimersInv
  <2>2. k \in u.timers <=> e.lifetime > 0
    BY <1>1, <1>2, <2>1
  <2>3. \A l : l # k => (l \in u.timers <=> l \in Live(u) /\ u.mappings[l].lifetime > 0)
    BY <1>1, <1>3 DEF TableInv, TimersInv
  <2> QED BY <1>3, <2>2, <2>3 DEF TimersInv
<1>6. LeaseInv(u)
  BY <1>3 DEF TableInv, LeaseInv
<1>7. PointersInv(u)
  <2> SUFFICES ASSUME NEW i \in InternalKey, u.byInternal[i] # NoPort
               PROVE  LET l == <<i[2], u.byInternal[i]>>
                      IN  l \in Live(u) /\ InternalOf(u, l) = i
    BY DEF PointersInv
  <2>1. CASE i = new /\ u.byInternal[i] = k[2]
    <3>1. <<i[2], u.byInternal[i]>> = k
      BY <2>1 DEF ExternalKey
    <3>2. InternalOf(u, k) = new
      BY <1>3 DEF InternalOf
    <3> QED BY <1>3, <2>1, <3>1, <3>2
  <2>2. CASE /\ u.byInternal[i] = t.byInternal[i]
             /\ ~(k \in Live(t) /\ i = InternalOf(t, k) /\ i # new)
    <3> DEFINE l == <<i[2], t.byInternal[i]>>
    <3>1. l \in Live(t) /\ InternalOf(t, l) = i
      BY <2>2 DEF TableInv, PointersInv
    <3>2. InternalOf(u, l) = i
      <4>1. CASE l = k
        BY <1>3, <2>2, <3>1, <4>1 DEF InternalOf
      <4>2. CASE l # k
        BY <1>3, <3>1, <4>2 DEF InternalOf
      <4> QED BY <4>1, <4>2
    <3> QED BY <1>3, <2>2, <3>1, <3>2
  <2> QED BY <1>1, <2>1, <2>2
<1> QED BY <1>1, <1>4, <1>5, <1>6, <1>7 DEF TableInv, u

LEMMA ClampLifetimeOK ==
  ASSUME NEW n \in Nat \ {0}
  PROVE  ClampLifetime(n) \in Nat /\ LeaseOK(ClampLifetime(n))
BY LimitAssumption DEF ClampLifetime, LeaseOK

\* Freeing the port found before the wait takes no freedom from another port.
LEMMA IsFreeAfterRemove ==
  ASSUME NEW t, TableInv(t), NEW k \in ExternalKey, NEW l \in ExternalKey, k # l,
         NEW c \in Client, IsFree(t, k, c)
  PROVE  IsFree(Remove(t, l), k, c)
<1>0. t \in Table
  BY DEF TableInv
<1>1. CASE l \notin Live(t)
  BY <1>1 DEF Remove
<1>2. CASE l \in Live(t)
  <2> DEFINE u == Remove(t, l)
  <2>1. u.mappings = [t.mappings EXCEPT ![l] = NoEntry]
    BY <1>0, <1>2, RemoveEffect
  <2> HIDE DEF u
  <2>2. /\ Live(u) = Live(t) \ {l}
        /\ \A m \in Live(u) : u.mappings[m] = t.mappings[m]
    BY <1>0, <2>1 DEF Live, Table
  <2> QED BY <2>2 DEF IsFree, u
<1> QED BY <1>1, <1>2

\* What a request and the handler's answer contribute to a grant.
LEMMA GrantArguments ==
  ASSUME NEW w \in Waiting, NEW ttl \in Caps
  PROVE  LET n == IF ttl = 0 THEN w.req.lifetime ELSE Least(w.req.lifetime, ttl)
         IN  /\ w.req.client \in Client
             /\ w.req.protocol \in Protocol
             /\ w.req.iport \in InternalPort
             /\ w.existing \in ExternalPort \cup {NoPort}
             /\ n \in Nat \ {0}
<1>1. w.req \in Request /\ w.existing \in ExternalPort \cup {NoPort}
  BY DEF Waiting
<1>2. w.req.lifetime \in Nat \ {0} /\ ttl \in Nat
  BY <1>1, LimitAssumption DEF Request, Caps
<1> QED BY <1>1, <1>2 DEF Request, Least

LEMMA AllocationsOK ==
  ASSUME NEW t, NEW p \in Protocol, NEW wanted, NEW c,
         NEW port \in Allocations(t, p, wanted, c)
  PROVE  port \in ExternalPort /\ IsFree(t, <<p, port>>, c)
BY DEF Allocations, ExternalPort

LEMMA GrantedInv ==
  ASSUME NEW t, TableInv(t), NEW w \in Waiting, NEW ttl \in Caps, NEW wanted,
         NEW port \in Allocations(t, w.req.protocol, wanted, w.req.client)
  PROVE  TableInv(Granted(t, w, port, ttl))
<1> DEFINE r     == w.req
           k     == <<r.protocol, port>>
           old   == <<r.protocol, w.existing>>
           n     == IF ttl = 0 THEN r.lifetime ELSE Least(r.lifetime, ttl)
           e     == [client |-> r.client, iport |-> r.iport, lifetime |-> ClampLifetime(n)]
           stale == w.existing # NoPort /\ w.existing # port
           freed == IF stale THEN Remove(t, old) ELSE t
<1>1. /\ r.client \in Client /\ r.protocol \in Protocol /\ r.iport \in InternalPort
      /\ w.existing \in ExternalPort \cup {NoPort} /\ n \in Nat \ {0}
  BY GrantArguments
<1> HIDE DEF n
<1>2. port \in ExternalPort /\ IsFree(t, k, r.client)
  BY <1>1, AllocationsOK
<1>3. k \in ExternalKey
  BY <1>1, <1>2 DEF ExternalKey
<1>4. e \in Entry /\ LeaseOK(e.lifetime)
  BY <1>1, ClampLifetimeOK DEF Entry
<1>5. TableInv(freed) /\ IsFree(freed, k, r.client)
  <2>1. CASE stale
    <3>1. old \in ExternalKey /\ old # k
      BY <1>1, <2>1 DEF ExternalKey
    <3> QED BY <1>1, <1>2, <1>3, <2>1, <3>1, RemoveInv, IsFreeAfterRemove
  <2>2. CASE ~stale
    BY <1>2, <2>2
  <2> QED BY <2>1, <2>2
<1> HIDE DEF freed
<1>6. TableInv(Store(freed, k, e))
  BY <1>3, <1>4, <1>5, StoreInv
<1> QED BY <1>6 DEF Granted, freed, n

LEMMA ResolveInv ==
  ASSUME TableInv(table), NEW w \in Waiting, Resolve(w)
  PROVE  TableInv(table')
<1>1. \/ table' = table
      \/ \E wanted \in Steers(w), ttl \in Caps :
          \E port \in Allocations(table, w.req.protocol, wanted, w.req.client) :
            table' = Granted(table, w, port, ttl)
  BY DEF Resolve
<1> QED BY <1>1, GrantedInv

\* An expiry timer finds the entry it was armed for.
LEMMA ExpireInv ==
  ASSUME NEW t, TableInv(t), NEW k \in t.timers
  PROVE  TableInv(Remove([t EXCEPT !.timers = @ \ {k}], k))
<1> DEFINE a == [t EXCEPT !.timers = @ \ {k}]
           u == Remove(a, k)
<1>0. t \in Table /\ k \in Live(t) /\ k \in ExternalKey
  BY DEF TableInv, TimersInv, Live
<1>1. /\ a \in Table /\ a.mappings = t.mappings /\ a.byInternal = t.byInternal
      /\ a.byClient = t.byClient /\ a.count = t.count /\ a.timers = t.timers \ {k}
  BY <1>0 DEF Table
<1>2. k \in Live(a) /\ InternalOf(a, k) = InternalOf(t, k)
  BY <1>0, <1>1 DEF Live, InternalOf
<1> HIDE DEF a
<1>3. u \in Table
  BY <1>1, <1>2, RemoveEffect
<1>4. /\ u.mappings = [t.mappings EXCEPT ![k] = NoEntry]
      /\ u.byInternal = [t.byInternal EXCEPT ![InternalOf(t, k)] = NoPort]
      /\ u.timers = t.timers \ {k}
  <2>1. /\ u.mappings = [a.mappings EXCEPT ![k] = NoEntry]
        /\ u.byInternal = [a.byInternal EXCEPT ![InternalOf(a, k)] = NoPort]
        /\ u.timers = a.timers \ {k}
    BY <1>1, <1>2, RemoveEffect
  <2> HIDE DEF u
  <2> QED BY <1>1, <1>2, <2>1
<1> DEFINE v == Remove(t, k)
<1>5. /\ TableInv(v)
      /\ v.mappings = [t.mappings EXCEPT ![k] = NoEntry]
      /\ v.byInternal = [t.byInternal EXCEPT ![InternalOf(t, k)] = NoPort]
      /\ v.timers = t.timers \ {k}
  <2>1. TableInv(v) BY <1>0, RemoveInv
  <2>2. /\ v.mappings = [t.mappings EXCEPT ![k] = NoEntry]
        /\ v.byInternal = [t.byInternal EXCEPT ![InternalOf(t, k)] = NoPort]
        /\ v.timers = t.timers \ {k}
    BY <1>0, RemoveEffect
  <2> QED BY <2>1, <2>2
<1> HIDE DEF u, v
<1>6. u.mappings = v.mappings /\ u.byInternal = v.byInternal /\ u.timers = v.timers
  BY <1>4, <1>5
<1>7. TableInv(u)
  BY <1>3, <1>5, <1>6
     DEF TableInv, CompanionInv, TimersInv, LeaseInv, PointersInv, Live, InternalOf
<1> QED BY <1>7 DEF u, a

-----------------------------------------------------------------------------
(* The invariant of the engine.                                            *)

IInv == TypeOK /\ TableInv(table)

LEMMA InitIInv == Init => IInv
BY EmptyTableInv, EmptyTableType DEF Init, IInv, TypeOK

LEMMA HeldPortType ==
  ASSUME NEW t \in Table, NEW r \in Request
  PROVE  [req |-> r, existing |-> HeldPort(t, r)] \in Waiting
BY DEF HeldPort, Waiting, Request, Table, InternalKey

LEMMA NextIInv == IInv /\ [Next]_vars => IInv'
<1> SUFFICES ASSUME IInv, [Next]_vars
             PROVE  IInv'
  OBVIOUS
<1> USE DEF IInv
<1>t. TableInv(table)' <=> TableInv(table')
  BY DEF TableInv, CompanionInv, TimersInv, LeaseInv, PointersInv, Live, InternalOf
<1>s. TableInv(table') => table' \in Table
  BY DEF TableInv
<1>1. CASE Listening
  BY <1>1, <1>t DEF Listening, TypeOK
<1>2. ASSUME NEW c \in Client, NEW p \in Protocol, NEW i \in InternalPort,
             DeleteOne(c, p, i)
      PROVE  IInv'
  <2>1. <<p, table.byInternal[<<c, p, i>>]>> \in ExternalKey
    BY <1>2 DEF DeleteOne, TypeOK, Table, InternalKey, ExternalKey
  <2>2. TableInv(table')
    BY <1>2, <2>1, RemoveInv DEF DeleteOne
  <2> QED BY <1>2, <2>2, <1>t, <1>s DEF DeleteOne, TypeOK
<1>3. ASSUME NEW c \in Client, NEW p \in Protocol, DeleteAll(c, p)
      PROVE  IInv'
  <2>1. TableInv(table')
    BY <1>3, RemoveAllForInv DEF DeleteAll
  <2> QED BY <1>3, <2>1, <1>t, <1>s DEF DeleteAll, TypeOK
<1>4. ASSUME NEW r \in Request, MapNow(r)
      PROVE  IInv'
  <2>1. [req |-> r, existing |-> HeldPort(table, r)] \in Waiting
    BY HeldPortType DEF TypeOK
  <2>2. TableInv(table')
    BY <1>4, <2>1, ResolveInv DEF MapNow
  <2> QED BY <1>4, <2>2, <1>t, <1>s DEF MapNow, TypeOK
<1>5. ASSUME NEW r \in Request, NEW s \in Slot, MapLater(r, s)
      PROVE  IInv'
  <2>1. [req |-> r, existing |-> HeldPort(table, r)] \in Waiting
    BY HeldPortType DEF TypeOK
  <2>2. waiting' \in [Slot -> Waiting \cup {Idle}]
    BY <1>5, <2>1 DEF MapLater, TypeOK
  <2> QED BY <1>5, <2>2, <1>t DEF MapLater, TypeOK
<1>6. ASSUME NEW s \in Slot, Resume(s)
      PROVE  IInv'
  <2>1. waiting[s] \in Waiting
    BY <1>6 DEF Resume, TypeOK
  <2>2. TableInv(table')
    BY <1>6, <2>1, ResolveInv DEF Resume
  <2>3. waiting' \in [Slot -> Waiting \cup {Idle}]
    BY <1>6 DEF Resume, TypeOK
  <2> QED BY <1>6, <2>2, <2>3, <1>t, <1>s DEF Resume, TypeOK
<1>7. ASSUME NEW k \in ExternalKey, Expire(k)
      PROVE  IInv'
  <2>1. TableInv(table')
    BY <1>7, ExpireInv DEF Expire
  <2> QED BY <1>7, <2>1, <1>t, <1>s DEF Expire, TypeOK
<1>8. ASSUME NEW k \in ExternalKey, Revoke(k)
      PROVE  IInv'
  <2>1. TableInv(table')
    BY <1>8, RemoveInv DEF Revoke
  <2> QED BY <1>8, <2>1, <1>t, <1>s DEF Revoke, TypeOK
<1>9. CASE ResetEpoch
  BY <1>9, EmptyTableInv, <1>t, <1>s DEF ResetEpoch, TypeOK
<1>10. CASE Destroy
  BY <1>10, EmptyTableInv, <1>t, <1>s DEF Destroy, TypeOK
<1>11. CASE UNCHANGED vars
  BY <1>11, <1>t DEF vars, TypeOK
<1> QED BY <1>1, <1>2, <1>3, <1>4, <1>5, <1>6, <1>7, <1>8, <1>9, <1>10, <1>11 DEF Next

\* The inductive invariant holds throughout every run of the engine.
THEOREM Invariance == Spec => []IInv
BY InitIInv, NextIInv, PTL DEF Spec

-----------------------------------------------------------------------------
\* Every variable keeps its type, so the table, its index and its timers never
\* hold anything but entries, ports and keys.
THEOREM TypeCorrect == Spec => []TypeOK
BY Invariance, PTL DEF IInv

\* RFC 6886 3.3: no two clients ever hold the TCP and the UDP port of the same
\* number, for synchronous and for waiting handlers alike.
THEOREM CompanionSafe == Spec => []CompanionReserved
<1>1. IInv => CompanionReserved
  BY DEF IInv, TableInv, CompanionInv, CompanionReserved
<1> QED BY <1>1, Invariance, PTL

\* The timers that run are those of the finite leases in the table.
THEOREM TimersCorrect == Spec => []TimersExact
<1>1. IInv => TimersExact
  BY DEF IInv, TableInv, TimersInv, TimersExact
<1> QED BY <1>1, Invariance, PTL

\* Every lease in the table lies between the configured bounds.
THEOREM LeasesCorrect == Spec => []LeaseBounded
<1>1. IInv => LeaseBounded
  BY DEF IInv, TableInv, LeaseInv, LeaseOK, LeaseBounded
<1> QED BY <1>1, Invariance, PTL

\* Every pointer of the internal index leads to a live entry it is right for.
THEOREM PointersCorrect == Spec => []PointersLive
<1>1. IInv => PointersLive
  BY DEF IInv, TableInv, PointersInv, PointersLive
<1> QED BY <1>1, Invariance, PTL

-----------------------------------------------------------------------------
(* No handler takes a done callback (~Async): exact indexes, exact         *)
(* counters, quotas that bound the table, and clients that cannot touch    *)
(* each other's entries.  With such a handler none of these holds: what it *)
(* decides is applied to a table that has changed meanwhile.               *)

\* Every entry is the one its internal key points to.
IndexInv(t) == \A k \in Live(t) : t.byInternal[InternalOf(t, k)] = k[2]

CountInv(t) ==
  /\ t.count = Cardinality(Live(t))
  /\ \A c \in Client : t.byClient[c] = Cardinality(LiveOf(t, c))

QuotaInv(t) ==
  /\ t.count <= MaxMappings
  /\ \A c \in Client : t.byClient[c] <= MaxPerClient

SyncTableInv(t) == IndexInv(t) /\ CountInv(t)

LEMMA LiveFinite ==
  ASSUME NEW t, NEW c
  PROVE  /\ IsFiniteSet(Live(t)) /\ Cardinality(Live(t)) \in Nat
         /\ IsFiniteSet(LiveOf(t, c)) /\ Cardinality(LiveOf(t, c)) \in Nat
<1>1. Live(t) \in SUBSET ExternalKey /\ LiveOf(t, c) \in SUBSET ExternalKey
  BY DEF Live, LiveOf
<1> QED BY <1>1, KeyFinite, FS_Subset, FS_CardinalityType

LEMMA EmptyTableSync == SyncTableInv(EmptyTable) /\ QuotaInv(EmptyTable)
<1>1. Live(EmptyTable) = {}
  BY DEF Live, EmptyTable
<1>2. \A c \in Client : LiveOf(EmptyTable, c) = {}
  BY <1>1 DEF LiveOf
<1>3. EmptyTable.count = 0 /\ \A c \in Client : EmptyTable.byClient[c] = 0
  BY DEF EmptyTable
<1> QED BY <1>1, <1>2, <1>3, FS_EmptySet, LimitAssumption
        DEF SyncTableInv, IndexInv, CountInv, QuotaInv

\* A held entry counts: the counter of its owner is not zero.
LEMMA HolderCounts ==
  ASSUME NEW t, CountInv(t), NEW k \in Live(t), t.mappings[k].client \in Client
  PROVE  t.byClient[t.mappings[k].client] \in Nat \ {0} /\ t.count \in Nat \ {0}
<1> DEFINE c == t.mappings[k].client
<1>1. k \in LiveOf(t, c)
  BY DEF LiveOf
<1>2. Cardinality(LiveOf(t, c)) # 0 /\ Cardinality(Live(t)) # 0
  BY <1>1, LiveFinite, FS_EmptySet
<1> QED BY <1>2, LiveFinite DEF CountInv

LEMMA RemoveSync ==
  ASSUME NEW t, TableInv(t), SyncTableInv(t), NEW k \in Live(t)
  PROVE  LET u == Remove(t, k)
         IN  /\ SyncTableInv(u)
             /\ u.count = t.count - 1
             /\ u.byClient = [t.byClient EXCEPT ![t.mappings[k].client] = @ - 1]
<1> DEFINE u == Remove(t, k)
           o == t.mappings[k].client
<1>0. t \in Table /\ k \in ExternalKey /\ o \in Client
  <2>1. t \in Table
    BY DEF TableInv
  <2> QED BY <2>1, LiveType DEF Entry
<1>1. /\ u \in Table
      /\ u.mappings = [t.mappings EXCEPT ![k] = NoEntry]
      /\ u.byInternal = [t.byInternal EXCEPT ![InternalOf(t, k)] = NoPort]
  BY <1>0, RemoveEffect
<1>2. u.count = t.count - 1 /\ u.byClient = [t.byClient EXCEPT ![o] = @ - 1]
  <2> DEFINE a == IndexRemove(t, k)
  <2>1. a.count = t.count - 1
        /\ a.byClient = [t.byClient EXCEPT ![o] = IF @ <= 1 THEN 0 ELSE @ - 1]
    BY <1>0 DEF IndexRemove, Table
  <2>2. t.byClient[o] \in Nat \ {0}
    BY <1>0, HolderCounts DEF SyncTableInv
  <2>3. a \in Table
    BY <1>0, IndexRemoveType
  <2>4. u = [a EXCEPT !.mappings[k] = NoEntry, !.timers = @ \ {k}]
    BY DEF Remove
  <2> HIDE DEF a, u, o
  <2>5. u.count = a.count /\ u.byClient = a.byClient
    BY <2>3, <2>4 DEF Table
  <2>6. t.byClient \in [Client -> Int]
    BY <1>0 DEF Table
  <2>7. [t.byClient EXCEPT ![o] = IF @ <= 1 THEN 0 ELSE @ - 1]
          = [t.byClient EXCEPT ![o] = @ - 1]
    BY <1>0, <2>2, <2>6
  <2> QED BY <2>1, <2>5, <2>7
<1> HIDE DEF u
<1>3. /\ Live(u) = Live(t) \ {k}
      /\ \A l \in Live(u) : u.mappings[l] = t.mappings[l]
  BY <1>0, <1>1 DEF Live, Table
<1>4. IndexInv(u)
  <2> SUFFICES ASSUME NEW l \in Live(u)
               PROVE  u.byInternal[InternalOf(u, l)] = l[2]
    BY DEF IndexInv
  <2>1. l \in Live(t) /\ l # k /\ InternalOf(u, l) = InternalOf(t, l)
    BY <1>3 DEF InternalOf
  <2>2. t.byInternal[InternalOf(t, l)] = l[2] /\ t.byInternal[InternalOf(t, k)] = k[2]
    BY <2>1 DEF SyncTableInv, IndexInv
  <2>3. l \in ExternalKey /\ k \in ExternalKey /\ InternalOf(t, l) \in InternalKey
    BY <1>0, <2>1, LiveType
  <2>4. InternalOf(t, l) # InternalOf(t, k)
    <3>1. l[1] # k[1] \/ l[2] # k[2]
      BY <2>1, <2>3 DEF ExternalKey
    <3> QED BY <2>2, <3>1 DEF InternalOf
  <2> QED BY <1>0, <1>1, <2>1, <2>2, <2>3, <2>4 DEF Table
<1>5. CountInv(u)
  <2>1. Cardinality(Live(u)) = Cardinality(Live(t)) - 1
    BY <1>3, LiveFinite, FS_RemoveElement
  <2>2. ASSUME NEW c \in Client
        PROVE  u.byClient[c] = Cardinality(LiveOf(u, c))
    <3>1. LiveOf(u, c) = LiveOf(t, c) \ {k}
      BY <1>3 DEF LiveOf
    <3>2. Cardinality(LiveOf(u, c)) =
            IF k \in LiveOf(t, c) THEN Cardinality(LiveOf(t, c)) - 1
                                  ELSE Cardinality(LiveOf(t, c))
      BY <3>1, LiveFinite, FS_RemoveElement
    <3>3. k \in LiveOf(t, c) <=> c = o
      BY DEF LiveOf
    <3>4. t.byClient[c] = Cardinality(LiveOf(t, c))
      BY DEF SyncTableInv, CountInv
    <3>5. t.byClient \in [Client -> Int]
      BY <1>0 DEF Table
    <3> HIDE DEF o
    <3> QED BY <1>0, <1>2, <3>2, <3>3, <3>4, <3>5
  <2>3. u.count = Cardinality(Live(u))
    BY <1>2, <2>1 DEF SyncTableInv, CountInv
  <2> QED BY <2>2, <2>3 DEF CountInv
<1> QED BY <1>2, <1>4, <1>5 DEF SyncTableInv, u

LEMMA RemoveAllForSync ==
  ASSUME NEW t, TableInv(t), SyncTableInv(t), NEW c \in Client, NEW p \in Protocol
  PROVE  LET u == RemoveAllFor(t, c, p)
         IN  /\ SyncTableInv(u)
             /\ Live(u) \subseteq Live(t)
             /\ QuotaInv(t) => QuotaInv(u)
<1> DEFINE u    == RemoveAllFor(t, c, p)
           gone == {k \in LiveOf(t, c) : k[1] = p}
           left == t.byClient[c] - Cardinality(gone)
<1>0. t \in Table
  BY DEF TableInv
<1>1. /\ \A k \in ExternalKey : u.mappings[k] = IF k \in gone THEN NoEntry ELSE t.mappings[k]
      /\ \A i \in InternalKey :
           u.byInternal[i] = IF \E k \in gone : InternalOf(t, k) = i
                             THEN NoPort ELSE t.byInternal[i]
  BY <1>0, RemoveAllForEffect
<1>2. /\ u.count = t.count - Cardinality(gone)
      /\ u.byClient = [t.byClient EXCEPT ![c] = IF left < 0 THEN 0 ELSE left]
  BY DEF RemoveAllFor
<1>3. gone \subseteq LiveOf(t, c) /\ gone \subseteq Live(t)
  BY DEF LiveOf
<1>4. IsFiniteSet(gone) /\ Cardinality(gone) \in Nat
      /\ Cardinality(gone) <= Cardinality(LiveOf(t, c))
  BY <1>3, LiveFinite, FS_Subset, FS_CardinalityType
<1>5. left = Cardinality(LiveOf(t, c)) - Cardinality(gone) /\ left \in Nat
  BY <1>4, LiveFinite DEF SyncTableInv, CountInv
<1> HIDE DEF u, left
<1>6. /\ Live(u) = Live(t) \ gone
      /\ \A k \in Live(u) : u.mappings[k] = t.mappings[k]
  BY <1>1, <1>3 DEF Live
<1>7. IndexInv(u)
  <2> SUFFICES ASSUME NEW l \in Live(u)
               PROVE  u.byInternal[InternalOf(u, l)] = l[2]
    BY DEF IndexInv
  <2>1. l \in Live(t) /\ l \notin gone /\ InternalOf(u, l) = InternalOf(t, l)
    BY <1>6 DEF InternalOf
  <2>2. InternalOf(t, l) \in InternalKey /\ t.byInternal[InternalOf(t, l)] = l[2]
    BY <1>0, <2>1, LiveType DEF SyncTableInv, IndexInv
  <2>3. ~ \E k \in gone : InternalOf(t, k) = InternalOf(t, l)
    BY <2>1 DEF InternalOf, LiveOf
  <2> QED BY <1>1, <2>1, <2>2, <2>3
<1>8. CountInv(u)
  <2>1. Live(t) \cap gone = gone
    BY <1>3
  <2>2. Cardinality(Live(u)) = Cardinality(Live(t)) - Cardinality(gone)
    BY <1>6, <2>1, LiveFinite, FS_Difference
  <2>3. ASSUME NEW d \in Client
        PROVE  u.byClient[d] = Cardinality(LiveOf(u, d))
    <3>0. t.byClient \in [Client -> Int] /\ t.byClient[d] = Cardinality(LiveOf(t, d))
      BY <1>0 DEF Table, SyncTableInv, CountInv
    <3>1. CASE d = c
      <4>1. LiveOf(u, c) = LiveOf(t, c) \ gone /\ LiveOf(t, c) \cap gone = gone
        BY <1>3, <1>6 DEF LiveOf
      <4>2. Cardinality(LiveOf(u, c)) = Cardinality(LiveOf(t, c)) - Cardinality(gone)
        BY <4>1, LiveFinite, FS_Difference
      <4>3. u.byClient[c] = left
        BY <1>2, <1>5, <3>0
      <4> QED BY <1>5, <3>1, <4>2, <4>3
    <3>2. CASE d # c
      <4>1. LiveOf(u, d) = LiveOf(t, d)
        BY <1>6, <3>2 DEF LiveOf
      <4> QED BY <1>2, <3>0, <3>2, <4>1
    <3> QED BY <3>1, <3>2
  <2> QED BY <1>2, <2>2, <2>3 DEF CountInv, SyncTableInv
<1>9. QuotaInv(t) => QuotaInv(u)
  <2> SUFFICES ASSUME QuotaInv(t) PROVE QuotaInv(u)
    OBVIOUS
  <2>1. t.count \in Int /\ t.byClient \in [Client -> Int]
    BY <1>0 DEF Table
  <2>2. u.count <= t.count
    BY <1>2, <1>4, <2>1
  <2>3. left <= t.byClient[c]
    BY <1>4, <1>5, <2>1 DEF left
  <2>4. \A d \in Client : u.byClient[d] <= t.byClient[d]
    BY <1>2, <1>5, <2>1, <2>3
  <2>5. u.count \in Int /\ u.byClient \in [Client -> Int]
    BY <1>2, <1>4, <1>5, <2>1
  <2> QED BY <2>1, <2>2, <2>4, <2>5, LimitAssumption DEF QuotaInv
<1> QED BY <1>6, <1>7, <1>8, <1>9 DEF SyncTableInv, u

\* Storing under a key when its internal port is not mapped elsewhere.
LEMMA StoreIndexSync ==
  ASSUME NEW t, TableInv(t), IndexInv(t), NEW k \in ExternalKey, NEW e \in Entry,
         IsFree(t, k, e.client),
         t.byInternal[<<e.client, k[1], e.iport>>] \in {NoPort, k[2]}
  PROVE  IndexInv(Store(t, k, e))
<1> DEFINE u   == Store(t, k, e)
           new == <<e.client, k[1], e.iport>>
<1>0. t \in Table /\ k[2] \in ExternalPort /\ NoPort \notin ExternalPort
      /\ new \in InternalKey /\ NoEntry # e
  <2>1. NoPort \notin ExternalPort
    BY PortAssumption DEF NoPort
  <2> QED BY <2>1, NullAssumption DEF TableInv, ExternalKey, Entry, InternalKey
<1>k. k \in Live(t) => t.mappings[k].client = e.client
  BY DEF IsFree
<1>1. /\ u.mappings = [t.mappings EXCEPT ![k] = e]
      /\ \A i \in InternalKey :
           u.byInternal[i] =
             IF i = new /\ (k \notin Live(t) \/ t.byInternal[new] = NoPort) THEN k[2]
             ELSE IF k \in Live(t) /\ i = InternalOf(t, k) /\ i # new THEN NoPort
             ELSE t.byInternal[i]
  BY <1>0, <1>k, StoreEffect
<1> HIDE DEF u
<1>2. /\ Live(u) = Live(t) \cup {k}
      /\ u.mappings[k] = e
      /\ \A l \in Live(u) \ {k} : u.mappings[l] = t.mappings[l]
  BY <1>0, <1>1 DEF Live, Table
<1> SUFFICES ASSUME NEW l \in Live(u)
             PROVE  u.byInternal[InternalOf(u, l)] = l[2]
  BY DEF IndexInv, u
<1>3. CASE l = k
  <2>1. InternalOf(u, l) = new
    BY <1>2, <1>3 DEF InternalOf
  <2>2. u.byInternal[new] = k[2]
    BY <1>0, <1>1
  <2> QED BY <1>3, <2>1, <2>2
<1>4. CASE l # k
  <2>1. l \in Live(t) /\ InternalOf(u, l) = InternalOf(t, l)
    BY <1>2, <1>4 DEF InternalOf
  <2>2. InternalOf(t, l) \in InternalKey /\ t.byInternal[InternalOf(t, l)] = l[2]
        /\ l = <<l[1], l[2]>> /\ k = <<k[1], k[2]>> /\ l[2] \in ExternalPort
    BY <1>0, <2>1, LiveType DEF IndexInv, ExternalKey
  <2>3. InternalOf(t, l)[2] = l[1] /\ new[2] = k[1]
    BY DEF InternalOf
  <2>4. InternalOf(t, l) # new
    \* new points nowhere or at k, and l is neither
    BY <1>0, <1>4, <2>2, <2>3
  <2>5. k \in Live(t) => InternalOf(t, l) # InternalOf(t, k)
    <3> SUFFICES ASSUME k \in Live(t), InternalOf(t, l) = InternalOf(t, k)
                 PROVE  FALSE
      OBVIOUS
    <3>1. t.byInternal[InternalOf(t, k)] = k[2]
      BY DEF IndexInv
    <3>2. InternalOf(t, k)[2] = k[1]
      BY DEF InternalOf
    <3> QED BY <1>4, <2>2, <2>3, <3>1, <3>2
  <2> QED BY <1>1, <2>1, <2>2, <2>4, <2>5
<1> QED BY <1>3, <1>4

\* A store on a free key adds one to both counters.
LEMMA StoreNewCounts ==
  ASSUME NEW t \in Table, NEW k \in ExternalKey \ Live(t), NEW e \in Entry
  PROVE  /\ Store(t, k, e).count = t.count + 1
         /\ Store(t, k, e).byClient = [t.byClient EXCEPT ![e.client] = @ + 1]
<1> DEFINE a == [t EXCEPT !.mappings[k] = e]
           b == IndexAdd(a, k)
<1>1. a \in Table /\ a.mappings[k] = e /\ a.count = t.count /\ a.byClient = t.byClient
  BY DEF Table
<1>2. k \in Live(a)
  BY <1>1, NullAssumption DEF Live
<1>3. b \in Table
  BY <1>1, <1>2, IndexAddType
<1>4. b.count = a.count + 1 /\ b.byClient = [a.byClient EXCEPT ![a.mappings[k].client] = @ + 1]
  <2> HIDE DEF a
  <2> QED BY <1>1 DEF IndexAdd, Table
<1>5. Store(t, k, e) = Arm(b, k)
  BY DEF Store, StoreNew
<1> HIDE DEF b
<1>6. Arm(b, k).count = b.count /\ Arm(b, k).byClient = b.byClient
  BY <1>3 DEF Arm, Table
<1> HIDE DEF a
<1> QED BY <1>1, <1>4, <1>5, <1>6

\* A store on a held key leaves both counters alone: a moved entry leaves the
\* index and enters it again, an entry that stays is in it.
LEMMA StoreExistingCounts ==
  ASSUME NEW t, TableInv(t), SyncTableInv(t), NEW k \in Live(t), NEW e \in Entry,
         e.client = t.mappings[k].client,
         t.byInternal[<<e.client, k[1], e.iport>>] \in {NoPort, k[2]}
  PROVE  Store(t, k, e).count = t.count /\ Store(t, k, e).byClient = t.byClient
<1> DEFINE moved   == t.mappings[k].iport # e.iport
           c       == e.client
           dropped == IF moved THEN IndexRemove(t, k) ELSE t
           updated == [dropped EXCEPT !.mappings[k].iport    = e.iport,
                                      !.mappings[k].lifetime = e.lifetime,
                                      !.timers               = @ \ {k}]
           new     == <<e.client, k[1], e.iport>>
           indexed == IF updated.byInternal[InternalOf(updated, k)] = NoPort
                      THEN IndexAdd(updated, k) ELSE updated
<1>0. t \in Table /\ k \in ExternalKey /\ c \in Client /\ new \in InternalKey
      /\ InternalOf(t, k) \in InternalKey /\ k[2] # NoPort
  <2>1. t \in Table
    BY DEF TableInv
  <2> QED BY <2>1, LiveType, PortAssumption DEF Entry, InternalKey
<1>1. dropped \in Table
  BY <1>0, IndexRemoveType
<1>2. t.byInternal[InternalOf(t, k)] = k[2] /\ t.byClient[c] \in Nat \ {0}
  BY <1>0, HolderCounts DEF SyncTableInv, IndexInv
<1>3. moved => t.byInternal[new] = NoPort
  <2> SUFFICES ASSUME moved, t.byInternal[new] = k[2]
               PROVE  FALSE
    OBVIOUS
  <2>1. InternalOf(t, <<new[2], k[2]>>) = new
    BY <1>0 DEF TableInv, PointersInv
  <2>2. <<new[2], k[2]>> = k
    BY <1>0 DEF ExternalKey
  <2> QED BY <2>1, <2>2 DEF InternalOf
<1>4. /\ dropped.mappings = t.mappings
      /\ dropped.count = IF moved THEN t.count - 1 ELSE t.count
      /\ dropped.byClient = IF moved THEN [t.byClient EXCEPT ![c] = IF @ <= 1 THEN 0 ELSE @ - 1]
                            ELSE t.byClient
      /\ dropped.byInternal[new] = IF moved THEN NoPort ELSE k[2]
  <2>1. CASE moved
    BY <1>0, <1>3, <2>1 DEF IndexRemove, Table
  <2>2. CASE ~moved
    <3>1. InternalOf(t, k) = new
      BY <2>2 DEF InternalOf
    <3> QED BY <1>2, <2>2, <3>1
  <2> QED BY <2>1, <2>2
<1>5. t.mappings \in [ExternalKey -> Entry \cup {NoEntry}] /\ t.mappings[k] \in Entry
  BY <1>0, LiveType DEF Table
<1>6. e = [client |-> t.mappings[k].client, iport |-> e.iport, lifetime |-> e.lifetime]
  BY DEF Entry
<1> HIDE DEF dropped
<1>7. /\ updated.mappings = [dropped.mappings EXCEPT ![k].iport    = e.iport,
                                                     ![k].lifetime = e.lifetime]
      /\ updated.timers = dropped.timers \ {k}
      /\ updated.byInternal = dropped.byInternal
      /\ updated.byClient = dropped.byClient
      /\ updated.count = dropped.count
  BY <1>1 DEF Table
<1>8. updated.mappings = [t.mappings EXCEPT ![k] = e]
  BY <1>0, <1>4, <1>6, <1>7, EntryUpdateType
<1>9. updated.mappings \in [ExternalKey -> Entry \cup {NoEntry}] /\ updated.mappings[k] = e
  BY <1>0, <1>5, <1>8
<1>10. updated \in Table
  BY <1>1, <1>9, <1>7 DEF Table
<1>11. InternalOf(updated, k) = new
  BY <1>9 DEF InternalOf
<1> HIDE DEF updated
<1>12. /\ indexed.count = IF moved THEN updated.count + 1 ELSE updated.count
       /\ indexed.byClient = IF moved THEN [updated.byClient EXCEPT ![c] = @ + 1]
                             ELSE updated.byClient
       /\ indexed \in Table
  <2>1. k \in Live(updated)
    BY <1>0, <1>9, NullAssumption DEF Live
  <2>2. moved <=> updated.byInternal[new] = NoPort
    BY <1>0, <1>4, <1>7
  <2>3. CASE moved
    <3>1. indexed = IndexAdd(updated, k)
      BY <1>11, <2>2, <2>3
    <3> HIDE DEF indexed
    <3> QED BY <1>9, <1>10, <2>1, <2>3, <3>1, IndexAddType DEF IndexAdd, Table
  <2>4. CASE ~moved
    BY <1>10, <1>11, <2>2, <2>4
  <2> QED BY <2>3, <2>4
<1>13. Store(t, k, e) = Arm(indexed, k)
  BY DEF Store, StoreExisting, dropped, updated
<1> HIDE DEF indexed
<1>14. Arm(indexed, k).count = indexed.count /\ Arm(indexed, k).byClient = indexed.byClient
  BY <1>12 DEF Arm, Table
<1>15. t.count \in Int /\ t.byClient \in [Client -> Int]
  BY <1>0 DEF Table
<1>16. indexed.count = t.count
  BY <1>4, <1>7, <1>12, <1>15
<1>17. indexed.byClient = t.byClient
  <2> HIDE DEF c
  <2>1. CASE moved
    <3>1. dropped.byClient = [t.byClient EXCEPT ![c] = @ - 1]
      BY <1>2, <1>4, <1>15, <2>1
    <3>2. indexed.byClient = [dropped.byClient EXCEPT ![c] = @ + 1]
      BY <1>7, <1>12, <2>1
    <3> QED BY <1>0, <1>15, <3>1, <3>2
  <2>2. CASE ~moved
    BY <1>4, <1>7, <1>12, <2>2
  <2> QED BY <2>1, <2>2
<1> QED BY <1>13, <1>14, <1>16, <1>17

LEMMA StoreSync ==
  ASSUME NEW t, TableInv(t), SyncTableInv(t), NEW k \in ExternalKey, NEW e \in Entry,
         IsFree(t, k, e.client),
         t.byInternal[<<e.client, k[1], e.iport>>] \in {NoPort, k[2]}
  PROVE  SyncTableInv(Store(t, k, e))
<1> DEFINE u == Store(t, k, e)
           c == e.client
<1>0. t \in Table /\ c \in Client /\ NoEntry # e
  BY NullAssumption DEF TableInv, Entry
<1>k. k \in Live(t) => t.mappings[k].client = c
  BY DEF IsFree
<1>1. IndexInv(u)
  BY StoreIndexSync DEF SyncTableInv
<1>2. u.mappings = [t.mappings EXCEPT ![k] = e]
  BY <1>0, <1>k, StoreEffect
<1>3. /\ k \notin Live(t) => u.count = t.count + 1
                           /\ u.byClient = [t.byClient EXCEPT ![c] = @ + 1]
      /\ k \in Live(t) => u.count = t.count /\ u.byClient = t.byClient
  BY <1>0, <1>k, StoreNewCounts, StoreExistingCounts
<1> HIDE DEF u
<1>4. /\ Live(u) = Live(t) \cup {k}
      /\ u.mappings[k] = e
      /\ \A l \in Live(u) \ {k} : u.mappings[l] = t.mappings[l]
  BY <1>0, <1>2 DEF Live, Table
<1>5. CountInv(u)
  <2>1. Cardinality(Live(u)) = IF k \in Live(t) THEN Cardinality(Live(t))
                               ELSE Cardinality(Live(t)) + 1
    BY <1>4, LiveFinite, FS_AddElement
  <2>2. ASSUME NEW d \in Client
        PROVE  u.byClient[d] = Cardinality(LiveOf(u, d))
    <3>0. t.byClient \in [Client -> Int] /\ t.byClient[d] = Cardinality(LiveOf(t, d))
      BY <1>0 DEF Table, SyncTableInv, CountInv
    <3>1. CASE d = c
      <4>1. LiveOf(u, d) = LiveOf(t, d) \cup {k}
        BY <1>k, <1>4, <3>1 DEF LiveOf
      <4>2. Cardinality(LiveOf(u, d)) = IF k \in LiveOf(t, d) THEN Cardinality(LiveOf(t, d))
                                        ELSE Cardinality(LiveOf(t, d)) + 1
        BY <4>1, LiveFinite, FS_AddElement
      <4>3. k \in LiveOf(t, d) <=> k \in Live(t)
        BY <1>k, <3>1 DEF LiveOf
      <4> HIDE DEF c
      <4> QED BY <1>0, <1>3, <3>0, <3>1, <4>2, <4>3
    <3>2. CASE d # c
      <4>1. LiveOf(u, d) = LiveOf(t, d)
        BY <1>k, <1>4, <3>2 DEF LiveOf
      <4> QED BY <1>0, <1>3, <3>0, <3>2, <4>1
    <3> QED BY <3>1, <3>2
  <2>3. u.count = Cardinality(Live(u))
    BY <1>3, <2>1 DEF CountInv, SyncTableInv
  <2> QED BY <2>2, <2>3 DEF CountInv
<1> QED BY <1>1, <1>5 DEF SyncTableInv, u

\* The names a request's grant is discussed with: the key it asks about, and
\* the key its internal port was found under.
OldKey(w) == <<w.req.protocol, w.existing>>

Current(t, w) == w.existing = HeldPort(t, w.req)

\* A grant to a request whose lookup is still current keeps everything exact,
\* stays within the quotas it was tested for and changes only entries of its
\* own client.
LEMMA GrantedSync ==
  ASSUME NEW t, TableInv(t), SyncTableInv(t), QuotaInv(t),
         NEW w \in Waiting, Current(t, w), WithinQuota(t, w.req),
         NEW ttl \in Caps, NEW wanted,
         NEW port \in Allocations(t, w.req.protocol, wanted, w.req.client)
  PROVE  LET u == Granted(t, w, port, ttl)
         IN  /\ SyncTableInv(u) /\ QuotaInv(u)
             /\ \A k \in Live(t) : u.mappings[k] # t.mappings[k]
                                    => t.mappings[k].client = w.req.client
<1> DEFINE r     == w.req
           k     == <<r.protocol, port>>
           old   == OldKey(w)
           n     == IF ttl = 0 THEN r.lifetime ELSE Least(r.lifetime, ttl)
           e     == [client |-> r.client, iport |-> r.iport, lifetime |-> ClampLifetime(n)]
           stale == w.existing # NoPort /\ w.existing # port
           freed == IF stale THEN Remove(t, old) ELSE t
           i     == <<r.client, r.protocol, r.iport>>
           u     == Granted(t, w, port, ttl)
<1>1. /\ r.client \in Client /\ r.protocol \in Protocol /\ r.iport \in InternalPort
      /\ w.existing \in ExternalPort \cup {NoPort} /\ n \in Nat \ {0}
  BY GrantArguments
<1> HIDE DEF n
<1>2. port \in ExternalPort /\ IsFree(t, k, r.client)
  BY <1>1, AllocationsOK
<1>3. k \in ExternalKey /\ i \in InternalKey /\ t \in Table
  BY <1>1, <1>2 DEF ExternalKey, InternalKey, TableInv
<1>4. e \in Entry
  BY <1>1, ClampLifetimeOK DEF Entry
<1>5. w.existing = t.byInternal[i]
  BY DEF Current, HeldPort
<1>6. w.existing # NoPort => old \in Live(t) /\ InternalOf(t, old) = i
                             /\ t.mappings[old].client = r.client
  <2> SUFFICES ASSUME w.existing # NoPort
               PROVE  old \in Live(t) /\ InternalOf(t, old) = i
                      /\ t.mappings[old].client = r.client
    OBVIOUS
  <2>1. old = <<i[2], t.byInternal[i]>>
    BY <1>5 DEF OldKey
  <2>2. old \in Live(t) /\ InternalOf(t, old) = i
    BY <1>3, <1>5, <2>1 DEF TableInv, PointersInv
  <2> QED BY <2>2 DEF InternalOf
<1>7. u = Store(freed, k, e)
  BY DEF Granted, OldKey, n
<1>8. stale => old \in ExternalKey /\ old # k
  BY <1>1 DEF OldKey, ExternalKey
<1> HIDE DEF u, e, old
<1>e. e.client = r.client /\ e.iport = r.iport
  BY DEF e
<1>9. TableInv(freed) /\ SyncTableInv(freed) /\ IsFree(freed, k, r.client)
      /\ freed.byInternal[i] \in {NoPort, port}
  <2>1. CASE stale
    <3>1. freed.byInternal = [t.byInternal EXCEPT ![i] = NoPort]
      <4>1. old \in Live(t) /\ InternalOf(t, old) = i
        BY <1>6, <2>1
      <4>2. Remove(t, old).byInternal = [t.byInternal EXCEPT ![InternalOf(t, old)] = NoPort]
        BY <1>3, <4>1, RemoveEffect
      <4> QED BY <2>1, <4>1, <4>2
    <3>2. freed.byInternal[i] = NoPort
      BY <1>3, <3>1 DEF Table
    <3> QED BY <1>1, <1>2, <1>3, <1>6, <1>8, <2>1, <3>2, RemoveInv, RemoveSync,
               IsFreeAfterRemove
  <2>2. CASE ~stale
    BY <1>2, <1>5, <2>2
  <2> QED BY <2>1, <2>2
<1>10. SyncTableInv(u)
  BY <1>3, <1>4, <1>7, <1>9, <1>e, StoreSync
<1>11. \A l \in Live(t) : u.mappings[l] # t.mappings[l] => t.mappings[l].client = r.client
  <2> SUFFICES ASSUME NEW l \in Live(t), t.mappings[l].client # r.client
               PROVE  u.mappings[l] = t.mappings[l]
    OBVIOUS
  <2>0. l \in ExternalKey /\ l # k
    BY <1>2 DEF IsFree, Live
  <2>1. freed \in Table /\ (k \in Live(freed) => freed.mappings[k].client = r.client)
    BY <1>9 DEF TableInv, IsFree
  <2>2. u.mappings = [freed.mappings EXCEPT ![k] = e]
    BY <1>3, <1>4, <1>7, <1>e, <2>1, StoreEffect
  <2>3. u.mappings[l] = freed.mappings[l]
    BY <2>0, <2>1, <2>2 DEF Table
  <2>4. freed.mappings[l] = t.mappings[l]
    <3>1. CASE stale
      <4>1. l # old /\ old \in Live(t)
        BY <1>6, <3>1
      <4>2. freed.mappings = [t.mappings EXCEPT ![old] = NoEntry]
        BY <1>3, <3>1, <4>1, RemoveEffect
      <4> QED BY <1>3, <2>0, <4>1, <4>2 DEF Table
    <3>2. CASE ~stale
      BY <3>2
    <3> QED BY <3>1, <3>2
  <2> QED BY <2>3, <2>4
<1>12. QuotaInv(u)
  <2>0. t.count \in Int /\ t.byClient \in [Client -> Int] /\ freed \in Table
    BY <1>3, <1>9 DEF Table, TableInv
  <2>1. CASE k \in Live(freed)
    <3>1. freed.mappings[k].client = r.client
      BY <1>9, <2>1 DEF IsFree
    <3>2. u.count = freed.count /\ u.byClient = freed.byClient
      BY <1>4, <1>7, <1>9, <1>e, <2>1, <3>1, StoreExistingCounts
    <3>3. CASE stale
      <4>1. freed.count = t.count - 1 /\ freed.byClient = [t.byClient EXCEPT ![r.client] = @ - 1]
        BY <1>6, <3>3, RemoveSync
      <4>2. u.count <= t.count /\ \A d \in Client : u.byClient[d] <= t.byClient[d]
        <5> HIDE DEF freed, stale, r
        <5> QED BY <1>1, <2>0, <3>2, <4>1
      <4>3. u.count \in Int /\ \A d \in Client : u.byClient[d] \in Int
        <5> HIDE DEF freed, stale, r
        <5> QED BY <1>1, <2>0, <3>2, <4>1
      <4> QED BY <2>0, <4>2, <4>3, LimitAssumption DEF QuotaInv
    <3>4. CASE ~stale
      BY <3>2, <3>4 DEF QuotaInv
    <3> QED BY <3>3, <3>4
  <2>2. CASE k \notin Live(freed)
    <3>1. u.count = freed.count + 1 /\ u.byClient = [freed.byClient EXCEPT ![r.client] = @ + 1]
      BY <1>3, <1>4, <1>7, <1>e, <2>0, <2>2, StoreNewCounts
    <3>2. CASE stale
      <4>1. freed.count = t.count - 1 /\ freed.byClient = [t.byClient EXCEPT ![r.client] = @ - 1]
        BY <1>6, <3>2, RemoveSync
      <4> QED BY <1>1, <2>0, <3>1, <4>1 DEF QuotaInv
    <3>3. CASE ~stale
      <4>1. w.existing = NoPort
        \* otherwise k is the key the request holds already
        BY <1>6, <2>2, <3>3 DEF OldKey, old
      <4>2. t.count < MaxMappings /\ t.byClient[r.client] < MaxPerClient
        BY <4>1 DEF WithinQuota, Current
      <4> QED BY <1>1, <2>0, <3>1, <3>3, <4>2, LimitAssumption DEF QuotaInv
    <3> QED BY <3>2, <3>3
  <2> QED BY <2>1, <2>2
<1> QED BY <1>10, <1>11, <1>12 DEF u

LEMMA ExpireSync ==
  ASSUME NEW t, TableInv(t), SyncTableInv(t), QuotaInv(t), NEW k \in t.timers
  PROVE  LET u == Remove([t EXCEPT !.timers = @ \ {k}], k)
         IN  SyncTableInv(u) /\ QuotaInv(u)
<1> DEFINE a == [t EXCEPT !.timers = @ \ {k}]
<1>0. t \in Table /\ k \in Live(t) /\ t.mappings[k].client \in Client
  <2>1. t \in Table /\ k \in Live(t)
    BY DEF TableInv, TimersInv
  <2> QED BY <2>1, LiveType DEF Entry
<1>1. Remove(a, k) = Remove(t, k)
  <2>1. a.mappings = t.mappings
    BY <1>0 DEF Table
  <2>2. k \in Live(a)
    BY <1>0, <2>1 DEF Live
  <2> QED BY <1>0, <2>2, ZenonT(40) DEF Remove, IndexRemove, InternalOf, Table
<1>2. /\ SyncTableInv(Remove(t, k))
      /\ Remove(t, k).count = t.count - 1
      /\ Remove(t, k).byClient = [t.byClient EXCEPT ![t.mappings[k].client] = @ - 1]
  BY <1>0, RemoveSync
<1>3. QuotaInv(Remove(t, k))
  BY <1>0, <1>2, LimitAssumption DEF QuotaInv, Table
<1> QED BY <1>1, <1>2, <1>3

LEMMA RemoveSyncQuota ==
  ASSUME NEW t, TableInv(t), SyncTableInv(t), QuotaInv(t), NEW k \in ExternalKey
  PROVE  SyncTableInv(Remove(t, k)) /\ QuotaInv(Remove(t, k))
<1>1. CASE k \notin Live(t)
  BY <1>1 DEF Remove
<1>2. CASE k \in Live(t)
  <2>0. t \in Table /\ t.mappings[k].client \in Client
    <3>1. t \in Table
      BY DEF TableInv
    <3> QED BY <1>2, <3>1, LiveType DEF Entry
  <2>1. /\ SyncTableInv(Remove(t, k))
        /\ Remove(t, k).count = t.count - 1
        /\ Remove(t, k).byClient = [t.byClient EXCEPT ![t.mappings[k].client] = @ - 1]
    BY <1>2, RemoveSync
  <2> QED BY <2>0, <2>1, LimitAssumption DEF QuotaInv, Table
<1> QED BY <1>1, <1>2

-----------------------------------------------------------------------------
(* The inductive invariant of a gateway with synchronous handlers.         *)

SyncInv ==
  /\ IInv
  /\ SyncTableInv(table)
  /\ QuotaInv(table)
  /\ \A s \in Slot : waiting[s] = Idle
  /\ state = "destroyed" => Live(table) = {}

\* What a synchronous request does to the table.
LEMMA MapNowSync ==
  ASSUME SyncInv, NEW r \in Request, MapNow(r)
  PROVE  /\ SyncTableInv(table') /\ QuotaInv(table')
         /\ \A k \in Live(table) : table'.mappings[k] # table.mappings[k]
                                  => table.mappings[k].client = r.client
<1> DEFINE w == [req |-> r, existing |-> HeldPort(table, r)]
<1>1. w \in Waiting /\ Current(table, w) /\ w.req = r
  BY HeldPortType DEF SyncInv, IInv, TypeOK, Current
<1>2. WithinQuota(table, w.req) /\ Resolve(w)
  BY <1>1 DEF MapNow
<1> HIDE DEF w
<1>3. \/ table' = table
      \/ \E wanted \in Steers(w), ttl \in Caps :
          \E port \in Allocations(table, w.req.protocol, wanted, w.req.client) :
            table' = Granted(table, w, port, ttl)
  BY <1>2 DEF Resolve
<1>4. TableInv(table) /\ SyncTableInv(table) /\ QuotaInv(table)
  BY DEF SyncInv, IInv
<1>5. CASE table' = table
  <2>1. SyncTableInv(table') /\ QuotaInv(table')
    BY <1>4, <1>5
  <2> QED BY <1>5, <2>1
<1>6. ASSUME NEW wanted, NEW ttl \in Caps,
             NEW port \in Allocations(table, w.req.protocol, wanted, w.req.client),
             table' = Granted(table, w, port, ttl)
      PROVE  /\ SyncTableInv(table') /\ QuotaInv(table')
             /\ \A k \in Live(table) : table'.mappings[k] # table.mappings[k]
                                     => table.mappings[k].client = r.client
  <2> DEFINE u == Granted(table, w, port, ttl)
  <2>1. /\ SyncTableInv(u) /\ QuotaInv(u)
        /\ \A k \in Live(table) : u.mappings[k] # table.mappings[k]
                                => table.mappings[k].client = w.req.client
    BY <1>1, <1>2, <1>4, GrantedSync
  <2> HIDE DEF u
  <2>2. table' = u
    BY <1>6 DEF u
  <2> QED BY <1>1, <2>1, <2>2
<1> QED BY <1>3, <1>5, <1>6

\* What a synchronous request does to the index, when no handler steers: a port
\* held stays as it is, and besides the new pointer only one that leads to the
\* port now given away can change.
LEMMA MapNowIndex ==
  ASSUME SyncInv, ~Steer, NEW r \in Request, MapNow(r)
  PROVE  LET own == <<r.client, r.protocol, r.iport>>
         IN  \A j \in InternalKey :
               table'.byInternal[j] # table.byInternal[j] =>
                 /\ table.byInternal[own] = NoPort
                 /\ j # own => table.byInternal[j] = table'.byInternal[own]
<1> DEFINE w   == [req |-> r, existing |-> HeldPort(table, r)]
           own == <<r.client, r.protocol, r.iport>>
<1>1. /\ w \in Waiting /\ w.req = r /\ w.existing = table.byInternal[own]
      /\ table \in Table /\ own \in InternalKey
  BY HeldPortType DEF SyncInv, IInv, TypeOK, HeldPort, Request, InternalKey
<1>2. Steers(w) = {Proposed(w)} BY DEF Steers
<1>3. Resolve(w) BY DEF MapNow
<1>4. TableInv(table) /\ IndexInv(table) BY DEF SyncInv, SyncTableInv, IInv
<1> SUFFICES ASSUME NEW j \in InternalKey, table'.byInternal[j] # table.byInternal[j]
             PROVE  /\ table.byInternal[own] = NoPort
                    /\ j # own => table.byInternal[j] = table'.byInternal[own]
  OBVIOUS
<1> HIDE DEF w
<1>5. PICK ttl \in Caps :
        \E port \in Allocations(table, r.protocol, Proposed(w), r.client) :
          table' = Granted(table, w, port, ttl)
  BY <1>1, <1>2, <1>3 DEF Resolve
<1>6. PICK port \in Allocations(table, r.protocol, Proposed(w), r.client) :
        table' = Granted(table, w, port, ttl)
  BY <1>5
<1> DEFINE k == <<r.protocol, port>>
           n == IF ttl = 0 THEN r.lifetime ELSE Least(r.lifetime, ttl)
           e == [client |-> r.client, iport |-> r.iport, lifetime |-> ClampLifetime(n)]
<1>7. /\ r.client \in Client /\ r.protocol \in Protocol /\ r.iport \in InternalPort
      /\ n \in Nat \ {0}
  BY <1>1, GrantArguments
<1> HIDE DEF n
<1>8. port \in ExternalPort /\ IsFree(table, k, r.client) BY <1>7, AllocationsOK
<1>9. k \in ExternalKey /\ e \in Entry BY <1>7, <1>8, ClampLifetimeOK DEF ExternalKey, Entry
<1>10. w.existing # NoPort => w.existing = port /\ k \in Live(table) /\ InternalOf(table, k) = own
  <2> SUFFICES ASSUME w.existing # NoPort
               PROVE  w.existing = port /\ k \in Live(table) /\ InternalOf(table, k) = own
    OBVIOUS
  <2> DEFINE old == <<r.protocol, w.existing>>
  <2>1. old \in Live(table) /\ InternalOf(table, old) = own
    BY <1>1, <1>4 DEF TableInv, PointersInv
  <2>2. IsFree(table, old, r.client) BY <2>1 DEF IsFree, InternalOf
  <2>3. w.existing \in ExternalPort BY <1>1 DEF Waiting
  <2>4. Allocations(table, r.protocol, w.existing, r.client) = {w.existing}
    BY <2>2, <2>3 DEF Allocations
  <2> QED BY <1>6, <2>1, <2>4 DEF Proposed
<1>11. table' = Store(table, k, e) BY <1>1, <1>6, <1>10 DEF Granted, n
<1>12. k \in Live(table) => table.mappings[k].client = e.client BY <1>8 DEF IsFree
<1>13. \A i \in InternalKey :
         table'.byInternal[i] =
           IF i = own /\ (k \notin Live(table) \/ table.byInternal[own] = NoPort) THEN port
           ELSE IF k \in Live(table) /\ i = InternalOf(table, k) /\ i # own THEN NoPort
           ELSE table.byInternal[i]
  <2>1. own = <<e.client, k[1], e.iport>> /\ k[2] = port OBVIOUS
  <2> DEFINE u == Store(table, k, e)
  <2> HIDE DEF k, e, own
  <2>2. \A i \in InternalKey :
          u.byInternal[i] =
            IF i = own /\ (k \notin Live(table) \/ table.byInternal[own] = NoPort) THEN k[2]
            ELSE IF k \in Live(table) /\ i = InternalOf(table, k) /\ i # own THEN NoPort
            ELSE table.byInternal[i]
    <3>1. \A i \in InternalKey :
            u.byInternal[i] =
              IF i = <<e.client, k[1], e.iport>>
                 /\ (k \notin Live(table)
                     \/ table.byInternal[<<e.client, k[1], e.iport>>] = NoPort)
              THEN k[2]
              ELSE IF /\ k \in Live(table) /\ i = InternalOf(table, k)
                      /\ i # <<e.client, k[1], e.iport>>
                   THEN NoPort
              ELSE table.byInternal[i]
      BY <1>1, <1>9, <1>12, StoreEffect
    <3> QED BY <2>1, <3>1
  <2> QED BY <1>11, <2>1, <2>2
<1> HIDE DEF k, e, own
<1>14. table.byInternal[own] = NoPort BY <1>1, <1>10, <1>13
<1>15. table'.byInternal[own] = port BY <1>1, <1>13, <1>14
<1>16. j # own => k \in Live(table) /\ j = InternalOf(table, k) BY <1>13
<1> QED BY <1>4, <1>14, <1>15, <1>16 DEF IndexInv, k, own

\* A deletion disturbs no other pointer.
LEMMA DeleteOneIndex ==
  ASSUME SyncInv, NEW c \in Client, NEW p \in Protocol, NEW i \in InternalPort,
         DeleteOne(c, p, i)
  PROVE  \A j \in InternalKey \ {<<c, p, i>>} : table'.byInternal[j] = table.byInternal[j]
<1> DEFINE own == <<c, p, i>>
           k   == <<p, table.byInternal[own]>>
<1>1. table \in Table /\ own \in InternalKey BY DEF SyncInv, IInv, TypeOK, InternalKey
<1>2. k \in Live(table) /\ InternalOf(table, k) = own
  BY <1>1 DEF DeleteOne, SyncInv, IInv, TableInv, PointersInv
<1>3. table' = Remove(table, k) BY DEF DeleteOne
<1> HIDE DEF own, k
<1>4. table'.byInternal = [table.byInternal EXCEPT ![own] = NoPort] BY <1>1, <1>2, <1>3, RemoveEffect
<1> QED BY <1>1, <1>4 DEF Table, own

LEMMA NextSyncInv == ~Async /\ SyncInv /\ [Next]_vars => SyncInv'
<1> SUFFICES ASSUME ~Async, SyncInv, [Next]_vars
             PROVE  SyncInv'
  OBVIOUS
<1>i. IInv'
  BY NextIInv DEF SyncInv
<1>t. /\ TableInv(table) /\ SyncTableInv(table) /\ QuotaInv(table)
      /\ \A s \in Slot : waiting[s] = Idle
      /\ table \in Table
      /\ state = "destroyed" => Live(table) = {}
  BY DEF SyncInv, IInv, TypeOK
<1>p. SyncInv' <=> /\ SyncTableInv(table') /\ QuotaInv(table')
                   /\ \A s \in Slot : waiting'[s] = Idle
                   /\ state' = "destroyed" => Live(table') = {}
  BY <1>i DEF SyncInv, SyncTableInv, IndexInv, CountInv, QuotaInv, Live, LiveOf, InternalOf
<1>1. CASE Listening
  BY <1>1, <1>t, <1>p DEF Listening
<1>2. ASSUME NEW c \in Client, NEW p \in Protocol, NEW i \in InternalPort,
             DeleteOne(c, p, i)
      PROVE  SyncInv'
  <2>1. <<p, table.byInternal[<<c, p, i>>]>> \in ExternalKey
    BY <1>2, <1>t DEF DeleteOne, Table, InternalKey, ExternalKey
  <2>2. SyncTableInv(table') /\ QuotaInv(table')
    BY <1>2, <1>t, <2>1, RemoveSyncQuota DEF DeleteOne
  <2> QED BY <1>2, <1>t, <1>p, <2>2 DEF DeleteOne
<1>3. ASSUME NEW c \in Client, NEW p \in Protocol, DeleteAll(c, p)
      PROVE  SyncInv'
  <2>1. SyncTableInv(table') /\ QuotaInv(table')
    BY <1>3, <1>t, RemoveAllForSync DEF DeleteAll
  <2> QED BY <1>3, <1>t, <1>p, <2>1 DEF DeleteAll
<1>4. ASSUME NEW r \in Request, MapNow(r)
      PROVE  SyncInv'
  BY <1>4, <1>t, <1>p, MapNowSync DEF MapNow
<1>5. ASSUME NEW r \in Request, NEW s \in Slot, MapLater(r, s)
      PROVE  SyncInv'
  BY <1>5 DEF MapLater
<1>6. ASSUME NEW s \in Slot, Resume(s)
      PROVE  SyncInv'
  BY <1>6, <1>t DEF Resume
<1>7. ASSUME NEW k \in ExternalKey, Expire(k)
      PROVE  SyncInv'
  <2>1. SyncTableInv(table') /\ QuotaInv(table')
    BY <1>7, <1>t, ExpireSync DEF Expire
  <2>2. k \in Live(table)
    BY <1>7, <1>t DEF Expire, TableInv, TimersInv
  <2> QED BY <1>7, <1>t, <1>p, <2>1, <2>2 DEF Expire
<1>8. ASSUME NEW k \in ExternalKey, Revoke(k)
      PROVE  SyncInv'
  <2>1. SyncTableInv(table') /\ QuotaInv(table')
    BY <1>8, <1>t, RemoveSyncQuota DEF Revoke
  <2> QED BY <1>8, <1>t, <1>p, <2>1 DEF Revoke
<1>e. Live(EmptyTable) = {}
  BY DEF Live, EmptyTable
<1>9. CASE ResetEpoch
  BY <1>9, <1>t, <1>p, <1>e, EmptyTableSync DEF ResetEpoch
<1>10. CASE Destroy
  BY <1>10, <1>t, <1>p, <1>e, EmptyTableSync DEF Destroy
<1>11. CASE UNCHANGED vars
  BY <1>11, <1>t, <1>p DEF vars
<1> QED BY <1>1, <1>2, <1>3, <1>4, <1>5, <1>6, <1>7, <1>8, <1>9, <1>10, <1>11 DEF Next

LEMMA InitSyncInv == Init => SyncInv
<1> SUFFICES ASSUME Init PROVE SyncInv
  OBVIOUS
<1>1. IInv
  BY InitIInv
<1>2. state # "destroyed" /\ \A s \in Slot : waiting[s] = Idle
  BY DEF Init
<1> QED BY <1>1, <1>2, EmptyTableSync DEF Init, SyncInv

\* The inductive invariant holds while no handler takes a done callback.
THEOREM SyncInvariance == ASSUME ~Async PROVE Spec => []SyncInv
<1>1. SyncInv /\ [Next]_vars => SyncInv'
  BY NextSyncInv
<1> QED BY <1>1, InitSyncInv, PTL DEF Spec

-----------------------------------------------------------------------------
\* byInternal and the table agree in both directions: one external port per
\* internal port, and nothing a client holds is out of its own reach.
THEOREM IndexCorrect == ASSUME ~Async PROVE Spec => []IndexExact
<1>1. SyncInv => IndexExact
  <2> SUFFICES ASSUME SyncInv, NEW i \in InternalKey, NEW e \in ExternalPort
               PROVE  table.byInternal[i] = e <=>
                        <<i[2], e>> \in Live(table) /\ InternalOf(table, <<i[2], e>>) = i
    BY DEF IndexExact
  <2>1. e # NoPort
    BY PortAssumption DEF NoPort
  <2>2. table.byInternal[i] = e =>
          <<i[2], e>> \in Live(table) /\ InternalOf(table, <<i[2], e>>) = i
    BY <2>1 DEF SyncInv, IInv, TableInv, PointersInv
  <2>3. <<i[2], e>> \in Live(table) /\ InternalOf(table, <<i[2], e>>) = i
          => table.byInternal[i] = e
    BY DEF SyncInv, SyncTableInv, IndexInv
  <2> QED BY <2>2, <2>3
<1> QED BY <1>1, SyncInvariance, PTL

\* The counters behind the quotas count the table.
THEOREM CountersCorrect == ASSUME ~Async PROVE Spec => []CountersExact
<1>1. SyncInv => CountersExact
  BY DEF SyncInv, SyncTableInv, CountInv, CountersExact
<1> QED BY <1>1, SyncInvariance, PTL

\* maxMappings and maxPerClient bound the table.
THEOREM QuotaCorrect == ASSUME ~Async PROVE Spec => []QuotaRespected
<1>1. SyncInv => QuotaRespected
  BY DEF SyncInv, SyncTableInv, CountInv, QuotaInv, QuotaRespected
<1> QED BY <1>1, SyncInvariance, PTL

\* Nothing is left behind by destroy().
THEOREM DestroyCorrect == ASSUME ~Async PROVE Spec => []DestroyedIsEmpty
<1>1. SyncInv => DestroyedIsEmpty
  BY DEF SyncInv, IInv, TableInv, TimersInv, DestroyedIsEmpty
<1> QED BY <1>1, SyncInvariance, PTL

LEMMA StepOfOwner ==
  ASSUME ~Async, SyncInv, NEW k \in Live(table), NEW c \in Client, StepOf(c),
         table'.mappings[k] # table.mappings[k]
  PROVE  table.mappings[k].client = c
<1>0. table \in Table /\ k \in ExternalKey /\ TableInv(table)
  BY DEF SyncInv, IInv, TypeOK, Live
<1>1. ASSUME NEW r \in Request, r.client = c, MapNow(r)
      PROVE  table.mappings[k].client = c
  BY <1>1, MapNowSync
<1>2. ASSUME NEW s \in Slot, waiting[s] # Idle
      PROVE  FALSE
  BY <1>2 DEF SyncInv
<1>3. ASSUME NEW p \in Protocol, NEW i \in InternalPort, DeleteOne(c, p, i)
      PROVE  table.mappings[k].client = c
  <2> DEFINE held == table.byInternal[<<c, p, i>>]
  <2>0. held # NoPort /\ table' = Remove(table, <<p, held>>) /\ <<c, p, i>> \in InternalKey
    BY <1>3 DEF DeleteOne, InternalKey
  <2>1. <<p, held>> \in Live(table) /\ InternalOf(table, <<p, held>>) = <<c, p, i>>
    BY <1>0, <2>0 DEF TableInv, PointersInv
  <2>2. table'.mappings = [table.mappings EXCEPT ![<<p, held>>] = NoEntry]
    BY <1>0, <2>0, <2>1, RemoveEffect
  <2>3. k = <<p, held>>
    BY <1>0, <2>2 DEF Table
  <2> QED BY <2>1, <2>3 DEF InternalOf
<1>4. ASSUME NEW p \in Protocol, DeleteAll(c, p)
      PROVE  table.mappings[k].client = c
  BY <1>0, <1>4, RemoveAllForEffect DEF DeleteAll, LiveOf
<1> QED BY <1>1, <1>2, <1>3, <1>4 DEF StepOf

\* No step taken for one client changes or removes an entry of another.
THEOREM OwnershipCorrect == ASSUME ~Async PROVE Spec => OthersUntouched
<1>1. ASSUME SyncInv
      PROVE  \A k \in Live(table) :
               table'.mappings[k] # table.mappings[k] =>
                 \A c \in Client \ {table.mappings[k].client} : ~StepOf(c)
  BY <1>1, StepOfOwner
<1> QED BY <1>1, SyncInvariance, PTL DEF OthersUntouched
=============================================================================
