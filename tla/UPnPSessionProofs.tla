------------------------- MODULE UPnPSessionProofs -------------------------
(***************************************************************************)
(* What the UPnP client engine promises its callers, for any number of     *)
(* ports, calls and exchanges at once and whatever a gateway answers: no   *)
(* callback is lost or called twice, a search comes to an end, and a lease *)
(* it reports is tended.                                                   *)
(***************************************************************************)
EXTENDS UPnPSession, FiniteSetTheorems, WellFoundedInduction, TLAPS

\* The exchanges there are.  The bounds on port and attempt come from
\* on_conflict(), which increments the one with the other.
Fit ==
  {x \in Exchange :
     /\ x.port <= MaxPort + x.attempt
     /\ x.attempt <= ConflictLimit \/ x.port = AnyPort
     /\ x.kind = "describe" => x.call = NoCall
     /\ x.kind = "unmap" => x.port \in Port /\ x.origin = None
     /\ x.own /\ x.kind \in {"map", "recreate"} => x.origin \in Held}

Answer == {"none", "pending", "ok", "error", "cancelled"}
Final  == {"ok", "error", "cancelled"}
Table  == [Held -> Record \cup {None}]

SearchType ==
  /\ state \in {"new", "searching", "ready", "destroyed"}
  /\ search \in Call \cup {NoCall} /\ searchTimer \in BOOLEAN /\ usable \in BOOLEAN
HttpType == service \in Service /\ permanentOnly \in BOOLEAN /\ http \in [Slot -> Fit \cup {None}]
TableType == mappings \in Table /\ orphans \subseteq Held \X BOOLEAN /\ strayed \subseteq Held
CallType == calls \in 0 .. MaxCalls /\ answers \in [Call -> Answer]
TypeInv == SearchType /\ HttpType /\ TableType /\ CallType

\* Whose callback the exchange in a slot has.
CallOf(x) == IF x = None THEN NoCall ELSE x.call
Load      == [s \in Slot |-> CallOf(http[s])]

\* What depends on the exchange in a slot: a search, or the record kept under a
\* port, which it deletes or renews.
Idle    == <<"none", None>>
Deed(x) ==
  IF x = None THEN Idle
  ELSE IF x.kind = "describe" THEN <<"search", None>>
  ELSE IF ~x.own THEN Idle
  ELSE IF x.kind = "unmap" THEN <<"delete", x.port>>
  ELSE IF x.kind \in {"map", "recreate"} THEN <<"renew", x.origin>>
  ELSE Idle
Deeds == [s \in Slot |-> Deed(http[s])]

Waits(load, c) == search = c \/ \E s \in Slot : load[s] = c

\* Calls are numbered in turn; each one that waits is waited for in one place.
OwedInv ==
  /\ search <= calls
  /\ \A s \in Slot : Load[s] <= calls
  /\ \A s \in Slot : Load[s] # NoCall => Load[s] # search
  /\ \A s, t \in Slot : Load[s] = Load[t] /\ Load[s] # NoCall => s = t
  /\ state # "destroyed" => \A c \in Call : answers[c] = "pending" <=> Waits(Load, c)

\* A search that somebody waits for is going to end.
SearchInv ==
  search # NoCall =>
    /\ state \in {"searching", "destroyed"}
    /\ state # "destroyed" => searchTimer \/ \E s \in Slot : Deeds[s][1] = "search"

\* A table whose records are tended, given what is under way.
TendedAt(r, deeds, p) ==
  /\ r.state = "ACTIVE" /\ r.finite => r.timer \/ \E s \in Slot : deeds[s] = <<"delete", p>>
  /\ r.state = "RENEWING" => \E s \in Slot : deeds[s] = <<"renew", p>>
Tended(maps, deeds, except) ==
  \A p \in Held \ except : maps[p] # None => TendedAt(maps[p], deeds, p)

\* A renewal that is the record's own has its record.
Owning(maps, deeds) ==
  \A p \in Held : (\E s \in Slot : deeds[s] = <<"renew", p>>) => maps[p] # None

LeaseInv ==
  /\ Owning(mappings, Deeds)
  /\ state # "destroyed" => Tended(mappings, Deeds, strayed)

IInv == TypeInv /\ OwedInv /\ SearchInv /\ LeaseInv

-----------------------------------------------------------------------------
(* Slots.                                                                  *)

LEMMA Least ==
  ASSUME NEW T \in SUBSET Nat, T # {}
  PROVE  \E x \in T : \A y \in T : x <= y
<1> DEFINE Less == {pair \in Nat \X Nat : pair[1] < pair[2]}
<1>1. IsWellFoundedOn(Less, Nat) BY NatLessThanWellFounded DEF OpToRel
<1>2. \A x, y \in T : <<y, x>> \notin Less => x <= y OBVIOUS
<1> HIDE DEF Less
<1>3. \E x \in T : \A y \in T : ~ (<<y, x>> \in Less) BY <1>1, WFMin
<1> QED BY <1>2, <1>3

\* A new exchange takes a slot that was free.
LEMMA PostSlot ==
  ASSUME NEW x, Post(x)
  PROVE  \E s \in Slot : http[s] = None /\ http' = [http EXCEPT ![s] = x]
<1> DEFINE s == CHOOSE u \in Free : \A t \in Free : u <= t
<1>1. Free \subseteq Slot /\ Free \subseteq Nat /\ Free # {}
  BY UPnPSessionAssumption DEF Free, Post
<1>2. \E u \in Free : \A t \in Free : u <= t BY <1>1, Least
<1>3. s \in Free BY <1>2
<1>4. http' = [http EXCEPT ![s] = x] BY DEF Post
<1> HIDE DEF s
<1> QED BY <1>3, <1>4 DEF Free

\* One slot changes.
LEMMA OneSlot ==
  ASSUME HttpType, NEW s \in Slot, NEW x \in Fit \cup {None}, http' = [http EXCEPT ![s] = x]
  PROVE  /\ http' \in [Slot -> Fit \cup {None}]
         /\ Load' = [Load EXCEPT ![s] = CallOf(x)]
         /\ Deeds' = [Deeds EXCEPT ![s] = Deed(x)]
         /\ Load[s] = CallOf(http[s]) /\ Deeds[s] = Deed(http[s])
<1>1. \A t \in Slot : http'[t] = IF t = s THEN x ELSE http[t] BY DEF HttpType
<1>2. http' \in [Slot -> Fit \cup {None}] BY DEF HttpType
<1>3. Load' = [Load EXCEPT ![s] = CallOf(x)]
  <2>1. \A t \in Slot : CallOf(http'[t]) = IF t = s THEN CallOf(x) ELSE CallOf(http[t])
    <3> TAKE t \in Slot
    <3>1. CASE t = s BY <1>1, <3>1
    <3>2. CASE t # s BY <1>1, <3>2
    <3> QED BY <3>1, <3>2
  <2> QED BY <2>1 DEF Load
<1>4. Deeds' = [Deeds EXCEPT ![s] = Deed(x)]
  <2>1. \A t \in Slot : Deed(http'[t]) = IF t = s THEN Deed(x) ELSE Deed(http[t])
    <3> TAKE t \in Slot
    <3>1. CASE t = s BY <1>1, <3>1
    <3>2. CASE t # s BY <1>1, <3>2
    <3> QED BY <3>1, <3>2
  <2> QED BY <2>1 DEF Deeds
<1> QED BY <1>2, <1>3, <1>4 DEF Load, Deeds

LEMMA LoadType == ASSUME HttpType PROVE Load \in [Slot -> Call \cup {NoCall}] /\ NoCall \notin Call
BY DEF HttpType, Load, CallOf, Fit, Exchange, Call, NoCall

LEMMA PostLoad ==
  ASSUME HttpType, NEW x \in Fit, Post(x)
  PROVE  \E s \in Slot : /\ Load[s] = NoCall /\ Deeds[s] = Idle
                         /\ http' \in [Slot -> Fit \cup {None}]
                         /\ Load' = [Load EXCEPT ![s] = CallOf(x)]
                         /\ Deeds' = [Deeds EXCEPT ![s] = Deed(x)]
<1>1. PICK s \in Slot : http[s] = None /\ http' = [http EXCEPT ![s] = x] BY PostSlot
<1>2. CallOf(None) = NoCall /\ Deed(None) = Idle BY DEF CallOf, Deed
<1> QED BY <1>1, <1>2, OneSlot

LEMMA CloseLoad ==
  ASSUME HttpType, NEW s \in Slot, Close(s)
  PROVE  /\ http' \in [Slot -> Fit \cup {None}]
         /\ Load' = [Load EXCEPT ![s] = NoCall] /\ Deeds' = [Deeds EXCEPT ![s] = Idle]
         /\ Load[s] = CallOf(http[s]) /\ Deeds[s] = Deed(http[s])
<1>1. CallOf(None) = NoCall /\ Deed(None) = Idle BY DEF CallOf, Deed
<1> QED BY <1>1, OneSlot DEF Close

-----------------------------------------------------------------------------
(* Who waits for what.                                                     *)

\* A call begins in a slot that answers nobody.
LEMMA OwedBegins ==
  ASSUME TypeInv, OwedInv, NewCall, NEW s \in Slot, Load[s] = NoCall,
         Load' = [Load EXCEPT ![s] = calls'], answers' = Told(calls', "pending"),
         search' = search, state' = state
  PROVE  OwedInv' /\ CallType'
<1>1. calls \in Nat /\ calls' = calls + 1 /\ calls' \in 0 .. MaxCalls /\ calls' \in Call
  BY UPnPSessionAssumption DEF TypeInv, CallType, NewCall, Call
<1>2. answers' = [answers EXCEPT ![calls'] = "pending"] BY <1>1 DEF Told, Call, NoCall
<1>3. \A c \in Call : answers'[c] = IF c = calls' THEN "pending" ELSE answers[c]
  BY <1>2 DEF TypeInv, CallType
<1>4. CallType' BY <1>1, <1>2 DEF TypeInv, CallType, Answer
<1>5. /\ Load \in [Slot -> Call \cup {NoCall}] /\ search \in Call \cup {NoCall}
      /\ NoCall \notin Call
  BY LoadType DEF TypeInv, SearchType
<1>6. /\ \A t \in Slot : Load'[t] = IF t = s THEN calls' ELSE Load[t]
      /\ \A t \in Slot : Load[t] # calls'
      /\ search # calls'
  BY <1>1, <1>5 DEF OwedInv, Call, NoCall
<1>7. search' <= calls' /\ \A t \in Slot : Load'[t] <= calls'
  BY <1>1, <1>5, <1>6 DEF OwedInv, Call, NoCall
<1>8. \A t \in Slot : Load'[t] # NoCall => Load'[t] # search' BY <1>6 DEF OwedInv
<1>9. \A t, u \in Slot : Load'[t] = Load'[u] /\ Load'[t] # NoCall => t = u
  BY <1>6 DEF OwedInv
<1>10. ASSUME state # "destroyed", NEW c \in Call
       PROVE  answers'[c] = "pending" <=> Waits(Load, c)'
  <2>1. answers[c] = "pending" <=> Waits(Load, c) BY <1>10 DEF OwedInv
  <2>2. CASE c = calls' BY <1>3, <1>6, <2>2 DEF Waits
  <2>3. CASE c # calls' BY <1>3, <1>5, <1>6, <2>1, <2>3 DEF Waits
  <2> QED BY <2>2, <2>3
<1> QED BY <1>4, <1>7, <1>8, <1>9, <1>10 DEF OwedInv

\* A call is refused at once.
LEMMA OwedRefused ==
  ASSUME TypeInv, OwedInv, NewCall, Load' = Load, answers' = Told(calls', "error"),
         search' = search, state' = state
  PROVE  OwedInv' /\ CallType'
<1>1. calls \in Nat /\ calls' = calls + 1 /\ calls' \in 0 .. MaxCalls /\ calls' \in Call
  BY UPnPSessionAssumption DEF TypeInv, CallType, NewCall, Call
<1>2. answers' = [answers EXCEPT ![calls'] = "error"] BY <1>1 DEF Told, Call, NoCall
<1>3. \A c \in Call : answers'[c] = IF c = calls' THEN "error" ELSE answers[c]
  BY <1>2 DEF TypeInv, CallType
<1>4. CallType' BY <1>1, <1>2 DEF TypeInv, CallType, Answer
<1>5. /\ Load \in [Slot -> Call \cup {NoCall}] /\ search \in Call \cup {NoCall}
      /\ NoCall \notin Call
  BY LoadType DEF TypeInv, SearchType
<1>6. ~ Waits(Load, calls') BY <1>1, <1>5 DEF OwedInv, Call, NoCall, Waits
<1>7. search' <= calls' /\ \A t \in Slot : Load'[t] <= calls'
  BY <1>1, <1>5 DEF OwedInv, Call, NoCall
<1>8. ASSUME state # "destroyed", NEW c \in Call
      PROVE  answers'[c] = "pending" <=> Waits(Load, c)'
  <2>1. answers[c] = "pending" <=> Waits(Load, c) BY <1>8 DEF OwedInv
  <2>2. Waits(Load, c)' <=> Waits(Load, c) BY DEF Waits
  <2> QED BY <1>3, <1>6, <2>1, <2>2
<1> QED BY <1>4, <1>7, <1>8 DEF OwedInv

\* The exchange in a slot tells whoever waits for it.
LEMMA OwedEnds ==
  ASSUME TypeInv, OwedInv, NEW s \in Slot, NEW outcome \in Final,
         Load' = [Load EXCEPT ![s] = NoCall], answers' = Told(Load[s], outcome),
         calls' = calls, search' = search, state' = state
  PROVE  OwedInv' /\ CallType'
<1>1. /\ Load \in [Slot -> Call \cup {NoCall}] /\ search \in Call \cup {NoCall}
      /\ NoCall \notin Call
  BY LoadType DEF TypeInv, SearchType
<1>2. \A c \in Call : answers'[c] = IF c = Load[s] THEN outcome ELSE answers[c]
  BY <1>1 DEF TypeInv, CallType, Told
<1>3. CallType' BY <1>1 DEF TypeInv, CallType, Told, Answer, Final
<1>4. \A t \in Slot : Load'[t] = IF t = s THEN NoCall ELSE Load[t] BY <1>1
<1>5. calls \in Nat BY DEF TypeInv, CallType
<1>6. \A t \in Slot : Load'[t] <= calls' BY <1>4, <1>5 DEF OwedInv, NoCall
<1>7. /\ \A t \in Slot : Load'[t] # NoCall => Load'[t] # search'
      /\ \A t, u \in Slot : Load'[t] = Load'[u] /\ Load'[t] # NoCall => t = u
  BY <1>4 DEF OwedInv
<1>8. ASSUME state # "destroyed", NEW c \in Call
      PROVE  answers'[c] = "pending" <=> Waits(Load, c)'
  <2>1. answers[c] = "pending" <=> Waits(Load, c) BY <1>8 DEF OwedInv
  <2>2. CASE c = Load[s]
    <3>1. answers'[c] # "pending" BY <1>2, <2>2 DEF Final
    <3>2. ~ Waits(Load, c)' BY <1>1, <1>4, <2>2 DEF Waits, OwedInv
    <3> QED BY <3>1, <3>2
  <2>3. CASE c # Load[s] BY <1>1, <1>2, <1>4, <2>1, <2>3 DEF Waits
  <2> QED BY <2>2, <2>3
<1> QED BY <1>3, <1>6, <1>7, <1>8 DEF OwedInv

\* end_search(): no slot has a callback more or less.
LEMMA OwedSearch ==
  ASSUME TypeInv, OwedInv, NEW outcome \in Final, EndSearch(outcome), Load' = Load,
         calls' = calls, state # "destroyed"
  PROVE  OwedInv' /\ CallType'
<1>1. /\ Load \in [Slot -> Call \cup {NoCall}] /\ search \in Call \cup {NoCall}
      /\ NoCall \notin Call
  BY LoadType DEF TypeInv, SearchType
<1>2. answers' = Told(search, outcome) /\ search' = NoCall BY DEF EndSearch
<1>3. \A c \in Call : answers'[c] = IF c = search THEN outcome ELSE answers[c]
  BY <1>1, <1>2 DEF TypeInv, CallType, Told
<1>4. CallType' BY <1>1, <1>2 DEF TypeInv, CallType, Told, Answer, Final
<1>5. search' <= calls' BY <1>2 DEF TypeInv, CallType, NoCall
<1>6. ASSUME state # "destroyed", NEW c \in Call
      PROVE  answers'[c] = "pending" <=> Waits(Load, c)'
  <2>1. answers[c] = "pending" <=> Waits(Load, c) BY <1>6 DEF OwedInv
  <2>2. CASE c = search
    <3>1. answers'[c] # "pending" BY <1>3, <2>2 DEF Final
    <3>2. ~ Waits(Load, c)' BY <1>1, <1>2, <2>2 DEF Waits, OwedInv
    <3> QED BY <3>1, <3>2
  <2>3. CASE c # search BY <1>1, <1>2, <1>3, <2>1, <2>3 DEF Waits
  <2> QED BY <2>2, <2>3
<1> QED BY <1>2, <1>4, <1>5, <1>6 DEF OwedInv

LEMMA OwedSame ==
  ASSUME TypeInv, OwedInv, Load' = Load, answers' = answers, calls' = calls, search' = search,
         state' = state \/ state' = "destroyed"
  PROVE  OwedInv' /\ CallType'
<1>1. CallType' BY DEF TypeInv, CallType
<1>2. \A c \in Call : Waits(Load, c)' <=> Waits(Load, c) BY DEF Waits
<1>3. state' # "destroyed" =>
        \A c \in Call : answers'[c] = "pending" <=> Waits(Load, c)'
  BY <1>2 DEF OwedInv
<1> QED BY <1>1, <1>3 DEF OwedInv

-----------------------------------------------------------------------------
(* Searches and leases.                                                    *)

LEMMA SearchSame ==
  ASSUME SearchInv, search' = search, state' = state \/ state' = "destroyed",
         state' # "destroyed" => searchTimer' = searchTimer,
         \A s \in Slot : Deeds[s][1] = "search" => Deeds'[s][1] = "search"
  PROVE  SearchInv'
<1>1. (\E s \in Slot : Deeds[s][1] = "search") => \E s \in Slot : Deeds'[s][1] = "search" OBVIOUS
<1> QED BY <1>1 DEF SearchInv

\* A record stays tended while it and what is under way for it stay.
LEMMA TendedStep ==
  ASSUME NEW maps, NEW deeds, NEW ex, Tended(maps, deeds, ex), NEW then, NEW next, NEW more,
         ex \subseteq more,
         \A p \in Held \ more : then[p] # None =>
           \/ TendedAt(then[p], next, p)
           \/ /\ then[p] = maps[p]
              /\ \A s \in Slot : deeds[s] \in {<<"delete", p>>, <<"renew", p>>} => next[s] = deeds[s]
  PROVE  Tended(then, next, more)
<1> SUFFICES ASSUME NEW p \in Held \ more, then[p] # None PROVE TendedAt(then[p], next, p)
  BY DEF Tended
<1>1. CASE /\ then[p] = maps[p]
           /\ \A s \in Slot : deeds[s] \in {<<"delete", p>>, <<"renew", p>>} => next[s] = deeds[s]
  <2>1. TendedAt(maps[p], deeds, p) BY <1>1 DEF Tended
  <2>2. (\E s \in Slot : deeds[s] = <<"delete", p>>) => \E s \in Slot : next[s] = <<"delete", p>>
    BY <1>1
  <2>3. (\E s \in Slot : deeds[s] = <<"renew", p>>) => \E s \in Slot : next[s] = <<"renew", p>>
    BY <1>1
  <2>4. TendedAt(maps[p], next, p) BY <2>1, <2>2, <2>3 DEF TendedAt
  <2> QED BY <1>1, <2>4
<1> QED BY <1>1

LEMMA OwningStep ==
  ASSUME NEW maps, NEW deeds, Owning(maps, deeds), NEW then, NEW next,
         \A p \in Held : maps[p] # None => then[p] # None,
         \A s \in Slot : \A p \in Held :
           next[s] = <<"renew", p>> => deeds[s] = <<"renew", p>> \/ then[p] # None
  PROVE  Owning(then, next)
BY DEF Owning

\* The table stays and so does all that is under way but for one slot, which
\* had nothing to do with a record.
LEMMA LeaseOther ==
  ASSUME LeaseInv, mappings' = mappings, strayed' = strayed,
         state' = state \/ state' = "destroyed",
         \A s \in Slot : Deeds[s][1] \in {"delete", "renew"} => Deeds'[s] = Deeds[s],
         \A s \in Slot : Deeds'[s][1] = "renew" => Deeds'[s] = Deeds[s]
  PROVE  LeaseInv'
<1>1. Owning(mappings, Deeds')
  <2>1. \A s \in Slot : \A p \in Held : Deeds'[s] = <<"renew", p>> => Deeds[s] = <<"renew", p>>
    OBVIOUS
  <2> QED BY <2>1 DEF LeaseInv, Owning
<1>2. state' # "destroyed" => Tended(mappings, Deeds', strayed)
  BY TendedStep DEF LeaseInv
<1> QED BY <1>1, <1>2 DEF LeaseInv

-----------------------------------------------------------------------------
(* Exchanges.                                                              *)

LEMMA BlankFit == Blank \in Fit /\ \A x \in Fit : x # None
<1>1. Blank \in Exchange
  BY UPnPSessionAssumption DEF Blank, Exchange, NoCall, AnyPort, Asked, Service, Held
<1> QED BY <1>1, UPnPSessionAssumption, NoneAssumption DEF Blank, Fit, AnyPort, NoCall

LEMMA DescribeFit ==
  LET x == [Blank EXCEPT !.kind = "describe"] IN
  x \in Fit /\ CallOf(x) = NoCall /\ Deed(x) = <<"search", None>>
<1> DEFINE x == [Blank EXCEPT !.kind = "describe"]
<1>1. x \in Fit BY BlankFit DEF Fit, Exchange, Blank
<1> QED BY <1>1, BlankFit DEF CallOf, Deed, Blank

LEMMA SmallBounds ==
  ASSUME NEW p \in Held
  PROVE  p \in Asked /\ p <= MaxPort + 0 /\ 0 <= ConflictLimit /\ 0 \in 0 .. ConflictLimit + 1
BY UPnPSessionAssumption DEF Asked, Held, Port, AnyPort

\* What map() and unmap() post.
MapRequest(c, p, exact, finite, to) ==
  [Blank EXCEPT !.call = c, !.port = p, !.exact = exact, !.finite = finite, !.to = to]
UnmapRequest(c, p, own, to) ==
  [Blank EXCEPT !.kind = "unmap", !.call = c, !.port = p, !.own = own, !.to = to]

LEMMA MapFit ==
  ASSUME NEW c \in Call, NEW p \in Held, NEW to \in Service
  PROVE  \A exact, finite \in BOOLEAN :
           /\ MapRequest(c, p, exact, finite, to) \in Fit
           /\ CallOf(MapRequest(c, p, exact, finite, to)) = c
           /\ Deed(MapRequest(c, p, exact, finite, to)) = Idle
<1> SUFFICES ASSUME NEW exact \in BOOLEAN, NEW finite \in BOOLEAN
             PROVE  /\ MapRequest(c, p, exact, finite, to) \in Fit
                    /\ CallOf(MapRequest(c, p, exact, finite, to)) = c
                    /\ Deed(MapRequest(c, p, exact, finite, to)) = Idle
  OBVIOUS
<1> DEFINE x == MapRequest(c, p, exact, finite, to)
<1>1. x \in Exchange BY BlankFit, SmallBounds DEF Fit, Exchange, MapRequest
<1>2. x.kind = "map" /\ x.call = c /\ x.port = p /\ x.attempt = 0 /\ ~x.own
  BY DEF Blank, MapRequest
<1> HIDE DEF x
<1>3. x \in Fit BY <1>1, <1>2, SmallBounds DEF Fit
<1> QED BY <1>2, <1>3, BlankFit DEF CallOf, Deed, x

LEMMA RenewalFit ==
  ASSUME NEW p \in Held, NEW exact \in BOOLEAN, NEW own \in BOOLEAN,
         permanentOnly \in BOOLEAN, service \in Service
  PROVE  /\ Renewal(p, exact, own) \in Fit /\ CallOf(Renewal(p, exact, own)) = NoCall
         /\ own => Deed(Renewal(p, exact, own)) = <<"renew", p>>
         /\ ~own => Deed(Renewal(p, exact, own)) = Idle
<1> DEFINE x == Renewal(p, exact, own)
<1>1. x \in Exchange
  <2>1. \A kind \in {"map", "recreate"} : \A finite \in BOOLEAN :
          [Blank EXCEPT !.kind = kind, !.port = p, !.origin = p, !.own = own, !.exact = exact,
                        !.finite = finite, !.to = service] \in Exchange
    BY BlankFit, SmallBounds DEF Fit, Exchange
  <2>2. (~permanentOnly) \in BOOLEAN OBVIOUS
  <2>3. (IF Recreate THEN "recreate" ELSE "map") \in {"map", "recreate"} OBVIOUS
  <2> QED BY <2>1, <2>2, <2>3 DEF Renewal
<1>2. /\ x.kind \in {"map", "recreate"} /\ x.call = NoCall /\ x.port = p /\ x.origin = p
      /\ x.attempt = 0 /\ (own => x.own) /\ (~own => ~x.own)
  BY DEF Blank, Renewal
<1> HIDE DEF x
<1>3. x \in Fit BY <1>1, <1>2, SmallBounds DEF Fit
<1>4. x # None BY <1>3, BlankFit
<1>5. CallOf(x) = NoCall BY <1>2, <1>4 DEF CallOf
<1>6. own => Deed(x) = <<"renew", p>> BY <1>2, <1>4 DEF Deed
<1>7. ~own => Deed(x) = Idle BY <1>2, <1>4 DEF Deed
<1> QED BY <1>3, <1>5, <1>6, <1>7 DEF x

LEMMA UnmapFit ==
  ASSUME NEW c \in Call, NEW p \in Port, NEW own \in BOOLEAN, NEW to \in Service
  PROVE  /\ UnmapRequest(c, p, own, to) \in Fit /\ CallOf(UnmapRequest(c, p, own, to)) = c
         /\ own => Deed(UnmapRequest(c, p, own, to)) = <<"delete", p>>
         /\ ~own => Deed(UnmapRequest(c, p, own, to)) = Idle
<1> DEFINE x == UnmapRequest(c, p, own, to)
<1>0. p \in Held BY DEF Held
<1>1. x \in Exchange BY <1>0, BlankFit, SmallBounds DEF Fit, Exchange, UnmapRequest
<1>2. /\ x.kind = "unmap" /\ x.call = c /\ x.port = p /\ x.origin = None
      /\ x.attempt = 0 /\ (own => x.own) /\ (~own => ~x.own)
  BY DEF Blank, UnmapRequest
<1> HIDE DEF x
<1>3. x \in Fit BY <1>0, <1>1, <1>2, SmallBounds DEF Fit
<1>4. x # None BY <1>3, BlankFit
<1>5. CallOf(x) = c BY <1>2, <1>4 DEF CallOf
<1>6. own => Deed(x) = <<"delete", p>> BY <1>2, <1>4 DEF Deed
<1>7. ~own => Deed(x) = Idle BY <1>2, <1>4 DEF Deed
<1> QED BY <1>3, <1>5, <1>6, <1>7 DEF x

LEMMA ForeignFit ==
  ASSUME NEW c \in Call, NEW to \in Service, NEW saved \in Service
  PROVE  LET x == [Blank EXCEPT !.kind = "foreign", !.call = c, !.to = to, !.saved = saved] IN
         x \in Fit /\ CallOf(x) = c /\ Deed(x) = Idle
<1> DEFINE x == [Blank EXCEPT !.kind = "foreign", !.call = c, !.to = to, !.saved = saved]
<1>1. x \in Exchange BY BlankFit DEF Fit, Exchange
<1>2. x.kind = "foreign" /\ x.call = c /\ x.port = AnyPort /\ x.attempt = 0 /\ ~x.own
  BY DEF Blank
<1>3. AnyPort \in Held BY DEF Held
<1> HIDE DEF x
<1>4. x \in Fit BY <1>1, <1>2, <1>3, SmallBounds DEF Fit
<1> QED BY <1>2, <1>4, BlankFit DEF CallOf, Deed, x

\* What a repetition changes of an exchange is neither whose it is nor what it
\* is for.
LEMMA TouchFit ==
  ASSUME NEW x \in Fit, NEW y \in Exchange, y.kind = x.kind, y.call = x.call, y.port = x.port,
         y.origin = x.origin, y.own <=> x.own, y.attempt = x.attempt
  PROVE  y \in Fit /\ CallOf(y) = CallOf(x) /\ Deed(y) = Deed(x)
<1>1. y \in Fit BY DEF Fit
<1>2. x # None /\ y # None BY <1>1, BlankFit
<1>3. CallOf(y) = CallOf(x) BY <1>2 DEF CallOf
<1>4. Deed(y) = Deed(x) BY <1>2 DEF Deed
<1> QED BY <1>1, <1>3, <1>4

LEMMA RepostFit ==
  ASSUME NEW x \in Fit, NEW finite \in BOOLEAN, service \in Service
  PROVE  LET y == [[x EXCEPT !.finite = finite] EXCEPT !.retried = FALSE, !.to = service] IN
         /\ y \in Fit /\ CallOf(y) = CallOf(x) /\ Deed(y) = Deed(x)
<1> DEFINE y == [[x EXCEPT !.finite = finite] EXCEPT !.retried = FALSE, !.to = service]
<1>1. x \in Exchange BY DEF Fit
<1>2. y \in Exchange BY <1>1 DEF Exchange
<1>3. /\ y.kind = x.kind /\ y.call = x.call /\ y.port = x.port /\ y.origin = x.origin
      /\ (y.own <=> x.own) /\ y.attempt = x.attempt
  BY <1>1 DEF Exchange
<1> HIDE DEF y
<1>4. y \in Fit /\ CallOf(y) = CallOf(x) /\ Deed(y) = Deed(x) BY <1>2, <1>3, TouchFit
<1> QED BY <1>4 DEF y

-----------------------------------------------------------------------------
(* An exchange ends, or is repeated.                                       *)

\* A slot's exchange is followed by one for the same.
LEMMA SlotSame ==
  ASSUME IInv, NEW s \in Slot, NEW x \in Fit, http[s] # None, CallOf(x) = CallOf(http[s]),
         Deed(x) = Deed(http[s]), http' = [http EXCEPT ![s] = x],
         permanentOnly' \in BOOLEAN, service' = service,
         UNCHANGED <<state, searchVars, tableVars, calls, answers>>
  PROVE  IInv'
<1>1. TypeInv /\ OwedInv /\ SearchInv /\ LeaseInv BY DEF IInv
<1>2. http' \in [Slot -> Fit \cup {None}] /\ Load' = Load /\ Deeds' = Deeds
  <2>1. HttpType BY <1>1 DEF TypeInv
  <2>2. /\ http' \in [Slot -> Fit \cup {None}] /\ Load' = [Load EXCEPT ![s] = Load[s]]
        /\ Deeds' = [Deeds EXCEPT ![s] = Deeds[s]]
    BY <2>1, OneSlot
  <2>3. Load' = Load BY <2>2 DEF Load
  <2>4. Deeds' = Deeds BY <2>2 DEF Deeds
  <2> QED BY <2>2, <2>3, <2>4
<1>3. /\ state' = state /\ search' = search /\ searchTimer' = searchTimer /\ usable' = usable
      /\ mappings' = mappings /\ orphans' = orphans /\ strayed' = strayed
      /\ calls' = calls /\ answers' = answers
  BY DEF searchVars, tableVars
<1>4. SearchType' /\ HttpType' /\ TableType'
  BY <1>1, <1>2, <1>3 DEF TypeInv, SearchType, HttpType, TableType
<1>5. OwedInv' /\ CallType' BY <1>1, <1>2, <1>3, OwedSame
<1>6. SearchInv' BY <1>1, <1>2, <1>3, SearchSame
<1>7. LeaseInv' BY <1>1, <1>2, <1>3, LeaseOther
<1> QED BY <1>4, <1>5, <1>6, <1>7 DEF IInv, TypeInv

\* What a mapping request or a renewal is for.
LEMMA RenewDeed ==
  ASSUME NEW x \in Fit, x.kind \in {"map", "recreate"}
  PROVE  /\ Deed(x)[1] \in {"none", "renew"}
         /\ x.own => Deed(x) = <<"renew", x.origin>> /\ x.origin \in Held
         /\ ~x.own => Deed(x) = Idle
<1>1. x # None BY BlankFit
<1> QED BY <1>1 DEF Deed, Idle, Fit

\* A mapping request fails.
LEMMA FailKeeps ==
  ASSUME IInv, NEW s \in Slot, http[s] \in Fit, http[s].kind \in {"map", "recreate"},
         NEW x \in Fit, x.kind \in {"map", "recreate"}, CallOf(x) = CallOf(http[s]),
         Deed(x) = Deed(http[s]), Close(s), Fail(x),
         permanentOnly' \in BOOLEAN, service' = service,
         UNCHANGED <<state, searchVars, orphans, strayed, calls>>
  PROVE  IInv'
<1>1. TypeInv /\ OwedInv /\ SearchInv /\ LeaseInv BY DEF IInv
<1>2. /\ http' \in [Slot -> Fit \cup {None}] /\ Load' = [Load EXCEPT ![s] = NoCall]
      /\ Deeds' = [Deeds EXCEPT ![s] = Idle] /\ Load[s] = CallOf(x) /\ Deeds[s] = Deed(x)
  <2>1. HttpType /\ http' = [http EXCEPT ![s] = None] BY <1>1 DEF TypeInv, Close
  <2>2. CallOf(None) = NoCall /\ Deed(None) = Idle BY DEF CallOf, Deed
  <2> QED BY <2>1, <2>2, OneSlot
<1>3. /\ state' = state /\ search' = search /\ searchTimer' = searchTimer /\ usable' = usable
      /\ orphans' = orphans /\ strayed' = strayed /\ calls' = calls
  BY DEF searchVars
<1>4. \A t \in Slot : Deeds'[t] = IF t = s THEN Idle ELSE Deeds[t] BY <1>2 DEF Deeds
<1>5. /\ Deed(x)[1] \in {"none", "renew"}
      /\ x.own => Deed(x) = <<"renew", x.origin>> /\ x.origin \in Held
      /\ ~x.own => Deed(x) = Idle
  BY RenewDeed
<1>6. answers' = Told(Load[s], "error")
  <2>1. x # None BY BlankFit
  <2> QED BY <1>2, <2>1 DEF Fail, CallOf
<1>7. OwedInv' /\ CallType' BY <1>1, <1>2, <1>3, <1>6, OwedEnds DEF Final
<1>8. SearchInv' BY <1>1, <1>2, <1>3, <1>4, <1>5, SearchSame
<1>9. CASE x.own
  <2> DEFINE lost == [mappings[x.origin] EXCEPT !.state = "LOST"]
  <2>1. x.origin \in Held /\ Deeds[s] = <<"renew", x.origin>> BY <1>2, <1>5, <1>9
  <2>2. mappings[x.origin] \in Record
    BY <1>1, <2>1 DEF LeaseInv, Owning, TypeInv, TableType, Table
  <2>3. lost \in Record /\ lost.state = "LOST" BY <2>2 DEF Record
  <2>4. mappings' = [mappings EXCEPT ![x.origin] = lost] BY <1>9 DEF Fail
  <2> HIDE DEF lost
  <2>5. \A p \in Held : mappings'[p] = IF p = x.origin THEN lost ELSE mappings[p]
    BY <1>1, <2>1, <2>4 DEF TypeInv, TableType, Table
  <2>6. mappings' \in Table BY <1>1, <2>1, <2>3, <2>4 DEF TypeInv, TableType, Table
  <2>7. lost # None BY <2>3, NoneAssumption
  <2>8. Owning(mappings', Deeds')
    <3>1. \A p \in Held : mappings[p] # None => mappings'[p] # None BY <2>5, <2>7
    <3>2. \A t \in Slot : \A p \in Held : Deeds'[t] = <<"renew", p>> => Deeds[t] = <<"renew", p>>
      BY <1>4 DEF Idle
    <3> QED BY <1>1, <3>1, <3>2 DEF LeaseInv, Owning
  <2>9. state # "destroyed" => Tended(mappings', Deeds', strayed)
    <3>1. TendedAt(lost, Deeds', x.origin) BY <2>3 DEF TendedAt
    <3>2. ASSUME NEW p \in Held, p # x.origin
          PROVE  /\ mappings'[p] = mappings[p]
                 /\ \A t \in Slot : Deeds[t] \in {<<"delete", p>>, <<"renew", p>>}
                                      => Deeds'[t] = Deeds[t]
      BY <1>4, <2>1, <2>5, <3>2
    <3>3. \A p \in Held \ strayed : mappings'[p] # None =>
             \/ TendedAt(mappings'[p], Deeds', p)
             \/ /\ mappings'[p] = mappings[p]
                /\ \A t \in Slot : Deeds[t] \in {<<"delete", p>>, <<"renew", p>>}
                                     => Deeds'[t] = Deeds[t]
      BY <2>5, <3>1, <3>2
    <3> QED BY <1>1, <3>3, TendedStep DEF LeaseInv
  <2>10. LeaseInv' BY <1>3, <2>8, <2>9 DEF LeaseInv
  <2>11. SearchType' /\ HttpType' /\ TableType'
    BY <1>1, <1>2, <1>3, <2>6 DEF TypeInv, SearchType, HttpType, TableType
  <2> QED BY <1>7, <1>8, <2>10, <2>11 DEF IInv, TypeInv
<1>10. CASE ~x.own
  <2>1. mappings' = mappings /\ Deeds[s] = Idle BY <1>2, <1>5, <1>10 DEF Fail
  <2>2. Deeds' = Deeds BY <1>2, <2>1 DEF Deeds
  <2>3. LeaseInv' BY <1>1, <1>3, <2>1, <2>2, LeaseOther
  <2>4. SearchType' /\ HttpType' /\ TableType'
    BY <1>1, <1>2, <1>3, <2>1 DEF TypeInv, SearchType, HttpType, TableType
  <2> QED BY <1>7, <1>8, <2>3, <2>4 DEF IInv, TypeInv
<1> QED BY <1>9, <1>10

LEMMA AttemptKeeps ==
  ASSUME IInv, NEW s \in Slot, http[s] \in Fit, http[s].kind \in {"map", "recreate"},
         NEW x \in Fit, x.kind \in {"map", "recreate"}, CallOf(x) = CallOf(http[s]),
         Deed(x) = Deed(http[s]), Attempt(s, x),
         permanentOnly' \in BOOLEAN, service' = service,
         UNCHANGED <<state, searchVars, orphans, strayed, calls>>
  PROVE  IInv'
<1>1. CASE state = "ready"
  <2> DEFINE finite == x.finite /\ ~permanentOnly'
             y == [[x EXCEPT !.finite = finite] EXCEPT !.retried = FALSE, !.to = service]
  <2>1. /\ http' = [http EXCEPT ![s] = y] /\ answers' = answers /\ mappings' = mappings
    BY <1>1 DEF Attempt, Repost
  <2>2. finite \in BOOLEAN OBVIOUS
  <2> HIDE DEF finite
  <2>3. service \in Service BY DEF IInv, TypeInv, HttpType
  <2>4. y \in Fit /\ CallOf(y) = CallOf(x) /\ Deed(y) = Deed(x) BY <2>2, <2>3, RepostFit
  <2> HIDE DEF y
  <2>5. http[s] # None BY BlankFit
  <2>6. UNCHANGED <<state, searchVars, tableVars, calls, answers>> BY <2>1 DEF tableVars
  <2> QED BY <2>1, <2>4, <2>5, <2>6, SlotSame
<1>2. CASE state # "ready"
  <2>1. Close(s) /\ Fail(x) BY <1>2 DEF Attempt
  <2> QED BY <2>1, FailKeeps
<1> QED BY <1>1, <1>2

-----------------------------------------------------------------------------
(* Searches.                                                               *)

LEMMA DiscoverKeeps == ASSUME IInv, Discover PROVE IInv'
<1>1. TypeInv /\ OwedInv /\ SearchInv /\ LeaseInv BY DEF IInv
<1>2. /\ NewCall /\ service' = service /\ permanentOnly' = permanentOnly /\ http' = http
      /\ mappings' = mappings /\ orphans' = orphans /\ strayed' = strayed
  BY DEF Discover, tableVars
<1>3. Load' = Load /\ Deeds' = Deeds BY <1>2 DEF Load, Deeds
<1>4. HttpType' /\ TableType' BY <1>1, <1>2 DEF TypeInv, HttpType, TableType
<1>5. CASE state \in {"destroyed", "searching"}
  <2>1. /\ answers' = Told(calls', "error") /\ state' = state /\ search' = search
        /\ searchTimer' = searchTimer /\ usable' = usable
    BY <1>5 DEF Discover, searchVars
  <2>2. OwedInv' /\ CallType' BY <1>1, <1>2, <1>3, <2>1, OwedRefused
  <2>3. SearchInv' BY <1>1, <1>3, <2>1, SearchSame
  <2>4. LeaseInv' BY <1>1, <1>2, <1>3, <2>1, LeaseOther
  <2>5. SearchType' BY <1>1, <2>1 DEF TypeInv, SearchType
  <2> QED BY <1>4, <2>2, <2>3, <2>4, <2>5 DEF IInv, TypeInv
<1>6. CASE state \notin {"destroyed", "searching"}
  <2>1. /\ state' = "searching" /\ search' = calls' /\ answers' = Told(calls', "pending")
        /\ searchTimer' = TRUE /\ usable' = FALSE
    BY <1>6 DEF Discover
  <2>2. search = NoCall BY <1>1, <1>6 DEF SearchInv
  <2>3. calls \in Nat /\ calls' = calls + 1 /\ calls' \in 0 .. MaxCalls /\ calls' \in Call
    BY <1>1, <1>2, UPnPSessionAssumption DEF TypeInv, CallType, NewCall, Call
  <2>4. answers' = [answers EXCEPT ![calls'] = "pending"] BY <2>1, <2>3 DEF Told, Call, NoCall
  <2>5. CallType' BY <1>1, <2>3, <2>4 DEF TypeInv, CallType, Answer
  <2>6. \A c \in Call : answers'[c] = IF c = calls' THEN "pending" ELSE answers[c]
    BY <1>1, <2>4 DEF TypeInv, CallType
  <2>7. Load \in [Slot -> Call \cup {NoCall}] /\ NoCall \notin Call
    BY <1>1, LoadType DEF TypeInv
  <2>8. \A s \in Slot : Load[s] # calls' /\ Load[s] <= calls'
    BY <1>1, <2>3, <2>7 DEF OwedInv, Call, NoCall
  <2>9. search' <= calls' /\ \A s \in Slot : Load'[s] # NoCall => Load'[s] # search'
    BY <1>3, <2>1, <2>3, <2>8
  <2>10. ASSUME NEW c \in Call
         PROVE  answers'[c] = "pending" <=> Waits(Load, c)'
    <3>1. answers[c] = "pending" <=> Waits(Load, c) BY <1>1, <1>6 DEF OwedInv
    <3>2. CASE c = calls' BY <2>1, <2>6, <3>2 DEF Waits
    <3>3. CASE c # calls' BY <1>3, <2>1, <2>2, <2>6, <2>7, <3>1, <3>3 DEF Waits
    <3> QED BY <3>2, <3>3
  <2>11. OwedInv' BY <1>1, <1>3, <2>8, <2>9, <2>10 DEF OwedInv
  <2>12. SearchInv' BY <2>1 DEF SearchInv
  <2>13. LeaseInv' BY <1>1, <1>2, <1>3, <1>6, <2>1 DEF LeaseInv
  <2>14. SearchType' BY <2>1, <2>3 DEF SearchType
  <2> QED BY <1>4, <2>5, <2>11, <2>12, <2>13, <2>14 DEF IInv, TypeInv
<1> QED BY <1>5, <1>6

\* Steps that leave the exchanges, the table and the calls alone, and the search
\* as well or at its end.
LEMMA SearchKeeps ==
  ASSUME IInv, state # "destroyed", state' \in {"new", "ready"} \cup {state},
         UNCHANGED <<service, permanentOnly, http, tableVars, calls>>,
         usable' \in BOOLEAN,
         \/ UNCHANGED <<state, search, searchTimer, answers>>
         \/ \E outcome \in Final : EndSearch(outcome)
  PROVE  IInv'
<1>1. TypeInv /\ OwedInv /\ SearchInv /\ LeaseInv BY DEF IInv
<1>2. /\ service' = service /\ permanentOnly' = permanentOnly /\ http' = http /\ calls' = calls
      /\ mappings' = mappings /\ orphans' = orphans /\ strayed' = strayed
  BY DEF tableVars
<1>3. Load' = Load /\ Deeds' = Deeds BY <1>2 DEF Load, Deeds
<1>4. HttpType' /\ TableType' BY <1>1, <1>2 DEF TypeInv, HttpType, TableType
<1>5. LeaseInv' BY <1>1, <1>2, <1>3 DEF LeaseInv
<1>6. CASE UNCHANGED <<state, search, searchTimer, answers>>
  <2>1. OwedInv' /\ CallType' BY <1>1, <1>2, <1>3, <1>6, OwedSame
  <2>2. SearchInv' BY <1>1, <1>3, <1>6, SearchSame
  <2>3. SearchType' BY <1>1, <1>6 DEF TypeInv, SearchType
  <2> QED BY <1>4, <1>5, <2>1, <2>2, <2>3 DEF IInv, TypeInv
<1>7. ASSUME NEW outcome \in Final, EndSearch(outcome) PROVE IInv'
  <2>1. OwedInv' /\ CallType' BY <1>1, <1>2, <1>3, <1>7, OwedSearch
  <2>2. search' = NoCall /\ searchTimer' = FALSE BY <1>7 DEF EndSearch
  <2>3. SearchInv' BY <2>2 DEF SearchInv
  <2>4. SearchType' BY <1>1, <2>2 DEF TypeInv, SearchType
  <2> QED BY <1>4, <1>5, <2>1, <2>3, <2>4 DEF IInv, TypeInv
<1> QED BY <1>6, <1>7

LEMMA CancelSearchKeeps == ASSUME IInv, CancelSearch PROVE IInv'
<1>1. /\ state = "searching" /\ state' = "new" /\ EndSearch("cancelled") /\ usable' = usable
      /\ UNCHANGED <<service, permanentOnly, http, tableVars, calls>>
  BY DEF CancelSearch
<1>2. usable' \in BOOLEAN BY <1>1 DEF IInv, TypeInv, SearchType
<1> QED BY <1>1, <1>2, SearchKeeps DEF Final

LEMMA SightedKeeps == ASSUME IInv, Sighted \/ ByeBye PROVE IInv'
<1>1. /\ state # "destroyed" /\ usable' \in BOOLEAN
      /\ UNCHANGED <<state, search, searchTimer, answers>>
      /\ UNCHANGED <<service, permanentOnly, http, tableVars, calls>>
  BY DEF Sighted, ByeBye
<1> QED BY <1>1, SearchKeeps

LEMMA FinishSearchKeeps == ASSUME IInv, FinishSearch PROVE IInv'
<1>1. TypeInv /\ OwedInv /\ SearchInv /\ LeaseInv BY DEF IInv
<1>2. /\ state = "searching" /\ usable' = usable
      /\ UNCHANGED <<service, permanentOnly, tableVars, calls>>
  BY DEF FinishSearch
<1>3. CASE usable
  <2> DEFINE x == [Blank EXCEPT !.kind = "describe"]
  <2>1. /\ Post(x) /\ searchTimer' = FALSE /\ state' = state /\ search' = search
        /\ answers' = answers
    BY <1>3 DEF FinishSearch
  <2>2. x \in Fit /\ CallOf(x) = NoCall /\ Deed(x) = <<"search", None>> BY DescribeFit
  <2> HIDE DEF x
  <2>3. HttpType BY <1>1 DEF TypeInv
  <2>4. PICK s \in Slot :
          /\ Load[s] = NoCall /\ Deeds[s] = Idle /\ http' \in [Slot -> Fit \cup {None}]
          /\ Load' = [Load EXCEPT ![s] = NoCall] /\ Deeds' = [Deeds EXCEPT ![s] = <<"search", None>>]
    BY <2>1, <2>2, <2>3, PostLoad
  <2>5. Load' = Load BY <2>4 DEF Load
  <2>6. \A t \in Slot : Deeds'[t] = IF t = s THEN <<"search", None>> ELSE Deeds[t]
    BY <2>4 DEF Deeds
  <2>7. /\ service' = service /\ permanentOnly' = permanentOnly /\ calls' = calls
        /\ mappings' = mappings /\ orphans' = orphans /\ strayed' = strayed
    BY <1>2 DEF tableVars
  <2>8. OwedInv' /\ CallType' BY <1>1, <2>1, <2>5, <2>7, OwedSame
  <2>9. SearchInv'
    <3>1. Deeds'[s][1] = "search" BY <2>6
    <3> QED BY <1>1, <2>1, <3>1 DEF SearchInv
  <2>10. LeaseInv' BY <1>1, <2>1, <2>4, <2>6, <2>7, LeaseOther DEF Idle
  <2>11. SearchType' /\ HttpType' /\ TableType'
    BY <1>1, <1>2, <2>1, <2>4, <2>7 DEF TypeInv, SearchType, HttpType, TableType
  <2> QED BY <2>8, <2>9, <2>10, <2>11 DEF IInv, TypeInv
<1>4. CASE ~usable
  <2>1. /\ state' = "new" /\ EndSearch("error") /\ http' = http
        /\ UNCHANGED <<service, permanentOnly, http, tableVars, calls>>
    BY <1>2, <1>4 DEF FinishSearch
  <2>2. usable' \in BOOLEAN BY <1>1, <1>2 DEF TypeInv, SearchType
  <2> QED BY <1>2, <2>1, <2>2, SearchKeeps DEF Final
<1> QED BY <1>3, <1>4

LEMMA DescribedKeeps ==
  ASSUME IInv, NEW s \in Slot, http[s] # None, state # "destroyed", Described(s) PROVE IInv'
<1>1. TypeInv /\ OwedInv /\ SearchInv /\ LeaseInv BY DEF IInv
<1>2. /\ http[s].kind = "describe" /\ Close(s) /\ usable' = usable
      /\ permanentOnly' = permanentOnly /\ calls' = calls
      /\ mappings' = mappings /\ orphans' = orphans /\ strayed' = strayed
      /\ \E outcome \in Final : EndSearch(outcome)
      /\ state' \in {state, "ready"} /\ service' \in {service, "connection"}
  BY DEF Described, tableVars, Final
<1>3. http[s] \in Fit /\ HttpType BY <1>1 DEF TypeInv, HttpType
<1>4. /\ http' \in [Slot -> Fit \cup {None}]
      /\ Load' = [Load EXCEPT ![s] = NoCall] /\ Deeds' = [Deeds EXCEPT ![s] = Idle]
      /\ Load[s] = CallOf(http[s]) /\ Deeds[s] = Deed(http[s])
  BY <1>2, <1>3, CloseLoad
<1>5. Load[s] = NoCall /\ Deeds[s] = <<"search", None>>
  BY <1>2, <1>3, <1>4 DEF CallOf, Deed, Fit
<1>6. Load' = Load BY <1>4, <1>5 DEF Load
<1>7. \A t \in Slot : Deeds'[t] = IF t = s THEN Idle ELSE Deeds[t] BY <1>4 DEF Deeds
<1>8. PICK outcome \in Final : EndSearch(outcome) BY <1>2
<1>9. OwedInv' /\ CallType' BY <1>1, <1>2, <1>6, <1>8, OwedSearch
<1>10. search' = NoCall /\ searchTimer' = FALSE BY <1>8 DEF EndSearch
<1>11. SearchInv' BY <1>10 DEF SearchInv
<1>12. LeaseInv'
  <2>1. /\ \A t \in Slot : \A p \in Held : Deeds'[t] = <<"renew", p>> => Deeds[t] = <<"renew", p>>
        /\ \A t \in Slot : Deeds[t][1] \in {"delete", "renew"} => Deeds'[t] = Deeds[t]
    BY <1>5, <1>7 DEF Idle
  <2>2. Owning(mappings, Deeds') BY <1>1, <2>1 DEF LeaseInv, Owning
  <2>3. Tended(mappings, Deeds', strayed) BY <1>1, <2>1, TendedStep DEF LeaseInv
  <2> QED BY <1>2, <2>2, <2>3 DEF LeaseInv
<1>13. SearchType' /\ HttpType' /\ TableType'
  BY <1>1, <1>2, <1>4, <1>10 DEF TypeInv, SearchType, HttpType, TableType, Service
<1> QED BY <1>9, <1>11, <1>12, <1>13 DEF IInv, TypeInv

-----------------------------------------------------------------------------
(* Calls.                                                                  *)

\* A call begins an exchange that no record depends on.
LEMMA BeginsKeeps ==
  ASSUME IInv, NewCall, NEW x \in Fit, CallOf(x) = calls', Deed(x) = Idle, Post(x),
         answers' = Told(calls', "pending"), service' \in Service,
         UNCHANGED <<state, searchVars, permanentOnly, tableVars>>
  PROVE  IInv'
<1>1. TypeInv /\ OwedInv /\ SearchInv /\ LeaseInv /\ HttpType BY DEF IInv, TypeInv
<1>2. PICK s \in Slot :
        /\ Load[s] = NoCall /\ Deeds[s] = Idle /\ http' \in [Slot -> Fit \cup {None}]
        /\ Load' = [Load EXCEPT ![s] = calls'] /\ Deeds' = [Deeds EXCEPT ![s] = Idle]
  BY <1>1, PostLoad
<1>3. Deeds' = Deeds BY <1>2 DEF Deeds
<1>4. /\ state' = state /\ search' = search /\ searchTimer' = searchTimer /\ usable' = usable
      /\ permanentOnly' = permanentOnly
      /\ mappings' = mappings /\ orphans' = orphans /\ strayed' = strayed
  BY DEF searchVars, tableVars
<1>5. OwedInv' /\ CallType' BY <1>1, <1>2, <1>4, OwedBegins
<1>6. SearchInv' BY <1>1, <1>3, <1>4, SearchSame
<1>7. LeaseInv' BY <1>1, <1>3, <1>4, LeaseOther
<1>8. SearchType' /\ HttpType' /\ TableType'
  BY <1>1, <1>2, <1>4 DEF TypeInv, SearchType, HttpType, TableType
<1> QED BY <1>5, <1>6, <1>7, <1>8 DEF IInv, TypeInv

\* A call that cannot be sent is refused at once.
LEMMA RefusedKeeps ==
  ASSUME IInv, NewCall, answers' = Told(calls', "error"), http' = http,
         UNCHANGED <<state, searchVars, service, permanentOnly>>,
         TableType', LeaseInv'
  PROVE  IInv'
<1>1. TypeInv /\ OwedInv /\ SearchInv BY DEF IInv
<1>2. Load' = Load /\ Deeds' = Deeds BY DEF Load, Deeds
<1>3. /\ state' = state /\ search' = search /\ searchTimer' = searchTimer /\ usable' = usable
  BY DEF searchVars
<1>4. OwedInv' /\ CallType' BY <1>1, <1>2, <1>3, OwedRefused
<1>5. SearchInv' BY <1>1, <1>2, <1>3, SearchSame
<1>6. SearchType' /\ HttpType' BY <1>1, <1>3 DEF TypeInv, SearchType, HttpType
<1> QED BY <1>4, <1>5, <1>6 DEF IInv, TypeInv

LEMMA TableSame ==
  ASSUME IInv, UNCHANGED <<state, http, tableVars>> PROVE TableType' /\ LeaseInv'
<1>1. mappings' = mappings /\ orphans' = orphans /\ strayed' = strayed BY DEF tableVars
<1>2. Deeds' = Deeds BY DEF Deeds
<1> QED BY <1>1, <1>2 DEF IInv, TypeInv, TableType, LeaseInv

LEMMA NewCallIn == ASSUME IInv, NewCall PROVE calls' \in Call
BY UPnPSessionAssumption DEF IInv, TypeInv, CallType, NewCall, Call

LEMMA MapKeeps ==
  ASSUME IInv, NEW p \in Held, NEW exact \in BOOLEAN, NEW finite \in BOOLEAN,
         Map(p, exact, finite)
  PROVE  IInv'
<1>1. NewCall /\ UNCHANGED <<state, searchVars, service, permanentOnly, tableVars>>
  BY DEF Map
<1>2. CASE state # "ready"
  <2>1. answers' = Told(calls', "error") /\ http' = http BY <1>2 DEF Map
  <2> QED BY <1>1, <2>1, RefusedKeeps, TableSame
<1>3. CASE state = "ready"
  <2> DEFINE bounded == finite /\ ~permanentOnly
             x == MapRequest(calls', p, exact, bounded, service)
  <2>1. answers' = Told(calls', "pending") /\ Post(x) BY <1>3 DEF Map, MapRequest
  <2>2. bounded \in BOOLEAN /\ service \in Service BY DEF IInv, TypeInv, HttpType
  <2> HIDE DEF bounded
  <2>3. calls' \in Call BY <1>1, NewCallIn
  <2>4. x \in Fit /\ CallOf(x) = calls' /\ Deed(x) = Idle
    <3>1. \A e, b \in BOOLEAN :
            /\ MapRequest(calls', p, e, b, service) \in Fit
            /\ CallOf(MapRequest(calls', p, e, b, service)) = calls'
            /\ Deed(MapRequest(calls', p, e, b, service)) = Idle
      BY <2>2, <2>3, MapFit
    <3> QED BY <2>2, <3>1, Zenon
  <2> HIDE DEF x
  <2> QED BY <1>1, <2>1, <2>2, <2>4, BeginsKeeps
<1> QED BY <1>2, <1>3

LEMMA ForeignCallKeeps ==
  ASSUME IInv, NEW other \in Service, ForeignCall(other) PROVE IInv'
<1>1. NewCall /\ UNCHANGED <<state, searchVars, permanentOnly, tableVars>> BY DEF ForeignCall
<1>2. CASE state # "ready"
  <2>1. answers' = Told(calls', "error") /\ http' = http /\ service' = service
    BY <1>2 DEF ForeignCall
  <2> QED BY <1>1, <2>1, RefusedKeeps, TableSame
<1>3. CASE state = "ready"
  <2> DEFINE x == [Blank EXCEPT !.kind = "foreign", !.call = calls', !.to = other,
                                !.saved = service]
  <2>1. answers' = Told(calls', "pending") /\ Post(x) /\ service' = other
    BY <1>3 DEF ForeignCall
  <2>2. service \in Service BY DEF IInv, TypeInv, HttpType
  <2>3. calls' \in Call BY <1>1, NewCallIn
  <2>4. x \in Fit /\ CallOf(x) = calls' /\ Deed(x) = Idle BY <2>2, <2>3, ForeignFit
  <2> HIDE DEF x
  <2> QED BY <1>1, <2>1, <2>4, BeginsKeeps
<1> QED BY <1>2, <1>3

LEMMA UnmapKeeps == ASSUME IInv, NEW p \in Port, Unmap(p) PROVE IInv'
<1>1. /\ NewCall /\ UNCHANGED <<state, searchVars, service, permanentOnly>> /\ orphans' = orphans
      /\ mappings' = IF mappings[p] = None THEN mappings
                     ELSE [mappings EXCEPT ![p].timer = FALSE]
  BY DEF Unmap
<1>2. p \in Held /\ TypeInv /\ LeaseInv BY DEF Held, IInv
<1> DEFINE new == [mappings[p] EXCEPT !.timer = FALSE]
<1>3. mappings[p] # None =>
        new \in Record /\ new # None /\ new.state = mappings[p].state
  <2>1. mappings[p] # None => mappings[p] \in Record BY <1>2 DEF TypeInv, TableType, Table
  <2>2. mappings[p] # None => new \in Record /\ new.state = mappings[p].state
    BY <2>1 DEF Record
  <2> QED BY <2>2, NoneAssumption
<1>4. mappings' = IF mappings[p] = None THEN mappings ELSE [mappings EXCEPT ![p] = new]
  BY <1>1
<1> HIDE DEF new
<1>5. mappings' \in Table BY <1>2, <1>3, <1>4 DEF TypeInv, TableType, Table
<1>6. /\ \A q \in Held : q # p => mappings'[q] = mappings[q]
      /\ mappings[p] = None => mappings'[p] = None
      /\ mappings[p] # None => mappings'[p] = new
      /\ \A q \in Held : mappings[q] # None => mappings'[q] # None
  BY <1>2, <1>3, <1>4 DEF TypeInv, TableType, Table
<1>7. CASE state # "ready"
  <2>1. answers' = Told(calls', "error") /\ strayed' = strayed \cup {p} /\ http' = http
    BY <1>7 DEF Unmap
  <2>2. Deeds' = Deeds BY <2>1 DEF Deeds
  <2>3. TableType' BY <1>1, <1>2, <1>5, <2>1 DEF TypeInv, TableType
  <2>4. Owning(mappings', Deeds) BY <1>2, <1>6 DEF LeaseInv, Owning
  <2>5. state # "destroyed" => Tended(mappings', Deeds, strayed')
    <3>1. \A q \in Held \ strayed' : mappings'[q] = mappings[q] BY <1>6, <2>1
    <3> QED BY <1>2, <2>1, <3>1, TendedStep DEF LeaseInv
  <2>6. LeaseInv' BY <1>1, <2>2, <2>4, <2>5 DEF LeaseInv
  <2> QED BY <1>1, <2>1, <2>3, <2>6, RefusedKeeps
<1>8. CASE state = "ready"
  <2> DEFINE own == mappings[p] # None
             x   == UnmapRequest(calls', p, own, service)
  <2>1. answers' = Told(calls', "pending") /\ Post(x) /\ strayed' = strayed
    BY <1>8 DEF Unmap, UnmapRequest
  <2>2. service \in Service /\ own \in BOOLEAN BY <1>2 DEF TypeInv, HttpType
  <2>3. calls' \in Call BY <1>1, NewCallIn
  <2> HIDE DEF own
  <2>4. /\ x \in Fit /\ CallOf(x) = calls'
        /\ own => Deed(x) = <<"delete", p>>
        /\ ~own => Deed(x) = Idle
    BY <2>2, <2>3, UnmapFit, Zenon
  <2> HIDE DEF x
  <2>5. HttpType /\ OwedInv /\ SearchInv BY <1>2 DEF TypeInv, IInv
  <2>6. PICK s \in Slot :
          /\ Load[s] = NoCall /\ Deeds[s] = Idle /\ http' \in [Slot -> Fit \cup {None}]
          /\ Load' = [Load EXCEPT ![s] = calls'] /\ Deeds' = [Deeds EXCEPT ![s] = Deed(x)]
    BY <2>1, <2>4, <2>5, PostLoad
  <2>7. \A t \in Slot : Deeds'[t] = IF t = s THEN Deed(x) ELSE Deeds[t] BY <2>6 DEF Deeds
  <2>8. /\ state' = state /\ search' = search /\ searchTimer' = searchTimer /\ usable' = usable
        /\ service' = service /\ permanentOnly' = permanentOnly
    BY <1>1 DEF searchVars
  <2>9. OwedInv' /\ CallType' BY <1>1, <1>2, <2>1, <2>5, <2>6, <2>8, OwedBegins
  <2>10. SearchInv' BY <2>5, <2>6, <2>7, <2>8, SearchSame DEF Idle
  <2>11. Owning(mappings', Deeds')
    <3>1. \A t \in Slot : \A q \in Held : Deeds'[t] = <<"renew", q>> => Deeds[t] = <<"renew", q>>
      BY <2>4, <2>7 DEF Idle
    <3> QED BY <1>2, <1>6, <3>1 DEF LeaseInv, Owning
  <2>12. Tended(mappings', Deeds', strayed)
    <3>1. \A q \in Held : \A t \in Slot :
             Deeds[t] \in {<<"delete", q>>, <<"renew", q>>} => Deeds'[t] = Deeds[t]
      BY <2>6, <2>7 DEF Idle
    <3>2. Tended(mappings, Deeds, strayed) BY <1>2, <1>8 DEF LeaseInv
    <3>3. ASSUME p \notin strayed, mappings'[p] # None PROVE TendedAt(mappings'[p], Deeds', p)
      <4>1. mappings[p] # None /\ mappings'[p] = new BY <1>6, <3>3
      <4>2. Deeds'[s] = <<"delete", p>> BY <2>4, <2>7, <4>1 DEF own
      <4>3. mappings[p].state = "RENEWING" => \E t \in Slot : Deeds[t] = <<"renew", p>>
        BY <1>2, <3>2, <3>3, <4>1 DEF Tended, TendedAt
      <4>4. mappings[p].state = "RENEWING" => \E t \in Slot : Deeds'[t] = <<"renew", p>>
        BY <1>2, <3>1, <4>3
      <4> QED BY <1>3, <4>1, <4>2, <4>4 DEF TendedAt
    <3>4. \A q \in Held \ strayed : mappings'[q] # None =>
             \/ TendedAt(mappings'[q], Deeds', q)
             \/ /\ mappings'[q] = mappings[q]
                /\ \A t \in Slot : Deeds[t] \in {<<"delete", q>>, <<"renew", q>>}
                                     => Deeds'[t] = Deeds[t]
      BY <1>6, <3>1, <3>3
    <3> QED BY <3>2, <3>4, TendedStep
  <2>13. LeaseInv' BY <2>1, <2>11, <2>12 DEF LeaseInv
  <2>14. SearchType' /\ HttpType' /\ TableType'
    BY <1>1, <1>2, <1>5, <2>1, <2>6, <2>8 DEF TypeInv, SearchType, HttpType, TableType
  <2> QED BY <2>9, <2>10, <2>13, <2>14 DEF IInv, TypeInv
<1> QED BY <1>7, <1>8

-----------------------------------------------------------------------------
(* Renewals.                                                               *)

\* Nobody waits for a renewal.
LEMMA PostKeeps ==
  ASSUME IInv, NEW x \in Fit, CallOf(x) = NoCall, Deed(x)[1] \in {"none", "renew"}, Post(x),
         UNCHANGED <<state, searchVars, service, permanentOnly, calls, answers>>,
         TableType',
         \A s \in Slot : Deeds[s] = Idle /\ Deeds' = [Deeds EXCEPT ![s] = Deed(x)] => LeaseInv'
  PROVE  IInv'
<1>1. TypeInv /\ OwedInv /\ SearchInv /\ LeaseInv /\ HttpType BY DEF IInv, TypeInv
<1>2. PICK s \in Slot :
        /\ Load[s] = NoCall /\ Deeds[s] = Idle /\ http' \in [Slot -> Fit \cup {None}]
        /\ Load' = [Load EXCEPT ![s] = NoCall] /\ Deeds' = [Deeds EXCEPT ![s] = Deed(x)]
  BY <1>1, PostLoad
<1>3. Load' = Load BY <1>2 DEF Load
<1>4. \A t \in Slot : Deeds'[t] = IF t = s THEN Deed(x) ELSE Deeds[t] BY <1>2 DEF Deeds
<1>5. /\ state' = state /\ search' = search /\ searchTimer' = searchTimer /\ usable' = usable
      /\ service' = service /\ permanentOnly' = permanentOnly
      /\ calls' = calls /\ answers' = answers
  BY DEF searchVars
<1>6. OwedInv' /\ CallType' BY <1>1, <1>3, <1>5, OwedSame
<1>7. SearchInv' BY <1>1, <1>2, <1>4, <1>5, SearchSame DEF Idle
<1>8. LeaseInv' BY <1>2
<1>9. SearchType' /\ HttpType' BY <1>1, <1>2, <1>5 DEF TypeInv, SearchType, HttpType
<1> QED BY <1>6, <1>7, <1>8, <1>9 DEF IInv, TypeInv

LEMMA RenewKeeps == ASSUME IInv, NEW p \in Held, RenewFires(p) PROVE IInv'
<1>1. /\ mappings[p] # None
      /\ UNCHANGED <<state, searchVars, service, permanentOnly, orphans, strayed, calls, answers>>
  BY DEF RenewFires
<1>2. TypeInv /\ OwedInv /\ SearchInv /\ LeaseInv BY DEF IInv
<1>3. mappings[p] \in Record BY <1>1, <1>2 DEF TypeInv, TableType, Table
<1>4. CASE state = "ready"
  <2> DEFINE x   == Renewal(p, mappings[p].exact, TRUE)
             new == [mappings[p] EXCEPT !.timer = FALSE, !.state = "RENEWING"]
  <2>1. Post(x) /\ mappings' = [mappings EXCEPT ![p] = new]
    <3>1. mappings' = [mappings EXCEPT ![p].timer = FALSE, ![p].state = "RENEWING"]
      BY <1>4 DEF RenewFires
    <3>2. mappings' = [mappings EXCEPT ![p] = new] BY <1>2, <3>1 DEF TypeInv, TableType, Table
    <3> QED BY <1>4, <3>2 DEF RenewFires
  <2>2. permanentOnly \in BOOLEAN /\ service \in Service BY <1>2 DEF TypeInv, HttpType
  <2>3. mappings[p].exact \in BOOLEAN BY <1>3 DEF Record
  <2>4. x \in Fit /\ CallOf(x) = NoCall /\ Deed(x) = <<"renew", p>>
    BY <2>2, <2>3, RenewalFit
  <2>5. new \in Record /\ new.state = "RENEWING" BY <1>3 DEF Record
  <2> HIDE DEF x, new
  <2>6. new # None BY <2>5, NoneAssumption
  <2>7. \A q \in Held : mappings'[q] = IF q = p THEN new ELSE mappings[q]
    BY <1>2, <2>1 DEF TypeInv, TableType, Table
  <2>8. TableType' BY <1>1, <1>2, <2>1, <2>5 DEF TypeInv, TableType, Table
  <2>9. ASSUME NEW s \in Slot, Deeds[s] = Idle, Deeds' = [Deeds EXCEPT ![s] = Deed(x)]
        PROVE  LeaseInv'
    <3>1. \A t \in Slot : Deeds'[t] = IF t = s THEN <<"renew", p>> ELSE Deeds[t]
      BY <2>4, <2>9 DEF Deeds
    <3>2. Owning(mappings', Deeds')
      <4>1. \A t \in Slot : \A q \in Held :
              Deeds'[t] = <<"renew", q>> => Deeds[t] = <<"renew", q>> \/ q = p
        BY <3>1
      <4> QED BY <1>2, <2>6, <2>7, <4>1 DEF LeaseInv, Owning
    <3>3. \A q \in Held : \A t \in Slot :
             Deeds[t] \in {<<"delete", q>>, <<"renew", q>>} => Deeds'[t] = Deeds[t]
      BY <2>9, <3>1 DEF Idle
    <3>4. TendedAt(mappings'[p], Deeds', p) BY <2>5, <2>7, <3>1 DEF TendedAt
    <3>5. \A q \in Held \ strayed : mappings'[q] # None =>
             \/ TendedAt(mappings'[q], Deeds', q)
             \/ /\ mappings'[q] = mappings[q]
                /\ \A t \in Slot : Deeds[t] \in {<<"delete", q>>, <<"renew", q>>}
                                     => Deeds'[t] = Deeds[t]
      BY <2>7, <3>3, <3>4
    <3>6. Tended(mappings', Deeds', strayed)
      <4>1. Tended(mappings, Deeds, strayed) BY <1>2, <1>4 DEF LeaseInv
      <4> QED BY <3>5, <4>1, TendedStep
    <3> QED BY <1>1, <3>2, <3>6 DEF LeaseInv
  <2> QED BY <1>1, <2>1, <2>4, <2>8, <2>9, PostKeeps
<1>5. CASE state # "ready"
  <2> DEFINE new == [mappings[p] EXCEPT !.timer = FALSE, !.state = "LOST"]
  <2>1. http' = http /\ mappings' = [mappings EXCEPT ![p] = new]
    <3>1. mappings' = [mappings EXCEPT ![p].timer = FALSE, ![p].state = "LOST"] /\ http' = http
      BY <1>5 DEF RenewFires
    <3> QED BY <1>2, <3>1 DEF TypeInv, TableType, Table
  <2>2. new \in Record /\ new.state = "LOST" BY <1>3 DEF Record
  <2> HIDE DEF new
  <2>3. new # None BY <2>2, NoneAssumption
  <2>4. \A q \in Held : mappings'[q] = IF q = p THEN new ELSE mappings[q]
    BY <1>2, <2>1 DEF TypeInv, TableType, Table
  <2>5. Load' = Load /\ Deeds' = Deeds BY <2>1 DEF Load, Deeds
  <2>6. /\ state' = state /\ search' = search /\ searchTimer' = searchTimer /\ usable' = usable
        /\ service' = service /\ permanentOnly' = permanentOnly
        /\ calls' = calls /\ answers' = answers /\ orphans' = orphans /\ strayed' = strayed
    BY <1>1 DEF searchVars
  <2>7. OwedInv' /\ CallType' BY <1>2, <2>5, <2>6, OwedSame
  <2>8. SearchInv' BY <1>2, <2>5, <2>6, SearchSame
  <2>9. LeaseInv'
    <3>1. Owning(mappings', Deeds) BY <1>2, <2>3, <2>4 DEF LeaseInv, Owning
    <3>2. TendedAt(mappings'[p], Deeds, p) BY <2>2, <2>4 DEF TendedAt
    <3>3. \A q \in Held \ strayed : mappings'[q] # None =>
             TendedAt(mappings'[q], Deeds, q) \/ mappings'[q] = mappings[q]
      BY <2>4, <3>2
    <3>4. state # "destroyed" => Tended(mappings', Deeds, strayed)
      BY <1>2, <3>3, TendedStep DEF LeaseInv
    <3> QED BY <2>5, <2>6, <3>1, <3>4 DEF LeaseInv
  <2>10. SearchType' /\ HttpType' /\ TableType'
    BY <1>2, <2>1, <2>2, <2>6 DEF TypeInv, SearchType, HttpType, TableType, Table
  <2> QED BY <2>7, <2>8, <2>9, <2>10 DEF IInv, TypeInv
<1> QED BY <1>4, <1>5

LEMMA OrphanKeeps == ASSUME IInv, NEW o \in orphans, OrphanFires(o) PROVE IInv'
<1>1. /\ orphans' = orphans \ {o} /\ mappings' = mappings /\ strayed' = strayed
      /\ UNCHANGED <<state, searchVars, service, permanentOnly, calls, answers>>
  BY DEF OrphanFires
<1>2. TypeInv /\ OwedInv /\ SearchInv /\ LeaseInv BY DEF IInv
<1>3. TableType' BY <1>1, <1>2 DEF TypeInv, TableType
<1>4. o[1] \in Held /\ o[2] \in BOOLEAN BY <1>2 DEF TypeInv, TableType
<1>5. CASE state = "ready" /\ mappings[o[1]] # None
  <2> DEFINE x == Renewal(o[1], o[2], FALSE)
  <2>1. Post(x) BY <1>5 DEF OrphanFires
  <2>2. permanentOnly \in BOOLEAN /\ service \in Service BY <1>2 DEF TypeInv, HttpType
  <2>3. x \in Fit /\ CallOf(x) = NoCall /\ Deed(x) = Idle BY <1>4, <2>2, RenewalFit
  <2> HIDE DEF x
  <2>4. ASSUME NEW s \in Slot, Deeds[s] = Idle, Deeds' = [Deeds EXCEPT ![s] = Deed(x)]
        PROVE  LeaseInv'
    <3>1. Deeds' = Deeds BY <2>3, <2>4 DEF Deeds
    <3> QED BY <1>1, <1>2, <3>1, LeaseOther
  <2>5. Deed(x)[1] \in {"none", "renew"} BY <2>3 DEF Idle
  <2> QED BY <1>1, <1>3, <2>1, <2>3, <2>4, <2>5, PostKeeps
<1>6. CASE ~(state = "ready" /\ mappings[o[1]] # None)
  <2>1. http' = http BY <1>6 DEF OrphanFires
  <2>2. Load' = Load /\ Deeds' = Deeds BY <2>1 DEF Load, Deeds
  <2>3. /\ state' = state /\ search' = search /\ searchTimer' = searchTimer /\ usable' = usable
        /\ service' = service /\ permanentOnly' = permanentOnly
        /\ calls' = calls /\ answers' = answers
    BY <1>1 DEF searchVars
  <2>4. OwedInv' /\ CallType' BY <1>2, <2>2, <2>3, OwedSame
  <2>5. SearchInv' BY <1>2, <2>2, <2>3, SearchSame
  <2>6. LeaseInv' BY <1>1, <1>2, <2>2, <2>3, LeaseOther
  <2>7. SearchType' /\ HttpType' BY <1>2, <2>1, <2>3 DEF TypeInv, SearchType, HttpType
  <2> QED BY <1>3, <2>4, <2>5, <2>6, <2>7 DEF IInv, TypeInv
<1> QED BY <1>5, <1>6

-----------------------------------------------------------------------------
(* The ends of exchanges.                                                  *)

\* An exchange ends and whoever waits for it is told; what becomes of the table
\* is said in the assumptions.
LEMMA EndsKeeps ==
  ASSUME IInv, NEW s \in Slot, http[s] # None, http[s].kind # "describe", Close(s),
         NEW outcome \in Final, answers' = Told(http[s].call, outcome),
         service' \in Service,
         UNCHANGED <<state, searchVars, permanentOnly, calls>>,
         TableType', Deeds' = [Deeds EXCEPT ![s] = Idle] => LeaseInv'
  PROVE  IInv'
<1>1. TypeInv /\ OwedInv /\ SearchInv /\ LeaseInv /\ HttpType BY DEF IInv, TypeInv
<1>2. /\ http' \in [Slot -> Fit \cup {None}] /\ Load' = [Load EXCEPT ![s] = NoCall]
      /\ Deeds' = [Deeds EXCEPT ![s] = Idle]
      /\ Load[s] = CallOf(http[s]) /\ Deeds[s] = Deed(http[s])
  BY <1>1, CloseLoad
<1>3. Load[s] = http[s].call BY <1>2 DEF CallOf
<1>4. \A t \in Slot : Deeds'[t] = IF t = s THEN Idle ELSE Deeds[t] BY <1>2 DEF Deeds
<1>5. Deeds[s][1] # "search" BY <1>2 DEF Deed, Idle
<1>6. /\ state' = state /\ search' = search /\ searchTimer' = searchTimer /\ usable' = usable
      /\ permanentOnly' = permanentOnly /\ calls' = calls
  BY DEF searchVars
<1>7. OwedInv' /\ CallType' BY <1>1, <1>2, <1>3, <1>6, OwedEnds
<1>8. SearchInv' BY <1>1, <1>4, <1>5, <1>6, SearchSame
<1>9. SearchType' /\ HttpType' BY <1>1, <1>2, <1>6 DEF TypeInv, SearchType, HttpType
<1> QED BY <1>2, <1>7, <1>8, <1>9 DEF IInv, TypeInv

LEMMA ForeignAnsweredKeeps ==
  ASSUME IInv, NEW s \in Slot, http[s] # None, ForeignAnswered(s) PROVE IInv'
<1>1. /\ http[s].kind = "foreign" /\ Close(s) /\ service' = http[s].saved
      /\ UNCHANGED <<state, searchVars, permanentOnly, tableVars, calls>>
      /\ \E outcome \in {"ok", "error"} : answers' = Told(http[s].call, outcome)
  BY DEF ForeignAnswered
<1>2. http[s] \in Fit BY DEF IInv, TypeInv, HttpType
<1>3. service' \in Service BY <1>1, <1>2 DEF Fit, Exchange
<1>4. Deeds[s] = Idle BY <1>1 DEF Deeds, Deed
<1>5. ASSUME Deeds' = [Deeds EXCEPT ![s] = Idle] PROVE LeaseInv'
  <2>1. Deeds' = Deeds BY <1>4, <1>5 DEF Deeds
  <2> QED BY <1>1, <2>1, LeaseOther DEF IInv, tableVars
<1>6. TableType' BY <1>1 DEF IInv, TypeInv, TableType, tableVars
<1>7. PICK outcome \in Final : answers' = Told(http[s].call, outcome) BY <1>1 DEF Final
<1> QED BY <1>1, <1>3, <1>5, <1>6, <1>7, EndsKeeps

LEMMA UnmapRefusedKeeps ==
  ASSUME IInv, NEW s \in Slot, http[s] # None, UnmapRefused(s) PROVE IInv'
<1>1. /\ http[s].kind = "unmap" /\ Close(s) /\ strayed' = strayed \cup {http[s].port}
      /\ answers' = Told(http[s].call, "error")
      /\ mappings' = mappings /\ orphans' = orphans
      /\ UNCHANGED <<state, searchVars, service, permanentOnly, calls>>
  BY DEF UnmapRefused
<1>2. TypeInv /\ LeaseInv BY DEF IInv
<1>3. http[s] \in Fit BY <1>2 DEF TypeInv, HttpType
<1>4. http[s].port \in Held /\ service' \in Service
  BY <1>1, <1>2, <1>3 DEF Fit, Held, TypeInv, HttpType
<1>5. TableType' BY <1>1, <1>2, <1>4 DEF TypeInv, TableType
<1>6. Deeds[s] \in {Idle, <<"delete", http[s].port>>} BY <1>1 DEF Deeds, Deed
<1>7. ASSUME Deeds' = [Deeds EXCEPT ![s] = Idle] PROVE LeaseInv'
  <2>1. \A t \in Slot : Deeds'[t] = IF t = s THEN Idle ELSE Deeds[t] BY <1>7 DEF Deeds
  <2>2. Owning(mappings, Deeds')
    <3>1. \A t \in Slot : \A p \in Held : Deeds'[t] = <<"renew", p>> => Deeds[t] = <<"renew", p>>
      BY <2>1 DEF Idle
    <3> QED BY <1>2, <3>1 DEF LeaseInv, Owning
  <2>3. \A p \in Held \ strayed' : \A t \in Slot :
          Deeds[t] \in {<<"delete", p>>, <<"renew", p>>} => Deeds'[t] = Deeds[t]
    BY <1>1, <1>6, <2>1 DEF Idle
  <2>4. state # "destroyed" => Tended(mappings, Deeds', strayed')
    BY <1>1, <1>2, <2>3, TendedStep DEF LeaseInv
  <2> QED BY <1>1, <2>2, <2>4 DEF LeaseInv
<1> QED BY <1>1, <1>4, <1>5, <1>7, EndsKeeps DEF Final

LEMMA GrantedKeeps ==
  ASSUME IInv, NEW s \in Slot, http[s] # None, Granted(s) PROVE IInv'
<1> DEFINE x == http[s]
<1>1. /\ x.kind = "map" /\ Close(s) /\ answers' = Told(x.call, "ok")
      /\ orphans' = orphans
      /\ UNCHANGED <<state, searchVars, service, permanentOnly, calls>>
      /\ \E p \in Held : /\ mappings' = [mappings EXCEPT ![p] = OnMapped(x, p)]
                         /\ strayed' = IF x.own /\ p # x.origin
                                       THEN strayed \cup {x.origin} ELSE strayed
  BY DEF Granted, Held
<1>2. TypeInv /\ LeaseInv BY DEF IInv
<1>3. x \in Fit /\ service' \in Service BY <1>1, <1>2 DEF TypeInv, HttpType
<1>4. Deeds[s] = Deed(x) BY DEF Deeds
<1> HIDE DEF x
<1>5. /\ x.own => Deed(x) = <<"renew", x.origin>> /\ x.origin \in Held
      /\ ~x.own => Deed(x) = Idle
  BY <1>1, <1>3, RenewDeed
<1>6. PICK p \in Held : /\ mappings' = [mappings EXCEPT ![p] = OnMapped(x, p)]
                        /\ strayed' = IF x.own /\ p # x.origin
                                      THEN strayed \cup {x.origin} ELSE strayed
  BY <1>1
<1>7. /\ OnMapped(x, p) \in Record /\ OnMapped(x, p).state = "ACTIVE"
      /\ OnMapped(x, p).finite => OnMapped(x, p).timer
  <2>1. x.exact \in BOOLEAN /\ x.finite \in BOOLEAN BY <1>3 DEF Fit, Exchange
  <2>2. mappings[p] # None => mappings[p] \in Record BY <1>2 DEF TypeInv, TableType, Table
  <2>3. mappings[p] # None => mappings[p].exact \in BOOLEAN /\ mappings[p].timer \in BOOLEAN
    BY <2>2 DEF Record
  <2> QED BY <2>1, <2>3 DEF OnMapped, Record
<1>8. TendedAt(OnMapped(x, p), Deeds', p) BY <1>7 DEF TendedAt
<1> DEFINE new == OnMapped(x, p)
<1>9. new \in Record /\ new # None BY <1>7, NoneAssumption
<1> HIDE DEF new
<1>10. \A q \in Held : mappings'[q] = IF q = p THEN new ELSE mappings[q]
  BY <1>2, <1>6 DEF TypeInv, TableType, Table, new
<1>11. TableType'
  <2>1. mappings' \in Table BY <1>2, <1>6, <1>9 DEF TypeInv, TableType, Table, new
  <2>2. strayed' \subseteq Held BY <1>2, <1>5, <1>6 DEF TypeInv, TableType
  <2> QED BY <1>1, <1>2, <2>1, <2>2 DEF TypeInv, TableType
<1>12. ASSUME Deeds' = [Deeds EXCEPT ![s] = Idle] PROVE LeaseInv'
  <2>1. \A t \in Slot : Deeds'[t] = IF t = s THEN Idle ELSE Deeds[t] BY <1>12 DEF Deeds
  <2>2. Owning(mappings', Deeds')
    <3>1. \A t \in Slot : \A q \in Held : Deeds'[t] = <<"renew", q>> => Deeds[t] = <<"renew", q>>
      BY <2>1 DEF Idle
    <3> QED BY <1>2, <1>9, <1>10, <3>1 DEF LeaseInv, Owning
  <2>3. \A q \in Held \ strayed' : q # p =>
          \A t \in Slot : Deeds[t] \in {<<"delete", q>>, <<"renew", q>>} => Deeds'[t] = Deeds[t]
    BY <1>4, <1>5, <1>6, <2>1 DEF Idle
  <2>4. strayed \subseteq strayed' BY <1>6
  <2>5. \A q \in Held \ strayed' : mappings'[q] # None =>
          \/ TendedAt(mappings'[q], Deeds', q)
          \/ /\ mappings'[q] = mappings[q]
             /\ \A t \in Slot : Deeds[t] \in {<<"delete", q>>, <<"renew", q>>}
                                  => Deeds'[t] = Deeds[t]
    BY <1>8, <1>10, <2>3 DEF new
  <2>6. state # "destroyed" => Tended(mappings', Deeds', strayed')
    BY <1>2, <2>4, <2>5, TendedStep DEF LeaseInv
  <2> QED BY <1>1, <2>2, <2>6 DEF LeaseInv
<1> QED BY <1>1, <1>3, <1>11, <1>12, EndsKeeps DEF Final, x

LEMMA LeaseRefusedKeeps ==
  ASSUME IInv, NEW s \in Slot, http[s] # None, LeaseRefused(s) PROVE IInv'
<1>1. /\ http[s].kind = "map" /\ permanentOnly' = TRUE /\ Attempt(s, http[s])
      /\ service' = service /\ UNCHANGED <<state, searchVars, orphans, strayed, calls>>
  BY DEF LeaseRefused
<1>2. http[s] \in Fit BY DEF IInv, TypeInv, HttpType
<1>3. permanentOnly' \in BOOLEAN BY <1>1
<1> QED BY <1>1, <1>2, <1>3, AttemptKeeps

LEMMA NextPortFit ==
  ASSUME NEW x \in Fit, x.kind = "map", NEW limit \in {1, ConflictLimit},
         ~ (x.attempt >= limit /\ x.port = AnyPort)
  PROVE  /\ NextPort(x, limit) \in Fit /\ CallOf(NextPort(x, limit)) = CallOf(x)
         /\ Deed(NextPort(x, limit)) = Deed(x) /\ NextPort(x, limit).kind = "map"
<1>1. /\ x \in Exchange /\ x.attempt \in Nat /\ x.port \in Nat /\ x.port <= MaxPort + x.attempt
      /\ x.attempt <= ConflictLimit \/ x.port = AnyPort
      /\ limit \in Nat /\ limit <= ConflictLimit
      /\ MaxPort \in Nat /\ ConflictLimit \in Nat
  BY UPnPSessionAssumption DEF Fit, Exchange, Asked
<1>2. x.attempt <= ConflictLimit BY <1>1
<1> DEFINE port == IF x.attempt >= limit THEN AnyPort ELSE x.port + 1
           y    == [x EXCEPT !.port = port, !.attempt = x.attempt + 1]
<1>3. /\ port \in Asked /\ x.attempt + 1 \in 0 .. ConflictLimit + 1
      /\ port <= MaxPort + (x.attempt + 1)
      /\ x.attempt + 1 <= ConflictLimit \/ port = AnyPort
  BY <1>1, <1>2 DEF Asked, AnyPort
<1>4. NextPort(x, limit) = y BY DEF NextPort
<1> HIDE DEF port
<1>5. y \in Exchange BY <1>1, <1>3 DEF Exchange
<1>6. /\ y.kind = "map" /\ y.call = x.call /\ y.port = port /\ y.attempt = x.attempt + 1
      /\ y.origin = x.origin /\ (y.own <=> x.own)
  BY <1>1 DEF Exchange
<1> HIDE DEF y
<1>7. y \in Fit BY <1>3, <1>5, <1>6 DEF Fit
<1>8. x # None /\ y # None BY <1>7, BlankFit
<1>9. CallOf(y) = CallOf(x) BY <1>6, <1>8 DEF CallOf
<1>10. Deed(y) = Deed(x) BY <1>6, <1>8 DEF Deed
<1> QED BY <1>4, <1>6, <1>7, <1>9, <1>10

LEMMA ContestedKeeps ==
  ASSUME IInv, NEW s \in Slot, http[s] # None, Contested(s) PROVE IInv'
<1>1. /\ http[s].kind = "map" /\ permanentOnly' = permanentOnly /\ service' = service
      /\ UNCHANGED <<state, searchVars, orphans, strayed, calls>>
      /\ \E limit \in {1, ConflictLimit} :
           \/ Close(s) /\ Fail(http[s])
           \/ /\ ~(http[s].attempt >= limit /\ http[s].port = AnyPort)
              /\ Attempt(s, NextPort(http[s], limit))
  <2>1. PICK ambiguous \in BOOLEAN :
          LET limit == IF ambiguous THEN 1 ELSE ConflictLimit IN
          IF http[s].exact \/ (http[s].attempt >= limit /\ http[s].port = AnyPort)
          THEN Close(s) /\ Fail(http[s])
          ELSE Attempt(s, NextPort(http[s], limit))
    BY DEF Contested
  <2> DEFINE limit == IF ambiguous THEN 1 ELSE ConflictLimit
  <2>2. limit \in {1, ConflictLimit} OBVIOUS
  <2>3. \/ Close(s) /\ Fail(http[s])
        \/ /\ ~(http[s].attempt >= limit /\ http[s].port = AnyPort)
           /\ Attempt(s, NextPort(http[s], limit))
    BY <2>1
  <2> HIDE DEF limit
  <2>4. /\ http[s].kind = "map" /\ permanentOnly' = permanentOnly /\ service' = service
        /\ UNCHANGED <<state, searchVars, orphans, strayed, calls>>
    BY DEF Contested
  <2> QED BY <2>2, <2>3, <2>4
<1>2. http[s] \in Fit /\ permanentOnly' \in BOOLEAN
  BY <1>1 DEF IInv, TypeInv, HttpType
<1>3. PICK limit \in {1, ConflictLimit} :
        \/ Close(s) /\ Fail(http[s])
        \/ /\ ~(http[s].attempt >= limit /\ http[s].port = AnyPort)
           /\ Attempt(s, NextPort(http[s], limit))
  BY <1>1
<1>4. CASE Close(s) /\ Fail(http[s]) BY <1>1, <1>2, <1>4, FailKeeps
<1>5. CASE /\ ~(http[s].attempt >= limit /\ http[s].port = AnyPort)
           /\ Attempt(s, NextPort(http[s], limit))
  <2> DEFINE x == NextPort(http[s], limit)
  <2>1. x \in Fit /\ CallOf(x) = CallOf(http[s]) /\ Deed(x) = Deed(http[s]) /\ x.kind = "map"
    BY <1>1, <1>2, <1>5, NextPortFit
  <2>2. Attempt(s, x) BY <1>5
  <2> HIDE DEF x
  <2> QED BY <1>1, <1>2, <2>1, <2>2, AttemptKeeps
<1> QED BY <1>3, <1>4, <1>5

LEMMA RefusedEndKeeps ==
  ASSUME IInv, NEW s \in Slot, http[s] # None, Refused(s) PROVE IInv'
<1>1. /\ http[s].kind = "map" /\ Fail(http[s]) /\ Close(s)
      /\ permanentOnly' = permanentOnly /\ service' = service
      /\ UNCHANGED <<state, searchVars, orphans, strayed, calls>>
  BY DEF Refused
<1>2. http[s] \in Fit /\ permanentOnly' \in BOOLEAN BY <1>1 DEF IInv, TypeInv, HttpType
<1> QED BY <1>1, <1>2, FailKeeps

LEMMA RecreatedKeeps ==
  ASSUME IInv, NEW s \in Slot, http[s] # None, Recreated(s) PROVE IInv'
<1> DEFINE x == [http[s] EXCEPT !.kind = "map", !.finite = TRUE]
<1>1. /\ http[s].kind = "recreate" /\ Attempt(s, x)
      /\ permanentOnly' = permanentOnly /\ service' = service
      /\ UNCHANGED <<state, searchVars, orphans, strayed, calls>>
  BY DEF Recreated
<1>2. http[s] \in Fit /\ permanentOnly' \in BOOLEAN BY <1>1 DEF IInv, TypeInv, HttpType
<1>3. x \in Exchange BY <1>2 DEF Fit, Exchange
<1>4. /\ x.kind = "map" /\ x.call = http[s].call /\ x.port = http[s].port
      /\ x.origin = http[s].origin /\ (x.own <=> http[s].own) /\ x.attempt = http[s].attempt
  BY <1>2 DEF Fit, Exchange
<1> HIDE DEF x
<1>5. x \in Fit BY <1>1, <1>2, <1>3, <1>4 DEF Fit
<1>6. x # None BY <1>5, BlankFit
<1>7. CallOf(x) = CallOf(http[s]) BY <1>4, <1>6 DEF CallOf
<1>8. Deed(x) = Deed(http[s]) BY <1>1, <1>4, <1>6 DEF Deed
<1> QED BY <1>1, <1>2, <1>4, <1>5, <1>7, <1>8, AttemptKeeps

\* An exchange for a record that is deleted meanwhile is no longer its own.
LEMMA DisownFit ==
  ASSUME NEW x \in Fit, x.origin \in Held
  PROVE  LET y == [x EXCEPT !.own = FALSE] IN
         /\ y \in Fit /\ CallOf(y) = CallOf(x)
         /\ Deed(y)[1] \in {"none", "search"}
         /\ Deed(x)[1] = "search" => Deed(y)[1] = "search"
         /\ Deed(x)[1] \in {"delete", "renew"} => Deed(x) = <<"renew", x.origin>>
<1> DEFINE y == [x EXCEPT !.own = FALSE]
<1>1. x \in Exchange /\ x.kind # "unmap" BY NoneAssumption DEF Fit
<1>2. y \in Exchange BY <1>1 DEF Exchange
<1>3. /\ y.kind = x.kind /\ y.call = x.call /\ y.port = x.port /\ y.attempt = x.attempt
      /\ y.origin = x.origin /\ ~y.own
  BY <1>1 DEF Exchange
<1> HIDE DEF y
<1>4. y \in Fit BY <1>1, <1>2, <1>3 DEF Fit
<1>5. x # None /\ y # None BY <1>4, BlankFit
<1>6. CallOf(y) = CallOf(x) BY <1>3, <1>5 DEF CallOf
<1>7. Deed(y)[1] \in {"none", "search"} /\ (Deed(x)[1] = "search" => Deed(y)[1] = "search")
  BY <1>3, <1>5 DEF Deed, Idle
<1>8. Deed(x)[1] \in {"delete", "renew"} => Deed(x) = <<"renew", x.origin>>
  BY <1>1, <1>5 DEF Deed, Idle
<1> QED BY <1>4, <1>6, <1>7, <1>8 DEF y

LEMMA UnmappedKeeps ==
  ASSUME IInv, NEW s \in Slot, http[s] # None, Unmapped(s) PROVE IInv'
<1> DEFINE p    == http[s].port
           gone == http[s].own /\ mappings[p] # None
           kept(t) == IF gone /\ http[t] # None /\ http[t].origin = p
                      THEN [http[t] EXCEPT !.own = FALSE] ELSE http[t]
<1>1. /\ http[s].kind = "unmap" /\ answers' = Told(http[s].call, "ok")
      /\ mappings' = IF gone THEN [mappings EXCEPT ![p] = None] ELSE mappings
      /\ orphans' = IF gone /\ mappings[p].timer
                    THEN orphans \cup {<<p, mappings[p].exact>>} ELSE orphans
      /\ http' = [t \in Slot |-> IF t = s THEN None ELSE kept(t)]
      /\ UNCHANGED <<state, searchVars, service, permanentOnly, strayed, calls>>
  BY DEF Unmapped
<1>2. TypeInv /\ OwedInv /\ SearchInv /\ LeaseInv BY DEF IInv
<1>3. http[s] \in Fit /\ http \in [Slot -> Fit \cup {None}] BY <1>2 DEF TypeInv, HttpType
<1>4. p \in Held BY <1>1, <1>3 DEF Fit, Held
<1>5. /\ http[s].own => Deeds[s] = <<"delete", p>>
      /\ ~http[s].own => Deeds[s] = Idle
      /\ Load[s] = http[s].call
  BY <1>1 DEF Deeds, Deed, Load, CallOf
<1>6. ASSUME NEW t \in Slot
      PROVE  /\ kept(t) \in Fit \cup {None} /\ CallOf(kept(t)) = CallOf(http[t])
             /\ \/ Deed(kept(t)) = Deed(http[t]) /\ (gone => Deed(kept(t)) # <<"renew", p>>)
                \/ /\ gone /\ Deed(kept(t))[1] \in {"none", "search"}
                   /\ Deed(http[t])[1] = "search" => Deed(kept(t))[1] = "search"
                   /\ Deed(http[t])[1] \in {"delete", "renew"} => Deed(http[t]) = <<"renew", p>>
  <2>1. CASE gone /\ http[t] # None /\ http[t].origin = p
    <3>1. kept(t) = [http[t] EXCEPT !.own = FALSE] /\ http[t] \in Fit BY <1>3, <2>1
    <3> QED BY <1>4, <2>1, <3>1, DisownFit
  <2>2. CASE ~(gone /\ http[t] # None /\ http[t].origin = p)
    <3>1. kept(t) = http[t] BY <2>2
    <3>2. gone => Deed(http[t]) # <<"renew", p>> BY <2>2 DEF Deed, Idle
    <3> QED BY <1>3, <3>1, <3>2
  <2> QED BY <2>1, <2>2
<1> HIDE DEF kept
<1>7. \A t \in Slot : http'[t] = IF t = s THEN None ELSE kept(t) BY <1>1
<1>8. http' \in [Slot -> Fit \cup {None}] BY <1>1, <1>6
<1>9. \A t \in Slot : Load'[t] = IF t = s THEN NoCall ELSE Load[t]
  <2> TAKE t \in Slot
  <2>1. CASE t = s BY <1>7, <2>1 DEF Load, CallOf
  <2>2. CASE t # s
    <3>1. http'[t] = kept(t) BY <1>7, <2>2
    <3> QED BY <1>6, <2>2, <3>1 DEF Load
  <2> QED BY <2>1, <2>2
<1>10. Load' = [Load EXCEPT ![s] = NoCall] BY <1>9 DEF Load
<1>11. Deeds'[s] = Idle BY <1>7 DEF Deeds, Deed
<1>12. \A t \in Slot \ {s} :
         \/ Deeds'[t] = Deeds[t] /\ (gone => Deeds'[t] # <<"renew", p>>)
         \/ /\ gone /\ Deeds'[t][1] \in {"none", "search"}
            /\ Deeds[t][1] = "search" => Deeds'[t][1] = "search"
            /\ Deeds[t][1] \in {"delete", "renew"} => Deeds[t] = <<"renew", p>>
  <2> TAKE t \in Slot \ {s}
  <2>1. http'[t] = kept(t) BY <1>7
  <2>2. Deeds'[t] = Deed(kept(t)) /\ Deeds[t] = Deed(http[t]) BY <2>1 DEF Deeds
  <2> QED BY <1>6, <2>2
<1>13. /\ state' = state /\ search' = search /\ searchTimer' = searchTimer /\ usable' = usable
       /\ service' = service /\ permanentOnly' = permanentOnly
       /\ strayed' = strayed /\ calls' = calls
  BY <1>1 DEF searchVars
<1>14. OwedInv' /\ CallType' BY <1>1, <1>2, <1>5, <1>10, <1>13, OwedEnds DEF Final
<1>15. SearchInv'
  <2>1. \A t \in Slot : Deeds[t][1] = "search" => Deeds'[t][1] = "search"
    BY <1>5, <1>12 DEF Idle
  <2> QED BY <1>2, <1>13, <2>1, SearchSame
<1>16. TableType'
  <2>1. gone => mappings[p] \in Record BY <1>2, <1>4 DEF TypeInv, TableType, Table
  <2>2. gone => <<p, mappings[p].exact>> \in Held \X BOOLEAN BY <1>4, <2>1 DEF Record
  <2>3. mappings' \in Table BY <1>1, <1>2, <1>4 DEF TypeInv, TableType, Table
  <2>4. orphans' \subseteq Held \X BOOLEAN BY <1>1, <1>2, <2>2 DEF TypeInv, TableType
  <2> QED BY <1>2, <1>13, <2>3, <2>4 DEF TypeInv, TableType
<1>17. /\ \A q \in Held : q # p => mappings'[q] = mappings[q]
       /\ gone => mappings'[p] = None
       /\ ~gone => mappings' = mappings
  BY <1>1, <1>2, <1>4 DEF TypeInv, TableType, Table
<1>18. ~gone /\ http[s].own => mappings[p] = None OBVIOUS
<1> HIDE DEF gone, p
<1>19. Owning(mappings', Deeds')
  <2> SUFFICES ASSUME NEW q \in Held, NEW t \in Slot, Deeds'[t] = <<"renew", q>>
               PROVE  mappings'[q] # None
    BY DEF Owning
  <2>1. t # s BY <1>11 DEF Idle
  <2>2. Deeds'[t] = Deeds[t] /\ (gone => Deeds'[t] # <<"renew", p>>) BY <1>12, <2>1
  <2>3. mappings[q] # None BY <1>2, <2>2 DEF LeaseInv, Owning
  <2> QED BY <1>17, <2>2, <2>3
<1>20. state # "destroyed" => Tended(mappings', Deeds', strayed)
  <2> SUFFICES ASSUME state # "destroyed" PROVE Tended(mappings', Deeds', strayed) OBVIOUS
  <2>1. Tended(mappings, Deeds, strayed) BY <1>2 DEF LeaseInv
  <2>2. ASSUME NEW q \in Held, mappings'[q] # None
        PROVE  /\ mappings'[q] = mappings[q]
               /\ \A t \in Slot : Deeds[t] \in {<<"delete", q>>, <<"renew", q>>}
                                    => Deeds'[t] = Deeds[t]
    <3>1. mappings'[q] = mappings[q] /\ (gone => q # p) BY <1>17, <2>2
    <3>2. Deeds[s] \notin {<<"delete", q>>, <<"renew", q>>}
      BY <1>5, <1>18, <2>2, <3>1 DEF Idle
    <3>3. ASSUME NEW t \in Slot, Deeds[t] \in {<<"delete", q>>, <<"renew", q>>}
          PROVE  Deeds'[t] = Deeds[t]
      BY <1>12, <3>1, <3>2, <3>3
    <3> QED BY <3>1, <3>3
  <2> QED BY <2>1, <2>2, TendedStep
<1>21. LeaseInv' BY <1>13, <1>19, <1>20 DEF LeaseInv
<1>22. SearchType' /\ HttpType' BY <1>2, <1>8, <1>13 DEF TypeInv, SearchType, HttpType
<1> QED BY <1>14, <1>15, <1>16, <1>21, <1>22 DEF IInv, TypeInv

-----------------------------------------------------------------------------
(* The connection, and the end.                                            *)

LEMMA DroppedKeeps ==
  ASSUME IInv, NEW s \in Slot, http[s] # None, Dropped(s) PROVE IInv'
<1> DEFINE x == [http[s] EXCEPT !.retried = TRUE, !.wait = TRUE]
<1>1. /\ UNCHANGED <<state, searchVars, service, permanentOnly, tableVars, calls, answers>>
      /\ http' = [http EXCEPT ![s].retried = TRUE, ![s].wait = TRUE]
  BY DEF Dropped
<1>2. http[s] \in Fit /\ permanentOnly' \in BOOLEAN BY <1>1 DEF IInv, TypeInv, HttpType
<1>3. http' = [http EXCEPT ![s] = x] BY <1>1 DEF IInv, TypeInv, HttpType
<1>4. http[s] \in Exchange BY <1>2 DEF Fit
<1>5. x \in Exchange BY <1>4 DEF Exchange
<1>6. /\ x.kind = http[s].kind /\ x.call = http[s].call /\ x.port = http[s].port
      /\ x.origin = http[s].origin /\ (x.own <=> http[s].own) /\ x.attempt = http[s].attempt
  BY <1>4 DEF Exchange
<1> HIDE DEF x
<1>7. x \in Fit /\ CallOf(x) = CallOf(http[s]) /\ Deed(x) = Deed(http[s])
  BY <1>2, <1>5, <1>6, TouchFit
<1> QED BY <1>1, <1>2, <1>3, <1>7, SlotSame

LEMMA RetryKeeps == ASSUME IInv, NEW s \in Slot, Retry(s) PROVE IInv'
<1> DEFINE x == [http[s] EXCEPT !.wait = FALSE, !.to = service]
<1>1. /\ UNCHANGED <<state, searchVars, service, permanentOnly, tableVars, calls, answers>>
      /\ http' = [http EXCEPT ![s].wait = FALSE, ![s].to = service] /\ http[s] # None
  BY DEF Retry
<1>2. http[s] \in Fit /\ permanentOnly' \in BOOLEAN /\ service \in Service
  BY <1>1 DEF IInv, TypeInv, HttpType
<1>3. http' = [http EXCEPT ![s] = x] BY <1>1 DEF IInv, TypeInv, HttpType
<1>4. http[s] \in Exchange BY <1>2 DEF Fit
<1>5. x \in Exchange BY <1>2, <1>4 DEF Exchange
<1>6. /\ x.kind = http[s].kind /\ x.call = http[s].call /\ x.port = http[s].port
      /\ x.origin = http[s].origin /\ (x.own <=> http[s].own) /\ x.attempt = http[s].attempt
  BY <1>4 DEF Exchange
<1> HIDE DEF x
<1>7. x \in Fit /\ CallOf(x) = CallOf(http[s]) /\ Deed(x) = Deed(http[s])
  BY <1>2, <1>5, <1>6, TouchFit
<1> QED BY <1>1, <1>2, <1>3, <1>7, SlotSame

LEMMA DestroyKeeps == ASSUME IInv, Destroy PROVE IInv'
<1>1. /\ state' = "destroyed" /\ searchTimer' = FALSE /\ search' = search /\ usable' = usable
      /\ mappings' = [p \in Held |-> IF mappings[p] = None THEN None
                                     ELSE [mappings[p] EXCEPT !.timer = FALSE]]
      /\ service' = service /\ permanentOnly' = permanentOnly /\ http' = http
      /\ orphans' = orphans /\ strayed' = strayed /\ calls' = calls /\ answers' = answers
  BY DEF Destroy
<1>2. TypeInv /\ OwedInv /\ SearchInv /\ LeaseInv BY DEF IInv
<1>3. Load' = Load /\ Deeds' = Deeds BY <1>1 DEF Load, Deeds
<1>4. OwedInv' /\ CallType' BY <1>1, <1>2, <1>3, OwedSame
<1>5. SearchInv' BY <1>1, <1>2, <1>3, SearchSame
<1>6. \A r \in Record : [r EXCEPT !.timer = FALSE] \in Record BY DEF Record
<1>7. mappings' \in Table BY <1>1, <1>2, <1>6 DEF TypeInv, TableType, Table
<1>8. \A p \in Held : mappings[p] # None => mappings'[p] # None
  BY <1>1, <1>2, <1>6, NoneAssumption DEF TypeInv, TableType, Table
<1>9. LeaseInv' BY <1>1, <1>2, <1>3, <1>8 DEF LeaseInv, Owning
<1>10. SearchType' /\ HttpType' /\ TableType'
  BY <1>1, <1>2, <1>7 DEF TypeInv, SearchType, HttpType, TableType
<1> QED BY <1>4, <1>5, <1>9, <1>10 DEF IInv, TypeInv

LEMMA IgnoredKeeps ==
  ASSUME IInv, NEW s \in Slot, http[s] # None, state = "destroyed", Ignored(s) PROVE IInv'
<1>1. /\ Close(s) /\ state' = state /\ search' = search /\ searchTimer' = searchTimer
      /\ usable' = usable /\ service' = service /\ permanentOnly' = permanentOnly
      /\ mappings' = mappings /\ orphans' = orphans /\ strayed' = strayed
      /\ calls' = calls /\ answers' = answers
  BY DEF Ignored, searchVars, tableVars
<1>2. TypeInv /\ OwedInv /\ SearchInv /\ LeaseInv /\ HttpType BY DEF IInv, TypeInv
<1>3. /\ http' \in [Slot -> Fit \cup {None}] /\ Load' = [Load EXCEPT ![s] = NoCall]
      /\ Deeds' = [Deeds EXCEPT ![s] = Idle]
  BY <1>1, <1>2, CloseLoad
<1>4. /\ \A t \in Slot : Load'[t] = IF t = s THEN NoCall ELSE Load[t]
      /\ \A t \in Slot : Deeds'[t] = IF t = s THEN Idle ELSE Deeds[t]
  BY <1>3 DEF Load, Deeds
<1>5. OwedInv'
  <2>1. calls \in Nat BY <1>2 DEF TypeInv, CallType
  <2>2. \A t \in Slot : Load'[t] <= calls BY <1>2, <1>4, <2>1 DEF OwedInv, NoCall
  <2> QED BY <1>1, <1>2, <1>4, <2>2 DEF OwedInv
<1>6. SearchInv' BY <1>1, <1>2 DEF SearchInv
<1>7. LeaseInv'
  <2>1. \A t \in Slot : \A p \in Held : Deeds'[t] = <<"renew", p>> => Deeds[t] = <<"renew", p>>
    BY <1>4 DEF Idle
  <2> QED BY <1>1, <1>2, <2>1 DEF LeaseInv, Owning
<1>8. SearchType' /\ HttpType' /\ TableType' /\ CallType'
  BY <1>1, <1>2, <1>3 DEF TypeInv, SearchType, HttpType, TableType, CallType
<1> QED BY <1>5, <1>6, <1>7, <1>8 DEF IInv, TypeInv

-----------------------------------------------------------------------------
(* The invariant.                                                          *)

LEMMA InitIInv == Init => IInv
<1> SUFFICES ASSUME Init PROVE IInv OBVIOUS
<1>1. /\ state = "new" /\ search = NoCall /\ searchTimer = FALSE /\ usable = FALSE
      /\ service = "connection" /\ permanentOnly = FALSE /\ http = [s \in Slot |-> None]
      /\ mappings = [p \in Held |-> None] /\ orphans = {} /\ strayed = {}
      /\ calls = 0 /\ answers = [c \in Call |-> "none"]
  BY DEF Init
<1>2. SearchType /\ HttpType /\ TableType
  BY <1>1 DEF SearchType, HttpType, TableType, Table, Service
<1>3. CallType BY <1>1, UPnPSessionAssumption DEF CallType, Answer
<1>4. \A s \in Slot : Load[s] = NoCall /\ Deeds[s] = Idle
  BY <1>1 DEF Load, Deeds, CallOf, Deed
<1>5. \A c \in Call : c # NoCall BY DEF Call, NoCall
<1>6. OwedInv BY <1>1, <1>4, <1>5 DEF OwedInv, Waits, NoCall
<1>7. SearchInv BY <1>1 DEF SearchInv
<1>8. \A p \in Held : mappings[p] = None BY <1>1
<1>9. LeaseInv BY <1>4, <1>8 DEF LeaseInv, Owning, Tended, Idle
<1> QED BY <1>2, <1>3, <1>6, <1>7, <1>9 DEF IInv, TypeInv

\* An exchange ends, one way or another.
LEMMA EndKeeps == ASSUME IInv, NEW s \in Slot, Ends(s) PROVE IInv'
<1>1. http[s] # None BY DEF Ends
<1>2. CASE state = "destroyed" BY <1>1, <1>2, IgnoredKeeps DEF Ends
<1>3. CASE state # "destroyed"
  <2>1. \/ Dropped(s) \/ Described(s) \/ Granted(s) \/ LeaseRefused(s) \/ Contested(s)
        \/ Refused(s) \/ Recreated(s) \/ Unmapped(s) \/ UnmapRefused(s) \/ ForeignAnswered(s)
    BY <1>3 DEF Ends
  <2>2. CASE Dropped(s) BY <1>1, <2>2, DroppedKeeps
  <2>3. CASE Described(s) BY <1>1, <1>3, <2>3, DescribedKeeps
  <2>4. CASE Granted(s) BY <1>1, <2>4, GrantedKeeps
  <2>5. CASE LeaseRefused(s) BY <1>1, <2>5, LeaseRefusedKeeps
  <2>6. CASE Contested(s) BY <1>1, <2>6, ContestedKeeps
  <2>7. CASE Refused(s) BY <1>1, <2>7, RefusedEndKeeps
  <2>8. CASE Recreated(s) BY <1>1, <2>8, RecreatedKeeps
  <2>9. CASE Unmapped(s) BY <1>1, <2>9, UnmappedKeeps
  <2>10. CASE UnmapRefused(s) BY <1>1, <2>10, UnmapRefusedKeeps
  <2>11. CASE ForeignAnswered(s) BY <1>1, <2>11, ForeignAnsweredKeeps
  <2> QED BY <2>1, <2>2, <2>3, <2>4, <2>5, <2>6, <2>7, <2>8, <2>9, <2>10, <2>11
<1> QED BY <1>2, <1>3

LEMMA StutterKeeps == ASSUME IInv, UNCHANGED vars PROVE IInv'
<1>1. /\ state' = state /\ search' = search /\ searchTimer' = searchTimer /\ usable' = usable
      /\ service' = service /\ permanentOnly' = permanentOnly /\ http' = http
      /\ mappings' = mappings /\ orphans' = orphans /\ strayed' = strayed
      /\ calls' = calls /\ answers' = answers
  BY DEF vars, searchVars, tableVars
<1>2. Load' = Load /\ Deeds' = Deeds BY <1>1 DEF Load, Deeds
<1>3. TypeInv' BY <1>1 DEF IInv, TypeInv, SearchType, HttpType, TableType, CallType
<1>4. OwedInv' BY <1>1, <1>2 DEF IInv, OwedInv, Waits
<1>5. SearchInv' BY <1>1, <1>2 DEF IInv, SearchInv
<1>6. LeaseInv' BY <1>1, <1>2 DEF IInv, LeaseInv
<1> QED BY <1>3, <1>4, <1>5, <1>6 DEF IInv

LEMMA NextIInv == ASSUME IInv, [Next]_vars PROVE IInv'
<1>1. CASE Discover BY <1>1, DiscoverKeeps
<1>2. CASE CancelSearch BY <1>2, CancelSearchKeeps
<1>3. CASE Sighted \/ ByeBye BY <1>3, SightedKeeps
<1>4. CASE FinishSearch BY <1>4, FinishSearchKeeps
<1>5. CASE \E p \in Held, exact, finite \in BOOLEAN : Map(p, exact, finite)
  BY <1>5, MapKeeps, Zenon
<1>6. CASE \E p \in Held : RenewFires(p) BY <1>6, RenewKeeps
<1>7. CASE \E o \in orphans : OrphanFires(o) BY <1>7, OrphanKeeps
<1>8. CASE \E p \in Port : Unmap(p) BY <1>8, UnmapKeeps
<1>9. CASE \E other \in Service \ {"connection"} : ForeignCall(other) BY <1>9, ForeignCallKeeps
<1>10. CASE \E s \in Slot : Retry(s) BY <1>10, RetryKeeps
<1>11. CASE \E s \in Slot : Ends(s) BY <1>11, EndKeeps
<1>12. CASE Destroy BY <1>12, DestroyKeeps
<1>13. CASE UNCHANGED vars BY <1>13, StutterKeeps
<1> QED BY <1>1, <1>2, <1>3, <1>4, <1>5, <1>6, <1>7, <1>8, <1>9, <1>10, <1>11, <1>12, <1>13
        DEF Next

THEOREM Invariance == Spec => []IInv
<1>1. Init => IInv BY InitIInv
<1>2. IInv /\ [Next]_vars => IInv' BY NextIInv
<1> QED BY <1>1, <1>2, PTL DEF Spec

-----------------------------------------------------------------------------
(* The theorems.                                                           *)

\* Every variable of the session keeps its type; of upnp_session.js this says
\* above all that on_conflict() stops asking for another port before it has
\* gone further than the limit beyond the last one.
THEOREM TypeCorrect == Spec => []TypeOK
<1>1. IInv => TypeOK
  <2> SUFFICES ASSUME IInv PROVE TypeOK OBVIOUS
  <2>1. SearchType /\ HttpType /\ TableType /\ CallType BY DEF IInv, TypeInv
  <2>2. http \in [Slot -> Exchange \cup {None}] BY <2>1 DEF HttpType, Fit
  <2> QED BY <2>1, <2>2 DEF TypeOK, SearchType, HttpType, TableType, CallType, Table, Answer
<1> QED BY <1>1, Invariance, PTL

\* Who carries the callback of a call, counted.
LEMMA CarriersOne ==
  ASSUME IInv, state # "destroyed", NEW c \in Call
  PROVE  Cardinality(Carriers(c)) + (IF search = c THEN 1 ELSE 0)
           = (IF answers[c] = "pending" THEN 1 ELSE 0)
<1>1. c # NoCall BY DEF Call, NoCall
<1>2. \A s \in Slot : s \in Carriers(c) <=> Load[s] = c BY <1>1 DEF Carriers, Load, CallOf
<1>3. Carriers(c) \subseteq Slot BY DEF Carriers
<1>4. OwedInv BY DEF IInv
<1>5. answers[c] = "pending" <=> (search = c \/ \E s \in Slot : Load[s] = c)
  BY <1>4 DEF OwedInv, Waits
<1>6. CASE \E s \in Slot : Load[s] = c
  <2>1. PICK s \in Slot : Load[s] = c BY <1>6
  <2>2. Carriers(c) = {s} BY <1>1, <1>2, <1>3, <1>4, <2>1 DEF OwedInv
  <2>3. Cardinality(Carriers(c)) = 1 BY <2>2, FS_Singleton
  <2>4. search # c BY <1>1, <1>4, <2>1 DEF OwedInv
  <2> QED BY <1>5, <1>6, <2>3, <2>4
<1>7. CASE ~ \E s \in Slot : Load[s] = c
  <2>1. Carriers(c) = {} BY <1>2, <1>3, <1>7
  <2>2. Cardinality(Carriers(c)) = 0 BY <2>1, FS_EmptySet
  <2> QED BY <1>5, <1>7, <2>2
<1> QED BY <1>6, <1>7

\* Each API call that is not answered yet is waited for in exactly one place, an
\* HTTP exchange or the search, and a search that is waited for has its window
\* still open or its description under way: no path through the retries of
\* attempt_map(), on_conflict(), renew() and call_service() loses a callback or
\* gives it to two.
THEOREM OwedCorrect == Spec => []OwedOnce
<1>1. IInv => OwedOnce
  <2> SUFFICES ASSUME IInv, state # "destroyed"
               PROVE  /\ \A c \in Call :
                           Cardinality(Carriers(c)) + (IF search = c THEN 1 ELSE 0)
                             = (IF answers[c] = "pending" THEN 1 ELSE 0)
                      /\ search # NoCall =>
                           \/ searchTimer
                           \/ \E s \in Slot : http[s] # None /\ http[s].kind = "describe"
    BY DEF OwedOnce
  <2>1. \A s \in Slot : Deeds[s][1] = "search" => http[s] # None /\ http[s].kind = "describe"
    BY DEF Deeds, Deed, Idle
  <2>2. search # NoCall => searchTimer \/ \E s \in Slot : Deeds[s][1] = "search"
    BY DEF IInv, SearchInv
  <2> QED BY <2>1, <2>2, CarriersOne
<1> QED BY <1>1, Invariance, PTL

\* A lease the session reports is tended: an ACTIVE record with a lease has its
\* renewal timer or a renewal or a deletion under way, and a RENEWING one has its
\* renewal under way, except under the ports where the code is known to leave a
\* record untended (strayed).
THEOREM LeaseCorrect == Spec => []LeaseTended
<1>1. IInv => LeaseTended
  <2> SUFFICES ASSUME IInv, state # "destroyed", NEW p \in Held \ strayed, mappings[p] # None
               PROVE  LET under(kinds) == \E s \in Slot : http[s] # None /\ http[s].kind \in kinds
                            /\ (http[s].port = p \/ http[s].origin = p)
                      IN  /\ mappings[p].state = "ACTIVE" /\ mappings[p].finite
                               => mappings[p].timer \/ under({"map", "recreate", "unmap"})
                          /\ mappings[p].state = "RENEWING" => under({"map", "recreate"})
    BY DEF LeaseTended
  <2>1. \A s \in Slot : Deeds[s] = <<"delete", p>> =>
          http[s] # None /\ http[s].kind = "unmap" /\ http[s].port = p
    BY DEF Deeds, Deed, Idle
  <2>2. \A s \in Slot : Deeds[s] = <<"renew", p>> =>
          http[s] # None /\ http[s].kind \in {"map", "recreate"} /\ http[s].origin = p
    BY DEF Deeds, Deed, Idle
  <2>3. TendedAt(mappings[p], Deeds, p) BY DEF IInv, LeaseInv, Tended
  <2> QED BY <2>1, <2>2, <2>3 DEF TendedAt
<1> QED BY <1>1, Invariance, PTL
=============================================================================
