--------------------------- MODULE BackendsProofs ---------------------------
(***************************************************************************)
(* What the enforcement adapters promise, for any number of ports, targets,*)
(* overlapping calls and failures: an answered call is in force, list()    *)
(* tells the truth, and a destroyed adapter forwards nothing.              *)
(***************************************************************************)
EXTENDS Backends, SequenceTheorems, WellFoundedInduction, TLAPS

\* What forwards holds of a port that has this target and no other, or none.
Just(t) == IF t = None THEN <<>> ELSE <<t>>

TypeInv ==
  /\ forwards \in [Port -> Seq(Target)]
  /\ entries \in [Port -> Anything]
  /\ calls \in [Slot -> Call \cup {None}]
  /\ promise \in [Port -> SUBSET Anything]
  /\ crossed \subseteq Port
  /\ life \in {"new", "selecting", "starting", "ready", "failed", "destroyed"}
  /\ chain \in {"none", "unhooked", "hooked"}
  /\ closing \in {"none", "unhook", "flush", "drop"}

\* Before an adapter is ready nothing has been asked of it.
StageInv ==
  /\ life \in {"new", "selecting", "starting"} =>
       /\ forwards = [p \in Port |-> <<>>] /\ entries = Nothing
       /\ promise = [p \in Port |-> Anything]
  /\ life \notin {"ready", "destroyed"} => UnderWay = {}
  /\ closing # "none" => chosen = "iptables" /\ life = "destroyed"
  /\ life = "ready" /\ chosen = "iptables" => chain = "hooked"
  /\ life \in {"ready", "destroyed"} => chosen \in {"relay", "pf", "iptables"}

\* A call under way is one of the adapter chosen.
CallsInv ==
  \A s \in UnderWay :
    LET c == calls[s] IN
    /\ \/ chosen = "relay" /\ c.step \in {"bind6", "bind4"} /\ c.kind = "add"
       \/ chosen = "pf" /\ c.step = "load"
       \/ chosen = "iptables" /\ c.step \in {"list", "delete", "write"}
    /\ c.kind = "add" => c.target \in Target
    /\ c.kind = "remove" => c.target = None /\ c.step # "write"
    /\ c.step = "delete" => c.old # None

\* Two calls for one port are only under way together for a port in crossed.
OneCallInv ==
  chosen \in {"relay", "iptables"} /\ life = "ready" =>
    \A s, r \in UnderWay : calls[s].port = calls[r].port /\ s # r => calls[s].port \in crossed

RelayInv ==
  chosen = "relay" =>
    /\ \A p \in Port : entries[p] # None => forwards[p] # <<>>
    /\ life = "ready" =>
         \A p \in Port \ crossed :
           /\ forwards[p] = Just(entries[p]) /\ entries[p] \in promise[p]
           /\ Busy(p) # {} => entries[p] = None /\ promise[p] = Anything
    /\ life = "destroyed" => \A p \in Port \ crossed : forwards[p] = <<>> /\ Busy(p) = {}

\* What a load under way brings differs from the table, but for the ports in
\* crossed, in its own port at most, and what it replaces is in force meanwhile.
PfLoadInv(s) ==
  LET c == calls[s] IN
  /\ c.load[c.port] = c.target
  /\ c.alone => UnderWay = {s} /\ c.load = entries
  /\ ~c.alone => c.port \in crossed
  /\ \A p \in Port \ crossed : p # c.port => c.load[p] = entries[p]
  /\ c.port \notin crossed => forwards[c.port] = Just(c.old) /\ promise[c.port] = Anything

PfInv ==
  chosen = "pf" =>
    /\ life = "ready" =>
         /\ \A s \in UnderWay : PfLoadInv(s)
         /\ \A p \in Port \ crossed :
              Busy(p) = {} => forwards[p] = Just(entries[p]) /\ entries[p] \in promise[p]
    /\ life = "destroyed" => \A p \in Port \ crossed : forwards[p] = <<>> /\ UnderWay = {}

\* A call of iptables finds one rule of a port at most, and has deleted it when
\* it writes its own.  A rule the table does not know may be there: one that was
\* found there at the start, or whose command was killed too late.
IptStepInv(s) ==
  LET c == calls[s]
      p == calls[s].port
  IN
  /\ promise[p] = Anything
  /\ c.step = "list" => entries[p] = None /\ \E t \in Anything : forwards[p] = Just(t)
  /\ c.step = "delete" => forwards[p] = Just(c.old) /\ entries[p] \in {None, c.old}
  /\ c.step = "write" => forwards[p] = <<>> /\ entries[p] = None

IptInv ==
  chosen = "iptables" =>
    /\ life = "ready" =>
         /\ \A p \in Port \ crossed :
              Busy(p) = {} => \E t \in Anything :
                                /\ forwards[p] = Just(t)
                                /\ entries[p] \in {None, t} /\ t \in promise[p]
         /\ \A s \in UnderWay : calls[s].port \notin crossed => IptStepInv(s)
    /\ life = "destroyed" /\ closing # "unhook" /\ chain = "hooked" =>
         \A p \in Port \ crossed : Busy(p) = {} /\ (closing # "flush" => forwards[p] = <<>>)

BInv == TypeInv /\ StageInv /\ CallsInv /\ OneCallInv /\ RelayInv /\ PfInv /\ IptInv

-----------------------------------------------------------------------------
(* Calls.                                                                  *)

LEMMA CallType ==
  ASSUME TypeInv, NEW s \in UnderWay
  PROVE  /\ s \in Slot /\ calls[s] \in Call /\ calls[s] # None
         /\ calls[s].port \in Port /\ calls[s].target \in Anything /\ calls[s].old \in Anything
         /\ calls[s].load \in [Port -> Anything] /\ calls[s].alone \in BOOLEAN
         /\ calls[s].kind \in {"add", "remove"}
<1>1. s \in Slot /\ calls[s] \in Call /\ calls[s] # None BY DEF UnderWay, TypeInv
<1> QED BY <1>1 DEF Call

\* Two calls that differ in alone only.
Like(c, d) ==
  /\ c.kind = d.kind /\ c.port = d.port /\ c.target = d.target /\ c.step = d.step
  /\ c.old = d.old /\ c.load = d.load

LEMMA BeginEffect ==
  ASSUME TypeInv, NEW s \in Slot, NEW c \in Call, Begin(s, c)
  PROVE  /\ calls' \in [Slot -> Call \cup {None}] /\ promise' \in [Port -> SUBSET Anything]
         /\ s \notin UnderWay /\ UnderWay' = UnderWay \cup {s} /\ calls'[s] = c
         /\ \A r \in UnderWay : Like(calls'[r], calls[r]) /\ ~calls'[r].alone
         /\ promise'[c.port] = Anything
         /\ \A p \in Port \ {c.port} : promise'[p] = promise[p]
         /\ \A p : Busy(p)' = IF p = c.port THEN Busy(p) \cup {s} ELSE Busy(p)
<1>1. /\ calls[s] = None /\ promise' = [promise EXCEPT ![c.port] = Anything]
      /\ calls' = [r \in Slot |-> IF r = s THEN c
                                  ELSE IF calls[r] = None THEN None
                                  ELSE [calls[r] EXCEPT !.alone = FALSE]]
  BY DEF Begin
<1>2. /\ calls \in [Slot -> Call \cup {None}] /\ promise \in [Port -> SUBSET Anything]
      /\ c.port \in Port
  BY DEF TypeInv, Call
<1>3. ASSUME NEW d \in Call
      PROVE  /\ [d EXCEPT !.alone = FALSE] \in Call /\ Like([d EXCEPT !.alone = FALSE], d)
             /\ ~[d EXCEPT !.alone = FALSE].alone
  BY DEF Call, Like
<1>4. s \notin UnderWay /\ \A r \in UnderWay : r \in Slot /\ calls[r] \in Call /\ calls[r] # None
  BY <1>1, <1>2 DEF UnderWay
<1>5. calls'[s] = c /\ \A r \in UnderWay : calls'[r] = [calls[r] EXCEPT !.alone = FALSE]
  BY <1>1, <1>4
<1>6. ASSUME NEW r \in UnderWay
      PROVE  calls'[r] \in Call /\ Like(calls'[r], calls[r]) /\ ~calls'[r].alone
  <2>1. PICK d : d = calls[r] OBVIOUS
  <2>2. d \in Call /\ calls'[r] = [d EXCEPT !.alone = FALSE] BY <1>4, <1>5, <2>1
  <2>3. /\ [d EXCEPT !.alone = FALSE] \in Call /\ Like([d EXCEPT !.alone = FALSE], d)
        /\ ~[d EXCEPT !.alone = FALSE].alone
    BY <1>3, <2>2
  <2>4. calls'[r] \in Call /\ Like(calls'[r], d) /\ ~calls'[r].alone BY <2>2, <2>3, Zenon
  <2> QED BY <2>1, <2>4
<1>7. \A r \in Slot : r # s /\ r \notin UnderWay => calls'[r] = None BY <1>1 DEF UnderWay
<1>8. UnderWay' = UnderWay \cup {s}
  BY <1>4, <1>5, <1>6, <1>7, NoneAssumption DEF UnderWay
<1>9. calls' \in [Slot -> Call \cup {None}]
  <2>1. \A r \in Slot : calls'[r] \in Call \cup {None} BY <1>5, <1>6, <1>7
  <2> QED BY <1>1, <2>1
<1>10. \A p : Busy(p)' = IF p = c.port THEN Busy(p) \cup {s} ELSE Busy(p)
  BY <1>4, <1>5, <1>6, <1>8 DEF Busy, Like
<1>11. /\ promise' \in [Port -> SUBSET Anything] /\ promise'[c.port] = Anything
       /\ \A p \in Port \ {c.port} : promise'[p] = promise[p]
  BY <1>1, <1>2
<1> QED BY <1>4, <1>5, <1>6, <1>8, <1>9, <1>10, <1>11

LEMMA LeaveEffect ==
  ASSUME TypeInv, NEW s \in UnderWay, calls' = [calls EXCEPT ![s] = None]
  PROVE  /\ calls' \in [Slot -> Call \cup {None}]
         /\ UnderWay' = UnderWay \ {s} /\ \A r \in UnderWay \ {s} : calls'[r] = calls[r]
         /\ \A p : Busy(p)' = Busy(p) \ {s}
<1>1. s \in Slot /\ calls \in [Slot -> Call \cup {None}] BY DEF TypeInv, UnderWay
<1>2. calls'[s] = None /\ \A r \in Slot \ {s} : calls'[r] = calls[r] BY <1>1
<1>3. UnderWay' = UnderWay \ {s} BY <1>2 DEF UnderWay
<1>4. calls' \in [Slot -> Call \cup {None}] BY <1>1
<1>5. \A p : Busy(p)' = Busy(p) \ {s} BY <1>2, <1>3 DEF Busy, UnderWay
<1> QED BY <1>2, <1>3, <1>4, <1>5 DEF UnderWay

LEMMA AnswerEffect ==
  ASSUME TypeInv, NEW s \in UnderWay, NEW ok \in BOOLEAN, Answer(s, ok)
  PROVE  /\ calls' \in [Slot -> Call \cup {None}] /\ promise' \in [Port -> SUBSET Anything]
         /\ UnderWay' = UnderWay \ {s} /\ \A r \in UnderWay \ {s} : calls'[r] = calls[r]
         /\ promise'[calls[s].port] = IF ok THEN {calls[s].target} ELSE Anything
         /\ \A p \in Port \ {calls[s].port} : promise'[p] = promise[p]
         /\ \A p : Busy(p)' = Busy(p) \ {s}
<1>1. /\ calls' = [calls EXCEPT ![s] = None]
      /\ promise' = [promise EXCEPT ![calls[s].port] =
                       IF ok THEN {calls[s].target} ELSE Anything]
  BY DEF Answer
<1>2. /\ calls[s].port \in Port /\ calls[s].target \in Anything
      /\ promise \in [Port -> SUBSET Anything]
  BY CallType DEF TypeInv
<1>3. /\ promise' \in [Port -> SUBSET Anything]
      /\ promise'[calls[s].port] = IF ok THEN {calls[s].target} ELSE Anything
      /\ \A p \in Port \ {calls[s].port} : promise'[p] = promise[p]
  BY <1>1, <1>2
<1> QED BY <1>1, <1>3, LeaveEffect

LEMMA StepEffect ==
  ASSUME TypeInv, NEW s \in UnderWay, NEW d \in Call, d.port = calls[s].port,
         calls' = [calls EXCEPT ![s] = d]
  PROVE  /\ calls' \in [Slot -> Call \cup {None}] /\ UnderWay' = UnderWay
         /\ calls'[s] = d /\ \A r \in UnderWay \ {s} : calls'[r] = calls[r]
         /\ \A p : Busy(p)' = Busy(p)
<1>1. s \in Slot /\ calls \in [Slot -> Call \cup {None}] /\ calls[s] # None
  BY CallType DEF TypeInv
<1>2. calls'[s] = d /\ \A r \in Slot \ {s} : calls'[r] = calls[r] BY <1>1
<1>3. calls' \in [Slot -> Call \cup {None}] BY <1>1
<1>4. UnderWay' = UnderWay BY <1>1, <1>2, NoneAssumption DEF UnderWay
<1>5. \A p : Busy(p)' = Busy(p) BY <1>2, <1>4 DEF Busy, UnderWay
<1> QED BY <1>2, <1>3, <1>4, <1>5 DEF UnderWay

\* A call is given all its fields when it begins.
LEMMA NewCallType ==
  ASSUME NEW kind \in {"add", "remove"}, NEW p \in Port, NEW t \in Anything,
         NEW step \in {"bind6", "bind4", "load", "list", "delete", "write"},
         NEW old \in Anything, NEW load \in [Port -> Anything]
  PROVE  LET c == NewCall(kind, p, t, step, old, load) IN
         /\ c \in Call /\ c.kind = kind /\ c.port = p /\ c.target = t /\ c.step = step
         /\ c.old = old /\ c.load = load
<1>1. (\A s \in Slot : calls[s] = None) \in BOOLEAN OBVIOUS
<1> QED BY <1>1 DEF NewCall, Call

LEMMA NothingType == Nothing \in [Port -> Anything] /\ \A p \in Port : Nothing[p] = None
BY DEF Nothing, Anything

\* Just is a way to write the sequences of at most one target.
LEMMA JustType ==
  ASSUME NEW t \in Anything
  PROVE  /\ Just(t) \in Seq(Target) /\ (Just(t) = <<>> <=> t = None)
         /\ t # None => Just(t) = <<t>> /\ Head(Just(t)) = t /\ Tail(Just(t)) = <<>>
<1>1. t # None => t \in Target BY DEF Anything
<1> QED BY <1>1 DEF Just

\* For another adapter than the chosen one there is nothing to show.
LEMMA OfOthers ==
  /\ chosen' # "relay" => RelayInv'
  /\ chosen' # "pf" => PfInv'
  /\ chosen' # "iptables" => IptInv'
  /\ chosen' = "pf" => OneCallInv'
BY DEF RelayInv, PfInv, IptInv, OneCallInv

-----------------------------------------------------------------------------
(* The relay.                                                              *)

LEMMA ClosedType ==
  ASSUME BInv, chosen = "relay", NEW p \in Port
  PROVE  Closed(p) \in Seq(Target) /\ (forwards[p] = Just(entries[p]) => Closed(p) = <<>>)
<1>1. /\ forwards[p] \in Seq(Target) /\ entries[p] \in Anything
      /\ entries[p] # None => forwards[p] # <<>>
  BY DEF BInv, TypeInv, RelayInv
<1>2. Just(entries[p]) = <<>> <=> entries[p] = None BY <1>1, JustType
<1>3. entries[p] # None => Tail(Just(entries[p])) = <<>> BY <1>1, JustType
<1> QED BY <1>1, <1>2, <1>3 DEF Closed

LEMMA RelayStartKeeps ==
  ASSUME BInv, RelayStart, UNCHANGED iptablesVars
  PROVE  BInv'
<1>1. /\ chosen = "relay" /\ chosen' = chosen /\ life = "starting" /\ life' = "ready"
      /\ forwards' = forwards /\ entries' = entries /\ calls' = calls /\ promise' = promise
      /\ crossed' = crossed /\ chain' = chain /\ closing' = closing
  BY DEF RelayStart, Forget, iptablesVars
<1>2. /\ forwards = [p \in Port |-> <<>>] /\ entries = Nothing
      /\ promise = [p \in Port |-> Anything] /\ UnderWay = {}
  BY <1>1 DEF BInv, StageInv
<1>3. UnderWay' = {} /\ \A p : Busy(p)' = {} BY <1>1, <1>2 DEF UnderWay, Busy
<1>4. TypeInv' BY <1>1 DEF BInv, TypeInv
<1>5. StageInv' BY <1>1 DEF BInv, StageInv
<1>6. CallsInv' /\ OneCallInv' BY <1>3 DEF CallsInv, OneCallInv
<1>7. RelayInv'
  <2>1. \A p \in Port : forwards'[p] = <<>> /\ entries'[p] = None /\ promise'[p] = Anything
    BY <1>1, <1>2, NothingType
  <2> QED BY <1>1, <1>3, <2>1 DEF RelayInv, Just, Anything
<1> QED BY <1>1, <1>4, <1>5, <1>6, <1>7, OfOthers DEF BInv

LEMMA RelayAddKeeps ==
  ASSUME BInv, NEW s \in Slot, NEW p \in Port, NEW t \in Target, RelayAdd(s, p, t),
         UNCHANGED iptablesVars
  PROVE  BInv'
<1> DEFINE c == NewCall("add", p, t, Family, None, Nothing)
<1>1. /\ chosen = "relay" /\ chosen' = chosen /\ life = "ready" /\ life' = life
      /\ forwards' = [forwards EXCEPT ![p] = Closed(p)]
      /\ entries' = [entries EXCEPT ![p] = None]
      /\ Begin(s, c) /\ crossed' = Meets(p) /\ chain' = chain /\ closing' = closing
  BY DEF RelayAdd, selection, iptablesVars
<1>2. c \in Call /\ c.port = p /\ c.kind = "add" /\ c.target = t /\ c.step \in {"bind6", "bind4"}
  <2>1. /\ Family \in {"bind6", "bind4"} /\ t \in Anything /\ None \in Anything
        /\ Nothing \in [Port -> Anything]
    BY NothingType DEF Family, Anything
  <2>2. Family \in {"bind6", "bind4", "load", "list", "delete", "write"} BY <2>1
  <2> QED BY <2>1, <2>2, NewCallType
<1> HIDE DEF c
<1>3. /\ forwards \in [Port -> Seq(Target)] /\ entries \in [Port -> Anything]
      /\ None \in Anything /\ crossed \subseteq Port
  BY DEF BInv, TypeInv, Anything
<1>4. /\ calls' \in [Slot -> Call \cup {None}] /\ promise' \in [Port -> SUBSET Anything]
      /\ s \notin UnderWay /\ UnderWay' = UnderWay \cup {s} /\ calls'[s] = c
      /\ \A r \in UnderWay : Like(calls'[r], calls[r])
      /\ promise'[p] = Anything /\ \A q \in Port \ {p} : promise'[q] = promise[q]
      /\ \A q : Busy(q)' = IF q = p THEN Busy(q) \cup {s} ELSE Busy(q)
  BY <1>1, <1>2, BeginEffect DEF BInv
<1>5. crossed' \subseteq Port /\ crossed \subseteq crossed' /\ (Busy(p) # {} => p \in crossed')
  BY <1>1, <1>3 DEF Meets
<1>6. TypeInv'
  <2>1. forwards' \in [Port -> Seq(Target)] /\ entries' \in [Port -> Anything]
    BY <1>1, <1>3, ClosedType
  <2> QED BY <1>1, <1>4, <1>5, <2>1 DEF BInv, TypeInv
<1>7. StageInv' BY <1>1 DEF BInv, StageInv
<1>8. CallsInv' BY <1>1, <1>2, <1>4 DEF BInv, CallsInv, Like
<1>9. OneCallInv'
  <2> SUFFICES ASSUME NEW a \in UnderWay', NEW b \in UnderWay', a # b,
                      calls'[a].port = calls'[b].port
               PROVE  calls'[a].port \in crossed'
    BY DEF OneCallInv
  <2>1. CASE a \in UnderWay /\ b \in UnderWay
    <3>1. calls[a].port = calls[b].port /\ calls'[a].port = calls[a].port
      BY <1>4, <2>1 DEF Like
    <3> QED BY <1>1, <1>5, <2>1, <3>1 DEF BInv, OneCallInv
  <2>2. CASE a = s \/ b = s
    <3>1. PICK r \in UnderWay : calls'[r].port = p BY <1>2, <1>4, <2>2
    <3>2. r \in Busy(p) BY <1>4, <3>1 DEF Busy, Like
    <3> QED BY <1>2, <1>4, <1>5, <2>2, <3>2
  <2> QED BY <1>4, <2>1, <2>2
<1>10. RelayInv'
  <2>1. ASSUME NEW q \in Port \ crossed'
        PROVE  /\ forwards'[q] = Just(entries'[q]) /\ entries'[q] \in promise'[q]
               /\ Busy(q)' # {} => entries'[q] = None /\ promise'[q] = Anything
    <3>1. /\ q \notin crossed /\ forwards[q] = Just(entries[q]) /\ entries[q] \in promise[q]
          /\ Busy(q) # {} => entries[q] = None /\ promise[q] = Anything
      BY <1>1, <1>5 DEF BInv, RelayInv
    <3>2. CASE q = p BY <1>1, <1>3, <1>4, <3>1, <3>2, ClosedType DEF Just
    <3>3. CASE q # p BY <1>1, <1>3, <1>4, <3>1, <3>3
    <3> QED BY <3>2, <3>3
  <2>2. ASSUME NEW q \in Port, entries'[q] # None PROVE forwards'[q] # <<>>
    BY <1>1, <1>3, <2>2 DEF BInv, RelayInv
  <2> QED BY <1>1, <2>1, <2>2 DEF RelayInv
<1> QED BY <1>1, <1>6, <1>7, <1>8, <1>9, <1>10, OfOthers DEF BInv

\* The removal from the line of calls of one that is answered.
LEMMA AnsweredKeeps ==
  ASSUME BInv, NEW s \in UnderWay, crossed \subseteq crossed', chosen' = chosen, life' = life,
         UnderWay' = UnderWay \ {s}, \A r \in UnderWay \ {s} : calls'[r] = calls[r]
  PROVE  CallsInv' /\ (chosen # "pf" => OneCallInv')
<1>1. CallsInv' BY DEF BInv, CallsInv
<1>2. ASSUME chosen # "pf" PROVE OneCallInv' BY <1>2 DEF BInv, OneCallInv
<1> QED BY <1>1, <1>2

LEMMA RelayBoundKeeps ==
  ASSUME BInv, NEW s \in Slot, RelayBound(s), UNCHANGED iptablesVars
  PROVE  BInv'
<1> DEFINE p == calls[s].port
           t == calls[s].target
<1>1. /\ chosen' = chosen /\ life' = life /\ s \in UnderWay
      /\ calls[s].step \in {"bind6", "bind4"}
      /\ p \in UdpPort \/ forwards[p] = <<>>
      /\ forwards' = [forwards EXCEPT ![p] = <<t>> \o @]
      /\ entries' = [entries EXCEPT ![p] = t]
      /\ Answer(s, TRUE) /\ crossed' = crossed /\ chain' = chain /\ closing' = closing
  BY DEF RelayBound, Binding, UnderWay, selection, iptablesVars
<1>2. chosen = "relay" /\ t \in Target /\ p \in Port
  BY <1>1, CallType DEF BInv, CallsInv
<1>3. life \in {"ready", "destroyed"} BY <1>1 DEF BInv, StageInv
<1>4. /\ forwards \in [Port -> Seq(Target)] /\ entries \in [Port -> Anything]
      /\ t \in Anything /\ t # None /\ crossed \subseteq Port
  BY <1>2, EnforceAssumption DEF BInv, TypeInv, Anything
<1>5. /\ calls' \in [Slot -> Call \cup {None}] /\ promise' \in [Port -> SUBSET Anything]
      /\ UnderWay' = UnderWay \ {s} /\ \A r \in UnderWay \ {s} : calls'[r] = calls[r]
      /\ promise'[p] = {t} /\ \A q \in Port \ {p} : promise'[q] = promise[q]
      /\ \A q : Busy(q)' = Busy(q) \ {s}
  BY <1>1, AnswerEffect DEF BInv
<1>6. s \in Busy(p) BY <1>1 DEF Busy
<1> HIDE DEF p, t
<1>7. TypeInv'
  <2>1. <<t>> \o forwards[p] \in Seq(Target) BY <1>2, <1>4
  <2>2. forwards' \in [Port -> Seq(Target)] /\ entries' \in [Port -> Anything]
    BY <1>1, <1>4, <2>1
  <2> QED BY <1>1, <1>5, <2>2 DEF BInv, TypeInv
<1>8. StageInv' BY <1>1, <1>3, <1>5 DEF BInv, StageInv
<1>9. CallsInv' /\ OneCallInv' BY <1>1, <1>2, <1>5, AnsweredKeeps
<1>10. RelayInv'
  <2>1. \A q \in Port : entries'[q] # None => forwards'[q] # <<>>
    <3>1. <<t>> \o forwards[p] # <<>> BY <1>2, <1>4
    <3> QED BY <1>1, <1>2, <1>4, <3>1 DEF BInv, RelayInv
  <2>2. ASSUME life = "ready", NEW q \in Port \ crossed
        PROVE  /\ forwards'[q] = Just(entries'[q]) /\ entries'[q] \in promise'[q]
               /\ Busy(q)' # {} => entries'[q] = None /\ promise'[q] = Anything
    <3>1. /\ forwards[q] = Just(entries[q]) /\ entries[q] \in promise[q]
          /\ Busy(q) # {} => entries[q] = None /\ promise[q] = Anything
      BY <1>2, <2>2 DEF BInv, RelayInv
    <3>2. CASE q = p
      <4>1. forwards[p] = <<>> BY <1>6, <3>1, <3>2 DEF Just
      <4>2. <<t>> \o forwards[p] = <<t>> BY <1>2, <4>1
      <4>3. Busy(q)' = {}
        <5>1. \A r \in Busy(p) : r = s
          BY <1>1, <1>2, <1>6, <2>2, <3>2 DEF BInv, OneCallInv, Busy, p
        <5> QED BY <1>5, <3>2, <5>1
      <4> QED BY <1>1, <1>2, <1>4, <1>5, <3>2, <4>2, <4>3 DEF Just
    <3>3. CASE q # p BY <1>1, <1>4, <1>5, <3>1, <3>3
    <3> QED BY <3>2, <3>3
  <2>3. ASSUME life = "destroyed", NEW q \in Port \ crossed
        PROVE  forwards'[q] = <<>> /\ Busy(q)' = {}
    <3>1. forwards[q] = <<>> /\ Busy(q) = {} BY <1>2, <2>3 DEF BInv, RelayInv
    <3> QED BY <1>1, <1>4, <1>5, <1>6, <3>1
  <2> QED BY <1>1, <2>1, <2>2, <2>3 DEF RelayInv
<1> QED BY <1>1, <1>2, <1>7, <1>8, <1>9, <1>10, OfOthers DEF BInv

LEMMA RelayFallsBackKeeps ==
  ASSUME BInv, NEW s \in Slot, RelayFallsBack(s), UNCHANGED iptablesVars
  PROVE  BInv'
<1> DEFINE d == [calls[s] EXCEPT !.step = "bind4"]
<1>1. /\ chosen' = chosen /\ life' = life /\ s \in UnderWay /\ calls[s].step = "bind6"
      /\ forwards' = forwards /\ entries' = entries /\ promise' = promise
      /\ calls' = [calls EXCEPT ![s] = d] /\ crossed' = crossed
      /\ chain' = chain /\ closing' = closing
  BY DEF RelayFallsBack, Binding, UnderWay, selection, iptablesVars
<1>2. chosen = "relay" /\ calls[s].kind = "add" BY <1>1 DEF BInv, CallsInv
<1>3. /\ d \in Call /\ d.port = calls[s].port /\ d.kind = calls[s].kind
      /\ d.target = calls[s].target /\ d.step = "bind4"
  <2>1. calls[s] \in Call BY <1>1, CallType DEF BInv
  <2> QED BY <2>1 DEF Call
<1> HIDE DEF d
<1>4. /\ calls' \in [Slot -> Call \cup {None}] /\ UnderWay' = UnderWay
      /\ calls'[s] = d /\ \A r \in UnderWay \ {s} : calls'[r] = calls[r]
      /\ \A p : Busy(p)' = Busy(p)
  BY <1>1, <1>3, StepEffect DEF BInv
<1>5. TypeInv' BY <1>1, <1>4 DEF BInv, TypeInv
<1>6. StageInv' BY <1>1, <1>4 DEF BInv, StageInv
<1>7. CallsInv' BY <1>1, <1>2, <1>3, <1>4 DEF BInv, CallsInv
<1>8. OneCallInv'
  <2>1. \A r \in UnderWay : calls'[r].port = calls[r].port BY <1>3, <1>4
  <2> QED BY <1>1, <1>4, <2>1 DEF BInv, OneCallInv
<1>9. RelayInv' BY <1>1, <1>4 DEF BInv, RelayInv
<1> QED BY <1>1, <1>2, <1>5, <1>6, <1>7, <1>8, <1>9, OfOthers DEF BInv

LEMMA RelayRefusedKeeps ==
  ASSUME BInv, NEW s \in Slot, RelayRefused(s), UNCHANGED iptablesVars
  PROVE  BInv'
<1> DEFINE p == calls[s].port
<1>1. /\ chosen' = chosen /\ life' = life /\ s \in UnderWay
      /\ calls[s].step \in {"bind6", "bind4"}
      /\ forwards' = forwards /\ entries' = entries /\ Answer(s, FALSE)
      /\ crossed' = crossed /\ chain' = chain /\ closing' = closing
  BY DEF RelayRefused, Binding, UnderWay, selection, iptablesVars
<1>2. chosen = "relay" /\ p \in Port BY <1>1, CallType DEF BInv, CallsInv
<1>3. life \in {"ready", "destroyed"} BY <1>1 DEF BInv, StageInv
<1>4. /\ calls' \in [Slot -> Call \cup {None}] /\ promise' \in [Port -> SUBSET Anything]
      /\ UnderWay' = UnderWay \ {s} /\ \A r \in UnderWay \ {s} : calls'[r] = calls[r]
      /\ promise'[p] = Anything /\ \A q \in Port \ {p} : promise'[q] = promise[q]
      /\ \A q : Busy(q)' = Busy(q) \ {s}
  BY <1>1, AnswerEffect DEF BInv
<1> HIDE DEF p
<1>5. TypeInv' BY <1>1, <1>4 DEF BInv, TypeInv
<1>6. StageInv' BY <1>1, <1>3, <1>4 DEF BInv, StageInv
<1>7. CallsInv' /\ OneCallInv' BY <1>1, <1>2, <1>4, AnsweredKeeps
<1>8. RelayInv'
  <2>1. ASSUME life = "ready", NEW q \in Port \ crossed
        PROVE  /\ forwards'[q] = Just(entries'[q]) /\ entries'[q] \in promise'[q]
               /\ Busy(q)' # {} => entries'[q] = None /\ promise'[q] = Anything
    <3>1. /\ forwards[q] = Just(entries[q]) /\ entries[q] \in promise[q]
          /\ Busy(q) # {} => entries[q] = None /\ promise[q] = Anything
          /\ entries[q] \in Anything
      BY <1>2, <2>1 DEF BInv, RelayInv, TypeInv
    <3>2. q = p \/ promise'[q] = promise[q] BY <1>4
    <3>3. entries'[q] \in promise'[q] BY <1>1, <1>4, <3>1, <3>2
    <3>4. Busy(q)' # {} => promise'[q] = Anything BY <1>4, <3>1, <3>2
    <3> QED BY <1>1, <1>4, <3>1, <3>3, <3>4
  <2>2. ASSUME life = "destroyed", NEW q \in Port \ crossed
        PROVE  forwards'[q] = <<>> /\ Busy(q)' = {}
    BY <1>1, <1>2, <1>4, <2>2 DEF BInv, RelayInv
  <2>3. \A q \in Port : entries'[q] # None => forwards'[q] # <<>>
    BY <1>1, <1>2 DEF BInv, RelayInv
  <2> QED BY <1>1, <2>1, <2>2, <2>3 DEF RelayInv
<1> QED BY <1>1, <1>2, <1>5, <1>6, <1>7, <1>8, OfOthers DEF BInv

LEMMA RelayRemoveKeeps ==
  ASSUME BInv, NEW p \in Port, RelayRemove(p), UNCHANGED iptablesVars
  PROVE  BInv'
<1>1. /\ chosen = "relay" /\ chosen' = chosen /\ life = "ready" /\ life' = life
      /\ forwards' = [forwards EXCEPT ![p] = Closed(p)]
      /\ entries' = [entries EXCEPT ![p] = None]
      /\ promise' = [promise EXCEPT ![p] = {None}]
      /\ calls' = calls /\ crossed' = Meets(p) /\ chain' = chain /\ closing' = closing
  BY DEF RelayRemove, selection, iptablesVars
<1>2. /\ forwards \in [Port -> Seq(Target)] /\ entries \in [Port -> Anything]
      /\ promise \in [Port -> SUBSET Anything] /\ None \in Anything /\ crossed \subseteq Port
  BY DEF BInv, TypeInv, Anything
<1>3. /\ UnderWay' = UnderWay /\ \A q : Busy(q)' = Busy(q)
      /\ crossed' \subseteq Port /\ crossed \subseteq crossed'
      /\ Busy(p) # {} => p \in crossed'
  BY <1>1, <1>2 DEF UnderWay, Busy, Meets
<1>4. TypeInv'
  <2>1. forwards' \in [Port -> Seq(Target)] /\ entries' \in [Port -> Anything]
    BY <1>1, <1>2, ClosedType
  <2>2. promise' \in [Port -> SUBSET Anything] BY <1>1, <1>2
  <2> QED BY <1>1, <1>3, <2>1, <2>2 DEF BInv, TypeInv
<1>5. StageInv' BY <1>1 DEF BInv, StageInv
<1>6. CallsInv' BY <1>1, <1>3 DEF BInv, CallsInv
<1>7. OneCallInv' BY <1>1, <1>3 DEF BInv, OneCallInv
<1>8. RelayInv'
  <2>1. ASSUME NEW q \in Port \ crossed'
        PROVE  /\ forwards'[q] = Just(entries'[q]) /\ entries'[q] \in promise'[q]
               /\ Busy(q)' # {} => entries'[q] = None /\ promise'[q] = Anything
    <3>1. /\ q \notin crossed /\ forwards[q] = Just(entries[q]) /\ entries[q] \in promise[q]
          /\ Busy(q) # {} => entries[q] = None /\ promise[q] = Anything
      BY <1>1, <1>3 DEF BInv, RelayInv
    <3>2. CASE q = p BY <1>1, <1>2, <1>3, <3>1, <3>2, ClosedType DEF Just
    <3>3. CASE q # p BY <1>1, <1>2, <1>3, <3>1, <3>3
    <3> QED BY <3>2, <3>3
  <2>2. ASSUME NEW q \in Port, entries'[q] # None PROVE forwards'[q] # <<>>
    BY <1>1, <1>2, <2>2 DEF BInv, RelayInv
  <2> QED BY <1>1, <2>1, <2>2 DEF RelayInv
<1> QED BY <1>1, <1>4, <1>5, <1>6, <1>7, <1>8, OfOthers DEF BInv

LEMMA RelayDestroyKeeps ==
  ASSUME BInv, RelayDestroy, UNCHANGED iptablesVars
  PROVE  BInv'
<1>1. /\ chosen = "relay" /\ chosen' = chosen /\ life = "ready" /\ life' = "destroyed"
      /\ forwards' = [p \in Port |-> Closed(p)] /\ entries' = Nothing
      /\ calls' = calls /\ promise' = promise
      /\ crossed' = crossed \cup {calls[s].port : s \in UnderWay}
      /\ chain' = chain /\ closing' = closing
  BY DEF RelayDestroy, selection, iptablesVars
<1>2. UnderWay' = UnderWay /\ \A q : Busy(q)' = Busy(q) BY <1>1 DEF UnderWay, Busy
<1>3. \A s \in UnderWay : calls[s].port \in Port BY CallType DEF BInv
<1>4. TypeInv'
  <2>1. forwards' \in [Port -> Seq(Target)] BY <1>1, ClosedType
  <2> QED BY <1>1, <1>3, <2>1, NothingType DEF BInv, TypeInv
<1>5. StageInv' BY <1>1 DEF BInv, StageInv
<1>6. CallsInv' BY <1>1, <1>2 DEF BInv, CallsInv
<1>7. OneCallInv' BY <1>1 DEF OneCallInv
<1>8. RelayInv'
  <2>1. ASSUME NEW p \in Port \ crossed' PROVE forwards'[p] = <<>> /\ Busy(p)' = {}
    <3>1. forwards[p] = Just(entries[p]) BY <1>1 DEF BInv, RelayInv
    <3> QED BY <1>1, <1>2, <3>1, ClosedType DEF Busy
  <2> QED BY <1>1, <2>1, NothingType DEF RelayInv
<1> QED BY <1>1, <1>4, <1>5, <1>6, <1>7, <1>8, OfOthers DEF BInv
-----------------------------------------------------------------------------
(* pf.                                                                     *)

LEMMA LoadedIs ==
  ASSUME NEW rules \in [Port -> Anything]
  PROVE  /\ Loaded(rules) \in [Port -> Seq(Target)]
         /\ \A p \in Port : Loaded(rules)[p] = Just(rules[p])
<1>1. \A p \in Port : Loaded(rules)[p] = Just(rules[p]) BY DEF Loaded, Just
<1>2. ASSUME NEW p \in Port PROVE Just(rules[p]) \in Seq(Target)
  <2>1. rules[p] \in Anything OBVIOUS
  <2> QED BY <2>1, JustType
<1>3. Loaded(rules) \in [Port -> Seq(Target)] BY <1>1, <1>2 DEF Loaded
<1> QED BY <1>1, <1>3

LEMMA PfStartKeeps ==
  ASSUME BInv, PfStart, UNCHANGED <<relayVars, iptablesVars>>
  PROVE  BInv'
<1>1. /\ chosen = "pf" /\ chosen' = chosen /\ life = "starting" /\ life' \in {"ready", "failed"}
      /\ forwards' \in {forwards, Loaded(Nothing)} /\ entries' = entries /\ calls' = calls
      /\ promise' = promise /\ crossed' = crossed /\ chain' = chain /\ closing' = closing
  BY DEF PfStart, Forget, iptablesVars
<1>2. /\ forwards = [p \in Port |-> <<>>] /\ entries = Nothing
      /\ promise = [p \in Port |-> Anything] /\ UnderWay = {}
  BY <1>1 DEF BInv, StageInv
<1>3. UnderWay' = {} /\ \A p : Busy(p)' = {} BY <1>1, <1>2 DEF UnderWay, Busy
<1>4. forwards' \in [Port -> Seq(Target)] /\ \A p \in Port : forwards'[p] = <<>>
  BY <1>1, <1>2, LoadedIs, NothingType DEF BInv, TypeInv, Just
<1>5. TypeInv' BY <1>1, <1>4 DEF BInv, TypeInv
<1>6. StageInv' BY <1>1, <1>3 DEF BInv, StageInv
<1>7. CallsInv' BY <1>3 DEF CallsInv
<1>8. PfInv'
  <2>1. \A p \in Port : entries'[p] = None /\ promise'[p] = Anything BY <1>1, <1>2, NothingType
  <2> QED BY <1>1, <1>3, <1>4, <2>1 DEF PfInv, Just, Anything
<1> QED BY <1>1, <1>5, <1>6, <1>7, <1>8, OfOthers DEF BInv

\* add() and a remove() that has something to do.
LEMMA PfChangeKeeps ==
  ASSUME BInv, chosen = "pf", life = "ready",
         NEW s \in Slot, NEW p \in Port, NEW t \in Anything, NEW kind \in {"add", "remove"},
         kind = "add" => t \in Target, kind = "remove" => t = None,
         entries' = [entries EXCEPT ![p] = t],
         Begin(s, NewCall(kind, p, t, "load", entries[p], entries')),
         crossed' = Together(p),
         UNCHANGED <<selection, life, forwards, iptablesVars>>
  PROVE  BInv'
<1> DEFINE c == NewCall(kind, p, t, "load", entries[p], entries')
<1>1. /\ chosen' = chosen /\ life' = life /\ forwards' = forwards
      /\ chain' = chain /\ closing' = closing
  BY DEF selection, iptablesVars
<1>2. /\ entries \in [Port -> Anything] /\ forwards \in [Port -> Seq(Target)]
      /\ crossed \subseteq Port
      /\ entries' \in [Port -> Anything] /\ entries'[p] = t
      /\ \A q \in Port \ {p} : entries'[q] = entries[q]
  BY DEF BInv, TypeInv
<1>3. /\ c \in Call /\ c.kind = kind /\ c.port = p /\ c.target = t /\ c.step = "load"
      /\ c.old = entries[p] /\ c.load = entries'
  <2>1. entries[p] \in Anything /\ entries' \in [Port -> Anything] BY <1>2
  <2>2. "load" \in {"bind6", "bind4", "load", "list", "delete", "write"} OBVIOUS
  <2>3. PICK load \in [Port -> Anything] : load = entries' BY <2>1
  <2>4. LET d == NewCall(kind, p, t, "load", entries[p], load) IN
        /\ d \in Call /\ d.kind = kind /\ d.port = p /\ d.target = t /\ d.step = "load"
        /\ d.old = entries[p] /\ d.load = load
    BY <2>1, <2>2, NewCallType
  <2> QED BY <2>3, <2>4
<1>4. c.alone <=> UnderWay = {} BY DEF NewCall, UnderWay
<1>5. Begin(s, c) OBVIOUS
<1> HIDE DEF c
<1>6. /\ calls' \in [Slot -> Call \cup {None}] /\ promise' \in [Port -> SUBSET Anything]
      /\ s \notin UnderWay /\ UnderWay' = UnderWay \cup {s} /\ calls'[s] = c
      /\ \A r \in UnderWay : Like(calls'[r], calls[r]) /\ ~calls'[r].alone
      /\ promise'[p] = Anything /\ \A q \in Port \ {p} : promise'[q] = promise[q]
      /\ \A q : Busy(q)' = IF q = p THEN Busy(q) \cup {s} ELSE Busy(q)
  BY <1>3, <1>5, BeginEffect DEF BInv
<1>7. /\ crossed \subseteq crossed' /\ crossed' \subseteq Port
      /\ UnderWay # {} => p \in crossed' /\ \A r \in UnderWay : calls[r].port \in crossed'
  BY <1>2, CallType DEF Together, BInv
<1>8. TypeInv' BY <1>1, <1>2, <1>6, <1>7 DEF BInv, TypeInv
<1>9. StageInv' BY <1>1 DEF BInv, StageInv
<1>10. CallsInv' BY <1>1, <1>3, <1>6 DEF BInv, CallsInv, Like
<1>11. ASSUME NEW r \in UnderWay' PROVE PfLoadInv(r)'
  <2>1. CASE r = s
    <3>1. c.port \notin crossed' => forwards'[c.port] = Just(c.old) /\ promise'[c.port] = Anything
      <4> SUFFICES ASSUME p \notin crossed' PROVE forwards[p] = Just(entries[p])
        BY <1>1, <1>3, <1>6
      <4>1. Busy(p) = {} /\ p \notin crossed BY <1>7 DEF Busy
      <4> QED BY <4>1 DEF BInv, PfInv
    <3>2. c.alone => UnderWay' = {s} BY <1>4, <1>6
    <3>3. ~c.alone => p \in crossed' BY <1>4, <1>7
    <3> QED BY <1>2, <1>3, <1>6, <2>1, <3>1, <3>2, <3>3 DEF PfLoadInv
  <2>2. CASE r \in UnderWay
    <3>1. Like(calls'[r], calls[r]) /\ ~calls'[r].alone BY <1>6, <2>2
    <3>2. PfLoadInv(r) BY <2>2 DEF BInv, PfInv
    <3>3. calls[r].port \in crossed' /\ p \in crossed' BY <1>7, <2>2
    <3> QED BY <1>2, <1>7, <3>1, <3>2, <3>3 DEF PfLoadInv, Like
  <2> QED BY <1>6, <2>1, <2>2
<1>12. PfInv'
  <2>1. ASSUME NEW q \in Port \ crossed', Busy(q)' = {}
        PROVE  forwards'[q] = Just(entries'[q]) /\ entries'[q] \in promise'[q]
    <3>1. q # p /\ Busy(q) = {} /\ q \notin crossed BY <1>6, <1>7, <2>1
    <3>2. forwards[q] = Just(entries[q]) /\ entries[q] \in promise[q] BY <3>1 DEF BInv, PfInv
    <3> QED BY <1>1, <1>2, <1>6, <3>1, <3>2
  <2> QED BY <1>1, <1>11, <2>1 DEF PfInv
<1> QED BY <1>1, <1>8, <1>9, <1>10, <1>12, OfOthers DEF BInv

LEMMA PfAddKeeps ==
  ASSUME BInv, NEW s \in Slot, NEW p \in Port, NEW t \in Target, PfAdd(s, p, t),
         UNCHANGED <<relayVars, iptablesVars>>
  PROVE  BInv'
<1>1. /\ chosen = "pf" /\ life = "ready" /\ entries' = [entries EXCEPT ![p] = t]
      /\ Begin(s, NewCall("add", p, t, "load", entries[p], entries'))
      /\ crossed' = Together(p)
      /\ UNCHANGED <<selection, life, forwards, iptablesVars>>
  BY DEF PfAdd, PfActive
<1>2. t \in Anything BY DEF Anything
<1> QED BY <1>1, <1>2, PfChangeKeeps

LEMMA PfRemoveKeeps ==
  ASSUME BInv, NEW s \in Slot, NEW p \in Port, PfRemove(s, p),
         UNCHANGED <<relayVars, iptablesVars>>
  PROVE  BInv'
<1>1. chosen = "pf" /\ life = "ready" /\ crossed' = Together(p)
      /\ UNCHANGED <<selection, life, iptablesVars>>
  BY DEF PfRemove, PfActive
<1>2. CASE entries[p] # None
  <2>1. /\ entries' = [entries EXCEPT ![p] = None]
        /\ Begin(s, NewCall("remove", p, None, "load", entries[p], entries'))
        /\ UNCHANGED <<selection, life, forwards, iptablesVars>>
    BY <1>1, <1>2 DEF PfRemove
  <2>2. None \in Anything BY DEF Anything
  <2> QED BY <1>1, <2>1, <2>2, PfChangeKeeps
<1>3. CASE entries[p] = None
  <2>1. /\ promise' = [promise EXCEPT ![p] = {None}] /\ forwards' = forwards /\ entries' = entries
        /\ calls' = calls /\ chosen' = chosen /\ life' = life
        /\ chain' = chain /\ closing' = closing
    BY <1>1, <1>3 DEF PfRemove, AnswerNow, selection, iptablesVars
  <2>2. UnderWay' = UnderWay /\ \A q : Busy(q)' = Busy(q) BY <2>1 DEF UnderWay, Busy
  <2>3. promise \in [Port -> SUBSET Anything] /\ crossed \subseteq Port /\ None \in Anything
    BY DEF BInv, TypeInv, Anything
  <2>4. /\ crossed \subseteq crossed' /\ crossed' \subseteq Port
        /\ UnderWay # {} => p \in crossed' /\ \A r \in UnderWay : calls[r].port \in crossed'
    BY <1>1, <2>3, CallType DEF Together, BInv
  <2>5. TypeInv' BY <2>1, <2>3, <2>4 DEF BInv, TypeInv
  <2>6. StageInv' BY <1>1, <2>1 DEF BInv, StageInv
  <2>7. CallsInv' BY <2>1, <2>2 DEF BInv, CallsInv
  <2>8. ASSUME NEW r \in UnderWay PROVE PfLoadInv(r)'
    <3>1. PfLoadInv(r) BY <1>1 DEF BInv, PfInv
    <3> QED BY <2>1, <2>2, <2>4, <3>1 DEF PfLoadInv
  <2>9. ASSUME NEW q \in Port \ crossed', Busy(q)' = {}
        PROVE  forwards'[q] = Just(entries'[q]) /\ entries'[q] \in promise'[q]
    <3>1. forwards[q] = Just(entries[q]) /\ entries[q] \in promise[q]
      BY <1>1, <2>2, <2>4, <2>9 DEF BInv, PfInv
    <3> QED BY <1>3, <2>1, <2>3, <3>1
  <2>10. PfInv' BY <1>1, <2>1, <2>2, <2>8, <2>9 DEF PfInv
  <2> QED BY <1>1, <2>1, <2>5, <2>6, <2>7, <2>10, OfOthers DEF BInv
<1> QED BY <1>2, <1>3

\* No port is spared by a load that lands behind destroy().
LEMMA PfAfterDestroy ==
  ASSUME BInv, chosen = "pf", life = "destroyed", NEW s \in UnderWay
  PROVE  Port \subseteq crossed
BY DEF BInv, PfInv

LEMMA PfLoadedKeeps ==
  ASSUME BInv, NEW s \in Slot, PfLoaded(s), UNCHANGED <<relayVars, iptablesVars>>
  PROVE  BInv'
<1> DEFINE c == calls[s]
<1>1. /\ chosen' = chosen /\ life' = life /\ s \in UnderWay /\ c.step = "load"
      /\ forwards' = Loaded(c.load) /\ entries' = entries /\ Answer(s, TRUE)
      /\ crossed' = IF c.alone /\ life = "ready" THEN crossed \ {c.port} ELSE crossed
      /\ chain' = chain /\ closing' = closing
  BY DEF PfLoaded, Loading, UnderWay, selection, iptablesVars
<1>2. /\ chosen = "pf" /\ c.port \in Port /\ c.target \in Anything /\ c.load \in [Port -> Anything]
      /\ c.alone \in BOOLEAN
  BY <1>1, CallType DEF BInv, CallsInv
<1>3. life \in {"ready", "destroyed"} BY <1>1 DEF BInv, StageInv
<1>4. /\ calls' \in [Slot -> Call \cup {None}] /\ promise' \in [Port -> SUBSET Anything]
      /\ UnderWay' = UnderWay \ {s} /\ \A r \in UnderWay \ {s} : calls'[r] = calls[r]
      /\ promise'[c.port] = {c.target}
      /\ \A q \in Port \ {c.port} : promise'[q] = promise[q]
      /\ \A q : Busy(q)' = Busy(q) \ {s}
  BY <1>1, AnswerEffect DEF BInv
<1>5. forwards' \in [Port -> Seq(Target)] /\ \A q \in Port : forwards'[q] = Just(c.load[q])
  BY <1>1, <1>2, LoadedIs
<1>6. crossed' \subseteq Port BY <1>1 DEF BInv, TypeInv
<1>7. s \in Busy(c.port) /\ \A q : s \in Busy(q) => q = c.port BY <1>1 DEF Busy
<1> HIDE DEF c
<1>8. TypeInv' BY <1>1, <1>4, <1>5, <1>6 DEF BInv, TypeInv
<1>9. StageInv' BY <1>1, <1>3, <1>4 DEF BInv, StageInv
<1>10. CallsInv' BY <1>1, <1>4 DEF BInv, CallsInv
<1>11. PfInv'
  <2>1. CASE life = "ready"
    <3>1. /\ c.load[c.port] = c.target /\ (c.alone => UnderWay = {s} /\ c.load = entries)
          /\ ~c.alone => c.port \in crossed
          /\ \A p \in Port \ crossed : p # c.port => c.load[p] = entries[p]
      BY <1>1, <1>2, <2>1 DEF BInv, PfInv, PfLoadInv, c
    <3>2. ASSUME NEW r \in UnderWay' PROVE PfLoadInv(r)'
      <4>1. r \in UnderWay /\ r # s /\ calls'[r] = calls[r] /\ ~c.alone BY <1>4, <3>1, <3>2
      <4>2. crossed' = crossed BY <1>1, <4>1
      <4>3. PfLoadInv(r) BY <1>2, <2>1, <4>1 DEF BInv, PfInv
      <4>4. calls[r].port \in crossed BY <1>1, <4>1, <4>3 DEF PfLoadInv
      <4>5. ~calls[r].alone BY <1>1, <4>1, <4>3 DEF PfLoadInv
      <4> QED BY <1>1, <4>1, <4>2, <4>3, <4>4, <4>5 DEF PfLoadInv
    <3>3. ASSUME NEW q \in Port \ crossed', Busy(q)' = {}
          PROVE  forwards'[q] = Just(entries'[q]) /\ entries'[q] \in promise'[q]
      <4>1. c.load[q] = entries[q]
        BY <1>1, <2>1, <3>1, <3>3
      <4>2. CASE q = c.port BY <1>1, <1>4, <1>5, <3>1, <4>1, <4>2
      <4>3. CASE q # c.port
        <5>1. q \notin crossed /\ Busy(q) = {} BY <1>1, <1>4, <1>7, <3>3, <4>3
        <5>2. entries[q] \in promise[q] BY <1>2, <2>1, <5>1 DEF BInv, PfInv
        <5> QED BY <1>1, <1>4, <1>5, <4>1, <4>3, <5>2
      <4> QED BY <4>2, <4>3
    <3> QED BY <1>1, <2>1, <3>2, <3>3 DEF PfInv
  <2>2. CASE life = "destroyed"
    <3>1. Port \subseteq crossed' BY <1>1, <1>2, <2>2, PfAfterDestroy
    <3> QED BY <1>1, <2>2, <3>1 DEF PfInv
  <2> QED BY <1>3, <2>1, <2>2
<1> QED BY <1>1, <1>2, <1>8, <1>9, <1>10, <1>11, OfOthers DEF BInv

LEMMA PfLoadFailsKeeps ==
  ASSUME BInv, NEW s \in Slot, PfLoadFails(s), UNCHANGED <<relayVars, iptablesVars>>
  PROVE  BInv'
<1> DEFINE c == calls[s]
<1>1. /\ chosen' = chosen /\ life' = life /\ s \in UnderWay /\ c.step = "load"
      /\ entries' = [entries EXCEPT ![c.port] = c.old] /\ Answer(s, FALSE)
      /\ \/ forwards' = forwards /\ crossed' = crossed
         \/ forwards' = Loaded(c.load) /\ crossed' = crossed \cup {c.port}
      /\ chain' = chain /\ closing' = closing
  BY DEF PfLoadFails, Loading, UnderWay, selection, iptablesVars
<1>2. /\ chosen = "pf" /\ c.port \in Port /\ c.old \in Anything /\ c.load \in [Port -> Anything]
  BY <1>1, CallType DEF BInv, CallsInv
<1>3. life \in {"ready", "destroyed"} BY <1>1 DEF BInv, StageInv
<1>4. /\ calls' \in [Slot -> Call \cup {None}] /\ promise' \in [Port -> SUBSET Anything]
      /\ UnderWay' = UnderWay \ {s} /\ \A r \in UnderWay \ {s} : calls'[r] = calls[r]
      /\ promise'[c.port] = Anything
      /\ \A q \in Port \ {c.port} : promise'[q] = promise[q]
      /\ \A q : Busy(q)' = Busy(q) \ {s}
  BY <1>1, AnswerEffect DEF BInv
<1>5. /\ Loaded(c.load) \in [Port -> Seq(Target)]
      /\ \A q \in Port : Loaded(c.load)[q] = Just(c.load[q])
  BY <1>2, LoadedIs
<1>6. /\ entries \in [Port -> Anything] /\ forwards \in [Port -> Seq(Target)]
      /\ crossed \subseteq Port
      /\ crossed \subseteq crossed' /\ crossed' \subseteq Port
  BY <1>1, <1>2 DEF BInv, TypeInv
<1>7. s \in Busy(c.port) /\ \A q : s \in Busy(q) => q = c.port BY <1>1 DEF Busy
<1> HIDE DEF c
<1>8. /\ entries' \in [Port -> Anything] /\ entries'[c.port] = c.old
      /\ \A q \in Port \ {c.port} : entries'[q] = entries[q]
  BY <1>1, <1>2, <1>6
<1>9. TypeInv'
  <2>1. forwards' \in [Port -> Seq(Target)] BY <1>1, <1>5, <1>6
  <2> QED BY <1>1, <1>4, <1>6, <1>8, <2>1 DEF BInv, TypeInv
<1>10. StageInv' BY <1>1, <1>3, <1>4 DEF BInv, StageInv
<1>11. CallsInv' BY <1>1, <1>4 DEF BInv, CallsInv
<1>12. PfInv'
  <2>1. CASE life = "ready"
    <3>1. /\ c.alone => UnderWay = {s}
          /\ ~c.alone => c.port \in crossed
          /\ \A p \in Port \ crossed : p # c.port => c.load[p] = entries[p]
          /\ c.port \notin crossed => forwards[c.port] = Just(c.old)
      BY <1>1, <1>2, <2>1 DEF BInv, PfInv, PfLoadInv, c
    <3>2. ASSUME NEW r \in UnderWay' PROVE PfLoadInv(r)'
      <4>1. r \in UnderWay /\ r # s /\ calls'[r] = calls[r] /\ c.port \in crossed
        BY <1>4, <3>1, <3>2
      <4>2. PfLoadInv(r) BY <1>2, <2>1, <4>1 DEF BInv, PfInv
      <4>3. ~calls[r].alone /\ calls[r].port \in crossed BY <1>1, <4>1, <4>2 DEF PfLoadInv
      <4>4. \A q \in Port \ crossed' : q \notin crossed /\ entries'[q] = entries[q]
        BY <1>6, <1>8, <4>1
      <4> QED BY <1>6, <4>1, <4>2, <4>3, <4>4 DEF PfLoadInv
    <3>3. ASSUME NEW q \in Port \ crossed', Busy(q)' = {}
          PROVE  forwards'[q] = Just(entries'[q]) /\ entries'[q] \in promise'[q]
      <4>1. q \notin crossed BY <1>6
      <4>2. CASE q = c.port
        <5>1. forwards' = forwards BY <1>1, <3>3, <4>2
        <5> QED BY <1>2, <1>4, <1>8, <3>1, <4>1, <4>2, <5>1
      <4>3. CASE q # c.port
        <5>1. Busy(q) = {} BY <1>4, <1>7, <3>3, <4>3
        <5>2. forwards[q] = Just(entries[q]) /\ entries[q] \in promise[q]
          BY <1>2, <2>1, <4>1, <5>1 DEF BInv, PfInv
        <5>3. forwards'[q] = Just(entries[q]) BY <1>1, <1>5, <3>1, <4>1, <4>3, <5>2
        <5> QED BY <1>4, <1>8, <4>3, <5>2, <5>3
      <4> QED BY <4>2, <4>3
    <3> QED BY <1>1, <2>1, <3>2, <3>3 DEF PfInv
  <2>2. CASE life = "destroyed"
    <3>1. Port \subseteq crossed' BY <1>1, <1>2, <1>6, <2>2, PfAfterDestroy
    <3> QED BY <1>1, <2>2, <3>1 DEF PfInv
  <2> QED BY <1>3, <2>1, <2>2
<1> QED BY <1>1, <1>2, <1>9, <1>10, <1>11, <1>12, OfOthers DEF BInv

LEMMA PfDestroyKeeps ==
  ASSUME BInv, PfDestroy, UNCHANGED <<relayVars, iptablesVars>>
  PROVE  BInv'
<1>1. /\ chosen = "pf" /\ chosen' = chosen /\ life = "ready" /\ life' = "destroyed"
      /\ entries' = Nothing /\ calls' = calls /\ promise' = promise
      /\ \/ forwards' = Loaded(Nothing) /\ crossed' = IF UnderWay = {} THEN {} ELSE Port
         \/ forwards' = forwards /\ crossed' = Port
      /\ chain' = chain /\ closing' = closing
  BY DEF PfDestroy, PfActive, selection, iptablesVars
<1>2. UnderWay' = UnderWay BY <1>1 DEF UnderWay
<1>3. /\ Loaded(Nothing) \in [Port -> Seq(Target)] /\ \A p \in Port : Loaded(Nothing)[p] = <<>>
  BY LoadedIs, NothingType DEF Just
<1>4. TypeInv' BY <1>1, <1>3, NothingType DEF BInv, TypeInv
<1>5. StageInv' BY <1>1 DEF BInv, StageInv
<1>6. CallsInv' BY <1>1, <1>2 DEF BInv, CallsInv
<1>7. PfInv' BY <1>1, <1>2, <1>3 DEF PfInv
<1> QED BY <1>1, <1>4, <1>5, <1>6, <1>7, OfOthers DEF BInv

-----------------------------------------------------------------------------
(* iptables.                                                               *)

\* A set of natural numbers has a least one.
LEMMA LeastIndex ==
  ASSUME NEW T \in SUBSET Nat, T # {}
  PROVE  \E k \in T : \A j \in T : k <= j
<1>1. OpToRel(<, Nat) = {ss \in Nat \X Nat : ss[1] < ss[2]} BY DEF OpToRel
<1>2. PICK R : R = {ss \in Nat \X Nat : ss[1] < ss[2]} /\ IsWellFoundedOn(R, Nat)
  BY <1>1, NatLessThanWellFounded, Zenon
<1>3. PICK k \in T : \A j \in T : <<j, k>> \notin R
  BY <1>2, WFMin, Zenon
<1>4. \A j \in T : <<j, k>> \in Nat \X Nat /\ <<j, k>>[1] = j /\ <<j, k>>[2] = k OBVIOUS
<1>5. \A j \in T : ~(j < k) BY <1>2, <1>3, <1>4, Zenon
<1> QED BY <1>5

\* A deletion makes nothing up, and empties a chain of one rule.
LEMMA WithoutType ==
  ASSUME NEW S, NEW rules \in Seq(S), NEW t
  PROVE  Without(rules, t) \in Seq(S)
<1> DEFINE First(i) == rules[i] = t /\ \A j \in 1 .. i - 1 : rules[j] # t
           k == CHOOSE i \in DOMAIN rules : First(i)
<1>1. CASE \A i \in DOMAIN rules : rules[i] # t BY <1>1 DEF Without
<1>2. CASE \E i \in DOMAIN rules : rules[i] = t
  <2>1. \E i \in DOMAIN rules : First(i)
    <3> DEFINE T == {i \in DOMAIN rules : rules[i] = t}
    <3>1. T \in SUBSET Nat /\ T # {} BY <1>2
    <3>2. PICK i \in T : \A j \in T : i <= j BY <3>1, LeastIndex
    <3>3. i \in DOMAIN rules /\ DOMAIN rules = 1 .. Len(rules) /\ Len(rules) \in Nat OBVIOUS
    <3>4. \A j \in 1 .. i - 1 : j \in DOMAIN rules /\ ~(i <= j) BY <3>3
    <3> QED BY <3>2, <3>3, <3>4
  <2>2. k \in DOMAIN rules BY <2>1
  <2> HIDE DEF k
  <2>3. k \in 1 .. Len(rules) /\ Len(rules) \in Nat BY <2>2
  <2>4. SubSeq(rules, 1, k - 1) \in Seq(S)
    <3>1. \A i \in 1 .. k - 1 : rules[i] \in S BY <2>3
    <3>2. 1 \in Int /\ k - 1 \in Int BY <2>3
    <3> QED BY <3>1, <3>2, SubSeqProperties
  <2>5. SubSeq(rules, k + 1, Len(rules)) \in Seq(S)
    <3>1. \A i \in k + 1 .. Len(rules) : rules[i] \in S BY <2>3
    <3>2. k + 1 \in Int /\ Len(rules) \in Int BY <2>3
    <3> QED BY <3>1, <3>2, SubSeqProperties
  <2>6. Without(rules, t) = SubSeq(rules, 1, k - 1) \o SubSeq(rules, k + 1, Len(rules))
    BY <1>2 DEF Without, k
  <2> QED BY <2>4, <2>5, <2>6, ConcatProperties
<1> QED BY <1>1, <1>2

LEMMA WithoutOne ==
  ASSUME NEW t
  PROVE  Without(<<t>>, t) = <<>>
<1> DEFINE k == CHOOSE i \in DOMAIN <<t>> : <<t>>[i] = t /\ \A j \in 1 .. i - 1 : <<t>>[j] # t
<1>1. DOMAIN <<t>> = {1} /\ <<t>>[1] = t /\ Len(<<t>>) = 1 /\ 1 .. 1 - 1 = {} OBVIOUS
<1>2. k = 1 BY <1>1
<1>3. Without(<<t>>, t) = SubSeq(<<t>>, 1, k - 1) \o SubSeq(<<t>>, k + 1, Len(<<t>>))
  BY <1>1 DEF Without
<1> HIDE DEF k
<1>4. SubSeq(<<t>>, 1, 0) = <<>> /\ SubSeq(<<t>>, 2, 1) = <<>> BY SubSeqEmpty
<1> QED BY <1>1, <1>2, <1>3, <1>4, ConcatEmptySeq

LEMMA IptStartKeeps ==
  ASSUME BInv, IptStart, UNCHANGED relayVars
  PROVE  BInv'
<1>1. /\ chosen = "iptables" /\ chosen' = chosen /\ life = "starting"
      /\ \/ life' = "ready" /\ chain' = "hooked"
         \/ life' = "failed" /\ chain' \in {"unhooked", chain}
      /\ forwards' \in Leftover /\ entries' = entries /\ calls' = calls
      /\ promise' = promise /\ crossed' = crossed /\ closing' = closing
  BY DEF IptStart, Forget
<1>2. entries = Nothing /\ promise = [p \in Port |-> Anything] /\ UnderWay = {}
  BY <1>1 DEF BInv, StageInv
<1>3. UnderWay' = {} /\ \A p : Busy(p)' = {} BY <1>1, <1>2 DEF UnderWay, Busy
<1>4. ASSUME NEW p \in Port
      PROVE  forwards'[p] \in Seq(Target) /\ \E t \in Anything : forwards'[p] = Just(t)
  <2>1. forwards'[p] \in {<<>>} \cup {<<t>> : t \in Target} BY <1>1 DEF Leftover
  <2>2. CASE forwards'[p] = <<>>
    <3>1. None \in Anything /\ Just(None) = <<>> BY DEF Anything, Just
    <3> QED BY <2>2, <3>1
  <2>3. ASSUME NEW t \in Target, forwards'[p] = <<t>>
        PROVE  forwards'[p] \in Seq(Target) /\ \E u \in Anything : forwards'[p] = Just(u)
    <3>1. t \in Anything /\ Just(t) = <<t>> BY EnforceAssumption DEF Anything, Just
    <3> QED BY <2>3, <3>1
  <2> QED BY <2>1, <2>2, <2>3
<1>5. TypeInv'
  <2>1. forwards' \in [Port -> Seq(Target)]
    <3>1. DOMAIN forwards' = Port /\ forwards' = [p \in Port |-> forwards'[p]]
      BY <1>1 DEF Leftover
    <3> QED BY <1>4, <3>1
  <2> QED BY <1>1, <2>1 DEF BInv, TypeInv
<1>6. StageInv' BY <1>1, <1>3 DEF BInv, StageInv
<1>7. CallsInv' /\ OneCallInv' BY <1>3 DEF CallsInv, OneCallInv
<1>8. IptInv'
  <2>1. \A p \in Port : entries'[p] = None /\ promise'[p] = Anything BY <1>1, <1>2, NothingType
  <2> QED BY <1>1, <1>3, <1>4, <2>1 DEF IptInv
<1> QED BY <1>1, <1>5, <1>6, <1>7, <1>8, OfOthers DEF BInv

\* A step takes nothing from the promises about the ports it does not touch.
LEMMA IptSame ==
  ASSUME NEW r \in UnderWay, IptStepInv(r), calls'[r].port = calls[r].port,
         calls'[r].step = calls[r].step, calls'[r].old = calls[r].old,
         forwards'[calls[r].port] = forwards[calls[r].port],
         entries'[calls[r].port] = entries[calls[r].port],
         promise'[calls[r].port] = promise[calls[r].port]
  PROVE  IptStepInv(r)'
BY DEF IptStepInv

\* add() and remove() begin alike.
LEMMA IptBeginsKeeps ==
  ASSUME BInv, IptActive, NEW s \in Slot, NEW p \in Port, NEW t \in Anything,
         NEW kind \in {"add", "remove"},
         kind = "add" => t \in Target, kind = "remove" => t = None,
         Begin(s, NewCall(kind, p, t, FirstStep(p), entries[p], Nothing)),
         crossed' = Overlap(p),
         UNCHANGED <<selection, life, forwards, entries, iptablesVars>>
  PROVE  BInv'
<1> DEFINE c == NewCall(kind, p, t, FirstStep(p), entries[p], Nothing)
<1>1. /\ chosen = "iptables" /\ life = "ready" /\ chosen' = chosen /\ life' = life
      /\ forwards' = forwards /\ entries' = entries /\ chain' = chain /\ closing' = closing
  BY DEF IptActive, selection, iptablesVars
<1>2. crossed \subseteq Port /\ entries[p] \in Anything BY DEF BInv, TypeInv
<1>3. /\ c \in Call /\ c.kind = kind /\ c.port = p /\ c.target = t
      /\ c.step = FirstStep(p) /\ c.old = entries[p]
  <2>1. FirstStep(p) \in {"bind6", "bind4", "load", "list", "delete", "write"} BY DEF FirstStep
  <2> QED BY <1>2, <2>1, NothingType, NewCallType
<1>4. Begin(s, c) OBVIOUS
<1> HIDE DEF c
<1>5. /\ calls' \in [Slot -> Call \cup {None}] /\ promise' \in [Port -> SUBSET Anything]
      /\ s \notin UnderWay /\ UnderWay' = UnderWay \cup {s} /\ calls'[s] = c
      /\ \A r \in UnderWay : Like(calls'[r], calls[r])
      /\ promise'[p] = Anything /\ \A q \in Port \ {p} : promise'[q] = promise[q]
      /\ \A q : Busy(q)' = IF q = p THEN Busy(q) \cup {s} ELSE Busy(q)
  BY <1>3, <1>4, BeginEffect DEF BInv
<1>6. /\ crossed \subseteq crossed' /\ crossed' \subseteq Port /\ (Busy(p) # {} => p \in crossed')
  BY <1>2 DEF Overlap
<1>7. TypeInv' BY <1>1, <1>5, <1>6 DEF BInv, TypeInv
<1>8. StageInv' BY <1>1 DEF BInv, StageInv
<1>9. CallsInv'
  <2>1. /\ c.step \in {"list", "delete"} /\ (c.step = "delete" => c.old # None)
        /\ (c.kind = "add" => c.target \in Target) /\ (c.kind = "remove" => c.target = None)
    BY <1>3 DEF FirstStep
  <2> QED BY <1>1, <1>5, <2>1 DEF BInv, CallsInv, Like
<1>10. \A r \in UnderWay : calls'[r].port = p => p \in crossed'
  BY <1>5, <1>6 DEF Busy, Like
<1>11. OneCallInv'
  <2> SUFFICES ASSUME NEW a \in UnderWay', NEW b \in UnderWay', a # b,
                      calls'[a].port = calls'[b].port
               PROVE  calls'[a].port \in crossed'
    BY DEF OneCallInv
  <2>1. CASE a \in UnderWay /\ b \in UnderWay
    <3>1. calls[a].port = calls[b].port /\ calls'[a].port = calls[a].port
      BY <1>5, <2>1 DEF Like
    <3> QED BY <1>1, <1>6, <2>1, <3>1 DEF BInv, OneCallInv
  <2>2. CASE a = s \/ b = s BY <1>3, <1>5, <1>10, <2>2
  <2> QED BY <1>5, <2>1, <2>2
<1>12. IptInv'
  <2>1. ASSUME NEW q \in Port \ crossed', Busy(q)' = {}
        PROVE  \E u \in Anything :
                 forwards'[q] = Just(u) /\ entries'[q] \in {None, u} /\ u \in promise'[q]
    <3>1. q # p /\ Busy(q) = {} /\ q \notin crossed BY <1>5, <1>6, <2>1
    <3>2. \E u \in Anything :
            forwards[q] = Just(u) /\ entries[q] \in {None, u} /\ u \in promise[q]
      BY <1>1, <3>1 DEF BInv, IptInv
    <3> QED BY <1>1, <1>5, <3>1, <3>2
  <2>2. ASSUME NEW r \in UnderWay', calls'[r].port \notin crossed' PROVE IptStepInv(r)'
    <3>1. CASE r = s
      <4>1. Busy(p) = {} /\ p \notin crossed BY <1>3, <1>5, <1>6, <2>2, <3>1
      <4>2. PICK u \in Anything : forwards[p] = Just(u) /\ entries[p] \in {None, u}
        BY <1>1, <4>1 DEF BInv, IptInv
      <4>3. c.step = "list" => entries[p] = None BY <1>3 DEF FirstStep
      <4>4. c.step = "delete" => u = c.old BY <1>3, <4>2 DEF FirstStep
      <4>5. c.step # "write" BY <1>3 DEF FirstStep
      <4> QED BY <1>1, <1>3, <1>5, <3>1, <4>2, <4>3, <4>4, <4>5 DEF IptStepInv
    <3>2. CASE r \in UnderWay
      <4>1. Like(calls'[r], calls[r]) /\ calls[r].port \in Port BY <1>5, <3>2, CallType DEF BInv
      <4>2. calls[r].port # p /\ calls[r].port \notin crossed
        BY <1>6, <1>10, <2>2, <3>2, <4>1 DEF Like
      <4>3. IptStepInv(r) BY <1>1, <3>2, <4>2 DEF BInv, IptInv
      <4> QED BY <1>1, <1>5, <3>2, <4>1, <4>2, <4>3, IptSame DEF Like
    <3> QED BY <1>5, <3>1, <3>2
  <2> QED BY <1>1, <2>1, <2>2 DEF IptInv
<1> QED BY <1>1, <1>7, <1>8, <1>9, <1>11, <1>12, OfOthers DEF BInv

LEMMA IptAddKeeps ==
  ASSUME BInv, NEW s \in Slot, NEW p \in Port, NEW t \in Target, IptAdd(s, p, t),
         UNCHANGED relayVars
  PROVE  BInv'
<1>1. /\ IptActive /\ crossed' = Overlap(p)
      /\ Begin(s, NewCall("add", p, t, FirstStep(p), entries[p], Nothing))
      /\ UNCHANGED <<selection, life, forwards, entries, iptablesVars>>
  BY DEF IptAdd
<1>2. t \in Anything BY DEF Anything
<1> QED BY <1>1, <1>2, IptBeginsKeeps

LEMMA IptRemoveKeeps ==
  ASSUME BInv, NEW s \in Slot, NEW p \in Port, IptRemove(s, p), UNCHANGED relayVars
  PROVE  BInv'
<1>1. /\ IptActive /\ crossed' = Overlap(p)
      /\ Begin(s, NewCall("remove", p, None, FirstStep(p), entries[p], Nothing))
      /\ UNCHANGED <<selection, life, forwards, entries, iptablesVars>>
  BY DEF IptRemove
<1>2. None \in Anything BY DEF Anything
<1> QED BY <1>1, <1>2, IptBeginsKeeps

\* While iptables waits for a command of a call, the other calls are not about
\* its port, or the port is in crossed.
LEMMA IptOthers ==
  ASSUME BInv, chosen = "iptables", life = "ready", NEW s \in UnderWay, NEW r \in UnderWay \ {s},
         calls[r].port \notin crossed
  PROVE  calls[r].port # calls[s].port /\ IptStepInv(r)
BY DEF BInv, OneCallInv, IptInv

\* While destroy() runs and the chain is hooked, a call under way is about a
\* port in crossed.
LEMMA IptDestroyed ==
  ASSUME BInv, chosen = "iptables", life = "destroyed", closing # "unhook", chain = "hooked",
         NEW s \in UnderWay
  PROVE  calls[s].port \in crossed
<1>1. calls[s].port \in Port BY CallType DEF BInv
<1>2. s \in Busy(calls[s].port) BY DEF Busy
<1> QED BY <1>1, <1>2 DEF BInv, IptInv

\* What the end of a removal is to find: nothing forwarded for its port, which
\* the table does not know.
LEMMA IptRemovedKeeps ==
  ASSUME BInv, NEW s \in UnderWay, chosen = "iptables", Removed(s),
         calls[s].step \in {"list", "delete"},
         forwards' \in [Port -> Seq(Target)], entries' \in [Port -> Anything],
         \A q \in Port \ {calls[s].port} : forwards'[q] = forwards[q] /\ entries'[q] = entries[q],
         crossed \subseteq crossed', crossed' \subseteq Port,
         life = "ready" /\ calls[s].port \notin crossed' =>
           forwards'[calls[s].port] = <<>> /\ entries'[calls[s].port] = None,
         UNCHANGED <<selection, life, iptablesVars>>
  PROVE  BInv'
<1> DEFINE p == calls[s].port
<1>1. /\ chosen' = chosen /\ life' = life /\ chain' = chain /\ closing' = closing
  BY DEF selection, iptablesVars
<1>2. life \in {"ready", "destroyed"} BY DEF BInv, StageInv
<1>3. s \in Busy(p) /\ p \in Port BY CallType DEF Busy, BInv
<1>4. None \in Anything /\ Just(None) = <<>> BY DEF Anything, Just
<1>5. ASSUME life = "destroyed", closing # "unhook", chain = "hooked", NEW q \in Port \ crossed'
      PROVE  q # p /\ Busy(q) = {} /\ (closing # "flush" => forwards'[q] = <<>>)
  <2>1. p \in crossed' BY <1>5, IptDestroyed
  <2>2. Busy(q) = {} /\ (closing # "flush" => forwards[q] = <<>>) BY <1>5 DEF BInv, IptInv
  <2> QED BY <2>1, <2>2
<1>6. CASE calls[s].kind = "remove"
  <2>1. Answer(s, TRUE) /\ calls[s].target = None BY <1>6 DEF Removed, BInv, CallsInv
  <2>2. /\ calls' \in [Slot -> Call \cup {None}] /\ promise' \in [Port -> SUBSET Anything]
        /\ UnderWay' = UnderWay \ {s} /\ \A r \in UnderWay \ {s} : calls'[r] = calls[r]
        /\ promise'[p] = {None} /\ \A q \in Port \ {p} : promise'[q] = promise[q]
        /\ \A q : Busy(q)' = Busy(q) \ {s}
    <3>1. TypeInv /\ TRUE \in BOOLEAN BY DEF BInv
    <3> QED BY <2>1, <3>1, AnswerEffect
  <2> HIDE DEF p
  <2>3. TypeInv' BY <1>1, <2>2 DEF BInv, TypeInv
  <2>4. StageInv' BY <1>1, <1>2, <2>2 DEF BInv, StageInv
  <2>5. CallsInv' /\ OneCallInv' BY <1>1, <2>2, AnsweredKeeps
  <2>6. ASSUME life = "ready", NEW q \in Port \ crossed', Busy(q)' = {}
        PROVE  \E u \in Anything :
                 forwards'[q] = Just(u) /\ entries'[q] \in {None, u} /\ u \in promise'[q]
    <3>1. CASE q = p BY <1>4, <2>2, <2>6, <3>1 DEF p
    <3>2. CASE q # p
      <4>1. Busy(q) = {} /\ q \notin crossed BY <2>2, <2>6, <3>2 DEF Busy, p
      <4>2. \E u \in Anything :
              forwards[q] = Just(u) /\ entries[q] \in {None, u} /\ u \in promise[q]
        BY <2>6, <4>1 DEF BInv, IptInv
      <4> QED BY <2>2, <3>2, <4>2 DEF p
    <3> QED BY <3>1, <3>2
  <2>7. ASSUME life = "ready", NEW r \in UnderWay', calls'[r].port \notin crossed'
        PROVE  IptStepInv(r)'
    <3>1. r \in UnderWay \ {s} /\ calls'[r] = calls[r] BY <2>2, <2>7
    <3>2. calls[r].port \notin crossed BY <2>7, <3>1
    <3>3. calls[r].port # p /\ IptStepInv(r) /\ calls[r].port \in Port
      BY <2>7, <3>1, <3>2, IptOthers, CallType DEF p, BInv
    <3> QED BY <2>2, <3>1, <3>3, IptSame DEF p
  <2>8. IptInv' BY <1>1, <1>5, <2>2, <2>6, <2>7 DEF IptInv
  <2> QED BY <1>1, <2>3, <2>4, <2>5, <2>8, OfOthers DEF BInv
<1>7. CASE calls[s].kind # "remove"
  <2> DEFINE d == [calls[s] EXCEPT !.step = "write", !.old = None]
  <2>1. calls[s].kind = "add" BY <1>7, CallType DEF BInv
  <2>2. calls' = [calls EXCEPT ![s] = d] /\ promise' = promise
    <3>1. /\ calls' = [calls EXCEPT ![s].step = "write", ![s].old = None]
          /\ promise' = promise
      BY <1>7 DEF Removed
    <3>2. s \in Slot /\ calls \in [Slot -> Call \cup {None}] BY DEF BInv, TypeInv, UnderWay
    <3> QED BY <3>1, <3>2
  <2>3. /\ d \in Call /\ d.port = p /\ d.kind = calls[s].kind /\ d.target = calls[s].target
        /\ d.step = "write"
    <3>1. calls[s] \in Call BY CallType DEF BInv
    <3> QED BY <1>4, <3>1 DEF Call
  <2> HIDE DEF d
  <2>4. /\ calls' \in [Slot -> Call \cup {None}] /\ UnderWay' = UnderWay
        /\ calls'[s] = d /\ \A r \in UnderWay \ {s} : calls'[r] = calls[r]
        /\ \A q : Busy(q)' = Busy(q)
    BY <2>2, <2>3, StepEffect DEF BInv
  <2> HIDE DEF p
  <2>5. TypeInv' BY <1>1, <2>2, <2>4 DEF BInv, TypeInv
  <2>6. StageInv' BY <1>1, <2>4, <2>2, <1>2 DEF BInv, StageInv
  <2>7. CallsInv' BY <1>1, <2>1, <2>3, <2>4 DEF BInv, CallsInv
  <2>8. OneCallInv'
    <3>1. \A r \in UnderWay : calls'[r].port = calls[r].port BY <2>3, <2>4 DEF p
    <3> QED BY <1>1, <2>4, <3>1 DEF BInv, OneCallInv
  <2>9. ASSUME life = "ready", NEW q \in Port \ crossed', Busy(q)' = {}
        PROVE  \E u \in Anything :
                 forwards'[q] = Just(u) /\ entries'[q] \in {None, u} /\ u \in promise'[q]
    <3>1. Busy(q) = {} /\ q \notin crossed /\ q # p BY <1>3, <2>4, <2>9
    <3>2. \E u \in Anything :
            forwards[q] = Just(u) /\ entries[q] \in {None, u} /\ u \in promise[q]
      BY <2>9, <3>1 DEF BInv, IptInv
    <3> QED BY <2>2, <3>1, <3>2 DEF p
  <2>10. ASSUME life = "ready", NEW r \in UnderWay', calls'[r].port \notin crossed'
         PROVE  IptStepInv(r)'
    <3>1. CASE r = s
      <4>1. p \notin crossed' BY <2>3, <2>4, <2>10, <3>1
      <4>2. IptStepInv(s) BY <2>10, <4>1 DEF BInv, IptInv, p
      <4>3. promise[p] = Anything BY <4>2 DEF IptStepInv, p
      <4> QED BY <2>2, <2>3, <2>4, <2>10, <3>1, <4>1, <4>3 DEF IptStepInv, p
    <3>2. CASE r # s
      <4>1. r \in UnderWay \ {s} /\ calls'[r] = calls[r] BY <2>4, <2>10, <3>2
      <4>2. calls[r].port \notin crossed BY <2>10, <4>1
      <4>3. calls[r].port # p /\ IptStepInv(r) /\ calls[r].port \in Port
        BY <2>10, <4>1, <4>2, IptOthers, CallType DEF p, BInv
      <4> QED BY <2>2, <4>1, <4>3, IptSame DEF p
    <3> QED BY <3>1, <3>2
  <2>11. IptInv' BY <1>1, <1>5, <2>4, <2>9, <2>10 DEF IptInv
  <2> QED BY <1>1, <2>5, <2>6, <2>7, <2>8, <2>11, OfOthers DEF BInv
<1> QED BY <1>6, <1>7

LEMMA IptListedKeeps ==
  ASSUME BInv, NEW s \in Slot, IptListed(s), UNCHANGED relayVars
  PROVE  BInv'
<1> DEFINE p     == calls[s].port
           rules == IF chain = "none" THEN <<>> ELSE forwards[p]
           d     == [calls[s] EXCEPT !.step = "delete", !.old = Head(rules)]
<1>1. /\ s \in UnderWay /\ calls[s].step = "list"
      /\ chosen' = chosen /\ life' = life /\ forwards' = forwards /\ entries' = entries
      /\ chain' = chain /\ closing' = closing /\ UNCHANGED <<selection, life, iptablesVars>>
      /\ \/ rules = <<>> /\ Removed(s) /\ crossed' = crossed
         \/ /\ rules # <<>> /\ promise' = promise /\ crossed' = crossed
            /\ calls' = [calls EXCEPT ![s].step = "delete", ![s].old = Head(rules)]
         \/ crossed' = crossed \cup {p} /\ Removed(s)
  BY DEF IptListed, At, UnderWay, selection, iptablesVars
<1>2. chosen = "iptables" /\ p \in Port BY <1>1, CallType DEF BInv, CallsInv
<1>3. life \in {"ready", "destroyed"} BY <1>1 DEF BInv, StageInv
<1>4. /\ forwards \in [Port -> Seq(Target)] /\ entries \in [Port -> Anything]
      /\ crossed \subseteq Port
  BY DEF BInv, TypeInv
<1>5. ASSUME life = "ready", p \notin crossed
      PROVE  rules = forwards[p] /\ entries[p] = None /\ \E t \in Anything : forwards[p] = Just(t)
  <2>1. chain = "hooked" BY <1>2, <1>5 DEF BInv, StageInv
  <2>2. IptStepInv(s) BY <1>1, <1>2, <1>5 DEF BInv, IptInv
  <2> QED BY <1>1, <2>1, <2>2 DEF IptStepInv
<1>6. CASE Removed(s) /\ ((rules = <<>> /\ crossed' = crossed) \/ crossed' = crossed \cup {p})
  <2>1. crossed \subseteq crossed' /\ crossed' \subseteq Port BY <1>2, <1>4, <1>6
  <2>2. life = "ready" /\ p \notin crossed' => forwards'[p] = <<>> /\ entries'[p] = None
    BY <1>1, <1>5, <1>6
  <2> QED BY <1>1, <1>2, <1>4, <1>6, <2>1, <2>2, IptRemovedKeeps
<1>7. CASE /\ rules # <<>> /\ promise' = promise /\ crossed' = crossed
           /\ calls' = [calls EXCEPT ![s].step = "delete", ![s].old = Head(rules)]
  <2>1. Head(rules) \in Target /\ rules = forwards[p] BY <1>2, <1>4, <1>7
  <2>2. Head(rules) \in Anything /\ Head(rules) # None BY <2>1, EnforceAssumption DEF Anything
  <2>3. /\ d \in Call /\ d.port = p /\ d.kind = calls[s].kind /\ d.target = calls[s].target
        /\ d.step = "delete" /\ d.old = Head(rules)
    <3>1. calls[s] \in Call BY <1>1, CallType DEF BInv
    <3> HIDE DEF rules
    <3> QED BY <2>2, <3>1 DEF Call
  <2>4. calls' = [calls EXCEPT ![s] = d]
    <3>1. calls \in [Slot -> Call \cup {None}] BY DEF BInv, TypeInv
    <3> HIDE DEF rules
    <3> QED BY <1>7, <3>1
  <2> HIDE DEF d
  <2>5. /\ calls' \in [Slot -> Call \cup {None}] /\ UnderWay' = UnderWay
        /\ calls'[s] = d /\ \A r \in UnderWay \ {s} : calls'[r] = calls[r]
        /\ \A q : Busy(q)' = Busy(q)
    BY <1>1, <2>3, <2>4, StepEffect DEF BInv
  <2>6. TypeInv' BY <1>1, <1>7, <2>5 DEF BInv, TypeInv
  <2>7. StageInv' BY <1>1, <1>3, <2>5, <1>7 DEF BInv, StageInv
  <2>8. CallsInv' BY <1>1, <1>2, <2>2, <2>3, <2>5 DEF BInv, CallsInv
  <2>9. OneCallInv'
    <3>1. \A r \in UnderWay : calls'[r].port = calls[r].port BY <2>3, <2>5
    <3>2. chosen' = chosen /\ life' = life /\ crossed' = crossed /\ UnderWay' = UnderWay
      BY <1>1, <1>7, <2>5
    <3> QED BY <3>1, <3>2 DEF BInv, OneCallInv
  <2>10. ASSUME life = "ready", NEW r \in UnderWay, calls[r].port \notin crossed
         PROVE  IptStepInv(r)'
    <3>1. IptStepInv(r) BY <1>2, <2>10 DEF BInv, IptInv
    <3>2. CASE r = s
      <4>1. PICK t \in Anything : forwards[p] = Just(t) BY <1>5, <2>10, <3>2
      <4>2. t # None BY <1>7, <2>1, <4>1 DEF Just
      <4>3. Head(forwards[p]) = t BY <4>1, <4>2, JustType
      <4>4. promise[p] = Anything /\ entries[p] = None BY <1>1, <3>1, <3>2 DEF IptStepInv
      <4> QED BY <1>1, <1>7, <2>1, <2>3, <2>5, <3>2, <4>1, <4>3, <4>4 DEF IptStepInv
    <3>3. CASE r # s
      <4>1. calls'[r] = calls[r] BY <2>5, <3>3
      <4> QED BY <1>1, <1>7, <3>1, <4>1, IptSame
    <3> QED BY <3>2, <3>3
  <2>11. \A r \in UnderWay : calls'[r].port = calls[r].port BY <2>3, <2>5
  <2>12. IptInv' BY <1>1, <1>2, <1>7, <2>5, <2>10, <2>11 DEF BInv, IptInv
  <2> QED BY <1>1, <1>2, <2>6, <2>7, <2>8, <2>9, <2>12, OfOthers DEF BInv
<1> QED BY <1>1, <1>6, <1>7

LEMMA IptDeletedKeeps ==
  ASSUME BInv, NEW s \in Slot, IptDeleted(s), UNCHANGED relayVars
  PROVE  BInv'
<1> DEFINE p == calls[s].port
<1>1. /\ s \in UnderWay /\ calls[s].step = "delete" /\ Removed(s)
      /\ entries' = [entries EXCEPT ![p] = None]
      /\ \/ forwards' = [forwards EXCEPT ![p] = Without(@, calls[s].old)] /\ crossed' = crossed
         \/ forwards' = forwards /\ crossed' = crossed \cup {p}
      /\ UNCHANGED <<selection, life, iptablesVars>>
  BY DEF IptDeleted, At, UnderWay
<1>2. chosen = "iptables" /\ p \in Port /\ calls[s].old # None /\ calls[s].old \in Anything
  BY <1>1, CallType DEF BInv, CallsInv
<1>3. /\ forwards \in [Port -> Seq(Target)] /\ entries \in [Port -> Anything]
      /\ crossed \subseteq Port /\ None \in Anything
  BY DEF BInv, TypeInv, Anything
<1>4. Without(forwards[p], calls[s].old) \in Seq(Target) BY <1>2, <1>3, WithoutType
<1>5. life = "ready" /\ p \notin crossed => Without(forwards[p], calls[s].old) = <<>>
  <2> SUFFICES ASSUME life = "ready", p \notin crossed
               PROVE  Without(forwards[p], calls[s].old) = <<>>
    OBVIOUS
  <2>1. IptStepInv(s) BY <1>1, <1>2 DEF BInv, IptInv
  <2>2. forwards[p] = <<calls[s].old>> BY <1>1, <1>2, <2>1 DEF IptStepInv, Just
  <2> QED BY <2>2, WithoutOne
<1>6. crossed \subseteq crossed' /\ crossed' \subseteq Port BY <1>1, <1>2, <1>3
<1>7. forwards' \in [Port -> Seq(Target)] /\ entries' \in [Port -> Anything]
  BY <1>1, <1>2, <1>3, <1>4
<1>8. \A q \in Port \ {p} : forwards'[q] = forwards[q] /\ entries'[q] = entries[q]
  BY <1>1, <1>2, <1>3
<1>9. life = "ready" /\ p \notin crossed' => forwards'[p] = <<>> /\ entries'[p] = None
  BY <1>1, <1>2, <1>3, <1>5
<1> HIDE DEF p
<1> QED BY <1>1, <1>2, <1>6, <1>7, <1>8, <1>9, IptRemovedKeeps DEF p

\* -A has been answered: the rule is there, or it is not although the table
\* does not know it either.
LEMMA IptAnsweredKeeps ==
  ASSUME BInv, NEW s \in UnderWay, NEW ok \in BOOLEAN, calls[s].step = "write", Answer(s, ok),
         \/ UNCHANGED forwards /\ ~ok
         \/ Added(calls[s].port, calls[s].target),
         entries' = IF ok THEN [entries EXCEPT ![calls[s].port] = calls[s].target] ELSE entries,
         UNCHANGED <<selection, life, crossed, iptablesVars>>
  PROVE  BInv'
<1> DEFINE p == calls[s].port
           t == calls[s].target
<1>1. /\ chosen' = chosen /\ life' = life /\ chain' = chain /\ closing' = closing
      /\ crossed' = crossed
  BY DEF selection, iptablesVars
<1>2. chosen = "iptables" /\ p \in Port /\ t \in Target
  <2>1. calls[s].kind \in {"add", "remove"} /\ p \in Port BY CallType DEF BInv
  <2> QED BY <2>1 DEF BInv, CallsInv
<1>3. life \in {"ready", "destroyed"} BY DEF BInv, StageInv
<1>4. /\ forwards \in [Port -> Seq(Target)] /\ entries \in [Port -> Anything]
      /\ crossed \subseteq Port /\ None \in Anything /\ t \in Anything /\ t # None
  BY <1>2, EnforceAssumption DEF BInv, TypeInv, Anything
<1>5. /\ calls' \in [Slot -> Call \cup {None}] /\ promise' \in [Port -> SUBSET Anything]
      /\ UnderWay' = UnderWay \ {s} /\ \A r \in UnderWay \ {s} : calls'[r] = calls[r]
      /\ promise'[p] = IF ok THEN {t} ELSE Anything
      /\ \A q \in Port \ {p} : promise'[q] = promise[q]
      /\ \A q : Busy(q)' = Busy(q) \ {s}
  <2>1. /\ calls' = [calls EXCEPT ![s] = None]
        /\ promise' = [promise EXCEPT ![p] = IF ok THEN {t} ELSE Anything]
    BY DEF Answer
  <2>2. promise \in [Port -> SUBSET Anything] /\ TypeInv BY DEF BInv, TypeInv
  <2>3. /\ promise' \in [Port -> SUBSET Anything]
        /\ promise'[p] = IF ok THEN {t} ELSE Anything
        /\ \A q \in Port \ {p} : promise'[q] = promise[q]
    BY <1>2, <1>4, <2>1, <2>2
  <2> QED BY <2>1, <2>2, <2>3, LeaveEffect
<1>6. s \in Busy(p) /\ \A q : s \in Busy(q) => q = p BY DEF Busy
<1>7. Append(forwards[p], t) \in Seq(Target) /\ Append(<<>>, t) = <<t>>
  BY <1>2, <1>4, AppendProperties
<1>8. (UNCHANGED forwards /\ ~ok) \/ forwards' = [forwards EXCEPT ![p] = Append(@, t)]
  BY DEF Added
<1>9. entries' = IF ok THEN [entries EXCEPT ![p] = t] ELSE entries OBVIOUS
<1>10. life = "ready" /\ p \notin crossed => forwards[p] = <<>> /\ entries[p] = None
  <2> SUFFICES ASSUME life = "ready", p \notin crossed
               PROVE  forwards[p] = <<>> /\ entries[p] = None
    OBVIOUS
  <2>1. IptStepInv(s) BY <1>2 DEF BInv, IptInv
  <2> QED BY <2>1 DEF IptStepInv
<1>11. life = "destroyed" /\ closing # "unhook" /\ chain = "hooked" => p \in crossed
  BY <1>2, IptDestroyed
<1>12. ASSUME life = "ready", NEW r \in UnderWay \ {s}, calls[r].port \notin crossed
       PROVE  calls[r].port # p /\ IptStepInv(r) /\ calls[r].port \in Port
  BY <1>2, <1>12, IptOthers, CallType DEF BInv
<1> HIDE DEF p, t
<1>13. forwards' \in [Port -> Seq(Target)] /\ entries' \in [Port -> Anything]
  BY <1>2, <1>4, <1>7, <1>8, <1>9
<1>14. \A q \in Port \ {p} : forwards'[q] = forwards[q] /\ entries'[q] = entries[q]
  BY <1>2, <1>4, <1>8, <1>9
<1>15. TypeInv' BY <1>1, <1>5, <1>13 DEF BInv, TypeInv
<1>16. StageInv' BY <1>1, <1>3, <1>5 DEF BInv, StageInv
<1>17. CallsInv' /\ OneCallInv' BY <1>1, <1>2, <1>5, AnsweredKeeps
<1>18. ASSUME life = "ready", NEW q \in Port \ crossed, Busy(q)' = {}
       PROVE  \E u \in Anything :
                forwards'[q] = Just(u) /\ entries'[q] \in {None, u} /\ u \in promise'[q]
  <2>1. CASE q = p
    <3>1. forwards[p] = <<>> /\ entries[p] = None BY <1>10, <1>18, <2>1
    <3>2. CASE forwards' = forwards /\ ~ok
      <4>1. Just(None) = <<>> BY DEF Just
      <4> QED BY <1>4, <1>5, <1>9, <2>1, <3>1, <3>2, <4>1
    <3>3. CASE forwards' = [forwards EXCEPT ![p] = Append(@, t)]
      <4>1. forwards'[p] = <<t>> /\ Just(t) = <<t>> BY <1>2, <1>4, <1>7, <3>1, <3>3 DEF Just
      <4>2. entries'[p] \in {None, t} /\ t \in promise'[p] BY <1>2, <1>4, <1>5, <1>9, <3>1
      <4> QED BY <1>4, <2>1, <4>1, <4>2
    <3> QED BY <1>8, <3>2, <3>3
  <2>2. CASE q # p
    <3>1. Busy(q) = {} BY <1>5, <1>6, <1>18, <2>2
    <3>2. \E u \in Anything :
            forwards[q] = Just(u) /\ entries[q] \in {None, u} /\ u \in promise[q]
      BY <1>2, <1>18, <3>1 DEF BInv, IptInv
    <3> QED BY <1>5, <1>14, <2>2, <3>2
  <2> QED BY <2>1, <2>2
<1>19. ASSUME life = "ready", NEW r \in UnderWay', calls'[r].port \notin crossed
       PROVE  IptStepInv(r)'
  <2>1. r \in UnderWay \ {s} /\ calls'[r] = calls[r] BY <1>5, <1>19
  <2>2. calls[r].port # p /\ IptStepInv(r) /\ calls[r].port \in Port BY <1>12, <1>19, <2>1
  <2> QED BY <1>5, <1>14, <2>1, <2>2, IptSame
<1>20. ASSUME life = "destroyed", closing # "unhook", chain = "hooked", NEW q \in Port \ crossed
       PROVE  Busy(q)' = {} /\ (closing # "flush" => forwards'[q] = <<>>)
  <2>1. Busy(q) = {} /\ (closing # "flush" => forwards[q] = <<>>) BY <1>2, <1>20 DEF BInv, IptInv
  <2> QED BY <1>5, <1>11, <1>14, <1>20, <2>1
<1>21. IptInv' BY <1>1, <1>18, <1>19, <1>20 DEF IptInv
<1> QED BY <1>1, <1>2, <1>15, <1>16, <1>17, <1>21, OfOthers DEF BInv

LEMMA IptWrittenKeeps ==
  ASSUME BInv, NEW s \in Slot, IptWritten(s), UNCHANGED relayVars
  PROVE  BInv'
<1>1. /\ s \in UnderWay /\ calls[s].step = "write" /\ Answer(s, TRUE)
      /\ Added(calls[s].port, calls[s].target)
      /\ entries' = [entries EXCEPT ![calls[s].port] = calls[s].target]
      /\ UNCHANGED <<selection, life, crossed, iptablesVars>>
  BY DEF IptWritten, At, UnderWay
<1>2. \A ok \in BOOLEAN :
        Answer(s, ok) /\ ((UNCHANGED forwards /\ ~ok) \/ Added(calls[s].port, calls[s].target))
        /\ (entries' = IF ok THEN [entries EXCEPT ![calls[s].port] = calls[s].target] ELSE entries)
          => BInv'
  BY <1>1, IptAnsweredKeeps
<1> QED BY <1>1, <1>2

LEMMA IptWriteFailsKeeps ==
  ASSUME BInv, NEW s \in Slot, IptWriteFails(s), UNCHANGED relayVars
  PROVE  BInv'
<1>1. /\ s \in UnderWay /\ calls[s].step = "write" /\ Answer(s, FALSE)
      /\ UNCHANGED forwards \/ Added(calls[s].port, calls[s].target)
      /\ entries' = entries
      /\ UNCHANGED <<selection, life, crossed, iptablesVars>>
  BY DEF IptWriteFails, At, UnderWay
<1>2. \A ok \in BOOLEAN :
        Answer(s, ok) /\ ((UNCHANGED forwards /\ ~ok) \/ Added(calls[s].port, calls[s].target))
        /\ (entries' = IF ok THEN [entries EXCEPT ![calls[s].port] = calls[s].target] ELSE entries)
          => BInv'
  BY <1>1, IptAnsweredKeeps
<1> QED BY <1>1, <1>2

LEMMA IptDestroyKeeps ==
  ASSUME BInv, IptDestroy, UNCHANGED relayVars
  PROVE  BInv'
<1>1. /\ chosen = "iptables" /\ chosen' = chosen /\ life = "ready" /\ life' = "destroyed"
      /\ closing' = "unhook" /\ entries' = Nothing /\ forwards' = forwards /\ calls' = calls
      /\ promise' = promise /\ crossed' = crossed /\ chain' = chain
  BY DEF IptDestroy, IptActive, selection
<1>2. UnderWay' = UnderWay BY <1>1 DEF UnderWay
<1>3. TypeInv' BY <1>1, NothingType DEF BInv, TypeInv
<1>4. StageInv' BY <1>1 DEF BInv, StageInv
<1>5. CallsInv' /\ OneCallInv' BY <1>1, <1>2 DEF BInv, CallsInv, OneCallInv
<1>6. IptInv' BY <1>1 DEF IptInv
<1> QED BY <1>1, <1>3, <1>4, <1>5, <1>6, OfOthers DEF BInv

LEMMA IptClosesKeeps ==
  ASSUME BInv, IptCloses, UNCHANGED relayVars
  PROVE  BInv'
<1> DEFINE empty == [p \in Port |-> <<>>]
<1>1. /\ closing # "none" /\ chosen' = chosen /\ life' = life /\ entries' = entries
      /\ calls' = calls /\ promise' = promise
      /\ \/ /\ closing = "unhook" /\ closing' = "flush" /\ chain' = "unhooked"
            /\ forwards' = forwards /\ crossed' = crossed
         \/ /\ closing = "flush" /\ closing' = "drop" /\ chain' = chain
            /\ forwards' = empty /\ crossed' = crossed
         \/ /\ closing = "drop" /\ closing' = "none"
            /\ chain' = "none" \/ chain' = chain
            /\ forwards' = forwards /\ crossed' = crossed
         \/ /\ closing' = CASE closing = "unhook" -> "flush" [] closing = "flush" -> "drop"
                            [] OTHER -> "none"
            /\ crossed' = IF closing = "flush" /\ chain = "hooked" THEN Port
                          ELSE crossed \cup {calls[s].port : s \in UnderWay}
            /\ chain' = chain /\ forwards' = forwards
  BY DEF IptCloses, selection
<1>2. chosen = "iptables" /\ life = "destroyed" /\ closing \in {"unhook", "flush", "drop"}
  BY <1>1 DEF BInv, StageInv, TypeInv
<1>3. UnderWay' = UnderWay /\ \A p : Busy(p)' = Busy(p) BY <1>1 DEF UnderWay, Busy
<1>4. \A s \in UnderWay : calls[s].port \in Port BY CallType DEF BInv
<1>5. /\ crossed \subseteq Port /\ forwards \in [Port -> Seq(Target)]
      /\ empty \in [Port -> Seq(Target)] /\ \A p \in Port : empty[p] = <<>>
  BY DEF BInv, TypeInv
<1> HIDE DEF empty
<1>6. TypeInv'
  <2>1. forwards' \in [Port -> Seq(Target)] /\ crossed' \subseteq Port BY <1>1, <1>4, <1>5
  <2>2. closing' \in {"none", "flush", "drop"} /\ chain' \in {"none", "unhooked", "hooked"}
    BY <1>1, <1>2 DEF BInv, TypeInv
  <2> QED BY <1>1, <2>1, <2>2 DEF BInv, TypeInv
<1>7. StageInv' BY <1>1, <1>2 DEF BInv, StageInv
<1>8. CallsInv' BY <1>1, <1>3 DEF BInv, CallsInv
<1>9. OneCallInv' BY <1>1, <1>2 DEF OneCallInv
<1>10. ASSUME chain' = "hooked", NEW q \in Port \ crossed'
       PROVE  Busy(q) = {} /\ (closing' # "flush" => forwards'[q] = <<>>)
  <2>1. chain = "hooked" BY <1>1, <1>10
  <2>2. CASE closing = "unhook"
    <3>1. crossed' = crossed \cup {calls[s].port : s \in UnderWay} /\ closing' = "flush"
      BY <1>1, <1>10, <2>2
    <3> QED BY <3>1 DEF Busy
  <2>3. CASE closing # "unhook"
    <3>1. q \notin crossed BY <1>1, <1>5
    <3>2. Busy(q) = {} /\ (closing # "flush" => forwards[q] = <<>>)
      BY <1>2, <2>1, <2>3, <3>1 DEF BInv, IptInv
    <3> QED BY <1>1, <1>2, <1>5, <2>1, <2>3, <3>2
  <2> QED BY <2>2, <2>3
<1>11. IptInv' BY <1>1, <1>2, <1>3, <1>10 DEF IptInv
<1> QED BY <1>1, <1>2, <1>6, <1>7, <1>8, <1>9, <1>11, OfOthers DEF BInv

-----------------------------------------------------------------------------
(* The choice, and the whole.                                              *)

LEMMA FinishEffect ==
  ASSUME NEW answered, Finish(answered)
  PROVE  life' \in {"failed", "starting"}
BY DEF Finish

\* While one is chosen nothing happens to what it will look after.
LEMMA ChoiceKeeps ==
  ASSUME BInv, life \in {"new", "selecting"}, life' \in {"selecting", "starting", "failed"},
         UNCHANGED <<forwards, entries, calls, failures, promise, crossed, iptablesVars>>
  PROVE  BInv'
<1>1. /\ forwards' = forwards /\ entries' = entries /\ calls' = calls /\ promise' = promise
      /\ crossed' = crossed /\ chain' = chain /\ closing' = closing
  BY DEF iptablesVars
<1>2. UnderWay = {} /\ closing = "none" BY DEF BInv, StageInv
<1>3. UnderWay' = {} BY <1>1, <1>2 DEF UnderWay
<1>4. TypeInv' BY <1>1 DEF BInv, TypeInv
<1>5. StageInv' BY <1>1, <1>2, <1>3 DEF BInv, StageInv
<1>6. CallsInv' /\ OneCallInv' BY <1>3 DEF CallsInv, OneCallInv
<1>7. \A p \in Port : entries'[p] = None BY <1>1, NothingType DEF BInv, StageInv
<1>8. RelayInv' /\ PfInv' /\ IptInv' BY <1>7 DEF RelayInv, PfInv, IptInv
<1> QED BY <1>4, <1>5, <1>6, <1>8 DEF BInv

LEMMA InitBInv == Init => BInv
<1> SUFFICES ASSUME Init PROVE BInv OBVIOUS
<1>1. /\ life = "new" /\ forwards = [p \in Port |-> <<>>] /\ entries = Nothing
      /\ calls = [s \in Slot |-> None] /\ promise = [p \in Port |-> Anything] /\ crossed = {}
      /\ chain \in {"none", "hooked"} /\ closing = "none"
  BY DEF Init, EnforceInit, IptInit
<1>2. UnderWay = {} BY <1>1 DEF UnderWay
<1>3. TypeInv BY <1>1, NothingType DEF TypeInv
<1>4. StageInv BY <1>1, <1>2 DEF StageInv
<1>5. CallsInv /\ OneCallInv BY <1>2 DEF CallsInv, OneCallInv
<1>6. RelayInv /\ PfInv /\ IptInv BY <1>1, NothingType DEF RelayInv, PfInv, IptInv
<1> QED BY <1>3, <1>4, <1>5, <1>6 DEF BInv

LEMMA NextBInv == BInv /\ [Next]_vars => BInv'
<1> SUFFICES ASSUME BInv, [Next]_vars PROVE BInv' OBVIOUS
<1>1. CASE Listen /\ UNCHANGED <<relayVars, iptablesVars>>
  <2>1. life = "new" /\ UNCHANGED <<forwards, entries, calls, failures, promise, crossed>>
    BY <1>1 DEF Listen
  <2>2. life' \in {"selecting", "starting", "failed"} BY <1>1, FinishEffect DEF Listen
  <2> QED BY <1>1, <2>1, <2>2, ChoiceKeeps
<1>2. CASE /\ \E a \in Adapter, usable \in BOOLEAN : CheckAnswered(a, usable)
           /\ UNCHANGED <<relayVars, iptablesVars>>
  <2>1. /\ life = "selecting"
        /\ UNCHANGED <<forwards, entries, calls, failures, promise, crossed>>
    BY <1>2 DEF CheckAnswered
  <2>2. life' \in {"selecting", "starting", "failed"}
    BY <1>2, <2>1, FinishEffect DEF CheckAnswered
  <2> QED BY <1>2, <2>1, <2>2, ChoiceKeeps
<1>3. CASE RelayNext /\ UNCHANGED iptablesVars
  <2>1. CASE RelayStart BY <1>3, <2>1, RelayStartKeeps
  <2>2. CASE \E s \in Slot, p \in Port, t \in Target : RelayAdd(s, p, t)
    BY <1>3, <2>2, RelayAddKeeps
  <2>3. CASE \E s \in Slot : RelayBound(s) BY <1>3, <2>3, RelayBoundKeeps
  <2>4. CASE \E s \in Slot : RelayFallsBack(s) BY <1>3, <2>4, RelayFallsBackKeeps
  <2>5. CASE \E s \in Slot : RelayRefused(s) BY <1>3, <2>5, RelayRefusedKeeps
  <2>6. CASE \E p \in Port : RelayRemove(p) BY <1>3, <2>6, RelayRemoveKeeps
  <2>7. CASE RelayDestroy BY <1>3, <2>7, RelayDestroyKeeps
  <2> QED BY <1>3, <2>1, <2>2, <2>3, <2>4, <2>5, <2>6, <2>7 DEF RelayNext
<1>4. CASE PfNext /\ UNCHANGED <<relayVars, iptablesVars>>
  <2>1. CASE PfStart BY <1>4, <2>1, PfStartKeeps
  <2>2. CASE \E s \in Slot, p \in Port, t \in Target : PfAdd(s, p, t) BY <1>4, <2>2, PfAddKeeps
  <2>3. CASE \E s \in Slot, p \in Port : PfRemove(s, p) BY <1>4, <2>3, PfRemoveKeeps
  <2>4. CASE \E s \in Slot : PfLoaded(s) BY <1>4, <2>4, PfLoadedKeeps
  <2>5. CASE \E s \in Slot : PfLoadFails(s) BY <1>4, <2>5, PfLoadFailsKeeps
  <2>6. CASE PfDestroy BY <1>4, <2>6, PfDestroyKeeps
  <2> QED BY <1>4, <2>1, <2>2, <2>3, <2>4, <2>5, <2>6 DEF PfNext
<1>5. CASE IptNext /\ UNCHANGED relayVars
  <2>1. CASE IptStart BY <1>5, <2>1, IptStartKeeps
  <2>2. CASE \E s \in Slot, p \in Port, t \in Target : IptAdd(s, p, t)
    BY <1>5, <2>2, IptAddKeeps
  <2>3. CASE \E s \in Slot, p \in Port : IptRemove(s, p) BY <1>5, <2>3, IptRemoveKeeps
  <2>4. CASE \E s \in Slot : IptListed(s) BY <1>5, <2>4, IptListedKeeps
  <2>5. CASE \E s \in Slot : IptDeleted(s) BY <1>5, <2>5, IptDeletedKeeps
  <2>6. CASE \E s \in Slot : IptWritten(s) BY <1>5, <2>6, IptWrittenKeeps
  <2>7. CASE \E s \in Slot : IptWriteFails(s) BY <1>5, <2>7, IptWriteFailsKeeps
  <2>8. CASE IptDestroy BY <1>5, <2>8, IptDestroyKeeps
  <2>9. CASE IptCloses BY <1>5, <2>9, IptClosesKeeps
  <2> QED BY <1>5, <2>1, <2>2, <2>3, <2>4, <2>5, <2>6, <2>7, <2>8, <2>9 DEF IptNext
<1>6. CASE UNCHANGED vars
  <2>1. /\ chosen' = chosen /\ life' = life /\ forwards' = forwards /\ entries' = entries
        /\ calls' = calls /\ promise' = promise /\ crossed' = crossed
        /\ chain' = chain /\ closing' = closing
    BY <1>6 DEF vars, enforceVars, selection, iptablesVars
  <2>2. UnderWay' = UnderWay /\ \A p : Busy(p)' = Busy(p) BY <2>1 DEF UnderWay, Busy
  <2>3. TypeInv' /\ StageInv' BY <2>1, <2>2 DEF BInv, TypeInv, StageInv
  <2>4. CallsInv' /\ OneCallInv' BY <2>1, <2>2 DEF BInv, CallsInv, OneCallInv
  <2>5. RelayInv' BY <2>1, <2>2 DEF BInv, RelayInv
  <2>6. PfInv' BY <2>1, <2>2 DEF BInv, PfInv, PfLoadInv
  <2>7. IptInv' BY <2>1, <2>2 DEF BInv, IptInv, IptStepInv
  <2> QED BY <2>3, <2>4, <2>5, <2>6, <2>7 DEF BInv
<1> QED BY <1>1, <1>2, <1>3, <1>4, <1>5, <1>6 DEF Next

LEMMA BInvAlways == Spec => []BInv
<1>1. Init => BInv BY InitBInv
<1>2. BInv /\ [Next]_vars => BInv' BY NextBInv
<1> QED BY <1>1, <1>2, PTL DEF Spec

\* What Just says of the first target.
LEMMA JustHead ==
  ASSUME NEW p \in Port, NEW t \in Anything, forwards[p] = Just(t)
  PROVE  (IF forwards[p] = <<>> THEN None ELSE Head(forwards[p])) = t
BY JustType

\* An answered call is in force: what a port forwards is what the last answer
\* about it promised, with the ports in crossed excepted, whichever adapter was
\* chosen and however many calls overlap and commands fail.
THEOREM AnsweredCorrect == Spec => []AnsweredIsInForce
<1>1. BInv => AnsweredIsInForce
  <2> SUFFICES ASSUME BInv, life = "ready", NEW p \in Port \ crossed
               PROVE  InForce(p) \in promise[p]
    BY DEF AnsweredIsInForce
  <2>0. chosen \in {"relay", "pf", "iptables"} /\ (chosen = "iptables" => chain = "hooked")
    BY DEF BInv, StageInv
  <2>1. InForce(p) = IF forwards[p] = <<>> THEN None ELSE Head(forwards[p])
    BY <2>0 DEF InForce
  <2>2. InForce(p) \in Anything
    <3>1. forwards[p] \in Seq(Target) BY DEF BInv, TypeInv
    <3> QED BY <2>1, <3>1 DEF Anything
  <2>3. entries[p] \in Anything BY DEF BInv, TypeInv
  <2>4. CASE chosen = "relay"
    <3>1. forwards[p] = Just(entries[p]) /\ entries[p] \in promise[p]
      BY <2>4 DEF BInv, RelayInv
    <3>2. InForce(p) = entries[p] BY <2>1, <2>3, <3>1, JustHead
    <3> QED BY <3>1, <3>2
  <2>5. CASE chosen = "pf" /\ Busy(p) = {}
    <3>1. forwards[p] = Just(entries[p]) /\ entries[p] \in promise[p]
      BY <2>5 DEF BInv, PfInv
    <3>2. InForce(p) = entries[p] BY <2>1, <2>3, <3>1, JustHead
    <3> QED BY <3>1, <3>2
  <2>6. CASE chosen = "iptables" /\ Busy(p) = {}
    <3>1. PICK t \in Anything : forwards[p] = Just(t) /\ t \in promise[p]
      BY <2>6 DEF BInv, IptInv
    <3>2. InForce(p) = t BY <2>1, <3>1, JustHead
    <3> QED BY <3>1, <3>2
  <2>7. CASE chosen \in {"pf", "iptables"} /\ Busy(p) # {}
    <3>1. PICK s \in UnderWay : calls[s].port = p BY <2>7 DEF Busy
    <3>2. promise[p] = Anything
      BY <2>7, <3>1 DEF BInv, PfInv, PfLoadInv, IptInv, IptStepInv
    <3> QED BY <2>2, <3>2
  <2> QED BY <2>0, <2>4, <2>5, <2>6, <2>7
<1> QED BY <1>1, BInvAlways, PTL

\* list() tells the truth about a port with no call under way.
THEOREM ListedCorrect == Spec => []ListedIsInForce
<1>1. BInv => ListedIsInForce
  <2> SUFFICES ASSUME BInv, life = "ready", NEW p \in Port \ crossed, Busy(p) = {}
               PROVE  Listed(p) = InForce(p)
    BY DEF ListedIsInForce
  <2>1. chosen \in {"relay", "pf", "iptables"} /\ (chosen = "iptables" => chain = "hooked")
    BY DEF BInv, StageInv
  <2>2. CASE chosen = "iptables" BY <2>1, <2>2 DEF Listed, InForce
  <2>3. CASE chosen # "iptables"
    <3>1. forwards[p] = Just(entries[p]) /\ entries[p] \in Anything
      BY <2>1, <2>3 DEF BInv, TypeInv, RelayInv, PfInv
    <3>2. InForce(p) = IF forwards[p] = <<>> THEN None ELSE Head(forwards[p])
      BY <2>3 DEF InForce
    <3>3. InForce(p) = entries[p] BY <3>1, <3>2, JustHead
    <3> QED BY <2>3, <3>3 DEF Listed
  <2> QED BY <2>2, <2>3
<1> QED BY <1>1, BInvAlways, PTL

\* A destroyed adapter leaves nothing that forwards behind, its failures and the
\* calls it overtook excepted.
THEOREM DestroyedCorrect == Spec => []DestroyedForwardsNothing
<1>1. BInv => DestroyedForwardsNothing
  <2> SUFFICES ASSUME BInv, life = "destroyed", closing = "none", NEW p \in Port \ crossed
               PROVE  InForce(p) = None
    BY DEF DestroyedForwardsNothing
  <2>1. chosen \in {"relay", "pf", "iptables"} BY DEF BInv, StageInv
  <2>2. chosen # "iptables" \/ chain = "hooked" => forwards[p] = <<>>
    BY <2>1 DEF BInv, RelayInv, PfInv, IptInv
  <2> QED BY <2>2 DEF InForce
<1> QED BY <1>1, BInvAlways, PTL

=============================================================================
