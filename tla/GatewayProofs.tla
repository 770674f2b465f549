--------------------------- MODULE GatewayProofs ---------------------------
(***************************************************************************)
(* What the gateway forwards, for any number of ports, targets and adapter *)
(* calls at once: what its engines granted, and nothing that is gone.      *)
(***************************************************************************)
EXTENDS Gateway, SequenceTheorems, WellFoundedInduction, TLAPS

\* The adapter calls there are: only an add has a target and writes, and a call
\* that deletes has something to delete.
Fit == {o \in Op : /\ o.kind = "add" => o.by \in Engine /\ o.target \in Target
                   /\ o.step = "write" => o.kind = "add"
                   /\ o.step = "delete" => o.victims # {}}

Table == [Engine -> [Port -> Target \cup {None}]]

TypeInv ==
  /\ life \in {"open", "closing", "closed", "abandoned"}
  /\ held \in Table
  /\ rules \in [Port -> Seq(Rule)]
  /\ ops \in [Slot -> Fit \cup {None}]
  /\ sweep \in Sweep \cup {None}
  /\ failures \in 0 .. MaxFailures
  /\ spoiled \subseteq Port

\* A handle names one rule.
Distinct(q) == \A i, j \in DOMAIN q : q[i].handle = q[j].handle => i = j
HandleInv   == \A p \in Port : Distinct(rules[p])

\* Without the table there is no rule.
NothingLeft == life = "closed" => \A p \in Port : rules[p] = <<>>

\* The engines are destroyed with the gateway, the rules at its end.
LifeInv ==
  /\ life # "open" => \A e \in Engine, p \in Port : held[e][p] = None
  /\ NothingLeft

Works(s, p) == ops[s] # None /\ ops[s].port = p
Idle(p)     == \A s \in Slot : ~Works(s, p)
Unheld(p)   == \A e \in Engine : held[e][p] = None

\* An adapter call under way does what the engines want of the port, and the
\* rules in its way are the ones it is going to delete.
InStep(o, p, table, q) ==
  /\ o.kind = "add" => table[o.by][p] = o.target
  /\ o.kind = "remove" => \A e \in Engine : table[e][p] = None
  /\ o.step = "delete" => \A i \in DOMAIN q : q[i].handle \in o.victims
  /\ o.step = "write" => q = <<>>

\* Without a call under way the rules are what the engines hold.
AtRest(p) ==
  /\ \A e \in Engine : held[e][p] # None => rules[p] # <<>> /\ rules[p][1].target = held[e][p]
  /\ Unheld(p) =>
       /\ \A i \in DOMAIN rules[p] : rules[p][i].target = Left
       /\ sweep # None => (sweep.listed => rules[p] = <<>> \/ p \in sweep.orphans)

\* A port that is not spoiled.
Calm(p) ==
  /\ \A s, t \in Slot : Works(s, p) /\ Works(t, p) => s = t
  /\ \A e, f \in Engine : held[e][p] # None /\ held[f][p] # None => e = f
  /\ \A s \in Slot : Works(s, p) => InStep(ops[s], p, held, rules[p])
  /\ Idle(p) => AtRest(p)

CalmInv == \A p \in Port \ spoiled : Calm(p)

IInv == TypeInv /\ HandleInv /\ LifeInv /\ CalmInv
-----------------------------------------------------------------------------
(* Rules.                                                                  *)

LEMMA Least ==
  ASSUME NEW T \in SUBSET Nat, T # {}
  PROVE  \E x \in T : \A y \in T : x <= y
<1> DEFINE Less == {pair \in Nat \X Nat : pair[1] < pair[2]}
<1>1. IsWellFoundedOn(Less, Nat) BY NatLessThanWellFounded DEF OpToRel
<1>2. \A x, y \in T : <<y, x>> \notin Less => x <= y OBVIOUS
<1> HIDE DEF Less
<1>3. \E x \in T : \A y \in T : ~ (<<y, x>> \in Less) BY <1>1, WFMin
<1> QED BY <1>2, <1>3

\* A rule is deleted by its handle: those that stay were there before, in
\* their order, and have other handles.
LEMMA WithoutRule ==
  ASSUME NEW q \in Seq(Rule), NEW h, Distinct(q)
  PROVE  /\ Without(q, h) \in Seq(Rule) /\ Distinct(Without(q, h))
         /\ \A i \in DOMAIN Without(q, h) :
              \E j \in DOMAIN q : Without(q, h)[i] = q[j] /\ q[j].handle # h
         /\ q = <<>> => Without(q, h) = <<>>
<1> DEFINE w == Without(q, h)
<1>1. CASE ~ \E i \in DOMAIN q : q[i].handle = h
  <2>1. w = q BY <1>1 DEF Without
  <2> QED BY <1>1, <2>1
<1>2. CASE \E i \in DOMAIN q : q[i].handle = h
  <2> DEFINE k == CHOOSE i \in DOMAIN q : q[i].handle = h
  <2>1. k \in DOMAIN q /\ q[k].handle = h BY <1>2
  <2>2. w = SubSeq(q, 1, k - 1) \o SubSeq(q, k + 1, Len(q)) BY <1>2 DEF Without, RemoveAt
  <2> HIDE DEF k
  <2>3. k \in 1 .. Len(q) /\ Len(q) \in Nat BY <2>1
  <2> DEFINE u == SubSeq(q, 1, k - 1)
             v == SubSeq(q, k + 1, Len(q))
  <2>4. u \in Seq(Rule) /\ Len(u) = k - 1 /\ \A i \in 1 .. k - 1 : u[i] = q[i]
    BY <2>3
  <2>5. v \in Seq(Rule) /\ Len(v) = Len(q) - k /\ \A i \in 1 .. Len(q) - k : v[i] = q[k + i]
    BY <2>3
  <2> HIDE DEF u, v
  <2>6. w \in Seq(Rule) /\ Len(w) = Len(q) - 1
    <3>1. w = u \o v BY <2>2 DEF u, v
    <3> HIDE DEF w
    <3>2. u \o v \in Seq(Rule) /\ Len(u \o v) = Len(u) + Len(v)
      BY <2>4, <2>5, ConcatProperties
    <3> QED BY <2>3, <2>4, <2>5, <3>1, <3>2
  <2>7. \A i \in 1 .. Len(q) - 1 : w[i] = IF i < k THEN q[i] ELSE q[i + 1]
    <3> TAKE i \in 1 .. Len(q) - 1
    <3>1. w = u \o v BY <2>2 DEF u, v
    <3> HIDE DEF w
    <3>2. \A j \in 1 .. Len(u) + Len(v) :
            (u \o v)[j] = IF j <= Len(u) THEN u[j] ELSE v[j - Len(u)]
      BY <2>4, <2>5, ConcatProperties
    <3>3. w[i] = IF i <= k - 1 THEN u[i] ELSE v[i - (k - 1)]
      BY <2>3, <2>4, <2>5, <3>1, <3>2
    <3>4. CASE i < k BY <2>3, <2>4, <3>3, <3>4
    <3>5. CASE ~ (i < k)
      <4>1. i - (k - 1) \in 1 .. Len(q) - k /\ k + (i - (k - 1)) = i + 1 BY <2>3, <3>5
      <4> QED BY <2>3, <2>5, <3>3, <3>5, <4>1
    <3> QED BY <3>4, <3>5
  <2>8. DOMAIN w = 1 .. Len(q) - 1 /\ DOMAIN q = 1 .. Len(q) BY <2>3, <2>6
  <2> HIDE DEF w
  <2>9. Distinct(w) BY <2>3, <2>7, <2>8 DEF Distinct
  <2>10. \A i \in DOMAIN w : \E j \in DOMAIN q : w[i] = q[j] /\ q[j].handle # h
    <3> TAKE i \in DOMAIN w
    <3> DEFINE j == IF i < k THEN i ELSE i + 1
    <3>1. j \in DOMAIN q /\ j # k /\ w[i] = q[j] BY <2>3, <2>7, <2>8
    <3> QED BY <2>1, <3>1 DEF Distinct
  <2>11. q # <<>> BY <2>3
  <2> QED BY <2>6, <2>9, <2>10, <2>11 DEF w
<1> QED BY <1>1, <1>2

\* A rule is added.
LEMMA Added ==
  ASSUME TypeInv, HandleInv, NEW p \in Port, NEW t \in Target, RuleAdded(p, t)
  PROVE  /\ rules' \in [Port -> Seq(Rule)] /\ HandleInv'
         /\ \A q \in Port : q # p => rules'[q] = rules[q]
         /\ rules[p] = <<>> => rules'[p] # <<>> /\ rules'[p][1].target = t
<1> DEFINE h == CHOOSE g \in NewHandles : \A k \in NewHandles : g <= k
           r == [handle |-> h, target |-> t]
<1>1. NewHandles # {} /\ NewHandles \subseteq Nat
  BY GatewayAssumption DEF RuleAdded, NewHandles
<1>2. h \in NewHandles BY <1>1, Least
<1>3. rules' = [rules EXCEPT ![p] = Append(rules[p], r)] BY DEF RuleAdded
<1> HIDE DEF h
<1>4. h \in Handle /\ \A i \in DOMAIN rules[p] : rules[p][i].handle # h
  BY <1>2 DEF NewHandles, HandlesOf
<1>5. r \in Rule /\ r.handle = h /\ r.target = t BY <1>4 DEF Rule
<1> HIDE DEF r
<1>6. rules[p] \in Seq(Rule) BY DEF TypeInv
<1>7. /\ Append(rules[p], r) \in Seq(Rule) /\ DOMAIN Append(rules[p], r) = 1 .. Len(rules[p]) + 1
      /\ \A i \in 1 .. Len(rules[p]) : Append(rules[p], r)[i] = rules[p][i]
      /\ Append(rules[p], r)[Len(rules[p]) + 1] = r /\ Append(rules[p], r) # <<>>
      /\ DOMAIN rules[p] = 1 .. Len(rules[p]) /\ Len(rules[p]) \in Nat
  BY <1>5, <1>6
<1>8. Distinct(Append(rules[p], r)) BY <1>4, <1>5, <1>7 DEF HandleInv, Distinct
<1>9. rules' \in [Port -> Seq(Rule)] BY <1>3, <1>7 DEF TypeInv
<1>10. \A q \in Port : rules'[q] = IF q = p THEN Append(rules[p], r) ELSE rules[q]
  BY <1>3 DEF TypeInv
<1>11. HandleInv' BY <1>8, <1>10 DEF HandleInv
<1>12. ASSUME rules[p] = <<>> PROVE rules'[p] # <<>> /\ rules'[p][1].target = t
  BY <1>5, <1>7, <1>10, <1>12
<1> QED BY <1>9, <1>10, <1>11, <1>12

-----------------------------------------------------------------------------
(* Adapter calls.                                                          *)

\* Calls are launched in slots of their own.
LEMMA Launched ==
  ASSUME TypeInv, NEW calls \in SUBSET Fit, NEW spoil \in SUBSET Port, Launch(calls, spoil)
  PROVE  /\ ops' \in [Slot -> Fit \cup {None}]
         /\ \A s \in Slot : ops[s] # None => ops'[s] = ops[s]
         /\ \A s \in Slot : ops[s] = None => ops'[s] \in calls \cup {None}
         /\ \A c \in calls : \E s \in Slot : ops[s] = None /\ ops'[s] = c
         /\ \A s, t \in Slot : ops[s] = None /\ ops'[s] # None /\ ops'[t] = ops'[s] /\ ops[t] = None => s = t
         /\ spoiled \cup spoil \subseteq spoiled' /\ spoiled' \subseteq Port
         /\ \A c \in calls : c.port \notin spoiled' =>
              /\ Idle(c.port)
              /\ \A d \in calls : d.port = c.port => d = c
<1>1. PICK slot \in Injection(calls, Free) :
        ops' = [s \in Slot |-> IF \E c \in calls : slot[c] = s
                               THEN CHOOSE c \in calls : slot[c] = s ELSE ops[s]]
  BY DEF Launch
<1>2. /\ \A c \in calls : slot[c] \in Slot /\ ops[slot[c]] = None
      /\ \A c, d \in calls : slot[c] = slot[d] => c = d
  BY DEF Injection, IsInjective, Free
<1>3. \A s \in Slot : (\E c \in calls : slot[c] = s) => ops'[s] \in calls /\ slot[ops'[s]] = s
  BY <1>1
<1>4. \A s \in Slot : (~ \E c \in calls : slot[c] = s) => ops'[s] = ops[s]
  BY <1>1
<1>5. ops' \in [Slot -> Fit \cup {None}] BY <1>1, <1>3, <1>4 DEF TypeInv
<1>6. \A c \in calls : \E s \in Slot : ops[s] = None /\ ops'[s] = c BY <1>2, <1>3
<1>7. \A c \in calls : c.port \in Port BY DEF Fit, Op
<1>8. spoiled' = spoiled \cup spoil
       \cup {c.port : c \in {d \in calls : Busy(d.port) # {}}}
       \cup {c.port : c \in {d \in calls : \E o \in calls : o # d /\ o.port = d.port}}
  BY DEF Launch
<1>9. spoiled \cup spoil \subseteq spoiled' /\ spoiled' \subseteq Port
  BY <1>7, <1>8 DEF TypeInv
<1>10. ASSUME NEW c \in calls, c.port \notin spoiled'
       PROVE  Idle(c.port) /\ \A d \in calls : d.port = c.port => d = c
  <2>1. Busy(c.port) = {} BY <1>8, <1>10
  <2>2. Idle(c.port) BY <2>1 DEF Busy, Idle, Works
  <2>3. \A d \in calls : d.port = c.port => d = c BY <1>8, <1>10
  <2> QED BY <2>2, <2>3
<1>11. \A s \in Slot : ops[s] # None => ops'[s] = ops[s] BY <1>2, <1>4
<1>12. \A s \in Slot : ops[s] = None => ops'[s] \in calls \cup {None} BY <1>3, <1>4
<1>13. \A s, t \in Slot : ops[s] = None /\ ops'[s] # None /\ ops'[t] = ops'[s] /\ ops[t] = None => s = t
  BY <1>3, <1>4
<1> QED BY <1>5, <1>6, <1>9, <1>10, <1>11, <1>12, <1>13

\* A port on which calls are launched has none before and one after; on the
\* others nothing changes.
LEMMA LaunchCalm ==
  ASSUME TypeInv, NEW calls \in SUBSET Fit, NEW spoil \in SUBSET Port, Launch(calls, spoil),
         rules' = rules, NEW p \in Port \ spoiled', Calm(p),
         \A c \in calls : c.step = "list",
         \A c \in calls : c.port = p => InStep(c, p, held', rules'[p]),
         \A e, f \in Engine : held'[e][p] # None /\ held'[f][p] # None => e = f,
         (\A c \in calls : c.port # p) => (AtRest(p) => AtRest(p)'),
         (\A c \in calls : c.port # p) => \A e \in Engine : held'[e][p] = held[e][p]
  PROVE  Calm(p)'
<1>1. /\ ops' \in [Slot -> Fit \cup {None}]
      /\ \A s \in Slot : ops[s] # None => ops'[s] = ops[s]
      /\ \A s \in Slot : ops[s] = None => ops'[s] \in calls \cup {None}
      /\ \A c \in calls : \E s \in Slot : ops[s] = None /\ ops'[s] = c
      /\ \A s, t \in Slot :
           ops[s] = None /\ ops'[s] # None /\ ops'[t] = ops'[s] /\ ops[t] = None => s = t
  BY Launched
<1>4. \A c \in calls : c.port \notin spoiled' =>
              /\ Idle(c.port)
              /\ \A d \in calls : d.port = c.port => d = c
  BY Launched
<1>2. CASE \A c \in calls : c.port # p
  <2>1. \A s \in Slot : Works(s, p)' <=> Works(s, p) BY <1>1, <1>2 DEF Works
  <2>2. \A s \in Slot : Works(s, p) => ops'[s] = ops[s] BY <1>1 DEF Works
  <2>3. ASSUME NEW s \in Slot, Works(s, p)' PROVE InStep(ops'[s], p, held', rules'[p])
    <3>1. InStep(ops[s], p, held, rules[p]) /\ ops'[s] = ops[s] /\ ops[s] \in Fit
      BY <2>1, <2>2, <2>3 DEF Calm, TypeInv, Works
    <3>2. ops[s].kind = "add" => held'[ops[s].by][p] = held[ops[s].by][p]
      BY <1>2, <3>1 DEF Fit
    <3> QED BY <1>2, <3>1, <3>2 DEF InStep
  <2>4. Idle(p)' => AtRest(p)' BY <1>2, <2>1 DEF Calm, Idle
  <2> QED BY <2>1, <2>3, <2>4 DEF Calm
<1>3. ASSUME NEW c \in calls, c.port = p PROVE Calm(p)'
  <2>1. Idle(p) /\ \A d \in calls : d.port = p => d = c BY <1>4, <1>3
  <2>2. PICK u \in Slot : ops[u] = None /\ ops'[u] = c BY <1>1
  <2>3. c # None BY NoneAssumption DEF Fit
  <2>4. \A s \in Slot : Works(s, p)' => ops[s] = None /\ ops'[s] = c
    BY <1>1, <2>1 DEF Works, Idle
  <2>5. \A s \in Slot : Works(s, p)' => s = u BY <1>1, <2>2, <2>3, <2>4
  <2>6. Works(u, p)' BY <1>3, <2>2, <2>3 DEF Works
  <2>7. InStep(c, p, held', rules'[p]) BY <1>3
  <2>8. \A s \in Slot : Works(s, p)' => InStep(ops'[s], p, held', rules'[p])
    BY <2>4, <2>7 DEF InStep
  <2>9. ~ Idle(p)' BY <2>6 DEF Idle
  <2> QED BY <2>5, <2>8, <2>9 DEF Calm
<1> QED BY <1>2, <1>3

\* A call does nothing to the other ports.
LEMMA OtherCalm ==
  ASSUME TypeInv, NEW s \in Slot, ops[s] # None, NEW o \in Fit \cup {None},
         o # None => o.port = ops[s].port, ops' = [ops EXCEPT ![s] = o], sweep' = sweep,
         NEW p \in Port, p # ops[s].port, Calm(p), rules'[p] = rules[p],
         \A e \in Engine : held'[e][p] = held[e][p]
  PROVE  Calm(p)'
<1>1. \A t \in Slot : ops'[t] = IF t = s THEN o ELSE ops[t] BY DEF TypeInv
<1>2. \A t \in Slot : Works(t, p)' <=> Works(t, p) BY <1>1 DEF Works
<1>3. \A t \in Slot : Works(t, p) => ops'[t] = ops[t] BY <1>1 DEF Works
<1>4. Unheld(p)' <=> Unheld(p) BY DEF Unheld
<1>5. ASSUME NEW t \in Slot, Works(t, p)' PROVE InStep(ops'[t], p, held', rules'[p])
  <2>1. InStep(ops[t], p, held, rules[p]) /\ ops'[t] = ops[t] /\ ops[t] \in Fit
    BY <1>2, <1>3, <1>5 DEF Calm, TypeInv, Works
  <2>2. ops[t].kind = "add" => held'[ops[t].by][p] = held[ops[t].by][p]
    BY <2>1 DEF Fit
  <2> QED BY <1>4, <2>1, <2>2 DEF InStep
<1>6. AtRest(p) => AtRest(p)' BY <1>4 DEF AtRest
<1> QED BY <1>2, <1>5, <1>6 DEF Calm, Idle

\* The port a call is for, when the call goes on or ends.
LEMMA OwnCalm ==
  ASSUME TypeInv, NEW s \in Slot, ops[s] # None, NEW o \in Fit \cup {None},
         ops' = [ops EXCEPT ![s] = o], NEW p \in Port, p = ops[s].port, Calm(p),
         o # None => o.port = p /\ InStep(o, p, held', rules'[p]),
         \A e, f \in Engine : held'[e][p] # None /\ held'[f][p] # None => e = f,
         o = None => AtRest(p)'
  PROVE  Calm(p)'
<1>1. \A t \in Slot : ops'[t] = IF t = s THEN o ELSE ops[t] BY DEF TypeInv
<1>2. \A t \in Slot : Works(t, p) => t = s BY DEF Calm, Works
<1>3. \A t \in Slot : Works(t, p)' => t = s /\ o # None BY <1>1, <1>2 DEF Works
<1>4. o # None => Works(s, p)' BY <1>1 DEF Works
<1>5. \A t \in Slot : Works(t, p)' => InStep(ops'[t], p, held', rules'[p])
  <2> TAKE t \in Slot
  <2> HAVE Works(t, p)'
  <2>1. t = s /\ o # None /\ ops'[t] = o BY <1>1, <1>3
  <2> QED BY <2>1 DEF InStep
<1> QED BY <1>3, <1>4, <1>5 DEF Calm, Idle

-----------------------------------------------------------------------------
(* Events of the engines.                                                  *)

\* What the events of the engines leave alone, and what a launch keeps.
LEMMA LaunchKeeps ==
  ASSUME IInv, NEW calls \in SUBSET Fit, NEW spoil \in SUBSET Port, Launch(calls, spoil),
         life' \in {"open", "closing"}, held' \in Table, rules' = rules, failures' = failures,
         sweep' \in Sweep \cup {None}, life = "open",
         life' # "open" => \A e \in Engine, p \in Port : held'[e][p] = None,
         \A p \in Port \ spoiled' : Calm(p) => Calm(p)'
  PROVE  IInv'
<1>1. ops' \in [Slot -> Fit \cup {None}] /\ spoiled \subseteq spoiled' /\ spoiled' \subseteq Port
  BY Launched DEF IInv
<1>2. TypeInv' BY <1>1 DEF IInv, TypeInv
<1>3. HandleInv' BY DEF IInv, HandleInv
<1>4. LifeInv' BY DEF LifeInv, NothingLeft
<1>5. CalmInv' BY <1>1 DEF IInv, CalmInv
<1> QED BY <1>2, <1>3, <1>4, <1>5 DEF IInv

LEMMA CallFit ==
  /\ \A e \in Engine, p \in Port, t \in Target :
       /\ AddCall(e, p, t) \in Fit /\ AddCall(e, p, t).step = "list"
       /\ AddCall(e, p, t).port = p /\ AddCall(e, p, t).kind = "add"
       /\ AddCall(e, p, t).by = e /\ AddCall(e, p, t).target = t
  /\ \A e \in Engine \cup {"reconcile"}, p \in Port :
       /\ RemoveCall(e, p) \in Fit /\ RemoveCall(e, p).step = "list"
       /\ RemoveCall(e, p).port = p /\ RemoveCall(e, p).kind = "remove"
BY DEF AddCall, RemoveCall, Fit, Op

LEMMA PortMappedKeeps ==
  ASSUME IInv, NEW e \in Engine, NEW p \in Port, NEW t \in Target, PortMapped(e, p, t)
  PROVE  IInv'
<1> DEFINE c     == AddCall(e, p, t)
           spoil == IF Holders(p) # {} THEN {p} ELSE {}
<1>1. /\ life = "open" /\ held[e][p] = None /\ held' = [held EXCEPT ![e][p] = t]
      /\ Launch({c}, spoil) /\ life' = life /\ rules' = rules /\ sweep' = sweep
      /\ failures' = failures
  BY DEF PortMapped
<1>2. c \in Fit /\ c.step = "list" /\ c.port = p /\ c.kind = "add" /\ c.by = e /\ c.target = t
  BY CallFit
<1>3. spoil \in SUBSET Port /\ (Holders(p) # {} => p \in spoil) OBVIOUS
<1> HIDE DEF c, spoil
<1>4. TypeInv /\ spoiled \cup spoil \subseteq spoiled'
  <2>1. TypeInv /\ {c} \in SUBSET Fit BY <1>2 DEF IInv
  <2> QED BY <1>1, <1>3, <2>1, Launched
<1>5. /\ held' \in Table /\ held'[e][p] = t
      /\ \A f \in Engine, q \in Port : f # e \/ q # p => held'[f][q] = held[f][q]
  BY <1>1, <1>4 DEF TypeInv, Table
<1>6. ASSUME NEW q \in Port \ spoiled', Calm(q) PROVE Calm(q)'
  <2>1. CASE q = p
    <3>1. Holders(p) = {} BY <1>3, <1>4, <2>1
    <3>2. \A f \in Engine : held'[f][p] # None => f = e BY <1>5, <3>1 DEF Holders
    <3>3. InStep(c, q, held', rules'[q]) BY <1>2, <1>5, <2>1 DEF InStep
    <3> DEFINE calls == {c}
    <3>4. calls \in SUBSET Fit /\ Launch(calls, spoil) BY <1>1, <1>2
    <3>5. /\ \A d \in calls : d.step = "list"
          /\ \A d \in calls : d.port = q => InStep(d, q, held', rules'[q])
          /\ ~ \A d \in calls : d.port # q
      BY <1>2, <2>1, <3>3
    <3>6. \A f, g \in Engine : held'[f][q] # None /\ held'[g][q] # None => f = g
      BY <2>1, <3>2
    <3> HIDE DEF calls
    <3> QED BY <1>1, <1>3, <1>4, <1>6, <3>4, <3>5, <3>6, LaunchCalm
  <2>2. CASE q # p
    <3>1. \A f \in Engine : held'[f][q] = held[f][q] BY <1>5, <2>2
    <3>2. AtRest(q) => AtRest(q)' BY <1>1, <3>1 DEF AtRest, Unheld
    <3>3. \A f, g \in Engine : held'[f][q] # None /\ held'[g][q] # None => f = g
      BY <1>6, <3>1 DEF Calm
    <3> QED BY <1>1, <1>2, <1>3, <1>4, <1>6, <2>2, <3>1, <3>2, <3>3, LaunchCalm
  <2> QED BY <2>1, <2>2
<1> QED BY <1>1, <1>2, <1>3, <1>4, <1>5, <1>6, LaunchKeeps DEF IInv, TypeInv

LEMMA PortRenewedKeeps ==
  ASSUME IInv, NEW e \in Engine, NEW p \in Port, NEW t \in Target, PortRenewed(e, p, t)
  PROVE  IInv'
<1>1. /\ life = "open" /\ held' = [held EXCEPT ![e][p] = t] /\ life' = life /\ rules' = rules
      /\ ops' = ops /\ sweep' = sweep /\ failures' = failures
      /\ spoiled' = IF held[e][p] = t THEN spoiled ELSE spoiled \cup {p}
  BY DEF PortRenewed
<1>2. TypeInv /\ HandleInv /\ LifeInv /\ CalmInv BY DEF IInv
<1>3. /\ held' \in Table /\ held'[e][p] = t
      /\ \A f \in Engine, q \in Port : f # e \/ q # p => held'[f][q] = held[f][q]
  BY <1>1, <1>2 DEF TypeInv, Table
<1>4. TypeInv' BY <1>1, <1>2, <1>3 DEF TypeInv
<1>5. HandleInv' BY <1>1, <1>2 DEF HandleInv
<1>6. LifeInv' BY <1>1 DEF LifeInv, NothingLeft
<1>7. ASSUME NEW q \in Port \ spoiled' PROVE Calm(q)'
  <2>1. Calm(q) BY <1>1, <1>2, <1>7 DEF CalmInv
  <2>2. \A f \in Engine : held'[f][q] = held[f][q] BY <1>1, <1>3, <1>7
  <2>3. (Unheld(q)' <=> Unheld(q)) /\ \A s \in Slot : Works(s, q)' <=> Works(s, q)
    BY <1>1, <2>2 DEF Unheld, Works
  <2>4. \A s \in Slot : Works(s, q) => ops[s] \in Fit BY <1>2 DEF TypeInv, Works
  <2>5. \A s \in Slot : Works(s, q) =>
          (InStep(ops[s], q, held, rules[q]) => InStep(ops'[s], q, held', rules'[q]))
    BY <1>1, <2>2, <2>3, <2>4 DEF InStep, Fit
  <2>6. AtRest(q) => AtRest(q)' BY <1>1, <2>2, <2>3 DEF AtRest
  <2> QED BY <2>1, <2>2, <2>3, <2>5, <2>6 DEF Calm, Idle
<1> QED BY <1>4, <1>5, <1>6, <1>7 DEF IInv, CalmInv

\* Mappings that are gone are withdrawn.
LEMMA WithdrawKeeps ==
  ASSUME IInv, NEW calls \in SUBSET Fit, NEW spoil \in SUBSET Port, Launch(calls, spoil),
         life = "open", life' \in {"open", "closing"}, held' \in Table, rules' = rules,
         sweep' = sweep, failures' = failures,
         life' # "open" => \A e \in Engine, p \in Port : held'[e][p] = None,
         \A c \in calls : c.step = "list" /\ c.kind = "remove",
         \A e \in Engine, p \in Port : held'[e][p] \in {held[e][p], None},
         \A c \in calls : c.port \in spoiled' \/ \A e \in Engine : held'[e][c.port] = None,
         \A e \in Engine, p \in Port \ spoiled' :
           held'[e][p] # held[e][p] => \E c \in calls : c.port = p
  PROVE  IInv'
<1>1. TypeInv BY DEF IInv
<1>2. ASSUME NEW p \in Port \ spoiled', Calm(p) PROVE Calm(p)'
  <2>1. \A e, f \in Engine : held'[e][p] # None /\ held'[f][p] # None => e = f
    BY <1>2 DEF Calm
  <2>2. \A c \in calls : c.port = p => InStep(c, p, held', rules'[p]) BY <1>2 DEF InStep, Unheld
  <2>3. (\A c \in calls : c.port # p) => \A e \in Engine : held'[e][p] = held[e][p]
    BY <1>2
  <2>4. (\A c \in calls : c.port # p) => (AtRest(p) => AtRest(p)')
    BY <2>3 DEF AtRest, Unheld
  <2> QED BY <1>1, <1>2, <2>1, <2>2, <2>3, <2>4, LaunchCalm
<1> QED BY <1>1, <1>2, LaunchKeeps DEF TypeInv

LEMMA PortUnmappedKeeps ==
  ASSUME IInv, NEW e \in Engine, NEW p \in Port, PortUnmapped(e, p) PROVE IInv'
<1> DEFINE c == RemoveCall(e, p)
<1>1. /\ life = "open" /\ held[e][p] # None /\ held' = [held EXCEPT ![e][p] = None]
      /\ Launch({c}, {}) /\ life' = life /\ rules' = rules /\ sweep' = sweep
      /\ failures' = failures
  BY DEF PortUnmapped
<1>2. c \in Fit /\ c.step = "list" /\ c.port = p /\ c.kind = "remove" BY CallFit
<1> HIDE DEF c
<1>3. TypeInv /\ CalmInv /\ spoiled \subseteq spoiled'
  <2>1. TypeInv /\ CalmInv /\ {c} \in SUBSET Fit BY <1>2 DEF IInv
  <2> QED BY <1>1, <2>1, Launched
<1>4. /\ held' \in Table /\ held'[e][p] = None
      /\ \A f \in Engine, q \in Port : f # e \/ q # p => held'[f][q] = held[f][q]
  BY <1>1, <1>3 DEF TypeInv, Table
<1>5. p \in spoiled' \/ \A f \in Engine : held'[f][p] = None
  BY <1>1, <1>3, <1>4 DEF CalmInv, Calm
<1> DEFINE calls == {c}
<1>6. calls \in SUBSET Fit /\ {} \in SUBSET Port /\ Launch(calls, {}) BY <1>1, <1>2
<1>7. \A d \in calls : d.step = "list" /\ d.kind = "remove" BY <1>2
<1>8. \A d \in calls : d.port \in spoiled' \/ \A f \in Engine : held'[f][d.port] = None
  BY <1>2, <1>5
<1>9. \A f \in Engine, q \in Port \ spoiled' :
        held'[f][q] # held[f][q] => \E d \in calls : d.port = q
  BY <1>2, <1>4
<1>10. \A f \in Engine, q \in Port : held'[f][q] \in {held[f][q], None} BY <1>4
<1> HIDE DEF calls
<1> QED BY <1>1, <1>4, <1>6, <1>7, <1>8, <1>9, <1>10, WithdrawKeeps

LEMMA RevokeKeeps == ASSUME IInv, NEW p \in Port, Revoke(p) PROVE IInv'
<1> DEFINE calls == {RemoveCall(e, p) : e \in Holders(p)}
<1>1. /\ life = "open" /\ held' = [e \in Engine |-> [held[e] EXCEPT ![p] = None]]
      /\ Launch(calls, {}) /\ life' = life /\ rules' = rules /\ sweep' = sweep
      /\ failures' = failures
  BY DEF Revoke
<1>2. calls \in SUBSET Fit /\ \A c \in calls : c.step = "list" /\ c.port = p /\ c.kind = "remove"
  BY CallFit DEF Holders
<1>3. \A e \in Engine : held[e][p] # None => \E c \in calls : c.port = p
  BY CallFit DEF Holders
<1> HIDE DEF calls
<1>4. TypeInv BY DEF IInv
<1>5. /\ held' \in Table /\ \A e \in Engine : held'[e][p] = None
      /\ \A e \in Engine, q \in Port : q # p => held'[e][q] = held[e][q]
  BY <1>1, <1>4 DEF TypeInv, Table
<1> QED BY <1>1, <1>2, <1>3, <1>5, WithdrawKeeps

\* All mappings are withdrawn.
LEMMA AllWithdrawn ==
  /\ Withdrawals \in SUBSET Fit
  /\ \A c \in Withdrawals : c.step = "list" /\ c.kind = "remove" /\ c.port \in Port
  /\ \A e \in Engine, p \in Port : held[e][p] # None => \E c \in Withdrawals : c.port = p
BY CallFit DEF Withdrawals, Holders

LEMMA ResetEpochKeeps == ASSUME IInv, ResetEpoch PROVE IInv'
<1> DEFINE spoil == {p \in Port : "upnp" \in Holders(p)}
<1>1. /\ life = "open" /\ Launch(Withdrawals, spoil) /\ life' = life /\ rules' = rules
      /\ sweep' = sweep /\ failures' = failures
      /\ held' = [e \in Engine |-> IF e = "pmp" THEN [p \in Port |-> None] ELSE held[e]]
  BY DEF ResetEpoch
<1>2. TypeInv BY DEF IInv
<1>3. spoil \in SUBSET Port OBVIOUS
<1> HIDE DEF spoil
<1>4. spoil \subseteq spoiled' BY <1>1, <1>2, <1>3, AllWithdrawn, Launched
<1>5. /\ held' \in Table
      /\ \A e \in Engine, p \in Port : held'[e][p] = IF e = "pmp" THEN None ELSE held[e][p]
  BY <1>1, <1>2 DEF TypeInv, Table
<1>6. \A c \in Withdrawals : c.port \in spoiled' \/ \A e \in Engine : held'[e][c.port] = None
  <2>1. \A p \in Port : p \notin spoil => \A e \in Engine : e = "upnp" => held[e][p] = None
    BY DEF Holders, spoil
  <2>2. \A e \in Engine : e = "pmp" \/ e = "upnp" BY GatewayAssumption
  <2>3. \A p \in Port : p \in spoiled' \/ \A e \in Engine : held'[e][p] = None
    BY <1>4, <1>5, <2>1, <2>2
  <2>4. \A c \in Withdrawals : c.port \in Port BY AllWithdrawn
  <2> QED BY <2>3, <2>4
<1>7. \A e \in Engine, p \in Port \ spoiled' :
        held'[e][p] # held[e][p] => \E c \in Withdrawals : c.port = p
  BY <1>5, AllWithdrawn
<1> QED BY <1>1, <1>3, <1>5, <1>6, <1>7, AllWithdrawn, WithdrawKeeps

LEMMA CloseKeeps == ASSUME IInv, Close PROVE IInv'
<1>1. /\ life = "open" /\ life' = "closing" /\ Launch(Withdrawals, {}) /\ rules' = rules
      /\ sweep' = sweep /\ failures' = failures
      /\ held' = [e \in Engine |-> [p \in Port |-> None]]
  BY DEF Close
<1>2. held' \in Table /\ \A e \in Engine, p \in Port : held'[e][p] = None
  BY <1>1 DEF Table
<1>3. \A c \in Withdrawals : c.port \in spoiled' \/ \A e \in Engine : held'[e][c.port] = None
  BY <1>2, AllWithdrawn
<1>4. \A e \in Engine, p \in Port \ spoiled' :
        held'[e][p] # held[e][p] => \E c \in Withdrawals : c.port = p
  BY <1>2, AllWithdrawn
<1> QED BY <1>1, <1>2, <1>3, <1>4, AllWithdrawn, WithdrawKeeps

LEMMA DestroyAdapterKeeps == ASSUME IInv, DestroyAdapter PROVE IInv'
<1>1. /\ life = "closing" /\ held' = held /\ ops' = ops /\ sweep' = sweep /\ spoiled' = spoiled
      /\ \/ life' = "closed" /\ rules' = [p \in Port |-> <<>>] /\ failures' = failures
         \/ life' = "abandoned" /\ rules' = rules /\ Fail
  BY DEF DestroyAdapter
<1>2. TypeInv /\ HandleInv /\ LifeInv /\ CalmInv BY DEF IInv
<1>3. \A p \in Port : rules'[p] = <<>> \/ rules'[p] = rules[p] BY <1>1
<1>4. TypeInv'
  <2>1. rules' \in [Port -> Seq(Rule)]
    <3>1. CASE rules' = rules BY <1>2, <3>1 DEF TypeInv
    <3>2. CASE rules' = [p \in Port |-> <<>>] BY <3>2
    <3> QED BY <1>1, <3>1, <3>2
  <2>2. failures' \in 0 .. MaxFailures BY <1>1, <1>2, GatewayAssumption DEF Fail, TypeInv
  <2> QED BY <1>1, <1>2, <2>1, <2>2 DEF TypeInv
<1>5. HandleInv'
  <2>1. ASSUME NEW p \in Port PROVE Distinct(rules'[p])
    <3>1. CASE rules'[p] = <<>> BY <3>1 DEF Distinct
    <3>2. CASE rules'[p] = rules[p] BY <1>2, <3>2 DEF HandleInv
    <3> QED BY <1>3, <3>1, <3>2
  <2> QED BY <2>1 DEF HandleInv
<1>6. LifeInv' BY <1>1, <1>2 DEF LifeInv, NothingLeft
<1>7. ASSUME NEW p \in Port \ spoiled PROVE Calm(p)'
  <2>1. Calm(p) /\ (rules'[p] = <<>> \/ rules'[p] = rules[p]) BY <1>2, <1>3, <1>7 DEF CalmInv
  <2>2. \A e \in Engine : held[e][p] = None BY <1>1, <1>2 DEF LifeInv
  <2>3. (\A s \in Slot : Works(s, p)' <=> Works(s, p)) /\ (Unheld(p)' <=> Unheld(p))
    BY <1>1 DEF Works, Unheld
  <2>4. \A s \in Slot : Works(s, p) =>
          (InStep(ops[s], p, held, rules[p]) => InStep(ops'[s], p, held', rules'[p]))
    BY <1>1, <2>1, <2>3 DEF InStep
  <2>5. AtRest(p) => AtRest(p)'
    <3>1. CASE rules'[p] = <<>> BY <1>1, <2>2, <3>1 DEF AtRest
    <3>2. CASE rules'[p] = rules[p] BY <1>1, <2>3, <3>2 DEF AtRest
    <3> QED BY <2>1, <3>1, <3>2
  <2> QED BY <1>1, <2>1, <2>3, <2>4, <2>5 DEF Calm, Idle
<1> QED BY <1>1, <1>4, <1>5, <1>6, <1>7 DEF IInv, CalmInv

-----------------------------------------------------------------------------
(* Commands.                                                               *)

\* A command of a call: the other ports stay as they are.
LEMMA CommandKeeps ==
  ASSUME IInv, NEW s \in Slot, ops[s] # None, NEW p \in Port, p = ops[s].port,
         NEW o \in Fit \cup {None}, o # None => o.port = p, ops' = [ops EXCEPT ![s] = o],
         life' = life, sweep' = sweep, failures' \in 0 .. MaxFailures,
         rules' \in [Port -> Seq(Rule)], HandleInv', NothingLeft', held' \in Table,
         \A e \in Engine, q \in Port : held'[e][q] \in {held[e][q], None},
         \A e \in Engine, q \in Port : q # p => held'[e][q] = held[e][q],
         \A q \in Port : q # p => rules'[q] = rules[q],
         spoiled' \in {spoiled, spoiled \cup {p}},
         p \notin spoiled' /\ Calm(p) /\ o # None => InStep(o, p, held', rules'[p]),
         p \notin spoiled' /\ Calm(p) /\ o = None => AtRest(p)'
  PROVE  IInv'
<1>1. TypeInv /\ LifeInv /\ CalmInv BY DEF IInv
<1>2. TypeInv' BY <1>1 DEF TypeInv
<1>3. LifeInv' BY <1>1 DEF LifeInv
<1>4. ASSUME NEW q \in Port \ spoiled' PROVE Calm(q)'
  <2>1. Calm(q) BY <1>1, <1>4 DEF CalmInv
  <2>2. CASE q = p
    <3>1. \A e, f \in Engine : held'[e][p] # None /\ held'[f][p] # None => e = f
      BY <2>1, <2>2 DEF Calm
    <3>2. Calm(p) /\ p \notin spoiled' BY <1>4, <2>1, <2>2
    <3>3. o # None => o.port = p /\ InStep(o, p, held', rules'[p]) BY <3>2
    <3>4. o = None => AtRest(p)' BY <3>2
    <3> QED BY <1>1, <2>2, <3>1, <3>2, <3>3, <3>4, OwnCalm
  <2>3. CASE q # p
    <3>1. rules'[q] = rules[q] /\ \A e \in Engine : held'[e][q] = held[e][q] BY <2>3
    <3> QED BY <1>1, <2>1, <2>3, <3>1, OtherCalm
  <2> QED BY <2>2, <2>3
<1> QED BY <1>2, <1>3, <1>4 DEF IInv, CalmInv

\* What the call of a port finds.
LEMMA Found ==
  ASSUME TypeInv, NEW s \in Slot, ops[s] # None
  PROVE  /\ ops[s] \in Fit /\ ops[s].port \in Port
         /\ Calm(ops[s].port) => InStep(ops[s], ops[s].port, held, rules[ops[s].port])
BY DEF TypeInv, Fit, Op, Calm, Works

LEMMA Handled ==
  ASSUME TypeInv, NEW p \in Port
  PROVE  /\ HandlesOf(p) \subseteq Handle
         /\ \A i \in DOMAIN rules[p] : rules[p][i].handle \in HandlesOf(p)
         /\ HandlesOf(p) = {} => rules[p] = <<>>
<1>1. rules[p] \in Seq(Rule) BY DEF TypeInv
<1>2. \A i \in DOMAIN rules[p] : rules[p][i] \in Rule BY <1>1
<1>3. HandlesOf(p) \subseteq Handle BY <1>2 DEF HandlesOf, Rule
<1>4. \A i \in DOMAIN rules[p] : rules[p][i].handle \in HandlesOf(p) BY DEF HandlesOf
<1>5. ASSUME HandlesOf(p) = {} PROVE rules[p] = <<>>
  <2>1. DOMAIN rules[p] = 1 .. Len(rules[p]) /\ Len(rules[p]) \in Nat BY <1>1
  <2>2. 1 \notin DOMAIN rules[p] BY <1>4, <1>5
  <2>3. Len(rules[p]) = 0 BY <2>1, <2>2
  <2> QED BY <1>1, <2>3, EmptySeq
<1> QED BY <1>3, <1>4, <1>5

LEMMA ClearedFit ==
  ASSUME NEW o \in Fit, NEW p \in Port, o.port = p
  PROVE  Cleared(o) \in Fit \cup {None} /\ (Cleared(o) # None => Cleared(o).port = p)
<1>1. CASE o.kind = "add"
  <2> DEFINE x == [o EXCEPT !.step = "write", !.victims = {}]
  <2>1. Cleared(o) = x BY <1>1 DEF Cleared
  <2>2. x \in Fit /\ x.port = p BY <1>1 DEF Fit, Op
  <2> QED BY <2>1, <2>2
<1>2. CASE o.kind # "add" BY <1>2 DEF Cleared
<1> QED BY <1>1, <1>2

\* A call that was in step is in step with what it does next.
LEMMA ClearedInStep ==
  ASSUME NEW o \in Fit, NEW p \in Port, o.port = p, InStep(o, p, held, rules[p]),
         rules'[p] = <<>>,
         \A e \in Engine : held'[e][p] = held[e][p]
  PROVE  /\ Cleared(o) # None => InStep(Cleared(o), p, held', rules'[p])
         /\ Cleared(o) = None => AtRest(p)'
<1>1. CASE o.kind = "add"
  <2> DEFINE x == [o EXCEPT !.step = "write", !.victims = {}]
  <2>1. Cleared(o) = x BY <1>1 DEF Cleared
  <2>2. x \in Fit BY <1>1 DEF Fit, Op
  <2>3. x # None BY <2>2, NoneAssumption DEF Fit
  <2>4. x.kind = "add" /\ x.step = "write" /\ x.by = o.by /\ x.target = o.target /\ o.by \in Engine
    BY <1>1 DEF Fit, Op
  <2> HIDE DEF x
  <2>5. InStep(x, p, held', rules'[p]) BY <1>1, <2>4 DEF InStep
  <2> QED BY <2>1, <2>3, <2>5 DEF InStep
<1>2. CASE o.kind # "add"
  <2>1. Cleared(o) = None BY <1>2 DEF Cleared
  <2>2. o.kind = "remove" BY <1>2 DEF Fit, Op
  <2>3. AtRest(p)' BY <2>2 DEF InStep, AtRest, Unheld
  <2> QED BY <2>1, <2>3
<1> QED BY <1>1, <1>2

LEMMA ListRulesKeeps == ASSUME IInv, NEW s \in Slot, ListRules(s) PROVE IInv'
<1>1. TypeInv /\ HandleInv /\ LifeInv BY DEF IInv
<1>2. ops[s] # None BY DEF ListRules
<1>3. PICK p \in Port : p = ops[s].port BY <1>1, <1>2, Found
<1> DEFINE victims == HandlesOf(p)
           deletes == [ops[s] EXCEPT !.step = "delete", !.victims = victims]
<1>4. /\ life' = life /\ held' = held /\ rules' = rules /\ sweep' = sweep
      /\ \/ /\ ops' = [ops EXCEPT ![s] = IF victims = {} THEN Cleared(ops[s]) ELSE deletes]
            /\ failures' = failures /\ spoiled' = spoiled
         \/ Fail /\ ops' = [ops EXCEPT ![s] = Cleared(ops[s])] /\ spoiled' = spoiled \cup {p}
  BY <1>1, <1>3 DEF ListRules, TypeInv
<1>0. ops[s] \in Fit /\ (Calm(p) => InStep(ops[s], p, held, rules[p])) BY <1>1, <1>2, <1>3, Found
<1>5. /\ victims \subseteq Handle
      /\ \A i \in DOMAIN rules[p] : rules[p][i].handle \in victims
      /\ victims = {} => rules[p] = <<>>
  BY <1>1, <1>0, <1>3, Handled
<1> HIDE DEF victims
<1>6. ASSUME victims # {}
      PROVE  /\ deletes \in Fit /\ deletes.port = p /\ deletes.kind = ops[s].kind
             /\ deletes.by = ops[s].by /\ deletes.target = ops[s].target
             /\ deletes.step = "delete" /\ deletes.victims = victims
  BY <1>0, <1>3, <1>5, <1>6 DEF Fit, Op
<1> HIDE DEF deletes
<1>7. ASSUME victims # {}, Calm(p) PROVE InStep(deletes, p, held', rules'[p])
  BY <1>2, <1>4, <1>0, <1>3, <1>5, <1>6, <1>7 DEF InStep, Unheld
<1>8. failures' \in 0 .. MaxFailures BY <1>1, <1>2, <1>4, GatewayAssumption DEF Fail, TypeInv
<1>9. HandleInv' /\ NothingLeft' /\ held' \in Table /\ rules' \in [Port -> Seq(Rule)]
  BY <1>1, <1>2, <1>4 DEF TypeInv, HandleInv, LifeInv, NothingLeft
<1>10. Cleared(ops[s]) \in Fit \cup {None} /\ (Cleared(ops[s]) # None => Cleared(ops[s]).port = p)
  BY <1>0, <1>3, ClearedFit
<1>11. CASE victims = {} /\ ops' = [ops EXCEPT ![s] = Cleared(ops[s])] /\ spoiled' = spoiled
  <2>1. rules'[p] = <<>> /\ \A e \in Engine : held'[e][p] = held[e][p] BY <1>2, <1>4, <1>5, <1>11
  <2>2. ASSUME Calm(p)
        PROVE  /\ Cleared(ops[s]) # None => InStep(Cleared(ops[s]), p, held', rules'[p])
               /\ Cleared(ops[s]) = None => AtRest(p)'
    <3>1. InStep(ops[s], p, held, rules[p]) /\ ops[s] \in Fit /\ p \in Port /\ ops[s].port = p
      BY <1>0, <1>3, <2>2
    <3> QED BY <2>1, <3>1, ClearedInStep
  <2> QED BY <1>2, <1>4, <1>0, <1>3, <1>8, <1>9, <1>10, <1>11, <2>2, CommandKeeps
<1>12. CASE victims # {} /\ ops' = [ops EXCEPT ![s] = deletes] /\ spoiled' = spoiled
  <2>1. deletes # None BY <1>6, <1>12, NoneAssumption DEF Fit
  <2> QED BY <1>2, <1>4, <1>0, <1>3, <1>6, <1>7, <1>8, <1>9, <1>12, <2>1, CommandKeeps
<1>13. CASE ops' = [ops EXCEPT ![s] = Cleared(ops[s])] /\ spoiled' = spoiled \cup {p}
  BY <1>2, <1>4, <1>0, <1>3, <1>8, <1>9, <1>10, <1>13, CommandKeeps
<1> QED BY <1>2, <1>4, <1>11, <1>12, <1>13

LEMMA DeleteRuleKeeps == ASSUME IInv, NEW s \in Slot, DeleteRule(s) PROVE IInv'
<1>1. TypeInv /\ HandleInv /\ LifeInv BY DEF IInv
<1>2. ops[s] # None /\ ops[s].step = "delete" BY DEF DeleteRule
<1>3. PICK p \in Port : p = ops[s].port BY <1>1, <1>2, Found
<1>4. ops[s] \in Fit /\ (Calm(p) => InStep(ops[s], p, held, rules[p])) BY <1>1, <1>2, <1>3, Found
<1>5. ops[s].victims \subseteq Nat /\ ops[s].victims # {} /\ ops[s].victims \subseteq Handle
  BY <1>2, <1>4, GatewayAssumption DEF Fit, Op
<1>6. PICK victim \in ops[s].victims :
        victim = CHOOSE h \in ops[s].victims : \A g \in ops[s].victims : h <= g
  BY <1>5, Least
<1> DEFINE rest == ops[s].victims \ {victim}
           goes == [ops[s] EXCEPT !.victims = rest]
<1>7. /\ life' = life /\ held' = held /\ sweep' = sweep
      /\ ops' = [ops EXCEPT ![s] = IF rest = {} THEN Cleared(ops[s]) ELSE goes]
      /\ \/ /\ rules' = [rules EXCEPT ![p] = Without(rules[p], victim)]
            /\ failures' = failures /\ spoiled' = spoiled
         \/ Fail /\ rules' = rules /\ spoiled' = spoiled \cup {p}
  BY <1>1, <1>3, <1>6 DEF DeleteRule, TypeInv
<1>8. rules[p] \in Seq(Rule) /\ Distinct(rules[p]) BY <1>1 DEF TypeInv, HandleInv
<1>9. /\ Without(rules[p], victim) \in Seq(Rule) /\ Distinct(Without(rules[p], victim))
      /\ \A i \in DOMAIN Without(rules[p], victim) :
           \E j \in DOMAIN rules[p] :
             Without(rules[p], victim)[i] = rules[p][j] /\ rules[p][j].handle # victim
      /\ rules[p] = <<>> => Without(rules[p], victim) = <<>>
  BY <1>8, WithoutRule
<1>10. /\ rules' \in [Port -> Seq(Rule)]
       /\ \A q \in Port : q # p => rules'[q] = rules[q]
       /\ rules'[p] = rules[p] \/ rules'[p] = Without(rules[p], victim)
  BY <1>1, <1>7, <1>9 DEF TypeInv
<1>11. \A q \in Port : Distinct(rules'[q]) BY <1>1, <1>9, <1>10 DEF HandleInv
<1>12. HandleInv' BY <1>11 DEF HandleInv
<1>13. NothingLeft'
  BY <1>1, <1>7, <1>9, <1>10 DEF LifeInv, NothingLeft
<1>14. failures' \in 0 .. MaxFailures BY <1>1, <1>7, GatewayAssumption DEF Fail, TypeInv
<1>15. held' \in Table /\ spoiled' \in {spoiled, spoiled \cup {p}} BY <1>1, <1>7 DEF TypeInv
<1>16. ASSUME p \notin spoiled', Calm(p)
       PROVE  \A i \in DOMAIN rules'[p] : rules'[p][i].handle \in rest
  <2>1. rules'[p] = Without(rules[p], victim) BY <1>1, <1>7, <1>16 DEF TypeInv
  <2>2. \A j \in DOMAIN rules[p] : rules[p][j].handle \in ops[s].victims
    BY <1>2, <1>4, <1>16 DEF InStep
  <2> QED BY <1>9, <2>1, <2>2
<1>17. rest \subseteq Handle BY <1>5
<1> HIDE DEF rest
<1>18. CASE rest = {}
  <2>1. Cleared(ops[s]) \in Fit \cup {None} /\ (Cleared(ops[s]) # None => Cleared(ops[s]).port = p)
    BY <1>3, <1>4, ClearedFit
  <2>2. ASSUME p \notin spoiled', Calm(p)
        PROVE  /\ Cleared(ops[s]) # None => InStep(Cleared(ops[s]), p, held', rules'[p])
               /\ Cleared(ops[s]) = None => AtRest(p)'
    <3>1. InStep(ops[s], p, held, rules[p]) BY <1>4, <2>2
    <3>2. rules'[p] \in Seq(Rule) BY <1>10
    <3>3. DOMAIN rules'[p] = 1 .. Len(rules'[p]) /\ Len(rules'[p]) \in Nat BY <3>2
    <3>4. 1 \notin DOMAIN rules'[p] BY <1>16, <1>18, <2>2
    <3>5. Len(rules'[p]) = 0 BY <3>3, <3>4
    <3>6. rules'[p] = <<>> BY <3>2, <3>5, EmptySeq
    <3>7. \A e \in Engine : held'[e][p] = held[e][p] BY <1>7
    <3> QED BY <1>3, <1>4, <3>1, <3>6, <3>7, ClearedInStep
  <2>3. ops' = [ops EXCEPT ![s] = Cleared(ops[s])] BY <1>7, <1>18
  <2>4. PICK o \in Fit \cup {None} : o = Cleared(ops[s]) BY <2>1
  <2>5. /\ p \notin spoiled' /\ Calm(p) /\ o # None => InStep(o, p, held', rules'[p])
        /\ p \notin spoiled' /\ Calm(p) /\ o = None => AtRest(p)'
    BY <2>2, <2>4
  <2>6. /\ \A e \in Engine, q \in Port : held'[e][q] \in {held[e][q], None}
        /\ \A e \in Engine, q \in Port : q # p => held'[e][q] = held[e][q]
        /\ life' = life /\ sweep' = sweep
    BY <1>7
  <2>7. /\ rules' \in [Port -> Seq(Rule)]
        /\ \A q \in Port : q # p => rules'[q] = rules[q]
    BY <1>10
  <2>8. ops' = [ops EXCEPT ![s] = o] /\ (o # None => o.port = p) BY <2>1, <2>3, <2>4
  <2> QED BY <1>2, <1>3, <1>12, <1>13, <1>14, <1>15, <2>5, <2>6, <2>7, <2>8, CommandKeeps
<1>19. CASE rest # {}
  <2>1. /\ goes \in Fit /\ goes.port = p /\ goes.kind = ops[s].kind /\ goes.by = ops[s].by
        /\ goes.target = ops[s].target /\ goes.step = "delete" /\ goes.victims = rest
    BY <1>2, <1>3, <1>4, <1>17, <1>19 DEF Fit, Op
  <2>2. goes # None BY <2>1, NoneAssumption DEF Fit
  <2>3. ops' = [ops EXCEPT ![s] = goes] BY <1>7, <1>19
  <2> HIDE DEF goes
  <2>4. ASSUME p \notin spoiled', Calm(p) PROVE InStep(goes, p, held', rules'[p])
    <3>1. InStep(ops[s], p, held, rules[p]) BY <1>4, <2>4
    <3>2. \A i \in DOMAIN rules'[p] : rules'[p][i].handle \in rest BY <1>16, <2>4
    <3> QED BY <1>7, <2>1, <3>1, <3>2 DEF InStep
  <2>5. /\ \A e \in Engine, q \in Port : held'[e][q] \in {held[e][q], None}
        /\ \A e \in Engine, q \in Port : q # p => held'[e][q] = held[e][q]
        /\ life' = life /\ sweep' = sweep
    BY <1>7
  <2>6. goes \in Fit \cup {None} /\ goes.port = p BY <2>1
  <2>7. /\ rules' \in [Port -> Seq(Rule)]
        /\ \A q \in Port : q # p => rules'[q] = rules[q]
    BY <1>10
  <2> QED BY <1>2, <1>3, <1>12, <1>13, <1>14, <1>15, <2>2, <2>3, <2>4, <2>5, <2>6, <2>7, CommandKeeps
<1> QED BY <1>18, <1>19

LEMMA WriteRuleKeeps == ASSUME IInv, NEW s \in Slot, WriteRule(s) PROVE IInv'
<1>1. TypeInv /\ HandleInv /\ LifeInv BY DEF IInv
<1>2. ops[s] # None /\ ops[s].step = "write" /\ life # "closed" BY DEF WriteRule
<1>3. PICK p \in Port : p = ops[s].port BY <1>1, <1>2, Found
<1>4. ops[s] \in Fit /\ (Calm(p) => InStep(ops[s], p, held, rules[p])) BY <1>1, <1>2, <1>3, Found
<1>5. ops[s].kind = "add" /\ ops[s].by \in Engine /\ ops[s].target \in Target
  BY <1>2, <1>4 DEF Fit
<1>6. /\ RuleAdded(p, ops[s].target) /\ ops' = [ops EXCEPT ![s] = None]
      /\ life' = life /\ held' = held /\ sweep' = sweep /\ failures' = failures
      /\ spoiled' = spoiled
  BY <1>3 DEF WriteRule
<1>7. /\ rules' \in [Port -> Seq(Rule)] /\ HandleInv'
      /\ \A q \in Port : q # p => rules'[q] = rules[q]
      /\ rules[p] = <<>> => rules'[p] # <<>> /\ rules'[p][1].target = ops[s].target
  BY <1>1, <1>5, <1>6, Added
<1>8. ASSUME Calm(p) PROVE AtRest(p)'
  <2>1. rules[p] = <<>> /\ held[ops[s].by][p] = ops[s].target
    BY <1>2, <1>4, <1>5, <1>8 DEF InStep
  <2>2. ops[s].target # None BY <1>5, GatewayAssumption
  <2>3. \A e \in Engine : held[e][p] # None => held[e][p] = ops[s].target
    BY <1>5, <1>8, <2>1, <2>2 DEF Calm
  <2>4. ~ Unheld(p)' BY <1>5, <1>6, <2>1, <2>2 DEF Unheld
  <2> QED BY <1>6, <1>7, <2>1, <2>3, <2>4 DEF AtRest
<1>9. NothingLeft' /\ held' \in Table /\ failures' \in 0 .. MaxFailures
  BY <1>1, <1>2, <1>6 DEF NothingLeft, TypeInv
<1>10. \A e \in Engine, q \in Port : held'[e][q] = held[e][q] BY <1>6
<1>11. None \in Fit \cup {None} OBVIOUS
<1> QED BY <1>2, <1>3, <1>6, <1>7, <1>8, <1>9, <1>10, <1>11, CommandKeeps

LEMMA WriteFailsKeeps == ASSUME IInv, NEW s \in Slot, WriteFails(s) PROVE IInv'
<1>1. TypeInv /\ HandleInv /\ LifeInv BY DEF IInv
<1>2. ops[s] # None /\ ops[s].step = "write" BY DEF WriteFails
<1>3. PICK p \in Port : p = ops[s].port BY <1>1, <1>2, Found
<1>4. ops[s] \in Fit /\ (Calm(p) => InStep(ops[s], p, held, rules[p])) BY <1>1, <1>2, <1>3, Found
<1>5. ops[s].kind = "add" /\ ops[s].by \in Engine /\ ops[s].target \in Target
  BY <1>2, <1>4 DEF Fit
<1>6. PICK e \in Engine : e = ops[s].by BY <1>5
<1> DEFINE c == RemoveCall(e, p)
<1>7. /\ life' = life /\ sweep' = sweep
      /\ IF life = "closed" THEN failures' = failures /\ rules' = rules
         ELSE Fail /\ (rules' = rules \/ RuleAdded(p, ops[s].target))
      /\ IF held[e][p] = None
         THEN ops' = [ops EXCEPT ![s] = None] /\ held' = held /\ spoiled' = spoiled
         ELSE /\ held' = [held EXCEPT ![e][p] = None]
              /\ ops' = [ops EXCEPT ![s] = c]
              /\ spoiled' = IF Holders(p) # {e} \/ Busy(p) # {s}
                            THEN spoiled \cup {p} ELSE spoiled
  BY <1>3, <1>6 DEF WriteFails
<1>8. c \in Fit /\ c.step = "list" /\ c.port = p /\ c.kind = "remove" BY CallFit
<1> HIDE DEF c
<1>9. c # None BY <1>8, NoneAssumption DEF Fit
<1>10. /\ rules' \in [Port -> Seq(Rule)] /\ HandleInv'
       /\ \A q \in Port : q # p => rules'[q] = rules[q]
  <2>1. CASE rules' = rules BY <1>1, <2>1 DEF TypeInv, HandleInv
  <2>2. CASE RuleAdded(p, ops[s].target) BY <1>1, <1>5, <2>2, Added
  <2> QED BY <1>7, <2>1, <2>2
<1>11. NothingLeft' BY <1>1, <1>7 DEF LifeInv, NothingLeft
<1>12. failures' \in 0 .. MaxFailures BY <1>1, <1>7, GatewayAssumption DEF Fail, TypeInv
<1>13. CASE held[e][p] = None
  <2>1. ~ Calm(p)
    BY <1>2, <1>4, <1>5, <1>6, <1>13, GatewayAssumption DEF InStep
  <2>2. /\ ops' = [ops EXCEPT ![s] = None] /\ held' = held /\ spoiled' = spoiled
        /\ held' \in Table /\ \A f \in Engine, q \in Port : held'[f][q] = held[f][q]
    BY <1>1, <1>7, <1>13 DEF TypeInv
  <2>3. None \in Fit \cup {None} OBVIOUS
  <2> QED BY <1>2, <1>3, <1>7, <1>10, <1>11, <1>12, <2>1, <2>2, <2>3, CommandKeeps
<1>14. CASE held[e][p] # None
  <2>1. /\ held' = [held EXCEPT ![e][p] = None] /\ ops' = [ops EXCEPT ![s] = c]
        /\ spoiled' \in {spoiled, spoiled \cup {p}}
    BY <1>7, <1>14
  <2>2. /\ held' \in Table /\ held'[e][p] = None
        /\ \A f \in Engine, q \in Port : f # e \/ q # p => held'[f][q] = held[f][q]
    BY <1>1, <2>1 DEF TypeInv, Table
  <2>3. ASSUME Calm(p) PROVE InStep(c, p, held', rules'[p])
    <3>1. \A f \in Engine : held'[f][p] = None BY <1>14, <2>2, <2>3 DEF Calm
    <3> QED BY <1>8, <3>1 DEF InStep
  <2>4. /\ \A f \in Engine, q \in Port : held'[f][q] \in {held[f][q], None}
        /\ \A f \in Engine, q \in Port : q # p => held'[f][q] = held[f][q]
    BY <2>2
  <2> QED BY <1>2, <1>3, <1>7, <1>8, <1>9, <1>10, <1>11, <1>12, <2>1, <2>2, <2>3, <2>4, CommandKeeps
<1> QED BY <1>13, <1>14

-----------------------------------------------------------------------------
(* The reconciliation.                                                     *)

\* Only the reconciliation changes, and so what may be left of the rules of an
\* earlier process.
LEMMA SweepKeeps ==
  ASSUME IInv, UNCHANGED <<life, held, rules, ops, spoiled>>,
         failures' \in 0 .. MaxFailures, sweep' \in Sweep \cup {None},
         \A p \in Port : Unheld(p) /\ sweep' # None /\ sweep'.listed /\ AtRest(p) =>
           rules[p] = <<>> \/ p \in sweep'.orphans
  PROVE  IInv'
<1>1. TypeInv' BY DEF IInv, TypeInv
<1>2. HandleInv' /\ LifeInv' BY DEF IInv, HandleInv, LifeInv, NothingLeft
<1>3. ASSUME NEW p \in Port \ spoiled PROVE Calm(p)'
  <2>1. Calm(p) BY <1>3 DEF IInv, CalmInv
  <2>2. (\A s \in Slot : Works(s, p)' <=> Works(s, p)) /\ (Unheld(p)' <=> Unheld(p))
    BY DEF Works, Unheld
  <2>3. AtRest(p) => AtRest(p)' BY <2>2 DEF AtRest
  <2> QED BY <2>1, <2>2, <2>3 DEF Calm, Idle
<1> QED BY <1>1, <1>2, <1>3 DEF IInv, CalmInv

LEMMA ReconcileKeeps == ASSUME IInv, Reconcile PROVE IInv'
<1>1. /\ sweep' = [listed |-> FALSE, orphans |-> {}] /\ failures' = failures
      /\ UNCHANGED <<life, held, rules, ops, spoiled>>
  BY DEF Reconcile
<1>2. sweep' \in Sweep /\ ~ sweep'.listed BY <1>1 DEF Sweep
<1> QED BY <1>1, <1>2, SweepKeeps DEF IInv, TypeInv

LEMMA ReconcileListsKeeps == ASSUME IInv, ReconcileLists PROVE IInv'
<1>1. /\ UNCHANGED <<life, held, rules, ops, spoiled>>
      /\ \/ /\ sweep' = [listed  |-> TRUE,
                         orphans |-> {p \in Port : rules[p] # <<>> /\ Holders(p) = {}}]
            /\ failures' = failures
         \/ Fail /\ sweep' = None
  BY DEF ReconcileLists
<1>2. failures' \in 0 .. MaxFailures BY <1>1, GatewayAssumption DEF Fail, IInv, TypeInv
<1>3. CASE sweep' = None BY <1>1, <1>2, <1>3, SweepKeeps
<1>4. CASE sweep' = [listed  |-> TRUE,
                     orphans |-> {p \in Port : rules[p] # <<>> /\ Holders(p) = {}}]
  <2>1. sweep' \in Sweep BY <1>4 DEF Sweep
  <2>2. sweep'.orphans = {p \in Port : rules[p] # <<>> /\ Holders(p) = {}} BY <1>4
  <2>3. \A p \in Port : Unheld(p) => rules[p] = <<>> \/ p \in sweep'.orphans
    BY <2>2 DEF Unheld, Holders
  <2> QED BY <1>1, <1>2, <2>1, <2>3, SweepKeeps
<1> QED BY <1>1, <1>3, <1>4

LEMMA ReconcileEndsKeeps == ASSUME IInv, ReconcileEnds PROVE IInv'
<1>1. sweep' = None /\ failures' = failures /\ UNCHANGED <<life, held, rules, ops, spoiled>>
  BY DEF ReconcileEnds
<1> QED BY <1>1, SweepKeeps DEF IInv, TypeInv

LEMMA ReconcilePrunesKeeps == ASSUME IInv, ReconcilePrunes PROVE IInv'
<1>1. TypeInv /\ HandleInv /\ LifeInv /\ CalmInv BY DEF IInv
<1>2. sweep # None /\ sweep.listed BY DEF ReconcilePrunes
<1>3. sweep \in Sweep BY <1>1, <1>2 DEF TypeInv
<1>4. PICK p \in sweep.orphans :
        /\ sweep' = [sweep EXCEPT !.orphans = @ \ {p}]
        /\ Launch({RemoveCall("reconcile", p)}, IF Holders(p) # {} THEN {p} ELSE {})
  BY DEF ReconcilePrunes
<1> DEFINE calls == {RemoveCall("reconcile", p)}
           spoil == IF Holders(p) # {} THEN {p} ELSE {}
<1>5. life' = life /\ held' = held /\ rules' = rules /\ failures' = failures
  BY DEF ReconcilePrunes
<1>6. p \in Port BY <1>3 DEF Sweep
<1>7. calls \in SUBSET Fit /\ \A c \in calls : c.step = "list" /\ c.port = p /\ c.kind = "remove"
  BY <1>6, CallFit
<1>8. spoil \in SUBSET Port /\ (Holders(p) # {} => p \in spoil) BY <1>6
<1>9. Launch(calls, spoil) BY <1>4
<1>10. calls # {} OBVIOUS
<1> HIDE DEF calls, spoil
<1>11. /\ ops' \in [Slot -> Fit \cup {None}] /\ spoiled \cup spoil \subseteq spoiled'
       /\ spoiled' \subseteq Port
  BY <1>1, <1>7, <1>8, <1>9, Launched
<1>12. /\ sweep' \in Sweep /\ sweep' # None /\ sweep'.listed
       /\ \A q \in Port : q # p => (q \in sweep'.orphans <=> q \in sweep.orphans)
  BY <1>2, <1>3, <1>4, NoneAssumption DEF Sweep
<1>13. TypeInv' BY <1>1, <1>5, <1>11, <1>12 DEF TypeInv
<1>14. HandleInv' /\ LifeInv' BY <1>1, <1>5 DEF HandleInv, LifeInv, NothingLeft
<1>15. ASSUME NEW q \in Port \ spoiled' PROVE Calm(q)'
  <2>1. Calm(q) BY <1>1, <1>11, <1>15 DEF CalmInv
  <2>2. \A e, f \in Engine : held'[e][q] # None /\ held'[f][q] # None => e = f
    BY <1>5, <2>1 DEF Calm
  <2>3. \A c \in calls : c.port = q => InStep(c, q, held', rules'[q])
    BY <1>5, <1>7, <1>8, <1>11, <1>15 DEF InStep, Holders
  <2>4. (\A c \in calls : c.port # q) => (AtRest(q) => AtRest(q)')
    BY <1>2, <1>5, <1>7, <1>10, <1>12 DEF AtRest, Unheld
  <2> QED BY <1>1, <1>5, <1>7, <1>8, <1>9, <1>15, <2>1, <2>2, <2>3, <2>4, LaunchCalm
<1> QED BY <1>13, <1>14, <1>15 DEF IInv, CalmInv

-----------------------------------------------------------------------------
(* The invariant.                                                          *)

LEMMA InitIInv == Init => IInv
<1> SUFFICES ASSUME Init PROVE IInv OBVIOUS
<1>1. /\ life = "open" /\ held = [e \in Engine |-> [p \in Port |-> None]]
      /\ rules \in [Port -> {<<>>, <<[handle |-> 1, target |-> Left]>>}]
      /\ ops = [s \in Slot |-> None] /\ sweep = None /\ failures = 0 /\ spoiled = {}
  BY DEF Init
<1> DEFINE r == [handle |-> 1, target |-> Left]
<1>2. r \in Rule /\ r.target = Left BY GatewayAssumption DEF Rule
<1> HIDE DEF r
<1>3. \A p \in Port : rules[p] = <<>> \/ rules[p] = <<r>> BY <1>1 DEF r
<1>4. <<>> \in Seq(Rule) /\ <<r>> \in Seq(Rule) /\ DOMAIN <<r>> = {1} /\ <<r>>[1] = r BY <1>2
<1>5. rules \in [Port -> Seq(Rule)] BY <1>1, <1>3, <1>4
<1>6. TypeInv BY <1>1, <1>5, GatewayAssumption DEF TypeInv, Table
<1>7. HandleInv BY <1>3, <1>4 DEF HandleInv, Distinct
<1>8. LifeInv BY <1>1 DEF LifeInv, NothingLeft
<1>9. ASSUME NEW p \in Port PROVE Calm(p)
  <2>1. \A s \in Slot : ~ Works(s, p) BY <1>1 DEF Works
  <2>2. \A e \in Engine : held[e][p] = None BY <1>1
  <2>3. \A i \in DOMAIN rules[p] : rules[p][i].target = Left BY <1>2, <1>3, <1>4
  <2> QED BY <1>1, <2>1, <2>2, <2>3 DEF Calm, AtRest
<1> QED BY <1>6, <1>7, <1>8, <1>9 DEF IInv, CalmInv

LEMMA StutterKeeps == ASSUME IInv, UNCHANGED vars PROVE IInv'
<1>1. /\ life' = life /\ held' = held /\ rules' = rules /\ ops' = ops /\ sweep' = sweep
      /\ failures' = failures /\ spoiled' = spoiled
  BY DEF vars
<1>2. \A p \in Port : Unheld(p) /\ sweep' # None /\ sweep'.listed /\ AtRest(p) =>
           rules[p] = <<>> \/ p \in sweep'.orphans
  BY <1>1 DEF AtRest
<1> QED BY <1>1, <1>2, SweepKeeps DEF IInv, TypeInv

LEMMA NextIInv == ASSUME IInv, [Next]_vars PROVE IInv'
<1>1. CASE \E e \in Engine, p \in Port, t \in Target : PortMapped(e, p, t)
  BY <1>1, PortMappedKeeps
<1>2. CASE \E e \in Engine, p \in Port, t \in Target : PortRenewed(e, p, t)
  BY <1>2, PortRenewedKeeps
<1>3. CASE \E e \in Engine, p \in Port : PortUnmapped(e, p) BY <1>3, PortUnmappedKeeps
<1>4. CASE \E p \in Port : Revoke(p) BY <1>4, RevokeKeeps
<1>5. CASE ResetEpoch BY <1>5, ResetEpochKeeps
<1>6. CASE Close BY <1>6, CloseKeeps
<1>7. CASE DestroyAdapter BY <1>7, DestroyAdapterKeeps
<1>8. CASE \E s \in Slot : Command(s)
  BY <1>8, ListRulesKeeps, DeleteRuleKeeps, WriteRuleKeeps, WriteFailsKeeps DEF Command
<1>9. CASE Reconcile BY <1>9, ReconcileKeeps
<1>10. CASE ReconcileLists BY <1>10, ReconcileListsKeeps
<1>11. CASE ReconcilePrunes BY <1>11, ReconcilePrunesKeeps
<1>12. CASE ReconcileEnds BY <1>12, ReconcileEndsKeeps
<1>13. CASE UNCHANGED vars BY <1>13, StutterKeeps
<1> QED BY <1>1, <1>2, <1>3, <1>4, <1>5, <1>6, <1>7, <1>8, <1>9, <1>10, <1>11, <1>12, <1>13
        DEF Next

THEOREM Invariance == Spec => []IInv
<1>1. Init => IInv BY InitIInv
<1>2. IInv /\ [Next]_vars => IInv' BY NextIInv
<1> QED BY <1>1, <1>2, PTL DEF Spec

-----------------------------------------------------------------------------
(* The theorems.                                                           *)

\* Every variable keeps its type: what an adapter call writes is what an engine
\* granted, and it deletes rules by handles the kernel gave.
THEOREM TypeCorrect == Spec => []TypeOK
<1>1. IInv => TypeOK BY DEF IInv, TypeInv, TypeOK, Fit, Table
<1> QED BY <1>1, Invariance, PTL

LEMMA SettledRest ==
  ASSUME IInv, NEW p \in Port \ spoiled, Settled(p) PROVE AtRest(p)
<1>1. Idle(p) BY DEF Settled, Busy, Idle, Works
<1> QED BY <1>1 DEF IInv, CalmInv, Calm

\* A mapping that an engine holds while no adapter call for its port is under
\* way is forwarded to where it was granted, whatever the calls of apply(),
\* withdraw() and reconcile() for this and other ports were, except on the ports
\* where the gateway and the kernel are known to part (spoiled).
THEOREM GrantedCorrect == Spec => []GrantedIsForwarded
<1>1. IInv => GrantedIsForwarded
  <2> SUFFICES ASSUME IInv, NEW p \in Port \ spoiled, NEW e \in Engine,
                      Settled(p), held[e][p] # None
               PROVE  Effective(p) = held[e][p]
    BY DEF GrantedIsForwarded
  <2>1. rules[p] # <<>> /\ rules[p][1].target = held[e][p] BY SettledRest DEF AtRest
  <2>2. Head(rules[p]) = rules[p][1] BY <2>1 DEF IInv, TypeInv
  <2> QED BY <2>1, <2>2 DEF Effective
<1> QED BY <1>1, Invariance, PTL

\* A mapping that is gone is not forwarded once its removal is through.
THEOREM GoneCorrect == Spec => []GoneIsClosed
<1>1. IInv => GoneIsClosed
  <2> SUFFICES ASSUME IInv, NEW p \in Port \ spoiled, Settled(p), Holders(p) = {}
               PROVE  Effective(p) \in {None, Left}
    BY DEF GoneIsClosed
  <2>1. Unheld(p) BY DEF Holders, Unheld
  <2>2. \A i \in DOMAIN rules[p] : rules[p][i].target = Left BY <2>1, SettledRest DEF AtRest
  <2>3. rules[p] \in Seq(Rule) BY DEF IInv, TypeInv
  <2>4. CASE rules[p] = <<>> BY <2>4 DEF Effective
  <2>5. CASE rules[p] # <<>>
    <3>1. 1 \in DOMAIN rules[p] /\ Head(rules[p]) = rules[p][1] BY <2>3, <2>5
    <3> QED BY <2>2, <2>5, <3>1 DEF Effective
  <2> QED BY <2>4, <2>5
<1> QED BY <1>1, Invariance, PTL

\* A gateway that has closed forwards nothing, though adapter calls were under
\* way when close() deleted the table of rules; where that command failed none of
\* its own rules is left on a port that is not spoiled, once its calls are through.
THEOREM ClosedCorrect == Spec => []ClosedForwardsNoGrant
<1>1. ASSUME IInv, life = "abandoned", NEW p \in Port \ spoiled, Settled(p)
      PROVE  \A i \in DOMAIN rules[p] : rules[p][i].target = Left
  <2>1. Unheld(p) BY <1>1 DEF IInv, LifeInv, Unheld
  <2> QED BY <1>1, <2>1, SettledRest DEF AtRest
<1>2. IInv => ClosedForwardsNoGrant BY <1>1 DEF IInv, LifeInv, NothingLeft, ClosedForwardsNoGrant
<1> QED BY <1>2, Invariance, PTL

\* A reconciliation that ends has left no rule without a mapping, those of an
\* earlier process included.
THEOREM ReconcileCorrect == Spec => ReconciledIsClean
<1>1. ASSUME IInv, [Next]_vars, sweep # None, sweep.listed, sweep' = None,
             NEW p \in Port \ spoiled', Settled(p), Holders(p) = {}
      PROVE  rules[p] = <<>>
  <2>1. ReconcileEnds
    <3>1. \A x \in Sweep : x # None BY NoneAssumption
    <3>2. ~ UNCHANGED vars BY <1>1 DEF vars
    <3>3. sweep' # sweep BY <1>1
    <3>4. ~ Reconcile BY <1>1 DEF Reconcile
    <3>5. ~ ReconcileLists BY <1>1 DEF ReconcileLists
    <3>6. ~ ReconcilePrunes
      <4>1. sweep \in Sweep BY <1>1 DEF IInv, TypeInv
      <4>2. \A q : [sweep EXCEPT !.orphans = @ \ {q}] \in Sweep BY <4>1 DEF Sweep
      <4> QED BY <1>1, <3>1, <4>2 DEF ReconcilePrunes
    <3>7. \A s \in Slot : ~ Command(s)
      BY <3>3 DEF Command, ListRules, DeleteRule, WriteRule, WriteFails
    <3> QED BY <1>1, <3>2, <3>3, <3>4, <3>5, <3>6, <3>7
            DEF Next, PortMapped, PortRenewed, PortUnmapped, Revoke, ResetEpoch, Close, DestroyAdapter
  <2>2. sweep.orphans = {} /\ spoiled' = spoiled BY <2>1 DEF ReconcileEnds
  <2>3. Unheld(p) BY <1>1 DEF Holders, Unheld
  <2> QED BY <1>1, <2>2, <2>3, SettledRest DEF AtRest
<1>2. IInv /\ [Next]_vars =>
        (sweep # None /\ sweep.listed /\ sweep' = None =>
           \A p \in Port \ spoiled' : Settled(p) /\ Holders(p) = {} => rules[p] = <<>>)
  BY <1>1
<1> QED BY <1>2, Invariance, PTL DEF Spec, ReconciledIsClean
=============================================================================
