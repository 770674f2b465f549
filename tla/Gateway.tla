------------------------------ MODULE Gateway ------------------------------
(***************************************************************************)
(* The gateway's transport (src/src/server.js) between the two protocol    *)
(* engines and a kernel adapter (src/src/enforce/nftables.js on            *)
(* src/src/enforce/exec.js).  An engine decides and tells; the gateway     *)
(* turns its events into adapter calls and does not wait for them.  An     *)
(* adapter call is a series of commands, each a process of its own, so     *)
(* calls overlap with one another and with everything the engines do.      *)
(*                                                                         *)
(* The engines are taken by their events (PMPServer says when they occur); *)
(* of the three rules of a mapping the one that forwards, in the           *)
(* prerouting chain, is modelled: nothing depends on the other two.        *)
(* Operators named ...Faulty are plausible slips in the code they precede; *)
(* no definition uses them.                                                *)
(***************************************************************************)
EXTENDS Naturals, Sequences, SequencesExt, Functions

CONSTANTS
  Engine,      \* the engines built, of "pmp" and "upnp"
  Port,        \* a protocol and an external port
  Target,      \* an internal address and port
  None,        \* no mapping, no operation, no reconciliation
  Left,        \* the target of a rule an earlier process left behind
  Slot,        \* bound: adapter calls under way at one time
  Handle,      \* what the kernel calls its rules; bound: one is used again only
               \* when nothing remembers it
  MaxFailures  \* bound: commands that fail or time out in one run

ASSUME GatewayAssumption ==
  /\ Engine \subseteq {"pmp", "upnp"}
  /\ Handle \subseteq Nat /\ 1 \in Handle /\ MaxFailures \in Nat
  /\ None \notin Target /\ Left \notin Target

VARIABLES
  life,      \* "open", "closing" from close() to its last command, then "closed", or
             \* "abandoned" with the table of rules still in the kernel
  held,      \* the mapping table of each engine
  rules,     \* the forwarding rules in the kernel, by port, in their order
  ops,       \* the adapter calls under way
  sweep,     \* reconcile(): None, or the orphans still to be removed
  failures,  \* commands that failed so far
  spoiled    \* ports on which the gateway and the kernel may part, see GrantedIsForwarded

vars == <<life, held, rules, ops, sweep, failures, spoiled>>

Op == [kind    : {"add", "remove"},
       by      : Engine \cup {"reconcile"},
       port    : Port,
       target  : Target \cup {None},
       step    : {"list", "delete", "write"},
       victims : SUBSET Handle]

Rule == [handle : Handle, target : Target \cup {Left}]

Sweep == [listed : BOOLEAN, orphans : SUBSET Port]

ASSUME NoneAssumption == None \notin Op \cup Sweep

Free        == {s \in Slot : ops[s] = None}
Busy(p)     == {s \in Slot : ops[s] # None /\ ops[s].port = p}
Holders(p)  == {e \in Engine : held[e][p] # None}
HandlesOf(p) == {rules[p][i].handle : i \in DOMAIN rules[p]}

\* The rule that takes effect is the first of those for a port.
Effective(p) == IF rules[p] = <<>> THEN None ELSE Head(rules[p]).target

-----------------------------------------------------------------------------
(* Events of the engines.                                                  *)

AddCall(e, p, t) ==
  [kind |-> "add", by |-> e, port |-> p, target |-> t, step |-> "list", victims |-> {}]

RemoveCall(by, p) ==
  [kind |-> "remove", by |-> by, port |-> p, target |-> None, step |-> "list", victims |-> {}]

\* Calls begun together.  Their commands run beside those of the calls under
\* way; a port with two calls at once is spoiled.
Launch(calls, spoil) ==
  /\ \E slot \in Injection(calls, Free) :
       ops' = [s \in Slot |-> IF \E c \in calls : slot[c] = s
                              THEN CHOOSE c \in calls : slot[c] = s ELSE ops[s]]
  /\ spoiled' = spoiled \cup spoil
       \cup {c.port : c \in {d \in calls : Busy(d.port) # {}}}
       \cup {c.port : c \in {d \in calls : \E o \in calls : o # d /\ o.port = d.port}}

\* 'port-mapped': apply().  Nothing keeps the engines from granting one port
\* both.
PortMapped(e, p, t) ==
  /\ life = "open"
  /\ held[e][p] = None
  /\ held' = [held EXCEPT ![e][p] = t]
  /\ Launch({AddCall(e, p, t)}, IF Holders(p) # {} THEN {p} ELSE {})
  /\ UNCHANGED <<life, rules, sweep, failures>>

\* 'port-renewed': nothing is applied, also when the client re-pointed its
\* mapping at another internal port.
PortRenewed(e, p, t) ==
  /\ life = "open"
  /\ held[e][p] # None
  /\ held' = [held EXCEPT ![e][p] = t]
  /\ spoiled' = IF held[e][p] = t THEN spoiled ELSE spoiled \cup {p}
  /\ UNCHANGED <<life, rules, ops, sweep, failures>>

PortUnmappedFaulty(e, p) ==   \* the rule is forgotten
  /\ life = "open"
  /\ held[e][p] # None
  /\ held' = [held EXCEPT ![e][p] = None]
  /\ UNCHANGED <<life, rules, ops, sweep, failures, spoiled>>

\* 'port-unmapped' and 'port-expired': withdraw().
PortUnmapped(e, p) ==
  /\ life = "open"
  /\ held[e][p] # None
  /\ held' = [held EXCEPT ![e][p] = None]
  /\ Launch({RemoveCall(e, p)}, {})
  /\ UNCHANGED <<life, rules, sweep, failures>>

\* revoke() asks both engines.
Revoke(p) ==
  /\ life = "open"
  /\ Holders(p) # {}
  /\ held' = [e \in Engine |-> [held[e] EXCEPT ![p] = None]]
  /\ Launch({RemoveCall(e, p) : e \in Holders(p)}, {})
  /\ UNCHANGED <<life, rules, sweep, failures>>

Withdrawals == UNION {{RemoveCall(e, p) : e \in Holders(p)} : p \in Port}

\* resetEpoch(): the rules of both engines are withdrawn, the table of one is
\* emptied.
ResetEpoch ==
  /\ life = "open"
  /\ held' = [e \in Engine |-> IF e = "pmp" THEN [p \in Port |-> None] ELSE held[e]]
  /\ Launch(Withdrawals, {p \in Port : "upnp" \in Holders(p)})
  /\ UNCHANGED <<life, rules, sweep, failures>>

CloseFaulty ==   \* the engines are destroyed first, and have no mappings to withdraw
  /\ life = "open"
  /\ life' = "closing"
  /\ held' = [e \in Engine |-> [p \in Port |-> None]]
  /\ UNCHANGED <<rules, ops, sweep, failures, spoiled>>

\* close(): the rules are withdrawn, then the engines destroyed.
Close ==
  /\ life = "open"
  /\ life' = "closing"
  /\ Launch(Withdrawals, {})
  /\ held' = [e \in Engine |-> [p \in Port |-> None]]
  /\ UNCHANGED <<rules, sweep, failures>>

-----------------------------------------------------------------------------
(* Commands of the adapter.                                                *)

Fail == failures < MaxFailures /\ failures' = failures + 1

\* destroy() of the adapter, the last command of close(): the table of rules
\* is deleted, whatever calls are still under way.  That this fails, or is
\* killed by its timeout, is ignored.
DestroyAdapter ==
  /\ life = "closing"
  /\ \/ life' = "closed" /\ rules' = [p \in Port |-> <<>>] /\ UNCHANGED failures
     \/ life' = "abandoned" /\ Fail /\ UNCHANGED rules
  /\ UNCHANGED <<held, ops, sweep, spoiled>>

\* The rules there were are deleted: add() goes on to write, remove() is through.
Cleared(o) == IF o.kind = "add" THEN [o EXCEPT !.step = "write", !.victims = {}] ELSE None

\* delete_by_comment() reads the handles of the rules there are now.  When it
\* cannot, remove() reports it and add() goes on.
ListRules(s) ==
  /\ ops[s] # None /\ ops[s].step = "list"
  /\ LET p       == ops[s].port
         victims == HandlesOf(p)
     IN  \/ /\ ops' = [ops EXCEPT ![s] = IF victims = {} THEN Cleared(@)
                                         ELSE [@ EXCEPT !.step = "delete", !.victims = victims]]
            /\ UNCHANGED <<failures, spoiled>>
         \/ /\ Fail
            /\ ops' = [ops EXCEPT ![s] = Cleared(@)]
            /\ spoiled' = spoiled \cup {p}
  /\ UNCHANGED <<life, held, rules, sweep>>

\* A handle names one rule.
Without(q, h) ==
  IF \E i \in DOMAIN q : q[i].handle = h
  THEN RemoveAt(q, CHOOSE i \in DOMAIN q : q[i].handle = h) ELSE q

\* One rule is deleted by its handle; that it is gone already, or that the
\* command fails, is ignored.
DeleteRule(s) ==
  /\ ops[s] # None /\ ops[s].step = "delete"
  /\ LET p      == ops[s].port
         victim == CHOOSE h \in ops[s].victims : \A g \in ops[s].victims : h <= g
         rest   == ops[s].victims \ {victim}
     IN  /\ \/ /\ rules' = [rules EXCEPT ![p] = Without(@, victim)]
               /\ UNCHANGED <<failures, spoiled>>
            \/ /\ Fail
               /\ spoiled' = spoiled \cup {p}
               /\ UNCHANGED rules
         /\ ops' = [ops EXCEPT ![s] = IF rest = {} THEN Cleared(@) ELSE [@ EXCEPT !.victims = rest]]
  /\ UNCHANGED <<life, held, sweep>>

NewHandles == {h \in Handle : /\ \A p \in Port : h \notin HandlesOf(p)
                              /\ \A s \in Slot : ops[s] # None => h \notin ops[s].victims}

\* A rule is added behind those there are.
RuleAdded(p, t) ==
  /\ NewHandles # {}
  /\ LET h == CHOOSE g \in NewHandles : \A k \in NewHandles : g <= k
     IN  rules' = [rules EXCEPT ![p] = Append(@, [handle |-> h, target |-> t])]

WriteRuleFaulty(s) ==   \* what to write is read from the engine, after the wait
  /\ ops[s] # None /\ ops[s].step = "write"
  /\ life # "closed"
  /\ RuleAdded(ops[s].port, held[ops[s].by][ops[s].port])
  /\ ops' = [ops EXCEPT ![s] = None]
  /\ UNCHANGED <<life, held, sweep, failures, spoiled>>

\* The forwarding rule is added.
WriteRule(s) ==
  /\ ops[s] # None /\ ops[s].step = "write"
  /\ life # "closed"
  /\ RuleAdded(ops[s].port, ops[s].target)
  /\ ops' = [ops EXCEPT ![s] = None]
  /\ UNCHANGED <<life, held, sweep, failures, spoiled>>

WriteFailsFaulty(s) ==   \* the failure is swallowed
  /\ ops[s] # None /\ ops[s].step = "write"
  /\ IF life = "closed" THEN UNCHANGED failures ELSE Fail
  /\ ops' = [ops EXCEPT ![s] = None]
  /\ UNCHANGED <<life, held, rules, sweep, spoiled>>

\* The command fails, for want of its table if nothing else, or it is killed
\* by its timeout, which it may have beaten: the mapping the engine holds on
\* that port by now is revoked and its rule withdrawn in turn.  A destroyed
\* engine holds none.
WriteFails(s) ==
  /\ ops[s] # None /\ ops[s].step = "write"
  /\ IF life = "closed" THEN UNCHANGED <<failures, rules>>
     ELSE Fail /\ (UNCHANGED rules \/ RuleAdded(ops[s].port, ops[s].target))
  /\ LET e == ops[s].by
         p == ops[s].port
     IN  IF held[e][p] = None
         THEN ops' = [ops EXCEPT ![s] = None] /\ UNCHANGED <<held, spoiled>>
         ELSE /\ held' = [held EXCEPT ![e][p] = None]
              /\ ops' = [ops EXCEPT ![s] = RemoveCall(e, p)]
              /\ spoiled' = IF Holders(p) # {e} \/ Busy(p) # {s}
                            THEN spoiled \cup {p} ELSE spoiled
  /\ UNCHANGED <<life, sweep>>

-----------------------------------------------------------------------------
(* reconcile().                                                            *)

\* bound: one at a time.  The code begins another beside it if it is asked to.
Reconcile ==
  /\ life = "open"
  /\ sweep = None
  /\ sweep' = [listed |-> FALSE, orphans |-> {}]
  /\ UNCHANGED <<life, held, rules, ops, failures, spoiled>>

ReconcileListsFaulty ==   \* only what this process wrote itself is listed
  /\ sweep # None /\ ~sweep.listed
  /\ sweep' = [listed  |-> TRUE,
               orphans |-> {p \in Port : Effective(p) \in Target /\ Holders(p) = {}}]
  /\ UNCHANGED <<life, held, rules, ops, failures, spoiled>>

\* The adapter lists the rules; those no engine holds a mapping for are
\* orphans.  Without a list reconcile() ends.
ReconcileLists ==
  /\ sweep # None /\ ~sweep.listed
  /\ \/ /\ sweep' = [listed  |-> TRUE,
                     orphans |-> {p \in Port : rules[p] # <<>> /\ Holders(p) = {}}]
        /\ UNCHANGED failures
     \/ Fail /\ sweep' = None
  /\ UNCHANGED <<life, held, rules, ops, spoiled>>

Pruning == \E s \in Slot : ops[s] # None /\ ops[s].by = "reconcile"

\* The orphans are removed one after the other.
ReconcilePrunes ==
  /\ sweep # None /\ sweep.listed /\ ~Pruning
  /\ \E p \in sweep.orphans :
       /\ sweep' = [sweep EXCEPT !.orphans = @ \ {p}]
       /\ Launch({RemoveCall("reconcile", p)}, IF Holders(p) # {} THEN {p} ELSE {})
  /\ UNCHANGED <<life, held, rules, failures>>

ReconcileEnds ==
  /\ sweep # None /\ sweep.listed /\ ~Pruning /\ sweep.orphans = {}
  /\ sweep' = None
  /\ UNCHANGED <<life, held, rules, ops, failures, spoiled>>

-----------------------------------------------------------------------------
\* An earlier process may have left rules behind: they outlive it.
Init ==
  /\ life = "open"
  /\ held = [e \in Engine |-> [p \in Port |-> None]]
  /\ rules \in [Port -> {<<>>, <<[handle |-> 1, target |-> Left]>>}]
  /\ ops = [s \in Slot |-> None]
  /\ sweep = None
  /\ failures = 0
  /\ spoiled = {}

Command(s) ==
  \/ ListRules(s)
  \/ DeleteRule(s)
  \/ WriteRule(s)
  \/ WriteFails(s)

Next ==
  \/ \E e \in Engine, p \in Port, t \in Target : PortMapped(e, p, t)
  \/ \E e \in Engine, p \in Port, t \in Target : PortRenewed(e, p, t)
  \/ \E e \in Engine, p \in Port : PortUnmapped(e, p)
  \/ \E p \in Port : Revoke(p)
  \/ ResetEpoch
  \/ Close
  \/ DestroyAdapter
  \/ \E s \in Slot : Command(s)
  \/ Reconcile
  \/ ReconcileLists
  \/ ReconcilePrunes
  \/ ReconcileEnds

Spec == Init /\ [][Next]_vars

-----------------------------------------------------------------------------
TypeOK ==
  /\ life \in {"open", "closing", "closed", "abandoned"}
  /\ held \in [Engine -> [Port -> Target \cup {None}]]
  /\ rules \in [Port -> Seq(Rule)]
  /\ ops \in [Slot -> Op \cup {None}]
  /\ sweep \in Sweep \cup {None}
  /\ failures \in 0 .. MaxFailures
  /\ spoiled \subseteq Port

\* No adapter call for this port is under way.
Settled(p) == Busy(p) = {}

\* A mapping granted is forwarded to where it was granted, through failed
\* commands, revocations and the rules of an earlier process.  The exceptions,
\* gathered in spoiled: two adapter calls for the port at once, both engines
\* on one port, a renewal that re-points, an epoch reset under a UPnP mapping,
\* a reconciliation overtaken by the grant, a list or delete that failed.
GrantedIsForwarded ==
  \A p \in Port \ spoiled, e \in Engine :
    life = "open" /\ Settled(p) /\ held[e][p] # None => Effective(p) = held[e][p]

\* A mapping that is gone is not forwarded any more, with the same exceptions;
\* what an earlier process left is not looked at here.
GoneIsClosed ==
  \A p \in Port \ spoiled :
    Settled(p) /\ Holders(p) = {} => Effective(p) \in {None, Left}

\* When a reconciliation that had its list ends, no rule of an earlier
\* process is left on a port without a mapping, with the same exceptions.
ReconciledIsClean ==
  [][sweep # None /\ sweep.listed /\ sweep' = None =>
       \A p \in Port \ spoiled' :
         Settled(p) /\ Holders(p) = {} => rules[p] = <<>>]_vars

\* A gateway that has closed forwards nothing, whatever adapter calls were
\* under way when it did.  Where the table could not be deleted none of its
\* grants is left in the kernel once the calls are through, since close()
\* withdraws them one by one before (server.js:664), with the same exceptions.
ClosedForwardsNoGrant ==
  /\ life = "closed" => \A p \in Port : rules[p] = <<>>
  /\ life = "abandoned" =>
       \A p \in Port \ spoiled : Settled(p) => \A i \in DOMAIN rules[p] : rules[p][i].target = Left
=============================================================================
