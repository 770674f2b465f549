------------------------------ MODULE Iptables ------------------------------
(***************************************************************************)
(* The iptables adapter (src/src/enforce/iptables.js): one command for each*)
(* rule, in a chain of its own that PREROUTING jumps to.  A rule is deleted*)
(* by repeating it, from the table kept here or, when that does not know   *)
(* it, from what the chain is read back to hold.  add() deletes, then adds.*)
(*                                                                         *)
(* forwards[p] holds the DNAT rules of a port in their order; the two rules*)
(* that accompany each are made and deleted with it and forward nothing.   *)
(***************************************************************************)
EXTENDS Enforce

CONSTANT MaxRules   \* bound: rules for a port when another is asked for

ASSUME IptablesAssumption == MaxRules \in Nat

VARIABLES
  chain,    \* our chain: "none", "unhooked" or "hooked" into PREROUTING
  closing   \* the command of destroy() that is next, "none" before and after

iptablesVars == <<chain, closing>>

IptActive == chosen = "iptables" /\ life = "ready"

\* What an earlier process left may be there still, hooked as it was.
IptInit == chain \in {"none", "hooked"} /\ closing = "none"

\* What the chain of an earlier process may hold: at most one rule for a port.
Leftover == [Port -> IF chain = "none" THEN {<<>>} ELSE {<<>>} \cup {<<t>> : t \in Target}]

\* init() and ensure_jumps(): the chain is created and hooked unless it is
\* there; what it holds stays.  listen() reports that it could not.
IptStart ==
  /\ chosen = "iptables" /\ life = "starting"
  /\ \/ chain' = "hooked" /\ life' = "ready" /\ UNCHANGED failures
     \/ Fail /\ life' = "failed" /\ chain' = IF chain = "none" THEN "unhooked" ELSE chain
  /\ forwards' \in Leftover
  /\ Forget
  /\ UNCHANGED <<entries, calls, promise, crossed, closing>>

\* Two calls for one port under way together.
Overlap(p) == IF Busy(p) # {} THEN crossed \cup {p} ELSE crossed

\* remove() and the remove() that add() begins with: the rule to delete is
\* the one the table knows, or read back.
FirstStep(p) == IF entries[p] = None THEN "list" ELSE "delete"

IptAdd(s, p, t) ==
  /\ IptActive
  /\ Len(forwards[p]) < MaxRules
  /\ Begin(s, NewCall("add", p, t, FirstStep(p), entries[p], Nothing))
  /\ crossed' = Overlap(p)
  /\ UNCHANGED <<selection, life, forwards, entries, failures, iptablesVars>>

IptRemove(s, p) ==
  /\ IptActive
  /\ Begin(s, NewCall("remove", p, None, FirstStep(p), entries[p], Nothing))
  /\ crossed' = Overlap(p)
  /\ UNCHANGED <<selection, life, forwards, entries, failures, iptablesVars>>

At(s, step) == calls[s] # None /\ calls[s].step = step

\* The removal is over: a remove() is answered, an add() goes on to write.
Removed(s) ==
  IF calls[s].kind = "remove" THEN Answer(s, TRUE)
  ELSE calls' = [calls EXCEPT ![s].step = "write", ![s].old = None] /\ UNCHANGED promise

\* list_rules(): the first rule for the port is to be deleted.  A list that
\* fails counts as an empty one.
IptListed(s) ==
  /\ At(s, "list")
  /\ LET rules == IF chain = "none" THEN <<>> ELSE forwards[calls[s].port] IN
     \/ /\ IF rules = <<>> THEN Removed(s)
           ELSE /\ calls' = [calls EXCEPT ![s].step = "delete", ![s].old = Head(rules)]
                /\ UNCHANGED promise
        /\ UNCHANGED <<failures, crossed>>
     \/ /\ Fail
        /\ crossed' = crossed \cup {calls[s].port}
        /\ Removed(s)
  /\ UNCHANGED <<selection, life, forwards, entries, iptablesVars>>

\* The rules without the first that equals the one given.
Without(rules, t) ==
  IF \A i \in DOMAIN rules : rules[i] # t THEN rules
  ELSE LET k == CHOOSE i \in DOMAIN rules : rules[i] = t /\ \A j \in 1 .. i - 1 : rules[j] # t
       IN  SubSeq(rules, 1, k - 1) \o SubSeq(rules, k + 1, Len(rules))

IptDeletedFaulty(s) ==   \* the rule is put together from what is asked for now
  /\ At(s, "delete")
  /\ LET p == calls[s].port IN
     /\ forwards' = [forwards EXCEPT ![p] = Without(@, calls[s].target)]
     /\ entries' = [entries EXCEPT ![p] = None]
  /\ Removed(s)
  /\ UNCHANGED <<selection, life, failures, crossed, iptablesVars>>

\* -D with the full specification; that it failed is ignored, and the table
\* forgets the rule in any case.
IptDeleted(s) ==
  /\ At(s, "delete")
  /\ LET p == calls[s].port IN
     /\ \/ /\ forwards' = [forwards EXCEPT ![p] = Without(@, calls[s].old)]
           /\ UNCHANGED <<failures, crossed>>
        \/ /\ Fail
           /\ crossed' = crossed \cup {p}
           /\ UNCHANGED forwards
     /\ entries' = [entries EXCEPT ![p] = None]
  /\ Removed(s)
  /\ UNCHANGED <<selection, life, iptablesVars>>

\* -A: the rule is added behind those there are.
Added(p, t) == forwards' = [forwards EXCEPT ![p] = Append(@, t)]

IptWritten(s) ==
  /\ At(s, "write") /\ chain # "none"
  /\ Added(calls[s].port, calls[s].target)
  /\ entries' = [entries EXCEPT ![calls[s].port] = calls[s].target]
  /\ Answer(s, TRUE)
  /\ UNCHANGED <<selection, life, failures, crossed, iptablesVars>>

\* -A fails, for want of its chain if nothing else, or is killed at its
\* timeout, which it may have beaten.
IptWriteFails(s) ==
  /\ At(s, "write")
  /\ IF chain = "none" THEN UNCHANGED <<failures, forwards>>
     ELSE Fail /\ (UNCHANGED forwards \/ Added(calls[s].port, calls[s].target))
  /\ Answer(s, FALSE)
  /\ UNCHANGED <<selection, life, entries, crossed, iptablesVars>>

IptDestroy ==
  /\ IptActive
  /\ life' = "destroyed" /\ closing' = "unhook"
  /\ entries' = Nothing
  /\ UNCHANGED <<selection, forwards, calls, failures, promise, crossed, chain>>

IptClosesFaulty ==   \* the chain is emptied first and unhooked last
  /\ closing # "none"
  /\ \/ /\ closing = "unhook" /\ closing' = "flush"
        /\ forwards' = [p \in Port |-> <<>>]
        /\ UNCHANGED chain
     \/ /\ closing = "flush" /\ closing' = "drop"
        /\ UNCHANGED <<forwards, chain>>
     \/ /\ closing = "drop" /\ closing' = "none"
        /\ chain' = IF \A p \in Port : forwards[p] = <<>> THEN "none" ELSE chain
        /\ UNCHANGED forwards
  /\ UNCHANGED <<selection, life, entries, calls, failures, promise, crossed>>

\* The commands of destroy(), each of which may fail and is then ignored: the
\* jump is deleted, the chain emptied, the chain deleted unless it is hooked
\* or has been given a rule since.  While the jump is there the emptying counts.
IptCloses ==
  /\ closing # "none"
  /\ \/ /\ closing = "unhook" /\ closing' = "flush"
        /\ chain' = "unhooked"
        /\ UNCHANGED <<forwards, failures, crossed>>
     \/ /\ closing = "flush" /\ closing' = "drop"
        /\ forwards' = [p \in Port |-> <<>>]
        /\ UNCHANGED <<chain, failures, crossed>>
     \/ /\ closing = "drop" /\ closing' = "none"
        /\ chain' = IF chain = "unhooked" /\ \A p \in Port : forwards[p] = <<>>
                    THEN "none" ELSE chain
        /\ UNCHANGED <<forwards, failures, crossed>>
     \/ /\ Fail
        /\ closing' = CASE closing = "unhook" -> "flush" [] closing = "flush" -> "drop"
                        [] OTHER -> "none"
        /\ crossed' = IF closing = "flush" /\ chain = "hooked" THEN Port
                      ELSE crossed \cup {calls[s].port : s \in UnderWay}
        /\ UNCHANGED <<chain, forwards>>
  /\ UNCHANGED <<selection, life, entries, calls, promise>>

IptNext ==
  \/ IptStart
  \/ \E s \in Slot, p \in Port, t \in Target : IptAdd(s, p, t)
  \/ \E s \in Slot, p \in Port : IptRemove(s, p)
  \/ \E s \in Slot : IptListed(s) \/ IptDeleted(s) \/ IptWritten(s) \/ IptWriteFails(s)
  \/ IptDestroy
  \/ IptCloses
=============================================================================
