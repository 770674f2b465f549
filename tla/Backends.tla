------------------------------ MODULE Backends ------------------------------
(***************************************************************************)
(* The enforcement adapters as the gateway uses them: listen() lets        *)
(* select() choose one, init() prepares it, and add(), remove() and        *)
(* destroy() are then called on it without waiting for the answers of      *)
(* earlier calls.  The calls come in any order; the kernel or the operating*)
(* system is what survives in forwards.  nftables, which Gateway models    *)
(* with the gateway itself, is only chosen here.                           *)
(***************************************************************************)
EXTENDS Relay, Pf, Iptables

vars == <<enforceVars, relayVars, iptablesVars>>

\* What is in force for a port: its first rule, if the chain is hooked, or the
\* socket that receives.
InForce(p) ==
  IF forwards[p] = <<>> \/ (chosen = "iptables" /\ chain # "hooked") THEN None
  ELSE Head(forwards[p])

\* What list() tells of a port: the table of the relay and of pf, the chain
\* read back.
Listed(p) ==
  IF chosen = "iptables" THEN IF forwards[p] = <<>> THEN None ELSE Head(forwards[p])
  ELSE entries[p]

\* A kernel chain of an earlier process may be there; what it holds is looked
\* at by IptStart.  A relay's sockets went with their process.
Init ==
  /\ EnforceInit /\ RelayInit /\ IptInit
  /\ platform # "linux" => chain = "none"

Next ==
  \/ (Listen \/ \E a \in Adapter, usable \in BOOLEAN : CheckAnswered(a, usable))
       /\ UNCHANGED <<relayVars, iptablesVars>>
  \/ RelayNext /\ UNCHANGED iptablesVars
  \/ PfNext /\ UNCHANGED <<relayVars, iptablesVars>>
  \/ IptNext /\ UNCHANGED relayVars

Spec == Init /\ [][Next]_vars

-----------------------------------------------------------------------------
\* Once a call about a port has been answered, what the port forwards is what
\* the last answer said: the target added, nothing after a removal, the one or
\* the other after a failure, whatever the adapter and whatever else goes on.
\* The ports in crossed are excepted, of which the code does not keep track:
\* with the relay and iptables those about which two calls were under way at
\* once, with pf those whose load ran beside another's, and those where a
\* command failed that the adapter does not report (iptables: -S and -D) or
\* that took effect after it was reported to have failed (pf).
AnsweredIsInForce ==
  life = "ready" => \A p \in Port \ crossed : InForce(p) \in promise[p]

\* What list() tells the reconciliation of a port with no call under way is
\* what the port forwards, the exceptions being those of AnsweredIsInForce: the
\* table an adapter keeps stays in step with the system through failures.
ListedIsInForce ==
  life = "ready" => \A p \in Port \ crossed : Busy(p) = {} => Listed(p) = InForce(p)

\* After destroy() and the calls it overtook nothing is forwarded, unless the
\* command of pf's destroy() failed, or a call was under way.  With iptables it
\* takes that the jump could not be deleted: then a call under way still adds
\* its rule, and all rules stay if the chain could not be emptied either.
DestroyedForwardsNothing ==
  life = "destroyed" /\ UnderWay = {} /\ closing = "none"
    => \A p \in Port \ crossed : InForce(p) = None
=============================================================================
