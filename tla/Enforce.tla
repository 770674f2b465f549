------------------------------ MODULE Enforce ------------------------------
(***************************************************************************)
(* What the enforcement adapters have in common (src/src/enforce/index.js):*)
(* the choice of one of them, the calls the gateway makes on it and does   *)
(* not wait for, the commands an adapter runs (enforce/exec.js), and the   *)
(* promise an answer makes, which is what enforce/conformance.js tests one *)
(* call at a time.  Relay, Pf and Iptables say what each adapter does with *)
(* a call; Backends puts them together.                                    *)
(***************************************************************************)
EXTENDS Naturals, Sequences, FiniteSets

CONSTANTS
  Adapter,     \* the adapters offered: names of Rank
  Port,        \* a protocol and an external port
  Target,      \* an internal address and port
  None,        \* no target, no call
  Slot,        \* bound: adapter calls under way at one time
  MaxFailures  \* bound: commands and binds that fail in one run

\* PREFERENCE, the platforms and the one capability that differs, of every
\* adapter the library ships.
Rank        == [nftables |-> 0, iptables |-> 1, pf |-> 2, relay |-> 3]
PlatformsOf == [nftables |-> {"linux"}, iptables |-> {"linux"}, pf |-> {"bsd"},
                relay |-> {"linux", "bsd", "other"}]
KeepsSource == [nftables |-> TRUE, iptables |-> TRUE, pf |-> TRUE, relay |-> FALSE]

ASSUME EnforceAssumption ==
  /\ Adapter \subseteq DOMAIN Rank
  /\ IsFiniteSet(Slot) /\ MaxFailures \in Nat
  /\ None \notin Target

VARIABLES
  platform,  \* process.platform
  demand,    \* options.require asks for the source address to be kept
  checks,    \* what each adapter answered to check()
  chosen,    \* the adapter chosen, None before
  life,      \* "new", "selecting", "starting", "ready", "failed", "destroyed"
  forwards,  \* what the system forwards: the targets of a port's rules or listeners
  entries,   \* the adapter's own table: entries or handles
  calls,     \* the calls under way
  failures,  \* commands that failed so far
  promise,   \* what the last answer about a port promised
  crossed    \* ports whose promise is void, see AnsweredIsInForce

selection   == <<platform, demand, checks, chosen>>
enforceVars == <<selection, life, forwards, entries, calls, failures, promise, crossed>>

\* What may be in force while a call is under way, or after it has failed.
Anything == Target \cup {None}

Nothing == [p \in Port |-> None]

\* A call when its callback-free part has been run: its step is "bind6" or "bind4"
\* (relay), "load" (pf), "list", "delete" or "write" (iptables); old is the entry it
\* replaced, or the rule to delete, load the rule set handed to pfctl, and alone
\* says that no other call has been under way beside it.
NewCall(kind, p, t, step, old, load) ==
  [kind |-> kind, port |-> p, target |-> t, step |-> step, old |-> old, load |-> load,
   alone |-> \A s \in Slot : calls[s] = None]

Call == [kind : {"add", "remove"}, port : Port, target : Anything,
         step : {"bind6", "bind4", "load", "list", "delete", "write"},
         old : Anything, load : [Port -> Anything], alone : BOOLEAN]

\* null is no call.
ASSUME NoneAssumption == None \notin Call

UnderWay == {s \in Slot : calls[s] # None}
Busy(p)  == {s \in UnderWay : calls[s].port = p}

-----------------------------------------------------------------------------
(* select().                                                               *)

EnforceInit ==
  /\ platform \in {"linux", "bsd", "other"} /\ demand \in BOOLEAN
  /\ checks = [a \in Adapter |-> "none"]
  /\ chosen = None /\ life = "new"
  /\ forwards = [p \in Port |-> <<>>]
  /\ entries = Nothing
  /\ calls = [s \in Slot |-> None]
  /\ failures = 0
  /\ promise = [p \in Port |-> Anything]
  /\ crossed = {}

\* satisfies() and the platforms: whether an adapter is asked at all.
Fits(a) == (demand => KeepsSource[a]) /\ platform \in PlatformsOf[a]

\* finish(): the best of those that are usable.
Finish(answered) ==
  LET usable == {a \in Adapter : answered[a] = "usable"} IN
  IF usable = {} THEN life' = "failed" /\ UNCHANGED chosen
  ELSE /\ chosen' = CHOOSE a \in usable : \A b \in usable : Rank[a] <= Rank[b]
       /\ life' = "starting"

\* listen() asks all adapters at once.
Listen ==
  /\ life = "new"
  /\ checks' = [a \in Adapter |-> IF Fits(a) THEN "asked" ELSE "unusable"]
  /\ IF \A a \in Adapter : ~Fits(a) THEN Finish(checks')
     ELSE life' = "selecting" /\ UNCHANGED chosen
  /\ UNCHANGED <<platform, demand, forwards, entries, calls, failures, promise, crossed>>

\* An adapter's check() answers; the last answer decides.
CheckAnswered(a, usable) ==
  /\ life = "selecting" /\ checks[a] = "asked"
  /\ checks' = [checks EXCEPT ![a] = IF usable THEN "usable" ELSE "unusable"]
  /\ IF \E b \in Adapter : checks'[b] = "asked" THEN UNCHANGED <<chosen, life>>
     ELSE Finish(checks')
  /\ UNCHANGED <<platform, demand, forwards, entries, calls, failures, promise, crossed>>

\* When init() is over nothing reads the answers and the demand any more.
Forget ==
  /\ checks' = [a \in Adapter |-> "none"] /\ demand' = FALSE
  /\ UNCHANGED <<platform, chosen>>

-----------------------------------------------------------------------------
(* Calls, commands and answers.                                            *)

\* run(): a command that fails, or is killed at its timeout.
Fail == failures < MaxFailures /\ failures' = failures + 1

\* A call that will be answered later takes a slot; whoever runs beside it
\* does not run alone.
Begin(s, c) ==
  /\ calls[s] = None
  /\ calls' = [r \in Slot |-> IF r = s THEN c
                              ELSE IF calls[r] = None THEN None
                              ELSE [calls[r] EXCEPT !.alone = FALSE]]
  /\ promise' = [promise EXCEPT ![c.port] = Anything]

\* The answer, given by the last callback of a call.
Answer(s, ok) ==
  /\ calls' = [calls EXCEPT ![s] = None]
  /\ promise' = [promise EXCEPT ![calls[s].port] = IF ok THEN {calls[s].target} ELSE Anything]

\* A removal with nothing to do is answered at once.
AnswerNow(p) ==
  /\ promise' = [promise EXCEPT ![p] = {None}]
  /\ UNCHANGED <<forwards, entries, calls, failures>>
=============================================================================
