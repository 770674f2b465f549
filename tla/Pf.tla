--------------------------------- MODULE Pf ---------------------------------
(***************************************************************************)
(* The pf adapter (src/src/enforce/pf.js): pf has no command for one rule, *)
(* so every change loads the whole anchor from the table kept here, as it  *)
(* is when the command is started.  Loads under way together may land in   *)
(* either order, and one that fails puts its entry back as it was.         *)
(***************************************************************************)
EXTENDS Enforce

PfActive == chosen = "pf" /\ life = "ready"

\* The anchor after a load.
Loaded(rules) == [p \in Port |-> IF rules[p] = None THEN <<>> ELSE <<rules[p]>>]

\* init(): reload() with an empty table, which also clears what an earlier
\* process left; listen() reports that it failed.
PfStart ==
  /\ chosen = "pf" /\ life = "starting"
  /\ \/ life' = "ready" /\ forwards' = Loaded(Nothing) /\ UNCHANGED failures
     \/ Fail /\ life' = "failed" /\ UNCHANGED forwards
  /\ Forget
  /\ UNCHANGED <<entries, calls, promise, crossed>>

\* Loads under way together: either may be the last.
Together(p) ==
  IF UnderWay = {} THEN crossed
  ELSE crossed \cup {p} \cup {calls[s].port : s \in UnderWay}

\* add(): the table first, then reload().
PfAdd(s, p, t) ==
  /\ PfActive
  /\ entries' = [entries EXCEPT ![p] = t]
  /\ Begin(s, NewCall("add", p, t, "load", entries[p], entries'))
  /\ crossed' = Together(p)
  /\ UNCHANGED <<selection, life, forwards, failures>>

\* remove(): what the table does not know is not there, or is being removed by
\* a call under way.
PfRemove(s, p) ==
  /\ PfActive
  /\ IF entries[p] = None THEN AnswerNow(p) /\ crossed' = Together(p)
     ELSE /\ entries' = [entries EXCEPT ![p] = None]
          /\ Begin(s, NewCall("remove", p, None, "load", entries[p], entries'))
          /\ crossed' = Together(p)
          /\ UNCHANGED <<forwards, failures>>
  /\ UNCHANGED <<selection, life>>

Loading(s) == calls[s] # None /\ calls[s].step = "load"

\* The anchor is loaded.  A load nothing ran beside makes its port good again,
\* whatever happened before.
PfLoaded(s) ==
  /\ Loading(s)
  /\ forwards' = Loaded(calls[s].load)
  /\ Answer(s, TRUE)
  /\ crossed' = IF calls[s].alone /\ life = "ready" THEN crossed \ {calls[s].port} ELSE crossed
  /\ UNCHANGED <<selection, life, entries, failures>>

PfLoadFailsFaulty(s) ==   \* the table keeps the change
  /\ Loading(s)
  /\ Fail
  /\ \/ UNCHANGED <<forwards, crossed>>
     \/ /\ forwards' = Loaded(calls[s].load)
        /\ crossed' = crossed \cup {calls[s].port}
  /\ Answer(s, FALSE)
  /\ UNCHANGED <<selection, life, entries>>

\* The load fails and the entry is put back, over whatever it has become; a
\* load killed at its timeout may have taken effect all the same.
PfLoadFails(s) ==
  /\ Loading(s)
  /\ Fail
  /\ \/ UNCHANGED <<forwards, crossed>>
     \/ /\ forwards' = Loaded(calls[s].load)
        /\ crossed' = crossed \cup {calls[s].port}
  /\ entries' = [entries EXCEPT ![calls[s].port] = calls[s].old]
  /\ Answer(s, FALSE)
  /\ UNCHANGED <<selection, life>>

\* destroy(): the anchor is flushed, and loads under way may land behind it.
\* That the flush failed is told to nobody.
PfDestroy ==
  /\ PfActive
  /\ life' = "destroyed"
  /\ entries' = Nothing
  /\ \/ /\ forwards' = Loaded(Nothing)
        /\ crossed' = IF UnderWay = {} THEN {} ELSE Port
        /\ UNCHANGED failures
     \/ /\ Fail
        /\ crossed' = Port
        /\ UNCHANGED forwards
  /\ UNCHANGED <<selection, calls, promise>>

PfNext ==
  \/ PfStart
  \/ \E s \in Slot, p \in Port, t \in Target : PfAdd(s, p, t)
  \/ \E s \in Slot, p \in Port : PfRemove(s, p)
  \/ \E s \in Slot : PfLoaded(s) \/ PfLoadFails(s)
  \/ PfDestroy
=============================================================================
