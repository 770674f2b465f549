------------------------------- MODULE Relay -------------------------------
(***************************************************************************)
(* The userspace relay (src/src/enforce/relay.js): a port is forwarded by a*)
(* socket this process listens on.  Closing one is immediate; binding one  *)
(* is not, and the table of handles knows it only afterwards.              *)
(*                                                                         *)
(* forwards[p] holds the sockets listening on a port, the one bound last,  *)
(* which is the one that receives, in front; entries the handles.  Bytes in*)
(* transit are not modelled.                                               *)
(***************************************************************************)
EXTENDS Enforce

CONSTANTS
  UdpPort,     \* the ports among Port whose protocol is UDP
  MaxSockets   \* bound: sockets on a port when another is asked for

ASSUME RelayAssumption == UdpPort \subseteq Port /\ MaxSockets \in Nat

VARIABLES
  ipv6,    \* the host has IPv6
  stack    \* dual_stack: "unknown", "dual" or "v4"

relayVars == <<ipv6, stack>>

RelayInit == ipv6 \in BOOLEAN /\ stack = "unknown"

\* listen_address(): the family tried first.
Family == IF stack = "v4" THEN "bind4" ELSE "bind6"

\* init() only notes the address to bind.
RelayStart ==
  /\ chosen = "relay" /\ life = "starting"
  /\ life' = "ready"
  /\ Forget
  /\ UNCHANGED <<forwards, entries, calls, failures, promise, crossed, relayVars>>

\* close() of the handle the table knows, if it knows one: the last socket
\* bound.
Closed(p) == IF entries[p] = None THEN forwards[p] ELSE Tail(forwards[p])

\* Two calls for one port under way together: the table holds the later
\* handle only, and a removal finds none while the socket is being bound.
Meets(p) == IF Busy(p) # {} THEN crossed \cup {p} ELSE crossed

\* add(): what listens already is closed, then open_tcp() or open_udp().
RelayAdd(s, p, t) ==
  /\ chosen = "relay" /\ life = "ready"
  /\ Len(forwards[p]) < MaxSockets
  /\ forwards' = [forwards EXCEPT ![p] = Closed(p)]
  /\ entries' = [entries EXCEPT ![p] = None]
  /\ Begin(s, NewCall("add", p, t, Family, None, Nothing))
  /\ crossed' = Meets(p)
  /\ UNCHANGED <<selection, life, failures, relayVars>>

Binding(s) == calls[s] # None /\ calls[s].step \in {"bind6", "bind4"}

\* The socket is bound, also when the relay was destroyed meanwhile: nobody
\* looks.  A TCP port somebody listens on is refused by the system; UDP
\* sockets share one (reuseAddr).
RelayBound(s) ==
  /\ Binding(s)
  /\ calls[s].step = "bind6" => ipv6
  /\ LET p == calls[s].port IN
     /\ p \in UdpPort \/ forwards[p] = <<>>
     /\ forwards' = [forwards EXCEPT ![p] = <<calls[s].target>> \o @]
     /\ entries' = [entries EXCEPT ![p] = calls[s].target]
  /\ stack' = IF stack = "unknown" THEN "dual" ELSE stack
  /\ Answer(s, TRUE)
  /\ UNCHANGED <<selection, life, failures, crossed, ipv6>>

\* No IPv6 on this host: remembered, and the socket opened once more.
RelayFallsBack(s) ==
  /\ Binding(s) /\ calls[s].step = "bind6" /\ ~ipv6
  /\ stack = "unknown"
  /\ stack' = "v4"
  /\ calls' = [calls EXCEPT ![s].step = "bind4"]
  /\ UNCHANGED <<selection, life, forwards, entries, failures, promise, crossed, ipv6>>

\* The bind fails: the port is taken, by this process or by another program,
\* or IPv6 is missing and another call has found out first.
RelayRefused(s) ==
  /\ Binding(s)
  /\ \/ /\ calls[s].port \notin UdpPort /\ forwards[calls[s].port] # <<>>
        /\ UNCHANGED failures
     \/ calls[s].step = "bind6" /\ ~ipv6 /\ stack # "unknown" /\ UNCHANGED failures
     \/ Fail
  /\ Answer(s, FALSE)
  /\ UNCHANGED <<selection, life, forwards, entries, crossed, relayVars>>

\* remove(): at once.
RelayRemove(p) ==
  /\ chosen = "relay" /\ life = "ready"
  /\ crossed' = Meets(p)
  /\ forwards' = [forwards EXCEPT ![p] = Closed(p)]
  /\ entries' = [entries EXCEPT ![p] = None]
  /\ promise' = [promise EXCEPT ![p] = {None}]
  /\ UNCHANGED <<selection, life, calls, failures, relayVars>>

\* destroy(): what the table knows is closed.
RelayDestroy ==
  /\ chosen = "relay" /\ life = "ready"
  /\ life' = "destroyed"
  /\ forwards' = [p \in Port |-> Closed(p)]
  /\ entries' = Nothing
  /\ crossed' = crossed \cup {calls[s].port : s \in UnderWay}
  /\ UNCHANGED <<selection, calls, failures, promise, relayVars>>

RelayNext ==
  \/ RelayStart
  \/ \E s \in Slot, p \in Port, t \in Target : RelayAdd(s, p, t)
  \/ \E s \in Slot : RelayBound(s) \/ RelayFallsBack(s) \/ RelayRefused(s)
  \/ \E p \in Port : RelayRemove(p)
  \/ RelayDestroy
=============================================================================
