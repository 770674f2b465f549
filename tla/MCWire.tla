------------------------------- MODULE MCWire -------------------------------
(* Requests that differ in each field, from clients at every address made of *)
(* zero and non-zero groups, and packets of other programs.                  *)
EXTENDS Wire

\* A mapping keeps its nonce.
NonceOf(protocol, internal) == [i \in 1 .. 12 |-> (internal + i + (IF protocol = "tcp" THEN 249 ELSE 3)) % 256]
Home == V4(<<192, 168, 1, 2>>)
Map(dialect, protocol, internal, external, lifetime, exact, nonce, client) ==
  [kind |-> "map", dialect |-> dialect, protocol |-> protocol, internal |-> internal,
   external |-> external, lifetime |-> lifetime, exact |-> exact, nonce |-> nonce, client |-> client]
Question(kind, dialect) ==
  [kind |-> kind, dialect |-> dialect, protocol |-> None, internal |-> None,
   external |-> None, lifetime |-> None, exact |-> FALSE, nonce |-> None, client |-> Home]

MCInFlight ==
  {Map(d, p, i, x[1], x[2], FALSE, NonceOf(p, i), Home) :
     d \in {"pcp", "natpmp"}, p \in {"tcp", "udp"}, i \in {258, 65535},
     x \in {<<772, <<0, 0>>>>, <<0, <<65535, 7200>>>>}}
    \cup {Map("pcp", "tcp", 258, 772, <<0, 7200>>, TRUE, NonceOf("tcp", 258), Home),
       Question("probe", "pcp"), Question("probe", "natpmp"), Question("address", "natpmp")}

\* The texts the operating system gives such addresses (RFC 5952).
Texts ==
  LET Long(t) == 8 - Len(t.head) - Len(t.tail)
      All == UNION {{V6(SubSeq(g, 1, i), TRUE, SubSeq(g, j, 8)) :
                       <<i, j>> \in {r \in (0 .. 6) \X (3 .. 9) :
                          r[2] - r[1] >= 3 /\ \A k \in r[1] + 1 .. r[2] - 1 : g[k] = 0}}
                    : g \in [1 .. 8 -> {0, 258}]}
      Same(t, u) == EncodeIp(t) = EncodeIp(u)
      Best(t) == \A u \in All : Same(t, u) => \/ Long(u) < Long(t)
                                              \/ Long(u) = Long(t) /\ Len(t.head) <= Len(u.head)
  IN  {t \in All : Best(t)} \cup {V6(g, FALSE, <<>>) : g \in
        {g \in [1 .. 8 -> {0, 258}] : \A i \in 1 .. 7 : g[i] # 0 \/ g[i + 1] # 0}}

MCAsked == MCInFlight \cup {Map("pcp", "udp", 258, 772, <<0, 7200>>, FALSE, NonceOf("udp", 258), c) : c \in Texts}

\* An unknown version, an unknown opcode of either dialect, a reply that strayed.
MCForeign == {<<1, 0>>, <<9>>, <<0, 9, 0, 0>>, <<0, 130>> \o Zeros(14), <<2, 129>> \o Zeros(58),
              <<2, 2>> \o Zeros(78), <<2, 7>> \o Zeros(22), <<2, 0>> \o Zeros(30)}

MCDecision == {[result |-> 0, external |-> 515, lifetime |-> <<0, 3600>>],
               [result |-> 2, external |-> 0, lifetime |-> <<0, 0>>]}
MCExternalIp == {None, V4(<<203, 0, 113, 7>>)}
MCNow == <<1, 65535>>
MCElsewhere == V4(<<10, 0, 0, 2>>)
=============================================================================
