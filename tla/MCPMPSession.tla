---------------------------- MODULE MCPMPSession ----------------------------
\* Model values for PMPSession: one or two mapping keys and dialect orders.
EXTENDS PMPSession, TLC

CONSTANTS k1, k2

MCKey         == {k1, k2}
BothDialects  == <<"pcp", "natpmp">>
NatpmpOnly    == <<"natpmp">>
KeySymmetry   == Permutations(MCKey)
=============================================================================
