---------------------------- MODULE MCPMPSystem ----------------------------
\* The dialects in order of preference, for TLC.
EXTENDS PMPSystem

BothDialects == <<"pcp", "natpmp">>
PcpOnly      == <<"pcp">>
NatpmpOnly   == <<"natpmp">>
=============================================================================
