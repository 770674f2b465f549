---------------------------- MODULE MCPMPServer ----------------------------
\* Model values for PMPServer: two clients of a gateway with one port they
\* can name and one or two it can choose.
EXTENDS PMPServer, TLC

CONSTANTS c1, c2

MCClient == {c1, c2}
ClientSymmetry == Permutations(MCClient)
=============================================================================
