---------------------------- MODULE MCUPnPServer ----------------------------
\* Model values for UPnPServer: two clients of a gateway with one port they
\* can name, one it can choose, and the port 0 of a request that names none.
EXTENDS UPnPServer, TLC

CONSTANTS c1, c2

MCClient == {c1, c2}
ClientSymmetry == Permutations(MCClient)
=============================================================================
