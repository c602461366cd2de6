---------------------------- MODULE MCTcpSocket -----------------------------
(* TCP with a few peers, sockets and payloads.                             *)
EXTENDS TcpSocket
CONSTANTS p1, p2
MCPeers    == {p1, p2}
MCSymmetry == Permutations(MCPeers)
=============================================================================
