------------------------------ MODULE MCTcpLink ------------------------------
(* One set of settings, so that what changes is the mode, or two; and three  *)
(* names of connections: one for g_client, one a send may still work on, one *)
(* to open.                                                                  *)
EXTENDS TcpLink, TLC

CONSTANTS n1, n2, c1, c2, c3

MCNets == {n1, n2}
OneNet == {n1}
MCConns == {c1, c2, c3}
ConnSymmetry == Permutations(MCConns)
NetSymmetry == Permutations(MCNets) \cup Permutations(MCConns)
=============================================================================
