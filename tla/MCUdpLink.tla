------------------------------ MODULE MCUdpLink ------------------------------
(* No UDP, a server, clients of two remotes; one or two hosts that send.    *)
EXTENDS UdpLink

CONSTANTS n1, n2, p1, p2

Other == [mode |-> "other", net |-> n1]
Server == [mode |-> "server", net |-> n1]
Client(n) == [mode |-> "client", net |-> n]

MCConfigs == {Other, Server, Client(n1), Client(n2)}
MCPeers == {p1, p2}
OnePeer == {p1}
NoNets == {}
SecondNet == {n2}
OneUnit == {1}
TwoUnits == {1, 2}
=============================================================================
