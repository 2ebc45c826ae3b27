------------------------------- MODULE UdpLink -------------------------------
(***************************************************************************)
(* The UDP side of network_bridge.cpp and the way on to the bus            *)
(* (rs485_tx_task).  Four tasks:                                           *)
(*                                                                         *)
(*   mgmt  network_mgmt_task  stops and opens the socket, priority 4       *)
(*   rx    network_rx_task    socket -> rs485_tx_queue, priority 6         *)
(*   tx    network_tx_task    net_tx_queue -> socket, priority 6           *)
(*   bus   rs485_tx_task      rs485_tx_queue -> RS485, priority 6          *)
(*                                                                         *)
(* The socket g_udp and the peer it talks to are shared without a lock:    *)
(* stop_udp and ensure_udp take none, and g_net_mu, which tx takes for a   *)
(* send, has no other user here.  What keeps mgmt apart from rx and tx is  *)
(* the scheduling of the single core: mgmt runs only while they block.  rx *)
(* and tx, of equal priority, may alternate at any point.                  *)
(*                                                                         *)
(* An address stands for an IP address and a port of its own, so that a    *)
(* torn pair can be told.  A set of settings `net' is the name of its      *)
(* remote address too.  Bytes are counted in units of a buffer, the        *)
(* counters are represented by what a task still owes them.                *)
(***************************************************************************)
EXTENDS Naturals, Sequences

CONSTANTS
  Configs,     \* values of mode and settings; any mode but UDP is "other"
  HostOnly,    \* settings whose remote_ip is no address
  Peers,       \* addresses of hosts that send datagrams
  Sizes,       \* their sizes in units of rx's buffer of 1024 bytes: 1, or 2
  WireMax,     \* datagrams waiting in the socket
  QueueLen,    \* length of rs485_tx_queue
  Priorities,  \* TRUE: one core, tasks of higher priority run first
  None         \* no socket, no address

Udp(c) == c.mode \in {"server", "client"}

ASSUME ConfigAssumption ==
  /\ \A c \in Configs : c.mode \in {"other", "server", "client"}
  /\ None \notin Configs \cup Peers \cup {c.net : c \in Configs}
ASSUME BoundAssumption ==
  /\ WireMax \in Nat /\ QueueLen \in Nat \ {0}
  /\ Sizes \subseteq Nat \ {0} /\ Priorities \in BOOLEAN

VARIABLES
  cfg,     \* app_config runtime: mode and compared settings
  active,  \* g_active_*
  udpUp,   \* g_udp_up
  sock,    \* the configuration udp_server was opened for, or None
  peer,    \* g_udp_peer_ip, g_udp_peer_port, g_udp_peer_valid
  wire,    \* datagrams in the socket: sender and size
  from,    \* sender of the datagram rx works on: remoteIP, remotePort
  rest,    \* rx_buffer of g_udp: units of a datagram that are not yet read
  target,  \* where tx sends its chunk to
  busQ,    \* chunks in rs485_tx_queue
  pc,      \* where each task stands
  steady,  \* history: cfg has not changed since it was remembered
  heard    \* history: who was heard on this socket

vars == <<cfg, active, udpUp, sock, peer, from, wire, rest, target,
          busQ, pc, steady, heard>>
link == <<active, udpUp, sock, steady>>

Nets == {c.net : c \in Configs}
Addresses == Peers \cup Nets
Tasks == {"mgmt", "rx", "tx"}
Labels == {"loop", "stop", "stopping", "clear", "remember", "dispatch",
           "ensure", "set_ip", "set_port", "up",
           "idle", "put", "peek", "begin", "sending"}

TypeOK ==
  /\ cfg \in Configs
  /\ active \in Configs /\ udpUp \in BOOLEAN
  /\ sock \in Configs \cup {None}
  /\ peer \in [ip : Addresses \cup {None}, port : Addresses \cup {None},
               valid : BOOLEAN]
  /\ wire \in Seq([from : Peers, size : Sizes]) /\ Len(wire) <= WireMax
  /\ from \in Peers \cup {None} /\ rest \in Nat
  /\ target \in [ip : Addresses \cup {None}, port : Addresses \cup {None}]
  /\ busQ \in 0..QueueLen
  /\ pc \in [Tasks -> Labels]
  /\ steady \in BOOLEAN /\ heard \in SUBSET Peers

Nowhere == [ip |-> None, port |-> None]

Init ==
  /\ cfg \in Configs
  /\ active \in {c \in Configs : c.mode = "other"}
  /\ udpUp = FALSE /\ sock = None
  /\ peer = [ip |-> None, port |-> None, valid |-> FALSE]
  /\ from = None /\ wire = <<>> /\ rest = 0 /\ target = Nowhere /\ busQ = 0
  /\ pc = [t \in Tasks |-> IF t = "mgmt" THEN "loop" ELSE "idle"]
  /\ steady = FALSE /\ heard = {}

Step(t, here, to) == pc[t] = here /\ pc' = [pc EXCEPT ![t] = to]

\* mgmt gets the core while rx and tx sleep or wait: for the queue in `put',
\* for the network stack in `sending'.
MgmtRuns ==
  Priorities => pc["rx"] \in {"idle", "put"} /\ pc["tx"] \in {"idle", "sending"}
Mgmt(here, to) == MgmtRuns /\ Step("mgmt", here, to)
-----------------------------------------------------------------------------
(* network_mgmt_task *)

MgmtLoop ==
  /\ Mgmt("loop", IF cfg # active THEN "stop" ELSE "dispatch")
  /\ UNCHANGED <<cfg, link, peer, from, wire, rest, target, busQ, heard>>

\* stop_udp, step by step: while g_udp.stop() closes the socket and frees what
\* it has read, g_udp_up is still set.
StopSocket ==
  /\ Mgmt("stop", IF udpUp THEN "stopping" ELSE "clear")
  /\ IF udpUp THEN sock' = None /\ wire' = <<>> /\ rest' = 0 /\ heard' = {}
              ELSE UNCHANGED <<sock, wire, rest, heard>>
  /\ UNCHANGED <<cfg, active, udpUp, steady, peer, from, target, busQ>>

\* The socket is stopped but still counts as up.
BugStopped ==
  /\ Mgmt("stopping", "clear")
  /\ UNCHANGED <<cfg, link, peer, from, wire, rest, target, busQ, heard>>

Stopped ==
  /\ Mgmt("stopping", "clear") /\ udpUp' = FALSE
  /\ UNCHANGED <<cfg, active, sock, steady, peer, from, wire, rest, target,
                 busQ, heard>>

\* The peer outlives the socket.
BugClear ==
  /\ Mgmt("clear", "remember")
  /\ UNCHANGED <<cfg, link, peer, from, wire, rest, target, busQ, heard>>

Clear ==
  /\ Mgmt("clear", "remember")
  /\ peer' = [peer EXCEPT !.valid = FALSE, !.port = None]
  /\ UNCHANGED <<cfg, link, from, wire, rest, target, busQ, heard>>

Remember ==
  /\ Mgmt("remember", "dispatch")
  /\ active' = cfg /\ steady' = TRUE
  /\ UNCHANGED <<cfg, udpUp, sock, peer, from, wire, rest, target, busQ,
                 heard>>

Dispatch ==
  /\ Mgmt("dispatch", IF Udp(cfg) /\ ~udpUp THEN "ensure" ELSE "loop")
  /\ UNCHANGED <<cfg, link, peer, from, wire, rest, target, busQ, heard>>

\* ensure_udp: begin() may fail, or the mode may meanwhile be another one.
EnsureFails ==
  /\ Mgmt("ensure", "loop")
  /\ UNCHANGED <<cfg, link, peer, from, wire, rest, target, busQ, heard>>

Hostless(c) == c.mode = "client" /\ c.net \in HostOnly

Ensure ==
  /\ Udp(cfg)
  /\ Mgmt("ensure", IF cfg.mode = "server" \/ Hostless(cfg) THEN "up"
                     ELSE "set_ip")
  /\ sock' = cfg
  /\ peer' = IF Hostless(cfg) THEN [peer EXCEPT !.valid = FALSE] ELSE peer
  /\ UNCHANGED <<cfg, active, udpUp, steady, from, wire, rest, target, busQ,
                 heard>>

\* The remote of a client: the address first, the flag last.
SetIp ==
  /\ Mgmt("set_ip", "set_port")
  /\ peer' = [peer EXCEPT !.ip = cfg.net]
  /\ UNCHANGED <<cfg, link, from, wire, rest, target, busQ, heard>>

SetPort ==
  /\ Mgmt("set_port", "up")
  /\ peer' = [peer EXCEPT !.port = cfg.net, !.valid = TRUE]
  /\ UNCHANGED <<cfg, link, from, wire, rest, target, busQ, heard>>

Up ==
  /\ Mgmt("up", "loop") /\ udpUp' = TRUE
  /\ UNCHANGED <<cfg, active, sock, steady, peer, from, wire, rest, target,
                 busQ, heard>>
-----------------------------------------------------------------------------
(* network_rx_task *)

\* parsePacket and read take the datagram that came first.  While a part of
\* one is unread, parsePacket answers 0 (WiFiUdp).
Parses == udpUp /\ sock # None /\ wire # <<>> /\ rest = 0

\* A part of every datagram stays unread.
BugRxRead ==
  /\ Udp(cfg) /\ Parses
  /\ Step("rx", "idle", IF cfg.mode = "server" THEN "set_ip" ELSE "put")
  /\ from' = Head(wire).from /\ heard' = heard \cup {from'}
  /\ rest' = Head(wire).size /\ wire' = Tail(wire)
  /\ UNCHANGED <<cfg, link, peer, target, busQ>>

RxRead ==
  /\ Udp(cfg) /\ Parses
  /\ Step("rx", "idle", IF cfg.mode = "server" THEN "set_ip" ELSE "put")
  /\ from' = Head(wire).from /\ heard' = heard \cup {from'}
  /\ rest' = Head(wire).size - 1 /\ wire' = Tail(wire)
  /\ UNCHANGED <<cfg, link, peer, target, busQ>>

\* A server answers whoever was heard last.
RxSetIp ==
  /\ Step("rx", "set_ip", "set_port")
  /\ peer' = [peer EXCEPT !.ip = from]
  /\ UNCHANGED <<cfg, link, from, wire, rest, target, busQ, heard>>

RxSetPort ==
  /\ Step("rx", "set_port", "put")
  /\ peer' = [peer EXCEPT !.port = from, !.valid = TRUE]
  /\ UNCHANGED <<cfg, link, from, wire, rest, target, busQ, heard>>

\* A full queue goes unnoticed.
BugRxPut ==
  /\ Step("rx", "put", "idle")
  /\ busQ' = busQ + 1 /\ from' = None
  /\ UNCHANGED <<cfg, link, peer, wire, rest, target, heard>>

\* enqueue_to_rs485; a queue that stays full for 20 ms drops the chunk, counted.
RxPut ==
  /\ Step("rx", "put", "idle")
  /\ busQ' = IF busQ < QueueLen THEN busQ + 1 ELSE busQ
  /\ from' = None
  /\ UNCHANGED <<cfg, link, peer, wire, rest, target, heard>>
-----------------------------------------------------------------------------
(* network_tx_task *)

\* A chunk from net_tx_queue for which there is a socket and a peer; any other
\* chunk is counted as dropped.
TxTake ==
  /\ Udp(cfg) /\ udpUp /\ peer.valid
  /\ Step("tx", "idle", "peek")
  /\ UNCHANGED <<cfg, link, peer, from, wire, rest, target, busQ, heard>>

TxPeek ==
  /\ Step("tx", "peek", "begin")
  /\ target' = [target EXCEPT !.ip = peer.ip]
  /\ UNCHANGED <<cfg, link, peer, from, wire, rest, busQ, heard>>

\* g_net_mu is not to be had within 100 ms: the chunk is counted as dropped.
TxNoMutex ==
  /\ Step("tx", "peek", "idle")
  /\ UNCHANGED <<cfg, link, peer, from, wire, rest, target, busQ, heard>>

TxBegin ==
  /\ Step("tx", "begin", "sending")
  /\ target' = [target EXCEPT !.port = peer.port]
  /\ UNCHANGED <<cfg, link, peer, from, wire, rest, busQ, heard>>

\* endPacket hands the datagram over and answers 1, or fails: then the bytes
\* write() has taken, all of them, are counted neither as sent nor as dropped.
TxEnd ==
  /\ Step("tx", "sending", "idle")
  /\ target' = Nowhere
  /\ UNCHANGED <<cfg, link, peer, from, wire, rest, busQ, heard>>
-----------------------------------------------------------------------------
(* rs485_tx_task *)

\* The chunk is written; or discarded and not counted, for a session is open or
\* the bridge closed by now.
BusTake ==
  /\ busQ > 0 /\ busQ' = busQ - 1
  /\ UNCHANGED <<cfg, link, peer, from, wire, rest, target, heard, pc>>
-----------------------------------------------------------------------------
(* Surroundings *)

\* AT commands and the web server change the configuration in place.
Configure ==
  /\ cfg' \in Configs \ {cfg} /\ steady' = FALSE
  /\ UNCHANGED <<active, udpUp, sock, peer, from, wire, rest, target,
                 busQ, heard, pc>>

Datagram ==
  /\ sock # None /\ Len(wire) < WireMax
  /\ \E p \in Peers, n \in Sizes :
       wire' = Append(wire, [from |-> p, size |-> n])
  /\ UNCHANGED <<cfg, link, peer, from, rest, target, busQ, heard,
                 pc>>

MgmtTask ==
  \/ MgmtLoop \/ StopSocket \/ Stopped \/ Clear \/ Remember \/ Dispatch
  \/ EnsureFails \/ Ensure \/ SetIp \/ SetPort \/ Up
RxTask == RxRead \/ RxSetIp \/ RxSetPort \/ RxPut
TxTask == TxPeek \/ TxNoMutex \/ TxBegin \/ TxEnd
Outside == TxTake \/ Configure \/ Datagram

Next == MgmtTask \/ RxTask \/ TxTask \/ BusTake \/ Outside

Spec == Init /\ [][Next]_vars

(* All tasks run: rx and tx block again and again, for the queue or for the *)
(* network stack, which lets mgmt run.  begin() succeeds if it is called    *)
(* again and again.  Nobody has to send or to configure anything.           *)
Fairness ==
  /\ SF_vars(MgmtTask) /\ SF_vars(Ensure)
  /\ WF_vars(RxTask) /\ WF_vars(TxTask) /\ WF_vars(BusTake)

FairSpec == Spec /\ Fairness
-----------------------------------------------------------------------------
(* Safety *)

\* When a changed configuration is remembered, nothing of the old one is left:
\* no socket, no link that counts as up, no peer.
NewConfigForgetsPeer ==
  pc["mgmt"] = "remember" => sock = None /\ ~udpUp /\ ~peer.valid

Begins == pc["tx"] = "begin" /\ pc'["tx"] = "sending"

\* A server sends to nobody who was not heard on the very socket, and a client
\* whose configuration has been at rest to its remote alone, whatever
\* configurations, sockets and peers came before.
SendsToKnown ==
  [][Begins /\ steady /\ sock # None =>
       IF sock.mode = "server"
       THEN {target'.ip, target'.port} \subseteq heard
       ELSE target' = [ip |-> sock.net, port |-> sock.net]]_vars

(* Liveness *)

\* A UDP mode that stays configured gets its socket and keeps it.
UdpComesUp ==
  <>[](Udp(cfg) /\ cfg = active) => <>[](udpUp /\ sock # None)

\* What waits in the socket is read while the bridge is open.
Receives ==
  <>[](udpUp /\ Udp(cfg) /\ cfg = active) =>
    []<>(wire = <<>> \/ pc["rx"] # "idle")

(* What does not hold *)

\* The socket a datagram is being sent on is not stopped meanwhile.
SendsOnSocket == pc["tx"] = "sending" => sock # None

\* Address and port that tx sends to belong together.
PeerInOnePiece == pc["tx"] = "sending" => target.ip = target.port

\* A client that is up has a remote to send to.
ClientHasPeer ==
  pc["mgmt"] = "loop" /\ udpUp /\ active = cfg /\ cfg.mode = "client" =>
    peer.valid

\* Between two rounds, a client with no change pending knows its own remote.
ClientMatchesConfig ==
  pc["mgmt"] = "loop" /\ udpUp /\ active = cfg /\ cfg.mode = "client" =>
    peer.ip = cfg.net /\ peer.port = cfg.net
=============================================================================
