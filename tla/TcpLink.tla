------------------------------- MODULE TcpLink -------------------------------
(***************************************************************************)
(* The TCP side of network_bridge.cpp: one socket object (g_client) shared *)
(* by three FreeRTOS tasks.                                                *)
(*                                                                         *)
(*   mgmt  network_mgmt_task: configuration changes, accept, (re)connect   *)
(*   rx    network_rx_task:   non-blocking recv, notices a closed peer     *)
(*   tx    network_tx_task:   sends a chunk, aborts the link on failure    *)
(*                                                                         *)
(* The tasks serialise on g_net_mu, but every xSemaphoreTake has a timeout *)
(* and the code carries on when it expires.  Only a send keeps the mutex   *)
(* that long: tcp_send_all retries up to 400 times with a 1 ms delay, and  *)
(* starts over on every byte of progress, while the waits are 50 to 200 ms *)
(* long.  So every wait of mgmt and rx may expire while tx is sending.     *)
(*                                                                         *)
(* Data is left out: what is sent and received, and its byte counters.  A  *)
(* connection is a name, recycled once nobody refers to it.                *)
(***************************************************************************)
EXTENDS Naturals

CONSTANTS
  Nets,     \* values of the compared settings: ports, remote IP, remote host
  Conns,    \* names of connections
  StatMax,  \* value at which the counters saturate (UINT64_MAX in the code)
  None      \* no holder, no connection, no listener

ASSUME StatAssumption == StatMax \in Nat
ASSUME NoneAssumption == None \notin Nets \cup Conns \cup {"mgmt", "rx", "tx"}

VARIABLES
  cfg,         \* app_config runtime: the mode and the compared settings
  sta,         \* wifi_manager_sta_connected()
  active,      \* g_active_*: the configuration last acted upon
  server,      \* g_server: the settings its port was taken from, or None
  client,      \* g_client
  tcpUp,       \* g_tcp_up
  connecting,  \* g_tcp_connecting
  backoff,     \* reconnect_ms has not yet passed since g_last_client_try_ms
  mu,          \* holder of g_net_mu
  pc,          \* where each task stands
  target,      \* settings the pending connect() was called with
  sock,        \* connection whose descriptor tcp_send_all works on
  stats        \* tcp_connects, tcp_disconnects, tcp_reconnects

vars == <<cfg, sta, active, server, client, tcpUp, connecting, backoff, mu,
          pc, target, sock, stats>>

Tasks == {"mgmt", "rx", "tx"}
Modes == {"off", "server", "client"}
Config == [mode : Modes, net : Nets]

\* "dead": the socket has a descriptor but connected() answers false.
Client == [st : {"closed", "open", "dead"}, conn : Conns \cup {None},
           net : Nets \cup {None}]
Closed == [st |-> "closed", conn |-> None, net |-> None]

Stats == [connect : 0..StatMax, disconnect : 0..StatMax,
          reconnect : 0..StatMax]

MgmtLabels ==
  {"loop", "teardown", "teardown_cs", "remember", "dispatch",
   "srv_check", "srv_check_cs", "accept", "accept_take", "accept_cs",
   "cli_check", "cli_check_cs", "try", "try_take", "try_cs", "timer",
   "retire", "retire_cs", "stop_take", "stop_cs", "connect", "connect_wait",
   "up_take", "up_cs", "finish", "count"}
RxLabels == {"idle", "take", "recv"}
TxLabels == {"idle", "take", "send", "sending"}
-----------------------------------------------------------------------------
(* Helpers.  A definition named Bug... is a faulty variant of the definition *)
(* after it: it takes no part in the specification and is used to check that *)
(* a property notices the fault.                                             *)

TypeOK ==
  /\ cfg \in Config /\ active \in [mode : Modes, net : Nets \cup {None}]
  /\ sta \in BOOLEAN /\ tcpUp \in BOOLEAN
  /\ connecting \in BOOLEAN /\ backoff \in BOOLEAN
  /\ server \in Nets \cup {None} /\ target \in Nets \cup {None}
  /\ client \in Client /\ sock \in Conns \cup {None}
  /\ mu \in Tasks \cup {None}
  /\ pc \in [Tasks -> MgmtLabels \cup RxLabels \cup TxLabels]
  /\ pc["mgmt"] \in MgmtLabels /\ pc["rx"] \in RxLabels
  /\ pc["tx"] \in TxLabels
  /\ stats \in Stats

\* Task t moves from label `from' to label `to'.
Step(t, from, to) == pc[t] = from /\ pc' = [pc EXCEPT ![t] = to]

\* xSemaphoreTake succeeds, or its timeout expires while the holder stays in
\* tcp_send_all.
Acquire(t) == mu = None /\ mu' = t
TimesOut == mu = "tx" /\ sock # None /\ UNCHANGED mu
Release == mu' = None

\* The counter is incremented without the check for its limit.
BugBump(s, f) == [s EXCEPT ![f] = @ + 1]

\* inc_u64: a counter saturates, it never wraps.
Bump(s, f) == IF s[f] < StatMax THEN [s EXCEPT ![f] = @ + 1] ELSE s

\* A fresh connection made under settings n.
Fresh(n) == {[st |-> "open", conn |-> c, net |-> n] :
               c \in Conns \ {client.conn, sock}}

Dead == tcpUp /\ client.st = "dead"

\* g_tcp_up is not reset.
BugCloseKeepsFlag ==
  /\ client' = IF client.st = "open" THEN Closed ELSE client
  /\ UNCHANGED tcpUp

\* A socket whose peer has gone keeps its flag.
BugCloseInside ==
  /\ client' = IF client.st = "open" THEN Closed ELSE client
  /\ tcpUp' = (tcpUp /\ client.st # "open")

\* close_tcp_locked: `if (g_client)' is connected(), so stop() is skipped for
\* a socket whose peer is already gone; g_tcp_up falls in either case.
CloseTcpLocked ==
  /\ client' = IF client.st = "open" THEN Closed ELSE client
  /\ tcpUp' = FALSE

Init ==
  /\ cfg \in Config
  /\ active = [mode |-> "off", net |-> None]
  /\ sta = FALSE /\ server = None /\ client = Closed
  /\ tcpUp = FALSE /\ connecting = FALSE /\ backoff = FALSE
  /\ mu = None /\ target = None /\ sock = None
  /\ pc = [t \in Tasks |-> IF t = "mgmt" THEN "loop" ELSE "idle"]
  /\ stats = [connect |-> 0, disconnect |-> 0, reconnect |-> 0]
-----------------------------------------------------------------------------
(* network_mgmt_task *)

\* Top of the loop: config_changed decides between teardown and dispatch.
MgmtLoop ==
  /\ Step("mgmt", "loop", IF cfg # active THEN "teardown" ELSE "dispatch")
  /\ UNCHANGED <<cfg, sta, active, server, client, tcpUp, connecting, backoff,
                 mu, target, sock, stats>>

\* teardown_all: close_tcp gives up after 200 ms; the listener goes anyway.
TeardownTake ==
  /\ \/ Step("mgmt", "teardown", "teardown_cs") /\ Acquire("mgmt")
        /\ UNCHANGED server
     \/ Step("mgmt", "teardown", "remember") /\ TimesOut
        /\ server' = None
  /\ UNCHANGED <<cfg, sta, active, client, tcpUp, connecting, backoff, target,
                 sock, stats>>

TeardownClose ==
  /\ Step("mgmt", "teardown_cs", "remember")
  /\ CloseTcpLocked /\ Release
  /\ stats' = IF tcpUp THEN Bump(stats, "disconnect") ELSE stats
  /\ server' = None
  /\ UNCHANGED <<cfg, sta, active, connecting, backoff, target, sock>>

\* remember_config, whether or not the old link could be closed.
Remember ==
  /\ Step("mgmt", "remember", "dispatch")
  /\ active' = cfg /\ backoff' = FALSE
  /\ UNCHANGED <<cfg, sta, server, client, tcpUp, connecting, mu, target, sock,
                 stats>>

\* The mode is read from the live configuration, not from the remembered one.
Dispatch ==
  /\ \/ cfg.mode = "off" /\ Step("mgmt", "dispatch", "loop")
        /\ UNCHANGED server
     \/ /\ cfg.mode = "server"
        /\ Step("mgmt", "dispatch", IF tcpUp THEN "srv_check" ELSE "accept")
        /\ server' = IF server = None THEN cfg.net ELSE server
     \/ cfg.mode = "client" /\ Step("mgmt", "dispatch", "cli_check")
        /\ UNCHANGED server
  /\ UNCHANGED <<cfg, sta, active, client, tcpUp, connecting, backoff, mu,
                 target, sock, stats>>

\* The liveness check of both modes: close a link whose peer is gone.
CheckTake(from, cs, skip) ==
  /\ \/ Step("mgmt", from, cs) /\ Acquire("mgmt")
     \/ Step("mgmt", from, skip) /\ TimesOut
  /\ UNCHANGED <<cfg, sta, active, server, client, tcpUp, connecting, backoff,
                 target, sock, stats>>

CheckBody(cs, next, backoffIfDead) ==
  /\ Step("mgmt", cs, next) /\ Release
  /\ IF Dead
     THEN /\ CloseTcpLocked /\ stats' = Bump(stats, "disconnect")
          /\ backoff' = backoffIfDead
     ELSE UNCHANGED <<client, tcpUp, stats, backoff>>
  /\ UNCHANGED <<cfg, sta, active, server, connecting, target, sock>>

SrvCheckTake == CheckTake("srv_check", "srv_check_cs", "accept")
SrvCheck == CheckBody("srv_check_cs", "accept", backoff)
CliCheckTake == CheckTake("cli_check", "cli_check_cs", "try")
CliCheck == CheckBody("cli_check_cs", "try", FALSE)

\* accept_or_reject: nobody is waiting, or one incoming connection is.
AcceptNone ==
  /\ Step("mgmt", "accept", "loop")
  /\ UNCHANGED <<cfg, sta, active, server, client, tcpUp, connecting, backoff,
                 mu, target, sock, stats>>

AcceptIncoming ==
  /\ server # None
  /\ Step("mgmt", "accept", "accept_take")
  /\ UNCHANGED <<cfg, sta, active, server, client, tcpUp, connecting, backoff,
                 mu, target, sock, stats>>

AcceptTake ==
  /\ \/ Step("mgmt", "accept_take", "accept_cs") /\ Acquire("mgmt")
     \/ Step("mgmt", "accept_take", "loop") /\ TimesOut
  /\ UNCHANGED <<cfg, sta, active, server, client, tcpUp, connecting, backoff,
                 target, sock, stats>>

\* The newcomer always wins.
BugAccept ==
  /\ Step("mgmt", "accept_cs", "count") /\ Release
  /\ client' \in Fresh(server) /\ tcpUp' = TRUE
  /\ UNCHANGED <<cfg, sta, active, server, connecting, backoff, target, sock,
                 stats>>

\* A live client keeps its place; otherwise the newcomer becomes g_client.
Accept ==
  /\ Step("mgmt", "accept_cs",
          IF tcpUp /\ client.st = "open" THEN "loop" ELSE "count")
  /\ Release
  /\ IF tcpUp /\ client.st = "open"
     THEN UNCHANGED <<client, tcpUp>>
     ELSE client' \in Fresh(server) /\ tcpUp' = TRUE
  /\ UNCHANGED <<cfg, sta, active, server, connecting, backoff, target, sock,
                 stats>>

\* try_tcp_client: without a station address there is nothing to try.
TryStart ==
  /\ Step("mgmt", "try", IF connecting \/ ~sta THEN "loop" ELSE "try_take")
  /\ UNCHANGED <<cfg, sta, active, server, client, tcpUp, connecting, backoff,
                 mu, target, sock, stats>>

TryTake == CheckTake("try_take", "try_cs", "timer")

TryCheck ==
  /\ Step("mgmt", "try_cs",
          IF tcpUp /\ client.st = "open" THEN "loop" ELSE "timer")
  /\ Release
  /\ tcpUp' = (tcpUp /\ client.st = "open")
  /\ UNCHANGED <<cfg, sta, active, server, client, connecting, backoff, target,
                 sock, stats>>

\* The reconnect interval; a link that still counts as up is retired first.
TryTimer ==
  /\ \/ backoff /\ Step("mgmt", "timer", "loop") /\ UNCHANGED connecting
     \/ ~backoff /\ tcpUp /\ Step("mgmt", "timer", "retire")
        /\ UNCHANGED connecting
     \/ ~backoff /\ ~tcpUp /\ Step("mgmt", "timer", "stop_take")
        /\ connecting' = TRUE
  /\ backoff' = TRUE
  /\ UNCHANGED <<cfg, sta, active, server, client, tcpUp, mu, target, sock,
                 stats>>

RetireTake ==
  /\ \/ Step("mgmt", "retire", "retire_cs") /\ Acquire("mgmt")
        /\ UNCHANGED <<connecting, stats>>
     \/ Step("mgmt", "retire", "stop_take") /\ TimesOut
        /\ connecting' = TRUE /\ stats' = Bump(stats, "reconnect")
  /\ UNCHANGED <<cfg, sta, active, server, client, tcpUp, backoff, target,
                 sock>>

Retire ==
  /\ Step("mgmt", "retire_cs", "stop_take")
  /\ CloseTcpLocked /\ Release
  /\ connecting' = TRUE
  /\ stats' = Bump(IF tcpUp THEN Bump(stats, "disconnect") ELSE stats,
                   "reconnect")
  /\ UNCHANGED <<cfg, sta, active, server, backoff, target, sock>>

StopTake == CheckTake("stop_take", "stop_cs", "connect")

\* The flag of a link that could not be retired in time stays.
BugStopClient ==
  /\ Step("mgmt", "stop_cs", "connect") /\ Release
  /\ client' = Closed
  /\ UNCHANGED <<cfg, sta, active, server, tcpUp, connecting, backoff, target,
                 sock, stats>>

StopClient ==
  /\ Step("mgmt", "stop_cs", "connect") /\ Release
  /\ client' = Closed /\ tcpUp' = FALSE
  /\ UNCHANGED <<cfg, sta, active, server, connecting, backoff, target, sock,
                 stats>>

\* g_client.connect() runs without the mutex, for up to 5 s, towards the
\* remote the configuration names at the time of the call.
ConnectStart ==
  /\ Step("mgmt", "connect", "connect_wait")
  /\ target' = cfg.net
  /\ UNCHANGED <<cfg, sta, active, server, client, tcpUp, connecting, backoff,
                 mu, sock, stats>>

ConnectOk ==
  /\ Step("mgmt", "connect_wait", "up_take")
  /\ client' \in Fresh(target)
  /\ target' = None
  /\ UNCHANGED <<cfg, sta, active, server, tcpUp, connecting, backoff, mu,
                 sock, stats>>

\* The flag g_tcp_connecting survives a failed attempt.
BugConnectFails ==
  /\ Step("mgmt", "connect_wait", "loop")
  /\ client' = Closed /\ target' = None
  /\ UNCHANGED <<cfg, sta, active, server, tcpUp, connecting, backoff, mu, sock,
                 stats>>

ConnectFails ==
  /\ Step("mgmt", "connect_wait", "loop")
  /\ client' = Closed /\ connecting' = FALSE /\ target' = None
  /\ UNCHANGED <<cfg, sta, active, server, tcpUp, backoff, mu, sock, stats>>

UpTake ==
  /\ \/ Step("mgmt", "up_take", "up_cs") /\ Acquire("mgmt")
        /\ UNCHANGED client
     \/ Step("mgmt", "up_take", "finish") /\ TimesOut
        /\ client' = Closed
  /\ UNCHANGED <<cfg, sta, active, server, tcpUp, connecting, backoff, target,
                 sock, stats>>

UpSet ==
  /\ Step("mgmt", "up_cs", "count") /\ Release
  /\ tcpUp' = TRUE
  /\ UNCHANGED <<cfg, sta, active, server, client, connecting, backoff, target,
                 sock, stats>>

\* A link is counted after the mutex was given back, and after it may have
\* been lost again.
Count ==
  /\ Step("mgmt", "count", "loop")
  /\ stats' = Bump(stats, "connect") /\ connecting' = FALSE
  /\ UNCHANGED <<cfg, sta, active, server, client, tcpUp, backoff, mu, target,
                 sock>>

Finish ==
  /\ Step("mgmt", "finish", "loop")
  /\ connecting' = FALSE
  /\ UNCHANGED <<cfg, sta, active, server, client, tcpUp, backoff, mu, target,
                 sock, stats>>

Mgmt ==
  \/ MgmtLoop \/ TeardownTake \/ TeardownClose \/ Remember \/ Dispatch
  \/ SrvCheckTake \/ SrvCheck \/ CliCheckTake \/ CliCheck
  \/ AcceptNone \/ AcceptIncoming \/ AcceptTake \/ Accept
  \/ TryStart \/ TryTake \/ TryCheck \/ TryTimer \/ RetireTake \/ Retire
  \/ StopTake \/ StopClient \/ ConnectStart \/ ConnectOk \/ ConnectFails
  \/ UpTake \/ UpSet \/ Count \/ Finish
-----------------------------------------------------------------------------
(* network_rx_task *)

\* With no TCP mode, or during a connect, the task only sleeps.
RxStart ==
  /\ cfg.mode # "off" /\ ~connecting
  /\ Step("rx", "idle", "take")
  /\ UNCHANGED <<cfg, sta, active, server, client, tcpUp, connecting, backoff,
                 mu, target, sock, stats>>

RxTake ==
  /\ \/ Step("rx", "take", "recv") /\ Acquire("rx")
     \/ Step("rx", "take", "idle") /\ TimesOut
  /\ UNCHANGED <<cfg, sta, active, server, client, tcpUp, connecting, backoff,
                 target, sock, stats>>

\* recv answers -1 once the peer is gone; data leaves the link as it is.
RxRecv ==
  /\ Step("rx", "recv", "idle") /\ Release
  /\ IF Dead
     THEN /\ CloseTcpLocked /\ backoff' = FALSE
          /\ stats' = Bump(stats, "disconnect")
     ELSE UNCHANGED <<client, tcpUp, backoff, stats>>
  /\ UNCHANGED <<cfg, sta, active, server, connecting, target, sock>>

(* network_tx_task *)

\* A chunk from net_tx_queue passes the gate (otherwise it is dropped).
TxStart ==
  /\ cfg.mode # "off" /\ ~connecting
  /\ Step("tx", "idle", "take")
  /\ UNCHANGED <<cfg, sta, active, server, client, tcpUp, connecting, backoff,
                 mu, target, sock, stats>>

TxTake ==
  /\ Step("tx", "take", "send") /\ Acquire("tx")
  /\ UNCHANGED <<cfg, sta, active, server, client, tcpUp, connecting, backoff,
                 target, sock, stats>>

\* The mutex is given back before the bytes are sent.
BugTxSend ==
  /\ Step("tx", "send", IF tcpUp /\ client.st # "closed"
                         THEN "sending" ELSE "idle")
  /\ Release
  /\ sock' = IF tcpUp /\ client.st # "closed" THEN client.conn ELSE sock
  /\ UNCHANGED <<cfg, sta, active, server, client, tcpUp, connecting, backoff,
                 target, stats>>

\* tcp_send_all takes the descriptor of g_client once, at its start.
TxSend ==
  /\ \/ /\ tcpUp /\ client.st # "closed"
        /\ Step("tx", "send", "sending")
        /\ sock' = client.conn /\ UNCHANGED mu
     \/ /\ ~(tcpUp /\ client.st # "closed")
        /\ Step("tx", "send", "idle") /\ Release
        /\ UNCHANGED sock
  /\ UNCHANGED <<cfg, sta, active, server, client, tcpUp, connecting, backoff,
                 target, stats>>

\* All bytes went to the descriptor.  Nobody asks connected(): a socket whose
\* peer has gone may go on taking them.
TxSent ==
  /\ Step("tx", "sending", "idle") /\ Release
  /\ sock' = None
  /\ UNCHANGED <<cfg, sta, active, server, client, tcpUp, connecting, backoff,
                 target, stats>>

\* A partial write closes whatever g_client is by then.
TxAbort ==
  /\ Step("tx", "sending", "idle") /\ Release
  /\ CloseTcpLocked /\ sock' = None /\ backoff' = FALSE
  /\ stats' = Bump(stats, "disconnect")
  /\ UNCHANGED <<cfg, sta, active, server, connecting, target>>

Rx == RxStart \/ RxTake \/ RxRecv
Tx == TxStart \/ TxTake \/ TxSend \/ TxSent \/ TxAbort
-----------------------------------------------------------------------------
(* Surroundings: writers of the configuration, WLAN, the peer, the clock *)

Configure ==
  /\ cfg' \in Config \ {cfg}
  /\ UNCHANGED <<sta, active, server, client, tcpUp, connecting, backoff, mu,
                 pc, target, sock, stats>>

StaChange ==
  /\ sta' = ~sta
  /\ UNCHANGED <<cfg, active, server, client, tcpUp, connecting, backoff, mu,
                 pc, target, sock, stats>>

PeerGone ==
  /\ client.st = "open" /\ client' = [client EXCEPT !.st = "dead"]
  /\ UNCHANGED <<cfg, sta, active, server, tcpUp, connecting, backoff, mu, pc,
                 target, sock, stats>>

IntervalPasses ==
  /\ backoff /\ backoff' = FALSE
  /\ UNCHANGED <<cfg, sta, active, server, client, tcpUp, connecting, mu, pc,
                 target, sock, stats>>

Environment == Configure \/ StaChange \/ PeerGone \/ IntervalPasses

Next == Mgmt \/ Rx \/ Tx \/ Environment

Spec == Init /\ [][Next]_vars

(* Every task is scheduled again and again and a send ends (at most 400     *)
(* fruitless retries, and the bytes left only shrink).  A free mutex is got *)
(* sooner or later, also by mgmt, the task of the lowest priority: rx and   *)
(* tx block on every round.  Nothing makes rx or tx start one: the bridge   *)
(* may be switched off.  A remote that is tried for ever answers.           *)
Fairness ==
  /\ SF_vars(Mgmt) /\ SF_vars(RxTake) /\ WF_vars(RxRecv)
  /\ WF_vars(TxSend) /\ WF_vars(TxSent \/ TxAbort) /\ SF_vars(TxTake)
  /\ WF_vars(IntervalPasses) /\ SF_vars(ConnectOk)

FairSpec == Spec /\ Fairness
-----------------------------------------------------------------------------
(* Safety *)

\* tcp_disconnects never counts more than was connected: every disconnect
\* counted belongs to a connect that is counted or just about to be, and a link
\* that is up is still to be counted.  It holds until a counter saturates, and
\* however late a mutex is got.
DisconnectsBalanced ==
  stats.disconnect < StatMax =>
    stats.disconnect + (IF tcpUp THEN 1 ELSE 0)
      <= stats.connect + (IF pc["mgmt"] = "count" THEN 1 ELSE 0)

\* The 200 ms of try_tcp_client for g_net_mu are over while a send keeps it,
\* and the attempt goes on to connect() without having stopped g_client.
StopMissed == pc["mgmt"] = "stop_take" /\ pc'["mgmt"] = "connect"

\* The behaviours without that: every other wait may expire.
InTimeSpec == Init /\ [][Next /\ ~StopMissed]_vars

\* While tcp_send_all works on a descriptor, g_client is still the connection
\* the descriptor was taken from: neither a reconnect, an accept nor a
\* teardown swaps the socket under a chunk.
SendExclusive ==
  pc["tx"] = "sending" => client.conn = sock /\ client.st # "closed"

\* g_tcp_up never stands for a link without a socket, also while mgmt stops and
\* connects g_client without the mutex and after waits for it have expired.
UpMeansSocket == tcpUp => client.st # "closed"

(* The invariant that carries these two as long as a reconnect stops the old *)
(* socket in time.  The holder of g_net_mu stands where it may hold it; from *)
(* connect() to UpSet nothing is marked as up, so neither rx nor tx works on *)
(* the socket that mgmt uses without the mutex.                              *)
HoldsMutex(t) ==
  \/ t = "mgmt" /\ pc[t] \in {"teardown_cs", "srv_check_cs", "accept_cs",
                              "cli_check_cs", "try_cs", "retire_cs",
                              "stop_cs", "up_cs"}
  \/ t = "rx" /\ pc[t] = "recv"
  \/ t = "tx" /\ pc[t] \in {"send", "sending"}

MutexInv == \A t \in Tasks : HoldsMutex(t) <=> mu = t

\* These two hold whatever wait expires: a send starts on a link that is up,
\* and g_tcp_up changes under the mutex only.
LockInv == MutexInv /\ (pc["tx"] = "sending" => tcpUp)

AttemptInv ==
  /\ pc["mgmt"] \in {"connect", "connect_wait", "up_take", "up_cs"} => ~tcpUp
  /\ pc["mgmt"] \in {"up_take", "up_cs"} => client.st # "closed"

SocketInv ==
  /\ client.st = "closed" <=> client.conn = None
  /\ sock # None => pc["tx"] = "sending"

LinkInv ==
  /\ LockInv /\ AttemptInv /\ SocketInv
  /\ SendExclusive /\ UpMeansSocket

(* And the one that carries them for a module that is never a client: mgmt  *)
(* then works on the socket under the mutex only.                           *)
ServerLabels ==
  {"loop", "teardown", "teardown_cs", "remember", "dispatch", "srv_check",
   "srv_check_cs", "accept", "accept_take", "accept_cs", "count"}

ServerInv ==
  /\ LockInv /\ SocketInv
  /\ SendExclusive /\ UpMeansSocket
  /\ pc["mgmt"] \in ServerLabels

(* Refinement: the bridge keeps one link at a time (LinkSession). *)
Session == INSTANCE LinkSession WITH
  link  <- IF tcpUp THEN client.conn ELSE None,
  alive <- tcpUp /\ client.st = "open",
  chunk <- sock

\* The three tasks together implement LinkSession: a living link is never
\* replaced, and no link opens or falls under a chunk in transit.
SessionRefined == Session!Spec

(* Liveness *)

\* A client whose station link stays up and whose configuration stays put gets
\* a link again and again, whatever mutex waits expire on the way; how long the
\* remote then keeps it is the remote's affair.
Reconnects ==
  <>[](cfg.mode = "client" /\ cfg = active /\ sta) =>
    []<>(tcpUp /\ client.st # "closed")

\* The check of network_mgmt_task for a link without a peer is skipped, because
\* a send keeps the mutex for longer than 50 ms.
CheckMissed ==
  /\ pc["mgmt"] \in {"srv_check", "cli_check"}
  /\ pc'["mgmt"] \in {"accept", "try"}

\* A peer that has gone is noticed while a TCP mode is configured, by recv, by
\* a failing send or by the check of network_mgmt_task: g_tcp_up does not keep
\* standing for it, unless that check misses the mutex again and again.
DeadLinkNoticed ==
  (Dead ~> (~Dead \/ cfg.mode = "off")) \/ []<><<CheckMissed>>_vars
-----------------------------------------------------------------------------
(* What does not hold *)

\* Also a link on which sends go on is noticed to be dead: no, a peer that has
\* closed its side takes bytes without connected(), and sends that take long
\* make both recv and the check miss the mutex for ever.
DeadLinkAlwaysNoticed == Dead ~> (~Dead \/ cfg.mode = "off")

\* Once teardown_all has run for a changed configuration, nothing of the old
\* one is left when the new one is remembered: no, close_tcp gives up when a
\* send keeps the mutex for 200 ms, and the link stays.
NewConfigDropsOldLink ==
  pc["mgmt"] = "remember" => /\ ~tcpUp /\ client.st # "open"
                             /\ server = None

\* try_tcp_client never closes a link that still counts as up: no, when its
\* check misses the mutex a living link is torn down and connected anew.
NoForcedReconnect == stats.reconnect = 0

\* Between two rounds of network_mgmt_task, when no change of configuration is
\* pending, a link that is up was made with the settings in force: no, a change
\* that is taken back within a round is not noticed.
LinkMatchesConfig ==
  pc["mgmt"] = "loop" /\ active = cfg /\ tcpUp => client.net = cfg.net
=============================================================================
