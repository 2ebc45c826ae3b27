----------------------------- MODULE UdpLinkProofs -----------------------------
(***************************************************************************)
(* Theorems about UdpLink, for any configurations, peers, sizes and queue  *)
(* lengths.  The types hold for every scheduling; that a new configuration *)
(* forgets the peer of the old one, and that nothing is sent to a stranger,*)
(* rests on the priorities alone, for there is no lock: SocketInv says in  *)
(* which steps of mgmt the socket is closed and rx out of the way,         *)
(* KnownInv where a peer that counts as valid can come from.               *)
(***************************************************************************)
EXTENDS UdpLink, SequenceTheorems, TLAPS

SocketInv ==
  /\ pc["mgmt"] \in {"stopping", "clear", "remember"} =>
       sock = None /\ pc["rx"] \in {"idle", "put"}
  /\ pc["mgmt"] \in {"clear", "remember", "ensure", "set_ip", "set_port", "up"}
       => ~udpUp
  /\ pc["mgmt"] \in {"set_ip", "set_port", "up"} => sock # None
  /\ pc["mgmt"] = "remember" => ~peer.valid
  /\ ~udpUp /\ sock # None => pc["mgmt"] \in {"set_ip", "set_port", "up"}

\* While the configuration remembered is at rest: the socket is its own, and so
\* is a valid peer.
KnownInv ==
  /\ steady =>
       /\ cfg = active /\ sock \in {None, cfg}
       /\ pc["mgmt"] \notin {"stop", "stopping", "clear", "remember"}
       /\ pc["mgmt"] \in {"set_ip", "set_port"} => cfg.mode = "client"
       /\ pc["mgmt"] = "set_port" => peer.ip = cfg.net
       /\ sock = None \/ pc["mgmt"] \in {"set_ip", "set_port"} => ~peer.valid
       /\ peer.valid /\ cfg.mode = "server" =>
            {peer.ip, peer.port} \subseteq heard
       /\ peer.valid /\ cfg.mode # "server" =>
            peer.ip = cfg.net /\ peer.port = cfg.net
       /\ pc["rx"] \in {"set_ip", "set_port"} =>
            from \in heard /\ cfg.mode = "server" /\ udpUp /\ sock # None
       /\ pc["rx"] = "set_port" => peer.ip \in heard
       /\ pc["tx"] \in {"peek", "begin"} => peer.valid
       /\ pc["tx"] = "begin" /\ cfg.mode = "server" => target.ip \in heard
       /\ pc["tx"] = "begin" /\ cfg.mode # "server" => target.ip = cfg.net
-----------------------------------------------------------------------------
LEMMA HeadIn ==
  ASSUME NEW S, NEW s \in Seq(S), s # <<>>
  PROVE  Head(s) \in S
BY HeadTailProperties

LEMMA SizeIn ==
  ASSUME NEW d \in [from : Peers, size : Sizes]
  PROVE  d.size \in Sizes
OBVIOUS

LEMMA PositiveSize ==
  ASSUME NEW n, n \in Sizes
  PROVE  n \in Nat /\ n >= 1
<1>1. n \in Nat /\ n # 0 BY BoundAssumption
<1>2. QED BY <1>1

LEMMA TypesKept ==
  ASSUME TypeOK, [Next]_vars
  PROVE  TypeOK'
<1> USE ConfigAssumption, BoundAssumption
    DEF TypeOK, Tasks, Labels, Addresses, Nets, Nowhere, Mgmt, Step, Udp,
        Parses, link
<1>1. CASE MgmtLoop BY <1>1 DEF MgmtLoop
<1>2. CASE StopSocket
  <2>1. wire' = wire \/ wire' = <<>> BY <1>2 DEF StopSocket
  <2>2. wire' = wire => wire' \in Seq([from : Peers, size : Sizes])
    OBVIOUS
  <2>3. wire' = <<>> => wire' \in Seq([from : Peers, size : Sizes])
    OBVIOUS
  <2>4. Len(wire') <= WireMax BY <2>1
  <2>5. pc' \in [Tasks -> Labels] BY <1>2 DEF StopSocket
  <2>6. rest' \in Nat /\ heard' \in SUBSET Peers BY <1>2 DEF StopSocket
  <2>7. QED BY <1>2, <2>1, <2>2, <2>3, <2>4, <2>5, <2>6 DEF StopSocket
<1>3. CASE Stopped BY <1>3, ZenonT(30) DEF Stopped
<1>4. CASE Clear BY <1>4 DEF Clear
<1>5. CASE Remember BY <1>5 DEF Remember
<1>6. CASE Dispatch BY <1>6 DEF Dispatch
<1>7. CASE EnsureFails BY <1>7 DEF EnsureFails
<1>8. CASE Ensure BY <1>8, ZenonT(30) DEF Ensure, Hostless
<1>9. CASE SetIp BY <1>9 DEF SetIp
<1>10. CASE SetPort BY <1>10 DEF SetPort
<1>11. CASE Up BY <1>11 DEF Up
<1>12. CASE RxRead
  <2>1. wire \in Seq([from : Peers, size : Sizes]) /\ wire # <<>>
    BY <1>12 DEF RxRead
  <2>2. Head(wire) \in [from : Peers, size : Sizes] BY <2>1, HeadIn
  <2>3. /\ Tail(wire) \in Seq([from : Peers, size : Sizes])
        /\ Len(Tail(wire)) <= WireMax
    BY <1>12 DEF RxRead
  <2>4. pc' \in [Tasks -> Labels] BY <1>12 DEF RxRead
  <2>5. from' \in Peers /\ heard' \in SUBSET Peers BY <1>12, <2>2 DEF RxRead
  <2>6. Head(wire).size \in Sizes BY <2>2, SizeIn
  <2>7. Head(wire).size \in Nat /\ Head(wire).size >= 1 BY <2>6, PositiveSize
  <2>8. rest' \in Nat BY <1>12, <2>7 DEF RxRead
  <2>9. QED BY <1>12, <2>3, <2>4, <2>5, <2>8 DEF RxRead
<1>13. CASE RxSetIp BY <1>13 DEF RxSetIp
<1>14. CASE RxSetPort BY <1>14 DEF RxSetPort
<1>15. CASE RxPut BY <1>15 DEF RxPut
<1>16. CASE TxTake BY <1>16 DEF TxTake
<1>17. CASE TxPeek BY <1>17 DEF TxPeek
<1>18. CASE TxNoMutex BY <1>18 DEF TxNoMutex
<1>19. CASE TxBegin BY <1>19 DEF TxBegin
<1>20. CASE TxEnd BY <1>20 DEF TxEnd
<1>21. CASE BusTake BY <1>21 DEF BusTake
<1>22. CASE Configure BY <1>22, ZenonT(30) DEF Configure
<1>23. CASE Datagram BY <1>23 DEF Datagram
<1>24. CASE UNCHANGED vars BY <1>24 DEF vars
<1>25. QED
  BY <1>1, <1>2, <1>3, <1>4, <1>5, <1>6, <1>7, <1>8, <1>9, <1>10, <1>11,
     <1>12, <1>13, <1>14, <1>15, <1>16, <1>17, <1>18, <1>19, <1>20, <1>21,
     <1>22, <1>23, <1>24
  DEF Next, MgmtTask, RxTask, TxTask, Outside

LEMMA SocketKept ==
  ASSUME Priorities, TypeOK, SocketInv, [Next]_vars
  PROVE  SocketInv'
<1> USE ConfigAssumption DEF TypeOK, SocketInv, Tasks, Mgmt, MgmtRuns, Step, Parses, link
<1>1. CASE MgmtLoop BY <1>1 DEF MgmtLoop
<1>2. CASE StopSocket BY <1>2 DEF StopSocket
<1>3. CASE Stopped BY <1>3 DEF Stopped
<1>4. CASE Clear BY <1>4 DEF Clear
<1>5. CASE Remember BY <1>5 DEF Remember
<1>6. CASE Dispatch BY <1>6 DEF Dispatch
<1>7. CASE EnsureFails BY <1>7 DEF EnsureFails
<1>8. CASE Ensure BY <1>8 DEF Ensure, Hostless
<1>9. CASE SetIp BY <1>9 DEF SetIp
<1>10. CASE SetPort BY <1>10 DEF SetPort
<1>11. CASE Up BY <1>11 DEF Up
<1>12. CASE RxRead BY <1>12 DEF RxRead
<1>13. CASE RxSetIp BY <1>13 DEF RxSetIp
<1>14. CASE RxSetPort BY <1>14 DEF RxSetPort
<1>15. CASE RxPut BY <1>15 DEF RxPut
<1>16. CASE TxTake BY <1>16 DEF TxTake
<1>17. CASE TxPeek BY <1>17 DEF TxPeek
<1>18. CASE TxNoMutex BY <1>18 DEF TxNoMutex
<1>19. CASE TxBegin BY <1>19 DEF TxBegin
<1>20. CASE TxEnd BY <1>20 DEF TxEnd
<1>21. CASE BusTake BY <1>21 DEF BusTake
<1>22. CASE Configure BY <1>22 DEF Configure
<1>23. CASE Datagram BY <1>23 DEF Datagram
<1>24. CASE UNCHANGED vars BY <1>24 DEF vars
<1>25. QED
  BY <1>1, <1>2, <1>3, <1>4, <1>5, <1>6, <1>7, <1>8, <1>9, <1>10, <1>11,
     <1>12, <1>13, <1>14, <1>15, <1>16, <1>17, <1>18, <1>19, <1>20, <1>21,
     <1>22, <1>23, <1>24
  DEF Next, MgmtTask, RxTask, TxTask, Outside

LEMMA KnownKept ==
  ASSUME Priorities, TypeOK, SocketInv, KnownInv, [Next]_vars
  PROVE  KnownInv'
<1> USE ConfigAssumption
    DEF TypeOK, SocketInv, KnownInv, Tasks, Mgmt, MgmtRuns, Step, Udp, Parses,
        link
<1>1. CASE MgmtLoop BY <1>1 DEF MgmtLoop
<1>2. CASE StopSocket BY <1>2 DEF StopSocket
<1>3. CASE Stopped BY <1>3 DEF Stopped
<1>4. CASE Clear BY <1>4 DEF Clear
<1>5. CASE Remember BY <1>5 DEF Remember
<1>6. CASE Dispatch BY <1>6 DEF Dispatch
<1>7. CASE EnsureFails BY <1>7 DEF EnsureFails
<1>8. CASE Ensure BY <1>8 DEF Ensure, Hostless
<1>9. CASE SetIp BY <1>9 DEF SetIp
<1>10. CASE SetPort BY <1>10 DEF SetPort
<1>11. CASE Up BY <1>11 DEF Up
<1>12. CASE RxRead BY <1>12 DEF RxRead
<1>13. CASE RxSetIp BY <1>13 DEF RxSetIp
<1>14. CASE RxSetPort BY <1>14 DEF RxSetPort
<1>15. CASE RxPut BY <1>15 DEF RxPut
<1>16. CASE TxTake BY <1>16 DEF TxTake
<1>17. CASE TxPeek BY <1>17 DEF TxPeek
<1>18. CASE TxNoMutex BY <1>18 DEF TxNoMutex
<1>19. CASE TxBegin BY <1>19 DEF TxBegin
<1>20. CASE TxEnd BY <1>20 DEF TxEnd
<1>21. CASE BusTake BY <1>21 DEF BusTake
<1>22. CASE Configure BY <1>22 DEF Configure
<1>23. CASE Datagram BY <1>23 DEF Datagram
<1>24. CASE UNCHANGED vars BY <1>24 DEF vars
<1>25. QED
  BY <1>1, <1>2, <1>3, <1>4, <1>5, <1>6, <1>7, <1>8, <1>9, <1>10, <1>11,
     <1>12, <1>13, <1>14, <1>15, <1>16, <1>17, <1>18, <1>19, <1>20, <1>21,
     <1>22, <1>23, <1>24
  DEF Next, MgmtTask, RxTask, TxTask, Outside

-----------------------------------------------------------------------------
\* The types of the UDP side, whatever the scheduling.
THEOREM TypeCorrect == Spec => []TypeOK
<1>1. Init => TypeOK
  <2> SUFFICES ASSUME Init PROVE TypeOK
    OBVIOUS
  <2> USE ConfigAssumption, BoundAssumption DEF Init, Tasks, Nowhere
  <2>1. wire \in Seq([from : Peers, size : Sizes]) /\ Len(wire) <= WireMax
    OBVIOUS
  <2>2. pc \in [Tasks -> Labels] BY DEF Labels
  <2>3. peer \in [ip : Addresses \cup {None}, port : Addresses \cup {None},
                  valid : BOOLEAN]
    OBVIOUS
  <2>4. target \in [ip : Addresses \cup {None}, port : Addresses \cup {None}]
    OBVIOUS
  <2>5. cfg \in Configs /\ active \in Configs /\ sock \in Configs \cup {None}
    OBVIOUS
  <2>6. busQ \in 0..QueueLen /\ rest \in Nat OBVIOUS
  <2>7. udpUp \in BOOLEAN /\ steady \in BOOLEAN OBVIOUS
  <2>8. from \in Peers \cup {None} /\ heard \in SUBSET Peers OBVIOUS
  <2>9. QED BY <2>1, <2>2, <2>3, <2>4, <2>5, <2>6, <2>7, <2>8 DEF TypeOK
<1>2. TypeOK /\ [Next]_vars => TypeOK' BY TypesKept
<1>3. QED BY <1>1, <1>2, PTL DEF Spec

\* The invariant the properties rest on, by the priorities of the tasks.
THEOREM UdpInvariant ==
  ASSUME Priorities PROVE Spec => [](SocketInv /\ KnownInv)
<1>1. Init => SocketInv /\ KnownInv
  BY DEF Init, SocketInv, KnownInv, Tasks
<1>2. TypeOK /\ SocketInv /\ KnownInv /\ [Next]_vars => SocketInv' /\ KnownInv'
  BY SocketKept, KnownKept
<1>3. QED BY <1>1, <1>2, TypeCorrect, PTL DEF Spec

\* A changed configuration is remembered without socket and peer of the old one.
THEOREM OldPeerIsForgotten ==
  ASSUME Priorities PROVE Spec => []NewConfigForgetsPeer
<1>1. SocketInv => NewConfigForgetsPeer
  BY DEF SocketInv, NewConfigForgetsPeer
<1>2. QED BY <1>1, UdpInvariant, PTL

\* A server sends only to who was heard on its socket, a client at rest only to
\* its remote, for any number of configurations and peers.
THEOREM NothingGoesToStrangers ==
  ASSUME Priorities PROVE Spec => SendsToKnown
<1>1. TypeOK /\ SocketInv /\ KnownInv /\ [Next]_vars =>
        [Begins /\ steady /\ sock # None =>
           IF sock.mode = "server"
           THEN {target'.ip, target'.port} \subseteq heard
           ELSE target' = [ip |-> sock.net, port |-> sock.net]]_vars
  <2> SUFFICES ASSUME TypeOK, KnownInv, [Next]_vars, Begins, steady, sock # None
               PROVE  IF sock.mode = "server"
                      THEN {target'.ip, target'.port} \subseteq heard
                      ELSE target' = [ip |-> sock.net, port |-> sock.net]
    OBVIOUS
  <2>1. TxBegin
    BY DEF Begins, TypeOK, Tasks, Next, MgmtTask, RxTask, TxTask, Outside,
           MgmtLoop, StopSocket, Stopped, Clear, Remember, Dispatch,
           EnsureFails, Ensure, SetIp, SetPort, Up, RxRead, RxSetIp,
           RxSetPort, RxPut, TxTake, TxPeek, TxNoMutex, TxEnd, BusTake,
           Configure, Datagram, Mgmt, Step, vars
  <2>2. target' = [target EXCEPT !.port = peer.port] BY <2>1 DEF TxBegin
  <2>3. sock = cfg /\ peer.valid /\ pc["tx"] = "begin"
    BY DEF KnownInv, Begins
  <2>4. target'.ip = target.ip /\ target'.port = peer.port
    BY <2>2 DEF TypeOK
  <2>5. CASE cfg.mode = "server" BY <2>3, <2>4, <2>5 DEF KnownInv
  <2>6. CASE cfg.mode # "server"
    <3>1. target'.ip = cfg.net /\ target'.port = cfg.net
      BY <2>3, <2>4, <2>6 DEF KnownInv
    <3>2. target' = [ip |-> cfg.net, port |-> cfg.net]
      BY <3>1, <2>2 DEF TypeOK
    <3>3. QED BY <2>3, <2>6, <3>2
  <2>7. QED BY <2>5, <2>6
<1>2. QED BY <1>1, TypeCorrect, UdpInvariant, PTL DEF Spec, SendsToKnown
===============================================================================
