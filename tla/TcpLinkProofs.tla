---------------------------- MODULE TcpLinkProofs ----------------------------
(***************************************************************************)
(* Proofs about TcpLink, for any settings, any names of connections and    *)
(* any limit of the counters.  Type correctness and the balance of the     *)
(* counters hold however long a send keeps g_net_mu.  The exclusive use of *)
(* the socket holds in each behaviour in which one single wait, that of    *)
(* try_tcp_client before it stops g_client, does not expire (StopMissed);  *)
(* and as long as the module is no client, whatever wait expires.          *)
(***************************************************************************)
EXTENDS TcpLink, TLAPS

\* The saturating increment keeps a record of counters a record of counters.
LEMMA BumpType ==
  ASSUME NEW s \in Stats, NEW f \in {"connect", "disconnect", "reconnect"}
  PROVE  Bump(s, f) \in Stats
  BY StatAssumption DEF Bump, Stats

\* A fresh connection is a client, open and known under a name of its own.
LEMMA FreshType ==
  ASSUME NEW n \in Nets \cup {None}, NEW c \in Fresh(n)
  PROVE  /\ c \in Client /\ c.st = "open" /\ c.conn \in Conns
         /\ c.conn # client.conn /\ c.conn # sock
  BY DEF Fresh, Client

\* Closing keeps the types of the socket and of its flag.
LEMMA CloseType ==
  ASSUME client \in Client, CloseTcpLocked
  PROVE  client' \in Client /\ tcpUp' \in BOOLEAN
  BY DEF CloseTcpLocked, Client, Closed

\* A socket that was stopped is a client.
LEMMA ClosedType == Closed \in Client
  BY DEF Closed, Client

\* Every variable keeps its type, whatever the tasks and their surroundings do.
THEOREM TypeCorrect == Spec => []TypeOK
<1>1. Init => TypeOK
  <2> SUFFICES ASSUME Init PROVE TypeOK
    OBVIOUS
  <2>1. stats \in Stats BY StatAssumption DEF Init, Stats
  <2>2. client \in Client BY ClosedType DEF Init
  <2>3. /\ pc \in [Tasks -> MgmtLabels \cup RxLabels \cup TxLabels]
        /\ pc["mgmt"] \in MgmtLabels /\ pc["rx"] \in RxLabels
        /\ pc["tx"] \in TxLabels
    BY DEF Init, Tasks, MgmtLabels, RxLabels, TxLabels
  <2>4. QED BY <2>1, <2>2, <2>3 DEF Init, TypeOK, Modes
<1>2. TypeOK /\ [Next]_vars => TypeOK'
  <2> SUFFICES ASSUME TypeOK, [Next]_vars PROVE TypeOK'
    OBVIOUS
  <2> USE DEF TypeOK, Step, Acquire, TimesOut, Release, Tasks,
              MgmtLabels, RxLabels, TxLabels
  <2>1. CASE MgmtLoop BY <2>1 DEF MgmtLoop
  <2>2. CASE TeardownTake BY <2>2 DEF TeardownTake
  <2>3. CASE TeardownClose
    <3>1. stats' \in Stats BY <2>3, BumpType DEF TeardownClose
    <3>2. client' \in Client /\ tcpUp' \in BOOLEAN
      BY <2>3, CloseType DEF TeardownClose
    <3>3. QED BY <2>3, <3>1, <3>2 DEF TeardownClose
  <2>4. CASE Remember
    <3>1. active' \in [mode : Modes, net : Nets \cup {None}]
      BY <2>4 DEF Remember, Config
    <3>2. /\ pc' \in [Tasks -> MgmtLabels \cup RxLabels \cup TxLabels]
          /\ pc'["mgmt"] \in MgmtLabels /\ pc'["rx"] \in RxLabels
          /\ pc'["tx"] \in TxLabels
      BY <2>4 DEF Remember
    <3> HIDE DEF Step, Tasks, MgmtLabels, RxLabels, TxLabels
    <3>3. QED BY <2>4, <3>1, <3>2 DEF Remember
  <2>5. CASE Dispatch
    <3>1. server' \in Nets \cup {None} BY <2>5 DEF Dispatch, Config
    <3>2. QED BY <2>5, <3>1 DEF Dispatch
  <2>6. CASE SrvCheckTake BY <2>6 DEF SrvCheckTake, CheckTake
  <2>7. CASE SrvCheck
    <3>1. stats' \in Stats BY <2>7, BumpType DEF SrvCheck, CheckBody
    <3>2. client' \in Client /\ tcpUp' \in BOOLEAN
      BY <2>7, CloseType DEF SrvCheck, CheckBody
    <3>3. backoff' \in BOOLEAN BY <2>7 DEF SrvCheck, CheckBody
    <3>4. QED BY <2>7, <3>1, <3>2, <3>3 DEF SrvCheck, CheckBody
  <2>8. CASE CliCheckTake BY <2>8 DEF CliCheckTake, CheckTake
  <2>9. CASE CliCheck
    <3>1. stats' \in Stats BY <2>9, BumpType DEF CliCheck, CheckBody
    <3>2. client' \in Client /\ tcpUp' \in BOOLEAN
      BY <2>9, CloseType DEF CliCheck, CheckBody
    <3>3. backoff' \in BOOLEAN BY <2>9 DEF CliCheck, CheckBody
    <3>4. QED BY <2>9, <3>1, <3>2, <3>3 DEF CliCheck, CheckBody
  <2>10. CASE AcceptNone BY <2>10 DEF AcceptNone
  <2>11. CASE AcceptIncoming BY <2>11 DEF AcceptIncoming
  <2>12. CASE AcceptTake BY <2>12 DEF AcceptTake
  <2>13. CASE Accept
    <3>1. client' \in Client BY <2>13, FreshType DEF Accept
    <3>2. /\ pc' \in [Tasks -> MgmtLabels \cup RxLabels \cup TxLabels]
          /\ pc'["mgmt"] \in MgmtLabels /\ pc'["rx"] \in RxLabels
          /\ pc'["tx"] \in TxLabels
      BY <2>13 DEF Accept
    <3> HIDE DEF Step, Tasks, MgmtLabels, RxLabels, TxLabels
    <3>3. QED BY <2>13, <3>1, <3>2 DEF Accept
  <2>14. CASE TryStart BY <2>14 DEF TryStart
  <2>15. CASE TryTake BY <2>15 DEF TryTake, CheckTake
  <2>16. CASE TryCheck BY <2>16 DEF TryCheck
  <2>17. CASE TryTimer
    <3>1. backoff' \in BOOLEAN BY <2>17 DEF TryTimer
    <3>2. connecting' \in BOOLEAN BY <2>17 DEF TryTimer
    <3>3. QED BY <2>17, <3>1, <3>2 DEF TryTimer
  <2>18. CASE RetireTake
    <3>1. stats' \in Stats BY <2>18, BumpType DEF RetireTake
    <3>2. connecting' \in BOOLEAN BY <2>18 DEF RetireTake
    <3>3. QED BY <2>18, <3>1, <3>2 DEF RetireTake
  <2>19. CASE Retire
    <3>1. stats' \in Stats BY <2>19, BumpType DEF Retire
    <3>2. client' \in Client /\ tcpUp' \in BOOLEAN
      BY <2>19, CloseType DEF Retire
    <3>3. QED BY <2>19, <3>1, <3>2 DEF Retire
  <2>20. CASE StopTake BY <2>20 DEF StopTake, CheckTake
  <2>21. CASE StopClient
    <3>1. client' \in Client BY <2>21, ClosedType DEF StopClient
    <3>2. /\ pc' \in [Tasks -> MgmtLabels \cup RxLabels \cup TxLabels]
          /\ pc'["mgmt"] \in MgmtLabels /\ pc'["rx"] \in RxLabels
          /\ pc'["tx"] \in TxLabels
      BY <2>21 DEF StopClient
    <3> HIDE DEF Step, Tasks, MgmtLabels, RxLabels, TxLabels
    <3>3. QED BY <2>21, <3>1, <3>2 DEF StopClient
  <2>22. CASE ConnectStart
    <3>1. target' \in Nets \cup {None} BY <2>22 DEF ConnectStart, Config
    <3>2. QED BY <2>22, <3>1 DEF ConnectStart
  <2>23. CASE ConnectOk
    <3>1. client' \in Client BY <2>23, FreshType DEF ConnectOk
    <3>2. QED BY <2>23, <3>1 DEF ConnectOk
  <2>24. CASE ConnectFails
    <3>1. client' \in Client BY <2>24, ClosedType DEF ConnectFails
    <3>2. /\ pc' \in [Tasks -> MgmtLabels \cup RxLabels \cup TxLabels]
          /\ pc'["mgmt"] \in MgmtLabels /\ pc'["rx"] \in RxLabels
          /\ pc'["tx"] \in TxLabels
      BY <2>24 DEF ConnectFails
    <3> HIDE DEF Step, Tasks, MgmtLabels, RxLabels, TxLabels
    <3>3. QED BY <2>24, <3>1, <3>2 DEF ConnectFails
  <2>25. CASE UpTake
    <3>1. client' \in Client BY <2>25, ClosedType DEF UpTake
    <3>2. QED BY <2>25, <3>1 DEF UpTake
  <2>26. CASE UpSet BY <2>26 DEF UpSet
  <2>c. CASE Count
    <3>1. stats' \in Stats BY <2>c, BumpType DEF Count
    <3>2. connecting' \in BOOLEAN BY <2>c DEF Count
    <3>3. QED BY <2>c, <3>1, <3>2 DEF Count
  <2>27. CASE Finish
    <3>1. connecting' \in BOOLEAN BY <2>27 DEF Finish
    <3>2. QED BY <2>27, <3>1 DEF Finish
  <2>28. CASE RxStart BY <2>28 DEF RxStart
  <2>29. CASE RxTake BY <2>29 DEF RxTake
  <2>30. CASE RxRecv
    <3>1. stats' \in Stats BY <2>30, BumpType DEF RxRecv
    <3>2. client' \in Client /\ tcpUp' \in BOOLEAN
      BY <2>30, CloseType DEF RxRecv
    <3>3. backoff' \in BOOLEAN BY <2>30 DEF RxRecv
    <3>4. QED BY <2>30, <3>1, <3>2, <3>3 DEF RxRecv
  <2>31. CASE TxStart BY <2>31 DEF TxStart
  <2>32. CASE TxTake BY <2>32 DEF TxTake
  <2>33. CASE TxSend
    <3>1. sock' \in Conns \cup {None} BY <2>33 DEF TxSend, Client
    <3>2. QED BY <2>33, <3>1 DEF TxSend
  <2>34. CASE TxSent BY <2>34 DEF TxSent
  <2>35. CASE TxAbort
    <3>1. stats' \in Stats BY <2>35, BumpType DEF TxAbort
    <3>2. client' \in Client /\ tcpUp' \in BOOLEAN
      BY <2>35, CloseType DEF TxAbort
    <3>3. backoff' \in BOOLEAN BY <2>35 DEF TxAbort
    <3>4. QED BY <2>35, <3>1, <3>2, <3>3 DEF TxAbort
  <2>36. CASE Configure
    <3>1. cfg' \in Config BY <2>36 DEF Configure
    <3>2. QED BY <2>36, <3>1 DEF Configure
  <2>37. CASE StaChange BY <2>37 DEF StaChange
  <2>38. CASE PeerGone
    <3>1. client' \in Client BY <2>38 DEF PeerGone, Client
    <3>2. QED BY <2>38, <3>1 DEF PeerGone
  <2>39. CASE IntervalPasses
    <3>1. backoff' \in BOOLEAN BY <2>39 DEF IntervalPasses
    <3>2. QED BY <2>39, <3>1 DEF IntervalPasses
  <2>40. CASE UNCHANGED vars BY <2>40 DEF vars
  <2>41. QED
    BY <2>1, <2>2, <2>3, <2>4, <2>5, <2>6, <2>7, <2>8, <2>9, <2>10, <2>11,
       <2>12, <2>13, <2>14, <2>15, <2>16, <2>17, <2>18, <2>19, <2>20, <2>21,
       <2>22, <2>23, <2>24, <2>25, <2>26, <2>27, <2>28, <2>29, <2>30, <2>31,
       <2>32, <2>33, <2>34, <2>35, <2>36, <2>37, <2>38, <2>39, <2>40, <2>c
    DEF Next, Mgmt, Rx, Tx, Environment
<1>3. QED BY <1>1, <1>2, PTL DEF Spec
-----------------------------------------------------------------------------
\* g_net_mu is held by exactly the task whose program counter says so, and a
\* send runs on a link that is up, also when waits expire.
THEOREM MutexHeld == Spec => []LockInv
<1> USE DEF LockInv, MutexInv, HoldsMutex, Tasks
<1>1. Init => LockInv
  BY NoneAssumption DEF Init
<1>2. TypeOK /\ LockInv /\ [Next]_vars => LockInv'
  <2> SUFFICES ASSUME TypeOK, LockInv, [Next]_vars PROVE LockInv'
    OBVIOUS
  <2> USE NoneAssumption DEF TypeOK, Step, Acquire, TimesOut,
          Release, CloseTcpLocked
  <2>1. CASE MgmtLoop BY <2>1 DEF MgmtLoop
  <2>2. CASE TeardownTake BY <2>2 DEF TeardownTake
  <2>3. CASE TeardownClose BY <2>3 DEF TeardownClose
  <2>4. CASE Remember BY <2>4 DEF Remember
  <2>5. CASE Dispatch BY <2>5 DEF Dispatch
  <2>6. CASE SrvCheckTake BY <2>6 DEF SrvCheckTake, CheckTake
  <2>7. CASE SrvCheck BY <2>7 DEF SrvCheck, CheckBody
  <2>8. CASE CliCheckTake BY <2>8 DEF CliCheckTake, CheckTake
  <2>9. CASE CliCheck BY <2>9 DEF CliCheck, CheckBody
  <2>10. CASE AcceptNone BY <2>10 DEF AcceptNone
  <2>11. CASE AcceptIncoming BY <2>11 DEF AcceptIncoming
  <2>12. CASE AcceptTake BY <2>12 DEF AcceptTake
  <2>13. CASE Accept BY <2>13 DEF Accept
  <2>14. CASE TryStart BY <2>14 DEF TryStart
  <2>15. CASE TryTake BY <2>15 DEF TryTake, CheckTake
  <2>16. CASE TryCheck BY <2>16 DEF TryCheck
  <2>17. CASE TryTimer BY <2>17 DEF TryTimer
  <2>18. CASE RetireTake BY <2>18 DEF RetireTake
  <2>19. CASE Retire BY <2>19 DEF Retire
  <2>20. CASE StopTake BY <2>20 DEF StopTake, CheckTake
  <2>21. CASE StopClient BY <2>21 DEF StopClient
  <2>22. CASE ConnectStart BY <2>22 DEF ConnectStart
  <2>23. CASE ConnectOk BY <2>23 DEF ConnectOk
  <2>24. CASE ConnectFails BY <2>24 DEF ConnectFails
  <2>25. CASE UpTake BY <2>25 DEF UpTake
  <2>26. CASE UpSet BY <2>26 DEF UpSet
  <2>c. CASE Count BY <2>c DEF Count
  <2>27. CASE Finish BY <2>27 DEF Finish
  <2>28. CASE RxStart BY <2>28 DEF RxStart
  <2>29. CASE RxTake BY <2>29 DEF RxTake
  <2>30. CASE RxRecv BY <2>30 DEF RxRecv
  <2>31. CASE TxStart BY <2>31 DEF TxStart
  <2>32. CASE TxTake BY <2>32 DEF TxTake
  <2>33. CASE TxSend BY <2>33 DEF TxSend
  <2>34. CASE TxSent BY <2>34 DEF TxSent
  <2>35. CASE TxAbort BY <2>35 DEF TxAbort
  <2>36. CASE Configure BY <2>36 DEF Configure
  <2>37. CASE StaChange BY <2>37 DEF StaChange
  <2>38. CASE PeerGone BY <2>38 DEF PeerGone
  <2>39. CASE IntervalPasses BY <2>39 DEF IntervalPasses
  <2>40. CASE UNCHANGED vars BY <2>40 DEF vars
  <2>41. QED
    BY <2>1, <2>2, <2>3, <2>4, <2>5, <2>6, <2>7, <2>8, <2>9, <2>10, <2>11,
       <2>12, <2>13, <2>14, <2>15, <2>16, <2>17, <2>18, <2>19, <2>20, <2>21,
       <2>22, <2>23, <2>24, <2>25, <2>26, <2>27, <2>28, <2>29, <2>30, <2>31,
       <2>32, <2>33, <2>34, <2>35, <2>36, <2>37, <2>38, <2>39, <2>40, <2>c
    DEF Next, Mgmt, Rx, Tx, Environment
<1>3. QED BY <1>1, <1>2, TypeCorrect, PTL DEF Spec
-----------------------------------------------------------------------------
\* tcp_disconnects stays within tcp_connects: every step that counts a
\* disconnect takes g_tcp_up down, and a step that sets it leaves a connect to be
\* counted.
THEOREM DisconnectsAreBalanced == Spec => []DisconnectsBalanced
<1>1. Init => DisconnectsBalanced
  BY StatAssumption DEF Init, DisconnectsBalanced
<1>2. TypeOK /\ LockInv /\ DisconnectsBalanced /\ [Next]_vars => DisconnectsBalanced'
  <2> SUFFICES ASSUME TypeOK, LockInv, DisconnectsBalanced, [Next]_vars
               PROVE  DisconnectsBalanced'
    OBVIOUS
  <2> USE StatAssumption DEF TypeOK, Stats, DisconnectsBalanced, Bump,
          CloseTcpLocked, Dead, Step, Tasks
  <2>1. CASE MgmtLoop BY <2>1 DEF MgmtLoop
  <2>2. CASE TeardownTake BY <2>2 DEF TeardownTake
  <2>3. CASE TeardownClose BY <2>3 DEF TeardownClose
  <2>4. CASE Remember BY <2>4 DEF Remember
  <2>5. CASE Dispatch BY <2>5 DEF Dispatch
  <2>6. CASE SrvCheckTake BY <2>6 DEF SrvCheckTake, CheckTake
  <2>7. CASE SrvCheck BY <2>7 DEF SrvCheck, CheckBody
  <2>8. CASE CliCheckTake BY <2>8 DEF CliCheckTake, CheckTake
  <2>9. CASE CliCheck BY <2>9 DEF CliCheck, CheckBody
  <2>10. CASE AcceptNone BY <2>10 DEF AcceptNone
  <2>11. CASE AcceptIncoming BY <2>11 DEF AcceptIncoming
  <2>12. CASE AcceptTake BY <2>12 DEF AcceptTake
  <2>13. CASE Accept BY <2>13 DEF Accept
  <2>14. CASE TryStart BY <2>14 DEF TryStart
  <2>15. CASE TryTake BY <2>15 DEF TryTake, CheckTake
  <2>16. CASE TryCheck BY <2>16 DEF TryCheck
  <2>17. CASE TryTimer BY <2>17 DEF TryTimer
  <2>18. CASE RetireTake BY <2>18 DEF RetireTake
  <2>19. CASE Retire BY <2>19 DEF Retire
  <2>20. CASE StopTake BY <2>20 DEF StopTake, CheckTake
  <2>21. CASE StopClient BY <2>21 DEF StopClient
  <2>22. CASE ConnectStart BY <2>22 DEF ConnectStart
  <2>23. CASE ConnectOk BY <2>23 DEF ConnectOk
  <2>24. CASE ConnectFails BY <2>24 DEF ConnectFails
  <2>25. CASE UpTake BY <2>25 DEF UpTake
  <2>26. CASE UpSet BY <2>26 DEF UpSet
  <2>c. CASE Count BY <2>c DEF Count
  <2>27. CASE Finish BY <2>27 DEF Finish
  <2>28. CASE RxStart BY <2>28 DEF RxStart
  <2>29. CASE RxTake BY <2>29 DEF RxTake
  <2>30. CASE RxRecv BY <2>30 DEF RxRecv
  <2>31. CASE TxStart BY <2>31 DEF TxStart
  <2>32. CASE TxTake BY <2>32 DEF TxTake
  <2>33. CASE TxSend BY <2>33 DEF TxSend
  <2>34. CASE TxSent BY <2>34 DEF TxSent
  <2>35. CASE TxAbort
    <3>1. tcpUp BY <2>35 DEF TxAbort, LockInv, Step
    <3>2. QED BY <2>35, <3>1 DEF TxAbort
  <2>36. CASE Configure BY <2>36 DEF Configure
  <2>37. CASE StaChange BY <2>37 DEF StaChange
  <2>38. CASE PeerGone BY <2>38 DEF PeerGone
  <2>39. CASE IntervalPasses BY <2>39 DEF IntervalPasses
  <2>40. CASE UNCHANGED vars BY <2>40 DEF vars
  <2>41. QED
    BY <2>1, <2>2, <2>3, <2>4, <2>5, <2>6, <2>7, <2>8, <2>9, <2>10, <2>11,
       <2>12, <2>13, <2>14, <2>15, <2>16, <2>17, <2>18, <2>19, <2>20, <2>21,
       <2>22, <2>23, <2>24, <2>25, <2>26, <2>27, <2>28, <2>29, <2>30, <2>31,
       <2>32, <2>33, <2>34, <2>35, <2>36, <2>37, <2>38, <2>39, <2>40, <2>c
    DEF Next, Mgmt, Rx, Tx, Environment
<1>3. QED BY <1>1, <1>2, TypeCorrect, MutexHeld, PTL DEF Spec
-----------------------------------------------------------------------------
\* As long as a reconnect stops the old socket in time LinkInv holds, whatever
\* other wait expires: who stops g_client under the mutex leaves no send on it,
\* and none can start before the new link is marked as up.
THEOREM LinkInvariant == Spec /\ [][~StopMissed]_vars => []LinkInv
<1> USE DEF LinkInv, LockInv, MutexInv, HoldsMutex, AttemptInv, SocketInv,
            SendExclusive, UpMeansSocket
<1>1. Init => LinkInv
  BY NoneAssumption DEF Init, Tasks, Closed
<1>2. TypeOK /\ LinkInv /\ [Next]_vars /\ [~StopMissed]_vars => LinkInv'
  <2> SUFFICES ASSUME TypeOK, LinkInv, [Next]_vars, [~StopMissed]_vars
               PROVE  LinkInv'
    OBVIOUS
  <2> USE NoneAssumption DEF TypeOK, Step, Acquire, TimesOut, Release, Tasks,
          CloseTcpLocked, Closed, Dead, Client, Fresh
  <2>1. CASE MgmtLoop BY <2>1 DEF MgmtLoop
  <2>2. CASE TeardownTake BY <2>2 DEF TeardownTake
  <2>3. CASE TeardownClose BY <2>3 DEF TeardownClose
  <2>4. CASE Remember BY <2>4 DEF Remember
  <2>5. CASE Dispatch BY <2>5 DEF Dispatch
  <2>6. CASE SrvCheckTake BY <2>6 DEF SrvCheckTake, CheckTake
  <2>7. CASE SrvCheck BY <2>7 DEF SrvCheck, CheckBody
  <2>8. CASE CliCheckTake BY <2>8 DEF CliCheckTake, CheckTake
  <2>9. CASE CliCheck BY <2>9 DEF CliCheck, CheckBody
  <2>10. CASE AcceptNone BY <2>10 DEF AcceptNone
  <2>11. CASE AcceptIncoming BY <2>11 DEF AcceptIncoming
  <2>12. CASE AcceptTake BY <2>12 DEF AcceptTake
  <2>13. CASE Accept
    <3>1. CASE tcpUp /\ client.st = "open" BY <2>13, <3>1 DEF Accept
    <3>2. CASE ~(tcpUp /\ client.st = "open") BY <2>13, <3>2 DEF Accept
    <3>3. QED BY <3>1, <3>2
  <2>14. CASE TryStart BY <2>14 DEF TryStart
  <2>15. CASE TryTake BY <2>15 DEF TryTake, CheckTake
  <2>16. CASE TryCheck BY <2>16 DEF TryCheck
  <2>17. CASE TryTimer BY <2>17 DEF TryTimer
  <2>18. CASE RetireTake BY <2>18 DEF RetireTake
  <2>19. CASE Retire BY <2>19 DEF Retire
  <2>20. CASE StopTake
    <3>1. ~StopMissed BY <2>20 DEF StopTake, CheckTake, vars
    <3>2. QED BY <2>20, <3>1 DEF StopTake, CheckTake, StopMissed
  <2>21. CASE StopClient BY <2>21 DEF StopClient
  <2>22. CASE ConnectStart BY <2>22 DEF ConnectStart
  <2>23. CASE ConnectOk BY <2>23 DEF ConnectOk
  <2>24. CASE ConnectFails BY <2>24 DEF ConnectFails
  <2>25. CASE UpTake BY <2>25 DEF UpTake
  <2>26. CASE UpSet BY <2>26 DEF UpSet
  <2>c. CASE Count BY <2>c DEF Count
  <2>27. CASE Finish BY <2>27 DEF Finish
  <2>28. CASE RxStart BY <2>28 DEF RxStart
  <2>29. CASE RxTake BY <2>29 DEF RxTake
  <2>30. CASE RxRecv BY <2>30 DEF RxRecv
  <2>31. CASE TxStart BY <2>31 DEF TxStart
  <2>32. CASE TxTake BY <2>32 DEF TxTake
  <2>33. CASE TxSend BY <2>33 DEF TxSend
  <2>34. CASE TxSent BY <2>34 DEF TxSent
  <2>35. CASE TxAbort BY <2>35 DEF TxAbort
  <2>36. CASE Configure BY <2>36 DEF Configure
  <2>37. CASE StaChange BY <2>37 DEF StaChange
  <2>38. CASE PeerGone BY <2>38 DEF PeerGone
  <2>39. CASE IntervalPasses BY <2>39 DEF IntervalPasses
  <2>40. CASE UNCHANGED vars BY <2>40 DEF vars
  <2>41. QED
    BY <2>1, <2>2, <2>3, <2>4, <2>5, <2>6, <2>7, <2>8, <2>9, <2>10, <2>11,
       <2>12, <2>13, <2>14, <2>15, <2>16, <2>17, <2>18, <2>19, <2>20, <2>21,
       <2>22, <2>23, <2>24, <2>25, <2>26, <2>27, <2>28, <2>29, <2>30, <2>31,
       <2>32, <2>33, <2>34, <2>35, <2>36, <2>37, <2>38, <2>39, <2>40, <2>c
    DEF Next, Mgmt, Rx, Tx, Environment
<1>3. QED BY <1>1, <1>2, TypeCorrect, MutexHeld, PTL DEF Spec
-----------------------------------------------------------------------------
\* As long as a reconnect stops the old socket in time, a chunk in transit is
\* never moved to another connection, although all other waits may expire.
THEOREM SocketIsExclusive == Spec /\ [][~StopMissed]_vars => []SendExclusive
<1>1. LinkInv => SendExclusive BY DEF LinkInv
<1>2. QED BY <1>1, LinkInvariant, PTL

\* In the same behaviours a link that counts as up has a socket.
THEOREM UpHasSocket == Spec /\ [][~StopMissed]_vars => []UpMeansSocket
<1>1. LinkInv => UpMeansSocket BY DEF LinkInv
<1>2. QED BY <1>1, LinkInvariant, PTL

\* In the same behaviours the three tasks implement LinkSession: one link at a
\* time, never replaced while its peer lives, never opened or dropped under a
\* chunk in transit.
THEOREM BridgeKeepsOneLink == Spec /\ [][~StopMissed]_vars => SessionRefined
<1>1. Init => Session!Init
  BY DEF Init, Session!Init, Closed
<1>2. TypeOK /\ TypeOK' /\ LinkInv /\ LinkInv' /\ [Next]_vars
        => [Session!Next]_(Session!vars)
  <2> SUFFICES ASSUME TypeOK, LinkInv, LinkInv', [Next]_vars
               PROVE  [Session!Next]_(Session!vars)
    OBVIOUS
  <2> USE NoneAssumption
      DEF TypeOK, LinkInv, LockInv, MutexInv, HoldsMutex, AttemptInv,
          SocketInv, SendExclusive, UpMeansSocket, Tasks, Client, Fresh,
          Closed, CloseTcpLocked, Dead, Step, Acquire, TimesOut, Release,
          Session!Next, Session!vars, Session!Open, Session!PeerGone,
          Session!Drop, Session!Begin, Session!End
  <2>1. CASE MgmtLoop BY <2>1 DEF MgmtLoop
  <2>2. CASE TeardownTake BY <2>2 DEF TeardownTake
  <2>3. CASE TeardownClose BY <2>3 DEF TeardownClose
  <2>4. CASE Remember BY <2>4 DEF Remember
  <2>5. CASE Dispatch BY <2>5 DEF Dispatch
  <2>6. CASE SrvCheckTake BY <2>6 DEF SrvCheckTake, CheckTake
  <2>7. CASE SrvCheck BY <2>7 DEF SrvCheck, CheckBody
  <2>8. CASE CliCheckTake BY <2>8 DEF CliCheckTake, CheckTake
  <2>9. CASE CliCheck BY <2>9 DEF CliCheck, CheckBody
  <2>10. CASE AcceptNone BY <2>10 DEF AcceptNone
  <2>11. CASE AcceptIncoming BY <2>11 DEF AcceptIncoming
  <2>12. CASE AcceptTake BY <2>12 DEF AcceptTake
  <2>13. CASE Accept BY <2>13 DEF Accept
  <2>14. CASE TryStart BY <2>14 DEF TryStart
  <2>15. CASE TryTake BY <2>15 DEF TryTake, CheckTake
  <2>16. CASE TryCheck BY <2>16 DEF TryCheck
  <2>17. CASE TryTimer BY <2>17 DEF TryTimer
  <2>18. CASE RetireTake BY <2>18 DEF RetireTake
  <2>19. CASE Retire BY <2>19 DEF Retire
  <2>20. CASE StopTake BY <2>20 DEF StopTake, CheckTake
  <2>21. CASE StopClient BY <2>21 DEF StopClient
  <2>22. CASE ConnectStart BY <2>22 DEF ConnectStart
  <2>23. CASE ConnectOk BY <2>23 DEF ConnectOk
  <2>24. CASE ConnectFails BY <2>24 DEF ConnectFails
  <2>25. CASE UpTake BY <2>25 DEF UpTake
  <2>26. CASE UpSet BY <2>26 DEF UpSet
  <2>c. CASE Count BY <2>c DEF Count
  <2>27. CASE Finish BY <2>27 DEF Finish
  <2>28. CASE RxStart BY <2>28 DEF RxStart
  <2>29. CASE RxTake BY <2>29 DEF RxTake
  <2>30. CASE RxRecv BY <2>30 DEF RxRecv
  <2>31. CASE TxStart BY <2>31 DEF TxStart
  <2>32. CASE TxTake BY <2>32 DEF TxTake
  <2>33. CASE TxSend BY <2>33 DEF TxSend
  <2>34. CASE TxSent BY <2>34 DEF TxSent
  <2>35. CASE TxAbort BY <2>35 DEF TxAbort
  <2>36. CASE Configure BY <2>36 DEF Configure
  <2>37. CASE StaChange BY <2>37 DEF StaChange
  <2>38. CASE PeerGone BY <2>38 DEF PeerGone
  <2>39. CASE IntervalPasses BY <2>39 DEF IntervalPasses
  <2>40. CASE UNCHANGED vars BY <2>40 DEF vars
  <2>41. QED
    BY <2>1, <2>2, <2>3, <2>4, <2>5, <2>6, <2>7, <2>8, <2>9, <2>10, <2>11,
       <2>12, <2>13, <2>14, <2>15, <2>16, <2>17, <2>18, <2>19, <2>20, <2>21,
       <2>22, <2>23, <2>24, <2>25, <2>26, <2>27, <2>28, <2>29, <2>30, <2>31,
       <2>32, <2>33, <2>34, <2>35, <2>36, <2>37, <2>38, <2>39, <2>40, <2>c
    DEF Next, Mgmt, Rx, Tx, Environment
<1>3. QED BY <1>1, <1>2, TypeCorrect, LinkInvariant, PTL
    DEF Spec, SessionRefined, Session!Spec
-----------------------------------------------------------------------------
(* A module that is never a client: no bound on how long a send keeps the mutex *)

\* The steps network_mgmt_task makes as a client only.
ClientSteps ==
  \/ CliCheckTake \/ CliCheck \/ TryStart \/ TryTake \/ TryCheck \/ TryTimer
  \/ RetireTake \/ Retire \/ StopTake \/ StopClient \/ ConnectStart
  \/ ConnectOk \/ ConnectFails \/ UpTake \/ UpSet \/ Finish

\* Where a server stands none of them is possible.
LEMMA NoClientSteps == pc["mgmt"] \in ServerLabels => ~ClientSteps
  BY DEF ServerLabels, ClientSteps, Step, CliCheckTake, CliCheck, CheckTake,
         CheckBody, TryStart, TryTake, TryCheck, TryTimer, RetireTake, Retire,
         StopTake, StopClient, ConnectStart, ConnectOk, ConnectFails, UpTake,
         UpSet, Finish

\* While the module is no client, ServerInv holds, whatever waits expire: accept
\* and the liveness check touch the socket under the mutex or not at all.
THEOREM ServerInvariant == Spec /\ [](cfg.mode # "client") => []ServerInv
<1> USE DEF ServerInv, ServerLabels, LockInv, MutexInv, HoldsMutex, SocketInv,
            SendExclusive, UpMeansSocket
<1>1. Init => ServerInv
  BY NoneAssumption DEF Init, Tasks, Closed
<1>2. TypeOK /\ ServerInv /\ cfg.mode # "client" /\ [Next]_vars => ServerInv'
  <2> SUFFICES ASSUME TypeOK, ServerInv, cfg.mode # "client", [Next]_vars
               PROVE  ServerInv'
    OBVIOUS
  <2> USE NoneAssumption
      DEF TypeOK, Step, Acquire, TimesOut, Release, Tasks, CloseTcpLocked,
          Closed, Dead, Client, Fresh
  <2>1. CASE MgmtLoop BY <2>1 DEF MgmtLoop
  <2>2. CASE TeardownTake BY <2>2 DEF TeardownTake
  <2>3. CASE TeardownClose BY <2>3 DEF TeardownClose
  <2>4. CASE Remember BY <2>4 DEF Remember
  <2>5. CASE Dispatch BY <2>5 DEF Dispatch
  <2>6. CASE SrvCheckTake BY <2>6 DEF SrvCheckTake, CheckTake
  <2>7. CASE SrvCheck BY <2>7 DEF SrvCheck, CheckBody
  <2>8. CASE AcceptNone BY <2>8 DEF AcceptNone
  <2>9. CASE AcceptIncoming BY <2>9 DEF AcceptIncoming
  <2>10. CASE AcceptTake BY <2>10 DEF AcceptTake
  <2>11. CASE Accept
    <3>1. CASE tcpUp /\ client.st = "open" BY <2>11, <3>1 DEF Accept
    <3>2. CASE ~(tcpUp /\ client.st = "open") BY <2>11, <3>2 DEF Accept
    <3>3. QED BY <3>1, <3>2
  <2>12. CASE Count BY <2>12 DEF Count
  <2>13. CASE RxStart BY <2>13 DEF RxStart
  <2>14. CASE RxTake BY <2>14 DEF RxTake
  <2>15. CASE RxRecv BY <2>15 DEF RxRecv
  <2>16. CASE TxStart BY <2>16 DEF TxStart
  <2>17. CASE TxTake BY <2>17 DEF TxTake
  <2>18. CASE TxSend BY <2>18 DEF TxSend
  <2>19. CASE TxSent BY <2>19 DEF TxSent
  <2>20. CASE TxAbort BY <2>20 DEF TxAbort
  <2>21. CASE Configure BY <2>21 DEF Configure
  <2>22. CASE StaChange BY <2>22 DEF StaChange
  <2>23. CASE PeerGone BY <2>23 DEF PeerGone
  <2>24. CASE IntervalPasses BY <2>24 DEF IntervalPasses
  <2>25. CASE UNCHANGED vars BY <2>25 DEF vars
  <2>26. QED
    BY <2>1, <2>2, <2>3, <2>4, <2>5, <2>6, <2>7, <2>8, <2>9, <2>10,
       <2>11, <2>12, <2>13, <2>14, <2>15, <2>16, <2>17, <2>18, <2>19,
       <2>20, <2>21, <2>22, <2>23, <2>24, <2>25, NoClientSteps
    DEF Next, Mgmt, Rx, Tx, Environment, ClientSteps
<1>3. QED BY <1>1, <1>2, TypeCorrect, PTL DEF Spec

\* As long as the module is no client, a chunk in transit is never moved to
\* another connection, however long its send keeps the mutex.
THEOREM ServersKeepTheirSocket ==
  Spec /\ [](cfg.mode # "client") => []SendExclusive
<1>1. ServerInv => SendExclusive BY DEF ServerInv
<1>2. QED BY <1>1, ServerInvariant, PTL

\* As long as the module is no client, the three tasks implement LinkSession,
\* however long a send keeps the mutex.
THEOREM ServersKeepOneLink ==
  Spec /\ [](cfg.mode # "client") => SessionRefined
<1>1. Init => Session!Init
  BY DEF Init, Session!Init, Closed
<1>2. TypeOK /\ ServerInv /\ ServerInv' /\ [Next]_vars
        => [Session!Next]_(Session!vars)
  <2> SUFFICES ASSUME TypeOK, ServerInv, ServerInv', [Next]_vars
               PROVE  [Session!Next]_(Session!vars)
    OBVIOUS
  <2> USE NoneAssumption
      DEF TypeOK, ServerInv, LockInv, MutexInv, HoldsMutex, SocketInv,
          SendExclusive, UpMeansSocket, Tasks, Client, Fresh, Closed,
          CloseTcpLocked, Dead, Step, Acquire, TimesOut, Release,
          Session!Next, Session!vars, Session!Open, Session!PeerGone,
          Session!Drop, Session!Begin, Session!End
  <2>1. CASE MgmtLoop BY <2>1 DEF MgmtLoop
  <2>2. CASE TeardownTake BY <2>2 DEF TeardownTake
  <2>3. CASE TeardownClose BY <2>3 DEF TeardownClose
  <2>4. CASE Remember BY <2>4 DEF Remember
  <2>5. CASE Dispatch BY <2>5 DEF Dispatch
  <2>6. CASE SrvCheckTake BY <2>6 DEF SrvCheckTake, CheckTake
  <2>7. CASE SrvCheck BY <2>7 DEF SrvCheck, CheckBody
  <2>8. CASE AcceptNone BY <2>8 DEF AcceptNone
  <2>9. CASE AcceptIncoming BY <2>9 DEF AcceptIncoming
  <2>10. CASE AcceptTake BY <2>10 DEF AcceptTake
  <2>11. CASE Accept BY <2>11 DEF Accept
  <2>12. CASE Count BY <2>12 DEF Count
  <2>13. CASE RxStart BY <2>13 DEF RxStart
  <2>14. CASE RxTake BY <2>14 DEF RxTake
  <2>15. CASE RxRecv BY <2>15 DEF RxRecv
  <2>16. CASE TxStart BY <2>16 DEF TxStart
  <2>17. CASE TxTake BY <2>17 DEF TxTake
  <2>18. CASE TxSend BY <2>18 DEF TxSend
  <2>19. CASE TxSent BY <2>19 DEF TxSent
  <2>20. CASE TxAbort BY <2>20 DEF TxAbort
  <2>21. CASE Configure BY <2>21 DEF Configure
  <2>22. CASE StaChange BY <2>22 DEF StaChange
  <2>23. CASE PeerGone BY <2>23 DEF PeerGone
  <2>24. CASE IntervalPasses BY <2>24 DEF IntervalPasses
  <2>25. CASE UNCHANGED vars BY <2>25 DEF vars
  <2>26. QED
    BY <2>1, <2>2, <2>3, <2>4, <2>5, <2>6, <2>7, <2>8, <2>9, <2>10,
       <2>11, <2>12, <2>13, <2>14, <2>15, <2>16, <2>17, <2>18, <2>19,
       <2>20, <2>21, <2>22, <2>23, <2>24, <2>25, NoClientSteps
    DEF Next, Mgmt, Rx, Tx, Environment, ClientSteps
<1>3. QED BY <1>1, <1>2, TypeCorrect, ServerInvariant, PTL
    DEF Spec, SessionRefined, Session!Spec
=============================================================================
