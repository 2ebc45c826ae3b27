--------------------------- MODULE WifiManagerProofs ---------------------------
(***************************************************************************)
(* Theorems about WifiManager, for any networks, requests and outcomes of  *)
(* scanNetworks: the types, with the number of attempts that decides when  *)
(* a station falls back, and that g_scan_active ends with the last scan.   *)
(*                                                                         *)
(* The radio: it is off only for the steps of a task that will join        *)
(* (OffIsShort).  If scans start, a SoftAP stays alone but for scans while *)
(* the mode is AP (SoftApInv), and a station is at work while its network  *)
(* stays (StationInv), whoever applies or scans meanwhile.                 *)
(***************************************************************************)
EXTENDS WifiManager, TLAPS

\* The parts of TypeOK, each with what it needs of the others.
PlaceOK == pc \in [Tasks -> Labels]
RadioOK ==
  /\ radio \subseteq Both
  /\ target \in Ssids \cup {None} /\ connected \in BOOLEAN
ConfigOK == cfg \in Config
ManagerOK ==
  /\ state \in {"DOWN", "STA_CONNECTED", "AP_UP"}
  /\ fallback \in BOOLEAN /\ due \in BOOLEAN
  /\ connected \in BOOLEAN /\ seen \in BOOLEAN
AttemptsOK == attempts \in 0..MaxAttempts
ScansOK ==
  /\ scanActive \in BOOLEAN /\ pending \in BOOLEAN
  /\ async \in {"IDLE", "RUNNING", "DONE", "FAILED"}
  /\ connected \in BOOLEAN /\ job \in [Scanners -> Job]

LEMMA PlaceKept ==
  ASSUME PlaceOK, [Next]_vars
  PROVE  PlaceOK'
<1> USE DEF PlaceOK, Tasks, Appliers, Scanners, Labels, Step
<1>1. CASE MgrLook BY <1>1 DEF MgrLook
<1>2. CASE MgrStrip BY <1>2 DEF MgrStrip
<1>3. CASE MgrJoined BY <1>3 DEF MgrJoined
<1>4. CASE MgrWait BY <1>4 DEF MgrWait
<1>5. CASE MgrRetry BY <1>5 DEF MgrRetry
<1>6. CASE MgrBegin BY <1>6 DEF MgrBegin
<1>7. CASE MgrFallback BY <1>7 DEF MgrFallback
<1>8. CASE MgrFlag BY <1>8 DEF MgrFlag
<1>9. CASE MgrReport BY <1>9 DEF MgrReport
<1>10. CASE MgrAp BY <1>10 DEF MgrAp
<1>11. CASE AtPolls BY <1>11 DEF AtPolls
<1>12. CASE WebPost BY <1>12 DEF WebPost
<1>13. CASE WebPostRefused BY <1>13 DEF WebPostRefused
<1>14. CASE AtMode BY <1>14 DEF AtMode
<1>15. CASE AtSsid BY <1>15 DEF AtSsid
<1>16. CASE AtScan BY <1>16 DEF AtScan
<1>17. CASE WebScan BY <1>17 DEF WebScan
<1>18. CASE Join BY <1>18 DEF Join
<1>19. CASE Leave BY <1>19 DEF Leave
<1>20. CASE RetryDue BY <1>20 DEF RetryDue
<1>21. CASE WebStatus BY <1>21 DEF WebStatus
<1>22. ASSUME NEW t \in Appliers, Apply(t) PROVE PlaceOK'
  BY <1>22 DEF Apply
<1>23. ASSUME NEW t \in Appliers, ApplySta(t) PROVE PlaceOK'
  BY <1>23 DEF ApplySta
<1>24. ASSUME NEW t \in Appliers, ApplyBegin(t) PROVE PlaceOK'
  BY <1>24 DEF ApplyBegin
<1>25. ASSUME NEW t \in Appliers, ApplyAp(t) PROVE PlaceOK'
  BY <1>25 DEF ApplyAp
<1>26. ASSUME NEW t \in Appliers, Applied(t) PROVE PlaceOK'
  BY <1>26 DEF Applied
<1>27. ASSUME NEW t \in Scanners, ScanBegin(t) PROVE PlaceOK'
  BY <1>27 DEF ScanBegin
<1>28. ASSUME NEW t \in Scanners, ScanPrepare(t) PROVE PlaceOK'
  BY <1>28 DEF ScanPrepare
<1>29. ASSUME NEW t \in Scanners, ScanStart(t) PROVE PlaceOK'
  BY <1>29 DEF ScanStart
<1>30. ASSUME NEW t \in Scanners, ScanDone(t) PROVE PlaceOK'
  BY <1>30 DEF ScanDone
<1>31. ASSUME NEW t \in Scanners, ScanRestore(t) PROVE PlaceOK'
  BY <1>31 DEF ScanRestore
<1>32. ASSUME NEW t \in Scanners, ScanRejoin(t) PROVE PlaceOK'
  BY <1>32 DEF ScanRejoin
<1>33. ASSUME NEW t \in Scanners, ScanEnded(t) PROVE PlaceOK'
  BY <1>33 DEF ScanEnded
<1>34. CASE UNCHANGED vars BY <1>34 DEF vars
<1>35. QED
  BY <1>1, <1>2, <1>3, <1>4, <1>5, <1>6, <1>7, <1>8, <1>9, <1>10, <1>11,
     <1>12, <1>13, <1>14, <1>15, <1>16, <1>17, <1>18, <1>19, <1>20,
     <1>21, <1>22, <1>23, <1>24, <1>25, <1>26, <1>27, <1>28, <1>29,
     <1>30, <1>31, <1>32, <1>33, <1>34
  DEF Next, Mgr, Request, Environment, Applying, Scanning

LEMMA ConfigKept ==
  ASSUME ConfigOK, [Next]_vars
  PROVE  ConfigOK'
<1> USE NameAssumption DEF ConfigOK, Config
<1>1. CASE MgrLook BY <1>1 DEF MgrLook
<1>2. CASE MgrStrip BY <1>2 DEF MgrStrip
<1>3. CASE MgrJoined BY <1>3 DEF MgrJoined
<1>4. CASE MgrWait BY <1>4 DEF MgrWait
<1>5. CASE MgrRetry BY <1>5 DEF MgrRetry
<1>6. CASE MgrBegin BY <1>6 DEF MgrBegin
<1>7. CASE MgrFallback BY <1>7 DEF MgrFallback
<1>8. CASE MgrFlag BY <1>8 DEF MgrFlag
<1>9. CASE MgrReport BY <1>9 DEF MgrReport
<1>10. CASE MgrAp BY <1>10 DEF MgrAp
<1>11. CASE AtPolls BY <1>11 DEF AtPolls
<1>12. CASE WebPost BY <1>12 DEF WebPost
<1>13. CASE WebPostRefused BY <1>13 DEF WebPostRefused
<1>14. CASE AtMode BY <1>14 DEF AtMode
<1>15. CASE AtSsid BY <1>15 DEF AtSsid
<1>16. CASE AtScan BY <1>16 DEF AtScan
<1>17. CASE WebScan BY <1>17 DEF WebScan
<1>18. CASE Join BY <1>18 DEF Join
<1>19. CASE Leave BY <1>19 DEF Leave
<1>20. CASE RetryDue BY <1>20 DEF RetryDue
<1>21. CASE WebStatus BY <1>21 DEF WebStatus
<1>22. ASSUME NEW t \in Appliers, Apply(t) PROVE ConfigOK'
  BY <1>22 DEF Apply
<1>23. ASSUME NEW t \in Appliers, ApplySta(t) PROVE ConfigOK'
  BY <1>23 DEF ApplySta
<1>24. ASSUME NEW t \in Appliers, ApplyBegin(t) PROVE ConfigOK'
  BY <1>24 DEF ApplyBegin
<1>25. ASSUME NEW t \in Appliers, ApplyAp(t) PROVE ConfigOK'
  BY <1>25 DEF ApplyAp
<1>26. ASSUME NEW t \in Appliers, Applied(t) PROVE ConfigOK'
  BY <1>26 DEF Applied
<1>27. ASSUME NEW t \in Scanners, ScanBegin(t) PROVE ConfigOK'
  BY <1>27 DEF ScanBegin
<1>28. ASSUME NEW t \in Scanners, ScanPrepare(t) PROVE ConfigOK'
  BY <1>28 DEF ScanPrepare
<1>29. ASSUME NEW t \in Scanners, ScanStart(t) PROVE ConfigOK'
  BY <1>29 DEF ScanStart
<1>30. ASSUME NEW t \in Scanners, ScanDone(t) PROVE ConfigOK'
  BY <1>30 DEF ScanDone
<1>31. ASSUME NEW t \in Scanners, ScanRestore(t) PROVE ConfigOK'
  BY <1>31 DEF ScanRestore
<1>32. ASSUME NEW t \in Scanners, ScanRejoin(t) PROVE ConfigOK'
  BY <1>32 DEF ScanRejoin
<1>33. ASSUME NEW t \in Scanners, ScanEnded(t) PROVE ConfigOK'
  BY <1>33 DEF ScanEnded
<1>34. CASE UNCHANGED vars BY <1>34 DEF vars
<1>35. QED
  BY <1>1, <1>2, <1>3, <1>4, <1>5, <1>6, <1>7, <1>8, <1>9, <1>10, <1>11,
     <1>12, <1>13, <1>14, <1>15, <1>16, <1>17, <1>18, <1>19, <1>20,
     <1>21, <1>22, <1>23, <1>24, <1>25, <1>26, <1>27, <1>28, <1>29,
     <1>30, <1>31, <1>32, <1>33, <1>34
  DEF Next, Mgr, Request, Environment, Applying, Scanning

LEMMA RadioKept ==
  ASSUME cfg.ssid \in Ssids \cup {None}, RadioOK, [Next]_vars
  PROVE  RadioOK'
<1> USE DEF RadioOK, Both, driver, SetMode, Disconnect, WiFiBegin
<1>1. CASE MgrLook BY <1>1 DEF MgrLook
<1>2. CASE MgrStrip BY <1>2 DEF MgrStrip
<1>3. CASE MgrJoined BY <1>3 DEF MgrJoined
<1>4. CASE MgrWait BY <1>4 DEF MgrWait
<1>5. CASE MgrRetry BY <1>5 DEF MgrRetry
<1>6. CASE MgrBegin BY <1>6 DEF MgrBegin
<1>7. CASE MgrFallback BY <1>7 DEF MgrFallback
<1>8. CASE MgrFlag BY <1>8 DEF MgrFlag
<1>9. CASE MgrReport BY <1>9 DEF MgrReport
<1>10. CASE MgrAp BY <1>10 DEF MgrAp
<1>11. CASE AtPolls BY <1>11 DEF AtPolls
<1>12. CASE WebPost BY <1>12 DEF WebPost
<1>13. CASE WebPostRefused BY <1>13 DEF WebPostRefused
<1>14. CASE AtMode BY <1>14 DEF AtMode
<1>15. CASE AtSsid BY <1>15 DEF AtSsid
<1>16. CASE AtScan BY <1>16 DEF AtScan
<1>17. CASE WebScan BY <1>17 DEF WebScan
<1>18. CASE Join BY <1>18 DEF Join
<1>19. CASE Leave BY <1>19 DEF Leave
<1>20. CASE RetryDue BY <1>20 DEF RetryDue
<1>21. CASE WebStatus BY <1>21 DEF WebStatus
<1>22. ASSUME NEW t \in Appliers, Apply(t) PROVE RadioOK'
  BY <1>22 DEF Apply
<1>23. ASSUME NEW t \in Appliers, ApplySta(t) PROVE RadioOK'
  BY <1>23 DEF ApplySta
<1>24. ASSUME NEW t \in Appliers, ApplyBegin(t) PROVE RadioOK'
  BY <1>24 DEF ApplyBegin
<1>25. ASSUME NEW t \in Appliers, ApplyAp(t) PROVE RadioOK'
  BY <1>25 DEF ApplyAp
<1>26. ASSUME NEW t \in Appliers, Applied(t) PROVE RadioOK'
  BY <1>26 DEF Applied
<1>27. ASSUME NEW t \in Scanners, ScanBegin(t) PROVE RadioOK'
  BY <1>27 DEF ScanBegin
<1>28. ASSUME NEW t \in Scanners, ScanPrepare(t) PROVE RadioOK'
  BY <1>28 DEF ScanPrepare
<1>29. ASSUME NEW t \in Scanners, ScanStart(t) PROVE RadioOK'
  BY <1>29 DEF ScanStart
<1>30. ASSUME NEW t \in Scanners, ScanDone(t) PROVE RadioOK'
  BY <1>30 DEF ScanDone
<1>31. ASSUME NEW t \in Scanners, ScanRestore(t) PROVE RadioOK'
  BY <1>31 DEF ScanRestore
<1>32. ASSUME NEW t \in Scanners, ScanRejoin(t) PROVE RadioOK'
  BY <1>32 DEF ScanRejoin
<1>33. ASSUME NEW t \in Scanners, ScanEnded(t) PROVE RadioOK'
  BY <1>33 DEF ScanEnded
<1>34. CASE UNCHANGED vars BY <1>34 DEF vars
<1>35. QED
  BY <1>1, <1>2, <1>3, <1>4, <1>5, <1>6, <1>7, <1>8, <1>9, <1>10, <1>11,
     <1>12, <1>13, <1>14, <1>15, <1>16, <1>17, <1>18, <1>19, <1>20,
     <1>21, <1>22, <1>23, <1>24, <1>25, <1>26, <1>27, <1>28, <1>29,
     <1>30, <1>31, <1>32, <1>33, <1>34
  DEF Next, Mgr, Request, Environment, Applying, Scanning

LEMMA AttemptsKept ==
  ASSUME AttemptsOK, [Next]_vars
  PROVE  AttemptsOK'
<1> USE DEF AttemptsOK, MaxAttempts, manager
<1>1. CASE MgrLook BY <1>1 DEF MgrLook
<1>2. CASE MgrStrip BY <1>2 DEF MgrStrip
<1>3. CASE MgrJoined BY <1>3 DEF MgrJoined
<1>4. CASE MgrWait BY <1>4 DEF MgrWait
<1>5. CASE MgrRetry BY <1>5 DEF MgrRetry
<1>6. CASE MgrBegin BY <1>6 DEF MgrBegin
<1>7. CASE MgrFallback BY <1>7 DEF MgrFallback
<1>8. CASE MgrFlag BY <1>8 DEF MgrFlag
<1>9. CASE MgrReport BY <1>9 DEF MgrReport
<1>10. CASE MgrAp BY <1>10 DEF MgrAp
<1>11. CASE AtPolls BY <1>11 DEF AtPolls
<1>12. CASE WebPost BY <1>12 DEF WebPost
<1>13. CASE WebPostRefused BY <1>13 DEF WebPostRefused
<1>14. CASE AtMode BY <1>14 DEF AtMode
<1>15. CASE AtSsid BY <1>15 DEF AtSsid
<1>16. CASE AtScan BY <1>16 DEF AtScan
<1>17. CASE WebScan BY <1>17 DEF WebScan
<1>18. CASE Join BY <1>18 DEF Join
<1>19. CASE Leave BY <1>19 DEF Leave
<1>20. CASE RetryDue BY <1>20 DEF RetryDue
<1>21. CASE WebStatus BY <1>21 DEF WebStatus
<1>22. ASSUME NEW t \in Appliers, Apply(t) PROVE AttemptsOK'
  BY <1>22 DEF Apply
<1>23. ASSUME NEW t \in Appliers, ApplySta(t) PROVE AttemptsOK'
  BY <1>23 DEF ApplySta
<1>24. ASSUME NEW t \in Appliers, ApplyBegin(t) PROVE AttemptsOK'
  BY <1>24 DEF ApplyBegin
<1>25. ASSUME NEW t \in Appliers, ApplyAp(t) PROVE AttemptsOK'
  BY <1>25 DEF ApplyAp
<1>26. ASSUME NEW t \in Appliers, Applied(t) PROVE AttemptsOK'
  BY <1>26 DEF Applied
<1>27. ASSUME NEW t \in Scanners, ScanBegin(t) PROVE AttemptsOK'
  BY <1>27 DEF ScanBegin
<1>28. ASSUME NEW t \in Scanners, ScanPrepare(t) PROVE AttemptsOK'
  BY <1>28 DEF ScanPrepare
<1>29. ASSUME NEW t \in Scanners, ScanStart(t) PROVE AttemptsOK'
  BY <1>29 DEF ScanStart
<1>30. ASSUME NEW t \in Scanners, ScanDone(t) PROVE AttemptsOK'
  BY <1>30 DEF ScanDone
<1>31. ASSUME NEW t \in Scanners, ScanRestore(t) PROVE AttemptsOK'
  BY <1>31 DEF ScanRestore
<1>32. ASSUME NEW t \in Scanners, ScanRejoin(t) PROVE AttemptsOK'
  BY <1>32 DEF ScanRejoin
<1>33. ASSUME NEW t \in Scanners, ScanEnded(t) PROVE AttemptsOK'
  BY <1>33 DEF ScanEnded
<1>34. CASE UNCHANGED vars BY <1>34 DEF vars
<1>35. QED
  BY <1>1, <1>2, <1>3, <1>4, <1>5, <1>6, <1>7, <1>8, <1>9, <1>10, <1>11,
     <1>12, <1>13, <1>14, <1>15, <1>16, <1>17, <1>18, <1>19, <1>20,
     <1>21, <1>22, <1>23, <1>24, <1>25, <1>26, <1>27, <1>28, <1>29,
     <1>30, <1>31, <1>32, <1>33, <1>34
  DEF Next, Mgr, Request, Environment, Applying, Scanning

LEMMA ManagerKept ==
  ASSUME ManagerOK, [Next]_vars
  PROVE  ManagerOK'
<1> USE DEF ManagerOK, driver, manager, SetMode, Disconnect,
        WiFiBegin, Effective
<1>1. CASE MgrLook BY <1>1 DEF MgrLook
<1>2. CASE MgrStrip BY <1>2 DEF MgrStrip
<1>3. CASE MgrJoined BY <1>3 DEF MgrJoined
<1>4. CASE MgrWait BY <1>4 DEF MgrWait
<1>5. CASE MgrRetry BY <1>5 DEF MgrRetry
<1>6. CASE MgrBegin BY <1>6 DEF MgrBegin
<1>7. CASE MgrFallback BY <1>7 DEF MgrFallback
<1>8. CASE MgrFlag BY <1>8 DEF MgrFlag
<1>9. CASE MgrReport BY <1>9 DEF MgrReport
<1>10. CASE MgrAp BY <1>10 DEF MgrAp
<1>11. CASE AtPolls BY <1>11 DEF AtPolls
<1>12. CASE WebPost BY <1>12 DEF WebPost
<1>13. CASE WebPostRefused BY <1>13 DEF WebPostRefused
<1>14. CASE AtMode BY <1>14 DEF AtMode
<1>15. CASE AtSsid BY <1>15 DEF AtSsid
<1>16. CASE AtScan BY <1>16 DEF AtScan
<1>17. CASE WebScan BY <1>17 DEF WebScan
<1>18. CASE Join BY <1>18 DEF Join
<1>19. CASE Leave BY <1>19 DEF Leave
<1>20. CASE RetryDue BY <1>20 DEF RetryDue
<1>21. CASE WebStatus BY <1>21 DEF WebStatus
<1>22. ASSUME NEW t \in Appliers, Apply(t) PROVE ManagerOK'
  BY <1>22 DEF Apply
<1>23. ASSUME NEW t \in Appliers, ApplySta(t) PROVE ManagerOK'
  BY <1>23 DEF ApplySta
<1>24. ASSUME NEW t \in Appliers, ApplyBegin(t) PROVE ManagerOK'
  BY <1>24 DEF ApplyBegin
<1>25. ASSUME NEW t \in Appliers, ApplyAp(t) PROVE ManagerOK'
  BY <1>25 DEF ApplyAp
<1>26. ASSUME NEW t \in Appliers, Applied(t) PROVE ManagerOK'
  BY <1>26 DEF Applied
<1>27. ASSUME NEW t \in Scanners, ScanBegin(t) PROVE ManagerOK'
  BY <1>27 DEF ScanBegin
<1>28. ASSUME NEW t \in Scanners, ScanPrepare(t) PROVE ManagerOK'
  BY <1>28 DEF ScanPrepare
<1>29. ASSUME NEW t \in Scanners, ScanStart(t) PROVE ManagerOK'
  BY <1>29 DEF ScanStart
<1>30. ASSUME NEW t \in Scanners, ScanDone(t) PROVE ManagerOK'
  BY <1>30 DEF ScanDone
<1>31. ASSUME NEW t \in Scanners, ScanRestore(t) PROVE ManagerOK'
  BY <1>31 DEF ScanRestore
<1>32. ASSUME NEW t \in Scanners, ScanRejoin(t) PROVE ManagerOK'
  BY <1>32 DEF ScanRejoin
<1>33. ASSUME NEW t \in Scanners, ScanEnded(t) PROVE ManagerOK'
  BY <1>33 DEF ScanEnded
<1>34. CASE UNCHANGED vars BY <1>34 DEF vars
<1>35. QED
  BY <1>1, <1>2, <1>3, <1>4, <1>5, <1>6, <1>7, <1>8, <1>9, <1>10, <1>11,
     <1>12, <1>13, <1>14, <1>15, <1>16, <1>17, <1>18, <1>19, <1>20,
     <1>21, <1>22, <1>23, <1>24, <1>25, <1>26, <1>27, <1>28, <1>29,
     <1>30, <1>31, <1>32, <1>33, <1>34
  DEF Next, Mgr, Request, Environment, Applying, Scanning

LEMMA ScansKept ==
  ASSUME ScansOK, [Next]_vars
  PROVE  ScansOK'
<1> USE StartAssumption
    DEF ScansOK, Job, Appliers, Scanners, driver, scans, SetMode, Disconnect,
        WiFiBegin, NewJob
<1>1. CASE MgrLook BY <1>1 DEF MgrLook
<1>2. CASE MgrStrip BY <1>2 DEF MgrStrip
<1>3. CASE MgrJoined BY <1>3 DEF MgrJoined
<1>4. CASE MgrWait BY <1>4 DEF MgrWait
<1>5. CASE MgrRetry BY <1>5 DEF MgrRetry
<1>6. CASE MgrBegin BY <1>6 DEF MgrBegin
<1>7. CASE MgrFallback BY <1>7 DEF MgrFallback
<1>8. CASE MgrFlag BY <1>8 DEF MgrFlag
<1>9. CASE MgrReport BY <1>9 DEF MgrReport
<1>10. CASE MgrAp BY <1>10 DEF MgrAp
<1>11. CASE AtPolls BY <1>11 DEF AtPolls
<1>12. CASE WebPost BY <1>12 DEF WebPost
<1>13. CASE WebPostRefused BY <1>13 DEF WebPostRefused
<1>14. CASE AtMode BY <1>14 DEF AtMode
<1>15. CASE AtSsid BY <1>15 DEF AtSsid
<1>16. CASE AtScan
  <2>1. UNCHANGED <<connected, scanActive, async, pending>>
    BY <1>16 DEF AtScan
  <2>2. UNCHANGED job \/ NewJob("at") BY <1>16 DEF AtScan
  <2>3. CASE UNCHANGED job BY <2>1, <2>3
  <2>4. CASE NewJob("at") BY <2>1, <2>4
  <2>5. QED BY <2>2, <2>3, <2>4
<1>17. CASE WebScan BY <1>17 DEF WebScan
<1>18. CASE Join BY <1>18 DEF Join
<1>19. CASE Leave BY <1>19 DEF Leave
<1>20. CASE RetryDue BY <1>20 DEF RetryDue
<1>21. CASE WebStatus BY <1>21 DEF WebStatus
<1>22. ASSUME NEW t \in Appliers, Apply(t) PROVE ScansOK'
  BY <1>22 DEF Apply
<1>23. ASSUME NEW t \in Appliers, ApplySta(t) PROVE ScansOK'
  BY <1>23 DEF ApplySta
<1>24. ASSUME NEW t \in Appliers, ApplyBegin(t) PROVE ScansOK'
  BY <1>24 DEF ApplyBegin
<1>25. ASSUME NEW t \in Appliers, ApplyAp(t) PROVE ScansOK'
  BY <1>25 DEF ApplyAp
<1>26. ASSUME NEW t \in Appliers, Applied(t) PROVE ScansOK'
  BY <1>26 DEF Applied
<1>27. ASSUME NEW t \in Scanners, ScanBegin(t) PROVE ScansOK'
  BY <1>27 DEF ScanBegin
<1>28. ASSUME NEW t \in Scanners, ScanPrepare(t) PROVE ScansOK'
  BY <1>28 DEF ScanPrepare
<1>29. ASSUME NEW t \in Scanners, ScanStart(t) PROVE ScansOK'
  BY <1>29 DEF ScanStart
<1>30. ASSUME NEW t \in Scanners, ScanDone(t) PROVE ScansOK'
  BY <1>30 DEF ScanDone
<1>31. ASSUME NEW t \in Scanners, ScanRestore(t) PROVE ScansOK'
  BY <1>31 DEF ScanRestore
<1>32. ASSUME NEW t \in Scanners, ScanRejoin(t) PROVE ScansOK'
  BY <1>32 DEF ScanRejoin
<1>33. ASSUME NEW t \in Scanners, ScanEnded(t) PROVE ScansOK'
  BY <1>33 DEF ScanEnded
<1>34. CASE UNCHANGED vars BY <1>34 DEF vars
<1>35. QED
  BY <1>1, <1>2, <1>3, <1>4, <1>5, <1>6, <1>7, <1>8, <1>9, <1>10, <1>11,
     <1>12, <1>13, <1>14, <1>15, <1>16, <1>17, <1>18, <1>19, <1>20,
     <1>21, <1>22, <1>23, <1>24, <1>25, <1>26, <1>27, <1>28, <1>29,
     <1>30, <1>31, <1>32, <1>33, <1>34
  DEF Next, Mgr, Request, Environment, Applying, Scanning

LEMMA FlagKept ==
  ASSUME PlaceOK, ScanFlagHeld, [Next]_vars
  PROVE  ScanFlagHeld'
<1> USE DEF PlaceOK, ScanFlagHeld, Tasks, Scanners, Appliers, Step, scans
<1>1. CASE MgrLook BY <1>1 DEF MgrLook
<1>2. CASE MgrStrip BY <1>2 DEF MgrStrip
<1>3. CASE MgrJoined BY <1>3 DEF MgrJoined
<1>4. CASE MgrWait BY <1>4 DEF MgrWait
<1>5. CASE MgrRetry BY <1>5 DEF MgrRetry
<1>6. CASE MgrBegin BY <1>6 DEF MgrBegin
<1>7. CASE MgrFallback BY <1>7 DEF MgrFallback
<1>8. CASE MgrFlag BY <1>8 DEF MgrFlag
<1>9. CASE MgrReport BY <1>9 DEF MgrReport
<1>10. CASE MgrAp BY <1>10 DEF MgrAp
<1>11. CASE AtPolls BY <1>11 DEF AtPolls
<1>12. CASE WebPost BY <1>12 DEF WebPost
<1>13. CASE WebPostRefused BY <1>13 DEF WebPostRefused
<1>14. CASE AtMode BY <1>14 DEF AtMode
<1>15. CASE AtSsid BY <1>15 DEF AtSsid
<1>16. CASE AtScan BY <1>16 DEF AtScan
<1>17. CASE WebScan BY <1>17 DEF WebScan
<1>18. CASE Join BY <1>18 DEF Join
<1>19. CASE Leave BY <1>19 DEF Leave
<1>20. CASE RetryDue BY <1>20 DEF RetryDue
<1>21. CASE WebStatus BY <1>21 DEF WebStatus
<1>22. ASSUME NEW t \in Appliers, Apply(t) PROVE ScanFlagHeld'
  BY <1>22 DEF Apply
<1>23. ASSUME NEW t \in Appliers, ApplySta(t) PROVE ScanFlagHeld'
  BY <1>23 DEF ApplySta
<1>24. ASSUME NEW t \in Appliers, ApplyBegin(t) PROVE ScanFlagHeld'
  BY <1>24 DEF ApplyBegin
<1>25. ASSUME NEW t \in Appliers, ApplyAp(t) PROVE ScanFlagHeld'
  BY <1>25 DEF ApplyAp
<1>26. ASSUME NEW t \in Appliers, Applied(t) PROVE ScanFlagHeld'
  BY <1>26 DEF Applied
<1>27. ASSUME NEW t \in Scanners, ScanBegin(t) PROVE ScanFlagHeld'
  BY <1>27 DEF ScanBegin
<1>28. ASSUME NEW t \in Scanners, ScanPrepare(t) PROVE ScanFlagHeld'
  BY <1>28 DEF ScanPrepare
<1>29. ASSUME NEW t \in Scanners, ScanStart(t) PROVE ScanFlagHeld'
  BY <1>29 DEF ScanStart
<1>30. ASSUME NEW t \in Scanners, ScanDone(t) PROVE ScanFlagHeld'
  BY <1>30 DEF ScanDone
<1>31. ASSUME NEW t \in Scanners, ScanRestore(t) PROVE ScanFlagHeld'
  BY <1>31 DEF ScanRestore
<1>32. ASSUME NEW t \in Scanners, ScanRejoin(t) PROVE ScanFlagHeld'
  BY <1>32 DEF ScanRejoin
<1>33. ASSUME NEW t \in Scanners, ScanEnded(t) PROVE ScanFlagHeld'
  BY <1>33 DEF ScanEnded
<1>34. CASE UNCHANGED vars BY <1>34 DEF vars
<1>35. QED
  BY <1>1, <1>2, <1>3, <1>4, <1>5, <1>6, <1>7, <1>8, <1>9, <1>10, <1>11,
     <1>12, <1>13, <1>14, <1>15, <1>16, <1>17, <1>18, <1>19, <1>20,
     <1>21, <1>22, <1>23, <1>24, <1>25, <1>26, <1>27, <1>28, <1>29,
     <1>30, <1>31, <1>32, <1>33, <1>34
  DEF Next, Mgr, Request, Environment, Applying, Scanning
-----------------------------------------------------------------------------
LEMMA ConfigParts == ConfigOK => cfg.ssid \in Ssids \cup {None}
BY DEF ConfigOK, Config

LEMMA Parts ==
  TypeOK <=> PlaceOK /\ ConfigOK /\ RadioOK /\ ManagerOK
         /\ AttemptsOK /\ ScansOK
BY ConfigParts DEF TypeOK, PlaceOK, ConfigOK, RadioOK, ManagerOK, AttemptsOK, ScansOK

LEMMA PartsNext ==
  PlaceOK' /\ ConfigOK' /\ RadioOK' /\ ManagerOK' /\ AttemptsOK'
    /\ ScansOK' => TypeOK'
BY DEF TypeOK, PlaceOK, ConfigOK, RadioOK, ManagerOK, AttemptsOK, ScansOK

\* The types of the radio and its tasks.
THEOREM TypeCorrect == Spec => []TypeOK
<1>1. Init => TypeOK
  <2> SUFFICES ASSUME Init PROVE TypeOK
    OBVIOUS
  <2>1. PlaceOK BY DEF Init, PlaceOK, Tasks, Labels
  <2>2. ConfigOK BY BootAssumption DEF Init, ConfigOK
  <2>3. RadioOK
    <3>1. cfg.ssid \in Ssids \cup {None} BY <2>2, ConfigParts
    <3>2. radio \subseteq Both /\ connected \in BOOLEAN BY DEF Init, Both
    <3>3. target \in Ssids \cup {None} BY <3>1 DEF Init
    <3>4. QED BY <3>2, <3>3 DEF RadioOK
  <2>4. attempts \in {0, 1} BY DEF Init
  <2>5. AttemptsOK BY <2>4 DEF AttemptsOK, MaxAttempts
  <2>6. state \in {"DOWN", "AP_UP"} /\ due = FALSE BY DEF Init
  <2>7. ManagerOK BY <2>6 DEF Init, ManagerOK
  <2>8. ScansOK BY DEF Init, ScansOK, Job, Scanners
  <2>9. QED BY <2>1, <2>2, <2>3, <2>5, <2>7, <2>8, Parts
<1>2. TypeOK /\ [Next]_vars => TypeOK'
  BY Parts, PartsNext, ConfigParts, PlaceKept, ConfigKept, RadioKept,
     ManagerKept, AttemptsKept, ScansKept
<1>3. QED BY <1>1, <1>2, PTL DEF Spec

\* Whichever way a scan ends, and however two of them overlap, g_scan_active
\* does not outlive the last.
THEOREM PauseEndsWithScan == Spec => []ScanFlagHeld
<1>1. Init => ScanFlagHeld BY DEF Init, ScanFlagHeld
<1>2. TypeOK /\ ScanFlagHeld /\ [Next]_vars => ScanFlagHeld'
  BY FlagKept, Parts
<1>3. QED BY <1>1, <1>2, TypeCorrect, PTL DEF Spec
-----------------------------------------------------------------------------
(* What the radio does, step by step *)

\* Whoever switches the radio off stands where it is switched on again.
LEMMA OffKept ==
  ASSUME PlaceOK, OffIsShort, [Next]_vars
  PROVE  OffIsShort'
<1> USE DEF PlaceOK, OffIsShort, Tasks, Scanners, Appliers, Step, driver,
        SetMode, Disconnect, WiFiBegin
<1>1. CASE MgrLook BY <1>1 DEF MgrLook
<1>2. CASE MgrStrip BY <1>2 DEF MgrStrip
<1>3. CASE MgrJoined BY <1>3 DEF MgrJoined
<1>4. CASE MgrWait BY <1>4 DEF MgrWait
<1>5. CASE MgrRetry BY <1>5 DEF MgrRetry
<1>6. CASE MgrBegin BY <1>6 DEF MgrBegin
<1>7. CASE MgrFallback BY <1>7 DEF MgrFallback
<1>8. CASE MgrFlag BY <1>8 DEF MgrFlag
<1>9. CASE MgrReport BY <1>9 DEF MgrReport
<1>10. CASE MgrAp BY <1>10 DEF MgrAp
<1>11. CASE AtPolls BY <1>11 DEF AtPolls
<1>12. CASE WebPost BY <1>12 DEF WebPost
<1>13. CASE WebPostRefused BY <1>13 DEF WebPostRefused
<1>14. CASE AtMode BY <1>14 DEF AtMode
<1>15. CASE AtSsid BY <1>15 DEF AtSsid
<1>16. CASE AtScan BY <1>16 DEF AtScan
<1>17. CASE WebScan BY <1>17 DEF WebScan
<1>18. CASE Join BY <1>18 DEF Join
<1>19. CASE Leave BY <1>19 DEF Leave
<1>20. CASE RetryDue BY <1>20 DEF RetryDue
<1>21. CASE WebStatus BY <1>21 DEF WebStatus
<1>22. ASSUME NEW t \in Appliers, Apply(t) PROVE OffIsShort'
  BY <1>22 DEF Apply
<1>23. ASSUME NEW t \in Appliers, ApplySta(t) PROVE OffIsShort'
  BY <1>23 DEF ApplySta
<1>24. ASSUME NEW t \in Appliers, ApplyBegin(t) PROVE OffIsShort'
  BY <1>24 DEF ApplyBegin
<1>25. ASSUME NEW t \in Appliers, ApplyAp(t) PROVE OffIsShort'
  BY <1>25 DEF ApplyAp
<1>26. ASSUME NEW t \in Appliers, Applied(t) PROVE OffIsShort'
  BY <1>26 DEF Applied
<1>27. ASSUME NEW t \in Scanners, ScanBegin(t) PROVE OffIsShort'
  BY <1>27 DEF ScanBegin
<1>28. ASSUME NEW t \in Scanners, ScanPrepare(t) PROVE OffIsShort'
  <2>1. radio' = Both \/ radio' = radio \/ radio' = {"STA"}
    BY <1>28 DEF ScanPrepare
  <2>2. pc[t] = "prepare" /\ pc' = [pc EXCEPT ![t] = "start"]
    BY <1>28 DEF ScanPrepare
  <2>3. radio' # {} \/ radio = {} BY <2>1 DEF Both
  <2>4. QED BY <2>2, <2>3
<1>29. ASSUME NEW t \in Scanners, ScanStart(t) PROVE OffIsShort'
  BY <1>29 DEF ScanStart
<1>30. ASSUME NEW t \in Scanners, ScanDone(t) PROVE OffIsShort'
  BY <1>30 DEF ScanDone
<1>31. ASSUME NEW t \in Scanners, ScanRestore(t) PROVE OffIsShort'
  BY <1>31 DEF ScanRestore
<1>32. ASSUME NEW t \in Scanners, ScanRejoin(t) PROVE OffIsShort'
  BY <1>32 DEF ScanRejoin
<1>33. ASSUME NEW t \in Scanners, ScanEnded(t) PROVE OffIsShort'
  BY <1>33 DEF ScanEnded
<1>34. CASE UNCHANGED vars BY <1>34 DEF vars
<1>35. QED
  BY <1>1, <1>2, <1>3, <1>4, <1>5, <1>6, <1>7, <1>8, <1>9, <1>10, <1>11,
     <1>12, <1>13, <1>14, <1>15, <1>16, <1>17, <1>18, <1>19, <1>20,
     <1>21, <1>22, <1>23, <1>24, <1>25, <1>26, <1>27, <1>28, <1>29,
     <1>30, <1>31, <1>32, <1>33, <1>34
  DEF Next, Mgr, Request, Environment, Applying, Scanning

\* The radio is never left switched off: whatever interferes, some task is about
\* to begin to join.
THEOREM RadioIsNotLeftOff == Spec => []OffIsShort
<1>1. Init => OffIsShort BY DEF Init, OffIsShort
<1>2. TypeOK /\ OffIsShort /\ [Next]_vars => OffIsShort' BY OffKept, Parts
<1>3. QED BY <1>1, <1>2, TypeCorrect, PTL DEF Spec

\* In AP mode nobody takes the SoftAP off, and every scan remembers it.
LEMMA SoftApKept ==
  ASSUME PlaceOK, ScansOK, SoftApInv, Effective = "AP", [Next]_vars
  PROVE  SoftApInv'
<1> USE StartAssumption
    DEF PlaceOK, ScansOK, SoftApInv, InScan, Tasks, Scanners,
        Appliers, Step, driver, scans, SetMode, Disconnect, WiFiBegin, Both,
        NewJob, Job
<1>1. CASE MgrLook BY <1>1 DEF MgrLook
<1>2. CASE MgrStrip BY <1>2 DEF MgrStrip
<1>3. CASE MgrJoined BY <1>3 DEF MgrJoined
<1>4. CASE MgrWait BY <1>4 DEF MgrWait
<1>5. CASE MgrRetry BY <1>5 DEF MgrRetry
<1>6. CASE MgrBegin BY <1>6 DEF MgrBegin
<1>7. CASE MgrFallback BY <1>7 DEF MgrFallback
<1>8. CASE MgrFlag BY <1>8 DEF MgrFlag
<1>9. CASE MgrReport BY <1>9 DEF MgrReport
<1>10. CASE MgrAp BY <1>10 DEF MgrAp
<1>11. CASE AtPolls BY <1>11 DEF AtPolls
<1>12. CASE WebPost BY <1>12 DEF WebPost
<1>13. CASE WebPostRefused BY <1>13 DEF WebPostRefused
<1>14. CASE AtMode BY <1>14 DEF AtMode
<1>15. CASE AtSsid BY <1>15 DEF AtSsid
<1>16. CASE AtScan
  <2>1. radio' = radio BY <1>16 DEF AtScan
  <2>2. CASE Step("at", "idle", "poll") /\ UNCHANGED job BY <2>1, <2>2
  <2>3. CASE Step("at", "idle", "scan") /\ NewJob("at") BY <2>1, <2>3
  <2>4. QED BY <1>16, <2>2, <2>3 DEF AtScan
<1>17. CASE WebScan BY <1>17 DEF WebScan
<1>18. CASE Join BY <1>18 DEF Join
<1>19. CASE Leave BY <1>19 DEF Leave
<1>20. CASE RetryDue BY <1>20 DEF RetryDue
<1>21. CASE WebStatus BY <1>21 DEF WebStatus
<1>22. ASSUME NEW t \in Appliers, Apply(t) PROVE SoftApInv'
  BY <1>22 DEF Apply
<1>23. ASSUME NEW t \in Appliers, ApplySta(t) PROVE SoftApInv'
  BY <1>23 DEF ApplySta
<1>24. ASSUME NEW t \in Appliers, ApplyBegin(t) PROVE SoftApInv'
  BY <1>24 DEF ApplyBegin
<1>25. ASSUME NEW t \in Appliers, ApplyAp(t) PROVE SoftApInv'
  BY <1>25 DEF ApplyAp
<1>26. ASSUME NEW t \in Appliers, Applied(t) PROVE SoftApInv'
  BY <1>26 DEF Applied
<1>27. ASSUME NEW t \in Scanners, ScanBegin(t) PROVE SoftApInv'
  BY <1>27 DEF ScanBegin
<1>28. ASSUME NEW t \in Scanners, ScanPrepare(t) PROVE SoftApInv'
  <2>1. /\ pc[t] = "prepare" /\ pc' = [pc EXCEPT ![t] = "start"]
        /\ job' = job
    BY <1>28 DEF ScanPrepare
  <2>2. "AP" \in radio' BY <1>28, <2>1 DEF ScanPrepare
  <2>3. QED BY <2>1, <2>2
<1>29. ASSUME NEW t \in Scanners, ScanStart(t) PROVE SoftApInv'
  <2>1. pc[t] = "start" /\ \E l \in {"wait", "ended"} : pc' = [pc EXCEPT ![t] = l]
    BY <1>29 DEF ScanStart
  <2>2. job' = job /\ ("AP" \in radio => "AP" \in radio')
    BY <1>29 DEF ScanStart
  <2>3. QED BY <2>1, <2>2
<1>30. ASSUME NEW t \in Scanners, ScanDone(t) PROVE SoftApInv'
  <2>1. pc[t] = "wait" /\ pc' = [pc EXCEPT ![t] = "restore"]
    BY <1>30 DEF ScanDone
  <2>2. UNCHANGED <<radio, job>> BY <1>30 DEF ScanDone
  <2>3. QED BY <2>1, <2>2
<1>31. ASSUME NEW t \in Scanners, ScanRestore(t) PROVE SoftApInv'
  BY <1>31 DEF ScanRestore
<1>32. ASSUME NEW t \in Scanners, ScanRejoin(t) PROVE SoftApInv'
  BY <1>32 DEF ScanRejoin
<1>33. ASSUME NEW t \in Scanners, ScanEnded(t) PROVE SoftApInv'
  BY <1>33 DEF ScanEnded
<1>34. CASE UNCHANGED vars BY <1>34 DEF vars
<1>35. QED
  BY <1>1, <1>2, <1>3, <1>4, <1>5, <1>6, <1>7, <1>8, <1>9, <1>10, <1>11,
     <1>12, <1>13, <1>14, <1>15, <1>16, <1>17, <1>18, <1>19, <1>20,
     <1>21, <1>22, <1>23, <1>24, <1>25, <1>26, <1>27, <1>28, <1>29,
     <1>30, <1>31, <1>32, <1>33, <1>34
  DEF Next, Mgr, Request, Environment, Applying, Scanning

\* A scan that starts leaves nothing behind: the station it lent itself goes off
\* when it ends, and nobody else switches it on.
LEMMA StaForScansKept ==
  ASSUME PlaceOK, ScansOK, SoftApInv, StaForScans, Effective = "AP", ScansStart,
         [Next]_vars
  PROVE  StaForScans'
<1> USE StartAssumption
    DEF PlaceOK, ScansOK, SoftApInv, StaForScans, InScan, Tasks, Scanners,
        Appliers, Step, driver, scans, SetMode, Disconnect, WiFiBegin, Both,
        NewJob, Job
<1>1. CASE MgrLook BY <1>1 DEF MgrLook
<1>2. CASE MgrStrip BY <1>2 DEF MgrStrip
<1>3. CASE MgrJoined BY <1>3 DEF MgrJoined
<1>4. CASE MgrWait BY <1>4 DEF MgrWait
<1>5. CASE MgrRetry BY <1>5 DEF MgrRetry
<1>6. CASE MgrBegin BY <1>6 DEF MgrBegin
<1>7. CASE MgrFallback BY <1>7 DEF MgrFallback
<1>8. CASE MgrFlag BY <1>8 DEF MgrFlag
<1>9. CASE MgrReport BY <1>9 DEF MgrReport
<1>10. CASE MgrAp BY <1>10 DEF MgrAp
<1>11. CASE AtPolls BY <1>11 DEF AtPolls
<1>12. CASE WebPost BY <1>12 DEF WebPost
<1>13. CASE WebPostRefused BY <1>13 DEF WebPostRefused
<1>14. CASE AtMode BY <1>14 DEF AtMode
<1>15. CASE AtSsid BY <1>15 DEF AtSsid
<1>16. CASE AtScan
  <2>1. radio' = radio BY <1>16 DEF AtScan
  <2>2. CASE Step("at", "idle", "poll") /\ UNCHANGED job BY <2>1, <2>2
  <2>3. CASE Step("at", "idle", "scan") /\ NewJob("at") BY <2>1, <2>3
  <2>4. QED BY <1>16, <2>2, <2>3 DEF AtScan
<1>17. CASE WebScan BY <1>17 DEF WebScan
<1>18. CASE Join BY <1>18 DEF Join
<1>19. CASE Leave BY <1>19 DEF Leave
<1>20. CASE RetryDue BY <1>20 DEF RetryDue
<1>21. CASE WebStatus BY <1>21 DEF WebStatus
<1>22. ASSUME NEW t \in Appliers, Apply(t) PROVE StaForScans'
  BY <1>22 DEF Apply
<1>23. ASSUME NEW t \in Appliers, ApplySta(t) PROVE StaForScans'
  BY <1>23 DEF ApplySta
<1>24. ASSUME NEW t \in Appliers, ApplyBegin(t) PROVE StaForScans'
  BY <1>24 DEF ApplyBegin
<1>25. ASSUME NEW t \in Appliers, ApplyAp(t) PROVE StaForScans'
  BY <1>25 DEF ApplyAp
<1>26. ASSUME NEW t \in Appliers, Applied(t) PROVE StaForScans'
  BY <1>26 DEF Applied
<1>27. ASSUME NEW t \in Scanners, ScanBegin(t) PROVE StaForScans'
  BY <1>27 DEF ScanBegin
<1>28. ASSUME NEW t \in Scanners, ScanPrepare(t) PROVE StaForScans'
  <2>1. pc' = [pc EXCEPT ![t] = "start"] BY <1>28 DEF ScanPrepare
  <2>2. QED BY <2>1
<1>29. ASSUME NEW t \in Scanners, ScanStart(t) PROVE StaForScans'
  <2>1. pc[t] = "start" /\ \E l \in {"wait", "ended"} : pc' = [pc EXCEPT ![t] = l]
    BY <1>29 DEF ScanStart
  <2>2. pc' = [pc EXCEPT ![t] = "wait"] BY <2>1 DEF ScansStart, ScanRefused
  <2>3. QED BY <2>2
<1>30. ASSUME NEW t \in Scanners, ScanDone(t) PROVE StaForScans'
  <2>1. pc[t] = "wait" /\ pc' = [pc EXCEPT ![t] = "restore"]
    BY <1>30 DEF ScanDone
  <2>2. UNCHANGED <<radio, job>> BY <1>30 DEF ScanDone
  <2>3. QED BY <2>1, <2>2
<1>31. ASSUME NEW t \in Scanners, ScanRestore(t) PROVE StaForScans'
  BY <1>31 DEF ScanRestore
<1>32. ASSUME NEW t \in Scanners, ScanRejoin(t) PROVE StaForScans'
  BY <1>32 DEF ScanRejoin
<1>33. ASSUME NEW t \in Scanners, ScanEnded(t) PROVE StaForScans'
  BY <1>33 DEF ScanEnded
<1>34. CASE UNCHANGED vars BY <1>34 DEF vars
<1>35. QED
  BY <1>1, <1>2, <1>3, <1>4, <1>5, <1>6, <1>7, <1>8, <1>9, <1>10, <1>11,
     <1>12, <1>13, <1>14, <1>15, <1>16, <1>17, <1>18, <1>19, <1>20,
     <1>21, <1>22, <1>23, <1>24, <1>25, <1>26, <1>27, <1>28, <1>29,
     <1>30, <1>31, <1>32, <1>33, <1>34
  DEF Next, Mgr, Request, Environment, Applying, Scanning


\* A module that stays in AP mode has SoftApInv throughout.
LEMMA SoftApStays == Spec /\ [](Effective = "AP") => [](TypeOK /\ SoftApInv)
<1>1. Init /\ Effective = "AP" => SoftApInv
  BY DEF Init, SoftApInv, InScan, Tasks, Scanners
<1>2. TypeOK /\ SoftApInv /\ Effective = "AP" /\ [Next]_vars => SoftApInv'
  BY SoftApKept, Parts
<1>3. QED BY <1>1, <1>2, TypeCorrect, PTL DEF Spec

\* As long as the module is in AP mode its SoftAP stays on, whatever is posted,
\* applied and scanned, and whether scans start or not.
THEOREM SoftApStaysOn == Spec /\ [](Effective = "AP") => []("AP" \in radio)
<1>1. SoftApInv => "AP" \in radio BY DEF SoftApInv
<1>2. QED BY <1>1, SoftApStays, PTL

\* A scan that has started leaves the SoftAP alone when it ends, also after one
\* that failed to start and left the station on.
THEOREM ScansRestoreSoftAp ==
  Spec /\ [](Effective = "AP") =>
    [][\A t \in Scanners : ScanRestore(t) => radio' = {"AP"}]_vars
<1> DEFINE Restored == \A t \in Scanners : ScanRestore(t) => radio' = {"AP"}
<1>1. SoftApInv /\ Effective = "AP" => [Restored]_vars
  <2> SUFFICES ASSUME SoftApInv, Effective = "AP",
                      NEW t \in Scanners, ScanRestore(t)
               PROVE  radio' = {"AP"}
    OBVIOUS
  <2>1. job[t].softap BY DEF SoftApInv, InScan, ScanRestore, Step
  <2>2. QED BY <2>1 DEF ScanRestore, SetMode, driver
<1>2. QED BY <1>1, SoftApStays, PTL

\* While the module is in AP mode and scans start, the station is on during a
\* scan only.
THEOREM SoftApStaysAlone ==
  Spec /\ [](Effective = "AP") /\ [][ScansStart]_vars => []StaForScans
<1>1. Init /\ Effective = "AP" => StaForScans
  BY DEF Init, StaForScans
<1>2. /\ TypeOK /\ SoftApInv /\ StaForScans /\ Effective = "AP"
      /\ [Next]_vars /\ [ScansStart]_vars
      => StaForScans'
  <2> SUFFICES ASSUME TypeOK, SoftApInv, StaForScans, Effective = "AP",
                      [Next]_vars, [ScansStart]_vars
               PROVE  StaForScans'
    OBVIOUS
  <2>1. CASE ScansStart BY <2>1, StaForScansKept, Parts
  <2>2. CASE UNCHANGED vars BY <2>2 DEF vars, driver, StaForScans, InScan
  <2>3. QED BY <2>1, <2>2
<1>3. QED BY <1>1, <1>2, SoftApStays, TypeCorrect, PTL DEF Spec

\* Scans of the web interface and of AT+SCAN, however they overlap, leave the
\* SoftAP alone as long as they start and nobody changes the mode: a liveness
\* property that holds without any fairness, since the radio is right whenever
\* nobody scans.
THEOREM ScansLeaveSoftApAlone ==
  Spec /\ [][Effective' = Effective]_vars /\ [][ScansStart]_vars => SoftApAlone
<1> DEFINE Ap == Effective = "AP"
           Alone == radio = {"AP"}
           Same == Effective' = Effective
<1>1. TypeOK /\ SoftApInv /\ StaForScans /\ Quiet => Alone
  BY DEF TypeOK, SoftApInv, StaForScans, Quiet, InScan, Both, Tasks, Scanners
<1>2. [Same]_vars => (Ap <=> Ap')
  BY DEF vars, Effective
<1>3. Spec /\ []Ap => [](TypeOK /\ SoftApInv) BY SoftApStays
<1>4. Spec /\ []Ap /\ [][ScansStart]_vars => []StaForScans BY SoftApStaysAlone
<1>5. SoftApAlone <=> (<>[](Quiet /\ Ap) => <>[]Alone) BY DEF SoftApAlone
<1>6. [Effective' = Effective]_vars <=> [Same]_vars OBVIOUS
<1> HIDE DEF Ap, Alone, Same
<1>7. QED BY <1>1, <1>2, <1>3, <1>4, <1>5, <1>6, PTL

\* A station that is taken out of its network is put back by whoever did it, or
\* ends as a SoftAP that the manager knows of.
LEMMA StationKept ==
  ASSUME PlaceOK, ScansOK, NEW s \in Ssids, JoiningScansStart,
         Effective = "STA", cfg.ssid = s, StationInv(s), [Next]_vars
  PROVE  StationInv(s)'
<1> s # None BY NameAssumption
<1> USE StartAssumption
    DEF PlaceOK, ScansOK, StationInv, InScan, Tasks, Scanners, Appliers, Step,
        driver, manager, scans, SetMode, Disconnect, WiFiBegin, NewJob, Job
<1>1. CASE MgrLook BY <1>1 DEF MgrLook
<1>2. CASE MgrStrip BY <1>2 DEF MgrStrip
<1>3. CASE MgrJoined BY <1>3 DEF MgrJoined
<1>4. CASE MgrWait BY <1>4 DEF MgrWait
<1>5. CASE MgrRetry BY <1>5 DEF MgrRetry
<1>6. CASE MgrBegin BY <1>6 DEF MgrBegin
<1>7. CASE MgrFallback BY <1>7 DEF MgrFallback
<1>8. CASE MgrFlag BY <1>8 DEF MgrFlag
<1>9. CASE MgrReport BY <1>9 DEF MgrReport
<1>10. CASE MgrAp BY <1>10 DEF MgrAp
<1>11. CASE AtPolls BY <1>11 DEF AtPolls
<1>12. CASE WebPost BY <1>12 DEF WebPost
<1>13. CASE WebPostRefused BY <1>13 DEF WebPostRefused
<1>14. CASE AtMode BY <1>14 DEF AtMode
<1>15. CASE AtSsid BY <1>15 DEF AtSsid
<1>16. CASE AtScan
  <2>1. radio' = radio /\ target' = target /\ fallback' = fallback BY <1>16 DEF AtScan
  <2>2. CASE Step("at", "idle", "poll") /\ UNCHANGED job BY <2>1, <2>2
  <2>3. CASE Step("at", "idle", "scan") /\ NewJob("at") BY <2>1, <2>3
  <2>4. QED BY <1>16, <2>2, <2>3 DEF AtScan
<1>17. CASE WebScan BY <1>17 DEF WebScan
<1>18. CASE Join BY <1>18 DEF Join
<1>19. CASE Leave BY <1>19 DEF Leave
<1>20. CASE RetryDue BY <1>20 DEF RetryDue
<1>21. CASE WebStatus BY <1>21 DEF WebStatus
<1>22. ASSUME NEW t \in Appliers, Apply(t) PROVE StationInv(s)'
  BY <1>22 DEF Apply
<1>23. ASSUME NEW t \in Appliers, ApplySta(t) PROVE StationInv(s)'
  BY <1>23 DEF ApplySta
<1>24. ASSUME NEW t \in Appliers, ApplyBegin(t) PROVE StationInv(s)'
  BY <1>24 DEF ApplyBegin
<1>25. ASSUME NEW t \in Appliers, ApplyAp(t) PROVE StationInv(s)'
  BY <1>25 DEF ApplyAp
<1>26. ASSUME NEW t \in Appliers, Applied(t) PROVE StationInv(s)'
  BY <1>26 DEF Applied
<1>27. ASSUME NEW t \in Scanners, ScanBegin(t) PROVE StationInv(s)'
  BY <1>27 DEF ScanBegin
<1>28. ASSUME NEW t \in Scanners, ScanPrepare(t) PROVE StationInv(s)'
  <2>1. /\ pc[t] = "prepare" /\ pc' = [pc EXCEPT ![t] = "start"]
        /\ UNCHANGED <<job, fallback>>
    BY <1>28 DEF ScanPrepare
  <2>2. CASE job[t].softap
    <3>1. "AP" \in radio' /\ target' = target
      BY <1>28, <2>2 DEF ScanPrepare, Both
    <3>2. QED BY <2>1, <3>1
  <2>3. CASE ~job[t].softap /\ job[t].joined
    <3>1. radio' = radio /\ target' = target
      BY <1>28, <2>3 DEF ScanPrepare
    <3>2. QED BY <2>1, <3>1
  <2>4. CASE ~job[t].softap /\ ~job[t].joined BY <2>1, <2>4
  <2>5. QED BY <2>2, <2>3, <2>4
<1>29. ASSUME NEW t \in Scanners, ScanStart(t) PROVE StationInv(s)'
  <2>1. pc[t] = "start" /\ \E l \in {"wait", "ended"} : pc' = [pc EXCEPT ![t] = l]
    BY <1>29 DEF ScanStart
  <2>2. /\ UNCHANGED <<target, fallback, job>>
        /\ "AP" \in radio => "AP" \in radio'
    BY <1>29 DEF ScanStart
  <2>3. CASE pc' = [pc EXCEPT ![t] = "wait"] BY <2>1, <2>2, <2>3
  <2>4. CASE pc' = [pc EXCEPT ![t] = "ended"]
    <3>1. job[t].softap \/ job[t].joined
      BY <2>1, <2>4 DEF JoiningScansStart, ScanRefused
    <3>2. QED BY <2>1, <2>2, <2>4, <3>1
  <2>5. QED BY <2>1, <2>3, <2>4
<1>30. ASSUME NEW t \in Scanners, ScanDone(t) PROVE StationInv(s)'
  BY <1>30 DEF ScanDone
<1>31. ASSUME NEW t \in Scanners, ScanRestore(t) PROVE StationInv(s)'
  BY <1>31 DEF ScanRestore
<1>32. ASSUME NEW t \in Scanners, ScanRejoin(t) PROVE StationInv(s)'
  BY <1>32 DEF ScanRejoin
<1>33. ASSUME NEW t \in Scanners, ScanEnded(t) PROVE StationInv(s)'
  BY <1>33 DEF ScanEnded
<1>34. CASE UNCHANGED vars BY <1>34 DEF vars
<1>35. QED
  BY <1>1, <1>2, <1>3, <1>4, <1>5, <1>6, <1>7, <1>8, <1>9, <1>10, <1>11,
     <1>12, <1>13, <1>14, <1>15, <1>16, <1>17, <1>18, <1>19, <1>20,
     <1>21, <1>22, <1>23, <1>24, <1>25, <1>26, <1>27, <1>28, <1>29,
     <1>30, <1>31, <1>32, <1>33, <1>34
  DEF Next, Mgr, Request, Environment, Applying, Scanning

\* As long as a module is to be a station of one network, it is in it, joins it,
\* or is a SoftAP, but for the steps of a task that will begin to join; provided
\* that no scan which interrupts an attempt to join fails to start.
THEOREM StationStaysAtWork ==
  ASSUME NEW s \in Ssids
  PROVE  Spec /\ [](Effective = "STA" /\ cfg.ssid = s) /\ [][JoiningScansStart]_vars
           => []AtWork(s)
<1>1. Init /\ Effective = "STA" /\ cfg.ssid = s => StationInv(s)
  BY NameAssumption DEF Init, StationInv, Tasks
<1>2. /\ TypeOK /\ StationInv(s) /\ Effective = "STA" /\ cfg.ssid = s
      /\ [Next]_vars /\ [JoiningScansStart]_vars
      => StationInv(s)'
  <2> SUFFICES ASSUME TypeOK, StationInv(s), Effective = "STA", cfg.ssid = s,
                      [Next]_vars, [JoiningScansStart]_vars
               PROVE  StationInv(s)'
    OBVIOUS
  <2>1. CASE JoiningScansStart BY <2>1, StationKept, Parts
  <2>2. CASE UNCHANGED vars
    BY <2>2 DEF vars, driver, manager, scans, StationInv, InScan
  <2>3. QED BY <2>1, <2>2
<1>3. StationInv(s) => AtWork(s) BY DEF StationInv, AtWork
<1>4. QED BY <1>1, <1>2, <1>3, TypeCorrect, PTL DEF Spec
=============================================================================
