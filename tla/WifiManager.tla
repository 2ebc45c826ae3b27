----------------------------- MODULE WifiManager -----------------------------
(***************************************************************************)
(* wifi_manager.cpp: the radio is either a station or a SoftAP, chosen by  *)
(* the configuration, with a SoftAP as fallback when joining fails.  Four  *)
(* tasks work on it, without any lock:                                     *)
(*                                                                         *)
(*   mgr   wifi_manager_task: keeps the radio in shape, retries, falls back*)
(*   at    AT commands: wifi_manager_apply_runtime, wifi_manager_scan      *)
(*   def   deferred_wifi_apply_task of web_server.cpp, after a POST        *)
(*   web   wifi_scan_task, started by /api/wifi/scan/start               *)
(*                                                                         *)
(* One action is what a task does up to the next call that blocks in the   *)
(* driver, or up to the next flag another task waits for.  The radio and   *)
(* the network are external: what the calls into the WiFi library do to    *)
(* the interfaces that are on, to the join in progress and to its outcome. *)
(* LEDs, bands, addresses and the networks a scan finds are left out.      *)
(***************************************************************************)
EXTENDS Naturals

CONSTANTS
  Ssids,       \* names of networks
  Requests,    \* what users ask for, see RequestAssumption
  Starts,      \* outcomes of WiFi.scanNetworks: TRUE started, FALSE failed
  InitConfigs, \* configurations the module may boot with
  None         \* no network

ASSUME RequestAssumption ==
  Requests \subseteq {"post", "refused", "mode", "ssid", "atscan", "webscan"}
ASSUME StartAssumption == Starts \subseteq BOOLEAN
ASSUME NameAssumption == None \notin Ssids

VARIABLES
  cfg,         \* app_config runtime: wifi_mode, wifi_ssid
  radio,       \* WiFi.getMode(): the interfaces that are on
  target,      \* the network the station joins or has joined
  connected,   \* WiFi.status() == WL_CONNECTED
  state,       \* g_wifi_state
  fallback,    \* g_fallback_ap_active
  attempts,    \* g_sta_connect_attempts
  due,         \* kStaRetryIntervalMs have passed since g_sta_last_attempt_ms
  scanActive,  \* g_scan_active
  async,       \* g_async_scan_state
  pending,     \* g_wifi_apply_pending
  pc,          \* where each task stands
  seen,        \* sta_connected, as wifi_manager_task read it
  job          \* the ScanJob of each task that scans

driver == <<radio, target, connected>>
manager == <<state, fallback, attempts, due>>
scans == <<scanActive, async, job>>
vars == <<cfg, driver, manager, scans, pending, pc, seen>>

MaxAttempts == 3    \* kStaMaxConnectAttempts

Tasks == {"mgr", "at", "def", "web"}
Scanners == {"at", "web"}
Appliers == {"at", "def"}
Config == [mode : {"STA", "AP", "APSTA"}, ssid : Ssids \cup {None}]
ASSUME BootAssumption == InitConfigs \subseteq Config
Job == [softap : BOOLEAN, joined : BOOLEAN]
Both == {"AP", "STA"}

Labels ==
  {"idle", "sta", "act", "begin", "flag", "report", "ap",
   "apply", "apply_sta", "apply_ap", "apply_begin", "applied",
   "scan", "prepare", "start", "wait", "restore", "rejoin", "ended", "poll"}

TypeOK ==
  /\ cfg \in Config /\ radio \subseteq Both
  /\ target \in Ssids \cup {None} /\ connected \in BOOLEAN
  /\ state \in {"DOWN", "STA_CONNECTED", "AP_UP"}
  /\ fallback \in BOOLEAN /\ attempts \in 0..MaxAttempts /\ due \in BOOLEAN
  /\ scanActive \in BOOLEAN /\ pending \in BOOLEAN /\ seen \in BOOLEAN
  /\ async \in {"IDLE", "RUNNING", "DONE", "FAILED"}
  /\ pc \in [Tasks -> Labels] /\ job \in [Scanners -> Job]

Step(t, from, to) == pc[t] = from /\ pc' = [pc EXCEPT ![t] = to]

\* effective_wifi_mode: the legacy AP+STA is one or the other.
Effective ==
  IF cfg.mode = "APSTA" THEN IF cfg.ssid # None THEN "STA" ELSE "AP"
  ELSE cfg.mode
-----------------------------------------------------------------------------
(* The WiFi library *)

SetMode(on) ==
  /\ radio' = on
  /\ target' = IF "STA" \in on THEN target ELSE None
  /\ connected' = ("STA" \in on /\ connected)

\* WiFi.disconnect(true) also switches the station off, WiFi.begin on again.
Disconnect ==
  radio' = radio \ {"STA"} /\ target' = None /\ connected' = FALSE
WiFiBegin ==
  /\ radio' = radio \cup {"STA"} /\ target' = cfg.ssid /\ connected' = FALSE
  /\ due' = FALSE

\* The network answers, goes away or comes back; the clock.
Join ==
  /\ "STA" \in radio /\ target # None /\ ~connected /\ connected' = TRUE
  /\ UNCHANGED <<cfg, radio, target, manager, scans, pending, pc, seen>>

Leave ==
  /\ connected /\ connected' = FALSE
  /\ UNCHANGED <<cfg, radio, target, manager, scans, pending, pc, seen>>

RetryDue ==
  /\ ~due /\ due' = TRUE
  /\ UNCHANGED <<cfg, driver, state, fallback, attempts, scans, pending, pc,
                 seen>>
-----------------------------------------------------------------------------
(* wifi_manager_task: a round does nothing while g_scan_active is set. *)

MgrLook ==
  /\ ~scanActive
  /\ Step("mgr", "idle", IF fallback THEN "report"
                         ELSE IF Effective = "STA" THEN "sta" ELSE "ap")
  /\ seen' = connected
  /\ UNCHANGED <<cfg, driver, manager, scans, pending>>

\* In station mode a SoftAP is switched off.
MgrStrip ==
  /\ Step("mgr", "sta", "act")
  /\ IF "AP" \in radio THEN SetMode({"STA"}) ELSE UNCHANGED driver
  /\ UNCHANGED <<cfg, manager, scans, pending, seen>>

MgrJoined ==
  /\ seen /\ Step("mgr", "act", "idle")
  /\ state' = "STA_CONNECTED" /\ attempts' = 0
  /\ UNCHANGED <<cfg, driver, fallback, due, scans, pending, seen>>

MgrWait ==
  /\ ~seen /\ Step("mgr", "act", "idle")
  /\ ~due \/ (attempts = MaxAttempts /\ cfg.ssid = None)
  /\ state' = "DOWN"
  /\ UNCHANGED <<cfg, driver, fallback, attempts, due, scans, pending, seen>>

\* The attempts are never counted.
BugMgrRetry ==
  /\ ~seen /\ due /\ attempts < MaxAttempts
  /\ Step("mgr", "act", "begin")
  /\ Disconnect /\ state' = "DOWN"
  /\ UNCHANGED <<cfg, fallback, attempts, due, scans, pending, seen>>

\* The attempts are counted, but not limited.
BugMgrRetryLimit ==
  /\ ~seen /\ due
  /\ Step("mgr", "act", "begin")
  /\ Disconnect
  /\ attempts' = attempts + 1 /\ state' = "DOWN"
  /\ UNCHANGED <<cfg, fallback, due, scans, pending, seen>>

MgrRetry ==
  /\ ~seen /\ due /\ attempts < MaxAttempts
  /\ Step("mgr", "act", "begin")
  /\ Disconnect
  /\ attempts' = attempts + 1 /\ state' = "DOWN"
  /\ UNCHANGED <<cfg, fallback, due, scans, pending, seen>>

\* 50 ms after the disconnect.
MgrBegin ==
  /\ Step("mgr", "begin", "idle")
  /\ WiFiBegin
  /\ UNCHANGED <<cfg, state, fallback, attempts, scans, pending, seen>>

MgrFallback ==
  /\ ~seen /\ due /\ attempts = MaxAttempts /\ cfg.ssid # None
  /\ Step("mgr", "act", "flag")
  /\ SetMode({"AP"}) /\ state' = "AP_UP"
  /\ UNCHANGED <<cfg, fallback, attempts, due, scans, pending, seen>>

\* g_fallback_ap_active is set once the SoftAP is up.
MgrFlag ==
  /\ Step("mgr", "flag", "idle")
  /\ fallback' = TRUE /\ state' = "AP_UP"
  /\ UNCHANGED <<cfg, driver, attempts, due, scans, pending, seen>>

\* With the fallback active a round only reports.
MgrReport ==
  /\ Step("mgr", "report", "idle")
  /\ state' = "AP_UP"
  /\ UNCHANGED <<cfg, driver, fallback, attempts, due, scans, pending, seen>>

\* In AP mode a radio that is a station only is made a SoftAP again.
MgrAp ==
  /\ Step("mgr", "ap", "idle")
  /\ IF radio = {"STA"} THEN SetMode({"AP"}) ELSE UNCHANGED driver
  /\ state' = "AP_UP"
  /\ UNCHANGED <<cfg, fallback, attempts, due, scans, pending, seen>>

Mgr == \/ MgrLook \/ MgrStrip \/ MgrJoined \/ MgrWait \/ MgrRetry \/ MgrBegin
       \/ MgrFallback \/ MgrFlag \/ MgrReport \/ MgrAp
-----------------------------------------------------------------------------
(* wifi_apply_mode *)

\* What was is forgotten; the mode is read once.
Apply(t) ==
  /\ Step(t, "apply", IF Effective = "STA" THEN "apply_sta" ELSE "apply_ap")
  /\ fallback' = FALSE /\ attempts' = 0 /\ due' = TRUE
  /\ UNCHANGED <<cfg, driver, state, scans, pending, seen>>

ApplySta(t) ==
  /\ cfg.ssid # None /\ Step(t, "apply_sta", "apply_begin")
  /\ radio' = {} /\ target' = None /\ connected' = FALSE
  /\ attempts' = 1
  /\ UNCHANGED <<cfg, state, fallback, due, scans, pending, seen>>

\* An address that is refused ends the attempt before WiFi.begin.
BugApplyBegin(t) ==
  /\ Step(t, "apply_begin", "applied")
  /\ state' = "DOWN"
  /\ UNCHANGED <<cfg, driver, fallback, attempts, due, scans, pending, seen>>

ApplyBegin(t) ==
  /\ Step(t, "apply_begin", "applied")
  /\ WiFiBegin /\ state' = "DOWN"
  /\ UNCHANGED <<cfg, fallback, attempts, scans, pending, seen>>

\* AP mode, or nothing to join.
ApplyAp(t) ==
  /\ \/ Step(t, "apply_ap", "applied")
     \/ cfg.ssid = None /\ Step(t, "apply_sta", "applied")
  /\ SetMode({"AP"}) /\ state' = "AP_UP"
  /\ UNCHANGED <<cfg, fallback, attempts, due, scans, pending, seen>>

\* deferred_wifi_apply_task clears its flag at its end.
Applied(t) ==
  /\ Step(t, "applied", "idle")
  /\ pending' = (pending /\ t # "def")
  /\ UNCHANGED <<cfg, driver, manager, scans, seen>>

Applying(t) ==
  Apply(t) \/ ApplySta(t) \/ ApplyBegin(t) \/ ApplyAp(t) \/ Applied(t)
-----------------------------------------------------------------------------
(* scan_run_blocking, run by wifi_scan_task or by AT+SCAN *)

ScanBegin(t) ==
  /\ Step(t, "scan", "prepare") /\ scanActive' = TRUE
  /\ UNCHANGED <<cfg, driver, manager, async, job, pending, seen>>

\* scan_prepare: a SoftAP stays on while the station scans.
ScanPrepare(t) ==
  /\ Step(t, "prepare", "start")
  /\ IF job[t].softap THEN SetMode(Both)
     ELSE IF job[t].joined THEN UNCHANGED driver
     ELSE SetMode({"STA"})
  /\ UNCHANGED <<cfg, manager, scans, pending, seen>>

\* A scan that does not start leaves the radio as scan_prepare made it.
ScanStart(t) ==
  /\ \E ok \in Starts :
       /\ Step(t, "start", IF ok THEN "wait" ELSE "ended")
       /\ scanActive' = (scanActive /\ ok)
       /\ radio' = radio \cup {"STA"}
       /\ async' = IF t = "web" /\ ~ok THEN "FAILED" ELSE async
  /\ UNCHANGED <<cfg, target, connected, manager, job, pending, seen>>

\* Networks found, an error, or 45 s.
ScanDone(t) ==
  /\ Step(t, "wait", "restore")
  /\ UNCHANGED <<cfg, driver, manager, scans, pending, seen>>

\* Nothing is put back after a scan in AP mode.
BugScanRestore(t) ==
  /\ Step(t, "restore", "ended") /\ scanActive' = FALSE
  /\ UNCHANGED <<cfg, driver, manager, async, job, pending, seen>>

\* scan_restore_after: the job says what was, the configuration what is to be.
ScanRestore(t) ==
  LET back == job[t].softap /\ (Effective = "AP" \/ fallback)
      again == /\ ~job[t].softap /\ ~job[t].joined
               /\ cfg.ssid # None /\ Effective = "STA"
  IN  /\ Step(t, "restore", IF again THEN "rejoin" ELSE "ended")
      /\ IF back /\ (fallback \/ radio # {"AP"})
         THEN SetMode({"AP"})
         ELSE IF again THEN Disconnect ELSE UNCHANGED driver
      /\ IF back /\ fallback /\ ~(Effective = "AP" /\ radio # {"AP"})
         THEN fallback' = (Effective = "STA") /\ state' = "AP_UP"
         ELSE UNCHANGED <<fallback, state>>
      /\ attempts' = IF again THEN 1 ELSE attempts
      /\ scanActive' = (scanActive /\ again)
      /\ UNCHANGED <<cfg, due, async, job, pending, seen>>

\* An early return: the station stays off, g_scan_active stays set.
BugScanRejoin(t) ==
  /\ Step(t, "rejoin", "ended")
  /\ UNCHANGED <<cfg, driver, manager, scans, pending, seen>>

ScanRejoin(t) ==
  /\ Step(t, "rejoin", "ended")
  /\ WiFiBegin /\ scanActive' = FALSE
  /\ UNCHANGED <<cfg, state, fallback, attempts, async, job, pending, seen>>

ScanEnded(t) ==
  /\ Step(t, "ended", "idle")
  /\ IF t = "web" /\ async = "RUNNING"
     THEN async' \in {"DONE", "FAILED"} ELSE UNCHANGED async
  /\ UNCHANGED <<cfg, driver, manager, scanActive, job, pending, seen>>

\* AT+SCAN waits for a scan of the web interface, at most 45 s, and clears
\* what it found.
AtPolls ==
  /\ Step("at", "poll", "idle")
  /\ async' = IF async = "DONE" THEN "IDLE" ELSE async
  /\ UNCHANGED <<cfg, driver, manager, scanActive, job, pending, seen>>

Scanning(t) ==
  \/ ScanBegin(t) \/ ScanPrepare(t) \/ ScanStart(t) \/ ScanDone(t)
  \/ ScanRestore(t) \/ ScanRejoin(t) \/ ScanEnded(t)
-----------------------------------------------------------------------------
(* Requests *)

NewJob(t) ==
  job' = [job EXCEPT ![t] = [softap |-> "AP" \in radio, joined |-> connected]]

\* POST /api/config/wifi: station mode only with a network, never both; once
\* it is saved a deferred task applies it, the one that is pending if there is
\* one.
WebPost ==
  /\ "post" \in Requests
  /\ cfg' \in {c \in Config :
                c.mode # "APSTA" /\ (c.mode = "STA" => c.ssid # None)}
  /\ IF pending THEN UNCHANGED <<pc, pending>>
     ELSE Step("def", "idle", "apply") /\ pending' = TRUE
  /\ UNCHANGED <<driver, manager, scans, seen>>

\* A POST whose static address is invalid, or that cannot be saved, is refused
\* after it has set the configuration; nobody applies it.
WebPostRefused ==
  /\ "refused" \in Requests /\ cfg' \in Config
  /\ UNCHANGED <<driver, manager, scans, pending, pc, seen>>

\* AT+WIFIMODE= applies what AT+SSID= only stores.
AtMode ==
  /\ "mode" \in Requests /\ Step("at", "idle", "apply")
  /\ \E m \in {"STA", "AP", "APSTA"} : cfg' = [cfg EXCEPT !.mode = m]
  /\ UNCHANGED <<driver, manager, scans, pending, seen>>

AtSsid ==
  /\ "ssid" \in Requests /\ pc["at"] = "idle"
  /\ \E n \in Ssids \cup {None} : cfg' = [cfg EXCEPT !.ssid = n]
  /\ UNCHANGED <<driver, manager, scans, pending, pc, seen>>

AtScan ==
  /\ "atscan" \in Requests
  /\ IF async = "RUNNING" THEN Step("at", "idle", "poll") /\ UNCHANGED job
     ELSE Step("at", "idle", "scan") /\ NewJob("at")
  /\ UNCHANGED <<cfg, driver, manager, scanActive, async, pending, seen>>

\* /api/wifi/scan/start; one that has ended unasked for is cleared.
WebScan ==
  /\ "webscan" \in Requests /\ async # "RUNNING"
  /\ Step("web", "idle", "scan") /\ NewJob("web") /\ async' = "RUNNING"
  /\ UNCHANGED <<cfg, driver, manager, scanActive, pending, seen>>

\* /api/wifi/scan/status takes the outcome.
WebStatus ==
  /\ async \in {"DONE", "FAILED"} /\ async' = "IDLE"
  /\ UNCHANGED <<cfg, driver, manager, scanActive, job, pending, pc, seen>>

Init ==
  /\ cfg \in InitConfigs
  /\ fallback = FALSE /\ connected = FALSE /\ seen = FALSE
  /\ IF Effective = "STA" /\ cfg.ssid # None
     THEN /\ radio = {"STA"} /\ target = cfg.ssid /\ state = "DOWN"
          /\ attempts = 1 /\ due = FALSE
     ELSE /\ radio = {"AP"} /\ target = None /\ state = "AP_UP"
          /\ attempts = 0 /\ due = FALSE
  /\ scanActive = FALSE /\ async = "IDLE" /\ pending = FALSE
  /\ pc = [t \in Tasks |-> "idle"]
  /\ job = [t \in Scanners |-> [softap |-> FALSE, joined |-> FALSE]]

Request == WebPost \/ WebPostRefused \/ AtMode \/ AtSsid \/ AtScan \/ WebScan
Environment == Join \/ Leave \/ RetryDue \/ WebStatus

Next ==
  \/ Mgr \/ AtPolls \/ Request \/ Environment
  \/ \E t \in Appliers : Applying(t)
  \/ \E t \in Scanners : Scanning(t)

Spec == Init /\ [][Next]_vars

\* Every task is scheduled again and again, a scan ends after 45 s at the
\* latest, and time passes.  Whether a network answers, and what users ask
\* for, is up to them.
FairSpec ==
  /\ Spec /\ WF_vars(Mgr) /\ WF_vars(AtPolls) /\ WF_vars(RetryDue)
  /\ \A t \in Appliers : WF_vars(Applying(t))
  /\ \A t \in Scanners : WF_vars(Scanning(t))
-----------------------------------------------------------------------------
(* Properties *)

\* wifi_manager_task pauses only while a scan runs: whichever way a scan ends,
\* and however two of them overlap, g_scan_active does not outlive the last.
ScanFlagHeld ==
  scanActive => \E t \in Scanners :
                  pc[t] \in {"prepare", "start", "wait", "restore", "rejoin"}

\* Nobody applies a configuration or scans.
Quiet == \A t \in Tasks \ {"mgr"} : pc[t] = "idle"

\* Between starting the SoftAP of the fallback and setting its flag, which is
\* where wifi_manager_task stands, another task began to apply the station mode.
Overtaken ==
  /\ pc["mgr"] = "flag"
  /\ radio # {"AP"} \/ \E t \in Appliers : pc[t] \in {"apply_sta", "apply_begin"}

\* A station whose network does not answer any more gives up: once nobody applies
\* or scans, however often the configuration is edited, the fallback is reached
\* and the module stays a SoftAP; unless the fallback was overtaken.
FallsBack ==
  <>[](Quiet /\ ~connected /\ Effective = "STA" /\ cfg.ssid # None) =>
    <>[](fallback /\ radio = {"AP"}) \/ <>Overtaken

\* The radio is never left switched off: whoever disconnects also begins.
RadioComesBack == radio = {} ~> radio # {}

\* In AP mode, once users leave the module alone, the SoftAP is on and the
\* station off, whatever was scanned before and however scans overlapped,
\* provided that they started.
SoftApAlone ==
  <>[](Quiet /\ Effective = "AP") => <>[](radio = {"AP"})

\* A station left alone is in its network, tries to join it, or has given up
\* and is a SoftAP, provided that scans start.
StationTries ==
  <>[](Quiet /\ Effective = "STA" /\ cfg.ssid # None) =>
    []<>(target = cfg.ssid \/ "AP" \in radio)

(* What carries these properties, step by step.  No run checks it for every  *)
(* request and scan at once; see the proofs.                                 *)

\* The radio is off only until the task that switched it off, and waits for
\* 50 ms, begins to join.
OffIsShort ==
  radio = {} =>
    \/ pc["mgr"] = "begin"
    \/ \E t \in Appliers : pc[t] = "apply_begin"
    \/ \E t \in Scanners : pc[t] = "rejoin"

\* Between scan_prepare and scan_restore_after.
InScan(t) == pc[t] \in {"start", "wait", "restore"}

\* WiFi.scanNetworks fails, and task t leaves the radio as scan_prepare made it.
ScanRefused(t) == pc[t] = "start" /\ pc'[t] = "ended"
ScansStart == \A t \in Scanners : ~ScanRefused(t)

\* The same for a scan that took the station out of an attempt to join.
JoiningScansStart ==
  \A t \in Scanners : ScanRefused(t) => job[t].softap \/ job[t].joined

\* While the module is in AP mode the station is on during a scan only, whatever
\* is posted, applied or scanned meanwhile.
StaForScans == "STA" \in radio => \E t \in Scanners : InScan(t)

SoftApInv ==
  /\ "AP" \in radio
  /\ \A t \in Scanners :
       pc[t] = "scan" \/ pc[t] = "prepare" \/ InScan(t) => job[t].softap
  /\ pc["mgr"] \in {"idle", "report", "ap"}
  /\ \A t \in Tasks : pc[t] \notin {"apply_sta", "apply_begin", "rejoin"}

\* A station whose network s stays the same is in it or joining it, or is a
\* SoftAP, or somebody who will begin to join is at work: the manager within a
\* retry, a task that applies the mode, a scan.
AtWork(s) ==
  \/ target = s \/ "AP" \in radio \/ pc["mgr"] = "begin"
  \/ \E t \in Appliers : pc[t] \in {"apply_sta", "apply_begin"}
  \/ \E t \in Scanners : InScan(t) \/ pc[t] = "rejoin"

StationInv(s) ==
  /\ \/ target = s \/ pc["mgr"] = "begin"
     \/ "AP" \in radio /\ (fallback \/ pc["mgr"] = "flag")
     \/ \E t \in Appliers : pc[t] \in {"apply_sta", "apply_begin"}
     \/ \E t \in Scanners : \/ pc[t] = "rejoin"
                            \/ InScan(t) /\ ~job[t].softap /\ ~job[t].joined
  /\ pc["mgr"] \in {"sta", "act", "begin", "flag"} => ~fallback
  /\ pc["mgr"] # "ap" /\ \A t \in Tasks : pc[t] # "apply_ap"

(* What the documentation says and the code does not keep. *)

\* The configuration posted last is the one that is acted upon: a station does
\* not stay in a network it is no longer configured for.
LastPostApplies ==
  <>[](Quiet /\ connected /\ Effective = "STA") => <>[](target = cfg.ssid)

\* AP and station are on together only for the time of a scan.
NoLastingApSta == <>[]Quiet => <>[](radio # Both)

\* After its attempts have failed a station ends as a SoftAP.
AlwaysFallsBack ==
  <>[](Quiet /\ ~connected /\ Effective = "STA" /\ cfg.ssid # None) =>
    <>[](radio = {"AP"})

\* A fallback stays SoftAP-only: once nobody applies anything or scans, the
\* SoftAP is on alone.
FallbackStaysAp == <>[]Quiet => <>[](fallback => radio = {"AP"})

\* A module without a network to join can be reached through its SoftAP.
OpenWithoutSsid ==
  <>[](Quiet /\ cfg.ssid = None) => <>[]("AP" \in radio)

\* What a scan of the web interface has found stays until it is asked for there.
ResultsAreFetched == [][AtPolls => async' = async]_vars
=============================================================================
