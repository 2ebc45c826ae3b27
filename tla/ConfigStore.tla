----------------------------- MODULE ConfigStore -----------------------------
(***************************************************************************)
(* app_config.cpp and the tasks that use it: the configuration the module  *)
(* runs with (g_runtime, in RAM), its copy in flash (NVS), and what moves  *)
(* values between them: loading at boot, saving, the factory reset.        *)
(*                                                                         *)
(* The tasks change g_runtime without a lock.  Only g_prefs, the one       *)
(* handle to the store, keeps two of them apart: Preferences::begin fails  *)
(* while another task has it open.  Flash takes time, so a save writes one *)
(* setting per step; the module may lose power, or be restarted by another *)
(* task, between any two of them.  Each of these writes may fail without   *)
(* the code noticing: no result of Preferences::put is looked at.          *)
(*                                                                         *)
(* A setting is known by the place app_config_save writes it at, 1..N; the *)
(* schema version, written first, is kept apart.  Odd stands for a value   *)
(* outside the limits of a setting, Bound for the one it is replaced by.   *)
(***************************************************************************)
EXTENDS Naturals

CONSTANTS
  N,        \* number of settings
  Values,   \* values of a setting, Odd and Bound among them
  Odd,      \* a value outside the limits
  Bound,    \* what is made of it: a limit, STA or AP for the legacy AP+STA
  Factory,  \* the value of every setting in a module as delivered
  Ranged,   \* settings clamp_packet_params looks at
  Mapped,   \* settings app_config_load repairs: wifi_mode, web_pass
  Texts,    \* tasks that serve AT commands and binary frames: uart, udp
  Webs,     \* the task of the web server, which looks at what a save returns
  Resetters, \* gpio_status_task, deferred_reboot_task
  Main,     \* setup(), until the tasks are started
  None

Keys == 1..N
Mark == 0  \* the schema version among the things a save writes
Tasks == Texts \cup Webs \cup Resetters
All == Tasks \cup {Main}

ASSUME KeyAssumption == N \in Nat \ {0} /\ Ranged \cup Mapped \subseteq Keys
ASSUME ValueAssumption ==
  {Odd, Bound, Factory} \subseteq Values /\ Odd \notin {Bound, Factory}
ASSUME TaskAssumption == Main \notin Tasks
ASSUME NoneAssumption == None \notin Values \cup All

VARIABLES
  runtime,  \* g_runtime
  schema,   \* the store holds the schema version of this firmware
  nvs,      \* the settings in the store
  missed,   \* what the last save could not write: settings, Mark; the code
            \* does not know it
  holder,   \* who has g_prefs open
  pc,       \* where each task stands
  copy,     \* c, the clamped copy a save works on
  next,     \* the setting it writes next
  reset,    \* the save belongs to a factory reset
  good      \* what app_config_save returned

flash == <<schema, nvs, missed, holder>>
work == <<copy, next, reset, good>>
vars == <<runtime, flash, pc, work>>

Config == [Keys -> Values]
Empty == [k \in Keys |-> None]
Defaults == [k \in Keys |-> Factory]
Labels == {"off", "load", "idle", "clear", "default", "begin",
           "write", "end", "answer", "restart"}

TypeOK ==
  /\ runtime \in Config /\ schema \in BOOLEAN
  /\ nvs \in [Keys -> Values \cup {None}] /\ holder \in All \cup {None}
  /\ missed \subseteq Keys \cup {Mark}
  /\ pc \in [All -> Labels] /\ copy \in [All -> Config]
  /\ next \in [All -> 1..N + 1] /\ reset \in [All -> BOOLEAN]
  /\ good \in [All -> BOOLEAN]

Step(t, from, to) == pc[t] = from /\ pc' = [pc EXCEPT ![t] = to]

\* The values are stored as they are.
BugClamp(c) == c

Repair(c, keys) ==
  [k \in Keys |-> IF k \in keys /\ c[k] = Odd THEN Bound ELSE c[k]]

\* clamp_packet_params
Clamp(c) == Repair(c, Ranged)

\* A setting that is missing in the store is taken as it is.
BugLoaded == IF schema THEN nvs ELSE Defaults

\* What app_config_load makes of the store: a setting that is missing keeps
\* its default; without the schema version the store does not count.
Loaded ==
  IF schema
  THEN Repair([k \in Keys |-> IF nvs[k] = None THEN Factory ELSE nvs[k]],
              Ranged \cup Mapped)
  ELSE Defaults

\* Only setup() is about to run, and nobody has begun anything.
Booting == [t \in All |-> IF t = Main THEN "load" ELSE "off"]
Fresh(x) == [t \in All |-> x]

Init ==
  /\ runtime = Defaults /\ schema = FALSE /\ nvs = Empty /\ holder = None
  /\ missed = {}
  /\ pc = Booting /\ copy = Fresh(Defaults) /\ next = Fresh(1)
  /\ reset = Fresh(FALSE) /\ good = Fresh(FALSE)
-----------------------------------------------------------------------------
(* app_config_save: a copy is clamped, the store opened, every setting      *)
(* written, and the copy becomes g_runtime.                                 *)

\* What every call of app_config_save by task t starts from.
Prepare(t, c, isReset) ==
  /\ copy' = [copy EXCEPT ![t] = Clamp(c)]
  /\ reset' = [reset EXCEPT ![t] = isReset]
  /\ UNCHANGED <<next, good>>

\* Where task t goes on when app_config_save returns.
After(t) == IF t = Main THEN "idle" ELSE IF reset[t] THEN "restart" ELSE "answer"

\* The handle is taken whether or not it is in use.
BugSaveBegin(t) ==
  /\ Step(t, "begin", "write")
  /\ holder' = t /\ schema' = TRUE /\ missed' = {}
  /\ UNCHANGED <<runtime, nvs, work>>

\* The schema version is left to the end, and forgotten.
BugSaveSchema(t) ==
  /\ holder = None
  /\ Step(t, "begin", "write")
  /\ holder' = t /\ missed' = {}
  /\ UNCHANGED <<runtime, schema, nvs, work>>

\* The store is opened and the schema version put into it.  A put that fails
\* matters only where it was missing.
SaveBegin(t) ==
  /\ holder = None
  /\ Step(t, "begin", "write")
  /\ holder' = t
  /\ \/ schema' = TRUE /\ missed' = {}
     \/ ~schema /\ schema' = FALSE /\ missed' = {Mark}
  /\ UNCHANGED <<runtime, nvs, work>>

\* A reset whose save fails goes back to serving requests.
BugSaveFails(t) ==
  /\ holder # None
  /\ Step(t, "begin", "answer")
  /\ copy' = [copy EXCEPT ![t] = Defaults]
  /\ UNCHANGED <<runtime, flash, next, reset, good>>

SaveFails(t) ==
  /\ holder # None /\ t # Main
  /\ Step(t, "begin", After(t))
  /\ copy' = [copy EXCEPT ![t] = Defaults]
  /\ UNCHANGED <<runtime, flash, next, reset, good>>

\* One setting is put into the store; where that fails, the old value stays.
SaveWrite(t) ==
  /\ Step(t, "write", IF next[t] = N THEN "end" ELSE "write")
  /\ \/ nvs' = [nvs EXCEPT ![next[t]] = copy[t][next[t]]] /\ UNCHANGED missed
     \/ UNCHANGED nvs /\ missed' = missed \cup {next[t]}
  /\ next' = [next EXCEPT ![t] = @ + 1]
  /\ UNCHANGED <<runtime, schema, holder, copy, reset, good>>

SaveEnd(t) ==
  /\ pc[t] = "end"
  /\ pc' = IF t = Main THEN [u \in All |-> IF u = Main THEN "off" ELSE "idle"]
           ELSE [pc EXCEPT ![t] = After(t)]
  /\ holder' = None /\ runtime' = copy[t]
  /\ good' = [good EXCEPT ![t] = TRUE]
  /\ copy' = [copy EXCEPT ![t] = Defaults] /\ next' = [next EXCEPT ![t] = 1]
  /\ missed' = missed \cap {Mark}
  /\ UNCHANGED <<schema, nvs, reset>>

Saving(t) == SaveBegin(t) \/ SaveFails(t) \/ SaveWrite(t) \/ SaveEnd(t)
-----------------------------------------------------------------------------
(* app_config_init_runtime: a store that does not count is written anew,    *)
(* then the tasks start.                                                    *)

Boot ==
  /\ pc[Main] = "load"
  /\ runtime' = Loaded
  /\ IF schema
     THEN /\ pc' = [t \in All |-> IF t = Main THEN "off" ELSE "idle"]
          /\ UNCHANGED work
     ELSE /\ pc' = [pc EXCEPT ![Main] = "begin"]
          /\ Prepare(Main, Defaults, FALSE)
  /\ UNCHANGED flash
-----------------------------------------------------------------------------
(* Requests *)

\* An AT command stores the value it is given, within the type of the field.
AtSet(t) ==
  /\ t \in Texts /\ pc[t] = "idle"
  /\ \E k \in Keys, v \in Values : runtime' = [runtime EXCEPT ![k] = v]
  /\ UNCHANGED <<flash, pc, work>>

\* POST /api/config/rs485 cuts the value down at once; POST .../webpass and
\* .../wifi only take valid values or none.
WebSet(t) ==
  /\ t \in Webs /\ pc[t] = "idle"
  /\ \E k \in Keys, v \in Values :
       /\ k \in Ranged => v # Odd
       /\ runtime' = [runtime EXCEPT ![k] = v]
  /\ UNCHANGED <<flash, pc, work>>

\* AT+SAVE, SAVE_CONFIG, POST /api/save and the POSTs that save.
Save(t) ==
  /\ t \notin Resetters
  /\ Step(t, "idle", "begin")
  /\ Prepare(t, runtime, FALSE)
  /\ UNCHANGED <<runtime, flash>>

\* The answer is on its way; only the web server's depends on `good'.
Answer(t) ==
  /\ Step(t, "answer", "idle")
  /\ good' = [good EXCEPT ![t] = FALSE]
  /\ UNCHANGED <<runtime, flash, copy, next, reset>>

\* AT+FACTORY, FACTORY_RESET, POST /api/factory-reset, the button: the store
\* is cleared if it can be opened, and the defaults are saved like any other
\* configuration.
ResetOpen(t) ==
  /\ t \notin Webs
  /\ \/ holder = None /\ Step(t, "idle", "clear") /\ holder' = t
     \/ holder # None /\ Step(t, "idle", "default") /\ UNCHANGED holder
  /\ UNCHANGED <<runtime, schema, nvs, missed, work>>

\* The result of clear() is not looked at either.
ResetClear(t) ==
  /\ Step(t, "clear", "default")
  /\ \/ nvs' = Empty /\ schema' = FALSE /\ missed' = {}
     \/ UNCHANGED <<nvs, schema, missed>>
  /\ holder' = None
  /\ UNCHANGED <<runtime, work>>

\* What is saved is what the module ran with.
BugResetDefault(t) ==
  /\ Step(t, "default", "begin")
  /\ runtime' = Defaults /\ Prepare(t, runtime, TRUE)
  /\ UNCHANGED flash

ResetDefault(t) ==
  /\ Step(t, "default", "begin")
  /\ runtime' = Defaults /\ Prepare(t, Defaults, TRUE)
  /\ UNCHANGED flash

Reset(t) == ResetOpen(t) \/ ResetClear(t) \/ ResetDefault(t)

\* Whatever the tasks were doing, setup() is next; only the store stays.
Reboot ==
  /\ runtime' = Defaults /\ holder' = None
  /\ pc' = Booting /\ copy' = Fresh(Defaults) /\ next' = Fresh(1)
  /\ reset' = Fresh(FALSE) /\ good' = Fresh(FALSE)
  /\ missed' = missed \cap {Mark}
  /\ UNCHANGED <<schema, nvs>>

\* ESP.restart at the end of a reset, or by AT+REBOOT, REBOOT, /api/reboot and
\* at the end of an update.
Restart(t) == pc[t] = "restart" /\ Reboot
RebootRequest(t) == pc[t] = "idle" /\ Reboot
\* At any time, as often as it likes.
PowerLoss == Reboot

Next ==
  \/ Boot \/ PowerLoss
  \/ \E t \in All : Saving(t)
  \/ \E t \in Tasks : \/ AtSet(t) \/ WebSet(t) \/ Save(t) \/ Answer(t) \/ Reset(t)
                      \/ Restart(t) \/ RebootRequest(t)

Spec == Init /\ [][Next]_vars

\* Every task is scheduled; a request is nobody's duty.
FairSpec ==
  /\ Spec /\ WF_vars(Boot)
  /\ \A t \in All : WF_vars(Saving(t))
  /\ \A t \in Tasks : WF_vars(Answer(t)) /\ WF_vars(Restart(t))
                      /\ WF_vars(ResetClear(t) \/ ResetDefault(t))
-----------------------------------------------------------------------------
(* Properties *)

\* g_prefs is open for the task that works on the store, for no other.
HandleInv ==
  \A t \in All : pc[t] \in {"clear", "write", "end"} <=> holder = t

\* When app_config_save is about to return TRUE, the store holds every setting
\* of its copy but those whose own put failed, whatever the other tasks did to
\* the store meanwhile.
SavedWhole ==
  \A t \in All : pc[t] = "end" =>
    /\ schema \/ Mark \in missed
    /\ \A k \in Keys \ missed : nvs[k] = copy[t][k]

\* No value outside its limits gets into the store, not even after a loss of
\* power and whatever AT commands put into g_runtime.
StoreInRange == \A k \in Ranged : nvs[k] # Odd

\* The store is used or empty: no loss of power leaves settings that a boot
\* overlooks, only a put of the schema version that failed does.
NothingOverlooked == schema \/ nvs = Empty \/ Mark \in missed

\* Once a factory reset has cleared the store, it stays one: as long as no other
\* task writes, every step of it, every put that fails and every loss of power
\* on the way leaves a store from which a boot makes the defaults.
Resetting(t) ==
  \/ pc[t] = "default"
  \/ reset[t] /\ pc[t] \in {"begin", "write", "end", "restart"}
Cleared == \A k \in Keys : nvs[k] \in {None, Factory}
ResetSticks ==
  [][\A t \in Tasks :
       /\ Resetting(t) /\ Cleared
       /\ \A u \in Tasks \ {t} : pc[u] # "write"
       => Cleared' /\ Loaded' = Defaults]_vars

\* A factory reset ends in a restart, even if neither its clearing nor its save
\* gets hold of the store.
ResetEnds ==
  \A t \in Tasks : pc[t] \in {"clear", "default"} ~> pc[Main] = "load"

(* What the documentation says, or a caller relies on, and the code does not  *)
(* keep.                                                                      *)

\* A save that returns TRUE has stored its copy.
SaveIsComplete == \A t \in All : pc[t] = "end" => schema /\ nvs = copy[t]

\* A boot overlooks nothing that is in the store.
StoreIsMarked == schema \/ nvs = Empty

\* A factory reset restarts into the defaults.
RestartsFresh ==
  \A t \in Tasks : reset[t] /\ pc[t] = "restart" => Loaded = Defaults

\* AT+SAVE and SAVE_CONFIG are answered with OK and ACK only if the settings
\* are in the store.
AnswerMeansStored == \A t \in Texts : pc[t] = "answer" => good[t]

\* A save writes the current configuration: when it ends, nothing in g_runtime
\* is newer than the store.
SaveWritesCurrent ==
  \A t \in Tasks : pc[t] = "end" => nvs = Clamp(runtime)

\* A setting that is asked for is within its limits.
ReportedInRange == \A k \in Ranged : runtime[k] # Odd
=============================================================================
