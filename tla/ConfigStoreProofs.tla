------------------------- MODULE ConfigStoreProofs -------------------------
(***************************************************************************)
(* What is proved of ConfigStore, for any number of settings, values and   *)
(* tasks: the handle g_prefs keeps the saves apart, so that a save that    *)
(* returns TRUE left in the store what it set out to write, but for the    *)
(* puts that failed themselves, in range, wherever power was lost.         *)
(***************************************************************************)
EXTENDS ConfigStore, TLAPS

\* While setup() works no task runs, and once it is done it stays done until
\* the next restart.
BootInv ==
  /\ pc[Main] \in {"off", "load", "begin", "write", "end"}
  /\ \A t \in Tasks : pc[t] # "load" /\ (pc[Main] # "off" => pc[t] = "off")

\* How far a save has come.
WriteInv ==
  \A t \in All :
    /\ pc[t] \notin {"write", "end"} => next[t] = 1
    /\ pc[t] = "write" =>
         /\ schema \/ Mark \in missed
         /\ next[t] \in 1..N
         /\ \A k \in 1..(next[t] - 1) : k \in missed \/ nvs[k] = copy[t][k]
    /\ pc[t] = "end" => /\ schema \/ Mark \in missed
                        /\ \A k \in Keys \ missed : nvs[k] = copy[t][k]

\* Whatever is to be saved is within the limits.
CopyInv == \A t \in All : \A k \in Ranged : copy[t][k] # Odd

\* StoreInRange and NothingOverlooked are inductive only with the copies in
\* range (CopyInv), SavedWhole only with the progress of the save (WriteInv) and
\* the fact that no two tasks hold the store (HandleInv); that a restart finds
\* no task in the middle of a boot needs BootInv.
IInv == TypeOK /\ HandleInv /\ BootInv /\ WriteInv /\ CopyInv
        /\ StoreInRange /\ NothingOverlooked
-----------------------------------------------------------------------------
(* Helpers *)

\* A configuration stays one when values are cut down, and nothing odd is left
\* in the settings looked at.
LEMMA RepairType ==
  ASSUME NEW c \in Config, NEW keys
  PROVE  Repair(c, keys) \in Config /\ \A k \in keys \cap Keys : Repair(c, keys)[k] # Odd
BY ValueAssumption DEF Config, Repair

\* What a save starts from is a configuration in range.
LEMMA ClampType ==
  ASSUME NEW c \in Config
  PROVE  Clamp(c) \in Config /\ \A k \in Ranged : Clamp(c)[k] # Odd
BY RepairType, KeyAssumption DEF Clamp

\* The defaults are a configuration in range.
LEMMA DefaultsType ==
  Defaults \in Config /\ \A k \in Ranged : Defaults[k] # Odd
BY ValueAssumption, KeyAssumption DEF Defaults, Config

\* What is loaded is a configuration, whatever the store lacks.
LEMMA LoadedType ==
  ASSUME nvs \in [Keys -> Values \cup {None}]
  PROVE  Loaded \in Config
<1> DEFINE c == [k \in Keys |-> IF nvs[k] = None THEN Factory ELSE nvs[k]]
<1>1. c \in Config
  BY ValueAssumption DEF Config
<1> HIDE DEF c
<1>2. Repair(c, Ranged \cup Mapped) \in Config
  BY <1>1, RepairType
<1> QED
  BY <1>2, DefaultsType DEF Loaded, c

\* A restart leaves the invariant: only the store outlives it.
LEMMA RebootInv ==
  ASSUME IInv, Reboot
  PROVE  IInv'
<1> USE DEF IInv, TypeOK, Reboot
<1>1. pc' = Booting /\ holder' = None /\ copy' = Fresh(Defaults) /\ next' = Fresh(1)
      /\ runtime' = Defaults /\ missed' = missed \cap {Mark} /\ UNCHANGED <<schema, nvs>>
  OBVIOUS
<1>2. \A t \in Tasks : t # Main
  BY TaskAssumption
<1>3. TypeOK'
  BY DefaultsType, KeyAssumption DEF Booting, Fresh, All, Labels
<1>4. HandleInv'
  BY NoneAssumption DEF HandleInv, Booting
<1>5. BootInv'
  BY <1>2 DEF BootInv, Booting, All
<1>6. WriteInv'
  BY DEF WriteInv, Booting, Fresh
<1>7. CopyInv'
  BY DefaultsType DEF CopyInv, Fresh
<1>8. StoreInRange' /\ NothingOverlooked'
  BY DEF StoreInRange, NothingOverlooked
<1> QED
  BY <1>3, <1>4, <1>5, <1>6, <1>7, <1>8
-----------------------------------------------------------------------------
(* The steps *)

\* A module as delivered satisfies the invariant.
LEMMA InitInv == Init => IInv
<1> SUFFICES ASSUME Init PROVE IInv
  OBVIOUS
<1> USE DEF Init
<1>1. TypeOK
  <2>1. runtime \in Config /\ schema \in BOOLEAN /\ copy \in [All -> Config]
    BY DefaultsType DEF Fresh
  <2>2. /\ nvs \in [Keys -> Values \cup {None}] /\ holder \in All \cup {None}
        /\ missed \subseteq Keys \cup {Mark}
    BY DEF Empty
  <2>3. pc \in [All -> Labels]
    BY DEF Booting, Labels
  <2>4. next \in [All -> 1..N + 1]
    BY KeyAssumption DEF Fresh
  <2>5. reset \in [All -> BOOLEAN] /\ good \in [All -> BOOLEAN]
    BY DEF Fresh
  <2> QED
    BY <2>1, <2>2, <2>3, <2>4, <2>5 DEF TypeOK
<1>2. HandleInv /\ WriteInv
  BY NoneAssumption DEF HandleInv, WriteInv, Booting, Fresh
<1>3. BootInv
  BY TaskAssumption DEF BootInv, Booting, All
<1>4. CopyInv
  BY DefaultsType DEF CopyInv, Fresh
<1>5. StoreInRange /\ NothingOverlooked
  BY KeyAssumption, ValueAssumption, NoneAssumption
  DEF StoreInRange, NothingOverlooked, Empty
<1> QED
  BY <1>1, <1>2, <1>3, <1>4, <1>5 DEF IInv

\* Boot starts the tasks, or the save of the defaults.
LEMMA BootStep == IInv /\ Boot => IInv'
<1> SUFFICES ASSUME IInv, Boot PROVE IInv'
  OBVIOUS
<1> USE DEF IInv, TypeOK, Boot, flash, work
<1>1. Main \in All /\ Main \notin Tasks /\ Tasks \subseteq All /\ All = Tasks \cup {Main}
  BY TaskAssumption DEF All
<1>2. runtime' \in Config
  BY LoadedType
<1>3. CASE schema
  <2> USE <1>3
  <2>1. pc' = [t \in All |-> IF t = Main THEN "off" ELSE "idle"]
        /\ UNCHANGED <<schema, nvs, missed, holder, copy, next, reset, good>>
    OBVIOUS
  <2>2. TypeOK'
    BY <1>1, <1>2, <2>1 DEF Labels
  <2>3. HandleInv' /\ BootInv'
    BY <1>1, <2>1 DEF HandleInv, BootInv, Labels
  <2>4. WriteInv'
    BY <1>1, <2>1 DEF WriteInv, HandleInv, BootInv
  <2>5. CopyInv' /\ StoreInRange' /\ NothingOverlooked'
    BY <2>1 DEF CopyInv, StoreInRange, NothingOverlooked
  <2> QED
    BY <2>2, <2>3, <2>4, <2>5
<1>4. CASE ~schema
  <2> USE <1>4
  <2>1. pc' = [pc EXCEPT ![Main] = "begin"] /\ pc[Main] = "load"
        /\ copy' = [copy EXCEPT ![Main] = Clamp(Defaults)]
        /\ reset' = [reset EXCEPT ![Main] = FALSE]
        /\ UNCHANGED <<schema, nvs, missed, holder, next, good>>
    BY DEF Prepare
  <2>2. Clamp(Defaults) \in Config /\ \A k \in Ranged : Clamp(Defaults)[k] # Odd
    BY ClampType, DefaultsType
  <2>3. reset' \in [All -> BOOLEAN]
    BY <2>1, <1>1
  <2>4. TypeOK'
    BY <1>1, <1>2, <2>1, <2>2, <2>3 DEF Labels
  <2>5. HandleInv' /\ BootInv'
    BY <1>1, <2>1 DEF HandleInv, BootInv
  <2>6. WriteInv'
    BY <1>1, <2>1 DEF WriteInv
  <2>7. CopyInv' /\ StoreInRange' /\ NothingOverlooked'
    BY <1>1, <2>1, <2>2 DEF CopyInv, StoreInRange, NothingOverlooked
  <2> QED
    BY <2>4, <2>5, <2>6, <2>7
<1> QED
  BY <1>3, <1>4

\* A save takes the handle and marks the store as valid, or gives up.
LEMMA SaveOpenStep ==
  ASSUME IInv, NEW t \in All, SaveBegin(t) \/ SaveFails(t)
  PROVE  IInv'
<1> USE DEF IInv, TypeOK, Step, flash, work
<1>1. Main \in All /\ Main \notin Tasks /\ All = Tasks \cup {Main}
  BY TaskAssumption DEF All
<1>2. t # None
  BY NoneAssumption
<1>3. CASE SaveBegin(t)
  <2>1. /\ holder = None /\ holder' = t
        /\ \/ schema' = TRUE /\ missed' = {}
           \/ schema' = schema /\ missed' = {Mark}
        /\ pc[t] = "begin" /\ pc' = [pc EXCEPT ![t] = "write"]
        /\ UNCHANGED <<runtime, nvs, copy, next, reset, good>>
    BY <1>3 DEF SaveBegin
  <2>2. TypeOK'
    BY <2>1 DEF Labels
  <2>3. HandleInv'
    <3>1. \A u \in All : pc[u] \notin {"clear", "write", "end"}
      BY <2>1, NoneAssumption DEF HandleInv
    <3> QED
      BY <2>1, <3>1, <1>2 DEF HandleInv
  <2>4. BootInv'
    BY <1>1, <2>1 DEF BootInv
  <2>5. WriteInv'
    <3>1. \A u \in All : pc[u] \notin {"clear", "write", "end"}
      BY <2>1, NoneAssumption DEF HandleInv
    <3>2. schema' \/ Mark \in missed'
      BY <2>1
    <3>3. next'[t] = 1 /\ pc'[t] = "write" /\ 1 \in 1..N /\ 1..(1 - 1) = {}
      BY <2>1, KeyAssumption DEF WriteInv
    <3>4. \A u \in All : u # t => pc'[u] = pc[u] /\ next'[u] = 1
      BY <3>1, <2>1 DEF WriteInv
    <3> QED
      BY <3>1, <3>2, <3>3, <3>4 DEF WriteInv
  <2>6. CopyInv' /\ StoreInRange' /\ NothingOverlooked'
    BY <2>1 DEF CopyInv, StoreInRange, NothingOverlooked
  <2> QED
    BY <2>2, <2>3, <2>4, <2>5, <2>6
<1>4. CASE SaveFails(t)
  <2>1. /\ pc[t] = "begin" /\ t # Main /\ pc' = [pc EXCEPT ![t] = After(t)]
        /\ copy' = [copy EXCEPT ![t] = Defaults]
        /\ UNCHANGED <<runtime, schema, nvs, missed, holder, next, reset, good>>
    BY <1>4 DEF SaveFails
  <2>2. After(t) \in {"answer", "restart"}
    BY <2>1 DEF After
  <2>3. TypeOK'
    BY <2>1, <2>2, DefaultsType DEF Labels
  <2>4. HandleInv' /\ BootInv'
    BY <1>1, <2>1, <2>2 DEF HandleInv, BootInv
  <2>5. WriteInv'
    BY <2>1, <2>2 DEF WriteInv
  <2>6. CopyInv' /\ StoreInRange' /\ NothingOverlooked'
    BY <2>1, DefaultsType DEF CopyInv, StoreInRange, NothingOverlooked
  <2> QED
    BY <2>3, <2>4, <2>5, <2>6
<1> QED
  BY <1>3, <1>4

\* Writing a setting carries the save one setting further; nobody else is
\* writing, so nothing that was written is disturbed.
LEMMA SaveWriteStep ==
  ASSUME IInv, NEW t \in All, SaveWrite(t)
  PROVE  IInv'
<1> USE DEF IInv, TypeOK, Step
<1> DEFINE n == next[t]
           to == IF n = N THEN "end" ELSE "write"
<1>1. /\ pc[t] = "write" /\ pc' = [pc EXCEPT ![t] = to]
      /\ \/ nvs' = [nvs EXCEPT ![n] = copy[t][n]] /\ missed' = missed
         \/ nvs' = nvs /\ missed' = missed \cup {n}
      /\ next' = [next EXCEPT ![t] = n + 1]
      /\ UNCHANGED <<runtime, schema, holder, copy, reset, good>>
  BY DEF SaveWrite
<1>2. /\ n \in 1..N /\ n \in Keys /\ (schema \/ Mark \in missed)
      /\ \A k \in 1..(n - 1) : k \in missed \/ nvs[k] = copy[t][k]
  BY <1>1, KeyAssumption DEF WriteInv, Keys
<1>3. copy[t][n] \in Values /\ (n \in Ranged => copy[t][n] # Odd)
  BY <1>2 DEF CopyInv, Config
<1>4. \A u \in All : u # t => pc[u] \notin {"clear", "write", "end"}
  BY <1>1 DEF HandleInv
<1>5. TypeOK'
  <2>1. nvs' \in [Keys -> Values \cup {None}] /\ missed' \subseteq Keys \cup {Mark}
    BY <1>1, <1>2, <1>3
  <2>2. next' \in [All -> 1..N + 1]
    BY <1>1, <1>2, KeyAssumption
  <2> QED
    BY <1>1, <2>1, <2>2 DEF Labels
<1>6. HandleInv' /\ BootInv'
  BY <1>1 DEF HandleInv, BootInv, All
<1>7. WriteInv'
  <2>1. \A u \in All : u # t => pc'[u] \notin {"write", "end"} /\ next'[u] = 1
    BY <1>1, <1>4 DEF WriteInv
  <2>2. schema' \/ Mark \in missed'
    BY <1>1, <1>2
  <2>3. \A k \in 1..n : k \in missed' \/ nvs'[k] = copy'[t][k]
    <3>1. n \in missed' \/ nvs'[n] = copy'[t][n]
      BY <1>1, <1>2
    <3>2. \A k \in 1..(n - 1) : k \in missed' \/ nvs'[k] = copy'[t][k]
      <4>1. \A k \in 1..(n - 1) : k \in Keys /\ k # n
        BY <1>2, KeyAssumption DEF Keys
      <4> QED
        BY <4>1, <1>1, <1>2
    <3>3. \A k \in 1..n : k = n \/ k \in 1..(n - 1)
      BY <1>2, KeyAssumption
    <3> QED
      BY <3>1, <3>2, <3>3
  <2>4. CASE n = N
    <3>1. pc'[t] = "end" /\ \A k \in Keys \ missed' : nvs'[k] = copy'[t][k]
      BY <2>3, <2>4, <1>1 DEF Keys
    <3> QED
      BY <2>1, <2>2, <3>1 DEF WriteInv
  <2>5. CASE n # N
    <3>1. n + 1 \in 1..N /\ (n + 1) - 1 = n
      BY <1>2, <2>5, KeyAssumption
    <3>2. pc'[t] = "write" /\ next'[t] = n + 1
      BY <1>1, <2>5
    <3>3. /\ next'[t] \in 1..N
          /\ \A k \in 1..(next'[t] - 1) : k \in missed' \/ nvs'[k] = copy'[t][k]
      BY <2>3, <3>1, <3>2
    <3> QED
      BY <2>1, <2>2, <3>2, <3>3 DEF WriteInv
  <2> QED
    BY <2>4, <2>5
<1>8. CopyInv'
  BY <1>1 DEF CopyInv
<1>9. NothingOverlooked'
  BY <1>1, <1>2 DEF NothingOverlooked
<1>10. StoreInRange'
  BY <1>1, <1>3, KeyAssumption DEF StoreInRange
<1> QED
  BY <1>5, <1>6, <1>7, <1>8, <1>9, <1>10

\* The save ends: the copy becomes g_runtime and the handle is given back.
LEMMA SaveEndStep ==
  ASSUME IInv, NEW t \in All, SaveEnd(t)
  PROVE  IInv'
<1> USE DEF IInv, TypeOK
<1>1. /\ pc[t] = "end" /\ holder' = None /\ runtime' = copy[t]
      /\ pc' = IF t = Main THEN [u \in All |-> IF u = Main THEN "off" ELSE "idle"]
               ELSE [pc EXCEPT ![t] = After(t)]
      /\ copy' = [copy EXCEPT ![t] = Defaults] /\ next' = [next EXCEPT ![t] = 1]
      /\ good' = [good EXCEPT ![t] = TRUE] /\ missed' = missed \cap {Mark}
      /\ UNCHANGED <<schema, nvs, reset>>
  BY DEF SaveEnd
<1>2. \A u \in All : u # t => pc[u] \notin {"clear", "write", "end"} /\ next[u] = 1
  BY <1>1 DEF HandleInv, WriteInv
<1>3. pc' \in [All -> Labels] /\ \A u \in All : /\ pc'[u] \notin {"clear", "write", "end"}
                                                /\ pc'[u] # "load" \/ pc'[u] = pc[u]
  BY <1>1, <1>2 DEF After, Labels
<1>4. TypeOK'
  <2>1. good' \in [All -> BOOLEAN]
    BY <1>1
  <2>2. next' \in [All -> 1..N + 1]
    BY <1>1, KeyAssumption
  <2> QED
    BY <1>1, <1>3, <2>1, <2>2, DefaultsType
<1>5. HandleInv'
  BY <1>1, <1>3, NoneAssumption DEF HandleInv
<1>6. BootInv'
  <2>1. Main \in All /\ Main \notin Tasks /\ All = Tasks \cup {Main}
    BY TaskAssumption DEF All
  <2>2. CASE t = Main
    BY <1>1, <2>1, <2>2 DEF BootInv
  <2>3. CASE t # Main
    <3>1. pc[Main] = "off" /\ After(t) \in {"answer", "restart"}
      BY <1>1, <2>1, <2>3 DEF BootInv, After
    <3> QED
      BY <1>1, <2>1, <2>3, <3>1 DEF BootInv
  <2> QED
    BY <2>2, <2>3
<1>7. WriteInv'
  BY <1>1, <1>2, <1>3 DEF WriteInv
<1>8. CopyInv' /\ StoreInRange' /\ NothingOverlooked'
  BY <1>1, DefaultsType DEF CopyInv, StoreInRange, NothingOverlooked
<1> QED
  BY <1>4, <1>5, <1>6, <1>7, <1>8

\* Setting a value, by an AT command or the web server, stays in RAM.
LEMMA SetStep ==
  ASSUME IInv, NEW t \in Tasks, AtSet(t) \/ WebSet(t)
  PROVE  IInv'
<1> USE DEF IInv, TypeOK
<1>1. \E k \in Keys, v \in Values : runtime' = [runtime EXCEPT ![k] = v]
  BY DEF AtSet, WebSet
<1>2. UNCHANGED <<schema, nvs, missed, holder, pc, copy, next, reset, good>>
  BY DEF AtSet, WebSet, flash, work
<1>3. runtime' \in Config
  BY <1>1 DEF Config
<1>4. TypeOK' /\ HandleInv' /\ BootInv'
  BY <1>2, <1>3 DEF HandleInv, BootInv
<1>5. WriteInv' /\ CopyInv' /\ StoreInRange' /\ NothingOverlooked'
  BY <1>2 DEF WriteInv, CopyInv, StoreInRange, NothingOverlooked
<1> QED
  BY <1>4, <1>5

\* Save, and the last part of a reset: a clamped copy is made.
LEMMA PrepareStep ==
  ASSUME IInv, NEW t \in Tasks, Save(t) \/ ResetDefault(t)
  PROVE  IInv'
<1> USE DEF IInv, TypeOK, Step, flash
<1>1. t \in All /\ Main \notin Tasks /\ Main \in All /\ t # Main /\ Tasks \subseteq All
  BY TaskAssumption DEF All
<1>2. PICK c \in Config, r \in BOOLEAN : Prepare(t, c, r)
  BY DefaultsType DEF Save, ResetDefault
<1>3. /\ copy' = [copy EXCEPT ![t] = Clamp(c)] /\ reset' = [reset EXCEPT ![t] = r]
      /\ UNCHANGED <<next, good>>
  BY <1>2 DEF Prepare
<1>4. /\ pc[t] \in {"idle", "default"} /\ pc' = [pc EXCEPT ![t] = "begin"]
      /\ runtime' \in {runtime, Defaults} /\ UNCHANGED <<schema, nvs, missed, holder>>
  BY DEF Save, ResetDefault
<1>5. Clamp(c) \in Config /\ \A k \in Ranged : Clamp(c)[k] # Odd
  BY ClampType
<1>6. TypeOK'
  <2>1. copy' \in [All -> Config] /\ runtime' \in Config
    BY <1>1, <1>3, <1>4, <1>5, DefaultsType
  <2>2. reset' \in [All -> BOOLEAN]
    BY <1>1, <1>3
  <2>3. pc' \in [All -> Labels]
    BY <1>1, <1>4 DEF Labels
  <2> QED
    BY <1>3, <1>4, <2>1, <2>2, <2>3
<1>7. HandleInv' /\ BootInv'
  BY <1>1, <1>4 DEF HandleInv, BootInv
<1>8. WriteInv'
  BY <1>1, <1>3, <1>4 DEF WriteInv
<1>9. CopyInv'
  BY <1>1, <1>3, <1>5 DEF CopyInv
<1>10. StoreInRange' /\ NothingOverlooked'
  BY <1>4 DEF StoreInRange, NothingOverlooked
<1> QED
  BY <1>6, <1>7, <1>8, <1>9, <1>10

\* The answer is given.
LEMMA AnswerStep ==
  ASSUME IInv, NEW t \in Tasks, Answer(t)
  PROVE  IInv'
<1> USE DEF IInv, TypeOK, Step, flash
<1>1. t \in All /\ t # Main /\ Tasks \subseteq All /\ Main \in All
  BY TaskAssumption DEF All
<1>2. /\ pc[t] = "answer" /\ pc' = [pc EXCEPT ![t] = "idle"]
      /\ good' = [good EXCEPT ![t] = FALSE]
      /\ UNCHANGED <<runtime, schema, nvs, missed, holder, copy, next, reset>>
  BY DEF Answer
<1>3. good' \in [All -> BOOLEAN]
  BY <1>2
<1>4. TypeOK'
  BY <1>1, <1>2, <1>3 DEF Labels
<1>5. HandleInv' /\ BootInv' /\ WriteInv'
  BY <1>1, <1>2 DEF HandleInv, BootInv, WriteInv
<1>6. CopyInv' /\ StoreInRange' /\ NothingOverlooked'
  BY <1>2 DEF CopyInv, StoreInRange, NothingOverlooked
<1> QED
  BY <1>4, <1>5, <1>6

\* A reset opens the store to clear it, or finds it in use.
LEMMA ResetOpenStep ==
  ASSUME IInv, NEW t \in Tasks, ResetOpen(t)
  PROVE  IInv'
<1> USE DEF IInv, TypeOK, Step, work
<1>1. t \in All /\ t # Main /\ Tasks \subseteq All /\ Main \in All /\ t # None
  BY TaskAssumption, NoneAssumption DEF All
<1>2. UNCHANGED <<runtime, schema, nvs, missed, copy, next, reset, good>>
  BY DEF ResetOpen
<1>3. PICK l \in {"clear", "default"} :
        /\ pc[t] = "idle" /\ pc' = [pc EXCEPT ![t] = l]
        /\ l = "clear" => holder = None /\ holder' = t
        /\ l = "default" => holder' = holder
  BY DEF ResetOpen
<1>4. TypeOK'
  BY <1>1, <1>2, <1>3 DEF Labels
<1>5. HandleInv'
  <2>1. CASE l = "clear"
    <3>1. \A u \in All : pc[u] \notin {"clear", "write", "end"}
      BY <2>1, <1>3, NoneAssumption DEF HandleInv
    <3> QED
      BY <3>1, <2>1, <1>1, <1>3 DEF HandleInv
  <2>2. CASE l = "default"
    BY <2>2, <1>1, <1>3 DEF HandleInv
  <2> QED
    BY <2>1, <2>2
<1>6. BootInv' /\ WriteInv'
  BY <1>1, <1>2, <1>3 DEF BootInv, WriteInv
<1>7. CopyInv' /\ StoreInRange' /\ NothingOverlooked'
  BY <1>2 DEF CopyInv, StoreInRange, NothingOverlooked
<1> QED
  BY <1>4, <1>5, <1>6, <1>7

\* The store is cleared; nobody is writing, so no save loses what it wrote.
LEMMA ResetClearStep ==
  ASSUME IInv, NEW t \in Tasks, ResetClear(t)
  PROVE  IInv'
<1> USE DEF IInv, TypeOK, Step, work
<1>1. t \in All /\ t # Main /\ Tasks \subseteq All /\ Main \in All
  BY TaskAssumption DEF All
<1>2. /\ pc[t] = "clear" /\ pc' = [pc EXCEPT ![t] = "default"]
      /\ \/ nvs' = Empty /\ schema' = FALSE /\ missed' = {}
         \/ UNCHANGED <<nvs, schema, missed>>
      /\ holder' = None
      /\ UNCHANGED <<runtime, copy, next, reset, good>>
  BY DEF ResetClear
<1>3. \A u \in All : u # t => pc[u] \notin {"clear", "write", "end"}
  BY <1>1, <1>2 DEF HandleInv
<1>4. TypeOK'
  <2>1. nvs' \in [Keys -> Values \cup {None}]
    BY <1>2 DEF Empty
  <2> QED
    BY <1>1, <1>2, <2>1 DEF Labels
<1>5. HandleInv'
  BY <1>1, <1>2, <1>3, NoneAssumption DEF HandleInv
<1>6. BootInv'
  BY <1>1, <1>2 DEF BootInv
<1>7. WriteInv'
  BY <1>1, <1>2, <1>3 DEF WriteInv
<1>8. CopyInv' /\ NothingOverlooked'
  BY <1>2 DEF CopyInv, NothingOverlooked, Empty
<1>9. StoreInRange'
  BY <1>2, KeyAssumption, ValueAssumption, NoneAssumption DEF StoreInRange, Empty
<1> QED
  BY <1>4, <1>5, <1>6, <1>7, <1>8, <1>9
-----------------------------------------------------------------------------
(* The theorems *)

\* Every step keeps the invariant.
LEMMA NextInv == IInv /\ [Next]_vars => IInv'
<1> SUFFICES ASSUME IInv, [Next]_vars PROVE IInv'
  OBVIOUS
<1>1. CASE Boot
  BY <1>1, BootStep
<1>2. CASE PowerLoss
  BY <1>2, RebootInv DEF PowerLoss
<1>3. CASE \E t \in All : Saving(t)
  BY <1>3, SaveOpenStep, SaveWriteStep, SaveEndStep DEF Saving
<1>4. ASSUME NEW t \in Tasks,
             \/ AtSet(t) \/ WebSet(t) \/ Save(t) \/ Answer(t) \/ Reset(t)
             \/ Restart(t) \/ RebootRequest(t)
      PROVE  IInv'
  <2>1. CASE AtSet(t) \/ WebSet(t)
    BY <2>1, SetStep
  <2>2. CASE Save(t) \/ ResetDefault(t)
    BY <2>2, PrepareStep
  <2>3. CASE Answer(t)
    BY <2>3, AnswerStep
  <2>4. CASE ResetOpen(t)
    BY <2>4, ResetOpenStep
  <2>5. CASE ResetClear(t)
    BY <2>5, ResetClearStep
  <2>6. CASE Restart(t) \/ RebootRequest(t)
    BY <2>6, RebootInv DEF Restart, RebootRequest
  <2> QED
    BY <1>4, <2>1, <2>2, <2>3, <2>4, <2>5, <2>6 DEF Reset
<1>5. CASE UNCHANGED vars
  BY <1>5 DEF IInv, TypeOK, HandleInv, BootInv, WriteInv, CopyInv, StoreInRange,
              NothingOverlooked, vars, flash, work
<1> QED
  BY <1>1, <1>2, <1>3, <1>4, <1>5 DEF Next

\* The invariant holds throughout, for any configuration and any set of tasks.
THEOREM StoreInvariant == Spec => []IInv
<1> QED
  BY InitInv, NextInv, PTL DEF Spec

\* Every variable keeps its type: g_runtime and the copies are always whole
\* configurations, the save never writes past the last setting.
THEOREM TypeCorrect == Spec => []TypeOK
<1>1. IInv => TypeOK
  BY DEF IInv
<1> QED
  BY <1>1, StoreInvariant, PTL

\* When app_config_save returns TRUE the store holds every setting of its copy
\* but those whose own put failed, although tasks save, reset and restart
\* without a lock.
THEOREM SavesAreWhole == Spec => []SavedWhole
<1>1. IInv => SavedWhole
  BY DEF IInv, WriteInv, SavedWhole
<1> QED
  BY <1>1, StoreInvariant, PTL

\* clamp_packet_params keeps values outside the limits from the store.
THEOREM StoreStaysInRange == Spec => []StoreInRange
<1>1. IInv => StoreInRange
  BY DEF IInv
<1> QED
  BY <1>1, StoreInvariant, PTL

\* No boot overlooks settings that are in the store, wherever power was lost,
\* unless the put of the schema version failed.
THEOREM NothingIsOverlooked == Spec => []NothingOverlooked
<1>1. IInv => NothingOverlooked
  BY DEF IInv
<1> QED
  BY <1>1, StoreInvariant, PTL
-----------------------------------------------------------------------------
(* The factory reset *)

\* Until its writing ends, the save of a factory reset is one of the defaults.
ResetInv ==
  \A t \in Tasks :
    reset[t] /\ pc[t] \in {"begin", "write"} => copy[t] = Defaults

\* The defaults are within the limits.
LEMMA ClampDefaults == Clamp(Defaults) = Defaults
BY ValueAssumption DEF Clamp, Repair, Defaults

LEMMA ResetKept == IInv /\ ResetInv /\ [Next]_vars => ResetInv'
<1> SUFFICES ASSUME IInv, ResetInv, [Next]_vars PROVE ResetInv'
  OBVIOUS
<1> USE TaskAssumption DEF IInv, TypeOK, ResetInv, All
<1>1. CASE Boot
  BY <1>1 DEF Boot, Prepare, work
<1>2. CASE PowerLoss \/ \E t \in Tasks : Restart(t) \/ RebootRequest(t)
  BY <1>2 DEF PowerLoss, Restart, RebootRequest, Reboot, Fresh
<1>3. ASSUME NEW t \in All, Saving(t) PROVE ResetInv'
  <2>1. CASE SaveBegin(t)
    BY <2>1 DEF SaveBegin, Step, work
  <2>2. CASE SaveFails(t)
    BY <2>2 DEF SaveFails, Step, After
  <2>3. CASE SaveWrite(t)
    BY <2>3 DEF SaveWrite, Step
  <2>4. CASE SaveEnd(t)
    BY <2>4 DEF SaveEnd, After
  <2> QED
    BY <1>3, <2>1, <2>2, <2>3, <2>4 DEF Saving
<1>4. ASSUME NEW t \in Tasks,
             AtSet(t) \/ WebSet(t) \/ Save(t) \/ Answer(t) \/ Reset(t)
      PROVE  ResetInv'
  <2>1. CASE AtSet(t) \/ WebSet(t)
    BY <2>1 DEF AtSet, WebSet, work
  <2>2. CASE Save(t)
    BY <2>2 DEF Save, Prepare, Step
  <2>3. CASE Answer(t)
    BY <2>3 DEF Answer, Step
  <2>4. CASE ResetOpen(t) \/ ResetClear(t)
    BY <2>4 DEF ResetOpen, ResetClear, Step, work
  <2>5. CASE ResetDefault(t)
    BY <2>5, ClampDefaults DEF ResetDefault, Prepare, Step
  <2> QED
    BY <1>4, <2>1, <2>2, <2>3, <2>4, <2>5 DEF Reset
<1>5. CASE UNCHANGED vars
  BY <1>5 DEF vars, work
<1> QED
  BY <1>1, <1>2, <1>3, <1>4, <1>5 DEF Next

\* A boot makes the defaults of a store that holds nothing else.
LEMMA ClearedLoads == Cleared => Loaded = Defaults
<1> SUFFICES ASSUME Cleared PROVE Loaded = Defaults
  OBVIOUS
<1>1. \A k \in Keys : (IF nvs[k] = None THEN Factory ELSE nvs[k]) = Factory
  BY DEF Cleared
<1>2. [k \in Keys |-> IF nvs[k] = None THEN Factory ELSE nvs[k]] = Defaults
  BY <1>1 DEF Defaults
<1>3. Repair(Defaults, Ranged \cup Mapped) = Defaults
  BY ValueAssumption DEF Repair, Defaults
<1> QED
  BY <1>2, <1>3 DEF Loaded

\* A factory reset that has cleared the store cannot be undone by a loss of
\* power, a restart, a put that fails or a step of a task that does not write.
THEOREM ResetsStick == Spec => ResetSticks
<1> DEFINE Sticks ==
      \A t \in Tasks :
        /\ Resetting(t) /\ Cleared
        /\ \A u \in Tasks \ {t} : pc[u] # "write"
        => Cleared' /\ Loaded' = Defaults
<1>1. IInv /\ ResetInv /\ [Next]_vars => [Sticks]_vars
  <2> SUFFICES ASSUME IInv, ResetInv, [Next]_vars,
                      NEW t \in Tasks, Resetting(t), Cleared,
                      \A u \in Tasks \ {t} : pc[u] # "write"
               PROVE  Cleared' /\ Loaded' = Defaults
    OBVIOUS
  <2>1. pc[Main] = "off"
    BY DEF IInv, BootInv, Resetting
  <2>2. nvs' = nvs => Cleared'
    BY DEF Cleared
  <2>3. ASSUME NEW u \in All, SaveWrite(u)
        PROVE  Cleared'
    <3>1. SaveWrite(u)
      BY <2>3
    <3>2. u = t
      BY <2>1, <3>1 DEF SaveWrite, Step, All
    <3>3. pc[t] = "write" /\ copy[t] = Defaults
      BY <3>1, <3>2 DEF SaveWrite, Step, Resetting, ResetInv
    <3>4. next[t] \in Keys /\ t \in All /\ nvs \in [Keys -> Values \cup {None}]
      BY <3>2, <3>3 DEF IInv, TypeOK, WriteInv, Keys
    <3>5. nvs' \in {nvs, [nvs EXCEPT ![next[t]] = Factory]}
      BY <3>1, <3>2, <3>3, <3>4 DEF SaveWrite, Defaults
    <3> QED
      BY <3>4, <3>5 DEF Cleared
  <2>4. ASSUME NEW u \in Tasks, ResetClear(u)
        PROVE  Cleared'
    BY <2>4 DEF ResetClear, Cleared, Empty
  <2>5. Cleared'
    BY <2>2, <2>3, <2>4
    DEF Next, Boot, PowerLoss, Reboot, Saving, SaveBegin, SaveFails, SaveEnd,
        AtSet, WebSet, Save, Answer, Reset, ResetOpen, ResetDefault, Restart,
        RebootRequest, flash, vars
  <2>6. Cleared' => (Loaded = Defaults)'
    BY ClearedLoads, PTL
  <2> QED
    BY <2>5, <2>6 DEF Defaults
<1>2. Init => ResetInv
  BY DEF Init, ResetInv, Fresh, All
<1>3. Spec => [][Sticks]_vars
  BY <1>1, <1>2, InitInv, NextInv, ResetKept, PTL DEF Spec
<1> QED
  BY <1>3 DEF ResetSticks
=============================================================================
