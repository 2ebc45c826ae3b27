----------------------------- MODULE TimersProofs -----------------------------
(***************************************************************************)
(* Theorems about Timers, for every width of the clock, interval, length of *)
(* a round and set of timers.                                              *)
(*                                                                         *)
(* What a task computes is the distance Diff(ms, ref) modulo the range of  *)
(* the clock.  It never exceeds the true age, unless 0 stands for `never'  *)
(* (DistanceInv): so nothing fires early.  While something waits, rounds   *)
(* that did not fire bound the distance by the interval (WaitInv): so it   *)
(* is too short to overflow, equals the age, and nothing fires late.  The  *)
(* reconnect compares with a sign: its distance may count as negative, for *)
(* half the range of the clock and no longer (WaitingLong).                *)
(***************************************************************************)
EXTENDS Timers, TLAPS

Repeated == {"announce", "retry", "reconnect"}

DistanceInv ==
  kind = "button" \/ (kind # "discover" /\ ref # 0) => Diff(ms, ref) <= age

SessionInv ==
  kind = "session" /\ on /\ ref # 0 =>
    /\ Diff(ms, ref) = age /\ wait = age
    /\ age < Interval + slack

DiscoverInv ==
  kind = "discover" /\ on =>
    /\ wait = age
    /\ age < Interval + slack
    /\ \/ age < Interval /\ ref = Plus(ms, Interval - age)
       \/ age >= Interval /\ Diff(ms, ref) = age - Interval

\* Nothing was looked at since the wait began, or the last look was in vain.
Waiting ==
  \/ wait <= slack
  \/ Diff(ms, ref) < Interval + slack /\ wait <= Diff(ms, ref) + Poll

\* With the cast of the TCP client a look is in vain also while the distance is
\* one of the upper half of the clock, which it leaves after Half ticks.
WaitingLong ==
  \/ wait <= slack
  \/ Diff(ms, ref) >= Half /\ wait <= Diff(ms, ref) - Half + Poll
  \/ Diff(ms, ref) < Interval + slack /\ wait <= Diff(ms, ref) + Half + Poll

RepeatInv ==
  /\ kind = "reconnect" /\ ~old => ref <= ms /\ ms < Half
  /\ kind = "reconnect" /\ on => WaitingLong
  /\ kind \in Repeated /\ on /\ (kind = "reconnect" => ~old) => Waiting

ButtonInv ==
  kind = "button" /\ last # stable =>
    Diff(ms, ref) = age /\ age < Interval + slack

TimerInv ==
  DistanceInv /\ SessionInv /\ DiscoverInv /\ RepeatInv /\ ButtonInv
-----------------------------------------------------------------------------
(* The arithmetic of the clock *)

LEMMA PeriodType ==
  /\ Half \in Nat /\ Interval \in Nat \ {0} /\ Poll \in Nat \ {0}
  /\ AgeMax \in Nat /\ Period \in Nat
  /\ Interval + 2 * Poll < Half /\ Half < Period
  BY ClockAssumption DEF Period

\* A difference is a time of the clock.
LEMMA DiffType ==
  ASSUME NEW a \in 0..(Period - 1), NEW b \in 0..(Period - 1)
  PROVE  Diff(a, b) \in 0..(Period - 1)
  BY PeriodType DEF Diff

LEMMA PlusType ==
  ASSUME NEW a \in 0..(Period - 1), NEW d \in 0..Half
  PROVE  Plus(a, d) \in 0..(Period - 1)
  BY PeriodType DEF Plus

\* A tick lengthens a distance by 1, or makes it 0 once it has run full.
LEMMA TickDiff ==
  ASSUME NEW a \in 0..(Period - 1), NEW b \in 0..(Period - 1)
  PROVE  Diff(Plus(a, 1), b) =
           IF Diff(a, b) = Period - 1 THEN 0 ELSE Diff(a, b) + 1
  BY PeriodType DEF Diff, Plus

LEMMA NoDistance ==
  ASSUME NEW a \in 0..(Period - 1)
  PROVE  Diff(a, a) = 0
  BY PeriodType DEF Diff

\* The cast keeps a distance below Half, and makes every other one negative.
LEMMA SignedSmall ==
  ASSUME NEW d \in 0..(Period - 1)
  PROVE  /\ d < Half => Signed(d) = d
         /\ Signed(d) \in Int /\ Signed(d) <= d
         /\ Signed(d) >= Interval => d >= Interval
         /\ Signed(d) >= 0 => d < Half
  BY PeriodType, ClockAssumption DEF Signed, Period
-----------------------------------------------------------------------------
(* Types: the numbers and the flags apart *)

Numbers ==
  /\ ms \in 0..(Period - 1) /\ ref \in 0..(Period - 1)
  /\ age \in 0..AgeMax /\ wait \in Nat /\ slack \in 0..Poll

Flags ==
  /\ old \in BOOLEAN /\ on \in BOOLEAN /\ fired \in BOOLEAN
  /\ raw \in BOOLEAN /\ last \in BOOLEAN /\ stable \in BOOLEAN

LEMMA TypeParts == TypeOK <=> kind \in Kinds /\ Numbers /\ Flags
  BY DEF TypeOK, Numbers, Flags

LEMMA NumbersKept == Numbers /\ [Next]_vars => Numbers'
<1> SUFFICES ASSUME Numbers, [Next]_vars PROVE Numbers'
  OBVIOUS
<1> USE PeriodType DEF Numbers, Fire, Pass, Event
<1>1. CASE Tick
  <2>1. ms' \in 0..(Period - 1) BY <1>1, PlusType DEF Tick
  <2>2. wait' \in Nat BY <1>1 DEF Tick
  <2>3. QED BY <1>1, <2>1, <2>2 DEF Tick
<1>2. CASE SessionLine BY <1>2 DEF SessionLine
<1>3. CASE SessionRound BY <1>3 DEF SessionRound
<1>4. CASE DiscoverRequest
  <2>1. ref' \in 0..(Period - 1) BY <1>4, PlusType DEF DiscoverRequest
  <2>2. QED BY <1>4, <2>1 DEF DiscoverRequest
<1>5. CASE DiscoverRound BY <1>5 DEF DiscoverRound
<1>6. CASE LinkUp BY <1>6 DEF LinkUp
<1>7. CASE LinkLost BY <1>7 DEF LinkLost
<1>8. CASE RepeatRound BY <1>8 DEF RepeatRound
<1>9. CASE Receive BY <1>9 DEF Receive
<1>10. CASE QuietRound BY <1>10 DEF QuietRound
<1>11. CASE Press BY <1>11 DEF Press
<1>12. CASE ButtonRound BY <1>12 DEF ButtonRound, ButtonRef
<1>13. CASE UNCHANGED vars BY <1>13 DEF vars
<1>14. QED
    BY <1>1, <1>2, <1>3, <1>4, <1>5, <1>6, <1>7, <1>8, <1>9, <1>10, <1>11,
     <1>12, <1>13 DEF Next

LEMMA FlagsKept == Flags /\ [Next]_vars => Flags'
<1> SUFFICES ASSUME Flags, [Next]_vars PROVE Flags'
  OBVIOUS
<1> USE DEF Flags, Fire, Pass, Event, button
<1>1. CASE Tick BY <1>1 DEF Tick
<1>2. CASE SessionLine BY <1>2 DEF SessionLine
<1>3. CASE SessionRound BY <1>3 DEF SessionRound
<1>4. CASE DiscoverRequest BY <1>4 DEF DiscoverRequest
<1>5. CASE DiscoverRound BY <1>5 DEF DiscoverRound
<1>6. CASE LinkUp BY <1>6 DEF LinkUp
<1>7. CASE LinkLost BY <1>7 DEF LinkLost
<1>8. CASE RepeatRound BY <1>8 DEF RepeatRound
<1>9. CASE Receive BY <1>9 DEF Receive, Quiet
<1>10. CASE QuietRound BY <1>10 DEF QuietRound
<1>11. CASE Press BY <1>11 DEF Press
<1>12. CASE ButtonRound BY <1>12 DEF ButtonRound
<1>13. CASE UNCHANGED vars BY <1>13 DEF vars
<1>14. QED
    BY <1>1, <1>2, <1>3, <1>4, <1>5, <1>6, <1>7, <1>8, <1>9, <1>10, <1>11,
     <1>12, <1>13 DEF Next

\* The timers keep to their types, for every width of the clock.
THEOREM TypeCorrect == Spec => []TypeOK
<1>1. Init => kind \in Kinds /\ Flags
  <2> SUFFICES ASSUME Init PROVE kind \in Kinds /\ Flags
    OBVIOUS
  <2>1. on \in BOOLEAN
    <3>1. on = (kind \in {"retry", "reconnect"}) BY DEF Init
    <3>2. CASE kind \in {"retry", "reconnect"} BY <3>1, <3>2
    <3>3. CASE kind \notin {"retry", "reconnect"} BY <3>1, <3>3
    <3>4. QED BY <3>2, <3>3
  <2>2. QED BY <2>1 DEF Init, Flags
<1>2. Init => Numbers BY PeriodType DEF Init, Numbers
<1>3. kind \in Kinds /\ [Next]_vars => kind' \in Kinds
  BY DEF Next, vars, Tick, SessionLine, SessionRound, DiscoverRequest,
         DiscoverRound, LinkUp, LinkLost, RepeatRound, Receive, QuietRound,
         Press, ButtonRound
<1>4. TypeOK /\ [Next]_vars => TypeOK'
  BY <1>3, NumbersKept, FlagsKept, TypeParts DEF TypeOK, Numbers, Flags
<1>5. Init => TypeOK BY <1>1, <1>2, TypeParts
<1>6. QED BY <1>4, <1>5, PTL DEF Spec
-----------------------------------------------------------------------------
(* The invariant: each step is a tick or one of the timer looked at *)

LEMMA Steps ==
  ASSUME [Next]_vars
  PROVE  /\ kind' = kind
         /\ \/ Tick \/ UNCHANGED vars
            \/ kind = "session" /\ (SessionLine \/ SessionRound)
            \/ kind = "discover" /\ (DiscoverRequest \/ DiscoverRound)
            \/ kind \in Repeated /\ (LinkUp \/ LinkLost \/ RepeatRound)
            \/ kind = "quiet" /\ (Receive \/ QuietRound)
            \/ kind = "button" /\ (Press \/ ButtonRound)
<1> USE DEF Repeated
<1>1. CASE Tick BY <1>1 DEF Tick
<1>2. CASE SessionLine BY <1>2 DEF SessionLine
<1>3. CASE SessionRound BY <1>3 DEF SessionRound
<1>4. CASE DiscoverRequest BY <1>4 DEF DiscoverRequest
<1>5. CASE DiscoverRound BY <1>5 DEF DiscoverRound
<1>6. CASE LinkUp BY <1>6 DEF LinkUp
<1>7. CASE LinkLost BY <1>7 DEF LinkLost
<1>8. CASE RepeatRound BY <1>8 DEF RepeatRound
<1>9. CASE Receive BY <1>9 DEF Receive
<1>10. CASE QuietRound BY <1>10 DEF QuietRound
<1>11. CASE Press BY <1>11 DEF Press
<1>12. CASE ButtonRound BY <1>12 DEF ButtonRound
<1>13. CASE UNCHANGED vars BY <1>13 DEF vars
<1>14. QED
    BY <1>1, <1>2, <1>3, <1>4, <1>5, <1>6, <1>7, <1>8, <1>9, <1>10, <1>11,
     <1>12, <1>13 DEF Next

LEMMA DistanceType == ASSUME Numbers PROVE Diff(ms, ref) \in 0..(Period - 1)
  BY DiffType DEF Numbers

\* What a tick does.
LEMMA DistanceTicks ==
  ASSUME Numbers, Tick
  PROVE  /\ kind' = kind /\ (on' <=> on) /\ ref' = ref
         /\ last' = last /\ stable' = stable
         /\ age' = age + 1 /\ slack' = slack + 1 /\ (on => wait' = wait + 1)
         /\ Diff(ms', ref') \in 0..(Period - 1)
         /\ Diff(ms', ref') <= Diff(ms, ref) + 1
         /\ Diff(ms, ref) < Half => Diff(ms', ref') = Diff(ms, ref) + 1
<1>1. ms' = Plus(ms, 1) BY DEF Tick
<1>2. /\ kind' = kind /\ (on' <=> on) /\ ref' = ref
      /\ last' = last /\ stable' = stable
      /\ age' = age + 1 /\ slack' = slack + 1 /\ (on => wait' = wait + 1)
  BY DEF Tick, button
<1>3. Diff(Plus(ms, 1), ref) =
        IF Diff(ms, ref) = Period - 1 THEN 0 ELSE Diff(ms, ref) + 1
  BY TickDiff DEF Numbers
<1>4. Diff(ms', ref') = Diff(Plus(ms, 1), ref) BY <1>1, <1>2
<1>5. Diff(ms', ref') =
        IF Diff(ms, ref) = Period - 1 THEN 0 ELSE Diff(ms, ref) + 1
  BY <1>3, <1>4
<1>6. QED BY <1>2, <1>5, DistanceType, PeriodType

\* A distance grows by 1 with each tick, as the age does, or overflows.
LEMMA DistanceKept ==
  ASSUME Numbers, Numbers', DistanceInv, [Next]_vars
  PROVE  DistanceInv'
<1> USE PeriodType, Steps DEF Numbers, DistanceInv, Repeated
<1>1. CASE Tick BY <1>1, DistanceTicks, DistanceType
<1>2. CASE SessionLine BY <1>2, NoDistance DEF SessionLine
<1>3. CASE SessionRound BY <1>3 DEF SessionRound, Fire, Pass
<1>4. CASE kind = "discover" BY <1>4
<1>5. CASE LinkUp BY <1>5 DEF LinkUp
<1>6. CASE LinkLost BY <1>6 DEF LinkLost
<1>7. CASE RepeatRound BY <1>7, NoDistance DEF RepeatRound, Fire, Pass
<1>8. CASE Receive BY <1>8, NoDistance DEF Receive
<1>9. CASE QuietRound BY <1>9 DEF QuietRound, Pass
<1>10. CASE Press BY <1>10 DEF Press
<1>11. CASE ButtonRound BY <1>11, NoDistance DEF ButtonRound, ButtonRef
<1>12. CASE UNCHANGED vars BY <1>12 DEF vars
<1>13. QED
  BY <1>1, <1>2, <1>3, <1>4, <1>5, <1>6, <1>7, <1>8, <1>9, <1>10, <1>11, <1>12

LEMMA SessionKept ==
  ASSUME Numbers, Numbers', SessionInv, [Next]_vars
  PROVE  SessionInv'
<1> USE PeriodType, Steps DEF Numbers, SessionInv, Repeated
<1>1. CASE Tick BY <1>1, DistanceTicks, DistanceType
<1>2. CASE SessionLine BY <1>2, NoDistance DEF SessionLine, Event
<1>3. CASE SessionRound
  <2>1. CASE SessionDue BY <1>3, <2>1 DEF SessionRound
  <2>2. CASE ~SessionDue
    <3>1. Diff(ms, ref) < Half => Signed(Diff(ms, ref)) = Diff(ms, ref)
      BY SignedSmall, DistanceType
    <3>2. /\ kind' = kind /\ (on' <=> on) /\ ref' = ref /\ ms' = ms
          /\ age' = age /\ wait' = wait /\ slack' = 0
      BY <1>3, <2>2 DEF SessionRound, Pass
    <3>3. on /\ ref # 0 => ~(Signed(Diff(ms, ref)) >= Interval)
      BY <2>2 DEF SessionDue
    <3>4. QED BY <3>1, <3>2, <3>3
  <2>3. QED BY <2>1, <2>2
<1>4. CASE UNCHANGED vars BY <1>4 DEF vars
<1>5. CASE kind # "session" BY <1>5
<1>6. QED BY <1>1, <1>2, <1>3, <1>4, <1>5

LEMMA DiscoverKept ==
  ASSUME Numbers, Numbers', DiscoverInv, [Next]_vars
  PROVE  DiscoverInv'
<1> USE PeriodType, Steps DEF Numbers, DiscoverInv, Repeated
<1>1. CASE Tick
  <2>1. CASE age < Interval
    <3>1. ms' = Plus(ms, 1) BY <1>1 DEF Tick
    <3>2. QED BY <2>1, <3>1, <1>1, DistanceTicks DEF Plus, Diff
  <2>2. CASE ~(age < Interval) BY <1>1, <2>2, DistanceTicks, DistanceType
  <2>3. QED BY <2>1, <2>2
<1>2. CASE DiscoverRequest
  <2>1. age' = 0 /\ wait' = 0 /\ slack' = slack /\ ms' = ms
        /\ ref' = Plus(ms, Interval)
    BY <1>2 DEF DiscoverRequest, Event
  <2>2. QED BY <2>1
<1>3. CASE DiscoverRound
  <2>1. CASE DiscoverDue BY <1>3, <2>1 DEF DiscoverRound
  <2>2. CASE ~DiscoverDue
    <3>1. on /\ kind = "discover" => age < Interval
      BY <2>2, SignedSmall, DistanceType DEF DiscoverDue
    <3>2. /\ kind' = kind /\ (on' <=> on) /\ ref' = ref /\ ms' = ms
          /\ age' = age /\ wait' = wait /\ slack' = 0
      BY <1>3, <2>2 DEF DiscoverRound, Pass
    <3>3. QED BY <3>1, <3>2
  <2>3. QED BY <2>1, <2>2
<1>4. CASE UNCHANGED vars BY <1>4 DEF vars
<1>5. CASE kind # "discover" BY <1>5
<1>6. QED BY <1>1, <1>2, <1>3, <1>4, <1>5

LEMMA RepeatKept ==
  ASSUME Numbers, Numbers', RepeatInv, [Next]_vars
  PROVE  RepeatInv'
<1> USE PeriodType, Steps
    DEF Numbers, RepeatInv, Repeated, Waiting, WaitingLong
<1>1. CASE Tick
  <2>1. kind = "reconnect" /\ ~old' => ref' <= ms' /\ ms' < Half
    <3>1. ms' = Plus(ms, 1) /\ ref' = ref BY <1>1 DEF Tick
    <3>2. (old => old') /\ (ms + 1 >= Half => old') BY <1>1 DEF Tick
    <3>3. QED BY <3>1, <3>2 DEF Plus
  <2>2. ASSUME kind \in Repeated, on, kind = "reconnect" => ~old
        PROVE  Waiting'
    BY <1>1, <2>2, DistanceTicks, DistanceType
  <2>3. old => old' BY <1>1 DEF Tick
  <2>4. ASSUME kind = "reconnect", on PROVE WaitingLong'
    <3>1. /\ Diff(ms', ref') =
                IF Diff(ms, ref) = Period - 1 THEN 0 ELSE Diff(ms, ref) + 1
          /\ wait' = wait + 1 /\ slack' = slack + 1
      BY <1>1, <2>4, TickDiff DEF Tick
    <3>2. WaitingLong BY <2>4
    <3>3. slack < Poll /\ Period = Half + Half BY <1>1 DEF Tick, Period
    <3>4. QED BY <3>1, <3>2, <3>3, DistanceType DEF WaitingLong
  <2>5. QED BY <1>1, <2>1, <2>2, <2>3, <2>4 DEF Tick
<1>2. CASE LinkUp BY <1>2 DEF LinkUp
<1>3. CASE LinkLost BY <1>3 DEF LinkLost, Event
<1>4. CASE RepeatRound
  <2>1. CASE RepeatDue BY <1>4, <2>1 DEF RepeatRound, Fire
  <2>2. CASE ~RepeatDue
    <3>1. kind \in Repeated /\ on /\ (kind = "reconnect" => ~old) =>
            Diff(ms, ref) < Interval
      BY <2>2, SignedSmall, DistanceType
      DEF RepeatDue, AnnounceDue, RetryDue, ReconnectDue, Diff
    <3>2. kind = "reconnect" /\ on =>
            Diff(ms, ref) < Interval \/ Diff(ms, ref) >= Half
      BY <2>2, SignedSmall, DistanceType DEF RepeatDue, ReconnectDue
    <3>3. QED BY <1>4, <2>2, <3>1, <3>2, DistanceType DEF RepeatRound, Pass
  <2>3. QED BY <2>1, <2>2
<1>5. CASE UNCHANGED vars BY <1>5 DEF vars
<1>6. CASE kind \notin Repeated BY <1>6
<1>7. QED BY <1>1, <1>2, <1>3, <1>4, <1>5, <1>6

LEMMA ButtonKept ==
  ASSUME Numbers, Numbers', ButtonInv, [Next]_vars
  PROVE  ButtonInv'
<1> USE PeriodType, Steps DEF Numbers, ButtonInv, Repeated
<1>1. CASE Tick BY <1>1, DistanceTicks, DistanceType
<1>2. CASE Press BY <1>2 DEF Press, Event
<1>3. CASE ButtonRound
  <2>1. CASE raw # last BY <1>3, <2>1, NoDistance DEF ButtonRound, ButtonRef
  <2>2. CASE raw = last
    <3>1. Diff(ms, ref) < Half => Signed(Diff(ms, ref)) = Diff(ms, ref)
      BY SignedSmall, DistanceType
    <3>2. CASE ButtonDue
      BY <1>3, <2>2, <3>2 DEF ButtonRound, ButtonRef
    <3>3. CASE ~ButtonDue
      BY <1>3, <2>2, <3>1, <3>3 DEF ButtonRound, ButtonRef, ButtonDue
    <3>4. QED BY <3>2, <3>3
  <2>3. QED BY <2>1, <2>2
<1>4. CASE UNCHANGED vars BY <1>4 DEF vars
<1>5. CASE kind # "button" BY <1>5
<1>6. QED BY <1>1, <1>2, <1>3, <1>4, <1>5
-----------------------------------------------------------------------------
\* The invariant that the properties rest on.
THEOREM TimerInvariant == Spec => []TimerInv
<1>1. Init => TimerInv
  <2>1. Init => Diff(ms, ref) = 0 /\ wait <= slack /\ ref <= ms /\ ms < Half
    BY PeriodType DEF Init, Diff
  <2>2. Init => (kind \in {"session", "discover"} => ~on) BY DEF Init
  <2>3. Init => last = stable /\ age = 0 BY DEF Init
  <2>4. QED
    BY <2>1, <2>2, <2>3
    DEF TimerInv, DistanceInv, SessionInv, DiscoverInv, RepeatInv, Waiting,
        WaitingLong, ButtonInv
<1>2. TypeOK /\ TypeOK' /\ TimerInv /\ [Next]_vars => TimerInv'
  BY TypeParts, DistanceKept, SessionKept, DiscoverKept, RepeatKept,
     ButtonKept
  DEF TimerInv, TypeOK, Numbers
<1>3. QED BY <1>1, <1>2, TypeCorrect, PTL DEF Spec

\* No timer fires early, across any number of overflows of millis() and at any
\* uptime.
THEOREM NothingFiresEarly == Spec => NeverEarly
<1> DEFINE Early ==
      fired' => age' >= Interval \/ age >= Interval \/ AtOnce
<1>1. TypeOK /\ TimerInv /\ [Next]_vars => [Early]_vars
  <2> SUFFICES ASSUME TypeOK, TimerInv, [Next]_vars, fired'
               PROVE  age >= Interval \/ AtOnce \/ UNCHANGED vars
    BY Zenon
  <2>1. Numbers BY TypeParts
  <2>2. DistanceInv /\ DiscoverInv BY DEF TimerInv
  <2>3. Signed(Diff(ms, ref)) >= Interval => Diff(ms, ref) >= Interval
    BY <2>1, SignedSmall, DistanceType
  <2> USE PeriodType, <2>1, <2>2, <2>3, DistanceType
      DEF Numbers, DistanceInv, AtOnce
  <2>4. CASE UNCHANGED vars BY <2>4
  <2>5. CASE Tick BY <2>5 DEF Tick
  <2>6. CASE SessionLine BY <2>6 DEF SessionLine, Event
  <2>7. CASE SessionRound BY <2>7 DEF SessionRound, SessionDue, Pass
  <2>8. CASE DiscoverRequest BY <2>8 DEF DiscoverRequest, Event
  <2>9. CASE DiscoverRound
    <3>1. CASE DiscoverDue
      <4>1. on /\ kind = "discover" /\ Diff(ms, ref) < Half
        BY <2>9, <3>1, SignedSmall DEF DiscoverRound, DiscoverDue
      <4>2. ~(age < Interval) BY <4>1 DEF DiscoverInv, Plus, Diff, Period
      <4>3. QED BY <4>2
    <3>2. CASE ~DiscoverDue BY <2>9, <3>2 DEF DiscoverRound, Pass
    <3>3. QED BY <3>1, <3>2
  <2>10. CASE LinkUp BY <2>10 DEF LinkUp, Event
  <2>11. CASE LinkLost BY <2>11 DEF LinkLost, Event
  <2>12. CASE RepeatRound
    <3>1. CASE RepeatDue
      BY <2>12, <3>1
      DEF RepeatRound, RepeatDue, AnnounceDue, RetryDue, ReconnectDue
    <3>2. CASE ~RepeatDue BY <2>12, <3>2 DEF RepeatRound, Pass
    <3>3. QED BY <3>1, <3>2
  <2>13. CASE Receive
    <3>1. Quiet /\ kind = "quiet" BY <2>13 DEF Receive
    <3>2. QED BY <3>1 DEF Quiet
  <2>14. CASE QuietRound BY <2>14 DEF QuietRound, Pass
  <2>15. CASE Press BY <2>15 DEF Press, Event
  <2>16. CASE ButtonRound
    <3>1. ButtonDue BY <2>16 DEF ButtonRound
    <3>2. CASE raw # last
      <4>1. Diff(ms, ms) = 0 /\ Signed(0) = 0
        BY NoDistance DEF Signed
      <4>2. QED BY <3>1, <3>2, <4>1 DEF ButtonDue, ButtonRef
    <3>3. CASE raw = last BY <2>16, <3>1, <3>3 DEF ButtonRound, ButtonDue, ButtonRef
    <3>4. QED BY <3>2, <3>3
  <2>17. QED
    BY <2>4, <2>5, <2>6, <2>7, <2>8, <2>9, <2>10, <2>11, <2>12, <2>13, <2>14,
       <2>15, <2>16 DEF Next
<1>2. QED BY <1>1, TypeCorrect, TimerInvariant, PTL DEF Spec, NeverEarly

\* Nothing that waits is kept waiting beyond the interval and two rounds, but
\* for the two cases NeverLate names, and a held button is noticed.
THEOREM NothingFiresLate == Spec => []NeverLate
<1>1. TypeOK /\ TimerInv => NeverLate
  <2> SUFFICES ASSUME TypeOK, TimerInv PROVE NeverLate
    OBVIOUS
  <2> USE TypeParts, PeriodType, DistanceType DEF TimerInv, Numbers
  <2>1. kind = "session" /\ on /\ ref # 0 => wait <= Interval + Poll
    BY DEF SessionInv
  <2>2. kind = "discover" /\ on => wait <= Interval + Poll
    BY DEF DiscoverInv
  <2>3. kind \in Repeated /\ on /\ (kind = "reconnect" => ~old)
          => wait <= Interval + 2 * Poll
    BY DEF RepeatInv, Waiting
  <2>4. kind = "reconnect" /\ on => wait <= Half + Interval + 2 * Poll
    BY DEF RepeatInv, WaitingLong, Period
  <2>5. kind = "button" /\ last # stable => age <= Interval + Poll
    BY DEF ButtonInv
  <2>6. kind \in Repeated \cup {"session", "discover", "quiet", "button"}
    BY KindAssumption DEF TypeOK, Repeated
  <2>7. QED BY <2>1, <2>2, <2>3, <2>4, <2>5, <2>6 DEF NeverLate, Repeated
<1>2. QED BY <1>1, TypeCorrect, TimerInvariant, PTL
=============================================================================
