-------------------------------- MODULE Timers --------------------------------
(***************************************************************************)
(* The intervals of the firmware, measured with differences of a 32-bit    *)
(* millis().  Such a difference is exact while it is short; what each      *)
(* place in the code makes of a long one depends on the cast it uses and   *)
(* on the value 0, which stands for `never' or for `at once'.  One timer   *)
(* is looked at in a behaviour:                                            *)
(*                                                                         *)
(*   session    end of an AT session             at_command_poll           *)
(*   discover   delayed answer to a DISCOVER     config_handlers_poll      *)
(*   announce   periodic announcement            config_udp_periodic_...   *)
(*   retry      next attempt of the station      wifi_manager_task         *)
(*   reconnect  next attempt of the TCP client   try_tcp_client            *)
(*   quiet      silence before an escape text    config_ingress_feed       *)
(*   button     debouncing of the button         gpio_status_loop          *)
(*                                                                         *)
(* ms counts modulo 2 * Half, as unsigned long does with Half = 2^31.  age *)
(* and wait are true times.  The task of a timer comes round at least      *)
(* every Poll ticks.  All timers have the same interval here.              *)
(***************************************************************************)
EXTENDS Naturals, Integers

CONSTANTS
  Half,      \* half the range of millis(), 2^31
  Interval,  \* 30 s, 12 s, 10 s, reconnect_ms, 500 ms, 50 ms, the jitter
  Poll,      \* longest time between two rounds of the task
  AgeMax,    \* bound on the true time since the reference was taken
  Kinds      \* the timers looked at

Period == 2 * Half

ASSUME ClockAssumption ==
  /\ Half \in Nat /\ Interval \in Nat \ {0} /\ Poll \in Nat \ {0}
  /\ AgeMax \in Nat
  /\ Interval + 2 * Poll < Half
ASSUME KindAssumption ==
  Kinds \subseteq {"session", "discover", "announce", "retry", "reconnect",
                   "quiet", "button"}

VARIABLES
  kind,    \* the timer of this behaviour
  ms,      \* millis()
  old,     \* the uptime has reached Half
  ref,     \* the stored time of the timer
  on,      \* something waits for it (for quiet: something was received)
  age,     \* time since the last event: start of the session, request, round
           \* that fired, byte received, change of the button
  wait,    \* time since something began to wait, or since it fired
  slack,   \* time since the last round
  fired,   \* history: the last step let the timer fire
  raw,     \* level of the button, TRUE = released
  last,    \* g_btn_last_raw
  stable   \* g_btn_stable

vars == <<kind, ms, old, ref, on, age, wait, slack, fired, raw, last, stable>>
button == <<raw, last, stable>>

TypeOK ==
  /\ kind \in Kinds
  /\ ms \in 0..(Period - 1) /\ ref \in 0..(Period - 1)
  /\ old \in BOOLEAN /\ on \in BOOLEAN /\ fired \in BOOLEAN
  /\ age \in 0..AgeMax /\ wait \in Nat /\ slack \in 0..Poll
  /\ raw \in BOOLEAN /\ last \in BOOLEAN /\ stable \in BOOLEAN

\* now - then of two unsigned long, and the same cast to int32_t.
Diff(now, then) == IF now >= then THEN now - then ELSE now + Period - then
Signed(d) == IF d < Half THEN d ELSE d - Period
Plus(now, d) == IF now + d < Period THEN now + d ELSE now + d - Period

Init ==
  /\ kind \in Kinds
  /\ ms = 0 /\ old = FALSE /\ ref = 0
  /\ on = (kind \in {"retry", "reconnect"})
  /\ age = 0 /\ wait = 0 /\ slack = 0 /\ fired = FALSE
  /\ raw \in BOOLEAN /\ last = raw /\ stable = raw

\* A round of the task in which the timer fires, and one in which it does not.
Fire == fired' = TRUE /\ slack' = 0 /\ wait' = 0
Pass == fired' = FALSE /\ slack' = 0 /\ UNCHANGED <<ref, on, age, wait>>
Event == fired' = FALSE /\ UNCHANGED slack

Tick ==
  /\ slack < Poll /\ age < AgeMax
  /\ ms' = Plus(ms, 1) /\ old' = (old \/ ms + 1 >= Half)
  /\ age' = age + 1 /\ slack' = slack + 1
  /\ wait' = IF on THEN wait + 1 ELSE 0
  /\ fired' = FALSE
  /\ UNCHANGED <<kind, ref, on, button>>
-----------------------------------------------------------------------------
(* session: a line, or the escape text, takes the time *)

SessionLine ==
  /\ kind = "session" /\ Event
  /\ on' = TRUE /\ ref' = ms /\ age' = 0 /\ wait' = 0
  /\ UNCHANGED <<kind, ms, old, button>>

\* The cast is missing and the difference taken the wrong way round.
BugSessionDue == on /\ ref # 0 /\ Diff(ref, ms) >= Interval

SessionDue == on /\ ref # 0 /\ Signed(Diff(ms, ref)) >= Interval

SessionRound ==
  /\ kind = "session"
  /\ \/ SessionDue /\ Fire /\ on' = FALSE /\ UNCHANGED <<ref, age>>
     \/ ~SessionDue /\ Pass
  /\ UNCHANGED <<kind, ms, old, button>>

(* discover: the time it is due is stored *)

\* The time it is due does not overflow as millis() does.
BugDiscoverRequest ==
  /\ kind = "discover" /\ Event
  /\ on' = TRUE /\ ref' = ms + Interval /\ age' = 0 /\ wait' = 0
  /\ UNCHANGED <<kind, ms, old, button>>

DiscoverRequest ==
  /\ kind = "discover" /\ Event
  /\ on' = TRUE /\ ref' = Plus(ms, Interval) /\ age' = 0 /\ wait' = 0
  /\ UNCHANGED <<kind, ms, old, button>>

DiscoverDue == on /\ Signed(Diff(ms, ref)) >= 0

DiscoverRound ==
  /\ kind = "discover"
  /\ \/ DiscoverDue /\ Fire /\ on' = FALSE /\ UNCHANGED <<ref, age>>
     \/ ~DiscoverDue /\ Pass
  /\ UNCHANGED <<kind, ms, old, button>>

(* announce, retry, reconnect: repeated while a link, or a want of one, lasts *)

\* While the link is up the timer is not looked at.
LinkUp ==
  /\ kind \in {"announce", "retry", "reconnect"} /\ on /\ Event
  /\ on' = FALSE /\ wait' = 0
  /\ UNCHANGED <<kind, ms, old, ref, age, button>>

\* It is looked at again; the time of the last attempt may be set to 0 first.
LinkLost ==
  /\ kind \in {"announce", "retry", "reconnect"} /\ ~on /\ Event
  /\ on' = TRUE /\ wait' = 0
  /\ \/ UNCHANGED ref
     \/ kind # "announce" /\ ref' = 0
  /\ UNCHANGED <<kind, ms, old, age, button>>

AnnounceDue == on /\ (ref = 0 \/ Diff(ms, ref) >= Interval)

\* The same cast as in try_tcp_client.
BugRetryDue == on /\ Signed(Diff(ms, ref)) >= Interval

RetryDue == on /\ Diff(ms, ref) >= Interval

ReconnectDue == on /\ Signed(Diff(ms, ref)) >= Interval

RepeatDue ==
  CASE kind = "announce"  -> AnnounceDue
    [] kind = "retry"     -> RetryDue
    [] kind = "reconnect" -> ReconnectDue
    [] OTHER              -> FALSE

RepeatRound ==
  /\ kind \in {"announce", "retry", "reconnect"}
  /\ \/ RepeatDue /\ Fire /\ ref' = ms /\ age' = 0 /\ UNCHANGED on
     \/ ~RepeatDue /\ Pass
  /\ UNCHANGED <<kind, ms, old, button>>
-----------------------------------------------------------------------------
(* quiet: it is the bytes that look at the timer, the task comes round anyway *)

Quiet == ref = 0 \/ Signed(Diff(ms, ref)) >= Interval

Receive ==
  /\ kind = "quiet"
  /\ fired' = Quiet
  /\ on' = TRUE /\ ref' = ms /\ age' = 0 /\ wait' = 0
  /\ UNCHANGED <<kind, ms, old, slack, button>>

QuietRound == kind = "quiet" /\ Pass /\ UNCHANGED <<kind, ms, old, button>>

(* button: on = a factory reset is requested *)

Press ==
  /\ kind = "button" /\ raw' = ~raw /\ Event
  /\ UNCHANGED <<kind, ms, old, ref, on, age, wait, last, stable>>

\* The time of the change this round sees, and how long ago that is.
ButtonRef == IF raw # last THEN ms ELSE ref

ButtonDue == Signed(Diff(ms, ButtonRef)) >= Interval /\ raw # stable

ButtonRound ==
  /\ kind = "button"
  /\ slack' = 0 /\ wait' = 0
  /\ last' = raw /\ ref' = ButtonRef
  /\ age' = IF raw # last THEN 0 ELSE age
  /\ fired' = (ButtonDue /\ stable /\ ~on) /\ on' = (on \/ fired')
  /\ stable' = IF ButtonDue THEN raw ELSE stable
  /\ UNCHANGED <<kind, ms, old, raw>>

Next ==
  \/ Tick \/ SessionLine \/ SessionRound \/ DiscoverRequest \/ DiscoverRound
  \/ LinkUp \/ LinkLost \/ RepeatRound \/ Receive \/ QuietRound
  \/ Press \/ ButtonRound

Spec == Init /\ [][Next]_vars
-----------------------------------------------------------------------------
(* Properties *)

\* A timer never fires before its interval is over, at any uptime and across
\* the overflow of millis(), unless it is to fire at once: no session ends and
\* no DISCOVER is answered early, nothing is repeated too often, no escape text
\* is looked for without a silence, and no bouncing contact resets the module.
AtOnce == ref = 0 /\ kind \in {"announce", "retry", "reconnect", "quiet"}
NeverEarly == [][fired' => age' >= Interval \/ age >= Interval \/ AtOnce]_vars

\* What waits is kept waiting for no longer than the interval and two rounds
\* (two, since millis() may overflow between the reset of a time to 0 and the
\* round that would fire at once), at any uptime; but for the TCP client after
\* an uptime of Half, which is kept waiting for Half more and no longer, and a
\* session whose time was taken at 0.  A change of the button that lasts is
\* noticed within a round.
NeverLate ==
  /\ on /\ wait > Interval + 2 * Poll =>
       \/ kind = "reconnect" /\ old /\ wait <= Half + Interval + 2 * Poll
       \/ kind = "session" /\ ref = 0
       \/ kind \in {"quiet", "button"}
  /\ kind = "button" /\ last # stable => age <= Interval + Poll

(* What does not hold *)

\* A lost link is tried again within the interval at any uptime.
ReconnectsInTime ==
  kind = "reconnect" /\ on => wait <= Interval + 2 * Poll

\* A session ends at any uptime.
SessionEndsInTime ==
  kind = "session" /\ on => wait <= Interval + 2 * Poll

\* A silence of any length is noticed.
QuietNoticed ==
  [][kind = "quiet" /\ on /\ on' /\ age' = 0 /\ age >= Interval => fired']_vars
=============================================================================
