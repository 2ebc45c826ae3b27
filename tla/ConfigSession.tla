---------------------------- MODULE ConfigSession ----------------------------
(***************************************************************************)
(* The AT session (at_command.cpp) and the delayed answer to a DISCOVER    *)
(* frame from the bus (config_handlers.cpp).  Two tasks work on both:      *)
(*                                                                         *)
(*   uart  rs485_rx_task     feeds what comes from the bus                 *)
(*   udp   config_udp_task   feeds what comes to UDP port 8880             *)
(*                                                                         *)
(* and both call config_ingress_poll in every round, which sends a delayed *)
(* answer that is due and ends a session that is too old.  The pending     *)
(* answer has a mutex, the session and its buffers have none.              *)
(*                                                                         *)
(* A task is known by the transport it serves.  Of a text only its parts   *)
(* count: some bytes of a line, its end, the first and the last part of    *)
(* +++CFG:<UID>\r, a DISCOVER frame.  The 30 s of a session are the flag   *)
(* `stale', the jitter of a request is its membership in `ripe'.           *)
(***************************************************************************)
EXTENDS Naturals, Sequences

CONSTANTS
  Reqs,     \* names of DISCOVER requests, recycled
  LineMax,  \* sizeof(g_line)
  None      \* no holder, no request, no escape text begun

Tasks == {"uart", "udp"}

ASSUME LineAssumption == LineMax \in Nat \ {0}
ASSUME NoneAssumption == None \notin Reqs \cup Tasks

VARIABLES
  sources,  \* the transports that bring bytes in this behaviour
  mode,     \* g_mode
  stale,    \* kSessionTimeoutMs have passed since g_session_last_ms
  dest,     \* g_session_transport
  lastRx,   \* g_last_rx_transport
  line,     \* g_line, as the transports its bytes came from
  esc,      \* g_esc: the transport that sent the first part, or None
  pending,  \* g_pending: active, due_ms (the request it was set for), req
  mu,       \* holder of g_pending_mu
  copy,     \* p of config_handlers_poll: the request a task is answering
  ripe,     \* requests whose jitter is over
  udpOk,    \* g_udp_ok: the socket of port 8880 is open
  input,    \* what each task is feeding
  pc        \* where each task stands

vars == <<sources, mode, stale, dest, lastRx, line, esc, pending, mu, copy,
          ripe, udpOk, input, pc>>
session == <<mode, stale, dest, lastRx, line, esc>>
discover == <<pending, mu, copy, ripe>>

Inputs == {"text", "eol", "head", "tail", "discover"}
Labels == {"top", "poll_cs", "respond", "session", "expire", "rx", "feed",
           "put", "handle", "answer", "bye", "reset", "open", "enter",
           "ready", "sched", "sched_cs", "sched_req", "wait",
           "wait_poll", "wait_cs", "wait_respond"}

TypeOK ==
  /\ sources \in SUBSET Tasks
  /\ mode \in {"data", "at"} /\ stale \in BOOLEAN
  /\ dest \in Tasks /\ lastRx \in Tasks
  /\ line \in Seq(Tasks) /\ Len(line) <= LineMax
  /\ esc \in Tasks \cup {None}
  /\ pending \in [active : BOOLEAN, due : Reqs \cup {None},
                  req : Reqs \cup {None}]
  /\ mu \in Tasks \cup {None}
  /\ copy \in [Tasks -> Reqs \cup {None}] /\ ripe \in SUBSET Reqs
  /\ udpOk \in BOOLEAN
  /\ input \in [Tasks -> Inputs \cup {None}] /\ pc \in [Tasks -> Labels]

\* at_command_begin, config_handlers_begin and config_udp_begin.
Init ==
  /\ sources \in SUBSET Tasks \ {{}}
  /\ mode = "data" /\ stale = FALSE /\ dest = "uart" /\ lastRx = "uart"
  /\ line = <<>> /\ esc = None
  /\ pending = [active |-> FALSE, due |-> None, req |-> None]
  /\ mu = None /\ copy = [t \in Tasks |-> None] /\ ripe = {}
  /\ udpOk = FALSE
  /\ input = [t \in Tasks |-> None] /\ pc = [t \in Tasks |-> "top"]

Step(t, from, to) == pc[t] = from /\ pc' = [pc EXCEPT ![t] = to]

\* What was read is fed; config_udp_task then looks for a pending DISCOVER.
Loop(t) == IF t = "uart" THEN "top" ELSE "wait"
Consume(t) == input' = [input EXCEPT ![t] = None]
-----------------------------------------------------------------------------
(* config_handlers_poll, called from config_ingress_poll and, by the UDP    *)
(* task, from the loop that follows a datagram.  The mutex is only tried.   *)

Try(t, from, cs, without) ==
  /\ \/ mu = None /\ mu' = t /\ Step(t, from, cs)
     \/ mu # None /\ Step(t, from, without) /\ UNCHANGED mu
  /\ UNCHANGED <<session, sources, pending, copy, ripe, udpOk, input>>

Due == pending.active /\ pending.due \in ripe

\* A request is taken off whether it is due or not.
BugTake(t, from, respond, without) ==
  /\ mu' = None /\ pending' = [pending EXCEPT !.active = FALSE]
  /\ \/ /\ Due /\ Step(t, from, respond)
        /\ copy' = [copy EXCEPT ![t] = pending.req]
     \/ ~Due /\ Step(t, from, without) /\ UNCHANGED copy
  /\ UNCHANGED <<session, sources, ripe, udpOk, input>>

\* The request stays active until it has been answered.
BugStays(t, from, respond, without) ==
  /\ mu' = None
  /\ \/ /\ Due /\ Step(t, from, respond)
        /\ copy' = [copy EXCEPT ![t] = pending.req] /\ UNCHANGED pending
     \/ ~Due /\ Step(t, from, without) /\ UNCHANGED <<pending, copy>>
  /\ UNCHANGED <<session, sources, ripe, udpOk, input>>

\* A request that is due is copied and taken off under the mutex, and answered
\* from the copy once it is given back.
TakeDue(t, from, respond, without) ==
  /\ mu' = None
  /\ \/ /\ Due /\ Step(t, from, respond)
        /\ copy' = [copy EXCEPT ![t] = pending.req]
        /\ pending' = [pending EXCEPT !.active = FALSE]
     \/ ~Due /\ Step(t, from, without) /\ UNCHANGED <<pending, copy>>
  /\ UNCHANGED <<session, sources, ripe, udpOk, input>>

Respond(t, from, to) ==
  /\ Step(t, from, to)
  /\ copy' = [copy EXCEPT ![t] = None] /\ ripe' = ripe \ {copy[t]}
  /\ UNCHANGED <<session, sources, pending, mu, udpOk, input>>

\* The UDP task polls while its socket is open.
Poll(t) == (t = "udp" => udpOk) /\ Try(t, "top", "poll_cs", "session")
PollTake(t) == TakeDue(t, "poll_cs", "respond", "session")
PollRespond(t) == Respond(t, "respond", "session")
-----------------------------------------------------------------------------
(* at_command_poll and at_command_set_mode *)

ClearBuffers == line' = <<>> /\ esc' = None

\* The age of the session is looked at in every round; to end it is a step of
\* its own, before which the other task may still take a line.
SessionCheck(t) ==
  /\ Step(t, "session", IF mode = "at" /\ stale THEN "expire" ELSE "rx")
  /\ UNCHANGED <<session, discover, sources, udpOk, input>>

Leave(t, from, to) ==
  /\ Step(t, from, to)
  /\ mode' = "data" /\ ClearBuffers
  /\ UNCHANGED <<discover, sources, stale, dest, lastRx, udpOk, input>>

Expire(t) == Leave(t, "expire", "rx")

\* g_mode is set first, the time and the transport of the session after it.
Open(t) ==
  /\ Step(t, "open", "enter") /\ mode' = "at"
  /\ UNCHANGED <<discover, sources, stale, dest, lastRx, line, esc, udpOk,
                 input>>

Enter(t) ==
  /\ Step(t, "enter", "ready")
  /\ stale' = FALSE /\ dest' = lastRx /\ ClearBuffers
  /\ UNCHANGED <<discover, sources, mode, lastRx, udpOk, input>>

\* CONFIG,READY is written to wherever g_session_transport points by then.
Ready(t) ==
  /\ Step(t, "ready", Loop(t))
  /\ UNCHANGED <<session, discover, sources, udpOk, input>>
-----------------------------------------------------------------------------
(* config_ingress_feed *)

\* Noise on the bus counts as a sign of life of the session.
BugReceive(t) ==
  /\ Step(t, "rx", "feed") /\ t \in sources
  /\ input' \in {[input EXCEPT ![t] = i] : i \in Inputs}
  /\ lastRx' = t /\ dest' = (IF mode = "at" THEN t ELSE dest) /\ stale' = FALSE
  /\ UNCHANGED <<discover, sources, mode, line, esc, udpOk>>

\* Bytes arrive; at_command_note_rx.
Receive(t) ==
  /\ Step(t, "rx", "feed") /\ t \in sources
  /\ input' \in {[input EXCEPT ![t] = i] : i \in Inputs}
  /\ lastRx' = t /\ dest' = (IF mode = "at" THEN t ELSE dest)
  /\ UNCHANGED <<discover, sources, mode, stale, line, esc, udpOk>>

\* Nothing to read, or 200 ms without a datagram.
Nothing(t) ==
  /\ Step(t, "rx", "top")
  /\ UNCHANGED <<session, discover, sources, udpOk, input>>

\* No room for the terminating zero is left.
BugFeedLine(t) ==
  /\ mode = "at" /\ Consume(t)
  /\ \/ input[t] = "eol" /\ UNCHANGED line
        /\ Step(t, "feed", IF line = <<>> THEN Loop(t) ELSE "handle")
     \/ input[t] # "eol" /\ Len(line) < LineMax
        /\ Step(t, "feed", "put") /\ UNCHANGED line
     \/ input[t] # "eol" /\ Len(line) >= LineMax
        /\ Step(t, "feed", Loop(t)) /\ line' = <<>>
  /\ UNCHANGED <<discover, sources, mode, stale, dest, lastRx, esc, udpOk>>

\* A full line is not emptied.
BugFeedFull(t) ==
  /\ mode = "at" /\ Consume(t) /\ UNCHANGED line
  /\ \/ input[t] = "eol"
        /\ Step(t, "feed", IF line = <<>> THEN Loop(t) ELSE "handle")
     \/ input[t] # "eol" /\ Step(t, "feed", "put")
  /\ UNCHANGED <<discover, sources, mode, stale, dest, lastRx, esc, udpOk>>

\* In a session everything goes to at_command_feed: the end of a line that is
\* not empty is handled, other bytes are put into g_line, which is emptied
\* when it is full.
FeedLine(t) ==
  /\ mode = "at" /\ Consume(t)
  /\ \/ input[t] = "eol" /\ UNCHANGED line
        /\ Step(t, "feed", IF line = <<>> THEN Loop(t) ELSE "handle")
     \/ input[t] # "eol" /\ Len(line) + 1 < LineMax
        /\ Step(t, "feed", "put") /\ UNCHANGED line
     \/ input[t] # "eol" /\ Len(line) + 1 >= LineMax
        /\ Step(t, "feed", Loop(t)) /\ line' = <<>>
  /\ UNCHANGED <<discover, sources, mode, stale, dest, lastRx, esc, udpOk>>

Put(t) ==
  /\ Step(t, "put", Loop(t))
  /\ line' = Append(line, t)
  /\ UNCHANGED <<discover, sources, mode, stale, dest, lastRx, esc, udpOk,
                 input>>

\* Otherwise text may be watched for +++CFG:<UID>: that of the bus only after
\* 500 ms without a byte.
FeedText(t) ==
  /\ mode = "data" /\ input[t] # "discover" /\ Consume(t)
  /\ \/ t = "uart" /\ Step(t, "feed", Loop(t)) /\ UNCHANGED esc
     \/ /\ Step(t, "feed", IF input[t] = "tail" /\ esc # None
                            THEN "open" ELSE Loop(t))
        /\ esc' = IF input[t] = "head" THEN t ELSE None
  /\ UNCHANGED <<discover, sources, mode, stale, dest, lastRx, line, udpOk>>

\* A DISCOVER datagram is answered at once, one from the bus is scheduled.
FeedDiscover(t) ==
  /\ mode = "data" /\ input[t] = "discover" /\ Consume(t)
  /\ Step(t, "feed", IF t = "uart" THEN "sched" ELSE Loop(t))
  /\ UNCHANGED <<session, discover, sources, udpOk>>
-----------------------------------------------------------------------------
(* handle_line: whatever the line is, the session counts as alive.  It is   *)
(* meant for another device, or is a command of this one, or AT+EXIT.       *)

Handle(t) ==
  /\ \E to \in {"answer", "bye", "reset"} : Step(t, "handle", to)
  /\ stale' = FALSE
  /\ UNCHANGED <<discover, sources, mode, dest, lastRx, line, esc, udpOk,
                 input>>

\* at_write
Answer(t) ==
  /\ Step(t, "answer", "reset")
  /\ UNCHANGED <<session, discover, sources, udpOk, input>>

Exit(t) == Leave(t, "bye", "reset")

Reset(t) ==
  /\ Step(t, "reset", Loop(t)) /\ line' = <<>>
  /\ UNCHANGED <<discover, sources, mode, stale, dest, lastRx, esc, udpOk,
                 input>>
-----------------------------------------------------------------------------
(* schedule_discover.  Its wait of 50 ms for a mutex that is held for a few *)
(* assignments, with priority inheritance, does not expire.                 *)

Schedule ==
  /\ Step("uart", "sched", "sched_cs") /\ mu = None /\ mu' = "uart"
  /\ UNCHANGED <<session, sources, pending, copy, ripe, udpOk, input>>

\* A name that neither the pending request nor an answer on its way has.
Fresh ==
  Reqs \ ({copy[t] : t \in Tasks} \cup
          IF pending.active THEN {pending.req} ELSE {})

\* The mutex is given back before the request is stored.
BugDue ==
  /\ Step("uart", "sched_cs", "sched_req") /\ mu' = None
  /\ \E r \in Fresh :
       /\ pending' = [pending EXCEPT !.active = TRUE, !.due = r]
       /\ ripe' = ripe \ {r}
  /\ UNCHANGED <<session, sources, copy, udpOk, input>>

ScheduleDue ==
  /\ Step("uart", "sched_cs", "sched_req")
  /\ \E r \in Fresh :
       /\ pending' = [pending EXCEPT !.active = TRUE, !.due = r]
       /\ ripe' = ripe \ {r}
  /\ UNCHANGED <<session, sources, mu, copy, udpOk, input>>

ScheduleReq ==
  /\ Step("uart", "sched_req", "top")
  /\ pending' = [pending EXCEPT !.req = pending.due]
  /\ mu' = None
  /\ UNCHANGED <<session, sources, copy, ripe, udpOk, input>>
-----------------------------------------------------------------------------
(* config_udp_task *)

\* config_udp_open fails without WiFi or a free descriptor.
SocketOpen ==
  /\ pc["udp"] = "top" /\ ~udpOk /\ udpOk' = TRUE
  /\ UNCHANGED <<session, discover, sources, input, pc>>

SocketError ==
  /\ Step("udp", "rx", "top") /\ udpOk' = FALSE
  /\ UNCHANGED <<session, discover, sources, input>>

\* config_handlers_discover_pending: at most 120 looks, and none while the
\* other task has the mutex.
Wait ==
  /\ \/ Step("udp", "wait", "top")
     \/ mu = None /\ pending.active /\ Step("udp", "wait", "wait_poll")
  /\ UNCHANGED <<session, discover, sources, udpOk, input>>

WaitPoll == Try("udp", "wait_poll", "wait_cs", "wait")
WaitTake == TakeDue("udp", "wait_cs", "wait_respond", "wait")
WaitRespond == Respond("udp", "wait_respond", "wait")
-----------------------------------------------------------------------------
(* Time *)

SessionAges ==
  /\ ~stale /\ stale' = TRUE
  /\ UNCHANGED <<discover, sources, mode, dest, lastRx, line, esc, udpOk,
                 input, pc>>

JitterPasses ==
  /\ pending.active /\ pending.due \notin ripe
  /\ ripe' = ripe \cup {pending.due}
  /\ UNCHANGED <<session, sources, pending, mu, copy, udpOk, input, pc>>

Common(t) ==
  \/ Poll(t) \/ PollTake(t) \/ PollRespond(t) \/ SessionCheck(t) \/ Expire(t)
  \/ Open(t) \/ Enter(t) \/ Ready(t) \/ Nothing(t)
  \/ FeedLine(t) \/ Put(t) \/ FeedText(t) \/ FeedDiscover(t)
  \/ Handle(t) \/ Answer(t) \/ Exit(t) \/ Reset(t)

Uart == Common("uart") \/ Schedule \/ ScheduleDue \/ ScheduleReq
Udp == Common("udp") \/ Wait \/ WaitPoll \/ WaitTake \/ WaitRespond
Outside ==
  \/ \E t \in Tasks : Receive(t)
  \/ SocketOpen \/ SocketError \/ SessionAges \/ JitterPasses

Next == Uart \/ Udp \/ Outside

Spec == Init /\ [][Next]_vars

(* Both tasks go on and time passes.  A task does not wait for bytes: what *)
(* is in the buffer, or nothing, is read, so one of `Nothing' and `Receive' *)
(* takes place.  Nothing makes the socket open.                             *)
Fairness ==
  /\ WF_vars(Uart \/ Receive("uart"))
  /\ WF_vars(Udp \/ Receive("udp") \/ SocketError)
  /\ WF_vars(SessionAges) /\ WF_vars(JitterPasses)

FairSpec == Spec /\ Fairness
-----------------------------------------------------------------------------
(* The delayed answer *)

\* Although both tasks poll, a DISCOVER request of the bus is answered at most
\* once: the copy a task answers is no longer pending (unless a new request is
\* just being written over it), and no other task has it.
AnsweredOnce ==
  \A t \in Tasks : copy[t] # None =>
    /\ pending.active /\ pc["uart"] # "sched_req" => pending.req # copy[t]
    /\ \A u \in Tasks \ {t} : copy[u] # copy[t]

\* It is never answered before its own jitter is over, also when it replaces
\* an earlier request whose time has come while the two are exchanged.
NotEarly == \A t \in Tasks : copy[t] # None => copy[t] \in ripe

(* Refinement: one request is open, and each is answered once (DelayedAnswer). *)
Answered(r) == \E t \in Tasks : copy[t] = r
Fate(r) ==
  CASE Answered(r) -> "answering"
    [] ~Answered(r) /\ pending.active /\ pending.due = r ->
         IF r \in ripe THEN "ripe" ELSE "waiting"
    [] OTHER -> "none"
Promise == INSTANCE DelayedAnswer WITH fate <- [r \in Reqs |-> Fate(r)]

\* The two tasks that schedule, take and answer requests implement
\* DelayedAnswer, although the request and its time are written one after the
\* other and the answer is given without the mutex.
AnswerRefined == Promise!Spec

\* A request that is not replaced by a newer one is answered, whichever task
\* has the mutex when the other looks.
DiscoverAnswered ==
  \A r \in Reqs :
    pending.active /\ pending.req = r ~>
      pending.req # r \/ \E t \in Tasks : copy[t] = r

(* The session *)

\* A session in which no line comes any more ends, whatever else is on the bus
\* or comes by UDP.
SessionEnds ==
  []<>(mode = "data") \/ []<>(\E t \in Tasks : pc[t] = "handle")

\* With bytes from one transport only, g_line keeps room for the zero that
\* ends it, although the other task may end the session at any step.
LineFits == sources # Tasks => Len(line) < LineMax

\* With bytes from one transport only, answers and CONFIG,READY go back there.
AnswersReturn ==
  sources # Tasks =>
    \A t \in Tasks : pc[t] \in {"ready", "answer", "bye"} => dest = t

(* The same without the condition, and more, does not hold: nothing keeps   *)
(* the two transports apart.                                                *)
LineAlwaysFits == Len(line) < LineMax

AnswersAlwaysReturn ==
  \A t \in Tasks : pc[t] \in {"ready", "answer", "bye"} => dest = t

\* A line that is handled came from the task that handles it.
LinesUnmixed ==
  \A t \in Tasks : pc[t] = "handle" => \A i \in DOMAIN line : line[i] = t

\* A session that has just been opened, or has just handled a line, is not
\* ended for its age.
NoEarlyEnd ==
  [][\A t \in Tasks : Expire(t) => stale]_vars

\* CONFIG,READY is said in a session.
ReadyMeansSession == \A t \in Tasks : pc[t] = "ready" => mode = "at"

\* Each request of the bus is answered, also when another follows.
EachAnswered ==
  \A r \in Reqs : [](pending.req = r /\ pending.active =>
                      <>(\E t \in Tasks : copy[t] = r))
=============================================================================
