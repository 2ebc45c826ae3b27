------------------------- MODULE ConfigSessionProofs -------------------------
(***************************************************************************)
(* Theorems about ConfigSession, for any names of requests and any length  *)
(* of a line.                                                              *)
(*                                                                         *)
(* LockInv says who is inside the critical sections of g_pending_mu.  On   *)
(* it rests AnswerInv: a request is pending or being answered, never both, *)
(* but for the moment in which a new one overwrites it.  LineInv counts    *)
(* the bytes that have passed the check of a full line but are not yet     *)
(* written.  ReturnInv follows the transport of a session from the bytes   *)
(* received to the answers, as long as one transport only brings bytes.    *)
(* With LockInv and AnswerInv each step of the two tasks is one of         *)
(* DelayedAnswer, or none.                                                 *)
(***************************************************************************)
EXTENDS ConfigSession, TLAPS

Types ==
  /\ sources \in SUBSET Tasks
  /\ mode \in {"data", "at"} /\ stale \in BOOLEAN
  /\ dest \in Tasks /\ lastRx \in Tasks
  /\ line \in Seq(Tasks) /\ esc \in Tasks \cup {None}
  /\ pending \in [active : BOOLEAN, due : Reqs \cup {None},
                  req : Reqs \cup {None}]
  /\ pending.active => pending.due \in Reqs
  /\ mu \in Tasks \cup {None}
  /\ copy \in [Tasks -> Reqs \cup {None}] /\ ripe \in SUBSET Reqs
  /\ udpOk \in BOOLEAN
  /\ input \in [Tasks -> Inputs \cup {None}] /\ pc \in [Tasks -> Labels]

LockInv ==
  \A t \in Tasks :
    pc[t] \in {"poll_cs", "wait_cs", "sched_cs", "sched_req"} <=> mu = t

AnswerInv ==
  /\ \A t \in Tasks : copy[t] # None <=> pc[t] \in {"respond", "wait_respond"}
  /\ \A t \in Tasks : copy[t] # None => copy[t] \in ripe
  /\ \A t, u \in Tasks : copy[t] # None /\ t # u => copy[u] # copy[t]
  /\ pending.active => pending.due \in Reqs
  /\ pending.active => \A t \in Tasks : pending.due # copy[t]
  /\ pending.active /\ pc["uart"] # "sched_req" => pending.req = pending.due
  /\ pc["uart"] = "sched_req" => pending.active

LineInv ==
  /\ Len(line) <= LineMax
  /\ \A t \in Tasks : pc[t] = "put" => Len(line) + 1 <= LineMax
  /\ (\A t \in Tasks : pc[t] = "put") => Len(line) + 2 <= LineMax
  /\ sources # Tasks =>
       /\ Len(line) < LineMax
       /\ \A t \in Tasks : pc[t] = "put" => Len(line) + 1 < LineMax

\* What a task does with bytes it has received.
Fed == {"feed", "put", "handle", "answer", "bye", "reset", "open", "enter",
        "ready"}

ReturnInv ==
  /\ \A t \in Tasks : pc[t] \in Fed => t \in sources
  /\ sources # Tasks =>
       \A t \in Tasks :
         /\ pc[t] \in Fed => lastRx = t
         /\ pc[t] = "feed" /\ mode = "at" => dest = t
         /\ pc[t] \in {"handle", "answer", "bye", "ready"} => dest = t

SessionInv == LockInv /\ AnswerInv /\ LineInv /\ ReturnInv
-----------------------------------------------------------------------------
LEMMA TypesKept ==
  ASSUME Types, [Next]_vars
  PROVE  Types'
<1> USE NoneAssumption DEF Types, Tasks, Inputs, Labels, Step, session, discover
<1>1. ASSUME NEW t \in Tasks, Poll(t) PROVE Types'
  BY <1>1 DEF Poll, Try
<1>2. ASSUME NEW t \in Tasks, PollTake(t) PROVE Types'
  <2>1. /\ copy' \in [Tasks -> Reqs \cup {None}] /\ pc' \in [Tasks -> Labels]
        /\ mu' \in Tasks \cup {None}
    BY <1>2 DEF PollTake, TakeDue, Due
  <2>2. pending' = pending \/ pending' = [pending EXCEPT !.active = FALSE]
    BY <1>2 DEF PollTake, TakeDue
  <2>3. /\ pending' \in [active : BOOLEAN, due : Reqs \cup {None},
                        req : Reqs \cup {None}]
        /\ pending'.active => pending'.due \in Reqs
    BY <2>2
  <2>4. QED BY <1>2, <2>1, <2>3 DEF PollTake, TakeDue
<1>3. ASSUME NEW t \in Tasks, PollRespond(t) PROVE Types'
  BY <1>3 DEF PollRespond, Respond
<1>4. ASSUME NEW t \in Tasks, SessionCheck(t) PROVE Types'
  BY <1>4 DEF SessionCheck
<1>5. ASSUME NEW t \in Tasks, Expire(t) PROVE Types'
  BY <1>5 DEF Expire, Leave, ClearBuffers
<1>6. ASSUME NEW t \in Tasks, Open(t) PROVE Types'
  BY <1>6 DEF Open
<1>7. ASSUME NEW t \in Tasks, Enter(t) PROVE Types'
  <2>1. stale' \in BOOLEAN BY <1>7 DEF Enter
  <2>2. pc' \in [Tasks -> Labels] BY <1>7 DEF Enter
  <2>3. QED BY <1>7, <2>1, <2>2 DEF Enter, ClearBuffers
<1>8. ASSUME NEW t \in Tasks, Ready(t) PROVE Types'
  BY <1>8 DEF Ready, Loop
<1>9. ASSUME NEW t \in Tasks, Nothing(t) PROVE Types'
  BY <1>9 DEF Nothing
<1>10. ASSUME NEW t \in Tasks, FeedLine(t) PROVE Types'
  <2>1. pc' \in [Tasks -> Labels] BY <1>10 DEF FeedLine, Loop
  <2>5. line' = line \/ line' = <<>> BY <1>10 DEF FeedLine
  <2>6. line' = line => line' \in Seq(Tasks) OBVIOUS
  <2>7. line' = <<>> => line' \in Seq(Tasks) OBVIOUS
  <2>2. line' \in Seq(Tasks) BY <2>5, <2>6, <2>7
  <2>3. input' \in [Tasks -> Inputs \cup {None}] BY <1>10 DEF FeedLine, Consume
  <2>4. QED BY <1>10, <2>1, <2>2, <2>3 DEF FeedLine
<1>11. ASSUME NEW t \in Tasks, Put(t) PROVE Types'
  BY <1>11 DEF Put, Loop
<1>12. ASSUME NEW t \in Tasks, FeedText(t) PROVE Types'
  BY <1>12 DEF FeedText, Consume, Loop
<1>13. ASSUME NEW t \in Tasks, FeedDiscover(t) PROVE Types'
  BY <1>13 DEF FeedDiscover, Consume, Loop
<1>14. ASSUME NEW t \in Tasks, Handle(t) PROVE Types'
  <2>1. stale' \in BOOLEAN BY <1>14 DEF Handle
  <2>2. pc' \in [Tasks -> Labels] BY <1>14 DEF Handle
  <2>3. QED BY <1>14, <2>1, <2>2 DEF Handle, ClearBuffers
<1>15. ASSUME NEW t \in Tasks, Answer(t) PROVE Types'
  BY <1>15 DEF Answer
<1>16. ASSUME NEW t \in Tasks, Exit(t) PROVE Types'
  BY <1>16 DEF Exit, Leave, ClearBuffers
<1>17. ASSUME NEW t \in Tasks, Reset(t) PROVE Types'
  BY <1>17 DEF Reset, Loop
<1>18. ASSUME NEW t \in Tasks, Receive(t) PROVE Types'
  BY <1>18 DEF Receive
<1>19. CASE Schedule BY <1>19 DEF Schedule
<1>20. CASE ScheduleDue
  <2>1. pc' \in [Tasks -> Labels] BY <1>20 DEF ScheduleDue
  <2>2. pending'.active => pending'.due \in Reqs BY <1>20 DEF ScheduleDue, Fresh
  <2>5. PICK r \in Reqs : pending' = [pending EXCEPT !.active = TRUE, !.due = r]
    BY <1>20 DEF ScheduleDue, Fresh
  <2>3. pending' \in [active : BOOLEAN, due : Reqs \cup {None},
                      req : Reqs \cup {None}]
    BY <2>5
  <2>4. QED BY <1>20, <2>1, <2>2, <2>3 DEF ScheduleDue
<1>21. CASE ScheduleReq BY <1>21 DEF ScheduleReq
<1>22. CASE Wait BY <1>22 DEF Wait
<1>23. CASE WaitPoll BY <1>23 DEF WaitPoll, Try
<1>24. CASE WaitTake
  <2>1. /\ copy' \in [Tasks -> Reqs \cup {None}] /\ pc' \in [Tasks -> Labels]
        /\ mu' \in Tasks \cup {None}
    BY <1>24 DEF WaitTake, TakeDue, Due
  <2>2. pending' = pending \/ pending' = [pending EXCEPT !.active = FALSE]
    BY <1>24 DEF WaitTake, TakeDue
  <2>3. /\ pending' \in [active : BOOLEAN, due : Reqs \cup {None},
                        req : Reqs \cup {None}]
        /\ pending'.active => pending'.due \in Reqs
    BY <2>2
  <2>4. QED BY <1>24, <2>1, <2>3 DEF WaitTake, TakeDue
<1>25. CASE WaitRespond BY <1>25 DEF WaitRespond, Respond
<1>26. CASE SocketOpen BY <1>26 DEF SocketOpen
<1>27. CASE SocketError BY <1>27, ZenonT(30) DEF SocketError
<1>28. CASE SessionAges BY <1>28 DEF SessionAges
<1>29. CASE JitterPasses BY <1>29 DEF JitterPasses
<1>30. CASE UNCHANGED vars BY <1>30 DEF vars
<1>31. QED
  BY <1>1, <1>2, <1>3, <1>4, <1>5, <1>6, <1>7, <1>8, <1>9, <1>10, <1>11,
     <1>12, <1>13, <1>14, <1>15, <1>16, <1>17, <1>18, <1>19, <1>20, <1>21,
     <1>22, <1>23, <1>24, <1>25, <1>26, <1>27, <1>28, <1>29, <1>30
  DEF Next, Uart, Udp, Outside, Common, Tasks

LEMMA LockKept ==
  ASSUME Types, LockInv, [Next]_vars
  PROVE  LockInv'
<1> USE NoneAssumption DEF Types, LockInv, Tasks, Step, discover
<1>1. ASSUME NEW t \in Tasks, Poll(t) PROVE LockInv'
  BY <1>1 DEF Poll, Try
<1>2. ASSUME NEW t \in Tasks, PollTake(t) PROVE LockInv'
  BY <1>2 DEF PollTake, TakeDue, Due
<1>3. ASSUME NEW t \in Tasks, PollRespond(t) PROVE LockInv'
  BY <1>3 DEF PollRespond, Respond
<1>4. ASSUME NEW t \in Tasks, SessionCheck(t) PROVE LockInv'
  BY <1>4 DEF SessionCheck
<1>5. ASSUME NEW t \in Tasks, Expire(t) PROVE LockInv'
  BY <1>5 DEF Expire, Leave, ClearBuffers
<1>6. ASSUME NEW t \in Tasks, Open(t) PROVE LockInv'
  BY <1>6 DEF Open
<1>7. ASSUME NEW t \in Tasks, Enter(t) PROVE LockInv'
  BY <1>7 DEF Enter, ClearBuffers
<1>8. ASSUME NEW t \in Tasks, Ready(t) PROVE LockInv'
  BY <1>8 DEF Ready, Loop
<1>9. ASSUME NEW t \in Tasks, Nothing(t) PROVE LockInv'
  BY <1>9 DEF Nothing
<1>10. ASSUME NEW t \in Tasks, FeedLine(t) PROVE LockInv'
  BY <1>10 DEF FeedLine, Consume, Loop
<1>11. ASSUME NEW t \in Tasks, Put(t) PROVE LockInv'
  BY <1>11 DEF Put, Loop
<1>12. ASSUME NEW t \in Tasks, FeedText(t) PROVE LockInv'
  BY <1>12 DEF FeedText, Consume, Loop
<1>13. ASSUME NEW t \in Tasks, FeedDiscover(t) PROVE LockInv'
  BY <1>13 DEF FeedDiscover, Consume, Loop
<1>14. ASSUME NEW t \in Tasks, Handle(t) PROVE LockInv'
  BY <1>14 DEF Handle
<1>15. ASSUME NEW t \in Tasks, Answer(t) PROVE LockInv'
  BY <1>15 DEF Answer
<1>16. ASSUME NEW t \in Tasks, Exit(t) PROVE LockInv'
  BY <1>16 DEF Exit, Leave, ClearBuffers
<1>17. ASSUME NEW t \in Tasks, Reset(t) PROVE LockInv'
  BY <1>17 DEF Reset, Loop
<1>18. ASSUME NEW t \in Tasks, Receive(t) PROVE LockInv'
  BY <1>18 DEF Receive
<1>19. CASE Schedule BY <1>19 DEF Schedule
<1>20. CASE ScheduleDue BY <1>20 DEF ScheduleDue, Fresh
<1>21. CASE ScheduleReq BY <1>21 DEF ScheduleReq
<1>22. CASE Wait BY <1>22 DEF Wait
<1>23. CASE WaitPoll BY <1>23 DEF WaitPoll, Try
<1>24. CASE WaitTake BY <1>24 DEF WaitTake, TakeDue, Due
<1>25. CASE WaitRespond BY <1>25 DEF WaitRespond, Respond
<1>26. CASE SocketOpen BY <1>26 DEF SocketOpen
<1>27. CASE SocketError BY <1>27 DEF SocketError
<1>28. CASE SessionAges BY <1>28 DEF SessionAges
<1>29. CASE JitterPasses BY <1>29 DEF JitterPasses
<1>30. CASE UNCHANGED vars BY <1>30 DEF vars
<1>31. QED
  BY <1>1, <1>2, <1>3, <1>4, <1>5, <1>6, <1>7, <1>8, <1>9, <1>10, <1>11,
     <1>12, <1>13, <1>14, <1>15, <1>16, <1>17, <1>18, <1>19, <1>20, <1>21,
     <1>22, <1>23, <1>24, <1>25, <1>26, <1>27, <1>28, <1>29, <1>30
  DEF Next, Uart, Udp, Outside, Common, Tasks

LEMMA AnswerKept ==
  ASSUME Types, LockInv, AnswerInv, [Next]_vars
  PROVE  AnswerInv'
<1> USE NoneAssumption DEF Types, LockInv, AnswerInv, Tasks, Step, session, discover
<1>1. ASSUME NEW t \in Tasks, Poll(t) PROVE AnswerInv'
  BY <1>1 DEF Poll, Try
<1>2. ASSUME NEW t \in Tasks, PollTake(t) PROVE AnswerInv'
  BY <1>2 DEF PollTake, TakeDue, Due
<1>3. ASSUME NEW t \in Tasks, PollRespond(t) PROVE AnswerInv'
  BY <1>3 DEF PollRespond, Respond
<1>4. ASSUME NEW t \in Tasks, SessionCheck(t) PROVE AnswerInv'
  BY <1>4 DEF SessionCheck
<1>5. ASSUME NEW t \in Tasks, Expire(t) PROVE AnswerInv'
  BY <1>5 DEF Expire, Leave, ClearBuffers
<1>6. ASSUME NEW t \in Tasks, Open(t) PROVE AnswerInv'
  BY <1>6 DEF Open
<1>7. ASSUME NEW t \in Tasks, Enter(t) PROVE AnswerInv'
  BY <1>7 DEF Enter, ClearBuffers
<1>8. ASSUME NEW t \in Tasks, Ready(t) PROVE AnswerInv'
  BY <1>8 DEF Ready, Loop
<1>9. ASSUME NEW t \in Tasks, Nothing(t) PROVE AnswerInv'
  BY <1>9 DEF Nothing
<1>10. ASSUME NEW t \in Tasks, FeedLine(t) PROVE AnswerInv'
  BY <1>10 DEF FeedLine, Consume, Loop
<1>11. ASSUME NEW t \in Tasks, Put(t) PROVE AnswerInv'
  BY <1>11 DEF Put, Loop
<1>12. ASSUME NEW t \in Tasks, FeedText(t) PROVE AnswerInv'
  BY <1>12 DEF FeedText, Consume, Loop
<1>13. ASSUME NEW t \in Tasks, FeedDiscover(t) PROVE AnswerInv'
  BY <1>13 DEF FeedDiscover, Consume, Loop
<1>14. ASSUME NEW t \in Tasks, Handle(t) PROVE AnswerInv'
  BY <1>14 DEF Handle
<1>15. ASSUME NEW t \in Tasks, Answer(t) PROVE AnswerInv'
  BY <1>15 DEF Answer
<1>16. ASSUME NEW t \in Tasks, Exit(t) PROVE AnswerInv'
  BY <1>16 DEF Exit, Leave, ClearBuffers
<1>17. ASSUME NEW t \in Tasks, Reset(t) PROVE AnswerInv'
  BY <1>17 DEF Reset, Loop
<1>18. ASSUME NEW t \in Tasks, Receive(t) PROVE AnswerInv'
  BY <1>18 DEF Receive
<1>19. CASE Schedule BY <1>19 DEF Schedule
<1>20. CASE ScheduleDue BY <1>20 DEF ScheduleDue, Fresh
<1>21. CASE ScheduleReq BY <1>21 DEF ScheduleReq
<1>22. CASE Wait BY <1>22 DEF Wait
<1>23. CASE WaitPoll BY <1>23 DEF WaitPoll, Try
<1>24. CASE WaitTake BY <1>24 DEF WaitTake, TakeDue, Due
<1>25. CASE WaitRespond BY <1>25 DEF WaitRespond, Respond
<1>26. CASE SocketOpen BY <1>26 DEF SocketOpen
<1>27. CASE SocketError BY <1>27 DEF SocketError
<1>28. CASE SessionAges BY <1>28 DEF SessionAges
<1>29. CASE JitterPasses BY <1>29 DEF JitterPasses
<1>30. CASE UNCHANGED vars BY <1>30 DEF vars
<1>31. QED
  BY <1>1, <1>2, <1>3, <1>4, <1>5, <1>6, <1>7, <1>8, <1>9, <1>10, <1>11,
     <1>12, <1>13, <1>14, <1>15, <1>16, <1>17, <1>18, <1>19, <1>20, <1>21,
     <1>22, <1>23, <1>24, <1>25, <1>26, <1>27, <1>28, <1>29, <1>30
  DEF Next, Uart, Udp, Outside, Common, Tasks

LEMMA LineKept ==
  ASSUME Types, LineInv, ReturnInv, [Next]_vars
  PROVE  LineInv'
<1> USE LineAssumption DEF Types, LineInv, ReturnInv, Fed, Tasks, Step, session
<1>1. ASSUME NEW t \in Tasks, Poll(t) PROVE LineInv'
  BY <1>1 DEF Poll, Try
<1>2. ASSUME NEW t \in Tasks, PollTake(t) PROVE LineInv'
  BY <1>2 DEF PollTake, TakeDue, Due
<1>3. ASSUME NEW t \in Tasks, PollRespond(t) PROVE LineInv'
  BY <1>3 DEF PollRespond, Respond
<1>4. ASSUME NEW t \in Tasks, SessionCheck(t) PROVE LineInv'
  BY <1>4 DEF SessionCheck
<1>5. ASSUME NEW t \in Tasks, Expire(t) PROVE LineInv'
  BY <1>5 DEF Expire, Leave, ClearBuffers
<1>6. ASSUME NEW t \in Tasks, Open(t) PROVE LineInv'
  BY <1>6 DEF Open
<1>7. ASSUME NEW t \in Tasks, Enter(t) PROVE LineInv'
  BY <1>7 DEF Enter, ClearBuffers
<1>8. ASSUME NEW t \in Tasks, Ready(t) PROVE LineInv'
  BY <1>8 DEF Ready, Loop
<1>9. ASSUME NEW t \in Tasks, Nothing(t) PROVE LineInv'
  BY <1>9 DEF Nothing
<1>10. ASSUME NEW t \in Tasks, FeedLine(t) PROVE LineInv'
  BY <1>10 DEF FeedLine, Consume, Loop
<1>11. ASSUME NEW t \in Tasks, Put(t) PROVE LineInv'
  BY <1>11 DEF Put, Loop
<1>12. ASSUME NEW t \in Tasks, FeedText(t) PROVE LineInv'
  BY <1>12 DEF FeedText, Consume, Loop
<1>13. ASSUME NEW t \in Tasks, FeedDiscover(t) PROVE LineInv'
  BY <1>13 DEF FeedDiscover, Consume, Loop
<1>14. ASSUME NEW t \in Tasks, Handle(t) PROVE LineInv'
  BY <1>14 DEF Handle
<1>15. ASSUME NEW t \in Tasks, Answer(t) PROVE LineInv'
  BY <1>15 DEF Answer
<1>16. ASSUME NEW t \in Tasks, Exit(t) PROVE LineInv'
  BY <1>16 DEF Exit, Leave, ClearBuffers
<1>17. ASSUME NEW t \in Tasks, Reset(t) PROVE LineInv'
  BY <1>17 DEF Reset, Loop
<1>18. ASSUME NEW t \in Tasks, Receive(t) PROVE LineInv'
  BY <1>18 DEF Receive
<1>19. CASE Schedule BY <1>19 DEF Schedule
<1>20. CASE ScheduleDue BY <1>20 DEF ScheduleDue, Fresh
<1>21. CASE ScheduleReq BY <1>21 DEF ScheduleReq
<1>22. CASE Wait BY <1>22 DEF Wait
<1>23. CASE WaitPoll BY <1>23 DEF WaitPoll, Try
<1>24. CASE WaitTake BY <1>24 DEF WaitTake, TakeDue, Due
<1>25. CASE WaitRespond BY <1>25 DEF WaitRespond, Respond
<1>26. CASE SocketOpen BY <1>26 DEF SocketOpen
<1>27. CASE SocketError BY <1>27 DEF SocketError
<1>28. CASE SessionAges BY <1>28 DEF SessionAges
<1>29. CASE JitterPasses BY <1>29 DEF JitterPasses
<1>30. CASE UNCHANGED vars BY <1>30 DEF vars
<1>31. QED
  BY <1>1, <1>2, <1>3, <1>4, <1>5, <1>6, <1>7, <1>8, <1>9, <1>10, <1>11,
     <1>12, <1>13, <1>14, <1>15, <1>16, <1>17, <1>18, <1>19, <1>20, <1>21,
     <1>22, <1>23, <1>24, <1>25, <1>26, <1>27, <1>28, <1>29, <1>30
  DEF Next, Uart, Udp, Outside, Common, Tasks

LEMMA ReturnKept ==
  ASSUME Types, ReturnInv, [Next]_vars
  PROVE  ReturnInv'
<1> USE NoneAssumption DEF Types, ReturnInv, Fed, Tasks, Step, session
<1>1. ASSUME NEW t \in Tasks, Poll(t) PROVE ReturnInv'
  BY <1>1 DEF Poll, Try
<1>2. ASSUME NEW t \in Tasks, PollTake(t) PROVE ReturnInv'
  BY <1>2 DEF PollTake, TakeDue, Due
<1>3. ASSUME NEW t \in Tasks, PollRespond(t) PROVE ReturnInv'
  BY <1>3 DEF PollRespond, Respond
<1>4. ASSUME NEW t \in Tasks, SessionCheck(t) PROVE ReturnInv'
  BY <1>4 DEF SessionCheck
<1>5. ASSUME NEW t \in Tasks, Expire(t) PROVE ReturnInv'
  BY <1>5 DEF Expire, Leave, ClearBuffers
<1>6. ASSUME NEW t \in Tasks, Open(t) PROVE ReturnInv'
  BY <1>6 DEF Open
<1>7. ASSUME NEW t \in Tasks, Enter(t) PROVE ReturnInv'
  BY <1>7 DEF Enter, ClearBuffers
<1>8. ASSUME NEW t \in Tasks, Ready(t) PROVE ReturnInv'
  BY <1>8 DEF Ready, Loop
<1>9. ASSUME NEW t \in Tasks, Nothing(t) PROVE ReturnInv'
  BY <1>9 DEF Nothing
<1>10. ASSUME NEW t \in Tasks, FeedLine(t) PROVE ReturnInv'
  BY <1>10 DEF FeedLine, Consume, Loop
<1>11. ASSUME NEW t \in Tasks, Put(t) PROVE ReturnInv'
  BY <1>11 DEF Put, Loop
<1>12. ASSUME NEW t \in Tasks, FeedText(t) PROVE ReturnInv'
  BY <1>12 DEF FeedText, Consume, Loop
<1>13. ASSUME NEW t \in Tasks, FeedDiscover(t) PROVE ReturnInv'
  BY <1>13 DEF FeedDiscover, Consume, Loop
<1>14. ASSUME NEW t \in Tasks, Handle(t) PROVE ReturnInv'
  BY <1>14 DEF Handle
<1>15. ASSUME NEW t \in Tasks, Answer(t) PROVE ReturnInv'
  BY <1>15 DEF Answer
<1>16. ASSUME NEW t \in Tasks, Exit(t) PROVE ReturnInv'
  BY <1>16 DEF Exit, Leave, ClearBuffers
<1>17. ASSUME NEW t \in Tasks, Reset(t) PROVE ReturnInv'
  BY <1>17 DEF Reset, Loop
<1>18. ASSUME NEW t \in Tasks, Receive(t) PROVE ReturnInv'
  <2>1. ~(sources = Tasks) => \A u \in Tasks : u \in sources => u = t
    <3>1. SUFFICES ASSUME NEW u \in Tasks, u \in sources, ~(u = t)
                   PROVE  sources = Tasks
      OBVIOUS
    <3>2. sources \subseteq Tasks /\ t \in sources BY <1>18 DEF Receive
    <3>3. \A x \in Tasks : x = u \/ x = t BY <3>1
    <3>4. QED BY <3>1, <3>2, <3>3
  <2>2. /\ sources' = sources /\ mode' = mode /\ lastRx' = t
        /\ dest' = IF mode = "at" THEN t ELSE dest
        /\ t \in sources /\ pc' = [pc EXCEPT ![t] = "feed"]
    BY <1>18 DEF Receive
  <2>3. QED BY <2>1, <2>2
<1>19. CASE Schedule BY <1>19 DEF Schedule
<1>20. CASE ScheduleDue BY <1>20 DEF ScheduleDue, Fresh
<1>21. CASE ScheduleReq BY <1>21 DEF ScheduleReq
<1>22. CASE Wait BY <1>22 DEF Wait
<1>23. CASE WaitPoll BY <1>23 DEF WaitPoll, Try
<1>24. CASE WaitTake BY <1>24 DEF WaitTake, TakeDue, Due
<1>25. CASE WaitRespond BY <1>25 DEF WaitRespond, Respond
<1>26. CASE SocketOpen BY <1>26 DEF SocketOpen
<1>27. CASE SocketError BY <1>27 DEF SocketError
<1>28. CASE SessionAges BY <1>28 DEF SessionAges
<1>29. CASE JitterPasses BY <1>29 DEF JitterPasses
<1>30. CASE UNCHANGED vars BY <1>30 DEF vars
<1>31. QED
  BY <1>1, <1>2, <1>3, <1>4, <1>5, <1>6, <1>7, <1>8, <1>9, <1>10, <1>11,
     <1>12, <1>13, <1>14, <1>15, <1>16, <1>17, <1>18, <1>19, <1>20, <1>21,
     <1>22, <1>23, <1>24, <1>25, <1>26, <1>27, <1>28, <1>29, <1>30
  DEF Next, Uart, Udp, Outside, Common, Tasks

-----------------------------------------------------------------------------
\* The invariant the properties rest on.
THEOREM SessionInvariant == Spec => [](Types /\ SessionInv)
<1>1. Init => Types /\ SessionInv
  <2> SUFFICES ASSUME Init PROVE Types /\ SessionInv
    OBVIOUS
  <2> USE NoneAssumption DEF Init, Tasks
  <2>1. Types
    <3>1. sources \in SUBSET Tasks /\ ripe \in SUBSET Reqs OBVIOUS
    <3>2. stale \in BOOLEAN /\ udpOk \in BOOLEAN OBVIOUS
    <3>3. line \in Seq(Tasks) OBVIOUS
    <3>4. /\ pending \in [active : BOOLEAN, due : Reqs \cup {None},
                          req : Reqs \cup {None}]
          /\ ~pending.active
      OBVIOUS
    <3>5. /\ copy \in [Tasks -> Reqs \cup {None}]
          /\ input \in [Tasks -> Inputs \cup {None}]
          /\ pc \in [Tasks -> Labels]
      BY DEF Labels
    <3>6. QED BY <3>1, <3>2, <3>3, <3>4, <3>5 DEF Types
  <2>2. LockInv BY DEF LockInv
  <2>3. AnswerInv BY DEF AnswerInv
  <2>4. Len(line) = 0 OBVIOUS
  <2>5. LineInv BY <2>4, LineAssumption DEF LineInv
  <2>6. ReturnInv BY DEF ReturnInv, Fed
  <2>7. QED BY <2>1, <2>2, <2>3, <2>5, <2>6 DEF SessionInv
<1>2. Types /\ SessionInv /\ [Next]_vars => Types' /\ SessionInv'
  BY TypesKept, LockKept, AnswerKept, LineKept, ReturnKept DEF SessionInv
<1>3. QED BY <1>1, <1>2, PTL DEF Spec

\* The types of the session and of the pending request; g_line is never longer
\* than its buffer.
THEOREM TypeCorrect == Spec => []TypeOK
<1>1. Types /\ SessionInv => TypeOK BY DEF Types, SessionInv, LineInv, TypeOK
<1>2. QED BY <1>1, SessionInvariant, PTL

\* Whichever tasks poll, a request of the bus is answered at most once.
THEOREM RequestsAreAnsweredOnce == Spec => []AnsweredOnce
<1>1. Types /\ SessionInv => AnsweredOnce
  BY DEF Types, SessionInv, AnswerInv, AnsweredOnce
<1>2. QED BY <1>1, SessionInvariant, PTL

\* No request is answered before its own jitter is over.
THEOREM NothingIsAnsweredEarly == Spec => []NotEarly
<1>1. SessionInv => NotEarly BY DEF SessionInv, AnswerInv, NotEarly
<1>2. QED BY <1>1, SessionInvariant, PTL

\* With one transport, g_line keeps room for its terminating zero.
THEOREM LinesFit == Spec => []LineFits
<1>1. SessionInv => LineFits BY DEF SessionInv, LineInv, LineFits
<1>2. QED BY <1>1, SessionInvariant, PTL

\* With one transport, answers go back to where the bytes came from.
THEOREM AnswersGoBack == Spec => []AnswersReturn
<1>1. SessionInv => AnswersReturn BY DEF SessionInv, ReturnInv, AnswersReturn
<1>2. QED BY <1>1, SessionInvariant, PTL
-----------------------------------------------------------------------------
(* DelayedAnswer.  Most actions leave the fate of every request alone.     *)

LEMMA OthersLeaveFate ==
  ASSUME [Next]_vars
  PROVE  \/ UNCHANGED <<pending, copy, ripe>>
         \/ \E t \in Tasks : PollTake(t) \/ PollRespond(t)
         \/ WaitTake \/ WaitRespond
         \/ ScheduleDue \/ ScheduleReq \/ JitterPasses
<1> USE DEF session, discover
<1>1. ASSUME NEW t \in Tasks, Common(t), ~PollTake(t), ~PollRespond(t)
      PROVE  UNCHANGED <<pending, copy, ripe>>
  BY <1>1 DEF Common, Poll, Try, SessionCheck, Expire, Exit, Leave, Open,
     Enter, Ready, Nothing, FeedLine, Put, FeedText, FeedDiscover, Handle,
     Answer, Reset
<1>2. CASE Uart BY <1>1, <1>2 DEF Uart, Schedule, Tasks
<1>3. CASE Udp BY <1>1, <1>3 DEF Udp, Wait, WaitPoll, Try, Tasks
<1>4. CASE Outside
  BY <1>4 DEF Outside, Receive, SocketOpen, SocketError, SessionAges
<1>5. CASE UNCHANGED vars BY <1>5 DEF vars
<1>6. QED BY <1>2, <1>3, <1>4, <1>5 DEF Next

\* What is copied under the mutex is the request that is open and ripe.
LEMMA TakeIsTake ==
  ASSUME Types, LockInv, AnswerInv,
         NEW t \in Tasks, NEW from \in {"poll_cs", "wait_cs"},
         NEW respond, NEW without, TakeDue(t, from, respond, without)
  PROVE  [Promise!Next]_[r \in Reqs |-> Fate(r)]
<1> DEFINE fate == [r \in Reqs |-> Fate(r)]
<1> USE NoneAssumption DEF Tasks, Step, Answered
<1>1. CASE ~Due
  BY <1>1 DEF TakeDue, Fate
<1>2. CASE Due
  <2> DEFINE d == pending.due
  <2>1. d \in Reqs /\ d \in ripe /\ pending.active /\ ~Answered(d)
    BY <1>2 DEF Due, AnswerInv
  <2>2. pending.req = d
    BY <1>2, <2>1 DEF TakeDue, LockInv, AnswerInv
  <2>3. /\ copy' = [copy EXCEPT ![t] = d] /\ ~pending'.active
        /\ ripe' = ripe /\ copy[t] = None
    BY <1>2, <2>2 DEF TakeDue, AnswerInv, Types
  <2>4. \A r \in Reqs : Answered(r)' <=> Answered(r) \/ r = d
    BY <2>3 DEF Types
  <2>5. \A r \in Reqs : Fate(r)' = IF r = d THEN "answering" ELSE Fate(r)
    BY <2>1, <2>3, <2>4 DEF Fate
  <2>6. Fate(d) = "ripe" BY <2>1 DEF Fate
  <2>7. fate' = [fate EXCEPT ![d] = "answering"] BY <2>1, <2>5
  <2>8. Promise!Becomes(d, "ripe", "answering")
    BY <2>1, <2>6, <2>7 DEF Promise!Becomes
  <2>9. QED BY <2>1, <2>8 DEF Promise!Next
<1>3. QED BY <1>1, <1>2

\* An answer ends the one request this task has, and no other.
LEMMA RespondIsAnswer ==
  ASSUME Types, AnswerInv, NEW t \in Tasks,
         NEW from \in {"respond", "wait_respond"}, NEW to,
         Respond(t, from, to)
  PROVE  [Promise!Next]_[r \in Reqs |-> Fate(r)]
<1> DEFINE fate == [r \in Reqs |-> Fate(r)]
<1> USE NoneAssumption DEF Tasks, Step, Answered
<1>1. PICK c \in Reqs : c = copy[t] /\ c # None
  BY DEF Respond, AnswerInv, Types
<1>2. /\ copy' = [copy EXCEPT ![t] = None] /\ pending' = pending
      /\ ripe' = ripe \ {c}
  BY <1>1 DEF Respond
<1>3. \A r \in Reqs : Answered(r)' <=> Answered(r) /\ r # c
  BY <1>1, <1>2 DEF Types, AnswerInv
<1>4. ~(pending.active /\ pending.due = c)
  BY <1>1 DEF AnswerInv
<1>5. Fate(c) = "answering" BY <1>1 DEF Fate
<1>6. Fate(c)' = "none" BY <1>1, <1>2, <1>3, <1>4 DEF Fate
<1>7. \A r \in Reqs \ {c} : Fate(r)' = Fate(r)
  BY <1>2, <1>3 DEF Fate
<1>8. fate' = [fate EXCEPT ![c] = "none"] BY <1>6, <1>7
<1>9. Promise!Becomes(c, "answering", "none")
  BY <1>1, <1>5, <1>8 DEF Promise!Becomes
<1>10. QED BY <1>1, <1>9 DEF Promise!Next

\* A new request takes the place of the open one.
LEMMA ScheduleIsAsk ==
  ASSUME Types, LockInv, AnswerInv, ScheduleDue
  PROVE  [Promise!Next]_[r \in Reqs |-> Fate(r)]
<1> DEFINE fate == [r \in Reqs |-> Fate(r)]
<1> USE NoneAssumption DEF Tasks, Step, Answered
<1>1. PICK n \in Fresh :
        /\ pending' = [pending EXCEPT !.active = TRUE, !.due = n]
        /\ ripe' = ripe \ {n}
  BY DEF ScheduleDue
<1>2. n \in Reqs /\ ~Answered(n) /\ (pending.active => pending.req # n)
  BY DEF Fresh
<1>3. pending.active => pending.due # n
  BY <1>2 DEF ScheduleDue, AnswerInv
<1>4. copy' = copy BY DEF ScheduleDue
<1>5. pending'.active /\ pending'.due = n BY <1>1 DEF Types
<1>6. \A r \in Reqs : Answered(r)' <=> Answered(r) BY <1>4
<1>7. Fate(n) = "none" BY <1>2, <1>3 DEF Fate
<1>8. Fate(n)' = "waiting" BY <1>1, <1>2, <1>5, <1>6 DEF Fate
<1>9. ASSUME NEW r \in Reqs, r # n
      PROVE  Fate(r)' = IF Fate(r) \in {"waiting", "ripe"} THEN "none"
                        ELSE Fate(r)
  BY <1>5, <1>6, <1>9 DEF Fate
<1>10. Promise!Ask(n)
  BY <1>2, <1>7, <1>8, <1>9 DEF Promise!Ask, Promise!Open
<1>11. QED BY <1>2, <1>10 DEF Promise!Next

\* The jitter of the open request is over.
LEMMA JitterIsRipe ==
  ASSUME Types, AnswerInv, JitterPasses
  PROVE  [Promise!Next]_[r \in Reqs |-> Fate(r)]
<1> DEFINE fate == [r \in Reqs |-> Fate(r)]
<1> USE NoneAssumption DEF Tasks, Answered
<1>1. PICK d \in Reqs :
        /\ d = pending.due /\ d \notin ripe /\ ~Answered(d) /\ pending.active
        /\ ripe' = ripe \cup {d} /\ pending' = pending /\ copy' = copy
  BY DEF JitterPasses, AnswerInv
<1>2. Fate(d) = "waiting" /\ Fate(d)' = "ripe" BY <1>1 DEF Fate
<1>3. \A r \in Reqs \ {d} : Fate(r)' = Fate(r) BY <1>1 DEF Fate
<1>4. fate' = [fate EXCEPT ![d] = "ripe"] BY <1>2, <1>3
<1>5. Promise!Becomes(d, "waiting", "ripe")
  BY <1>1, <1>2, <1>4 DEF Promise!Becomes
<1>6. QED BY <1>1, <1>5 DEF Promise!Next

\* The two tasks implement DelayedAnswer, for any names of requests: each one
\* is answered once, by one task, after its jitter, or makes room for a newer.
THEOREM RequestsMeetTheirFate == Spec => AnswerRefined
<1> DEFINE fate == [r \in Reqs |-> Fate(r)]
<1>1. Init => Promise!Init
  BY NoneAssumption DEF Init, Promise!Init, Fate, Answered
<1>2. ASSUME Types, SessionInv, [Next]_vars
      PROVE  [Promise!Next]_fate
  <2> USE <1>2 DEF SessionInv
  <2>1. CASE UNCHANGED <<pending, copy, ripe>>
    BY <2>1 DEF Fate, Answered
  <2>2. ASSUME NEW t \in Tasks, PollTake(t) PROVE [Promise!Next]_fate
    BY <2>2, TakeIsTake DEF PollTake
  <2>3. ASSUME NEW t \in Tasks, PollRespond(t) PROVE [Promise!Next]_fate
    BY <2>3, RespondIsAnswer DEF PollRespond
  <2>4. CASE WaitTake BY <2>4, TakeIsTake DEF WaitTake, Tasks
  <2>5. CASE WaitRespond BY <2>5, RespondIsAnswer DEF WaitRespond, Tasks
  <2>6. CASE ScheduleDue BY <2>6, ScheduleIsAsk
  <2>7. CASE ScheduleReq
    <3>1. /\ pending'.active = pending.active /\ pending'.due = pending.due
          /\ UNCHANGED <<copy, ripe>>
      BY <2>7 DEF ScheduleReq, Types
    <3>2. QED BY <3>1 DEF Fate, Answered
  <2>8. CASE JitterPasses BY <2>8, JitterIsRipe
  <2>9. QED
    BY <2>1, <2>2, <2>3, <2>4, <2>5, <2>6, <2>7, <2>8, OthersLeaveFate
<1>3. QED
  BY <1>1, <1>2, SessionInvariant, PTL DEF Spec, AnswerRefined, Promise!Spec
=============================================================================
