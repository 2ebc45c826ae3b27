---------------------------- MODULE ByteChannelProofs ----------------------------
(***************************************************************************)
(* SerialIngress implements ByteChannel, as long as no read is as long as  *)
(* the accumulator (ReadIsShort).  The pending bytes are those of the      *)
(* stages between the read and the network (Pend).  Every step of the      *)
(* module shifts bytes between these stages, which ByteChannel does not    *)
(* see, or brings new ones, or takes some out of one stage: to sent or to  *)
(* one of the ledgers (Flow).  Since the stages are ordered one after the  *)
(* other they share no byte, so what is taken out of one is pending no     *)
(* more.                                                                   *)
(***************************************************************************)
EXTENDS SerialIngressProofs, FunctionTheorems

\* The bytes between the read and the network.
Pend ==
  ToSet(hold) \cup InQueue \cup ToSet(pushing) \cup ToSet(chunk) \cup ToSet(out)
  \cup ToSet(acc) \cup ToSet(raw)

\* The stages hold positions on the bus.
LEMMA StagesOfNumbers ==
  ASSUME Control, Buffers
  PROVE  /\ \A s \in Bytes : ToSet(s) \subseteq Nat
         /\ InQueue \subseteq Nat /\ ToSet(sent) \subseteq Nat
         /\ ToSet(hold) \subseteq Nat
         /\ ToSet(pushing) \subseteq Nat /\ ToSet(chunk) \subseteq Nat
         /\ ToSet(out) \subseteq Nat /\ ToSet(acc) \subseteq Nat
         /\ ToSet(raw) \subseteq Nat /\ Pend \subseteq Nat
<1>1. \A s \in Bytes : ToSet(s) \subseteq Nat BY ToSetOf, BytesOfWire
<1>2. InQueue \subseteq Nat BY <1>1 DEF InQueue, Buffers
<1>. QED BY <1>1, <1>2 DEF Buffers, Pend

\* Bytes read before others are not among them.
LEMMA BelowApart ==
  ASSUME NEW A \in SUBSET Nat, NEW B \in SUBSET Nat, Below(A, B)
  PROVE  A \cap B = {}
BY DEF Below

\* Ordered stages share no byte.
LEMMA StagesApart ==
  ASSUME Control, Buffers, Order
  PROVE  /\ ToSet(sent) \cap Pend = {}
         /\ ToSet(hold) \cap (InQueue \cup ToSet(pushing) \cup ToSet(chunk)
                              \cup ToSet(out) \cup ToSet(acc) \cup ToSet(raw)) = {}
         /\ InQueue \cap (ToSet(pushing) \cup ToSet(chunk) \cup ToSet(out)
                          \cup ToSet(acc) \cup ToSet(raw)) = {}
         /\ ToSet(pushing) \cap (ToSet(chunk) \cup ToSet(out) \cup ToSet(acc)
                                 \cup ToSet(raw)) = {}
         /\ ToSet(chunk) \cap (ToSet(out) \cup ToSet(acc) \cup ToSet(raw)) = {}
         /\ ToSet(out) \cap (ToSet(acc) \cup ToSet(raw)) = {}
         /\ ToSet(acc) \cap ToSet(raw) = {}
<1> DEFINE s == ToSet(sent) h == ToSet(hold) q == InQueue p == ToSet(pushing)
           c == ToSet(chunk) o == ToSet(out) a == ToSet(acc) r == ToSet(raw)
<1>1. /\ s \in SUBSET Nat /\ h \in SUBSET Nat /\ q \in SUBSET Nat
      /\ p \in SUBSET Nat /\ c \in SUBSET Nat /\ o \in SUBSET Nat
      /\ a \in SUBSET Nat /\ r \in SUBSET Nat
  BY StagesOfNumbers
<1>2. Chain(s, h, q, p, c, o, a, r) BY DEF Order
<1>3. Pend = h \cup q \cup p \cup c \cup o \cup a \cup r BY DEF Pend
<1> HIDE DEF s, h, q, p, c, o, a, r
<1>4. /\ s \cap (h \cup q \cup p \cup c \cup o \cup a \cup r) = {}
      /\ h \cap (q \cup p \cup c \cup o \cup a \cup r) = {}
      /\ q \cap (p \cup c \cup o \cup a \cup r) = {}
      /\ p \cap (c \cup o \cup a \cup r) = {}
      /\ c \cap (o \cup a \cup r) = {}
      /\ o \cap (a \cup r) = {}
      /\ a \cap r = {}
  BY <1>1, <1>2, BelowApart DEF Chain
<1>. QED BY <1>3, <1>4 DEF s, h, q, p, c, o, a, r

\* What a cut takes off and what it leaves share no byte.
LEMMA CutApart ==
  ASSUME Control, Buffers, NEW s \in Bytes, NEW t, NEW k, Cut(s, t, k), Sorted(s)
  PROVE  ToSet(t) \cap ToSet(k) = {}
<1>1. ToSet(t) \in SUBSET Nat /\ ToSet(k) \in SUBSET Nat
  BY StagesOfNumbers DEF Cut
<1>2. Below(ToSet(t), ToSet(k)) BY DEF Cut
<1>. QED BY <1>1, <1>2, BelowApart

\* What ByteChannel calls pending are the bytes of these stages.
LEMMA PendingIs ==
  Control /\ Buffers /\ Order => OnTheWay \ ToSet(sent) = Pend
<1> SUFFICES ASSUME Control, Buffers, Order PROVE OnTheWay \ ToSet(sent) = Pend
  OBVIOUS
<1>1. OnTheWay = ToSet(sent) \cup Pend BY OnTheWayIs DEF Pend
<1>2. ToSet(sent) \cap Pend = {} BY StagesApart
<1>. QED BY <1>1, <1>2

\* A step as ByteChannel sees it.
Shift == Pend' = Pend /\ UNCHANGED <<read, sent, taken, dropped, lost, refused>>
Brings ==
  /\ read' > read /\ Pend' = Pend \cup (read + 1)..read'
  /\ UNCHANGED <<sent, taken, dropped, lost, refused>>
Hands(t) ==
  /\ sent' = sent \o t /\ ToSet(t) \subseteq Pend /\ Pend' = Pend \ ToSet(t)
  /\ UNCHANGED <<read, taken, dropped, lost, refused>>
Counts(gone) ==
  /\ gone \subseteq Pend /\ Pend' = Pend \ gone
  /\ \/ taken' = taken \cup gone /\ UNCHANGED <<dropped, lost, refused>>
     \/ dropped' = dropped \cup gone /\ UNCHANGED <<taken, lost, refused>>
     \/ lost' = lost \cup gone /\ UNCHANGED <<taken, dropped, refused>>
     \/ refused' = refused \cup gone /\ UNCHANGED <<taken, dropped, lost>>
  /\ UNCHANGED <<read, sent>>
Flow ==
  \/ Shift \/ Brings
  \/ \E t \in Bytes : Hands(t)
  \/ \E gone : Counts(gone)

\* emit_bridge shifts.
LEMMA EmitFlow ==
  ASSUME Control, Buffers, NEW n \in 0..Len(acc), Emit(n),
         UNCHANGED <<queue, hold, pushing, chunk, raw, read, sent, taken,
                     dropped, lost, refused>>
  PROVE  Shift
<1>1. PICK t \in Bytes : Cut(acc, t, acc') /\ Joined(out', out, t) BY EmitMoves
<1>. QED BY <1>1, QueueUnchanged DEF Cut, Joined, Shift, Pend

\* Frames and the bytes of an AT session are held back.
LEMMA TakenFlow ==
  ASSUME Control, Buffers, PlaceInv, Order, FeedAt \/ FeedEscape \/ DrainFrame
  PROVE  \E gone : Counts(gone) /\ taken' = taken \cup gone
<1>1. CASE FeedAt \/ FeedEscape
  <2>1. /\ raw' = <<>> /\ taken' = taken \cup ToSet(raw)
        /\ UNCHANGED <<queue, hold, pushing, chunk, out, acc, read, sent, dropped,
                       lost, refused>>
    BY <1>1 DEF FeedAt, FeedEscape
  <2>2. Pend' = Pend \ ToSet(raw)
    BY <2>1, StagesApart, QueueUnchanged, ToSetEmpty DEF Pend
  <2>3. ToSet(raw) \subseteq Pend BY DEF Pend
  <2>4. Counts(ToSet(raw)) BY <2>1, <2>2, <2>3 DEF Counts
  <2>. QED BY <2>1, <2>4
<1>2. CASE DrainFrame
  <2>1. PICK t \in Bytes : Cut(acc, t, acc') /\ taken' = taken \cup ToSet(t)
    BY <1>2, FrameMoves
  <2>2. UNCHANGED <<queue, hold, pushing, chunk, out, raw, read, sent, dropped,
                    lost, refused>>
    BY <1>2 DEF DrainFrame
  <2>3. ToSet(t) \cap ToSet(acc') = {} /\ ToSet(acc) = ToSet(t) \cup ToSet(acc')
    BY <2>1, CutApart DEF Cut, Order, Buffers
  <2>4. Pend' = Pend \ ToSet(t) /\ ToSet(t) \subseteq Pend
    BY <2>2, <2>3, StagesApart, QueueUnchanged DEF Pend
  <2>5. Counts(ToSet(t)) BY <2>1, <2>2, <2>4 DEF Counts
  <2>. QED BY <2>1, <2>5
<1>. QED BY <1>1, <1>2

\* A chunk that is complete goes on to the push, or is refused.
LEMMA PushFlow ==
  ASSUME Control, Buffers, PlaceInv, Order, IdleFlush \/ Gather
  PROVE  Flow
<1>1. CASE IdleFlush
  <2>1. /\ chunk' = <<>> /\ pushing = <<>>
        /\ \/ pushing' = chunk /\ refused' = refused
           \/ pushing' = <<>> /\ refused' = refused \cup ToSet(chunk)
        /\ UNCHANGED <<queue, hold, out, acc, raw, read, sent, taken, dropped,
                       lost>>
    BY <1>1 DEF IdleFlush, PushFrom, PlaceInv
  <2>2. CASE pushing' = chunk /\ refused' = refused
    BY <2>1, <2>2, QueueUnchanged, ToSetEmpty DEF Flow, Shift, Pend
  <2>3. CASE pushing' = <<>> /\ refused' = refused \cup ToSet(chunk)
    <3>1. Pend' = Pend \ ToSet(chunk) /\ ToSet(chunk) \subseteq Pend
      BY <2>1, <2>3, StagesApart, QueueUnchanged, ToSetEmpty DEF Pend
    <3>2. Counts(ToSet(chunk)) BY <2>1, <2>3, <3>1 DEF Counts
    <3>. QED BY <3>2 DEF Flow
  <2>. QED BY <2>1, <2>2, <2>3
<1>2. CASE Gather
  <2>1. PICK t \in Bytes, full \in Bytes :
           /\ Cut(out, t, out') /\ Joined(full, chunk, t)
           /\ \/ chunk' = full /\ pushing' = pushing /\ refused' = refused
              \/ chunk' = <<>> /\ pushing' = full /\ refused' = refused
              \/ /\ chunk' = <<>> /\ pushing' = <<>>
                 /\ refused' = refused \cup ToSet(full)
    BY <1>2, GatherMoves
  <2>2. /\ pushing = <<>>
        /\ UNCHANGED <<queue, hold, acc, raw, read, sent, taken, dropped, lost>>
    BY <1>2 DEF Gather, PlaceInv
  <2>3. /\ ToSet(t) \cap ToSet(out') = {} /\ ToSet(out) = ToSet(t) \cup ToSet(out')
        /\ ToSet(full) = ToSet(chunk) \cup ToSet(t)
    BY <2>1, CutApart DEF Cut, Joined, Order, Buffers
  <2>4. CASE /\ refused' = refused
             /\ \/ chunk' = full /\ pushing' = pushing
                \/ chunk' = <<>> /\ pushing' = full
    BY <2>2, <2>3, <2>4, QueueUnchanged, ToSetEmpty DEF Flow, Shift, Pend
  <2>5. CASE /\ chunk' = <<>> /\ pushing' = <<>>
             /\ refused' = refused \cup ToSet(full)
    <3>1. Pend' = Pend \ ToSet(full) /\ ToSet(full) \subseteq Pend
      BY <2>2, <2>3, <2>5, StagesApart, QueueUnchanged, ToSetEmpty DEF Pend
    <3>2. Counts(ToSet(full)) BY <2>2, <2>5, <3>1 DEF Counts
    <3>. QED BY <3>2 DEF Flow
  <2>. QED BY <2>1, <2>4, <2>5
<1>. QED BY <1>1, <1>2

\* A piece of a chunk goes to the queue, or is dropped.
LEMMA EnqueueFlow ==
  ASSUME Control, Buffers, Order, Enqueue
  PROVE  Flow
<1>1. PICK t \in Bytes :
        /\ Cut(pushing, t, pushing')
        /\ \/ queue' = Append(queue, t) /\ dropped' = dropped
           \/ queue' = queue /\ dropped' = dropped \cup ToSet(t)
  BY EnqueueMoves
<1>2. UNCHANGED <<hold, chunk, out, acc, raw, read, sent, taken, lost, refused>>
  BY DEF Enqueue
<1>3. /\ ToSet(t) \cap ToSet(pushing') = {}
      /\ ToSet(pushing) = ToSet(t) \cup ToSet(pushing')
  BY <1>1, CutApart DEF Cut, Order, Buffers
<1>4. CASE queue' = Append(queue, t) /\ dropped' = dropped
  <2>1. InQueue' = InQueue \cup ToSet(t) BY <1>4, AppendMoves DEF Buffers
  <2>. QED BY <1>2, <1>3, <1>4, <2>1 DEF Flow, Shift, Pend
<1>5. CASE queue' = queue /\ dropped' = dropped \cup ToSet(t)
  <2>1. Pend' = Pend \ ToSet(t) /\ ToSet(t) \subseteq Pend
    BY <1>2, <1>3, <1>5, StagesApart, QueueUnchanged DEF Pend
  <2>2. Counts(ToSet(t)) BY <1>2, <1>5, <2>1 DEF Counts
  <2>. QED BY <2>2 DEF Flow
<1>. QED BY <1>1, <1>4, <1>5

\* network_tx_task takes a piece from the queue, and sends, loses or drops of it.
LEMMA TxFlow ==
  ASSUME Control, Buffers, PlaceInv, Order, TxTask
  PROVE  Flow
<1> USE QueueUnchanged, ToSetEmpty
<1>1. CASE TxReceive
  <2>1. InQueue = ToSet(Head(queue)) \cup InQueue'
    BY <1>1, TailMoves DEF TxReceive, Buffers
  <2>2. /\ hold = <<>> /\ hold' = Head(queue)
        /\ UNCHANGED <<pushing, chunk, out, acc, raw, read, sent, taken, dropped,
                       lost, refused>>
    BY <1>1 DEF TxReceive, PlaceInv
  <2>. QED BY <2>1, <2>2 DEF Flow, Shift, Pend
<1>2. ASSUME NEW n \in 0..Len(hold), Handed(n)
      PROVE  /\ Pend' = Pend \ ToSet(Take(hold, n))
             /\ ToSet(Take(hold, n)) \subseteq Pend /\ Take(hold, n) \in Bytes
             /\ UNCHANGED <<read, taken, dropped, refused>>
  <2>1. Cut(hold, Take(hold, n), hold') BY <1>2, CutOf DEF Buffers, Handed
  <2>2. /\ ToSet(Take(hold, n)) \cap ToSet(hold') = {}
        /\ ToSet(hold) = ToSet(Take(hold, n)) \cup ToSet(hold')
        /\ Take(hold, n) \in Bytes
    BY <2>1, CutApart DEF Cut, Order, Buffers
  <2>3. UNCHANGED <<queue, pushing, chunk, out, acc, raw, read, taken, dropped,
                    refused>>
    BY <1>2 DEF Handed
  <2>. QED BY <2>2, <2>3, StagesApart DEF Pend
<1>3. CASE TxSent
  <2>1. PICK n \in 0..Len(hold) :
          sent' = sent \o Take(hold, n) /\ Handed(n) /\ lost' = lost
    BY <1>3 DEF TxSent
  <2>2. Hands(Take(hold, n)) /\ Take(hold, n) \in Bytes
    BY <1>2, <2>1 DEF Hands
  <2>. QED BY <2>2 DEF Flow
<1>4. CASE TxLost
  <2>1. PICK n \in 1..Len(hold) :
          lost' = lost \cup ToSet(Take(hold, n)) /\ Handed(n) /\ sent' = sent
    BY <1>4 DEF TxLost
  <2>2. n \in 0..Len(hold) BY <2>1
  <2>3. Counts(ToSet(Take(hold, n))) BY <1>2, <2>1, <2>2 DEF Counts
  <2>. QED BY <2>3 DEF Flow
<1>5. CASE TxDrop
  <2>1. /\ hold' = <<>> /\ dropped' = dropped \cup ToSet(hold)
        /\ UNCHANGED <<queue, pushing, chunk, out, acc, raw, read, sent, taken,
                       lost, refused>>
    BY <1>5 DEF TxDrop
  <2>2. Pend' = Pend \ ToSet(hold) /\ ToSet(hold) \subseteq Pend
    BY <2>1, StagesApart DEF Pend
  <2>3. Counts(ToSet(hold)) BY <2>1, <2>2 DEF Counts
  <2>. QED BY <2>3 DEF Flow
<1>. QED BY <1>1, <1>3, <1>4, <1>5 DEF TxTask

\* Every step is one that ByteChannel can see.
LEMMA StepsFlow ==
  ASSUME ReadIsShort, Control, Buffers, PlaceInv, spill = <<>>, Order,
         [Next]_vars
  PROVE  Flow
<1> USE QueueUnchanged, ToSetEmpty
<1>1. CASE IdleFlush \/ Gather BY <1>1, PushFlow
<1>2. CASE Read
  <2>1. /\ raw = <<>> /\ ToSet(raw') = (read + 1)..read'
        /\ UNCHANGED <<queue, hold, pushing, chunk, out, acc, sent, taken, dropped,
                       lost, refused>>
    BY <1>2, ReadMoves DEF Read, PlaceInv
  <2>2. Pend' = Pend \cup (read + 1)..read' BY <2>1 DEF Pend
  <2>3. read' > read
    <3>1. avail > read /\ read' = read + Min2(avail - read, ReadMax)
      BY <1>2 DEF Read
    <3>2. avail \in Nat /\ read \in Nat BY DEF Control
    <3>. QED BY <3>1, <3>2, SizeTypes DEF Min2
  <2>. QED BY <2>1, <2>2, <2>3 DEF Flow, Brings
<1>3. CASE FeedAt \/ FeedEscape \/ DrainFrame
  BY <1>3, TakenFlow DEF Flow
<1>4. CASE FeedData
  <2>1. /\ raw' = <<>>
        /\ UNCHANGED <<queue, hold, pushing, chunk, out, read, sent, taken,
                       dropped, refused>>
    BY <1>4 DEF FeedData
  <2>2. CASE acc' = acc \o raw /\ lost' = lost
    <3>1. ToSet(acc') = ToSet(acc) \cup ToSet(raw)
      BY <2>2, JoinOf DEF Buffers, Joined
    <3>. QED BY <2>1, <2>2, <3>1 DEF Flow, Shift, Pend
  <2>3. CASE acc' = raw /\ lost' = lost \cup ToSet(acc)
    <3>1. Pend' = Pend \ ToSet(acc) /\ ToSet(acc) \subseteq Pend
      BY <2>1, <2>3, StagesApart DEF Pend
    <3>2. Counts(ToSet(acc)) BY <2>1, <2>3, <3>1 DEF Counts
    <3>. QED BY <3>2 DEF Flow
  <2>. QED BY <1>4, <2>2, <2>3, FedWhole
<1>5. CASE DrainRun
  <2>1. Emit(Run(acc)) /\ Run(acc) \in 0..Len(acc)
    BY <1>5, RunBounds DEF DrainRun, Buffers, Bytes
  <2>. QED BY <1>5, <2>1, EmitFlow DEF DrainRun, Flow
<1>6. CASE DrainJunk
  <2>1. Emit(1) /\ 1 \in 0..Len(acc) BY <1>6 DEF DrainJunk, Buffers, Bytes
  <2>. QED BY <1>6, <2>1, EmitFlow DEF DrainJunk, Flow
<1>7. CASE Spill
  BY <1>7, SpillMoves DEF Spill, Flow, Shift, Pend
<1>8. CASE Enqueue BY <1>8, EnqueueFlow
<1>9. CASE TxTask BY <1>9, TxFlow
<1>10. CASE DrainEnds \/ Gathered \/ Pushed \/ Arrive \/ Reconfigure \/ SwitchAt
            \/ UNCHANGED vars
  BY <1>10 DEF DrainEnds, Gathered, Pushed, Arrive, Reconfigure, SwitchAt, vars,
         Flow, Shift, Pend
<1>. QED
  BY <1>1, <1>2, <1>3, <1>4, <1>5, <1>6, <1>7, <1>8, <1>9, <1>10
     DEF Next, RxTask

\* What is put behind a sequence has the sequence as a prefix.
LEMMA PrefixOfJoined ==
  ASSUME NEW S, NEW s \in Seq(S), NEW t \in Seq(S), t # <<>>
  PROVE  IsStrictPrefix(s, s \o t)
<1>1. Len(s \o t) = Len(s) + Len(t) /\ s \o t \in Seq(S) BY ToSetConcat
<1>2. Len(t) \in Nat /\ Len(t) # 0 /\ Len(s) \in Nat OBVIOUS
<1>3. Len(s) <= Len(s \o t) /\ s # s \o t BY <1>1, <1>2
<1>4. SubSeq(s, 1, Len(s)) = SubSeq(s \o t, 1, Len(s))
  <2>1. \A i \in 1..Len(s) : (s \o t)[i] = s[i] OBVIOUS
  <2>. QED BY <1>1, <1>2, <2>1
<1>. QED BY <1>3, <1>4 DEF IsStrictPrefix, IsPrefix

\* What a prefix holds the sequence holds.
LEMMA PrefixHolds ==
  ASSUME NEW S, NEW s \in Seq(S), NEW t \in Seq(S), Len(s) <= Len(t),
         SubSeq(s, 1, Len(s)) = SubSeq(t, 1, Len(s))
  PROVE  ToSet(s) \subseteq ToSet(t)
<1>1. \A i \in 1..Len(s) : i \in 1..Len(t) /\ s[i] = t[i]
  <2> TAKE i \in 1..Len(s)
  <2>1. i \in 1..Len(t) OBVIOUS
  <2>2. SubSeq(s, 1, Len(s))[i] = s[i] OBVIOUS
  <2>3. SubSeq(t, 1, Len(s))[i] = t[i] OBVIOUS
  <2>. QED BY <2>1, <2>2, <2>3
<1>2. ToSet(s) = {s[i] : i \in 1..Len(s)} BY ToSetOf
<1>3. ToSet(t) = {t[i] : i \in 1..Len(t)} BY ToSetOf
<1>. QED BY <1>1, <1>2, <1>3

\* A step of Flow is one of ByteChannel, or none.
LEMMA FlowIsStep ==
  ASSUME Control, Buffers, Order, Control', Buffers', Order', Flow
  PROVE  [Channel!Next]_(Channel!vars)
<1>1. OnTheWay \ ToSet(sent) = Pend BY PendingIs
<1>2. (OnTheWay \ ToSet(sent))' = Pend'
  <2>1. (Control /\ Buffers /\ Order => OnTheWay \ ToSet(sent) = Pend)'
    BY PendingIs, PTL
  <2>. QED BY <2>1
<1>3. CASE Shift BY <1>1, <1>2, <1>3 DEF Shift, Channel!vars
<1>4. CASE Brings
  BY <1>1, <1>2, <1>4 DEF Brings, Channel!Next, Channel!Accept
<1>5. ASSUME NEW t \in Bytes, Hands(t) PROVE [Channel!Next]_(Channel!vars)
  <2>1. CASE t = <<>>
    <3>1. sent' = sent BY <1>5, <2>1, ConcatEmptySeq DEF Hands, Buffers, Bytes
    <3>2. Pend' = Pend BY <1>5, <2>1, ToSetEmpty DEF Hands
    <3>. QED BY <1>1, <1>2, <1>5, <3>1, <3>2 DEF Hands, Channel!vars
  <2>2. CASE t # <<>>
    <3>1. Channel!IsStrictPrefix(sent, sent')
      <4>1. IsStrictPrefix(sent, sent')
        BY <1>5, <2>2, PrefixOfJoined DEF Hands, Buffers, Bytes
      <4>. QED
        BY <4>1 DEF IsStrictPrefix, IsPrefix, Channel!IsStrictPrefix,
                    Channel!IsPrefix
    <3>2. Channel!Increasing(sent')
      BY DEF Order, Sorted, Channel!Increasing
    <3>3. ToSet(sent') = ToSet(sent) \cup ToSet(t)
      <4>1. sent' = sent \o t BY <1>5 DEF Hands
      <4>2. sent \in Seq(1..read) /\ t \in Seq(1..read) BY DEF Buffers, Bytes
      <4>. QED BY ONLY <4>1, <4>2, ToSetConcat
    <3>4. ToSet(sent) \cap Pend = {} BY StagesApart
    <3>5. ToSet(sent') \ ToSet(sent) \subseteq Pend /\ Pend' = Pend \ ToSet(sent')
      BY ONLY <1>5, <3>3, <3>4 DEF Hands
    <3>6. UNCHANGED <<read, taken, dropped, lost, refused>> BY <1>5 DEF Hands
    <3>7. Channel!Deliver
      BY <1>1, <1>2, <3>1, <3>2, <3>5, <3>6 DEF Channel!Deliver, ToSet, Channel!ToSet
    <3>. QED BY <3>7 DEF Channel!Next
  <2>. QED BY <2>1, <2>2
<1>6. ASSUME NEW gone, Counts(gone) PROVE [Channel!Next]_(Channel!vars)
  <2>1. CASE gone = {}
    BY <1>1, <1>2, <1>6, <2>1 DEF Counts, Channel!vars
  <2>2. CASE gone # {}
    <3>1. Pend \ Pend' = gone /\ Pend' \subseteq Pend BY <1>6 DEF Counts
    <3>. QED
      BY <1>1, <1>2, <1>6, <2>2, <3>1 DEF Counts, Channel!Next, Channel!Withhold
  <2>. QED BY <2>1, <2>2
<1>. QED BY <1>3, <1>4, <1>5, <1>6 DEF Flow

\* As long as no read is as long as the accumulator, rs485_rx_task,
\* config_ingress_feed, net_tx_queue and network_tx_task implement ByteChannel:
\* what is sent is only added to, in the order of the bus, and what has become of a
\* byte is final.
THEOREM BridgeKeepsBytes == Spec /\ []ReadIsShort => ChannelRefined
<1>1. Init => Channel!Init
  <2> SUFFICES ASSUME Init PROVE Channel!Init
    OBVIOUS
  <2>1. Pend = {}
    <3>1. InQueue = {} BY DEF Init, InQueue
    <3>. QED BY <3>1, ToSetEmpty DEF Init, Pend
  <2>2. OnTheWay \ ToSet(sent) = {} BY <2>1, Begins, PendingIs
  <2>. QED BY <2>2 DEF Init, Channel!Init
<1>2. /\ ReadIsShort /\ BaseInv /\ BytesInv /\ BaseInv' /\ BytesInv' /\ [Next]_vars
      => [Channel!Next]_(Channel!vars)
  BY StepsFlow, FlowIsStep DEF BaseInv, BytesInv
<1>3. QED
  BY <1>1, <1>2, IngressInvariant, BytesInvariant, PTL
     DEF Spec, ChannelRefined, Channel!Spec

\* As long as no read is as long as the accumulator, each byte read is on its way,
\* was sent, held back, dropped, lost or refused, and only one of these: none is
\* passed on twice, and none that was counted as dropped reaches the network.
THEOREM EachByteHasOneFate == Spec /\ []ReadIsShort => []Channel!OneFate
<1> USE DEF Channel!OneFate, Channel!ToSet
<1>1. Init /\ Channel!Init => Channel!OneFate
  BY DEF Init, Channel!Init
<1>2. BaseInv /\ BaseInv' /\ Channel!OneFate /\ [Channel!Next]_(Channel!vars)
      => Channel!OneFate'
  <2> SUFFICES ASSUME BaseInv, BaseInv', Channel!OneFate,
                      [Channel!Next]_(Channel!vars)
               PROVE  Channel!OneFate'
    OBVIOUS
  <2>1. CASE Channel!Accept
    <3>1. /\ 1..read' = 1..read \cup (read + 1)..read'
          /\ 1..read \cap (read + 1)..read' = {}
      BY <2>1 DEF Channel!Accept, BaseInv, Control
    <3>. QED BY <2>1, <3>1 DEF Channel!Accept
  <2>2. CASE Channel!Deliver
    <3>1. ToSet(sent) \subseteq ToSet(sent')
      <4>1. sent \in Seq(1..read) /\ sent' \in Seq(1..read)
        BY <2>2 DEF BaseInv, Buffers, Bytes, Channel!Deliver
      <4>2. /\ Len(sent) <= Len(sent')
            /\ SubSeq(sent, 1, Len(sent)) = SubSeq(sent', 1, Len(sent))
        BY <2>2
           DEF Channel!Deliver, Channel!IsStrictPrefix, Channel!IsPrefix
      <4>. QED BY ONLY <4>1, <4>2, PrefixHolds
    <3>. QED BY <2>2, <3>1 DEF Channel!Deliver, ToSet
  <2>3. CASE Channel!Withhold BY <2>3 DEF Channel!Withhold
  <2>4. CASE UNCHANGED Channel!vars BY <2>4 DEF Channel!vars
  <2>. QED BY <2>1, <2>2, <2>3, <2>4 DEF Channel!Next
<1>3. Spec /\ []ReadIsShort => Channel!Spec BY BridgeKeepsBytes DEF ChannelRefined
<1>4. QED BY <1>1, <1>2, <1>3, IngressInvariant, PTL DEF Spec, Channel!Spec
-----------------------------------------------------------------------------
(* What is held back *)

\* The i-th of ordered bytes has i of them up to it.
LEMMA RankOf ==
  ASSUME NEW t \in Seq(Nat), Sorted(t), NEW i \in 1..Len(t)
  PROVE  Cardinality({y \in ToSet(t) : y <= t[i]}) = i
<1> DEFINE R == {y \in ToSet(t) : y <= t[i]}
           f == [j \in 1..i |-> t[j]]
<1>1. ToSet(t) = {t[j] : j \in 1..Len(t)} BY ToSetOf
<1>2. \A j \in 1..Len(t) : t[j] \in Nat OBVIOUS
<1>3. \A j \in 1..Len(t) : t[j] <= t[i] <=> j <= i
  <2> TAKE j \in 1..Len(t)
  <2>1. j < i => t[j] < t[i] BY DEF Sorted
  <2>2. i < j => t[i] < t[j] BY DEF Sorted
  <2>3. j = i => t[j] <= t[i] BY <1>2
  <2>. QED BY <1>2, <2>1, <2>2, <2>3
<1>4. \A j \in 1..i : j \in 1..Len(t) OBVIOUS
<1>5. R = {t[j] : j \in 1..i}
  <2>1. R \subseteq {t[j] : j \in 1..i}
    <3> SUFFICES ASSUME NEW y \in R PROVE y \in {t[j] : j \in 1..i}
      OBVIOUS
    <3>1. PICK j \in 1..Len(t) : y = t[j] BY <1>1
    <3>2. j \in 1..i BY <1>3, <3>1
    <3>. QED BY <3>1, <3>2
  <2>2. \A j \in 1..i : t[j] \in R BY <1>1, <1>3, <1>4
  <2>. QED BY <2>1, <2>2
<1>6. f \in Bijection(1..i, R)
  <2>1. f \in [1..i -> R] BY <1>5
  <2>2. \A j, k \in 1..i : f[j] = f[k] => j = k
    <3> TAKE j, k \in 1..i
    <3>1. j < k => t[j] < t[k] BY <1>4 DEF Sorted
    <3>2. k < j => t[k] < t[j] BY <1>4 DEF Sorted
    <3>. QED BY <1>2, <1>4, <3>1, <3>2
  <2>3. \A y \in R : \E j \in 1..i : f[j] = y BY <1>5
  <2>. QED BY <2>1, <2>2, <2>3, Fun_IsBij
<1>7. ExistsBijection(1..i, R) BY <1>6 DEF ExistsBijection
<1>8. i \in Nat OBVIOUS
<1>. QED BY <1>7, <1>8, FS_CountingElements

\* Ordered bytes that are held back together are HeldBack.
LEMMA HeldBackIs ==
  ASSUME NEW t \in Seq(Nat), Sorted(t), taken' \ taken = ToSet(t), t # <<>>
  PROVE  HeldBack = t
<1> DEFINE new == taken' \ taken
           rank(x) == Cardinality({y \in new : y <= x})
<1>1. new = {t[j] : j \in 1..Len(t)} BY ToSetOf
<1>2. \A i \in 1..Len(t) : rank(t[i]) = i BY RankOf
<1>3. Cardinality(new) = Len(t)
  <2>1. Len(t) \in 1..Len(t) BY EmptySeq, LenProperties
  <2>2. \A y \in ToSet(t) : y <= t[Len(t)]
    <3>1. \A j \in 1..Len(t) : t[j] <= t[Len(t)]
      <4> TAKE j \in 1..Len(t)
      <4>1. j < Len(t) => t[j] < t[Len(t)] BY <2>1 DEF Sorted
      <4>2. t[j] \in Nat /\ t[Len(t)] \in Nat BY <2>1
      <4>. QED BY <4>1, <4>2
    <3>. QED BY <3>1, ToSetOf
  <2>3. new = {y \in new : y <= t[Len(t)]} BY <2>2
  <2>. QED BY <1>2, <2>1, <2>3
<1>4. \A i \in 1..Len(t) : (CHOOSE x \in new : rank(x) = i) = t[i]
  <2> TAKE i \in 1..Len(t)
  <2>1. t[i] \in new /\ rank(t[i]) = i BY <1>1, <1>2
  <2>2. \A x \in new : rank(x) = i => x = t[i]
    <3> SUFFICES ASSUME NEW x \in new, rank(x) = i PROVE x = t[i]
      OBVIOUS
    <3>1. PICK j \in 1..Len(t) : x = t[j] BY <1>1
    <3>2. j = i BY <1>2, <3>1
    <3>. QED BY <3>1, <3>2
  <2> HIDE DEF new, rank
  <2>. QED BY <2>1, <2>2
<1>5. HeldBack = [i \in 1..Cardinality(new) |-> CHOOSE x \in new : rank(x) = i]
  BY DEF HeldBack
<1> HIDE DEF new, rank
<1>6. HeldBack = [i \in 1..Len(t) |-> t[i]] BY <1>3, <1>4, <1>5
<1>. QED BY <1>6

\* What the parser calls a frame is one.
LEMMA ParsedIsFrame ==
  ASSUME wire \in Seq(Nat), NEW s \in Seq(1..Len(wire)), s # <<>>,
         wire[s[1]] = Sync0, TryParse(s).kind = "frame"
  PROVE  LET n == TryParse(s).used IN n \in 1..Len(s) /\ IsFrame(Take(s, n))
<1> DEFINE n == TryParse(s).used
<1>1. n \in 0..Len(s) BY FrameUsed
<1>2. /\ ~(Len(s) < 2) /\ wire[s[2]] = Sync1 /\ ~(Len(s) < HeaderSize)
      /\ n = HeaderSize + wire[s[3]] + 1 /\ wire[s[n]] = Good
  <2>1. ~(Len(s) < 2) BY DEF TryParse
  <2>2. wire[s[2]] = Sync1 BY <2>1 DEF TryParse
  <2>3. ~(Len(s) < HeaderSize) BY <2>1, <2>2 DEF TryParse
  <2>4. ~(wire[s[3]] > MaxPayload) BY <2>1, <2>2, <2>3 DEF TryParse
  <2>5. ~(Len(s) < HeaderSize + wire[s[3]] + 1)
    BY <2>1, <2>2, <2>3, <2>4 DEF TryParse
  <2>6. wire[s[HeaderSize + wire[s[3]] + 1]] = Good
    BY <2>1, <2>2, <2>3, <2>4, <2>5 DEF TryParse
  <2>7. n = HeaderSize + wire[s[3]] + 1
    BY <2>1, <2>2, <2>3, <2>4, <2>5, <2>6 DEF TryParse
  <2>. QED BY ONLY <2>1, <2>2, <2>3, <2>6, <2>7
<1>3. wire[s[3]] \in Nat
  <2>1. 3 \in 1..Len(s) BY <1>2, SizeTypes
  <2>2. s[3] \in 1..Len(wire) BY <2>1
  <2>. QED BY ONLY <2>2, wire \in Seq(Nat)
<1> HIDE DEF n
<1>4. n \in 1..Len(s) /\ n > HeaderSize /\ n - HeaderSize - 1 = wire[s[3]]
  <2>1. Len(s) \in Nat OBVIOUS
  <2>2. n = 3 + wire[s[3]] + 1 /\ HeaderSize = 3 BY <1>2, SizeTypes
  <2> DEFINE b == wire[s[3]]
             L == Len(s)
  <2>3. n \in 0..L /\ b \in Nat /\ L \in Nat /\ n = 3 + b + 1
    BY <1>1, <1>3, <2>1, <2>2
  <2> HIDE DEF b, L
  <2>4. n \in 1..L /\ n > 3 /\ n - 3 - 1 = b BY ONLY <2>3
  <2>. QED BY <2>2, <2>4 DEF b, L
<1>5. /\ Len(Take(s, n)) = n
      /\ \A i \in 1..n : Take(s, n)[i] = s[i]
  BY <1>1, TakeSkip
<1>6. 1 \in 1..n /\ 2 \in 1..n /\ 3 \in 1..n /\ n \in 1..n
  BY <1>4, SizeTypes
<1>7. IsFrame(Take(s, n)) BY <1>2, <1>4, <1>5, <1>6 DEF IsFrame
<1>. QED BY <1>4, <1>7 DEF n

\* As long as no read is as long as the accumulator, outside an AT session nothing
\* is held back but valid frames, each as it lies in the accumulator: header,
\* length and check byte.
THEOREM FramesAreHeldBack == Spec /\ []ReadIsShort => OnlyFramesHeldBack
<1> DEFINE Framed == ~at /\ ~at' /\ taken' # taken => IsFrame(HeldBack)
<1>1. BaseInv /\ BytesInv /\ Channel!OneFate /\ [Next]_vars => [Framed]_vars
  <2> SUFFICES ASSUME BaseInv, BytesInv, Channel!OneFate, [Next]_vars,
                      ~at, ~at', taken' # taken
               PROVE  IsFrame(HeldBack)
    OBVIOUS
  <2> USE DEF BaseInv, BytesInv
  <2>1. DrainFrame
    BY DEF Next, RxTask, IdleFlush, Read, FeedAt, FeedEscape, FeedData, DrainRun,
           DrainJunk, DrainEnds, Spill, Gather, Gathered, Enqueue, Pushed,
           Arrive, TxTask, TxReceive, TxSent, TxLost, TxDrop, Handed,
           Reconfigure, SwitchAt, vars
  <2> DEFINE n == TryParse(acc).used
             t == Take(acc, n)
  <2>2. n \in 1..Len(acc) /\ IsFrame(t)
    BY <2>1, ParsedIsFrame, BytesOfWire DEF DrainFrame, Control, Buffers
  <2>3. taken' = taken \cup ToSet(t) BY <2>1 DEF DrainFrame
  <2> HIDE DEF n
  <2>4. Cut(acc, t, Skip(acc, n)) BY <2>2, CutOf DEF Buffers
  <2>5. t \in Seq(Nat) /\ Sorted(t) /\ ToSet(t) \subseteq ToSet(acc)
    BY <2>4, BytesOfWire DEF Cut, Order
  <2>6. ToSet(acc) \cap taken = {}
    <3>1. ToSet(acc) \subseteq OnTheWay \ ToSet(sent)
      BY PendingIs DEF Pend
    <3>. QED BY <3>1 DEF Channel!OneFate
  <2>7. taken' \ taken = ToSet(t) BY <2>3, <2>5, <2>6
  <2>8. t # <<>> BY <2>3, ToSetEmpty
  <2> HIDE DEF t
  <2>9. HeldBack = t BY <2>5, <2>7, <2>8, HeldBackIs
  <2>. QED BY <2>2, <2>9
<1>2. QED
  BY <1>1, IngressInvariant, BytesInvariant, EachByteHasOneFate, PTL
     DEF Spec, OnlyFramesHeldBack
=============================================================================
