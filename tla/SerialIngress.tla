---------------------------- MODULE SerialIngress ----------------------------
(***************************************************************************)
(* The way from RS485 to the network: rs485_rx_task (rs485_uart.cpp) reads *)
(* UART0, config_ingress_feed (config_ingress.cpp) holds binary config     *)
(* frames back and lets everything else through, the task gathers what     *)
(* comes through into chunks and puts them into net_tx_queue, from which   *)
(* network_tx_task (network_bridge.cpp) sends them, as far as it can.      *)
(*                                                                         *)
(* A byte is known by its position in `wire', the bytes on the bus; what   *)
(* it is decides only how the frame parser takes it.  Frames are           *)
(* Sync0 Sync1 <length> <payload> <check>: the header is shorter than in   *)
(* the code (3 bytes for kConfigHeaderSize = 20), the check is one byte    *)
(* that is right (Good) or not, in place of the CRC, and the byte Esc      *)
(* stands for the text +++CFG:<UID>\r.  One pass through the while loop of *)
(* drain_acc, and through the chunk loop of the task, is one action.       *)
(***************************************************************************)
EXTENDS Naturals, Sequences, FiniteSets, SequencesExt

CONSTANTS
  Wires,       \* the byte sequences the bus may carry
  MaxPayload,  \* kConfigMaxPayload
  AccMax,      \* kAccMax
  ReadMax,     \* sizeof(raw): the most one read returns
  ChunkMax,    \* kBridgeChunkMax, also the size of bridge_buf
  QueueLen,    \* length of net_tx_queue
  PacketSizes  \* values packet_size takes while the module runs

ASSUME WireAssumption == Wires \subseteq Seq(Nat)
ASSUME SizeAssumption ==
  /\ {MaxPayload, AccMax, ReadMax, ChunkMax, QueueLen} \subseteq Nat \ {0}
  /\ PacketSizes \subseteq 1..ChunkMax /\ PacketSizes # {}

\* Values of bytes: lengths up to MaxPayload, and five above them.
Sync0 == MaxPayload + 1
Sync1 == MaxPayload + 2
Good == MaxPayload + 3
Other == MaxPayload + 4
Esc == MaxPayload + 5

HeaderSize == 3
MaxFrame == HeaderSize + MaxPayload + 1

VARIABLES
  wire,     \* what the bus carries in this behaviour
  avail,    \* how many of its bytes have arrived in the UART buffer
  read,     \* how many the task has read
  pc,       \* where rs485_rx_task stands
  raw,      \* the read being fed to config_ingress_feed
  acc,      \* g_uart_acc.buf
  spill,    \* the part of the read that append_acc_safe left out
  out,      \* bridge_buf
  limit,    \* max_chunk
  chunk,    \* chunk.data
  pushing,  \* what bridge_push_to_net still has to enqueue
  queue,    \* net_tx_queue
  txpc,     \* where network_tx_task stands
  hold,     \* the chunk it has received, as far as nothing was done with it
  sent,     \* what the network has been handed, in this order
  taken,    \* bytes held back: config frames and AT input
  dropped,  \* bytes counted in net_tx_drops
  lost,     \* bytes that are gone without being counted
  refused,  \* bytes bridge_push_to_net refuses: bridge off or AT mode
  packet,   \* cfg.packet_size
  open,     \* cfg.bridge_enabled /\ cfg.rs485_rx_allowed
  at        \* at_command_mode() == At

vars == <<wire, avail, read, pc, raw, acc, spill, out, limit, chunk, pushing,
          queue, txpc, hold, sent, taken, dropped, lost, refused, packet, open,
          at>>

Min2(a, b) == IF a < b THEN a ELSE b
Skip(s, n) == SubSeq(s, n + 1, Len(s))
Take(s, n) == SubSeq(s, 1, n)

\* Length of the longest prefix of s without a Sync0.
Run(s) ==
  Cardinality({n \in DOMAIN s : \A i \in 1..n : wire[s[i]] # Sync0})
-----------------------------------------------------------------------------
\* The check byte is not looked at.
BugTryParse(s) ==
  LET b(i) == wire[s[i]] IN
  IF Len(s) < 2 THEN [kind |-> "more", used |-> 0]
  ELSE IF b(2) # Sync1 THEN [kind |-> "junk", used |-> 1]
  ELSE IF Len(s) < HeaderSize THEN [kind |-> "more", used |-> 0]
  ELSE IF b(3) > MaxPayload THEN [kind |-> "junk", used |-> 1]
  ELSE IF Len(s) < HeaderSize + b(3) + 1 THEN [kind |-> "more", used |-> 0]
  ELSE [kind |-> "frame", used |-> HeaderSize + b(3) + 1]

\* config_frame_try_parse on a buffer that starts with Sync0.
TryParse(s) ==
  LET b(i) == wire[s[i]]
      total == HeaderSize + b(3) + 1
      junk == [kind |-> "junk", used |-> 1]
      more == [kind |-> "more", used |-> 0]
  IN  IF Len(s) < 2 THEN more
      ELSE IF b(2) # Sync1 THEN junk
      ELSE IF Len(s) < HeaderSize THEN more
      ELSE IF b(3) > MaxPayload THEN junk
      ELSE IF Len(s) < total THEN more
      ELSE IF b(total) # Good THEN junk
      ELSE [kind |-> "frame", used |-> total]

\* New bytes are put in front of the waiting ones.
BugAppendAcc(a, s) == [acc |-> s \o a, spill |-> <<>>, wiped |-> <<>>]

\* append_acc_safe: a read as long as the buffer replaces it by the last bytes
\* of the read and leaves out the first ones; one that no longer fits behind
\* the bytes that wait there wipes them out.
AppendAcc(a, s) ==
  LET over == Len(s) - (AccMax - 1) IN
  IF Len(s) >= AccMax
  THEN [acc |-> Skip(s, over), spill |-> Take(s, over), wiped |-> a]
  ELSE IF Len(a) + Len(s) > AccMax
  THEN [acc |-> s, spill |-> <<>>, wiped |-> a]
  ELSE [acc |-> a \o s, spill |-> <<>>, wiped |-> <<>>]

Init ==
  /\ wire \in Wires /\ packet \in PacketSizes
  /\ avail = 0 /\ read = 0 /\ pc = "idle"
  /\ raw = <<>> /\ acc = <<>> /\ spill = <<>> /\ out = <<>> /\ chunk = <<>>
  /\ limit = packet /\ pushing = <<>> /\ queue = <<>> /\ sent = <<>>
  /\ txpc = "idle" /\ hold = <<>>
  /\ taken = {} /\ dropped = {} /\ lost = {} /\ refused = {}
  /\ open = TRUE /\ at = FALSE
-----------------------------------------------------------------------------
(* rs485_rx_task *)

\* bridge_push_to_net starts: the bytes go no further while the bridge is
\* closed or an AT session runs.  Either way the chunk is empty afterwards.
PushFrom(s) ==
  /\ chunk' = <<>>
  /\ IF open /\ ~at
     THEN pushing' = s /\ UNCHANGED refused
     ELSE pushing' = <<>> /\ refused' = refused \cup ToSet(s)

\* Only a full chunk is pushed when the bus is quiet.
BugIdleFlush ==
  /\ pc = "idle" /\ avail = read /\ Len(chunk) >= limit
  /\ PushFrom(chunk) /\ pc' = "pushIdle"
  /\ UNCHANGED <<wire, avail, read, raw, acc, spill, out, limit, queue, txpc,
                 hold, sent, taken, dropped, lost, packet, open, at>>

\* Nothing to read, and the bus has been quiet for packet_timeout_ms.
IdleFlush ==
  /\ pc = "idle" /\ avail = read /\ chunk # <<>>
  /\ PushFrom(chunk) /\ pc' = "pushIdle"
  /\ UNCHANGED <<wire, avail, read, raw, acc, spill, out, limit, queue, txpc,
                 hold, sent, taken, dropped, lost, packet, open, at>>

\* Everything available is read, whatever the size of the buffer.
BugRead ==
  /\ pc = "idle" /\ avail > read
  /\ raw' = [i \in 1..avail - read |-> read + i] /\ read' = avail
  /\ limit' = packet /\ pc' = "feed"
  /\ UNCHANGED <<wire, avail, acc, spill, out, chunk, pushing, queue, txpc,
                 hold, sent, taken, dropped, lost, refused, packet, open, at>>

\* The top of the loop: max_chunk is fixed for the round, the bytes are read.
Read ==
  /\ pc = "idle" /\ avail > read
  /\ LET n == Min2(avail - read, ReadMax) IN
     /\ raw' = [i \in 1..n |-> read + i]
     /\ read' = read + n
  /\ limit' = packet
  /\ pc' = "feed"
  /\ UNCHANGED <<wire, avail, acc, spill, out, chunk, pushing, queue, txpc,
                 hold, sent, taken, dropped, lost, refused, packet, open, at>>

\* config_ingress_feed in AT mode: the bytes belong to the session.
FeedAt ==
  /\ pc = "feed" /\ at
  /\ taken' = taken \cup ToSet(raw) /\ raw' = <<>> /\ pc' = "idle"
  /\ UNCHANGED <<wire, avail, read, acc, spill, out, limit, chunk, pushing,
                 queue, txpc, hold, sent, dropped, lost, refused, packet, open,
                 at>>

\* After a quiet time the escape text in a read that does not look like a
\* frame opens a session; the whole read is consumed by it.
FeedEscape ==
  /\ pc = "feed" /\ ~at
  /\ ~(Len(raw) >= 2 /\ wire[raw[1]] = Sync0 /\ wire[raw[2]] = Sync1)
  /\ \E i \in DOMAIN raw : wire[raw[i]] = Esc
  /\ at' = TRUE
  /\ taken' = taken \cup ToSet(raw) /\ raw' = <<>> /\ pc' = "idle"
  /\ UNCHANGED <<wire, avail, read, acc, spill, out, limit, chunk, pushing,
                 queue, txpc, hold, sent, dropped, lost, refused, packet,
                 open>>

FeedData ==
  /\ pc = "feed" /\ ~at
  /\ LET fed == AppendAcc(acc, raw) IN
     acc' = fed.acc /\ spill' = fed.spill /\ lost' = lost \cup ToSet(fed.wiped)
  /\ raw' = <<>> /\ pc' = "drain"
  /\ UNCHANGED <<wire, avail, read, out, limit, chunk, pushing, queue, txpc,
                 hold, sent, taken, dropped, refused, packet, open, at>>

\* emit_bridge: n bytes of acc go to bridge_buf, as far as there is room.
Emit(n) ==
  /\ out' = out \o Take(acc, Min2(n, ChunkMax - Len(out)))
  /\ acc' = Skip(acc, Min2(n, ChunkMax - Len(out)))

DrainRun ==
  /\ pc = "drain" /\ acc # <<>> /\ wire[acc[1]] # Sync0
  /\ Emit(Run(acc))
  /\ pc' = IF Run(acc) > ChunkMax - Len(out) THEN "spill" ELSE "drain"
  /\ UNCHANGED <<wire, avail, read, raw, spill, limit, chunk, pushing, queue,
                 txpc, hold, sent, taken, dropped, lost, refused, packet, open,
                 at>>

\* A valid frame goes to config_handle_frame, whomever it is addressed to.
DrainFrame ==
  /\ pc = "drain" /\ acc # <<>> /\ wire[acc[1]] = Sync0
  /\ TryParse(acc).kind = "frame"
  /\ LET n == TryParse(acc).used IN
     /\ taken' = taken \cup ToSet(Take(acc, n))
     /\ acc' = Skip(acc, n)
  /\ UNCHANGED <<wire, avail, read, pc, raw, spill, out, limit, chunk, pushing,
                 queue, txpc, hold, sent, dropped, lost, refused, packet, open,
                 at>>

\* The sync byte of an invalid frame is skipped without being bridged.
BugDrainJunk ==
  /\ pc = "drain" /\ acc # <<>> /\ wire[acc[1]] = Sync0
  /\ TryParse(acc).kind = "junk"
  /\ acc' = Tail(acc)
  /\ UNCHANGED <<wire, avail, read, pc, raw, spill, out, limit, chunk, pushing,
                 queue, txpc, hold, sent, taken, dropped, lost, refused,
                 packet, open, at>>

DrainJunk ==
  /\ pc = "drain" /\ acc # <<>> /\ wire[acc[1]] = Sync0
  /\ TryParse(acc).kind = "junk"
  /\ Emit(1)
  /\ pc' = IF Len(out) = ChunkMax THEN "spill" ELSE "drain"
  /\ UNCHANGED <<wire, avail, read, raw, spill, limit, chunk, pushing, queue,
                 txpc, hold, sent, taken, dropped, lost, refused, packet, open,
                 at>>

DrainEnds ==
  /\ pc = "drain"
  /\ acc # <<>> => wire[acc[1]] = Sync0 /\ TryParse(acc).kind = "more"
  /\ pc' = "spill"
  /\ UNCHANGED <<wire, avail, read, raw, acc, spill, out, limit, chunk,
                 pushing, queue, txpc, hold, sent, taken, dropped, lost,
                 refused, packet, open, at>>

\* What append_acc_safe left out follows behind what was drained; what of it
\* does not fit goes behind the accumulator, unless bridge_buf was full before.
\* With nothing to bridge the round is over.
Spill ==
  /\ pc = "spill"
  /\ LET n == Min2(Len(spill), ChunkMax - Len(out))
         rest == Skip(spill, n)
         kept == AppendAcc(acc, rest)
     IN  /\ out' = out \o Take(spill, n)
         /\ IF Len(out) < ChunkMax /\ n < Len(spill)
            THEN /\ acc' = kept.acc
                 /\ lost' = lost \cup ToSet(kept.wiped) \cup ToSet(kept.spill)
            ELSE acc' = acc /\ lost' = lost \cup ToSet(rest)
  /\ spill' = <<>>
  /\ pc' = IF out' = <<>> THEN "idle" ELSE "chunk"
  /\ UNCHANGED <<wire, avail, read, raw, limit, chunk, pushing, queue, txpc,
                 hold, sent, taken, dropped, refused, packet, open, at>>

\* One pass of the chunk loop.  The space is unsigned: it wraps to a number
\* beyond any read when the chunk is longer than max_chunk.
Gather ==
  /\ pc = "chunk" /\ out # <<>>
  /\ LET n == IF limit < Len(chunk) THEN Len(out)
              ELSE Min2(limit - Len(chunk), Len(out))
         full == chunk \o Take(out, n)
     IN  /\ out' = Skip(out, n)
         /\ IF Len(full) >= limit
            THEN PushFrom(full) /\ pc' = "push"
            ELSE chunk' = full /\ UNCHANGED <<pushing, refused, pc>>
  /\ UNCHANGED <<wire, avail, read, raw, acc, spill, limit, queue, txpc, hold,
                 sent, taken, dropped, lost, packet, open, at>>

\* What is still pending waits for the next read.
BugGathered ==
  /\ pc = "chunk" /\ out = <<>> /\ pc' = "idle"
  /\ UNCHANGED <<wire, avail, read, raw, acc, spill, out, limit, chunk,
                 pushing, queue, txpc, hold, sent, taken, dropped, lost,
                 refused, packet, open, at>>

\* bridge_buf is used up; the task drains what is still pending, if anything.
Gathered ==
  /\ pc = "chunk" /\ out = <<>>
  /\ pc' = IF acc = <<>> THEN "idle" ELSE "drain"
  /\ UNCHANGED <<wire, avail, read, raw, acc, spill, out, limit, chunk,
                 pushing, queue, txpc, hold, sent, taken, dropped, lost,
                 refused, packet, open, at>>

\* The loop of bridge_push_to_net: a piece is enqueued, or is dropped and
\* counted when the queue stays full for 20 ms.
Enqueue ==
  /\ pc \in {"push", "pushIdle"} /\ pushing # <<>>
  /\ LET piece == Take(pushing, Min2(Len(pushing), ChunkMax)) IN
     /\ pushing' = Skip(pushing, Len(piece))
     /\ IF Len(queue) < QueueLen
        THEN queue' = Append(queue, piece) /\ UNCHANGED dropped
        ELSE dropped' = dropped \cup ToSet(piece) /\ UNCHANGED queue
  /\ UNCHANGED <<wire, avail, read, pc, raw, acc, spill, out, limit, chunk,
                 txpc, hold, sent, taken, lost, refused, packet, open, at>>

Pushed ==
  /\ pc \in {"push", "pushIdle"} /\ pushing = <<>>
  /\ pc' = IF pc = "push" THEN "chunk" ELSE "idle"
  /\ UNCHANGED <<wire, avail, read, raw, acc, spill, out, limit, chunk,
                 pushing, queue, txpc, hold, sent, taken, dropped, lost,
                 refused, packet, open, at>>

RxTask ==
  \/ IdleFlush \/ Read \/ FeedAt \/ FeedEscape \/ FeedData
  \/ DrainRun \/ DrainFrame \/ DrainJunk \/ DrainEnds \/ Spill
  \/ Gather \/ Gathered \/ Enqueue \/ Pushed
-----------------------------------------------------------------------------
(* network_tx_task *)

\* It receives a chunk.  What it does not even try to send, for want of a link,
\* a peer or the mutex, is dropped; it does not ask for the AT mode.
TxReceive ==
  /\ txpc = "idle" /\ queue # <<>>
  /\ hold' = Head(queue) /\ queue' = Tail(queue)
  /\ txpc' \in {"drop"} \cup (IF open THEN {"send"} ELSE {})
  /\ UNCHANGED <<wire, avail, read, pc, raw, acc, spill, out, limit, chunk,
                 pushing, sent, taken, dropped, lost, refused, packet, open,
                 at>>

\* The first n bytes are handed over, the rest is dropped.
Handed(n) ==
  /\ hold' = Skip(hold, n)
  /\ txpc' = IF n = Len(hold) THEN "idle" ELSE "drop"
  /\ UNCHANGED <<wire, avail, read, pc, raw, acc, spill, out, limit, chunk,
                 pushing, queue, taken, dropped, refused, packet, open, at>>

\* A send that stops half way is counted with all bytes of the chunk.
BugTxSent ==
  /\ txpc = "send"
  /\ \E n \in 0..Len(hold) :
       /\ sent' = sent \o Take(hold, n)
       /\ hold' = IF n = Len(hold) THEN <<>> ELSE hold
       /\ txpc' = IF n = Len(hold) THEN "idle" ELSE "drop"
  /\ UNCHANGED <<wire, avail, read, pc, raw, acc, spill, out, limit, chunk,
                 pushing, queue, taken, dropped, lost, refused, packet, open,
                 at>>

\* tcp_send_all or the datagram takes bytes from the front of the chunk.
TxSent ==
  /\ txpc = "send"
  /\ \E n \in 0..Len(hold) : sent' = sent \o Take(hold, n) /\ Handed(n)
  /\ UNCHANGED lost

\* endPacket fails: what the datagram took is neither sent nor counted.
TxLost ==
  /\ txpc = "send"
  /\ \E n \in 1..Len(hold) : lost' = lost \cup ToSet(Take(hold, n)) /\ Handed(n)
  /\ UNCHANGED sent

\* system_monitor_inc_net_tx_drop.
TxDrop ==
  /\ txpc = "drop" /\ txpc' = "idle"
  /\ dropped' = dropped \cup ToSet(hold) /\ hold' = <<>>
  /\ UNCHANGED <<wire, avail, read, pc, raw, acc, spill, out, limit, chunk,
                 pushing, queue, sent, taken, lost, refused, packet, open, at>>

TxTask == TxReceive \/ TxSent \/ TxLost \/ TxDrop
-----------------------------------------------------------------------------
(* Surroundings *)

\* A byte arrives on the bus.
Arrive ==
  /\ avail < Len(wire) /\ avail' = avail + 1
  /\ UNCHANGED <<wire, read, pc, raw, acc, spill, out, limit, chunk, pushing,
                 queue, txpc, hold, sent, taken, dropped, lost, refused,
                 packet, open, at>>

\* Web, AT or binary commands change the settings the task reads.
Reconfigure ==
  /\ packet' \in PacketSizes /\ open' \in BOOLEAN
  /\ <<packet', open'>> # <<packet, open>>
  /\ UNCHANGED <<wire, avail, read, pc, raw, acc, spill, out, limit, chunk,
                 pushing, queue, txpc, hold, sent, taken, dropped, lost,
                 refused, at>>

\* A session is opened over UDP, or ends by AT+EXIT or after 30 s.
SwitchAt ==
  /\ at' = ~at
  /\ UNCHANGED <<wire, avail, read, pc, raw, acc, spill, out, limit, chunk,
                 pushing, queue, txpc, hold, sent, taken, dropped, lost,
                 refused, packet, open>>

Next == RxTask \/ TxTask \/ Arrive \/ Reconfigure \/ SwitchAt

Spec == Init /\ [][Next]_vars

\* The task is scheduled again and again; nothing makes bytes arrive, and as a
\* full queue drops what is pushed nothing depends on network_tx_task.
FairSpec == Spec /\ WF_vars(RxTask)
-----------------------------------------------------------------------------
(* Properties *)

Labels == {"idle", "feed", "drain", "spill", "chunk", "push", "pushIdle"}
\* What is on its way between the read and the network, oldest bytes first.
Stages == <<sent, hold>> \o queue \o <<pushing, chunk, out, acc, raw>>
OnTheWay == UNION {ToSet(s) : s \in ToSet(Stages)}

TypeOK ==
  /\ wire \in Wires /\ avail \in 0..Len(wire) /\ read \in 0..avail
  /\ pc \in Labels /\ packet \in PacketSizes /\ limit \in PacketSizes
  /\ open \in BOOLEAN /\ at \in BOOLEAN
  /\ Len(raw) <= ReadMax /\ Len(acc) <= AccMax /\ Len(out) <= ChunkMax
  /\ Len(queue) <= QueueLen /\ txpc \in {"idle", "send", "drop"}
  /\ OnTheWay \cup ToSet(spill) \cup taken \cup dropped \cup lost \cup refused
       \subseteq 1..read

\* The bridge keeps the bytes in the order they came in: at every moment what
\* was sent, what is queued and what is still on its way in the tasks are, one
\* behind the other, in the order of the bus; so no byte is doubled either.
InOrder ==
  \A m, n \in DOMAIN Stages :
    \A i \in DOMAIN Stages[m], j \in DOMAIN Stages[n] :
      m < n \/ (m = n /\ i < j) => Stages[m][i] < Stages[n][j]

\* A byte that was read is on its way, sent, held back as configuration, or
\* refused or counted as dropped.  None vanishes anywhere else than in the three
\* places that fill `lost': an unfinished frame wiped out by a read that does
\* not fit behind it, the rest of a read longer than the buffers, and a
\* datagram whose endPacket fails.
NothingVanishes ==
  1..read =
    OnTheWay \cup ToSet(spill) \cup taken \cup dropped \cup lost \cup refused

\* Outside an AT session only valid frames are held back: the bytes held back
\* in a step, oldest first, are a frame by the definition of one, whatever the
\* parser made of the bytes around them.
IsFrame(s) ==
  /\ Len(s) > HeaderSize
  /\ wire[s[1]] = Sync0 /\ wire[s[2]] = Sync1
  /\ wire[s[3]] = Len(s) - HeaderSize - 1
  /\ wire[s[Len(s)]] = Good
HeldBack ==
  LET new == taken' \ taken IN
  [i \in 1..Cardinality(new) |->
     CHOOSE x \in new : Cardinality({y \in new : y <= x}) = i]
OnlyFramesHeldBack ==
  [][~at /\ ~at' /\ taken' # taken => IsFrame(HeldBack)]_vars

(* Refinement: each byte meets one fate, the sent ones in order (ByteChannel). *)
Channel == INSTANCE ByteChannel WITH pending <- OnTheWay \ ToSet(sent)

\* Whatever buffers the bytes wait in, the tasks and the queue implement
\* ByteChannel: what is sent is only added to, in the order of the bus, and a
\* byte that was sent, held back, dropped, lost or refused once is not touched
\* again: none that was counted as dropped was sent.
ChannelRefined == Channel!Spec

\* A chunk holds at most kBridgeChunkMax bytes.
ChunkFits == Len(chunk) <= ChunkMax /\ Len(pushing) <= ChunkMax

\* Bytes gathered in a chunk do not wait for the next ones: they are pushed
\* once the bus is quiet, or earlier.
ChunkFlushed == chunk # <<>> ~> chunk = <<>>

\* Between two reads, outside AT sessions, nothing waits in the accumulator but
\* bytes that may be the beginning of a frame: a full bridge_buf or a full queue
\* leaves no byte behind that could have gone on.
OnlyUnfinishedWaits ==
  pc = "idle" /\ acc # <<>> =>
    wire[acc[1]] = Sync0 /\ TryParse(acc).kind = "more"

(* What the documentation says and the code does not keep. *)

\* No byte is lost without being counted.
LossIsCounted == lost = {}

\* A byte read from the bus does not stay in the accumulator for ever.
NothingStuck == acc # <<>> ~> acc = <<>>

\* What is held back as a frame came over the bus as one, in one piece.
FramesInOnePiece ==
  [][~at /\ ~at' => \A i \in 1..Len(HeldBack) - 1 :
                      HeldBack[i + 1] = HeldBack[i] + 1]_vars

\* No payload is handed to the network during an AT session.
NoPayloadDuringAt == [][sent' # sent => ~at]_vars
=============================================================================
