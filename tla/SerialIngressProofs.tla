-------------------------- MODULE SerialIngressProofs --------------------------
(***************************************************************************)
(* Theorems about SerialIngress, for any bytes on the bus, any cut into    *)
(* reads and any sizes.                                                    *)
(*                                                                         *)
(* BaseInv says which buffers are empty where, that between two reads the  *)
(* accumulator holds nothing but what may begin a frame (Waits), and that  *)
(* every byte read is in some stage or in some ledger (Whole).  Each step  *)
(* cuts some first bytes off one stage and puts them behind those of the   *)
(* next, or enters them in taken, dropped, lost or refused (Cut, Joined).  *)
(* As long as no read is as long as the accumulator (ReadIsShort) nothing  *)
(* is bridged past it, and every byte of a stage was read before all those *)
(* of the stages behind it (Order).                                        *)
(***************************************************************************)
EXTENDS SerialIngress, SequenceTheorems, FiniteSetTheorems, TLAPS

\* Sequences of positions on the bus in the order of the bus, and a set of them
\* read before another.
Sorted(s) == \A i, j \in 1..Len(s) : i < j => s[i] < s[j]
Below(A, B) == \A x \in A, y \in B : x < y

\* What a sequence holds.
LEMMA ToSetOf ==
  ASSUME NEW S, NEW s \in Seq(S)
  PROVE  /\ ToSet(s) = {s[i] : i \in 1..Len(s)}
         /\ ToSet(s) \subseteq S
BY DEF ToSet

LEMMA ToSetEmpty == ToSet(<<>>) = {}
BY DEF ToSet

\* What two sequences hold, one behind the other.
LEMMA ToSetConcat ==
  ASSUME NEW S, NEW s \in Seq(S), NEW t \in Seq(S)
  PROVE  /\ s \o t \in Seq(S) /\ Len(s \o t) = Len(s) + Len(t)
         /\ ToSet(s \o t) = ToSet(s) \cup ToSet(t)
<1>1. s \o t \in Seq(S) /\ Len(s \o t) = Len(s) + Len(t) OBVIOUS
<1>2. \A i \in 1..Len(s) : (s \o t)[i] = s[i] OBVIOUS
<1>3. \A j \in 1..Len(t) : (s \o t)[Len(s) + j] = t[j] OBVIOUS
<1>4. \A i \in 1..Len(s) + Len(t) : i \in 1..Len(s)
                                 \/ \E j \in 1..Len(t) : i = Len(s) + j
  <2> TAKE i \in 1..Len(s) + Len(t)
  <2>1. i <= Len(s) \/ i - Len(s) \in 1..Len(t) OBVIOUS
  <2>2. i = Len(s) + (i - Len(s)) OBVIOUS
  <2>. QED BY <2>1, <2>2, SMTT(30)
<1>5. \A j \in 1..Len(t) : Len(s) + j \in 1..Len(s) + Len(t) OBVIOUS
<1>6. \A i \in 1..Len(s) : i \in 1..Len(s) + Len(t) OBVIOUS
<1>7. ToSet(s \o t) = {(s \o t)[i] : i \in 1..Len(s) + Len(t)}
  BY <1>1, ToSetOf
<1>8. ToSet(s) = {s[i] : i \in 1..Len(s)} BY ToSetOf
<1>9. ToSet(t) = {t[i] : i \in 1..Len(t)} BY ToSetOf
<1> DEFINE u == s \o t
<1> HIDE DEF u
<1>10. ToSet(s) \subseteq ToSet(u)
  BY <1>2, <1>6, <1>7, <1>8 DEF u
<1>11. ToSet(t) \subseteq ToSet(u)
  BY <1>3, <1>5, <1>7, <1>9 DEF u
<1>12. ToSet(u) \subseteq ToSet(s) \cup ToSet(t)
  BY <1>2, <1>3, <1>4, <1>7, <1>8, <1>9 DEF u
<1>. QED BY <1>1, <1>10, <1>11, <1>12 DEF u

\* Take and Skip cut a sequence in two and lose nothing.
LEMMA TakeSkip ==
  ASSUME NEW S, NEW s \in Seq(S), NEW n \in 0..Len(s)
  PROVE  /\ Take(s, n) \in Seq(S) /\ Len(Take(s, n)) = n
         /\ Skip(s, n) \in Seq(S) /\ Len(Skip(s, n)) = Len(s) - n
         /\ \A i \in 1..n : Take(s, n)[i] = s[i]
         /\ \A i \in 1..Len(s) - n : Skip(s, n)[i] = s[n + i]
         /\ ToSet(s) = ToSet(Take(s, n)) \cup ToSet(Skip(s, n))
<1>1. /\ Take(s, n) \in Seq(S) /\ Len(Take(s, n)) = n
      /\ \A i \in 1..n : Take(s, n)[i] = s[i]
  BY DEF Take
<1>2. /\ Skip(s, n) \in Seq(S) /\ Len(Skip(s, n)) = Len(s) - n
      /\ \A i \in 1..Len(s) - n : Skip(s, n)[i] = s[n + i]
  BY DEF Skip
<1>3. \A i \in 1..Len(s) : i \in 1..n \/ \E j \in 1..Len(s) - n : i = n + j
  <2> TAKE i \in 1..Len(s)
  <2>1. i <= n \/ i - n \in 1..Len(s) - n OBVIOUS
  <2>2. i = n + (i - n) OBVIOUS
  <2>. QED BY <2>1, <2>2
<1>4. \A j \in 1..Len(s) - n : n + j \in 1..Len(s) OBVIOUS
<1>5. \A i \in 1..n : i \in 1..Len(s) OBVIOUS
<1>6. ToSet(s) = {s[i] : i \in 1..Len(s)} BY ToSetOf
<1>7. ToSet(Take(s, n)) = {Take(s, n)[i] : i \in 1..n} BY <1>1, ToSetOf
<1>8. ToSet(Skip(s, n)) = {Skip(s, n)[i] : i \in 1..Len(s) - n}
  BY <1>2, ToSetOf
<1> DEFINE T == Take(s, n)
           K == Skip(s, n)
<1> HIDE DEF T, K
<1>9. ToSet(T) \subseteq ToSet(s) BY <1>1, <1>5, <1>6, <1>7 DEF T
<1>10. ToSet(K) \subseteq ToSet(s) BY <1>2, <1>4, <1>6, <1>8 DEF K
<1>11. ToSet(s) \subseteq ToSet(T) \cup ToSet(K)
  <2>1. \A i \in 1..n : s[i] \in ToSet(T) BY <1>1, <1>7 DEF T
  <2>2. \A i \in 1..Len(s) - n : s[n + i] \in ToSet(K) BY <1>2, <1>8 DEF K
  <2>3. \A i \in 1..Len(s) : s[i] \in ToSet(T) \cup ToSet(K)
    BY <1>3, <2>1, <2>2
  <2>. QED BY <1>6, <2>3
<1>12. ToSet(s) = ToSet(T) \cup ToSet(K) BY <1>9, <1>10, <1>11
<1>13. ToSet(s) = ToSet(Take(s, n)) \cup ToSet(Skip(s, n))
  BY <1>12 DEF T, K
<1>. QED BY <1>1, <1>2, <1>13

\* Both parts of an ordered sequence are ordered, the first before the second.
LEMMA SplitSorted ==
  ASSUME NEW s \in Seq(Nat), NEW n \in 0..Len(s), Sorted(s)
  PROVE  /\ Sorted(Take(s, n)) /\ Sorted(Skip(s, n))
         /\ Below(ToSet(Take(s, n)), ToSet(Skip(s, n)))
<1> DEFINE T == Take(s, n)
           K == Skip(s, n)
<1>1. /\ T \in Seq(Nat) /\ Len(T) = n /\ K \in Seq(Nat) /\ Len(K) = Len(s) - n
      /\ \A i \in 1..n : T[i] = s[i]
      /\ \A i \in 1..Len(s) - n : K[i] = s[n + i]
  BY TakeSkip
<1> HIDE DEF T, K
<1>2. \A i \in 1..n : i \in 1..Len(s) OBVIOUS
<1>3. \A i \in 1..Len(s) - n : n + i \in 1..Len(s) OBVIOUS
<1>4. Sorted(T) BY <1>1, <1>2 DEF Sorted
<1>5. Sorted(K)
  <2>1. \A i, j \in 1..Len(s) - n : i < j => n + i < n + j OBVIOUS
  <2>. QED BY <1>1, <1>3, <2>1 DEF Sorted
<1>6. \A i \in 1..n, j \in 1..Len(s) - n : T[i] < K[j]
  <2>1. \A i \in 1..n, j \in 1..Len(s) - n : i < n + j OBVIOUS
  <2>. QED BY <1>1, <1>2, <1>3, <2>1, ZenonT(30) DEF Sorted
<1>7. ToSet(T) = {T[i] : i \in 1..n} BY <1>1, ToSetOf
<1>8. ToSet(K) = {K[i] : i \in 1..Len(s) - n} BY <1>1, ToSetOf
<1>9. Below(ToSet(T), ToSet(K))
  BY ONLY <1>6, <1>7, <1>8, Zenon DEF Below
<1>. QED BY <1>4, <1>5, <1>9 DEF T, K

\* Ordered parts, the first before the second, make an ordered sequence.
LEMMA JoinSorted ==
  ASSUME NEW s \in Seq(Nat), NEW t \in Seq(Nat), Sorted(s), Sorted(t),
         Below(ToSet(s), ToSet(t))
  PROVE  Sorted(s \o t)
<1>1. \A i \in 1..Len(s), j \in 1..Len(t) : s[i] < t[j]
  <2>1. ToSet(s) = {s[i] : i \in 1..Len(s)} BY ToSetOf
  <2>2. ToSet(t) = {t[i] : i \in 1..Len(t)} BY ToSetOf
  <2>. QED BY ONLY Below(ToSet(s), ToSet(t)), <2>1, <2>2, Zenon DEF Below
<1>2. SUFFICES ASSUME NEW i \in 1..Len(s) + Len(t), NEW j \in 1..Len(s) + Len(t),
                      i < j
               PROVE  (s \o t)[i] < (s \o t)[j]
  BY ToSetConcat DEF Sorted
<1>3. (s \o t)[i] = IF i <= Len(s) THEN s[i] ELSE t[i - Len(s)] OBVIOUS
<1>4. (s \o t)[j] = IF j <= Len(s) THEN s[j] ELSE t[j - Len(s)] OBVIOUS
<1>5. CASE j <= Len(s)
  <2>1. i \in 1..Len(s) /\ j \in 1..Len(s) BY <1>2, <1>5
  <2>. QED BY <1>2, <1>3, <1>4, <2>1 DEF Sorted
<1>6. CASE i <= Len(s) /\ Len(s) < j
  <2>1. i \in 1..Len(s) /\ j - Len(s) \in 1..Len(t) BY <1>6
  <2>. QED BY <1>1, <1>3, <1>4, <1>6, <2>1
<1>7. CASE Len(s) < i
  <2>1. /\ i - Len(s) \in 1..Len(t) /\ j - Len(s) \in 1..Len(t)
        /\ i - Len(s) < j - Len(s) /\ ~(i <= Len(s)) /\ ~(j <= Len(s))
    BY <1>2, <1>7
  <2>. QED BY <1>3, <1>4, <2>1 DEF Sorted
<1>. QED BY <1>5, <1>6, <1>7, SMTT(30)
-----------------------------------------------------------------------------
(* The operators of the module *)

\* The run of bytes in front of a sync byte lies within the buffer.
LEMMA RunBounds ==
  ASSUME NEW S, NEW s \in Seq(S)
  PROVE  Run(s) \in 0..Len(s)
<1> DEFINE R == {n \in DOMAIN s : \A i \in 1..n : wire[s[i]] # Sync0}
<1>1. R \in SUBSET (1..Len(s)) OBVIOUS
<1>2. IsFiniteSet(1..Len(s)) /\ Cardinality(1..Len(s)) = Len(s)
  <2>1. Len(s) \in Nat OBVIOUS
  <2>2. /\ IsFiniteSet(1..Len(s))
        /\ Cardinality(1..Len(s)) = IF 1 > Len(s) THEN 0 ELSE Len(s) - 1 + 1
    BY <2>1, FS_Interval, SMTT(30)
  <2>. QED BY <2>1, <2>2
<1>3. IsFiniteSet(R) /\ Cardinality(R) <= Len(s) BY <1>1, <1>2, FS_Subset
<1>4. Cardinality(R) \in Nat BY <1>3, FS_CardinalityType
<1>. QED BY <1>3, <1>4 DEF Run

\* The sizes as numbers.
LEMMA SizeTypes ==
  /\ MaxPayload \in Nat \ {0} /\ AccMax \in Nat \ {0} /\ ReadMax \in Nat \ {0}
  /\ ChunkMax \in Nat \ {0} /\ QueueLen \in Nat \ {0}
  /\ MaxFrame = MaxPayload + 4 /\ HeaderSize = 3
BY SizeAssumption DEF MaxFrame, HeaderSize

\* append_acc_safe keeps the accumulator within its size and every byte in one of
\* its three results; a read shorter than the accumulator goes into it as a whole,
\* behind the bytes that wait there or in their place.
LEMMA AppendAccType ==
  ASSUME NEW S, NEW a \in Seq(S), NEW s \in Seq(S), Len(a) <= AccMax
  PROVE  LET r == AppendAcc(a, s) IN
         /\ r.acc \in Seq(S) /\ r.spill \in Seq(S) /\ r.wiped \in Seq(S)
         /\ Len(r.acc) <= AccMax
         /\ ToSet(a) \cup ToSet(s) = ToSet(r.acc) \cup ToSet(r.spill) \cup ToSet(r.wiped)
         /\ Len(s) < AccMax =>
              \/ r = [acc |-> a \o s, spill |-> <<>>, wiped |-> <<>>]
              \/ r = [acc |-> s, spill |-> <<>>, wiped |-> a]
<1> DEFINE over == Len(s) - (AccMax - 1)
           r == AppendAcc(a, s)
<1>0. Len(s) \in Nat /\ Len(a) \in Nat /\ <<>> \in Seq(S) OBVIOUS
<1>1. CASE Len(s) >= AccMax
  <2>1. r = [acc |-> Skip(s, over), spill |-> Take(s, over), wiped |-> a]
    BY <1>1 DEF AppendAcc
  <2>2. over \in 0..Len(s) /\ Len(s) - over < AccMax BY <1>1, SizeTypes
  <2>3. /\ Take(s, over) \in Seq(S) /\ Skip(s, over) \in Seq(S)
        /\ Len(Skip(s, over)) = Len(s) - over
        /\ ToSet(s) = ToSet(Take(s, over)) \cup ToSet(Skip(s, over))
    BY <2>2, TakeSkip
  <2>4. ~(Len(s) < AccMax) /\ Len(Skip(s, over)) <= AccMax
    BY <1>1, <2>2, <2>3, SizeTypes
  <2> HIDE DEF over, r
  <2>5. r.acc = Skip(s, over) /\ r.spill = Take(s, over) /\ r.wiped = a
    BY <2>1
  <2>6. ToSet(a) \cup ToSet(s) = ToSet(r.acc) \cup ToSet(r.spill) \cup ToSet(r.wiped)
    BY ONLY <2>3, <2>5, Zenon
  <2>. QED BY <2>3, <2>4, <2>5, <2>6 DEF r
<1>2. CASE Len(s) < AccMax /\ Len(a) + Len(s) > AccMax
  <2>1. r = [acc |-> s, spill |-> <<>>, wiped |-> a]
    BY <1>0, <1>2, SizeTypes DEF AppendAcc
  <2>2. Len(s) <= AccMax BY <1>0, <1>2, SizeTypes
  <2> HIDE DEF r
  <2>3. r.acc = s /\ r.spill = <<>> /\ r.wiped = a BY <2>1
  <2>4. ToSet(a) \cup ToSet(s) = ToSet(r.acc) \cup ToSet(r.spill) \cup ToSet(r.wiped)
    BY ONLY <2>3, ToSetEmpty
  <2>. QED BY <1>0, <2>1, <2>2, <2>3, <2>4 DEF r
<1>3. CASE Len(s) < AccMax /\ Len(a) + Len(s) <= AccMax
  <2>0. ~(Len(s) >= AccMax) /\ ~(Len(a) + Len(s) > AccMax) BY <1>3, SizeTypes
  <2>1. r = [acc |-> a \o s, spill |-> <<>>, wiped |-> <<>>]
    BY ONLY <2>0 DEF AppendAcc, r
  <2>2. /\ a \o s \in Seq(S) /\ Len(a \o s) = Len(a) + Len(s)
        /\ ToSet(a \o s) = ToSet(a) \cup ToSet(s)
    BY ToSetConcat
  <2>3. Len(a \o s) <= AccMax BY <1>3, <2>2
  <2> HIDE DEF r
  <2>4. r.acc = a \o s /\ r.spill = <<>> /\ r.wiped = <<>> BY <2>1
  <2>5. ToSet(a) \cup ToSet(s) = ToSet(r.acc) \cup ToSet(r.spill) \cup ToSet(r.wiped)
    BY ONLY <2>2, <2>4, ToSetEmpty
  <2>. QED BY <1>0, <2>1, <2>2, <2>3, <2>4, <2>5 DEF r
<1>. QED BY <1>0, <1>1, <1>2, <1>3, SizeTypes

\* A frame the parser reports lies within the buffer.
LEMMA FrameUsed ==
  ASSUME wire \in Seq(Nat), NEW s \in Seq(1..Len(wire)),
         TryParse(s).kind = "frame"
  PROVE  TryParse(s).used \in 0..Len(s)
<1>1. Len(s) >= HeaderSize BY SizeTypes DEF TryParse
<1>2. wire[s[3]] \in Nat
  <2>1. 3 \in 1..Len(s) BY <1>1, SizeTypes
  <2>2. s[3] \in 1..Len(wire) BY <2>1
  <2>. QED BY <2>2
<1>3. TryParse(s).used = HeaderSize + wire[s[3]] + 1
      /\ ~(Len(s) < HeaderSize + wire[s[3]] + 1)
  BY DEF TryParse
<1>4. Len(s) \in Nat OBVIOUS
<1>. QED BY ONLY <1>2, <1>3, <1>4, SizeTypes

\* What is in a buffer may be the beginning of a frame.
Waits(s) == s # <<>> => wire[s[1]] = Sync0 /\ TryParse(s).kind = "more"
-----------------------------------------------------------------------------
(* Types *)

\* The wire, the labels and the settings.
Control ==
  /\ wire \in Wires /\ wire \in Seq(Nat)
  /\ avail \in 0..Len(wire) /\ read \in 0..avail
  /\ pc \in Labels /\ txpc \in {"idle", "send", "drop"}
  /\ packet \in PacketSizes /\ limit \in PacketSizes
  /\ open \in BOOLEAN /\ at \in BOOLEAN

\* Buffers hold bytes that have been read.
Bytes == Seq(1..read)
Buffers ==
  /\ raw \in Bytes /\ Len(raw) <= ReadMax
  /\ acc \in Bytes /\ Len(acc) <= AccMax
  /\ out \in Bytes /\ Len(out) <= ChunkMax
  /\ spill \in Bytes /\ chunk \in Bytes /\ pushing \in Bytes /\ sent \in Bytes
  /\ hold \in Bytes
  /\ queue \in Seq(Bytes) /\ Len(queue) <= QueueLen

\* So do the ledgers of what the bridge does not pass.
Ledger == taken \cup dropped \cup lost \cup refused \subseteq 1..read

\* Bytes that have been read are on the wire.
LEMMA BytesOfWire ==
  Control => /\ 1..read \subseteq 1..Len(wire)
             /\ Bytes \subseteq Seq(1..Len(wire)) /\ Bytes \subseteq Seq(Nat)
<1> SUFFICES ASSUME Control
             PROVE  /\ 1..read \subseteq 1..Len(wire)
                    /\ Bytes \subseteq Seq(1..Len(wire)) /\ Bytes \subseteq Seq(Nat)
  OBVIOUS
<1>1. Len(wire) \in Nat /\ avail \in 0..Len(wire) /\ read \in 0..avail BY DEF Control
<1>2. 1..read \subseteq 1..Len(wire) /\ 1..read \subseteq Nat BY <1>1
<1>3. QED BY <1>2, SeqMonotonic DEF Bytes

\* emit_bridge stays within bridge_buf.
LEMMA EmitTypes ==
  ASSUME Control, Buffers, NEW n \in 0..Len(acc), Emit(n)
  PROVE  /\ Min2(n, ChunkMax - Len(out)) \in 0..Len(acc)
         /\ out' \in Bytes /\ Len(out') <= ChunkMax
         /\ Len(out') = Len(out) + Min2(n, ChunkMax - Len(out))
         /\ acc' \in Bytes /\ Len(acc') <= AccMax
<1> DEFINE m == Min2(n, ChunkMax - Len(out))
<1>1. m \in 0..Len(acc) /\ m <= ChunkMax - Len(out)
  BY SizeTypes DEF Buffers, Bytes, Min2
<1> HIDE DEF m
<1>2. /\ Take(acc, m) \in Bytes /\ Len(Take(acc, m)) = m
      /\ Skip(acc, m) \in Bytes /\ Len(Skip(acc, m)) = Len(acc) - m
  BY <1>1, TakeSkip DEF Buffers, Bytes
<1>3. out' = out \o Take(acc, m) /\ acc' = Skip(acc, m) BY DEF Emit, m
<1>4. out' \in Bytes /\ Len(out') = Len(out) + m
  BY <1>2, <1>3, ToSetConcat DEF Buffers, Bytes
<1>5. Len(out) \in Nat /\ Len(acc) \in Nat BY DEF Buffers, Bytes
<1>6. Len(out') <= ChunkMax /\ Len(acc') <= AccMax
  BY <1>1, <1>2, <1>3, <1>4, <1>5, SizeTypes DEF Buffers
<1>. QED BY <1>1, <1>2, <1>3, <1>4, <1>6 DEF m

\* What network_tx_task hands over of its chunk, and what it keeps.
LEMMA HandedTypes ==
  ASSUME Buffers, NEW n \in 0..Len(hold), Handed(n)
  PROVE  /\ Take(hold, n) \in Bytes /\ hold' \in Bytes
         /\ ToSet(hold) = ToSet(Take(hold, n)) \cup ToSet(hold')
         /\ txpc' \in {"idle", "drop"}
         /\ txpc' = "idle" => hold' = <<>>
<1>1. /\ Take(hold, n) \in Bytes /\ Skip(hold, n) \in Bytes
      /\ Len(Skip(hold, n)) = Len(hold) - n
      /\ ToSet(hold) = ToSet(Take(hold, n)) \cup ToSet(Skip(hold, n))
  BY TakeSkip DEF Buffers, Bytes
<1>2. hold' = Skip(hold, n) /\ txpc' = IF n = Len(hold) THEN "idle" ELSE "drop"
  BY DEF Handed
<1>3. n = Len(hold) => Skip(hold, n) = <<>>
  BY <1>1 DEF Buffers, Bytes
<1>. QED BY <1>1, <1>2, <1>3

\* Every step keeps Control.
LEMMA ControlKept ==
  ASSUME Control, [Next]_vars
  PROVE  Control'
<1> USE DEF Control, Labels
<1>1. CASE IdleFlush BY <1>1 DEF IdleFlush
<1>2. CASE Read
  <2>1. Min2(avail - read, ReadMax) \in 0..avail - read BY SizeTypes DEF Min2
  <2>. QED BY <1>2, <2>1 DEF Read
<1>3. CASE FeedAt BY <1>3 DEF FeedAt
<1>4. CASE FeedEscape BY <1>4 DEF FeedEscape
<1>5. CASE FeedData BY <1>5 DEF FeedData
<1>6. CASE DrainRun BY <1>6 DEF DrainRun
<1>7. CASE DrainFrame BY <1>7 DEF DrainFrame
<1>8. CASE DrainJunk BY <1>8 DEF DrainJunk
<1>9. CASE DrainEnds BY <1>9 DEF DrainEnds
<1>10. CASE Spill BY <1>10 DEF Spill
<1>11. CASE Gather BY <1>11 DEF Gather
<1>12. CASE Gathered BY <1>12 DEF Gathered
<1>13. CASE Enqueue BY <1>13 DEF Enqueue
<1>14. CASE Pushed BY <1>14 DEF Pushed
<1>15. CASE Arrive BY <1>15 DEF Arrive
<1>16. CASE TxTask
  BY <1>16 DEF TxTask, TxReceive, TxSent, TxLost, TxDrop, Handed
<1>17. CASE Reconfigure BY <1>17 DEF Reconfigure
<1>18. CASE SwitchAt BY <1>18 DEF SwitchAt
<1>19. CASE UNCHANGED vars BY <1>19 DEF vars
<1>. QED
  BY <1>1, <1>2, <1>3, <1>4, <1>5, <1>6, <1>7, <1>8, <1>9, <1>10, <1>11,
     <1>12, <1>13, <1>14, <1>15, <1>16, <1>17, <1>18, <1>19 DEF Next, RxTask

\* What one pass of the chunk loop takes out of bridge_buf.
Passed == IF limit < Len(chunk) THEN Len(out) ELSE Min2(limit - Len(chunk), Len(out))

\* A pass of the chunk loop takes what there is, and no more.
LEMMA GatherTypes ==
  ASSUME Control, Buffers
  PROVE  /\ Passed \in 0..Len(out)
         /\ Take(out, Passed) \in Bytes /\ Skip(out, Passed) \in Bytes
         /\ Len(Take(out, Passed)) = Passed
         /\ Len(Skip(out, Passed)) <= ChunkMax
         /\ chunk \o Take(out, Passed) \in Bytes
<1>1. Passed \in 0..Len(out)
  <2>1. limit \in Nat BY SizeAssumption DEF Control
  <2>2. Len(chunk) \in Nat /\ Len(out) \in Nat BY DEF Buffers, Bytes
  <2>. QED BY ONLY <2>1, <2>2 DEF Passed, Min2
<1>2. /\ Take(out, Passed) \in Bytes /\ Skip(out, Passed) \in Bytes
      /\ Len(Take(out, Passed)) = Passed
      /\ Len(Skip(out, Passed)) = Len(out) - Passed
  BY <1>1, TakeSkip DEF Buffers, Bytes
<1>3. Len(out) \in Nat /\ Len(out) <= ChunkMax BY DEF Buffers, Bytes
<1>4. Len(Skip(out, Passed)) <= ChunkMax BY ONLY <1>1, <1>2, <1>3, SizeTypes
<1>5. chunk \o Take(out, Passed) \in Bytes
  BY <1>2, ToSetConcat DEF Buffers, Bytes
<1>. QED BY <1>1, <1>2, <1>4, <1>5

\* bridge_push_to_net takes what there is, and no more.
LEMMA PieceTypes ==
  ASSUME Control, Buffers
  PROVE  LET piece == Take(pushing, Min2(Len(pushing), ChunkMax)) IN
         /\ Min2(Len(pushing), ChunkMax) \in 0..Len(pushing)
         /\ Len(piece) = Min2(Len(pushing), ChunkMax)
         /\ piece \in Bytes /\ Skip(pushing, Len(piece)) \in Bytes
<1>1. Min2(Len(pushing), ChunkMax) \in 0..Len(pushing)
  BY SizeTypes DEF Buffers, Bytes, Min2
<1>. QED BY <1>1, TakeSkip DEF Buffers, Bytes

\* The part of the rest of a read that fits into bridge_buf.
Fitting == Min2(Len(spill), ChunkMax - Len(out))

\* The rest of a read that is bridged stays within bridge_buf.
LEMMA SpillTypes ==
  ASSUME Control, Buffers
  PROVE  /\ Fitting \in 0..Len(spill) /\ Len(out) + Fitting <= ChunkMax
         /\ Take(spill, Fitting) \in Bytes /\ Skip(spill, Fitting) \in Bytes
         /\ Len(Take(spill, Fitting)) = Fitting
         /\ out \o Take(spill, Fitting) \in Bytes
         /\ Len(out \o Take(spill, Fitting)) = Len(out) + Fitting
<1>1. Fitting \in 0..Len(spill) /\ Len(out) + Fitting <= ChunkMax
  <2>1. Len(spill) \in Nat /\ Len(out) \in Nat /\ Len(out) <= ChunkMax
    BY DEF Buffers, Bytes
  <2>. QED BY ONLY <2>1, SizeTypes DEF Fitting, Min2
<1>2. /\ Take(spill, Fitting) \in Bytes /\ Skip(spill, Fitting) \in Bytes
      /\ Len(Take(spill, Fitting)) = Fitting
  BY <1>1, TakeSkip DEF Buffers, Bytes
<1>. QED BY <1>1, <1>2, ToSetConcat DEF Buffers, Bytes

\* Every step keeps the buffers within their sizes.
LEMMA BuffersKept ==
  ASSUME Control, Buffers, [Next]_vars
  PROVE  Buffers'
<1>1. CASE UNCHANGED read
  <2>1. Bytes' = Bytes BY <1>1 DEF Bytes
  <2>2. <<>> \in Bytes /\ Len(<<>>) = 0 BY DEF Bytes
  <2>3. CASE IdleFlush BY <2>1, <2>2, <2>3 DEF Buffers, IdleFlush, PushFrom
  <2>4. CASE Read
    <3>1. FALSE
      <4>1. avail > read /\ read' = read + Min2(avail - read, ReadMax)
        BY <2>4 DEF Read
      <4>2. avail \in Nat /\ read \in Nat BY DEF Control
      <4>. QED BY <1>1, <4>1, <4>2, SizeTypes DEF Min2
    <3>. QED BY <3>1
  <2>5. CASE FeedAt BY <2>1, <2>2, <2>5, SizeTypes DEF Buffers, FeedAt
  <2>6. CASE FeedEscape BY <2>1, <2>2, <2>6, SizeTypes DEF Buffers, FeedEscape
  <2>7. CASE FeedData
    <3> DEFINE r == AppendAcc(acc, raw)
    <3>1. acc \in Bytes /\ raw \in Bytes /\ Len(acc) <= AccMax BY DEF Buffers
    <3>2. r.acc \in Bytes /\ r.spill \in Bytes /\ Len(r.acc) <= AccMax
      BY <3>1, AppendAccType DEF Bytes
    <3>3. acc' = r.acc /\ spill' = r.spill BY <2>7 DEF FeedData
    <3> HIDE DEF r
    <3>4. acc' \in Bytes /\ spill' \in Bytes /\ Len(acc') <= AccMax
      BY <3>2, <3>3
    <3>5. /\ raw' = <<>>
          /\ UNCHANGED <<out, chunk, pushing, queue, hold, sent>>
      BY <2>7 DEF FeedData
    <3>. QED BY <2>1, <2>2, <3>4, <3>5, SizeTypes DEF Buffers
  <2>8. CASE DrainRun
    <3>1. Emit(Run(acc)) /\ Run(acc) \in 0..Len(acc)
      BY <2>8, RunBounds DEF DrainRun, Buffers, Bytes
    <3>2. out' \in Bytes /\ Len(out') <= ChunkMax /\ acc' \in Bytes /\ Len(acc') <= AccMax
      BY <3>1, EmitTypes
    <3>. QED BY <2>1, <2>8, <3>2 DEF Buffers, DrainRun
  <2>9. CASE DrainFrame
    <3> DEFINE n == TryParse(acc).used
    <3>1. n \in 0..Len(acc)
      BY <2>9, BytesOfWire, FrameUsed DEF DrainFrame, Buffers, Control
    <3>2. acc' = Skip(acc, n) BY <2>9 DEF DrainFrame
    <3> HIDE DEF n
    <3>3. acc' \in Bytes /\ Len(acc') = Len(acc) - n
      <4>1. acc \in Seq(1..read) BY DEF Buffers, Bytes
      <4>2. Skip(acc, n) \in Seq(1..read) /\ Len(Skip(acc, n)) = Len(acc) - n
        BY ONLY <3>1, <4>1, TakeSkip
      <4>. QED BY <2>1, <3>2, <4>2 DEF Bytes
    <3>4. Len(acc) \in Nat /\ Len(acc) <= AccMax BY DEF Buffers, Bytes
    <3>5. Len(acc') <= AccMax BY ONLY <3>1, <3>3, <3>4, SizeTypes
    <3>. QED BY <2>1, <2>9, <3>3, <3>5 DEF Buffers, DrainFrame
  <2>10. CASE DrainJunk
    <3>1. Emit(1) /\ 1 \in 0..Len(acc) BY <2>10 DEF DrainJunk, Buffers, Bytes
    <3>2. out' \in Bytes /\ Len(out') <= ChunkMax /\ acc' \in Bytes /\ Len(acc') <= AccMax
      BY <3>1, EmitTypes
    <3>. QED BY <2>1, <2>10, <3>2 DEF Buffers, DrainJunk
  <2>11. CASE DrainEnds BY <2>1, <2>11 DEF Buffers, DrainEnds
  <2>12. CASE Spill
    <3>1. out' = out \o Take(spill, Fitting) BY <2>12 DEF Spill, Fitting
    <3>2. out' \in Bytes /\ Len(out') = Len(out) + Fitting
      BY <3>1, SpillTypes, ToSetConcat DEF Buffers, Bytes
    <3>3. Len(out') <= ChunkMax BY <3>2, SpillTypes
    <3>4. AppendAcc(acc, Skip(spill, Fitting)).acc \in Bytes
          /\ Len(AppendAcc(acc, Skip(spill, Fitting)).acc) <= AccMax
      BY SpillTypes, AppendAccType DEF Buffers, Bytes
    <3>5. acc' = acc \/ acc' = AppendAcc(acc, Skip(spill, Fitting)).acc
      BY <2>12 DEF Spill, Fitting
    <3>. QED BY <2>1, <2>2, <2>12, <3>2, <3>3, <3>4, <3>5 DEF Buffers, Spill
  <2>13. CASE Gather
    <3>1. out' = Skip(out, Passed) BY <2>13 DEF Gather, Passed
    <3>2. \/ chunk' = chunk \o Take(out, Passed) /\ pushing' = pushing
          \/ chunk' = <<>> /\ pushing' = chunk \o Take(out, Passed)
          \/ chunk' = <<>> /\ pushing' = <<>>
      BY <2>13 DEF Gather, PushFrom, Passed
    <3>. QED BY <2>1, <2>2, <2>13, <3>1, <3>2, GatherTypes DEF Buffers, Gather
  <2>14. CASE Gathered BY <2>1, <2>14 DEF Buffers, Gathered
  <2>15. CASE Enqueue
    <3> DEFINE piece == Take(pushing, Min2(Len(pushing), ChunkMax))
    <3>1. piece \in Bytes /\ Skip(pushing, Len(piece)) \in Bytes BY PieceTypes
    <3>2. /\ pushing' = Skip(pushing, Len(piece))
          /\ \/ Len(queue) < QueueLen /\ queue' = Append(queue, piece)
             \/ queue' = queue
      BY <2>15 DEF Enqueue
    <3> HIDE DEF piece
    <3>3. queue' \in Seq(Bytes) /\ Len(queue') <= QueueLen
      BY <3>1, <3>2, SizeTypes, SMTT(30) DEF Buffers
    <3>. QED BY <2>1, <2>15, <3>1, <3>2, <3>3 DEF Buffers, Enqueue
  <2>16. CASE Pushed BY <2>1, <2>16 DEF Buffers, Pushed
  <2>17. CASE Arrive BY <2>1, <2>17 DEF Buffers, Arrive
  <2>18. CASE TxTask
    <3>1. CASE TxReceive
      <4>1. /\ Head(queue) \in Bytes /\ queue' \in Seq(Bytes)
            /\ Len(queue') <= QueueLen
        BY <3>1, SizeTypes DEF TxReceive, Buffers
      <4>. QED BY <2>1, <3>1, <4>1 DEF Buffers, TxReceive
    <3>2. CASE TxSent
      <4>1. PICK n \in 0..Len(hold) : sent' = sent \o Take(hold, n) /\ Handed(n)
        BY <3>2 DEF TxSent
      <4>2. sent' \in Bytes /\ hold' \in Bytes
        BY <4>1, HandedTypes, ToSetConcat DEF Buffers, Bytes
      <4>. QED BY <2>1, <3>2, <4>1, <4>2 DEF Buffers, Handed
    <3>3. CASE TxLost
      <4>1. PICK n \in 1..Len(hold) : Handed(n) BY <3>3 DEF TxLost
      <4>2. n \in 0..Len(hold) BY <4>1
      <4>3. hold' \in Bytes BY <4>1, <4>2, HandedTypes
      <4>. QED BY <2>1, <3>3, <4>1, <4>3 DEF Buffers, Handed, TxLost
    <3>4. CASE TxDrop BY <2>1, <2>2, <3>4 DEF Buffers, TxDrop
    <3>. QED BY <2>18, <3>1, <3>2, <3>3, <3>4 DEF TxTask
  <2>19. CASE Reconfigure BY <2>1, <2>19 DEF Buffers, Reconfigure
  <2>20. CASE SwitchAt BY <2>1, <2>20 DEF Buffers, SwitchAt
  <2>21. CASE UNCHANGED vars BY <2>1, <2>21 DEF Buffers, vars
  <2>. QED
    BY <2>3, <2>4, <2>5, <2>6, <2>7, <2>8, <2>9, <2>10, <2>11, <2>12, <2>13,
       <2>14, <2>15, <2>16, <2>17, <2>18, <2>19, <2>20, <2>21 DEF Next, RxTask
<1>2. CASE Read
  <2> DEFINE n == Min2(avail - read, ReadMax)
  <2>1. n \in Nat /\ n <= ReadMax /\ read \in Nat
    BY <1>2, SizeTypes DEF Read, Min2, Control
  <2>2. raw' = [i \in 1..n |-> read + i] /\ read' = read + n BY <1>2 DEF Read
  <2> HIDE DEF n
  <2>3. \A i \in 1..n : read + i \in 1..read' BY <2>1, <2>2
  <2>4. raw' \in Bytes' /\ Len(raw') = n BY <2>1, <2>2, <2>3 DEF Bytes
  <2>5. 1..read \subseteq 1..read' BY <2>1, <2>2
  <2>6. \A s \in Bytes : s \in Bytes' BY <2>5, SeqMonotonic DEF Bytes
  <2>7. queue \in Seq(Bytes') BY <2>6, SeqMonotonic DEF Buffers
  <2>. QED BY <1>2, <2>1, <2>4, <2>6, <2>7 DEF Buffers, Read
<1>3. UNCHANGED read \/ Read
  BY DEF Next, RxTask, IdleFlush, FeedAt, FeedEscape, FeedData, DrainRun,
         DrainFrame, DrainJunk, DrainEnds, Spill, Gather, Gathered, Enqueue,
         Pushed, Arrive, TxTask, TxReceive, TxSent, TxLost, TxDrop, Handed,
         Reconfigure, SwitchAt, vars
<1>. QED BY <1>1, <1>2, <1>3
-----------------------------------------------------------------------------
(* Places *)

\* Which buffers are empty at which label, and that what stays in the accumulator
\* between two reads may begin a frame.
PlaceInv ==
  /\ pc \notin {"push", "pushIdle"} => pushing = <<>>
  /\ pc \in {"push", "pushIdle"} => chunk = <<>>
  /\ pc # "feed" => raw = <<>>
  /\ pc \notin {"drain", "spill"} => spill = <<>>
  /\ txpc = "idle" => hold = <<>>
  /\ pc \in {"idle", "feed", "pushIdle"} => out = <<>> /\ Waits(acc)
  /\ pc = "spill" /\ out = <<>> => Waits(acc)

\* Every step keeps PlaceInv.
LEMMA PlaceKept ==
  ASSUME Control, Buffers, PlaceInv, [Next]_vars
  PROVE  PlaceInv'
<1> USE DEF PlaceInv
<1>w. wire' = wire
  BY DEF Next, RxTask, IdleFlush, Read, FeedAt, FeedEscape, FeedData, DrainRun,
         DrainFrame, DrainJunk, DrainEnds, Spill, Gather, Gathered, Enqueue,
         Pushed, Arrive, TxTask, TxReceive, TxSent, TxLost, TxDrop, Handed,
         Reconfigure, SwitchAt, vars
<1>a. acc' = acc => Waits(acc)' = Waits(acc)
  BY <1>w DEF Waits, TryParse
<1>1. CASE IdleFlush BY <1>1, <1>a DEF IdleFlush, PushFrom
<1>2. CASE Read BY <1>2, <1>a DEF Read
<1>3. CASE FeedAt BY <1>3, <1>a DEF FeedAt
<1>4. CASE FeedEscape BY <1>4, <1>a DEF FeedEscape
<1>5. CASE FeedData BY <1>5 DEF FeedData
<1>6. CASE DrainRun
  <2>1. Emit(Run(acc)) /\ Run(acc) \in 0..Len(acc)
    BY <1>6, RunBounds DEF DrainRun, Buffers, Bytes
  <2>2. Len(out') = Len(out) + Min2(Run(acc), ChunkMax - Len(out)) /\ out' \in Bytes
    BY <2>1, EmitTypes
  <2>3. Len(out) \in Nat BY DEF Buffers, Bytes
  <2>4. pc' = "spill" => Len(out') # 0
    BY <1>6, <2>1, <2>2, <2>3, SizeTypes DEF DrainRun, Min2
  <2>5. pc' = "spill" => out' # <<>> BY <2>4
  <2>. QED BY <1>6, <2>5 DEF DrainRun
<1>7. CASE DrainFrame BY <1>7 DEF DrainFrame
<1>8. CASE DrainJunk
  <2>1. Emit(1) /\ 1 \in 0..Len(acc) BY <1>8 DEF DrainJunk, Buffers, Bytes
  <2>2. Len(out') = Len(out) + Min2(1, ChunkMax - Len(out)) /\ out' \in Bytes
    BY <2>1, EmitTypes
  <2>3. Len(out) \in Nat BY DEF Buffers, Bytes
  <2>4. pc' = "spill" => Len(out') # 0
    BY <1>8, <2>1, <2>2, <2>3, SizeTypes DEF DrainJunk, Min2
  <2>5. pc' = "spill" => out' # <<>> BY <2>4
  <2>. QED BY <1>8, <2>5 DEF DrainJunk
<1>9. CASE DrainEnds
  <2>1. Waits(acc) BY <1>9 DEF DrainEnds, Waits
  <2>. QED BY <1>9, <1>a, <2>1 DEF DrainEnds
<1>10. CASE Spill
  <2>1. out' = out \o Take(spill, Fitting) BY <1>10 DEF Spill, Fitting
  <2>2. out' \in Bytes /\ Len(out') = Len(out) + Fitting
    BY <2>1, SpillTypes
  <2>3. CASE out' = <<>>
    <3>1. Len(out) \in Nat /\ Len(spill) \in Nat
      BY ONLY Buffers DEF Buffers, Bytes
    <3>2. Len(out) = 0 /\ Fitting = 0
      BY <2>2, <2>3, <3>1, SpillTypes
    <3>3. out = <<>> BY <3>2 DEF Buffers, Bytes
    <3>4. ~(Fitting < Len(spill)) BY <3>1, <3>2, SizeTypes DEF Fitting, Min2
    <3>5. acc' = acc BY <1>10, <3>4 DEF Spill, Fitting
    <3>. QED BY <1>10, <2>3, <3>3, <3>5, <1>a DEF Spill
  <2>4. CASE out' # <<>> BY <1>10, <2>4 DEF Spill
  <2>. QED BY <2>3, <2>4
<1>11. CASE Gather BY <1>11 DEF Gather, PushFrom
<1>12. CASE Gathered
  <2>1. acc' = <<>> => Waits(acc)' BY DEF Waits
  <2>. QED BY <1>12, <2>1 DEF Gathered
<1>13. CASE Enqueue BY <1>13, <1>a DEF Enqueue
<1>14. CASE Pushed BY <1>14, <1>a DEF Pushed
<1>15. CASE Arrive BY <1>15, <1>a DEF Arrive
<1>16. CASE TxTask
  <2>1. txpc' = "idle" => hold' = <<>>
    <3>1. CASE TxReceive BY <3>1 DEF TxReceive
    <3>2. CASE TxSent
      <4>1. PICK n \in 0..Len(hold) : Handed(n) BY <3>2 DEF TxSent
      <4>. QED BY <4>1, HandedTypes
    <3>3. CASE TxLost
      <4>1. PICK n \in 1..Len(hold) : Handed(n) BY <3>3 DEF TxLost
      <4>2. n \in 0..Len(hold) BY <4>1
      <4>. QED BY <4>1, <4>2, HandedTypes
    <3>4. CASE TxDrop BY <3>4 DEF TxDrop
    <3>. QED BY <1>16, <3>1, <3>2, <3>3, <3>4 DEF TxTask
  <2>2. UNCHANGED <<pc, raw, acc, spill, out, chunk, pushing>>
    BY <1>16 DEF TxTask, TxReceive, TxSent, TxLost, TxDrop, Handed
  <2>. QED BY <2>1, <2>2, <1>a
<1>17. CASE Reconfigure BY <1>17, <1>a DEF Reconfigure
<1>18. CASE SwitchAt BY <1>18, <1>a DEF SwitchAt
<1>19. CASE UNCHANGED vars BY <1>19, <1>a DEF vars
<1>. QED
  BY <1>1, <1>2, <1>3, <1>4, <1>5, <1>6, <1>7, <1>8, <1>9, <1>10, <1>11,
     <1>12, <1>13, <1>14, <1>15, <1>16, <1>17, <1>18, <1>19 DEF Next, RxTask

(* The rest of a read *)

\* The read that is fed is shorter than the accumulator.
ReadIsShort == pc = "feed" => Len(raw) < AccMax

\* Then it goes into the accumulator as a whole: behind the bytes that wait, or in
\* their place.
LEMMA FedWhole ==
  ASSUME ReadIsShort, Control, Buffers, FeedData
  PROVE  /\ spill' = <<>>
         /\ \/ acc' = acc \o raw /\ lost' = lost
            \/ acc' = raw /\ lost' = lost \cup ToSet(acc)
<1> DEFINE r == AppendAcc(acc, raw)
<1>1. \/ r = [acc |-> acc \o raw, spill |-> <<>>, wiped |-> <<>>]
      \/ r = [acc |-> raw, spill |-> <<>>, wiped |-> acc]
  <2>1. Len(raw) < AccMax BY DEF ReadIsShort, FeedData
  <2>2. acc \in Bytes /\ raw \in Bytes /\ Len(acc) <= AccMax BY DEF Buffers
  <2>. QED BY ONLY <2>1, <2>2, AppendAccType DEF Bytes
<1>2. acc' = r.acc /\ spill' = r.spill /\ lost' = lost \cup ToSet(r.wiped)
  BY DEF FeedData
<1> HIDE DEF r
<1>. QED BY <1>1, <1>2, ToSetEmpty

\* Then nothing is bridged past the accumulator.
LEMMA NothingSpilled ==
  ASSUME ReadIsShort, Control, Buffers, spill = <<>>, [Next]_vars
  PROVE  spill' = <<>>
<1>1. CASE FeedData BY <1>1, FedWhole
<1>2. CASE ~FeedData
  BY <1>2 DEF Next, RxTask, IdleFlush, Read, FeedAt, FeedEscape, DrainRun,
         DrainFrame, DrainJunk, DrainEnds, Spill, Gather, Gathered, Enqueue,
         Pushed, Arrive, TxTask, TxReceive, TxSent, TxLost, TxDrop, Handed,
         Reconfigure, SwitchAt, vars
<1>. QED BY <1>1, <1>2

(* Chunks *)

\* A round of the task that takes over a new packet_size has not gathered more
\* than that.
NotUndercut == limit' # limit => Len(chunk) <= limit'
\* Then a chunk is pushed as soon as it is full, whatever was configured meanwhile.
ChunkInv == Len(chunk) <= limit /\ Len(pushing) <= ChunkMax

\* Every such step keeps ChunkInv.
LEMMA ChunkKept ==
  ASSUME NotUndercut, Control, Buffers, PlaceInv, ChunkInv, [Next]_vars
  PROVE  ChunkInv'
<1>1. limit \in Nat /\ limit > 0 /\ limit <= ChunkMax /\ ChunkMax \in Nat
  BY SizeAssumption DEF Control
<1>3. Len(<<>>) = 0 OBVIOUS
<1>4. Len(chunk) \in Nat /\ Len(pushing) \in Nat /\ Len(out) \in Nat
  BY DEF Buffers, Bytes
<1> USE DEF ChunkInv
<1>5. CASE IdleFlush BY <1>1, <1>3, <1>4, <1>5 DEF IdleFlush, PushFrom
<1>6. CASE Gather
  <2> DEFINE full == chunk \o Take(out, Passed)
  <2>1. Len(full) = Len(chunk) + Passed
    BY GatherTypes, ToSetConcat, ZenonT(30) DEF Buffers, Bytes
  <2>2. Passed = Min2(limit - Len(chunk), Len(out))
    BY <1>1, <1>4 DEF Passed
  <2>3. Len(full) <= limit BY ONLY <2>1, <2>2, <1>1, <1>4 DEF Min2
  <2>4. \/ chunk' = full /\ Len(full) < limit /\ pushing' = pushing
        \/ chunk' = <<>> /\ (pushing' = full \/ pushing' = <<>>)
    <3>1. Len(full) \in Nat BY ONLY <2>1, <1>4, GatherTypes, Control, Buffers
    <3>2. \/ chunk' = full /\ ~(Len(full) >= limit) /\ pushing' = pushing
          \/ chunk' = <<>> /\ (pushing' = full \/ pushing' = <<>>)
      BY <1>6 DEF Gather, PushFrom, Passed
    <3>. QED BY ONLY <1>1, <3>1, <3>2
  <2>5. Len(full) <= ChunkMax
    <3>1. Len(full) \in Nat BY ONLY <2>1, <1>4, GatherTypes, Control, Buffers
    <3>. QED BY ONLY <1>1, <2>3, <3>1
  <2>6. limit' = limit BY <1>6 DEF Gather
  <2> HIDE DEF full
  <2>. QED BY ONLY <1>1, <1>3, <2>3, <2>4, <2>5, <2>6, ChunkInv DEF ChunkInv
<1>7. CASE Enqueue
  <2>1. Len(pushing') <= Len(pushing) /\ chunk' = chunk
    <3> DEFINE n == Min2(Len(pushing), ChunkMax)
    <3>1. n \in 0..Len(pushing) /\ Len(Take(pushing, n)) = n BY PieceTypes
    <3>2. pushing' = Skip(pushing, Len(Take(pushing, n))) /\ chunk' = chunk
      BY <1>7 DEF Enqueue
    <3> HIDE DEF n
    <3>3. Len(Skip(pushing, n)) = Len(pushing) - n
      BY <3>1, TakeSkip DEF Buffers, Bytes
    <3>4. Len(pushing') = Len(pushing) - n BY <3>1, <3>2, <3>3
    <3>. QED BY <3>1, <3>2, <3>4, <1>4
  <2>2. Len(pushing') \in Nat BY BuffersKept DEF Buffers, Bytes
  <2>3. limit' = limit BY <1>7 DEF Enqueue
  <2>. QED BY ONLY <1>1, <1>4, <2>1, <2>2, <2>3, ChunkInv DEF ChunkInv
<1>8. CASE ~IdleFlush /\ ~Gather /\ ~Enqueue
  <2>1. chunk' = chunk /\ pushing' = pushing
    BY <1>8 DEF Next, RxTask, Read, FeedAt, FeedEscape, FeedData, DrainRun,
         DrainFrame, DrainJunk, DrainEnds, Spill, Gathered,
         Pushed, Arrive, TxTask, TxReceive, TxSent, TxLost, TxDrop, Handed,
         Reconfigure, SwitchAt, vars
  <2>. QED BY <2>1 DEF NotUndercut
<1>. QED BY <1>5, <1>6, <1>7, <1>8
-----------------------------------------------------------------------------
(* Movements *)

\* s is cut into t and k, u is s with t behind it.
Cut(s, t, k) ==
  /\ t \in Bytes /\ k \in Bytes /\ ToSet(s) = ToSet(t) \cup ToSet(k)
  /\ Sorted(s) => Sorted(t) /\ Sorted(k) /\ Below(ToSet(t), ToSet(k))
Joined(u, s, t) ==
  /\ u \in Bytes /\ ToSet(u) = ToSet(s) \cup ToSet(t)
  /\ Sorted(s) /\ Sorted(t) /\ Below(ToSet(s), ToSet(t)) => Sorted(u)

\* Take and Skip cut.
LEMMA CutOf ==
  ASSUME Control, NEW s \in Bytes, NEW n \in 0..Len(s)
  PROVE  Cut(s, Take(s, n), Skip(s, n))
<1>1. s \in Seq(Nat) BY BytesOfWire
<1>2. /\ Take(s, n) \in Bytes /\ Skip(s, n) \in Bytes
      /\ ToSet(s) = ToSet(Take(s, n)) \cup ToSet(Skip(s, n))
  BY TakeSkip DEF Bytes
<1>. QED BY <1>1, <1>2, SplitSorted DEF Cut

\* Concatenation joins.
LEMMA JoinOf ==
  ASSUME Control, NEW s \in Bytes, NEW t \in Bytes
  PROVE  Joined(s \o t, s, t)
<1>1. s \in Seq(Nat) /\ t \in Seq(Nat) BY BytesOfWire
<1>2. s \o t \in Bytes /\ ToSet(s \o t) = ToSet(s) \cup ToSet(t)
  BY ToSetConcat DEF Bytes
<1>. QED BY <1>1, <1>2, JoinSorted DEF Joined

\* emit_bridge moves bytes from the accumulator to bridge_buf.
LEMMA EmitMoves ==
  ASSUME Control, Buffers, NEW n \in 0..Len(acc), Emit(n)
  PROVE  \E t \in Bytes : Cut(acc, t, acc') /\ Joined(out', out, t)
<1> DEFINE m == Min2(n, ChunkMax - Len(out))
           t == Take(acc, m)
<1>1. m \in 0..Len(acc) BY EmitTypes
<1>2. acc' = Skip(acc, m) /\ out' = out \o t BY DEF Emit
<1> HIDE DEF m
<1>3. Cut(acc, t, acc') BY <1>1, <1>2, CutOf DEF Buffers
<1>4. t \in Bytes BY <1>3 DEF Cut
<1>5. Joined(out', out, t) BY <1>2, <1>4, JoinOf DEF Buffers
<1>. QED BY <1>3, <1>4, <1>5

\* A frame leaves the accumulator for its handler.
LEMMA FrameMoves ==
  ASSUME Control, Buffers, DrainFrame
  PROVE  \E t \in Bytes : Cut(acc, t, acc') /\ taken' = taken \cup ToSet(t)
<1> DEFINE n == TryParse(acc).used
           t == Take(acc, n)
<1>1. n \in 0..Len(acc)
  BY BytesOfWire, FrameUsed DEF DrainFrame, Buffers, Control
<1>2. acc' = Skip(acc, n) /\ taken' = taken \cup ToSet(t) BY DEF DrainFrame
<1> HIDE DEF n
<1>3. Cut(acc, t, acc') BY <1>1, <1>2, CutOf DEF Buffers
<1>4. t \in Bytes BY <1>3 DEF Cut
<1>. QED BY <1>2, <1>3, <1>4

\* The chunk loop moves bytes from bridge_buf to the chunk, and a full chunk to the
\* push or, if the bridge is closed, to the refused.
LEMMA GatherMoves ==
  ASSUME Control, Buffers, Gather
  PROVE  \E t \in Bytes, full \in Bytes :
           /\ Cut(out, t, out') /\ Joined(full, chunk, t)
           /\ \/ chunk' = full /\ pushing' = pushing /\ refused' = refused
              \/ chunk' = <<>> /\ pushing' = full /\ refused' = refused
              \/ /\ chunk' = <<>> /\ pushing' = <<>>
                 /\ refused' = refused \cup ToSet(full)
<1> DEFINE t == Take(out, Passed)
           full == chunk \o t
<1>1. Passed \in 0..Len(out) /\ t \in Bytes /\ full \in Bytes BY GatherTypes
<1>2. out' = Skip(out, Passed) BY DEF Gather, Passed
<1>3. \/ chunk' = full /\ pushing' = pushing /\ refused' = refused
      \/ chunk' = <<>> /\ pushing' = full /\ refused' = refused
      \/ /\ chunk' = <<>> /\ pushing' = <<>>
         /\ refused' = refused \cup ToSet(full)
  BY DEF Gather, PushFrom, Passed
<1>4. Cut(out, t, out') BY <1>1, <1>2, CutOf DEF Buffers
<1>5. Joined(full, chunk, t) BY <1>1, JoinOf DEF Buffers
<1> HIDE DEF full, t
<1>. QED BY <1>1, <1>3, <1>4, <1>5

\* A piece of a chunk goes to the queue or, if that is full, to the dropped.
LEMMA EnqueueMoves ==
  ASSUME Control, Buffers, Enqueue
  PROVE  \E t \in Bytes :
           /\ Cut(pushing, t, pushing')
           /\ \/ queue' = Append(queue, t) /\ dropped' = dropped
              \/ queue' = queue /\ dropped' = dropped \cup ToSet(t)
<1> DEFINE n == Min2(Len(pushing), ChunkMax)
           t == Take(pushing, n)
<1>1. n \in 0..Len(pushing) /\ Len(t) = n /\ t \in Bytes BY PieceTypes
<1>2. /\ pushing' = Skip(pushing, Len(t))
      /\ \/ queue' = Append(queue, t) /\ dropped' = dropped
         \/ queue' = queue /\ dropped' = dropped \cup ToSet(t)
  BY DEF Enqueue
<1> HIDE DEF n
<1>3. Cut(pushing, t, pushing') BY <1>1, <1>2, CutOf DEF Buffers
<1> HIDE DEF t
<1>. QED BY <1>1, <1>2, <1>3

\* The rest of a read goes to bridge_buf and the accumulator, or is lost.
LEMMA SpillMoves ==
  ASSUME Control, Buffers, Spill
  PROVE  /\ ToSet(out') \cup ToSet(acc') \cup lost'
            = ToSet(out) \cup ToSet(acc) \cup ToSet(spill) \cup lost
         /\ spill = <<>> => out' = out /\ acc' = acc /\ lost' = lost
<1> DEFINE t == Take(spill, Fitting)
           rest == Skip(spill, Fitting)
           kept == AppendAcc(acc, rest)
<1>1. Fitting \in 0..Len(spill) /\ t \in Bytes /\ rest \in Bytes BY SpillTypes
<1>2. /\ ToSet(spill) = ToSet(t) \cup ToSet(rest)
      /\ Len(rest) = Len(spill) - Fitting /\ Len(t) = Fitting
  BY <1>1, TakeSkip DEF Buffers, Bytes
<1>3. ToSet(acc) \cup ToSet(rest) = ToSet(kept.acc) \cup ToSet(kept.spill) \cup ToSet(kept.wiped)
  <2>1. acc \in Bytes /\ Len(acc) <= AccMax BY DEF Buffers
  <2>. QED BY ONLY <1>1, <2>1, AppendAccType DEF Bytes
<1>4. /\ out' = out \o t
      /\ \/ /\ Fitting < Len(spill) /\ acc' = kept.acc
            /\ lost' = lost \cup ToSet(kept.wiped) \cup ToSet(kept.spill)
         \/ acc' = acc /\ lost' = lost \cup ToSet(rest)
  BY DEF Spill, Fitting
<1>5. ToSet(out') = ToSet(out) \cup ToSet(t)
  BY <1>1, <1>4, ToSetConcat DEF Buffers, Bytes
<1>6. ASSUME spill = <<>> PROVE out' = out /\ acc' = acc /\ lost' = lost
  <2>1. Fitting = 0 /\ Len(spill) = 0 /\ Len(rest) = 0 /\ Len(t) = 0
    BY <1>1, <1>2, <1>6
  <2>2. t = <<>> /\ rest = <<>> BY <1>1, <2>1 DEF Bytes
  <2>3. out \o <<>> = out BY ConcatEmptySeq DEF Buffers, Bytes
  <2>4. ~(Fitting < Len(spill)) BY <2>1
  <2> HIDE DEF t, rest, kept
  <2>. QED BY <1>4, <2>2, <2>3, <2>4, ToSetEmpty
<1> HIDE DEF t, rest, kept
<1>. QED BY <1>2, <1>3, <1>4, <1>5, <1>6

\* The bytes of all pieces in the queue, and the order of its pieces.
InQueue == UNION {ToSet(queue[k]) : k \in 1..Len(queue)}
QueueOrder ==
  /\ \A k \in 1..Len(queue) : Sorted(queue[k])
  /\ \A k, l \in 1..Len(queue) : k < l => Below(ToSet(queue[k]), ToSet(queue[l]))

\* A piece put at the end of the queue.
LEMMA AppendMoves ==
  ASSUME queue \in Seq(Bytes), NEW t \in Bytes, queue' = Append(queue, t)
  PROVE  /\ InQueue' = InQueue \cup ToSet(t)
         /\ QueueOrder /\ Sorted(t) /\ Below(InQueue, ToSet(t)) => QueueOrder'
<1> DEFINE N == Len(queue)
<1>1. N \in Nat /\ Len(queue') = N + 1 OBVIOUS
<1>2. \A k \in 1..N : queue'[k] = queue[k] OBVIOUS
<1>3. queue'[N + 1] = t OBVIOUS
<1>4. \A k \in 1..N + 1 : k \in 1..N \/ k = N + 1 BY <1>1
<1>5. \A k \in 1..N : k \in 1..N + 1 BY <1>1
<1>6. N + 1 \in 1..N + 1 BY <1>1
<1> HIDE DEF N
<1>7. InQueue = UNION {ToSet(queue[k]) : k \in 1..N} BY DEF InQueue, N
<1>8. InQueue' = UNION {ToSet(queue'[k]) : k \in 1..N + 1}
  BY <1>1 DEF InQueue
<1>9. InQueue' = InQueue \cup ToSet(t)
  <2>1. InQueue \subseteq InQueue' BY <1>2, <1>5, <1>7, <1>8
  <2>2. ToSet(t) \subseteq InQueue' BY <1>3, <1>6, <1>8
  <2>3. InQueue' \subseteq InQueue \cup ToSet(t)
    <3>1. \A k \in 1..N : ToSet(queue'[k]) \subseteq InQueue BY <1>2, <1>7
    <3>2. \A k \in 1..N + 1 : ToSet(queue'[k]) \subseteq InQueue \cup ToSet(t)
      BY <1>3, <1>4, <3>1
    <3>. QED BY <1>8, <3>2
  <2>. QED BY <2>1, <2>2, <2>3
<1>10. ASSUME QueueOrder, Sorted(t), Below(InQueue, ToSet(t)) PROVE QueueOrder'
  <2>1. \A k \in 1..N + 1 : Sorted(queue'[k])
    BY <1>2, <1>3, <1>4, <1>10 DEF QueueOrder, N
  <2>2. ASSUME NEW k \in 1..N + 1, NEW l \in 1..N + 1, k < l
        PROVE  Below(ToSet(queue'[k]), ToSet(queue'[l]))
    <3>1. k \in 1..N BY <1>1, <2>2
    <3>2. CASE l \in 1..N BY <1>2, <1>10, <2>2, <3>1, <3>2 DEF QueueOrder, N
    <3>3. CASE l = N + 1
      <4>1. ToSet(queue'[k]) \subseteq InQueue BY <1>2, <1>7, <3>1
      <4>. QED BY <1>3, <1>10, <3>3, <4>1 DEF Below
    <3>. QED BY <1>4, <3>2, <3>3
  <2>. QED BY <1>1, <2>1, <2>2 DEF QueueOrder
<1>. QED BY <1>9, <1>10

\* A piece taken from the front of the queue.
LEMMA TailMoves ==
  ASSUME queue \in Seq(Bytes), queue # <<>>, queue' = Tail(queue)
  PROVE  /\ InQueue = ToSet(Head(queue)) \cup InQueue'
         /\ QueueOrder => /\ QueueOrder' /\ Sorted(Head(queue))
                          /\ Below(ToSet(Head(queue)), InQueue')
<1> DEFINE N == Len(queue) - 1
           h == Head(queue)
<1>1. N \in Nat /\ Len(queue') = N /\ Len(queue) = N + 1 OBVIOUS
<1>2. \A k \in 1..N : queue'[k] = queue[k + 1] OBVIOUS
<1>3. queue[1] = h OBVIOUS
<1> HIDE DEF N, h
<1>4. \A k \in 1..N + 1 : k = 1 \/ \E l \in 1..N : k = l + 1
  <2> TAKE k \in 1..N + 1
  <2>1. k = 1 \/ k - 1 \in 1..N BY <1>1
  <2>2. k = (k - 1) + 1 OBVIOUS
  <2>. QED BY <2>1, <2>2
<1>5. \A k \in 1..N : k + 1 \in 1..N + 1 BY <1>1
<1>6. 1 \in 1..N + 1 BY <1>1
<1>7. InQueue = UNION {ToSet(queue[k]) : k \in 1..N + 1} BY <1>1 DEF InQueue
<1>8. InQueue' = UNION {ToSet(queue'[k]) : k \in 1..N} BY <1>1 DEF InQueue
<1>9. InQueue = ToSet(h) \cup InQueue'
  <2>1. InQueue' \subseteq InQueue BY <1>2, <1>5, <1>7, <1>8
  <2>2. ToSet(h) \subseteq InQueue BY <1>3, <1>6, <1>7
  <2>3. InQueue \subseteq ToSet(h) \cup InQueue'
    <3>1. \A k \in 1..N : ToSet(queue[k + 1]) \subseteq InQueue' BY <1>2, <1>8
    <3>2. \A k \in 1..N + 1 : ToSet(queue[k]) \subseteq ToSet(h) \cup InQueue'
      BY <1>3, <1>4, <3>1
    <3>. QED BY <1>7, <3>2
  <2>. QED BY <2>1, <2>2, <2>3
<1>10. ASSUME QueueOrder
       PROVE  QueueOrder' /\ Sorted(h) /\ Below(ToSet(h), InQueue')
  <2>1. \A k \in 1..N : Sorted(queue'[k])
    BY <1>1, <1>2, <1>5, <1>10 DEF QueueOrder
  <2>2. ASSUME NEW k \in 1..N, NEW l \in 1..N, k < l
        PROVE  Below(ToSet(queue'[k]), ToSet(queue'[l]))
    <3>1. k + 1 < l + 1 /\ k + 1 \in 1..N + 1 /\ l + 1 \in 1..N + 1
      BY <1>1, <2>2
    <3>. QED BY <1>1, <1>2, <1>10, <3>1 DEF QueueOrder
  <2>3. QueueOrder' BY <1>1, <2>1, <2>2 DEF QueueOrder
  <2>4. Sorted(h) BY <1>1, <1>3, <1>6, <1>10 DEF QueueOrder
  <2>5. \A k \in 1..N : Below(ToSet(h), ToSet(queue'[k]))
    <3> TAKE k \in 1..N
    <3>1. 1 < k + 1 BY <1>1
    <3>. QED BY <1>1, <1>2, <1>3, <1>5, <1>6, <1>10, <3>1 DEF QueueOrder
  <2>6. Below(ToSet(h), InQueue') BY <1>8, <2>5 DEF Below
  <2>. QED BY <2>3, <2>4, <2>6
<1>. QED BY <1>9, <1>10 DEF h
-----------------------------------------------------------------------------
(* Order and loss *)

\* Every byte read is in some stage or in a ledger.
Whole ==
  1..read = ToSet(sent) \cup ToSet(hold) \cup InQueue \cup ToSet(pushing)
            \cup ToSet(chunk) \cup ToSet(out) \cup ToSet(acc) \cup ToSet(raw)
            \cup ToSet(spill) \cup taken \cup dropped \cup lost \cup refused

\* Whatever is in an earlier argument was read before all of the later ones.
Chain(s, h, q, p, c, o, a, r) ==
  /\ Below(s, h \cup q \cup p \cup c \cup o \cup a \cup r)
  /\ Below(h, q \cup p \cup c \cup o \cup a \cup r)
  /\ Below(q, p \cup c \cup o \cup a \cup r)
  /\ Below(p, c \cup o \cup a \cup r)
  /\ Below(c, o \cup a \cup r)
  /\ Below(o, a \cup r)
  /\ Below(a, r)

\* The stages are ordered, each and one after the other.
Order ==
  /\ Sorted(sent) /\ Sorted(hold) /\ QueueOrder /\ Sorted(pushing)
  /\ Sorted(chunk) /\ Sorted(out) /\ Sorted(acc) /\ Sorted(raw)
  /\ Chain(ToSet(sent), ToSet(hold), InQueue, ToSet(pushing), ToSet(chunk),
           ToSet(out), ToSet(acc), ToSet(raw))

\* A read brings the next bytes of the wire, in their order.
LEMMA ReadMoves ==
  ASSUME Control, Read
  PROVE  /\ ToSet(raw') = (read + 1)..read' /\ Sorted(raw')
         /\ 1..read' = 1..read \cup ToSet(raw')
         /\ Below(1..read, ToSet(raw'))
<1> DEFINE n == Min2(avail - read, ReadMax)
<1>1. n \in Nat /\ read \in Nat BY SizeTypes DEF Read, Min2, Control
<1>2. raw' = [i \in 1..n |-> read + i] /\ read' = read + n BY DEF Read
<1> HIDE DEF n
<1>3. raw' \in Seq(Nat) /\ Len(raw') = n /\ \A i \in 1..n : raw'[i] = read + i
  BY <1>1, <1>2
<1>4. ToSet(raw') = {raw'[i] : i \in 1..n} BY <1>3, ToSetOf
<1>5. ToSet(raw') \subseteq (read + 1)..read' BY <1>1, <1>2, <1>3, <1>4
<1>6. (read + 1)..read' \subseteq ToSet(raw')
  <2> SUFFICES ASSUME NEW x \in (read + 1)..read' PROVE x \in ToSet(raw')
    OBVIOUS
  <2>1. x - read \in 1..n /\ x = read + (x - read) BY <1>1, <1>2
  <2>. QED BY <1>3, <1>4, <2>1
<1>7. Sorted(raw') BY <1>1, <1>3 DEF Sorted
<1>8. 1..read' = 1..read \cup (read + 1)..read' BY <1>1, <1>2
<1>9. \A x \in 1..read, y \in (read + 1)..read' : x < y BY <1>1, <1>2
<1>. QED BY <1>5, <1>6, <1>7, <1>8, <1>9 DEF Below

\* A queue that is left alone.
LEMMA QueueUnchanged ==
  queue' = queue => InQueue' = InQueue /\ QueueOrder' = QueueOrder
BY DEF InQueue, QueueOrder

\* Every step keeps Whole.
LEMMA WholeKept ==
  ASSUME Control, Buffers, PlaceInv, Whole, [Next]_vars
  PROVE  Whole'
<1> USE ToSetEmpty, QueueUnchanged DEF Whole
<1>1. CASE IdleFlush BY <1>1 DEF IdleFlush, PushFrom, PlaceInv
<1>2. CASE Read BY <1>2, ReadMoves DEF Read, PlaceInv
<1>3. CASE FeedAt BY <1>3 DEF FeedAt
<1>4. CASE FeedEscape BY <1>4 DEF FeedEscape
<1>5. CASE FeedData
  <2> DEFINE r == AppendAcc(acc, raw)
  <2>1. ToSet(acc) \cup ToSet(raw) = ToSet(r.acc) \cup ToSet(r.spill) \cup ToSet(r.wiped)
    <3>1. acc \in Bytes /\ raw \in Bytes /\ Len(acc) <= AccMax BY DEF Buffers
    <3>. QED BY ONLY <3>1, AppendAccType DEF Bytes
  <2>2. acc' = r.acc /\ spill' = r.spill /\ lost' = lost \cup ToSet(r.wiped)
    BY <1>5 DEF FeedData
  <2>3. spill = <<>> BY <1>5 DEF FeedData, PlaceInv
  <2> HIDE DEF r
  <2>. QED BY <1>5, <2>1, <2>2, <2>3 DEF FeedData
<1>6. CASE DrainRun
  <2>1. Emit(Run(acc)) /\ Run(acc) \in 0..Len(acc)
    BY <1>6, RunBounds DEF DrainRun, Buffers, Bytes
  <2>2. PICK t \in Bytes : Cut(acc, t, acc') /\ Joined(out', out, t)
    BY <2>1, EmitMoves
  <2>. QED BY <1>6, <2>2 DEF DrainRun, Cut, Joined
<1>7. CASE DrainFrame
  <2>1. PICK t \in Bytes : Cut(acc, t, acc') /\ taken' = taken \cup ToSet(t)
    BY <1>7, FrameMoves
  <2>. QED BY <1>7, <2>1 DEF DrainFrame, Cut
<1>8. CASE DrainJunk
  <2>1. Emit(1) /\ 1 \in 0..Len(acc) BY <1>8 DEF DrainJunk, Buffers, Bytes
  <2>2. PICK t \in Bytes : Cut(acc, t, acc') /\ Joined(out', out, t)
    BY <2>1, EmitMoves
  <2>. QED BY <1>8, <2>2 DEF DrainJunk, Cut, Joined
<1>9. CASE DrainEnds BY <1>9 DEF DrainEnds
<1>10. CASE Spill BY <1>10, SpillMoves DEF Spill
<1>11. CASE Gather
  <2>1. PICK t \in Bytes, full \in Bytes :
           /\ Cut(out, t, out') /\ Joined(full, chunk, t)
           /\ \/ chunk' = full /\ pushing' = pushing /\ refused' = refused
              \/ chunk' = <<>> /\ pushing' = full /\ refused' = refused
              \/ /\ chunk' = <<>> /\ pushing' = <<>>
                 /\ refused' = refused \cup ToSet(full)
    BY <1>11, GatherMoves
  <2>2. pushing = <<>> BY <1>11 DEF Gather, PlaceInv
  <2>. QED BY <1>11, <2>1, <2>2 DEF Gather, Cut, Joined
<1>12. CASE Gathered BY <1>12 DEF Gathered
<1>13. CASE Enqueue
  <2>1. PICK t \in Bytes :
           /\ Cut(pushing, t, pushing')
           /\ \/ queue' = Append(queue, t) /\ dropped' = dropped
              \/ queue' = queue /\ dropped' = dropped \cup ToSet(t)
    BY <1>13, EnqueueMoves
  <2>2. queue' = Append(queue, t) => InQueue' = InQueue \cup ToSet(t)
    BY AppendMoves DEF Buffers
  <2>. QED BY <1>13, <2>1, <2>2 DEF Enqueue, Cut
<1>14. CASE Pushed BY <1>14 DEF Pushed
<1>15. CASE Arrive BY <1>15 DEF Arrive
<1>16. CASE TxTask
  <2>1. CASE TxReceive
    <3>1. InQueue = ToSet(Head(queue)) \cup InQueue'
      BY <2>1, TailMoves DEF TxReceive, Buffers
    <3>2. hold = <<>> BY <2>1 DEF TxReceive, PlaceInv
    <3>. QED BY <2>1, <3>1, <3>2 DEF TxReceive
  <2>2. CASE TxSent
    <3>1. PICK n \in 0..Len(hold) : sent' = sent \o Take(hold, n) /\ Handed(n)
      BY <2>2 DEF TxSent
    <3>2. ToSet(sent') = ToSet(sent) \cup ToSet(Take(hold, n))
      BY <3>1, HandedTypes, ToSetConcat DEF Buffers, Bytes
    <3>3. ToSet(hold) = ToSet(Take(hold, n)) \cup ToSet(hold')
      BY <3>1, HandedTypes
    <3>. QED BY <2>2, <3>1, <3>2, <3>3 DEF TxSent, Handed
  <2>3. CASE TxLost
    <3>1. PICK n \in 1..Len(hold) :
            lost' = lost \cup ToSet(Take(hold, n)) /\ Handed(n)
      BY <2>3 DEF TxLost
    <3>2. n \in 0..Len(hold) BY <3>1
    <3>3. ToSet(hold) = ToSet(Take(hold, n)) \cup ToSet(hold')
      BY <3>1, <3>2, HandedTypes
    <3>. QED BY <2>3, <3>1, <3>3 DEF TxLost, Handed
  <2>4. CASE TxDrop BY <2>4 DEF TxDrop
  <2>. QED BY <1>16, <2>1, <2>2, <2>3, <2>4 DEF TxTask
<1>17. CASE Reconfigure BY <1>17 DEF Reconfigure
<1>18. CASE SwitchAt BY <1>18 DEF SwitchAt
<1>19. CASE UNCHANGED vars BY <1>19 DEF vars
<1>. QED
  BY <1>1, <1>2, <1>3, <1>4, <1>5, <1>6, <1>7, <1>8, <1>9, <1>10, <1>11,
     <1>12, <1>13, <1>14, <1>15, <1>16, <1>17, <1>18, <1>19 DEF Next, RxTask

\* A piece that leaves the front of the queue follows what was sent and precedes
\* what remains.
LEMMA ChainReceive ==
  ASSUME NEW s, NEW h, NEW k, NEW p, NEW c, NEW o, NEW a, NEW r,
         Chain(s, {}, h \cup k, p, c, o, a, r), Below(h, k)
  PROVE  Chain(s, h, k, p, c, o, a, r)
BY DEF Chain, Below

\* Every step keeps Order.
LEMMA OrderKept ==
  ASSUME ReadIsShort, Control, Buffers, PlaceInv, spill = <<>>, Whole, Order,
         [Next]_vars
  PROVE  Order'
<1>0. Sorted(<<>>) BY DEF Sorted
<1> USE ToSetEmpty, QueueUnchanged, <1>0 DEF Order
<1>1. CASE IdleFlush
  BY <1>1 DEF IdleFlush, PushFrom, PlaceInv, Chain, Below
<1>2. CASE Read
  <2>1. raw = <<>> BY <1>2 DEF Read, PlaceInv
  <2>2. ToSet(sent) \cup ToSet(hold) \cup InQueue \cup ToSet(pushing) \cup ToSet(chunk)
        \cup ToSet(out) \cup ToSet(acc) \subseteq 1..read
    BY DEF Whole
  <2>3. Sorted(raw') /\ Below(1..read, ToSet(raw')) BY <1>2, ReadMoves
  <2>. QED BY <1>2, <2>1, <2>2, <2>3 DEF Read, Chain, Below
<1>3. CASE FeedAt BY <1>3 DEF FeedAt, Chain, Below
<1>4. CASE FeedEscape BY <1>4 DEF FeedEscape, Chain, Below
<1>5. CASE FeedData
  <2>1. CASE acc' = raw BY <1>5, <2>1 DEF FeedData, Chain, Below
  <2>2. CASE acc' = acc \o raw
    <3>1. Joined(acc', acc, raw) BY <2>2, JoinOf DEF Buffers
    <3>2. Below(ToSet(acc), ToSet(raw)) BY DEF Chain
    <3>. QED BY <1>5, <3>1, <3>2 DEF FeedData, Joined, Chain, Below
  <2>. QED BY <1>5, <2>1, <2>2, FedWhole
<1>6. CASE DrainRun
  <2>1. Emit(Run(acc)) /\ Run(acc) \in 0..Len(acc)
    BY <1>6, RunBounds DEF DrainRun, Buffers, Bytes
  <2>2. PICK t \in Bytes : Cut(acc, t, acc') /\ Joined(out', out, t)
    BY <2>1, EmitMoves
  <2>3. Below(ToSet(out), ToSet(t)) BY <2>2 DEF Cut, Chain, Below
  <2>. QED BY <1>6, <2>2, <2>3 DEF DrainRun, Cut, Joined, Chain, Below
<1>7. CASE DrainFrame
  <2>1. PICK t \in Bytes : Cut(acc, t, acc') BY <1>7, FrameMoves
  <2>. QED BY <1>7, <2>1 DEF DrainFrame, Cut, Chain, Below
<1>8. CASE DrainJunk
  <2>1. Emit(1) /\ 1 \in 0..Len(acc) BY <1>8 DEF DrainJunk, Buffers, Bytes
  <2>2. PICK t \in Bytes : Cut(acc, t, acc') /\ Joined(out', out, t)
    BY <2>1, EmitMoves
  <2>3. Below(ToSet(out), ToSet(t)) BY <2>2 DEF Cut, Chain, Below
  <2>. QED BY <1>8, <2>2, <2>3 DEF DrainJunk, Cut, Joined, Chain, Below
<1>9. CASE DrainEnds BY <1>9 DEF DrainEnds
<1>10. CASE Spill BY <1>10, SpillMoves DEF Spill
<1>11. CASE Gather
  <2>1. PICK t \in Bytes, full \in Bytes :
           /\ Cut(out, t, out') /\ Joined(full, chunk, t)
           /\ \/ chunk' = full /\ pushing' = pushing /\ refused' = refused
              \/ chunk' = <<>> /\ pushing' = full /\ refused' = refused
              \/ /\ chunk' = <<>> /\ pushing' = <<>>
                 /\ refused' = refused \cup ToSet(full)
    BY <1>11, GatherMoves
  <2>2. pushing = <<>> BY <1>11 DEF Gather, PlaceInv
  <2>3. Below(ToSet(chunk), ToSet(t)) BY <2>1 DEF Cut, Chain, Below
  <2>. QED BY <1>11, <2>1, <2>2, <2>3 DEF Gather, Cut, Joined, Chain, Below
<1>12. CASE Gathered BY <1>12 DEF Gathered
<1>13. CASE Enqueue
  <2>1. PICK t \in Bytes :
           /\ Cut(pushing, t, pushing')
           /\ queue' = Append(queue, t) \/ queue' = queue
    BY <1>13, EnqueueMoves
  <2>2. CASE queue' = queue
    BY <1>13, <2>1, <2>2 DEF Enqueue, Cut, Chain, Below
  <2>3. CASE queue' = Append(queue, t)
    <3>1. Below(InQueue, ToSet(t)) BY <2>1 DEF Cut, Chain, Below
    <3>2. Sorted(t) BY <2>1 DEF Cut
    <3>3. InQueue' = InQueue \cup ToSet(t) /\ QueueOrder'
      BY <2>3, <3>1, <3>2, AppendMoves DEF Buffers
    <3>. QED BY <1>13, <2>1, <3>3 DEF Enqueue, Cut, Chain, Below
  <2>. QED BY <2>1, <2>2, <2>3
<1>14. CASE Pushed BY <1>14 DEF Pushed
<1>15. CASE Arrive BY <1>15 DEF Arrive
<1>16. CASE TxTask
  <2>1. CASE TxReceive
    <3>1. /\ InQueue = ToSet(Head(queue)) \cup InQueue' /\ QueueOrder'
          /\ Sorted(Head(queue)) /\ Below(ToSet(Head(queue)), InQueue')
      BY <2>1, TailMoves DEF TxReceive, Buffers
    <3>2. hold = <<>> BY <2>1 DEF TxReceive, PlaceInv
    <3>3. /\ hold' = Head(queue)
          /\ UNCHANGED <<sent, pushing, chunk, out, acc, raw>>
      BY <2>1 DEF TxReceive
    <3>4. Chain(ToSet(sent), ToSet(hold'), InQueue', ToSet(pushing), ToSet(chunk),
                ToSet(out), ToSet(acc), ToSet(raw))
      BY <3>1, <3>2, <3>3, ChainReceive
    <3>. QED BY <3>1, <3>3, <3>4
  <2>2. CASE TxSent
    <3>1. PICK n \in 0..Len(hold) : sent' = sent \o Take(hold, n) /\ Handed(n)
      BY <2>2 DEF TxSent
    <3>2. Cut(hold, Take(hold, n), hold') BY <3>1, CutOf DEF Buffers, Handed
    <3>3. Joined(sent', sent, Take(hold, n)) BY <3>1, <3>2, JoinOf DEF Buffers, Cut
    <3>4. Below(ToSet(sent), ToSet(Take(hold, n))) BY <3>2 DEF Cut, Chain, Below
    <3>. QED
      BY <2>2, <3>1, <3>2, <3>3, <3>4 DEF Handed, Cut, Joined, Chain, Below
  <2>3. CASE TxLost
    <3>1. PICK n \in 1..Len(hold) : Handed(n) BY <2>3 DEF TxLost
    <3>2. Cut(hold, Take(hold, n), hold') BY <3>1, CutOf DEF Buffers, Handed
    <3>. QED BY <2>3, <3>1, <3>2 DEF TxLost, Handed, Cut, Chain, Below
  <2>4. CASE TxDrop BY <2>4 DEF TxDrop, Chain, Below
  <2>. QED BY <1>16, <2>1, <2>2, <2>3, <2>4 DEF TxTask
<1>17. CASE Reconfigure BY <1>17 DEF Reconfigure
<1>18. CASE SwitchAt BY <1>18 DEF SwitchAt
<1>19. CASE UNCHANGED vars BY <1>19 DEF vars
<1>. QED
  BY <1>1, <1>2, <1>3, <1>4, <1>5, <1>6, <1>7, <1>8, <1>9, <1>10, <1>11,
     <1>12, <1>13, <1>14, <1>15, <1>16, <1>17, <1>18, <1>19 DEF Next, RxTask
-----------------------------------------------------------------------------
(* Theorems *)

\* Every step keeps Ledger.
LEMMA LedgerKept ==
  ASSUME Control, Buffers, Ledger, [Next]_vars
  PROVE  Ledger'
<1>1. CASE Read
  <2>1. Min2(avail - read, ReadMax) \in Nat /\ read \in Nat
    BY <1>1, SizeTypes DEF Read, Min2, Control
  <2>2. 1..read \subseteq 1..read' BY <1>1, <2>1 DEF Read
  <2>. QED BY <1>1, <2>2 DEF Read, Ledger
<1>2. CASE IdleFlush
  <2>1. ToSet(chunk) \subseteq 1..read BY ToSetOf DEF Buffers, Bytes
  <2>. QED BY <1>2, <2>1 DEF IdleFlush, PushFrom, Ledger
<1>3. CASE FeedAt \/ FeedEscape
  <2>1. ToSet(raw) \subseteq 1..read BY ToSetOf DEF Buffers, Bytes
  <2>. QED BY <1>3, <2>1 DEF FeedAt, FeedEscape, Ledger
<1>4. CASE DrainFrame
  <2>1. PICK t \in Bytes : taken' = taken \cup ToSet(t) BY <1>4, FrameMoves
  <2>2. ToSet(t) \subseteq 1..read BY ToSetOf DEF Bytes
  <2>. QED BY <1>4, <2>1, <2>2 DEF DrainFrame, Ledger
<1>5. CASE Gather
  <2>1. PICK full \in Bytes :
          refused' = refused \/ refused' = refused \cup ToSet(full)
    BY <1>5, GatherMoves
  <2>2. ToSet(full) \subseteq 1..read BY ToSetOf DEF Bytes
  <2>. QED BY <1>5, <2>1, <2>2 DEF Gather, Ledger
<1>6. CASE Enqueue
  <2>1. PICK t \in Bytes :
          dropped' = dropped \/ dropped' = dropped \cup ToSet(t)
    BY <1>6, EnqueueMoves
  <2>2. ToSet(t) \subseteq 1..read BY ToSetOf DEF Bytes
  <2>. QED BY <1>6, <2>1, <2>2 DEF Enqueue, Ledger
<1>7. CASE TxLost
  <2>1. PICK n \in 1..Len(hold) :
          lost' = lost \cup ToSet(Take(hold, n)) /\ Handed(n)
    BY <1>7 DEF TxLost
  <2>2. n \in 0..Len(hold) BY <2>1
  <2>3. Take(hold, n) \in Bytes BY <2>1, <2>2, HandedTypes
  <2>4. ToSet(Take(hold, n)) \subseteq 1..read BY <2>3, ToSetOf DEF Bytes
  <2>. QED BY <2>1, <2>4 DEF Handed, Ledger
<1>8. CASE TxDrop
  <2>1. ToSet(hold) \subseteq 1..read BY ToSetOf DEF Buffers, Bytes
  <2>. QED BY <1>8, <2>1 DEF TxDrop, Ledger
<1>9. CASE FeedData
  <2>1. AppendAcc(acc, raw).wiped \in Bytes
    <3>1. acc \in Bytes /\ raw \in Bytes /\ Len(acc) <= AccMax BY DEF Buffers
    <3>. QED BY ONLY <3>1, AppendAccType DEF Bytes
  <2>2. ToSet(AppendAcc(acc, raw).wiped) \subseteq 1..read
    BY <2>1, ToSetOf DEF Bytes
  <2>. QED BY <1>9, <2>2 DEF FeedData, Ledger
<1>10. CASE Spill
  <2>1. ToSet(out) \cup ToSet(acc) \cup ToSet(spill) \subseteq 1..read
    BY ToSetOf DEF Buffers, Bytes
  <2>2. lost' \subseteq 1..read BY <1>10, <2>1, SpillMoves DEF Ledger
  <2>. QED BY <1>10, <2>2 DEF Spill, Ledger
<1>11. CASE /\ ~Read /\ ~IdleFlush /\ ~FeedAt /\ ~FeedEscape /\ ~DrainFrame
            /\ ~Gather /\ ~Enqueue /\ ~TxLost /\ ~TxDrop /\ ~FeedData /\ ~Spill
  BY <1>11 DEF Next, RxTask, DrainRun, DrainJunk, DrainEnds, Gathered, Pushed,
         Arrive, TxTask, TxReceive, TxSent, Handed, Reconfigure, SwitchAt, vars,
         Ledger
<1>. QED
  BY <1>1, <1>2, <1>3, <1>4, <1>5, <1>6, <1>7, <1>8, <1>9, <1>10, <1>11

\* The stages one by one.
LEMMA StageAt ==
  ASSUME Buffers
  PROVE  /\ Len(queue) \in Nat /\ DOMAIN Stages = 1..Len(queue) + 7
         /\ Stages[1] = sent /\ Stages[2] = hold
         /\ \A k \in 1..Len(queue) : Stages[k + 2] = queue[k]
         /\ Stages[Len(queue) + 3] = pushing /\ Stages[Len(queue) + 4] = chunk
         /\ Stages[Len(queue) + 5] = out /\ Stages[Len(queue) + 6] = acc
         /\ Stages[Len(queue) + 7] = raw
<1> DEFINE front == <<sent, hold>> \o queue
           back == <<pushing, chunk, out, acc, raw>>
<1>1. queue \in Seq(Bytes) /\ <<sent, hold>> \in Seq(Bytes) BY DEF Buffers
<1>2. Len(queue) \in Nat BY <1>1
<1>3. /\ front \in Seq(Bytes) /\ Len(front) = Len(queue) + 2
      /\ front[1] = sent /\ front[2] = hold
      /\ \A k \in 1..Len(queue) : front[k + 2] = queue[k]
  BY <1>1
<1>4. back \in Seq(Bytes) /\ Len(back) = 5 BY DEF Buffers
<1>5. /\ back[1] = pushing /\ back[2] = chunk /\ back[3] = out /\ back[4] = acc
      /\ back[5] = raw
  OBVIOUS
<1>6. Stages = front \o back BY DEF Stages
<1> HIDE DEF front, back
<1>7. /\ Len(Stages) = Len(queue) + 7 /\ DOMAIN Stages = 1..Len(queue) + 7
      /\ \A i \in 1..Len(queue) + 2 : Stages[i] = front[i]
      /\ \A i \in 1..5 : Stages[Len(queue) + 2 + i] = back[i]
  <2>1. /\ Stages \in Seq(Bytes) /\ Len(Stages) = Len(front) + Len(back)
        /\ \A i \in 1..Len(front) + Len(back) : Stages[i] =
              IF i <= Len(front) THEN front[i] ELSE back[i - Len(front)]
    BY <1>3, <1>4, <1>6, ConcatProperties
  <2>2. \A i \in 1..5 :
          /\ Len(queue) + 2 + i \in 1..Len(front) + Len(back)
          /\ ~(Len(queue) + 2 + i <= Len(front))
          /\ Len(queue) + 2 + i - Len(front) = i
    BY <1>2, <1>3, <1>4
  <2>3. \A i \in 1..5 : Stages[Len(queue) + 2 + i] = back[i]
    BY <2>1, <2>2, SMTT(30)
  <2>4. \A i \in 1..Len(queue) + 2 : Stages[i] = front[i]
    BY <1>2, <1>3, <1>4, <2>1
  <2>5. Len(Stages) = Len(queue) + 7 BY <1>2, <1>3, <1>4, <2>1
  <2>6. DOMAIN Stages = 1..Len(queue) + 7 BY <2>1, <2>5, LenProperties
  <2>. QED BY <2>3, <2>4, <2>5, <2>6
<1>8. /\ Stages[Len(queue) + 2 + 1] = back[1]
      /\ Stages[Len(queue) + 2 + 2] = back[2]
      /\ Stages[Len(queue) + 2 + 3] = back[3]
      /\ Stages[Len(queue) + 2 + 4] = back[4]
      /\ Stages[Len(queue) + 2 + 5] = back[5]
  BY <1>7
<1>9. \A k \in 1..Len(queue) : Stages[k + 2] = queue[k]
  BY <1>2, <1>3, <1>7
<1>10. Stages[1] = sent /\ Stages[2] = hold BY <1>2, <1>3, <1>7
<1>11. /\ Len(queue) + 2 + 1 = Len(queue) + 3
       /\ Len(queue) + 2 + 2 = Len(queue) + 4
       /\ Len(queue) + 2 + 3 = Len(queue) + 5
       /\ Len(queue) + 2 + 4 = Len(queue) + 6
       /\ Len(queue) + 2 + 5 = Len(queue) + 7
  BY <1>2
<1>. QED BY <1>2, <1>5, <1>7, <1>8, <1>9, <1>10, <1>11

\* There is no other stage.
LEMMA StageIndex ==
  ASSUME NEW L \in Nat, NEW n \in 1..L + 7
  PROVE  \/ n = 1 \/ n = 2 \/ \E k \in 1..L : n = k + 2
         \/ n \in {L + 3, L + 4, L + 5, L + 6, L + 7}
<1>1. \/ n = 1 \/ n = 2 \/ n - 2 \in 1..L
      \/ n \in {L + 3, L + 4, L + 5, L + 6, L + 7}
  OBVIOUS
<1>2. n = (n - 2) + 2 OBVIOUS
<1>. QED BY <1>1, <1>2

\* OnTheWay is what the stages hold.
LEMMA OnTheWayIs ==
  ASSUME Buffers
  PROVE  OnTheWay = ToSet(sent) \cup ToSet(hold) \cup InQueue \cup ToSet(pushing)
                    \cup ToSet(chunk) \cup ToSet(out) \cup ToSet(acc)
                    \cup ToSet(raw)
<1> DEFINE L == Len(queue)
           W == ToSet(sent) \cup ToSet(hold) \cup InQueue \cup ToSet(pushing)
                \cup ToSet(chunk) \cup ToSet(out) \cup ToSet(acc) \cup ToSet(raw)
<1>1. OnTheWay = UNION {ToSet(Stages[n]) : n \in 1..L + 7}
  <2>1. ToSet(Stages) = {Stages[n] : n \in 1..L + 7} BY StageAt DEF ToSet
  <2>. QED BY <2>1 DEF OnTheWay
<1>2. \A n \in 1..L + 7 : ToSet(Stages[n]) \subseteq W
  <2> SUFFICES ASSUME NEW n \in 1..L + 7 PROVE ToSet(Stages[n]) \subseteq W
    OBVIOUS
  <2>1. \/ n = 1 \/ n = 2 \/ \E k \in 1..L : n = k + 2
        \/ n \in {L + 3, L + 4, L + 5, L + 6, L + 7}
    BY StageAt, StageIndex
  <2>2. CASE \E k \in 1..L : n = k + 2 BY <2>2, StageAt DEF InQueue
  <2>3. CASE n = 1 \/ n = 2 \/ n \in {L + 3, L + 4, L + 5, L + 6, L + 7}
    BY <2>3, StageAt
  <2>. QED BY <2>1, <2>2, <2>3
<1>3. W \subseteq OnTheWay
  <2>1. /\ 1 \in 1..L + 7 /\ 2 \in 1..L + 7 /\ L + 3 \in 1..L + 7
        /\ L + 4 \in 1..L + 7 /\ L + 5 \in 1..L + 7 /\ L + 6 \in 1..L + 7
        /\ L + 7 \in 1..L + 7 /\ \A k \in 1..L : k + 2 \in 1..L + 7
    BY StageAt
  <2>2. InQueue \subseteq OnTheWay BY <1>1, <2>1, StageAt DEF InQueue
  <2>3. /\ ToSet(sent) \subseteq OnTheWay /\ ToSet(hold) \subseteq OnTheWay
        /\ ToSet(pushing) \subseteq OnTheWay /\ ToSet(chunk) \subseteq OnTheWay
        /\ ToSet(out) \subseteq OnTheWay /\ ToSet(acc) \subseteq OnTheWay
        /\ ToSet(raw) \subseteq OnTheWay
    BY <1>1, <2>1, StageAt
  <2>. QED BY <2>2, <2>3
<1>. QED BY <1>1, <1>2, <1>3

\* Order is the order of the stages that InOrder states.
LEMMA OrderOfStages ==
  ASSUME Buffers, Order
  PROVE  InOrder
<1> DEFINE L == Len(queue)
           Inner == {L + 3, L + 4, L + 5, L + 6, L + 7}
<1>1. ASSUME NEW n \in 1..L + 7 PROVE Sorted(Stages[n]) /\ Stages[n] \in Seq(1..read)
  <2>1. n = 1 \/ n = 2 \/ (\E k \in 1..L : n = k + 2) \/ n \in Inner
    BY StageAt, StageIndex
  <2>2. CASE n = 1 \/ n = 2 \/ n \in Inner
    BY <2>2, StageAt DEF Order, Buffers, Bytes
  <2>3. CASE \E k \in 1..L : n = k + 2
    <3>1. PICK k \in 1..L : n = k + 2 BY <2>3
    <3>2. Stages[n] = queue[k] /\ queue[k] \in Bytes /\ Sorted(queue[k])
      BY <3>1, StageAt DEF Order, QueueOrder, Buffers
    <3>. QED BY <3>2 DEF Bytes
  <2>. QED BY <2>1, <2>2, <2>3
<1>2. ASSUME NEW m \in 1..L + 7, NEW n \in 1..L + 7, m < n
      PROVE  Below(ToSet(Stages[m]), ToSet(Stages[n]))
  <2>1. m = 1 \/ m = 2 \/ (\E k \in 1..L : m = k + 2) \/ m \in Inner
    BY StageAt, StageIndex
  <2>2. n = 1 \/ n = 2 \/ (\E k \in 1..L : n = k + 2) \/ n \in Inner
    BY StageAt, StageIndex
  <2>3. ASSUME NEW k \in 1..L PROVE ToSet(Stages[k + 2]) \subseteq InQueue
    BY StageAt DEF InQueue
  <2>4. CASE m = 1 \/ m = 2
    <3>1. n # 1 /\ (n = 2 => m = 1) BY <1>2, <2>4
    <3>2. CASE \E k \in 1..L : n = k + 2
      BY <2>3, <2>4, <3>2, StageAt DEF Order, Chain, Below
    <3>3. CASE n \in Inner \/ n = 2
      BY <2>4, <3>1, <3>3, StageAt DEF Order, Chain, Below
    <3>. QED BY <2>2, <3>1, <3>2, <3>3
  <2>5. CASE \E k \in 1..L : m = k + 2
    <3>1. PICK k \in 1..L : m = k + 2 BY <2>5
    <3>2. n # 1 /\ n # 2 BY <1>2, <3>1
    <3>3. CASE \E l \in 1..L : n = l + 2
      <4>1. PICK l \in 1..L : n = l + 2 BY <3>3
      <4>2. k < l BY <1>2, <3>1, <4>1
      <4>. QED BY <3>1, <4>1, <4>2, StageAt DEF Order, QueueOrder
    <3>4. CASE n \in Inner
      <4>1. ToSet(Stages[m]) \subseteq InQueue BY <2>3, <3>1
      <4>. QED BY <3>4, <4>1, StageAt DEF Order, Chain, Below
    <3>. QED BY <2>2, <3>2, <3>3, <3>4
  <2>6. CASE m \in Inner
    <3>1. n \in Inner BY <1>2, <2>2, <2>6, StageAt
    <3>2. CASE m = L + 3
      <4>1. n \in {L + 4, L + 5, L + 6, L + 7} BY <1>2, <3>1, <3>2, StageAt
      <4>. QED BY <3>2, <4>1, StageAt DEF Order, Chain, Below
    <3>3. CASE m = L + 4
      <4>1. n \in {L + 5, L + 6, L + 7} BY <1>2, <3>1, <3>3, StageAt
      <4>. QED BY <3>3, <4>1, StageAt DEF Order, Chain, Below
    <3>4. CASE m = L + 5
      <4>1. n \in {L + 6, L + 7} BY <1>2, <3>1, <3>4, StageAt
      <4>. QED BY <3>4, <4>1, StageAt DEF Order, Chain, Below
    <3>5. CASE m = L + 6
      <4>1. n = L + 7 BY <1>2, <3>1, <3>5, StageAt
      <4>. QED BY <3>5, <4>1, StageAt DEF Order, Chain, Below
    <3>6. m # L + 7 BY <1>2, StageAt
    <3>. QED BY <2>6, <3>2, <3>3, <3>4, <3>5, <3>6
  <2>. QED BY <2>1, <2>4, <2>5, <2>6
<1>3. SUFFICES ASSUME NEW m \in 1..L + 7, NEW n \in 1..L + 7,
                      NEW i \in DOMAIN Stages[m], NEW j \in DOMAIN Stages[n],
                      m < n \/ (m = n /\ i < j)
               PROVE  Stages[m][i] < Stages[n][j]
  BY StageAt DEF InOrder
<1>4. /\ DOMAIN Stages[m] = 1..Len(Stages[m]) /\ DOMAIN Stages[n] = 1..Len(Stages[n])
      /\ Stages[m][i] \in ToSet(Stages[m]) /\ Stages[n][j] \in ToSet(Stages[n])
  BY <1>1 DEF ToSet
<1>5. CASE m < n BY <1>2, <1>4, <1>5 DEF Below
<1>6. CASE m = n /\ i < j BY <1>1, <1>4, <1>6 DEF Sorted
<1>. QED BY <1>3, <1>5, <1>6

\* The invariants hold at the beginning.
LEMMA Begins ==
  ASSUME Init
  PROVE  /\ Control /\ Buffers /\ Ledger /\ PlaceInv /\ spill = <<>>
         /\ ChunkInv /\ Whole /\ Order
<1> USE DEF Init
<1>1. Control
  <2>1. wire \in Seq(Nat) /\ Len(wire) \in Nat BY WireAssumption
  <2>2. avail \in 0..Len(wire) /\ read \in 0..avail BY <2>1
  <2>3. pc \in Labels BY DEF Labels
  <2>4. open \in BOOLEAN /\ at \in BOOLEAN OBVIOUS
  <2>5. wire \in Wires /\ packet \in PacketSizes /\ limit \in PacketSizes
    OBVIOUS
  <2>. QED BY <2>1, <2>2, <2>3, <2>4, <2>5 DEF Control
<1>2. Buffers BY SizeTypes DEF Buffers, Bytes
<1>3. Ledger BY DEF Ledger
<1>4. PlaceInv BY DEF PlaceInv, Waits
<1>5. ChunkInv BY SizeAssumption DEF ChunkInv
<1>6. InQueue = {} BY DEF InQueue
<1>7. Sorted(<<>>) BY DEF Sorted
<1>8. Whole BY <1>6, ToSetEmpty DEF Whole
<1>9. Order BY <1>6, <1>7, ToSetEmpty DEF Order, QueueOrder, Chain, Below
<1>. QED BY <1>1, <1>2, <1>3, <1>4, <1>5, <1>8, <1>9

\* The inductive invariant, whatever is read.
BaseInv == Control /\ Buffers /\ Ledger /\ PlaceInv /\ Whole

\* The buffers keep their sizes, what waits between two reads may begin a frame,
\* and every byte read is accounted for, whatever the lengths of the reads, the
\* fate of a send and the settings.
THEOREM IngressInvariant == Spec => []BaseInv
<1>1. Init => BaseInv BY Begins DEF BaseInv
<1>2. BaseInv /\ [Next]_vars => BaseInv'
  BY ControlKept, BuffersKept, LedgerKept, PlaceKept, WholeKept DEF BaseInv
<1>3. QED BY <1>1, <1>2, PTL DEF Spec

\* The types of the serial side, for reads of any length.
THEOREM TypeCorrect == Spec => []TypeOK
<1>1. BaseInv => TypeOK
  <2> SUFFICES ASSUME BaseInv PROVE TypeOK
    OBVIOUS
  <2> USE DEF BaseInv
  <2>1. \A s \in Bytes : ToSet(s) \subseteq 1..read BY ToSetOf DEF Bytes
  <2>2. InQueue \subseteq 1..read BY <2>1 DEF InQueue, Buffers
  <2>3. OnTheWay \subseteq 1..read BY <2>1, <2>2, OnTheWayIs DEF Buffers
  <2>4. ToSet(spill) \subseteq 1..read BY <2>1 DEF Buffers
  <2>. QED BY <2>3, <2>4 DEF TypeOK, Control, Buffers, Ledger
<1>2. QED BY <1>1, IngressInvariant, PTL

\* For reads of any length: whenever the task is idle the accumulator is empty or
\* its bytes may begin a valid frame.
THEOREM OnlyFrameStartsWait == Spec => []OnlyUnfinishedWaits
<1>1. BaseInv => OnlyUnfinishedWaits
  BY DEF BaseInv, PlaceInv, Waits, OnlyUnfinishedWaits
<1>2. QED BY <1>1, IngressInvariant, PTL

\* For reads of any length: every byte read is on its way, was part of a frame or
\* of an AT session, is counted as dropped or refused, or was lost in one of the
\* three places NothingVanishes names.
THEOREM NoByteVanishes == Spec => []NothingVanishes
<1>1. BaseInv => NothingVanishes
  BY OnTheWayIs DEF BaseInv, Whole, NothingVanishes
<1>2. QED BY <1>1, IngressInvariant, PTL

\* packet_size may be set at any time: as long as no round of rs485_rx_task begins
\* with more bytes gathered than it allows, the chunk never outgrows its buffer.
\* This is the only way to outgrow it, and the run overfull takes it.
THEOREM ChunksFit == Spec /\ [][NotUndercut]_vars => []ChunkFits
<1>1. BaseInv /\ ChunkInv => ChunkFits
  <2> SUFFICES ASSUME BaseInv, ChunkInv PROVE ChunkFits
    OBVIOUS
  <2>1. limit \in Nat /\ limit <= ChunkMax
    BY SizeAssumption DEF BaseInv, Control
  <2>2. Len(chunk) \in Nat /\ Len(pushing) \in Nat
    BY DEF BaseInv, Buffers, Bytes
  <2>. QED BY <2>1, <2>2, SizeTypes DEF ChunkInv, ChunkFits
<1>2. BaseInv /\ ChunkInv /\ [Next]_vars /\ [NotUndercut]_vars => ChunkInv'
  <2> SUFFICES ASSUME BaseInv, ChunkInv, [Next]_vars, [NotUndercut]_vars
               PROVE  ChunkInv'
    OBVIOUS
  <2>1. CASE NotUndercut BY <2>1, ChunkKept DEF BaseInv
  <2>2. CASE UNCHANGED vars BY <2>2 DEF vars, ChunkInv
  <2>. QED BY <2>1, <2>2
<1>3. Init => ChunkInv BY Begins
<1>4. QED BY <1>1, <1>2, <1>3, IngressInvariant, PTL DEF Spec

\* The part that a read as long as the accumulator breaks.
BytesInv == spill = <<>> /\ Order

\* As long as no read is as long as the accumulator, no byte is bridged past it,
\* and the places of the bytes are in the order of the bus.
THEOREM BytesInvariant == Spec /\ []ReadIsShort => []BytesInv
<1>1. Init => BytesInv BY Begins DEF BytesInv
<1>2. BaseInv /\ ReadIsShort /\ BytesInv /\ [Next]_vars => BytesInv'
  BY NothingSpilled, OrderKept DEF BaseInv, BytesInv
<1>3. QED BY <1>1, <1>2, IngressInvariant, PTL DEF Spec

\* As long as no read is as long as the accumulator, the bytes of the bus keep
\* their order on their way to the network, however they are cut into reads,
\* whatever frames are between them, and even if a read wipes one out.
THEOREM BytesStayInOrder == Spec /\ []ReadIsShort => []InOrder
<1>1. BaseInv /\ BytesInv => InOrder BY OrderOfStages DEF BaseInv, BytesInv
<1>2. QED BY <1>1, IngressInvariant, BytesInvariant, PTL
=============================================================================
