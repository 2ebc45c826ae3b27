----------------------------- MODULE ByteChannel -----------------------------
(***************************************************************************)
(* What the serial side of the bridge promises for the bytes of the bus,   *)
(* whatever buffers they wait in: a byte that was read is pending until it *)
(* meets one fate, which is final.  It is handed to the network, behind    *)
(* every byte handed over before it that came earlier on the bus and none  *)
(* that came later; or it is held back, dropped or refused, and counted as *)
(* that; or it is lost, and not counted.                                   *)
(***************************************************************************)
EXTENDS Naturals, Sequences, SequencesExt

VARIABLES
  read,     \* how many bytes of the bus have been read
  pending,  \* those nothing has been done with yet
  sent,     \* what the network has been handed, in this order
  taken,    \* bytes held back: config frames and AT input
  dropped,  \* bytes counted as dropped
  lost,     \* bytes lost without being counted
  refused   \* bytes that came while the bridge was closed or in AT mode

vars == <<read, pending, sent, taken, dropped, lost, refused>>

Increasing(s) == \A i, j \in 1..Len(s) : i < j => s[i] < s[j]

Init ==
  /\ read = 0 /\ pending = {} /\ sent = <<>>
  /\ taken = {} /\ dropped = {} /\ lost = {} /\ refused = {}

\* The next bytes of the bus.
Accept ==
  /\ read' > read
  /\ pending' = pending \cup (read + 1)..read'
  /\ UNCHANGED <<sent, taken, dropped, lost, refused>>

\* Some pending bytes follow those the network has, in the order of the bus.
Deliver ==
  /\ IsStrictPrefix(sent, sent') /\ Increasing(sent')
  /\ ToSet(sent') \ ToSet(sent) \subseteq pending
  /\ pending' = pending \ ToSet(sent')
  /\ UNCHANGED <<read, taken, dropped, lost, refused>>

\* Some pending bytes will never reach the network, for one of four reasons.
Withhold ==
  LET gone == pending \ pending' IN
  /\ pending' \subseteq pending /\ gone # {}
  /\ \/ taken' = taken \cup gone /\ UNCHANGED <<dropped, lost, refused>>
     \/ dropped' = dropped \cup gone /\ UNCHANGED <<taken, lost, refused>>
     \/ lost' = lost \cup gone /\ UNCHANGED <<taken, dropped, refused>>
     \/ refused' = refused \cup gone /\ UNCHANGED <<taken, dropped, lost>>
  /\ UNCHANGED <<read, sent>>

Next == Accept \/ Deliver \/ Withhold

Spec == Init /\ [][Next]_vars
-----------------------------------------------------------------------------
\* Each byte read is pending, sent, held back, dropped, lost or refused, and
\* only one of these.
OneFate ==
  /\ 1..read = UNION {pending, ToSet(sent), taken, dropped, lost, refused}
  /\ pending \cap UNION {ToSet(sent), taken, dropped, lost, refused} = {}
  /\ ToSet(sent) \cap UNION {taken, dropped, lost, refused} = {}
  /\ taken \cap UNION {dropped, lost, refused} = {}
  /\ dropped \cap (lost \cup refused) = {}
  /\ lost \cap refused = {}
=============================================================================
