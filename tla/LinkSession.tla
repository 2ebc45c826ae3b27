----------------------------- MODULE LinkSession -----------------------------
(***************************************************************************)
(* What the TCP side of the bridge promises, whatever its tasks do: there  *)
(* is at most one link, a link whose peer is alive is never replaced by    *)
(* another one, and a chunk that is being sent stays on the link it was    *)
(* started on: no new link opens until its send has ended.                 *)
(***************************************************************************)
CONSTANTS Conns, None

VARIABLES
  link,   \* the connection traffic goes to, or None
  alive,  \* its peer is there
  chunk   \* the connection a chunk is being sent on, or None

vars == <<link, alive, chunk>>

Init == link = None /\ alive = FALSE /\ chunk = None

\* A new link takes the place of none, or of one whose peer has gone.
Open ==
  /\ ~alive /\ chunk = None
  /\ link' \in Conns \ {link} /\ alive' \in BOOLEAN
  /\ UNCHANGED chunk

PeerGone == alive /\ alive' = FALSE /\ UNCHANGED <<link, chunk>>

Drop ==
  /\ link # None /\ chunk = None
  /\ link' = None /\ alive' = FALSE /\ UNCHANGED chunk

Begin ==
  /\ link # None /\ chunk = None
  /\ chunk' = link /\ UNCHANGED <<link, alive>>

\* A send ends with the link kept, or aborts it.
End ==
  /\ chunk # None /\ chunk = link /\ chunk' = None
  /\ \/ UNCHANGED <<link, alive>>
     \/ link' = None /\ alive' = FALSE

Next == Open \/ PeerGone \/ Drop \/ Begin \/ End

Spec == Init /\ [][Next]_vars
=============================================================================
