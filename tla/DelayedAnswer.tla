---------------------------- MODULE DelayedAnswer ----------------------------
(***************************************************************************)
(* What the module promises a device that asks for it on the bus: a        *)
(* request waits for its jitter, is then taken by one of the tasks and     *)
(* answered once.  A newer request takes the place of one that is not yet  *)
(* taken; one that is being answered is left to its end.                   *)
(***************************************************************************)
CONSTANT Reqs

VARIABLE fate  \* of each request: what has become of it

Open == {"waiting", "ripe"}

Init == fate = [r \in Reqs |-> "none"]

Ask(r) ==
  /\ fate[r] = "none"
  /\ fate' = [q \in Reqs |-> IF q = r THEN "waiting"
                             ELSE IF fate[q] \in Open THEN "none" ELSE fate[q]]

Becomes(r, from, to) == fate[r] = from /\ fate' = [fate EXCEPT ![r] = to]

Next ==
  \E r \in Reqs :
    \/ Ask(r)
    \/ Becomes(r, "waiting", "ripe")
    \/ Becomes(r, "ripe", "answering")
    \/ Becomes(r, "answering", "none")

Spec == Init /\ [][Next]_fate
=============================================================================
