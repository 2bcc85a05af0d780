-------------------------- MODULE DialogLifecycle --------------------------
(***************************************************************************)
(* What the durable dialog table promises, without versions, CSeqs or the  *)
(* tasks that race for it: a dialog is created inviting, moves only        *)
(* forward, and once terminated or orphaned it never changes again.        *)
(***************************************************************************)
CONSTANT Stream

VARIABLE phase   \* the state of each stream's dialog, "Absent" before INVITE

vars == <<phase>>

Successors(p) ==
  CASE p = "Absent"      -> {"Inviting"}
    [] p = "Inviting"    -> {"Established", "Terminated", "Orphan"}
    [] p = "Established" -> {"Terminating", "Terminated", "Orphan"}
    [] p = "Terminating" -> {"Terminated", "Orphan"}
    [] OTHER             -> {}

Init == phase = [s \in Stream |-> "Absent"]

Advance(s) == \E p \in Successors(phase[s]) : phase' = [phase EXCEPT ![s] = p]

Next == \E s \in Stream : Advance(s)

Spec == Init /\ [][Next]_vars
=============================================================================
