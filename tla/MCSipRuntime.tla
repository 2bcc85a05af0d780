--------------------------- MODULE MCSipRuntime ---------------------------
(***************************************************************************)
(* SipRuntime on a small instance.  Callers and lookups share the command   *)
(* queue and the end of the runtime, not their data, so that a behaviour    *)
(* has either callers with their connections or lookups with every content  *)
(* of the table.  Neither step that is left out is one fairness speaks of.  *)
(***************************************************************************)
EXTENDS SipRuntime

VARIABLE focus

MCInit ==
    /\ Init /\ focus \in {"callers", "lookups"}
    /\ focus = "callers" => \A d \in Device : row[d] = "password"

MCNext ==
    /\ Next /\ UNCHANGED focus
    /\ focus = "callers" => UNCHANGED <<asked, cache>>
    /\ focus = "lookups" => UNCHANGED <<calls, connections>>

MCSpec == MCInit /\ [][MCNext]_<<vars, focus>> /\ Fairness
=============================================================================
