--------------------------- MODULE MCStreamSystem ---------------------------
(***************************************************************************)
(* StreamSystem on small instances.                                        *)
(***************************************************************************)
EXTENDS StreamInvariants
=============================================================================
