----------------------------- MODULE DeviceLink -----------------------------
(***************************************************************************)
(* What the services of a device read of its registration: it is registered *)
(* or not and, if it is, connected or not (Register::has_session,           *)
(* get_connected_device_session).  DeviceRegistry models how it changes.    *)
(***************************************************************************)

VARIABLE conn   \* "none", "connected" or "detached"

None == "none"
has_session == conn # None
connected == conn = "connected"
=============================================================================
