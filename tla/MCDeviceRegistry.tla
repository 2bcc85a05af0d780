-------------------------- MODULE MCDeviceRegistry --------------------------
(***************************************************************************)
(* DeviceRegistry on small instances.                                      *)
(***************************************************************************)
EXTENDS DeviceRegistry, TLC

DeviceSymmetry == Permutations(Device)
=============================================================================
