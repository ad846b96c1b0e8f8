--------------------------- MODULE MCDeviceSignIn ---------------------------
(* Model-checking instance of DeviceSignIn. *)
EXTENDS DeviceSignIn
=============================================================================
