--------------------------- MODULE MCDeviceLifecycle ---------------------------
(* Instances of DeviceLifecycle for TLC. *)
EXTENDS DeviceLifecycle
===============================================================================
