---------------------------- MODULE MCDeviceWatch ----------------------------
(* A small instance of DeviceWatch: one device that flaps, two tasks. *)
EXTENDS DeviceWatch
==============================================================================
