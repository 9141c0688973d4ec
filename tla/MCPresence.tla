----------------------------- MODULE MCPresence -----------------------------
(***************************************************************************)
(* Presence for TLC: the devices that ConfigureSystem registers for the    *)
(* persons of the repaired configuration file, the counters of             *)
(* BluetoothDevice.h, and a queue that two changes fill.                   *)
(***************************************************************************)
EXTENDS Presence, Configuration, ConfigurationFiles

=============================================================================
