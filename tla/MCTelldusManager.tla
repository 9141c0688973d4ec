-------------------------- MODULE MCTelldusManager --------------------------
(***************************************************************************)
(* TelldusManager for TLC: commands for a lamp, for a device telldus-core  *)
(* does not know, and one whose value has the wrong type.                  *)
(***************************************************************************)
EXTENDS TelldusManager

MCCommands ==
    << [id |-> "lamp", on |-> TRUE, typed |-> TRUE],
       [id |-> "lamp", on |-> FALSE, typed |-> TRUE],
       [id |-> "other", on |-> TRUE, typed |-> TRUE],
       [id |-> "lamp", on |-> TRUE, typed |-> FALSE] >>

=============================================================================
