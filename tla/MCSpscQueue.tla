---------------------------- MODULE MCSpscQueue -----------------------------
(***************************************************************************)
(* SpscQueue for TLC: three slots and a spare one, so that the indices     *)
(* wrap at different moments, and two elements, enough to tell a lost, a   *)
(* repeated and a reordered element apart.                                 *)
(***************************************************************************)
EXTENDS SpscQueue

=============================================================================
