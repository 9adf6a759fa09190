------------------------------- MODULE MCAlarm -------------------------------
(***************************************************************************)
(* Instances of Alarm for TLC.  Nothing tells one user from another, so    *)
(* the users may be permuted.                                              *)
(***************************************************************************)
EXTENDS Alarm, TLC

Symmetry == Permutations(Users)
=============================================================================
