--------------------------- MODULE MCUssRegistration ---------------------------
(***************************************************************************)
(* Instances of UssRegistration for TLC.  Clients that the daemon can      *)
(* serve are only compared with each other, so they are symmetric.         *)
(***************************************************************************)
EXTENDS UssRegistration, TLC

ClientSymmetry == Permutations(Clients \ Unsuited)
================================================================================
