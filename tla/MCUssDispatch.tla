----------------------------- MODULE MCUssDispatch -----------------------------
(***************************************************************************)
(* Instances of UssDispatch for TLC.  Handles are numbers because a tree   *)
(* breaks ties by handle, so there is no symmetry to exploit.              *)
(***************************************************************************)
EXTENDS UssDispatchRefinement

TwoHandles == 1..2
ThreeHandles == 1..3
================================================================================
