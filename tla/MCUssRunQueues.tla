----------------------------- MODULE MCUssRunQueues -----------------------------
(***************************************************************************)
(* Values for UssRunQueues: type 4 has two devices, type 6 one, type 5 is  *)
(* one the daemon does not have.                                           *)
(***************************************************************************)
EXTENDS UssRunQueues, TLC

TwoTypes == <<<<4, 0>>, <<4, 1>>, <<6, 0>>>>
Mixed == {(4 :> 10) @@ (6 :> 10), (4 :> 5) @@ (5 :> 9) @@ (6 :> 10) @@ (7 :> 12), 5 :> 1}
Unset == {0, -24}
================================================================================
