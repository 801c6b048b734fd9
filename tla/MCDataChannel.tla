---------------------------- MODULE MCDataChannel ----------------------------
(* Two goroutines that each add a candidate and set the description, and two   *)
(* messages from each end.                                                     *)
EXTENDS DataChannel, TLC

CONSTANTS g1, g2

MCScript == (g1 :> <<"add", "describe">>) @@ (g2 :> <<"add", "describe">>)
=============================================================================
