----------------------------- MODULE MCSignaling -----------------------------
(* Values for the constants of Signaling that a .cfg cannot write: two         *)
(* websockets k1 and k2 that both ask for the ID a.                            *)
EXTENDS Signaling, TLC

CONSTANTS a, k1, k2, c1, c2

MCIDOf == (c1 :> a) @@ (c2 :> a)
MCConnOf == (c1 :> k1) @@ (c2 :> k2)
MCTargetLists == {<<a>>}
=============================================================================
