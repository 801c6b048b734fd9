---------------------------- MODULE MCNegotiation ----------------------------
(* Values for the constants of Negotiation that a .cfg cannot write.           *)
EXTENDS Negotiation, TLC

CONSTANTS alice, bob, carol

\* Alice and Bob call each other, Carol calls Bob.
MCTarget == (alice :> bob) @@ (bob :> alice) @@ (carol :> bob)
\* Two candidates of one author can change places.
MCCandidates == (alice :> 2) @@ (bob :> 1) @@ (carol :> 1)
=============================================================================
