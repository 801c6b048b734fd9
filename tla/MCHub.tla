-------------------------------- MODULE MCHub --------------------------------
(* Values for the constants of Hub that a .cfg cannot write.                   *)
EXTENDS Hub, TLC

CONSTANTS a,        \* the ID
          c1, c2    \* client objects, both for the ID a

MCIDOf == (c1 :> a) @@ (c2 :> a)

\* SendToMultiple([a, a]); what is left to send after the first is SendTo(a).
MCTargetLists == {<<a, a>>}
=============================================================================
