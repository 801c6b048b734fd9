-------------------------------- MODULE Calls --------------------------------
(***************************************************************************)
(* What the peers promise each other about calls, without messages,        *)
(* channels and candidates.  A peer makes at most one call, and only while *)
(* it answers nobody.  Its call rings at the target until the target takes *)
(* it or refuses it; a target takes one call at a time, refuses only while *)
(* it has a call of its own or answers another, and answers what it took.  *)
(* What was answered can only become established: no answer is refused.    *)
(***************************************************************************)
CONSTANTS Peer,
          Offerer,   \* the peers that may call
          Target,    \* whom they call
          NoPeer     \* "no session yet"

VARIABLES call,      \* the call each peer makes
          session    \* whose description each peer has

vars == <<call, session>>

Pending == {"ringing", "accepted", "answered", "refused"}
Answers(q) == \E p \in Offerer : Target[p] = q /\ call[p] = "accepted"

\* A peer that was refused is not told, so it waits and never is free again.
Free(q) == call[q] \notin Pending /\ ~Answers(q)
Up(q)   == call[q] # "failed"

Init == call = [p \in Peer |-> "none"] /\ session = [p \in Peer |-> NoPeer]

Becomes(p, phase) == call' = [call EXCEPT ![p] = phase]

Ring(p) == call[p] = "none" /\ Free(p) /\ Becomes(p, "ringing") /\ UNCHANGED session

\* Whoever wants to call while it answers gives up and ends.
GiveUp(p) == call[p] = "none" /\ ~Free(p) /\ Becomes(p, "failed") /\ UNCHANGED session

Accept(p) == /\ call[p] = "ringing" /\ Up(Target[p]) /\ Free(Target[p])
             /\ Becomes(p, "accepted")
             /\ session' = [session EXCEPT ![Target[p]] = p]

Refuse(p) == /\ call[p] = "ringing" /\ Up(Target[p]) /\ ~Free(Target[p])
             /\ Becomes(p, "refused")
             /\ UNCHANGED session

Answer(p) == /\ call[p] = "accepted" /\ Up(Target[p])
             /\ Becomes(p, "answered")
             /\ UNCHANGED session

Establish(p) == /\ call[p] = "answered"
                /\ Becomes(p, "established")
                /\ session' = [session EXCEPT ![p] = Target[p]]

Next == \E p \in Offerer : \/ Ring(p) \/ GiveUp(p)
                           \/ Accept(p) \/ Refuse(p)
                           \/ Answer(p) \/ Establish(p)

Spec == Init /\ [][Next]_vars
=============================================================================
