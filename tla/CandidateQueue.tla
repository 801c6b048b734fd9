---------------------------- MODULE CandidateQueue ----------------------------
(***************************************************************************)
(* The queue of early ICE candidates in PeerConnection                     *)
(* (internal/webrtc/peer.go) under concurrent calls of AddICECandidate and *)
(* SetRemoteDescription.  candidatesMu guards the queue, not the decision  *)
(* to use it.  In the programs of cmd/ one read pump makes all the calls   *)
(* (Negotiation.tla); the type does not ask for that.                      *)
(***************************************************************************)
EXTENDS Integers, Sequences, FiniteSets

CONSTANTS Caller,    \* goroutines
          Script     \* the calls each makes: a sequence of "add" and "describe"

ASSUME ScriptAssumption == Script \in [Caller -> Seq({"add", "describe"})]

VARIABLES described, \* pc.RemoteDescription() # nil
          queue,     \* pendingCandidates
          added,     \* candidates passed to pc.AddICECandidate, in order
          call,      \* per caller: the number of its current call
          step,      \* per caller: where it is in that call
          batch      \* per caller: the queue it took and still has to add

vars == <<described, queue, added, call, step, batch>>

\* The candidate of the i-th call of caller g.
Candidate == Caller \X Nat

TypeOK == /\ described \in BOOLEAN
          /\ queue \in Seq(Candidate) /\ added \in Seq(Candidate)
          /\ call \in [Caller -> Nat]
          /\ step \in [Caller -> {"start", "queueing", "adding", "flushing", "taken"}]
          /\ batch \in [Caller -> Seq(Candidate)]
          /\ \A g \in Caller : batch[g] # <<>> => step[g] = "taken"

Init == /\ described = FALSE /\ queue = <<>> /\ added = <<>>
        /\ call = [g \in Caller |-> 1] /\ step = [g \in Caller |-> "start"]
        /\ batch = [g \in Caller |-> <<>>]

Calls(g, name) == call[g] \in DOMAIN Script[g] /\ Script[g][call[g]] = name
GoTo(g, s) == step' = [step EXCEPT ![g] = s] /\ UNCHANGED call
Return(g) == /\ step' = [step EXCEPT ![g] = "start"]
             /\ call' = [call EXCEPT ![g] = @ + 1]

\* AddICECandidate reads the remote description ...
AddDecides(g) == /\ step[g] = "start" /\ Calls(g, "add")
                 /\ GoTo(g, IF described THEN "adding" ELSE "queueing")
                 /\ UNCHANGED <<described, queue, added, batch>>

\* ... and acts on what it read.
AddQueues(g) == /\ step[g] = "queueing"
                /\ queue' = Append(queue, <<g, call[g]>>)
                /\ Return(g)
                /\ UNCHANGED <<described, added, batch>>

AddAdds(g) == /\ step[g] = "adding"
              /\ added' = Append(added, <<g, call[g]>>)
              /\ Return(g)
              /\ UNCHANGED <<described, queue, batch>>

\* SetRemoteDescription sets the description, then takes the whole queue under
\* the mutex and adds it candidate by candidate.
Describe(g) == /\ step[g] = "start" /\ Calls(g, "describe")
               /\ described' = TRUE
               /\ GoTo(g, "flushing")
               /\ UNCHANGED <<queue, added, batch>>

\* A slip: the queue is copied and not reset.
TakeQueue_Copies(g) == /\ step[g] = "flushing"
                       /\ batch' = [batch EXCEPT ![g] = queue]
                       /\ GoTo(g, "taken")
                       /\ UNCHANGED <<described, queue, added>>

TakeQueue(g) == /\ step[g] = "flushing"
                /\ batch' = [batch EXCEPT ![g] = queue]
                /\ queue' = <<>>
                /\ GoTo(g, "taken")
                /\ UNCHANGED <<described, added>>

AddPending(g) == /\ step[g] = "taken" /\ batch[g] # <<>>
                 /\ added' = Append(added, Head(batch[g]))
                 /\ batch' = [batch EXCEPT ![g] = Tail(@)]
                 /\ UNCHANGED <<described, queue, call, step>>

Flushed(g) == /\ step[g] = "taken" /\ batch[g] = <<>>
              /\ Return(g)
              /\ UNCHANGED <<described, queue, added, batch>>

Next == \E g \in Caller : \/ AddDecides(g) \/ AddQueues(g) \/ AddAdds(g)
                          \/ Describe(g) \/ TakeQueue(g) \/ AddPending(g) \/ Flushed(g)

Spec == Init /\ [][Next]_vars

-----------------------------------------------------------------------------
Places(c) == Cardinality({i \in DOMAIN queue : queue[i] = c})
               + Cardinality({i \in DOMAIN added : added[i] = c})
               + Cardinality({g \in Caller : \E i \in DOMAIN batch[g] : batch[g][i] = c})

\* Whatever the interleaving, a candidate whose AddICECandidate returned is in
\* exactly one place: queued, taken by one flush, or added.  Two flushes never
\* share a candidate, and none is dropped.
NoneLostOrDoubled ==
  \A g \in Caller : \A i \in 1..(call[g] - 1) :
    Script[g][i] = "add" => Places(<<g, i>>) = 1

\* pion is given a candidate only once it has a remote description.
NoneBeforeDescription == added # <<>> => described
=============================================================================
