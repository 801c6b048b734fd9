----------------------------- MODULE Negotiation -----------------------------
(***************************************************************************)
(* How two peers set up a WebRTC session: PeerConnection                   *)
(* (internal/webrtc/peer.go), the handlers its read pump calls             *)
(* (internal/protocol/handler.go), the candidate callback                  *)
(* (internal/webrtc/candidate.go) and main of an offering peer (cmd/).     *)
(*                                                                         *)
(* Three goroutines of a peer matter: main, which makes the offer; the     *)
(* read pump, which handles one message at a time; and pion's, which calls *)
(* back with each local candidate.  Session descriptions leave through the *)
(* connection's channel and its write pump, candidates are written to the  *)
(* websocket directly, so a candidate may overtake a description.  The     *)
(* server forwards the frames of one websocket in order (Signaling.tla);   *)
(* all peers here are registered and no frame is lost.                     *)
(*                                                                         *)
(* What pion does is external and modelled by how the code uses it: the    *)
(* JSEP state machine, and candidates gathered once, after the first local *)
(* description.                                                            *)
(***************************************************************************)
EXTENDS Integers, Sequences, FiniteSets

CONSTANTS Peer,
          Offerer,        \* the peers started with -role=offer
          Target,         \* the ID the user types at each offering peer
          NoPeer,         \* "" or nil
          MaxCandidates   \* per peer: bound on the candidates it gathers

ASSUME NegotiationAssumption ==
  /\ Offerer \subseteq Peer /\ Target \in [Offerer -> Peer] /\ NoPeer \notin Peer
  /\ MaxCandidates \in [Peer -> Nat]

VARIABLES
  signaling,  \* pion's signaling state
  remote,     \* author of the remote description, NoPeer while there is none
  queued,     \* p.pendingCandidates
  added,      \* candidates passed to pion, in order
  targetID,   \* p.targetID
  gathering,  \* pion's ICE gathering: "new", "running" or "complete"
  gathered,   \* how many candidates it has found
  main,       \* progress of runOfferMode
  reader,     \* read pump: "idle", or answering an offer
  outbox,     \* session descriptions in the connection's channel
  wire,       \* frames written to the websocket, not yet forwarded
  inbox       \* frames the server has written to the peer's websocket

pcVars == <<signaling, remote, queued, added, targetID, gathering, gathered>>
vars == <<pcVars, main, reader, outbox, wire, inbox>>

Message == [type : {"offer", "answer", "candidate"}, from : Peer, to : Peer \cup {NoPeer},
            n : Nat]
Candidate == [from : Peer, n : Nat \ {0}]

TypeOK ==
  /\ signaling \in [Peer -> {"stable", "have-local-offer", "have-remote-offer"}]
  /\ remote \in [Peer -> Peer \cup {NoPeer}] /\ targetID \in [Peer -> Peer \cup {NoPeer}]
  /\ queued \in [Peer -> Seq(Candidate)] /\ added \in [Peer -> Seq(Candidate)]
  /\ gathering \in [Peer -> {"new", "running", "complete"}]
  /\ gathered \in [Peer -> Nat]
  /\ main \in [Peer -> {"prompt", "targeted", "offering", "waiting", "fatal", "answering"}]
  /\ reader \in [Peer -> {"idle", "answering"}]
  /\ {outbox, wire, inbox} \subseteq [Peer -> Seq(Message)]

Init ==
  /\ signaling = [p \in Peer |-> "stable"]
  /\ remote = [p \in Peer |-> NoPeer] /\ targetID = [p \in Peer |-> NoPeer]
  /\ queued = [p \in Peer |-> <<>>] /\ added = [p \in Peer |-> <<>>]
  /\ gathering = [p \in Peer |-> "new"] /\ gathered = [p \in Peer |-> 0]
  /\ main = [p \in Peer |-> IF p \in Offerer THEN "prompt" ELSE "answering"]
  /\ reader = [p \in Peer |-> "idle"]
  /\ outbox = [p \in Peer |-> <<>>] /\ wire = [p \in Peer |-> <<>>]
  /\ inbox = [p \in Peer |-> <<>>]

Alive(p) == main[p] # "fatal"
Sdp(type, p, q) == [type |-> type, from |-> p, to |-> q, n |-> 0]
StartsGathering(p) ==
  gathering' = IF gathering[p] = "new" THEN [gathering EXCEPT ![p] = "running"] ELSE gathering

-----------------------------------------------------------------------------
(***************************************************************************)
(* main of an offering peer: SetTargetID, CreateOffer (which waits until   *)
(* all candidates are gathered), and the offer goes into the channel.      *)
(***************************************************************************)
\* A slip: main goes on without SetTargetID.
SetTargetID_Skipped(p) ==
  /\ main[p] = "prompt"
  /\ main' = [main EXCEPT ![p] = "targeted"]
  /\ UNCHANGED <<pcVars, reader, outbox, wire, inbox>>

SetTargetID(p) ==
  /\ main[p] = "prompt"
  /\ targetID' = [targetID EXCEPT ![p] = Target[p]]
  /\ main' = [main EXCEPT ![p] = "targeted"]
  /\ UNCHANGED <<signaling, remote, queued, added, gathering, gathered, reader, outbox,
                 wire, inbox>>

\* SetLocalDescription fails unless the state is stable, and main gives up.
CreateOffer(p) ==
  /\ main[p] = "targeted"
  /\ IF signaling[p] = "stable"
     THEN /\ signaling' = [signaling EXCEPT ![p] = "have-local-offer"]
          /\ StartsGathering(p)
          /\ main' = [main EXCEPT ![p] = "offering"]
     ELSE /\ main' = [main EXCEPT ![p] = "fatal"]
          /\ UNCHANGED <<signaling, gathering>>
  /\ UNCHANGED <<remote, queued, added, targetID, gathered, reader, outbox, wire, inbox>>

SendOffer(p) ==
  /\ main[p] = "offering" /\ gathering[p] = "complete"
  /\ outbox' = [outbox EXCEPT ![p] = Append(@, Sdp("offer", p, Target[p]))]
  /\ main' = [main EXCEPT ![p] = "waiting"]
  /\ UNCHANGED <<pcVars, reader, wire, inbox>>

-----------------------------------------------------------------------------
(***************************************************************************)
(* pion's gathering goroutine, and the frames on their way to the server   *)
(* and on to the peer they are addressed to.                               *)
(***************************************************************************)
OnICECandidate(p) ==
  /\ Alive(p) /\ gathering[p] = "running" /\ gathered[p] < MaxCandidates[p]
  /\ gathered' = [gathered EXCEPT ![p] = @ + 1]
  /\ wire' = [wire EXCEPT ![p] = Append(@,
       [type |-> "candidate", from |-> p, to |-> targetID[p], n |-> gathered'[p]])]
  /\ UNCHANGED <<signaling, remote, queued, added, targetID, gathering, main, reader,
                 outbox, inbox>>

GatheringComplete(p) ==
  /\ Alive(p) /\ gathering[p] = "running"
  /\ gathering' = [gathering EXCEPT ![p] = "complete"]
  /\ UNCHANGED <<signaling, remote, queued, added, targetID, gathered, main, reader,
                 outbox, wire, inbox>>

WriteSdp(p) ==
  /\ Alive(p) /\ outbox[p] # <<>>
  /\ wire' = [wire EXCEPT ![p] = Append(@, Head(outbox[p]))]
  /\ outbox' = [outbox EXCEPT ![p] = Tail(@)]
  /\ UNCHANGED <<pcVars, main, reader, inbox>>

Forward(p) ==
  /\ wire[p] # <<>>
  /\ LET m == Head(wire[p])
     IN  inbox' = IF m.to \in Peer THEN [inbox EXCEPT ![m.to] = Append(@, m)] ELSE inbox
  /\ wire' = [wire EXCEPT ![p] = Tail(@)]
  /\ UNCHANGED <<pcVars, main, reader, outbox>>

-----------------------------------------------------------------------------
(***************************************************************************)
(* The read pump: SessionDescriptionHandler and CandidateHandler.          *)
(***************************************************************************)
\* A slip: the router takes the type of the message for granted.
Receives_Any(p, types) == Alive(p) /\ reader[p] = "idle" /\ inbox[p] # <<>>

Receives(p, types) == /\ Alive(p) /\ reader[p] = "idle"
                      /\ inbox[p] # <<>> /\ Head(inbox[p]).type \in types
Consumes(p) == inbox' = [inbox EXCEPT ![p] = Tail(@)]

Acceptable(p, m) == \/ m.type = "offer" /\ signaling[p] = "stable"
                    \/ m.type = "answer" /\ signaling[p] = "have-local-offer"

\* Three slips: the flush leaves the queue as it was; drops it; does not happen.
Flush_Keeps(p) == /\ added' = [added EXCEPT ![p] = @ \o queued[p]]
                  /\ UNCHANGED queued
Flush_Drops(p) == /\ queued' = [queued EXCEPT ![p] = <<>>]
                  /\ UNCHANGED added
Flush_Skipped(p) == UNCHANGED <<added, queued>>

Flush(p) == /\ added' = [added EXCEPT ![p] = @ \o queued[p]]
            /\ queued' = [queued EXCEPT ![p] = <<>>]

\* SetRemoteDescription, which flushes the queued candidates into pion, then
\* SetTargetID: candidates gathered from now on go to the author.
SetRemoteDescription(p) ==
  /\ Receives(p, {"offer", "answer"}) /\ Acceptable(p, Head(inbox[p]))
  /\ LET m == Head(inbox[p])
         offered == m.type = "offer"
     IN  /\ signaling' = [signaling EXCEPT ![p] =
                            IF offered THEN "have-remote-offer" ELSE "stable"]
         /\ reader' = [reader EXCEPT ![p] = IF offered THEN "answering" ELSE "idle"]
         /\ remote' = [remote EXCEPT ![p] = m.from]
         /\ targetID' = [targetID EXCEPT ![p] = m.from]
  /\ Flush(p)
  /\ Consumes(p)
  /\ UNCHANGED <<gathering, gathered, main, outbox, wire>>

\* A slip: the handler answers although SetRemoteDescription failed.
SetRemoteDescriptionFails_Ignored(p) ==
  /\ Receives(p, {"offer"}) /\ ~Acceptable(p, Head(inbox[p]))
  /\ reader' = [reader EXCEPT ![p] = "answering"]
  /\ Consumes(p)
  /\ UNCHANGED <<pcVars, main, outbox, wire>>

\* Not acceptable in this state: the handler returns the error, which is logged.
SetRemoteDescriptionFails(p) ==
  /\ Receives(p, {"offer", "answer"}) /\ ~Acceptable(p, Head(inbox[p]))
  /\ Consumes(p)
  /\ UNCHANGED <<pcVars, main, reader, outbox, wire>>

\* CreateAnswer sets the local description and starts the gathering; the answer
\* goes to the author of the offer.
CreateAnswer(p) ==
  /\ Alive(p) /\ reader[p] = "answering"
  /\ signaling' = [signaling EXCEPT ![p] = "stable"]
  /\ StartsGathering(p)
  /\ outbox' = [outbox EXCEPT ![p] = Append(@, Sdp("answer", p, remote[p]))]
  /\ reader' = [reader EXCEPT ![p] = "idle"]
  /\ UNCHANGED <<remote, queued, added, targetID, gathered, main, wire, inbox>>

\* AddICECandidate does not look at the sender.
AddICECandidate(p) ==
  /\ Receives(p, {"candidate"})
  /\ LET c == [from |-> Head(inbox[p]).from, n |-> Head(inbox[p]).n]
     IN  IF remote[p] = NoPeer
         THEN queued' = [queued EXCEPT ![p] = Append(@, c)] /\ UNCHANGED added
         ELSE added' = [added EXCEPT ![p] = Append(@, c)] /\ UNCHANGED queued
  /\ Consumes(p)
  /\ UNCHANGED <<signaling, remote, targetID, gathering, gathered, main, reader, outbox,
                 wire>>

-----------------------------------------------------------------------------
Offers(p) == CreateOffer(p) \/ SendOffer(p)
Reads(p)  == \/ SetRemoteDescription(p)
             \/ SetRemoteDescriptionFails(p)
             \/ CreateAnswer(p)
             \/ AddICECandidate(p)

Next == \E p \in Peer : \/ SetTargetID(p) \/ Offers(p)
                        \/ OnICECandidate(p) \/ GatheringComplete(p)
                        \/ WriteSdp(p) \/ Forward(p)
                        \/ Reads(p)

Spec == Init /\ [][Next]_vars

(***************************************************************************)
(* Every goroutine runs on and the network delivers; whether a user types  *)
(* a target is open.                                                       *)
(***************************************************************************)
Fairness == \A p \in Peer : /\ WF_vars(Offers(p)) /\ WF_vars(GatheringComplete(p))
                            /\ WF_vars(WriteSdp(p)) /\ WF_vars(Forward(p))
                            /\ WF_vars(Reads(p))

FairSpec == Spec /\ Fairness

-----------------------------------------------------------------------------
(***************************************************************************)
(* Properties.                                                             *)
(***************************************************************************)
\* What p holds, in order: pion was given it, or will be by the next flush.
Held(p) == added[p] \o queued[p]

\* The candidates of each author reach pion in the order they were gathered and
\* none twice, although some wait in the queue and others go straight through,
\* and although they travel apart from the descriptions.
CandidatesInOrder ==
  \A p \in Peer : \A i, j \in DOMAIN Held(p) :
    i < j /\ Held(p)[i].from = Held(p)[j].from => Held(p)[i].n < Held(p)[j].n

\* No candidate is stranded: the queue is empty once there is a remote
\* description, and before there is one nothing is passed to pion, which would
\* refuse it.
QueueOnlyBeforeRemote ==
  \A p \in Peer : IF remote[p] = NoPeer THEN added[p] = <<>> ELSE queued[p] = <<>>

\* Every candidate has a receiver: whichever of main and the read pump starts
\* the gathering has set the target before.
CandidatesAddressed ==
  \A p \in Peer : \A i \in DOMAIN wire[p] : wire[p][i].to # NoPeer

\* No candidate gets lost or doubled between two peers: from the callback on it is
\* on its author's wire, in one inbox, or with one peer, whatever target the callback
\* read, whoever crashes, and however it overtakes descriptions.
Places(p, n) ==
  LET It(m) == m.type = "candidate" /\ m.from = p /\ m.n = n
  IN  UNION {{<<"wire", q, i>> : i \in {j \in DOMAIN wire[q] : It(wire[q][j])}}
               \cup {<<"inbox", q, i>> : i \in {j \in DOMAIN inbox[q] : It(inbox[q][j])}}
               \cup {<<"held", q, i>> :
                       i \in {j \in DOMAIN Held(q) : Held(q)[j] = [from |-> p, n |-> n]}}
             : q \in Peer}
NoCandidateLost ==
  \A p \in Peer : \A n \in 1..gathered[p] : \E x \in Places(p, n) : Places(p, n) = {x}

\* An answer reaches a peer only while that peer waits for it, and only from the
\* peer it called, also when others call it meanwhile: SetRemoteDescription
\* rejects offers (two peers that call each other) but never an answer.
AnswersAreAwaited ==
  \A p \in Peer : \A i \in DOMAIN inbox[p] :
    inbox[p][i].type = "answer" =>
      /\ p \in Offerer /\ inbox[p][i].from = Target[p]
      /\ signaling[p] = "have-local-offer"

\* The peers implement the calls of Calls.tla: where a call stands shows in main, in
\* the read pump that answers it, and in the description that is under way.
Elements(s) == {s[i] : i \in 1..Len(s)}
Flying == UNION {Elements(outbox[p]) \cup Elements(wire[p]) \cup Elements(inbox[p]) : p \in Peer}
Phase(p) ==
  CASE main[p] \in {"prompt", "targeted", "answering"} -> "none"
    [] main[p] = "fatal" -> "failed"
    [] main[p] = "waiting" /\ signaling[p] # "have-local-offer" -> "established"
    [] \E q \in Peer : reader[q] = "answering" /\ remote[q] = p -> "accepted"
    [] main[p] = "offering" \/ \E m \in Flying : m.type = "offer" /\ m.from = p -> "ringing"
    [] \E m \in Flying : m.type = "answer" /\ m.to = p -> "answered"
    [] OTHER -> "refused"
C == INSTANCE Calls WITH call <- [p \in Peer |-> Phase(p)], session <- remote
ImplementsCalls == C!Spec

\* A call that no other call crosses ends with a session: both peers have the
\* other's description and every candidate the other gathered.
Established(p, q) == /\ signaling[p] = "stable" /\ remote[p] = q
                     /\ Len(added[p]) = gathered[q]
Crossed(p) == \E r \in Offerer \ {p} :
                /\ main[r] # "prompt"
                /\ {r, Target[r]} \cap {p, Target[p]} # {}
SessionEstablishes ==
  \A p \in Offerer :
    main[p] = "targeted"
      ~> (Established(p, Target[p]) /\ Established(Target[p], p)) \/ Crossed(p)
=============================================================================
