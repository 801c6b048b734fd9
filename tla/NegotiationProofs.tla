-------------------------- MODULE NegotiationProofs --------------------------
(***************************************************************************)
(* Theorems about Negotiation, for any peers, whoever calls whom, and any  *)
(* number of candidates.                                                   *)
(***************************************************************************)
EXTENDS Negotiation, SequenceTheorems, TLAPS

-----------------------------------------------------------------------------
(***************************************************************************)
(* What the frames of a peer can be, and where they go.                    *)
(***************************************************************************)
\* The frames p writes: every one is addressed, its offer to its target, an
\* answer to a peer that calls p.
Sent(p) == {m \in Message :
              /\ m.from = p /\ m.to \in Peer
              /\ m.type = "candidate" => m.n > 0
              /\ m.type = "offer" => p \in Offerer /\ m.to = Target[p]
              /\ m.type = "answer" => m.to \in Offerer /\ Target[m.to] = p}
Delivered(p) == {m \in Message : m.to = p /\ m \in Sent(m.from)}

Description(p) == {m \in Sent(p) : m.type # "candidate"}

Frames == /\ outbox \in [Peer -> Seq(Message)] /\ wire \in [Peer -> Seq(Message)]
          /\ inbox \in [Peer -> Seq(Message)]
          /\ \A p \in Peer : /\ outbox[p] \in Seq(Description(p))
                             /\ wire[p] \in Seq(Sent(p))
                             /\ inbox[p] \in Seq(Delivered(p))

\* Whoever starts the gathering has set the target, and main of an offering peer
\* does so before it offers.
Targets ==
  \A p \in Peer :
    /\ main[p] \in {"prompt", "targeted", "offering"} => p \in Offerer
    /\ main[p] \in {"targeted", "offering"} \/ gathering[p] # "new" => targetID[p] \in Peer
    /\ reader[p] = "answering" =>
         /\ targetID[p] \in Peer /\ signaling[p] = "have-remote-offer"
         /\ remote[p] \in Offerer /\ Target[remote[p]] = p

States ==
  /\ signaling \in [Peer -> {"stable", "have-local-offer", "have-remote-offer"}]
  /\ remote \in [Peer -> Peer \cup {NoPeer}] /\ targetID \in [Peer -> Peer \cup {NoPeer}]
  /\ gathering \in [Peer -> {"new", "running", "complete"}]
  /\ gathered \in [Peer -> Nat]
  /\ main \in [Peer -> {"prompt", "targeted", "offering", "waiting", "fatal", "answering"}]
  /\ reader \in [Peer -> {"idle", "answering"}]

Queues == /\ queued \in [Peer -> Seq(Candidate)] /\ added \in [Peer -> Seq(Candidate)]
          /\ QueueOnlyBeforeRemote

BaseInv == States /\ Queues /\ Frames /\ Targets

LEMMA BaseInit == Init => BaseInv
<1> SUFFICES ASSUME Init PROVE BaseInv
  OBVIOUS
<1> USE DEF Init
<1>1. States
  BY DEF States
<1>2. Queues
  BY DEF Queues, QueueOnlyBeforeRemote
<1>3. Frames
  BY DEF Frames
<1>4. Targets
  BY DEF Targets
<1> QED BY <1>1, <1>2, <1>3, <1>4 DEF BaseInv

\* What can be in a queue stays what can be in it.
LEMMA QueueTypes ==
  ASSUME NEW S, NEW s \in Seq(S)
  PROVE  /\ s # <<>> => Head(s) \in S /\ Tail(s) \in Seq(S)
         /\ \A d \in S : Append(s, d) \in Seq(S)
<1> QED OBVIOUS

\* The first frame of an inbox, and what is left of it.
LEMMA FirstFrame ==
  ASSUME Frames, NEW p \in Peer, inbox[p] # <<>>
  PROVE  Head(inbox[p]) \in Delivered(p) /\ Head(inbox[p]) \in Message
<1>1. Head(inbox[p]) \in Delivered(p)
  BY QueueTypes DEF Frames
<1> QED BY <1>1 DEF Delivered

LEMMA ConsumesFrames ==
  ASSUME Frames, NEW p \in Peer, inbox[p] # <<>>, Consumes(p), UNCHANGED <<outbox, wire>>
  PROVE  Frames'
<1>1. /\ inbox' = [inbox EXCEPT ![p] = Tail(inbox[p])]
      /\ Tail(inbox[p]) \in Seq(Message) /\ Tail(inbox[p]) \in Seq(Delivered(p))
  BY QueueTypes DEF Frames, Consumes
<1> QED BY <1>1 DEF Frames

\* A session description goes into the channel.
LEMMA OutboxFrames ==
  ASSUME Frames, NEW p \in Peer, NEW m \in Sent(p), m.type # "candidate",
         outbox' = [outbox EXCEPT ![p] = Append(outbox[p], m)], UNCHANGED <<inbox, wire>>
  PROVE  Frames'
<1>1. /\ Append(outbox[p], m) \in Seq(Message)
      /\ Append(outbox[p], m) \in Seq(Description(p))
  <2>1. m \in Message /\ m \in Description(p)
    BY DEF Sent, Description
  <2> QED BY <2>1, QueueTypes DEF Frames
<1> QED BY <1>1 DEF Frames

\* A frame goes onto the wire.
LEMMA WireFrames ==
  ASSUME Frames, NEW p \in Peer, NEW m \in Sent(p),
         wire' = [wire EXCEPT ![p] = Append(wire[p], m)], UNCHANGED inbox,
         \/ UNCHANGED outbox
         \/ outbox[p] # <<>> /\ outbox' = [outbox EXCEPT ![p] = Tail(outbox[p])]
  PROVE  Frames'
<1>1. Append(wire[p], m) \in Seq(Message) /\ Append(wire[p], m) \in Seq(Sent(p))
  <2>1. m \in Message
    BY DEF Sent
  <2> QED BY <2>1, QueueTypes DEF Frames
<1>2. outbox[p] # <<>> => /\ Tail(outbox[p]) \in Seq(Message)
                          /\ Tail(outbox[p]) \in Seq(Description(p))
  BY QueueTypes DEF Frames
<1> QED BY <1>1, <1>2 DEF Frames

\* A frame goes from the wire of p into the inbox of r.
LEMMA ForwardFrames ==
  ASSUME Frames, NEW p \in Peer, NEW r \in Peer, wire[p] # <<>>, NEW m \in Delivered(r),
         inbox' = [inbox EXCEPT ![r] = Append(inbox[r], m)],
         wire' = [wire EXCEPT ![p] = Tail(wire[p])], UNCHANGED outbox
  PROVE  Frames'
<1>1. Tail(wire[p]) \in Seq(Sent(p)) /\ Tail(wire[p]) \in Seq(Message)
  BY QueueTypes DEF Frames
<1>2. Append(inbox[r], m) \in Seq(Message) /\ Append(inbox[r], m) \in Seq(Delivered(r))
  <2>1. m \in Message
    BY DEF Delivered
  <2> QED BY <2>1, QueueTypes DEF Frames
<1> QED BY <1>1, <1>2 DEF Frames

LEMMA BaseMain ==
  ASSUME BaseInv, NEW p \in Peer, SetTargetID(p) \/ Offers(p)
  PROVE  BaseInv'
<1> USE DEF BaseInv
<1>1. CASE SetTargetID(p)
  <2> USE <1>1, NegotiationAssumption DEF SetTargetID
  <2>1. States'
    BY DEF States, Targets
  <2>2. Queues'
    BY DEF Queues, QueueOnlyBeforeRemote
  <2>3. Frames'
    BY DEF Frames
  <2>4. Targets'
    BY DEF Targets, States
  <2> QED BY <2>1, <2>2, <2>3, <2>4
<1>2. CASE CreateOffer(p)
  <2> USE <1>2 DEF CreateOffer, StartsGathering
  <2>1. States'
    BY DEF States
  <2>2. Queues'
    BY DEF Queues, QueueOnlyBeforeRemote
  <2>3. Frames'
    BY DEF Frames
  <2>4. Targets'
    BY DEF Targets, States
  <2> QED BY <2>1, <2>2, <2>3, <2>4
<1>3. CASE SendOffer(p)
  <2> USE <1>3 DEF SendOffer, pcVars
  <2>1. States'
    BY DEF States
  <2>2. Queues'
    BY DEF Queues, QueueOnlyBeforeRemote
  <2>3. Frames'
    <3>1. Sdp("offer", p, Target[p]) \in Sent(p)
      BY NegotiationAssumption DEF Targets, Sdp, Sent, Message
    <3> QED BY <3>1, OutboxFrames DEF Sdp
  <2>4. Targets'
    BY DEF Targets, States
  <2> QED BY <2>1, <2>2, <2>3, <2>4
<1> QED BY <1>1, <1>2, <1>3 DEF Offers

LEMMA BaseNetwork ==
  ASSUME BaseInv, NEW p \in Peer,
         OnICECandidate(p) \/ GatheringComplete(p) \/ WriteSdp(p) \/ Forward(p)
  PROVE  BaseInv'
<1> USE DEF BaseInv
<1>1. CASE OnICECandidate(p)
  <2> USE <1>1 DEF OnICECandidate
  <2>1. States'
    BY DEF States
  <2>2. Queues'
    BY DEF Queues, QueueOnlyBeforeRemote
  <2>3. Frames'
    <3> DEFINE m == [type |-> "candidate", from |-> p, to |-> targetID[p], n |-> gathered'[p]]
    <3>1. gathered'[p] = gathered[p] + 1 /\ gathered[p] \in Nat /\ targetID[p] \in Peer
      BY DEF States, Targets
    <3>2. m \in Sent(p)
      BY <3>1 DEF Sent, Message
    <3> QED BY <3>2, WireFrames
  <2>4. Targets'
    BY DEF Targets, States
  <2> QED BY <2>1, <2>2, <2>3, <2>4
<1>2. CASE GatheringComplete(p)
  <2> USE <1>2 DEF GatheringComplete
  <2>1. States'
    BY DEF States
  <2>2. Queues'
    BY DEF Queues, QueueOnlyBeforeRemote
  <2>3. Frames'
    BY DEF Frames
  <2>4. Targets'
    BY DEF Targets, States
  <2> QED BY <2>1, <2>2, <2>3, <2>4
<1>3. CASE WriteSdp(p)
  <2> USE <1>3 DEF WriteSdp, pcVars
  <2>1. States'
    BY DEF States
  <2>2. Queues'
    BY DEF Queues, QueueOnlyBeforeRemote
  <2>3. Frames'
    <3>1. Head(outbox[p]) \in Sent(p)
      BY QueueTypes DEF Frames, Description
    <3> QED BY <3>1, WireFrames
  <2>4. Targets'
    BY DEF Targets, States
  <2> QED BY <2>1, <2>2, <2>3, <2>4
<1>4. CASE Forward(p)
  <2> USE <1>4 DEF Forward, pcVars
  <2>1. States'
    BY DEF States
  <2>2. Queues'
    BY DEF Queues, QueueOnlyBeforeRemote
  <2>3. Frames'
    <3> DEFINE m == Head(wire[p])
    <3>1. m \in Sent(p) /\ m \in Message /\ m.to \in Peer /\ m \in Delivered(m.to)
      <4>1. m \in Sent(p)
        BY QueueTypes DEF Frames
      <4>2. m \in Message /\ m.from = p /\ m.to \in Peer
        BY <4>1 DEF Sent
      <4> QED BY <4>1, <4>2 DEF Delivered
    <3>2. inbox' = [inbox EXCEPT ![m.to] = Append(inbox[m.to], m)]
      BY <3>1
    <3> QED BY <3>1, <3>2, ForwardFrames
  <2>4. Targets'
    BY DEF Targets, States
  <2> QED BY <2>1, <2>2, <2>3, <2>4
<1> QED BY <1>1, <1>2, <1>3, <1>4

LEMMA BaseReads ==
  ASSUME BaseInv, NEW p \in Peer, Reads(p)
  PROVE  BaseInv'
<1> USE DEF BaseInv
<1>1. CASE SetRemoteDescription(p)
  <2> DEFINE m == Head(inbox[p])
  <2>1. inbox[p] # <<>> /\ m.type \in {"offer", "answer"} /\ Acceptable(p, m)
    BY <1>1 DEF SetRemoteDescription, Receives
  <2>2. m \in Delivered(p) /\ m \in Message
    BY <2>1, FirstFrame
  <2>3. m.from \in Peer /\ (m.type = "offer" => m.from \in Offerer /\ Target[m.from] = p)
    BY <2>2 DEF Delivered, Sent, Message
  <2>4. /\ signaling' = [signaling EXCEPT ![p] =
                           IF m.type = "offer" THEN "have-remote-offer" ELSE "stable"]
        /\ reader' = [reader EXCEPT ![p] = IF m.type = "offer" THEN "answering" ELSE "idle"]
        /\ remote' = [remote EXCEPT ![p] = m.from]
        /\ targetID' = [targetID EXCEPT ![p] = m.from]
        /\ UNCHANGED <<gathering, gathered, main, outbox, wire>>
        /\ Flush(p) /\ Consumes(p)
    BY <1>1 DEF SetRemoteDescription
  <2> HIDE DEF m
  <2>5. States'
    BY <2>3, <2>4 DEF States
  <2>6. Queues'
    <3>1. added[p] \o queued[p] \in Seq(Candidate)
      BY DEF Queues
    <3> QED BY <3>1, <2>3, <2>4, NegotiationAssumption
            DEF Queues, QueueOnlyBeforeRemote, Flush, States
  <2>7. Frames'
    BY <2>1, <2>4, ConsumesFrames
  <2>8. Targets'
    BY <2>3, <2>4 DEF Targets, States
  <2> QED BY <2>5, <2>6, <2>7, <2>8
<1>2. CASE SetRemoteDescriptionFails(p)
  <2> USE <1>2 DEF SetRemoteDescriptionFails, pcVars
  <2>1. States'
    BY DEF States
  <2>2. Queues'
    BY DEF Queues, QueueOnlyBeforeRemote
  <2>3. Frames'
    BY ConsumesFrames DEF Receives
  <2>4. Targets'
    BY DEF Targets, States
  <2> QED BY <2>1, <2>2, <2>3, <2>4
<1>3. CASE CreateAnswer(p)
  <2> USE <1>3 DEF CreateAnswer, StartsGathering
  <2>1. States'
    BY DEF States
  <2>2. Queues'
    BY DEF Queues, QueueOnlyBeforeRemote
  <2>3. Frames'
    <3>1. Sdp("answer", p, remote[p]) \in Sent(p)
      BY NegotiationAssumption DEF Targets, Sdp, Sent, Message
    <3> QED BY <3>1, OutboxFrames DEF Sdp
  <2>4. Targets'
    BY DEF Targets, States
  <2> QED BY <2>1, <2>2, <2>3, <2>4
<1>4. CASE AddICECandidate(p)
  <2> DEFINE c == [from |-> Head(inbox[p]).from, n |-> Head(inbox[p]).n]
  <2>1. /\ inbox[p] # <<>> /\ Head(inbox[p]).type = "candidate" /\ Consumes(p)
        /\ IF remote[p] = NoPeer
           THEN queued' = [queued EXCEPT ![p] = Append(queued[p], c)] /\ UNCHANGED added
           ELSE added' = [added EXCEPT ![p] = Append(added[p], c)] /\ UNCHANGED queued
        /\ UNCHANGED <<signaling, remote, targetID, gathering, gathered, main, reader,
                       outbox, wire>>
    BY <1>4 DEF AddICECandidate, Receives
  <2>2. c \in Candidate
    BY <2>1, FirstFrame DEF Delivered, Sent, Message, Candidate
  <2> HIDE DEF c
  <2>3. States'
    BY <2>1 DEF States
  <2>4. Queues'
    <3>1. Append(queued[p], c) \in Seq(Candidate) /\ Append(added[p], c) \in Seq(Candidate)
      BY <2>2 DEF Queues
    <3>2. CASE remote[p] = NoPeer
      BY <2>1, <3>1, <3>2 DEF Queues, QueueOnlyBeforeRemote
    <3>3. CASE remote[p] # NoPeer
      BY <2>1, <3>1, <3>3 DEF Queues, QueueOnlyBeforeRemote
    <3> QED BY <3>2, <3>3
  <2>5. Frames'
    BY <2>1, ConsumesFrames
  <2>6. Targets'
    BY <2>1 DEF Targets, States
  <2> QED BY <2>3, <2>4, <2>5, <2>6
<1> QED BY <1>1, <1>2, <1>3, <1>4 DEF Reads

LEMMA BaseStep ==
  ASSUME BaseInv, [Next]_vars
  PROVE  BaseInv'
<1>1. CASE Next
  BY <1>1, BaseMain, BaseNetwork, BaseReads DEF Next
<1>2. CASE UNCHANGED vars
  <2> USE <1>2 DEF vars, pcVars, BaseInv
  <2>1. States' /\ Queues'
    BY DEF States, Queues, QueueOnlyBeforeRemote
  <2>2. Frames' /\ Targets'
    BY DEF Frames, Targets
  <2> QED BY <2>1, <2>2
<1> QED BY <1>1, <1>2

LEMMA BaseInvariance == Spec => []BaseInv
<1> QED BY BaseInit, BaseStep, PTL DEF Spec

\* Every variable of a peer keeps its type.
THEOREM NegotiationTypeCorrect == Spec => []TypeOK
<1>1. BaseInv => TypeOK
  BY DEF BaseInv, States, Queues, Frames, TypeOK
<1> QED BY <1>1, BaseInvariance, PTL

\* No candidate is stranded in the queue, and pion gets none too early.
THEOREM NoneStranded == Spec => []QueueOnlyBeforeRemote
<1>1. BaseInv => QueueOnlyBeforeRemote
  BY DEF BaseInv, Queues
<1> QED BY <1>1, BaseInvariance, PTL

\* Every frame that is written has a receiver, candidates included.
THEOREM FramesAreAddressed == Spec => []CandidatesAddressed
<1>1. BaseInv => CandidatesAddressed
  <2> SUFFICES ASSUME BaseInv, NEW p \in Peer, NEW i \in DOMAIN wire[p]
               PROVE  wire[p][i].to # NoPeer
    BY DEF CandidatesAddressed
  <2>1. wire[p] \in Seq(Sent(p))
    BY DEF BaseInv, Frames
  <2>2. wire[p][i] \in Sent(p)
    BY <2>1
  <2> QED BY <2>2, NegotiationAssumption DEF Sent
<1> QED BY <1>1, BaseInvariance, PTL

-----------------------------------------------------------------------------
(***************************************************************************)
(* The order of the candidates.                                            *)
(***************************************************************************)
Coming(s) == {m \in Elements(s) : m.type = "candidate"}

Before(A, B) == \A x \in A, y \in B : x.from = y.from => x.n < y.n
Ascending(s) == \A i, j \in 1..Len(s) : i < j => Before({s[i]}, {s[j]})
AscendingFrames(s) ==
  \A i, j \in 1..Len(s) :
    i < j /\ s[i].type = "candidate" /\ s[j].type = "candidate" => Before({s[i]}, {s[j]})

\* The candidates p has, and those that came as far as its websocket.
Got(p) == Elements(Held(p))
Arrived(p) == Got(p) \cup Coming(inbox[p])

\* What was gathered is on the wire of its author or has arrived, at one peer only.
Complete == \A p \in Peer : \A n \in 1..gathered[p] :
              \/ \E x \in Coming(wire[p]) : x.n = n
              \/ \E q \in Peer : \E x \in Arrived(q) : x.from = p /\ x.n = n
Apart == \A p, q \in Peer : \A x \in Arrived(p), y \in Arrived(q) :
           x.from = y.from /\ x.n = y.n => p = q

\* What p has was gathered before what waits in its inbox, and that before what is
\* on the way from its author; nothing is ahead of the author's count.
OrderInv ==
  /\ \A p \in Peer :
       /\ Ascending(Held(p)) /\ AscendingFrames(inbox[p]) /\ AscendingFrames(wire[p])
       /\ Before(Got(p), Coming(inbox[p]))
       /\ \A x \in Coming(wire[p]) : x.n <= gathered[p]
       /\ \A x \in Arrived(p) : x.n <= gathered[x.from]
  /\ \A p, q \in Peer : Before(Arrived(p), Coming(wire[q]))
  /\ Complete /\ Apart

\* What the candidates under way and those that arrived look like.
LEMMA Stamps ==
  ASSUME BaseInv
  PROVE  \A p \in Peer : /\ \A x \in Coming(wire[p]) : x.n \in Nat /\ x.from = p
                         /\ \A x \in Arrived(p) : x.n \in Nat /\ x.from \in Peer
<1> SUFFICES ASSUME NEW p \in Peer
             PROVE  /\ \A x \in Coming(wire[p]) : x.n \in Nat /\ x.from = p
                    /\ \A x \in Arrived(p) : x.n \in Nat /\ x.from \in Peer
  OBVIOUS
<1>1. /\ Held(p) \in Seq(Candidate) /\ inbox[p] \in Seq(Message)
      /\ wire[p] \in Seq(Sent(p))
  BY DEF BaseInv, Queues, Frames, Held
<1>2. \A x \in Coming(wire[p]) : x \in Message /\ x.from = p
  BY <1>1 DEF Coming, Elements, Sent
<1>3. \A x \in Arrived(p) : x \in Candidate \cup Message
  BY <1>1 DEF Arrived, Got, Coming, Elements
<1> QED BY <1>2, <1>3 DEF Candidate, Message

LEMMA ElementsAppend ==
  ASSUME NEW S, NEW s \in Seq(S), NEW d \in S
  PROVE  /\ Elements(Append(s, d)) = Elements(s) \cup {d}
         /\ Ascending(s) /\ Before(Elements(s), {d}) => Ascending(Append(s, d))
<1>1. /\ Len(Append(s, d)) = Len(s) + 1 /\ Len(s) \in Nat
      /\ \A i \in 1..Len(s) : Append(s, d)[i] = s[i]
      /\ Append(s, d)[Len(s) + 1] = d
  OBVIOUS
<1>2. Elements(Append(s, d)) = Elements(s) \cup {d}
  BY <1>1 DEF Elements
<1>3. ASSUME Ascending(s), Before(Elements(s), {d}) PROVE Ascending(Append(s, d))
  BY <1>1, <1>3 DEF Ascending, Before, Elements
<1> QED BY <1>2, <1>3

LEMMA FramesAppend ==
  ASSUME NEW S, NEW s \in Seq(S), NEW m \in S
  PROVE  /\ m.type = "candidate" => Coming(Append(s, m)) = Coming(s) \cup {m}
         /\ m.type # "candidate" => Coming(Append(s, m)) = Coming(s)
         /\ AscendingFrames(s) /\ (m.type = "candidate" => Before(Coming(s), {m}))
              => AscendingFrames(Append(s, m))
<1>1. /\ Len(Append(s, m)) = Len(s) + 1 /\ Len(s) \in Nat
      /\ \A i \in 1..Len(s) : Append(s, m)[i] = s[i]
      /\ Append(s, m)[Len(s) + 1] = m
  OBVIOUS
<1>2. Elements(Append(s, m)) = Elements(s) \cup {m}
  BY <1>1 DEF Elements
<1>3. ASSUME AscendingFrames(s), m.type = "candidate" => Before(Coming(s), {m})
      PROVE  AscendingFrames(Append(s, m))
  BY <1>1, <1>3 DEF AscendingFrames, Before, Coming, Elements
<1> QED BY <1>2, <1>3 DEF Coming

LEMMA Appended ==
  ASSUME NEW s \in Seq(Message), NEW m \in Message
  PROVE  Elements(Append(s, m)) = Elements(s) \cup {m}
<1>1. /\ Len(Append(s, m)) = Len(s) + 1 /\ Len(s) \in Nat
      /\ \A i \in 1..Len(s) : Append(s, m)[i] = s[i]
      /\ Append(s, m)[Len(s) + 1] = m
  OBVIOUS
<1> QED BY <1>1 DEF Elements

LEMMA ElementsTail ==
  ASSUME NEW S, NEW s \in Seq(S), s # <<>>
  PROVE  Elements(s) = Elements(Tail(s)) \cup {Head(s)}
<1>1. /\ Len(s) \in Nat \ {0} /\ Len(Tail(s)) = Len(s) - 1 /\ Head(s) = s[1]
      /\ \A i \in 1..Len(Tail(s)) : Tail(s)[i] = s[i + 1]
  OBVIOUS
<1>2. ASSUME NEW x \in Elements(s) PROVE x \in Elements(Tail(s)) \cup {Head(s)}
  <2>1. PICK i \in 1..Len(s) : x = s[i]
    BY DEF Elements
  <2>2. CASE i = 1
    BY <1>1, <2>1, <2>2
  <2>3. CASE i # 1
    <3>1. i - 1 \in 1..Len(Tail(s)) /\ Tail(s)[i - 1] = x
      BY <1>1, <2>1, <2>3
    <3> QED BY <3>1 DEF Elements
  <2> QED BY <2>2, <2>3
<1>3. ASSUME NEW x \in Elements(Tail(s)) \cup {Head(s)} PROVE x \in Elements(s)
  BY <1>1 DEF Elements
<1> QED BY <1>2, <1>3

LEMMA FramesTail ==
  ASSUME NEW S, NEW s \in Seq(S), s # <<>>
  PROVE  /\ Head(s).type = "candidate" => Coming(s) = Coming(Tail(s)) \cup {Head(s)}
         /\ Head(s).type # "candidate" => Coming(s) = Coming(Tail(s))
         /\ AscendingFrames(s)
              => /\ AscendingFrames(Tail(s))
                 /\ Head(s).type = "candidate" => Before({Head(s)}, Coming(Tail(s)))
<1>1. /\ Len(s) \in Nat \ {0} /\ Len(Tail(s)) = Len(s) - 1 /\ Head(s) = s[1]
      /\ \A i \in 1..Len(Tail(s)) : Tail(s)[i] = s[i + 1]
  OBVIOUS
<1>2. Elements(s) = Elements(Tail(s)) \cup {Head(s)}
  BY ElementsTail
<1>3. ASSUME AscendingFrames(s)
      PROVE  /\ AscendingFrames(Tail(s))
             /\ Head(s).type = "candidate" => Before({Head(s)}, Coming(Tail(s)))
  BY <1>1, <1>3 DEF AscendingFrames, Before, Coming, Elements
<1> QED BY <1>2, <1>3 DEF Coming

LEMMA ConcatAppend ==
  ASSUME NEW S, NEW s \in Seq(S), NEW t \in Seq(S), NEW d \in S
  PROVE  s \o Append(t, d) = Append(s \o t, d)
<1>1. Append(t, d) = t \o <<d>> /\ <<d>> \in Seq(S) /\ s \o t \in Seq(S)
  BY AppendIsConcat
<1>2. Append(s \o t, d) = (s \o t) \o <<d>>
  BY <1>1, AppendIsConcat
<1> QED BY <1>1, <1>2, ConcatAssociative

\* What p holds after a flush, and after one more candidate.
LEMMA Flushed ==
  ASSUME Queues, NEW p \in Peer, Flush(p)
  PROVE  \A q \in Peer : Held(q)' = Held(q)
<1>1. /\ added' = [added EXCEPT ![p] = added[p] \o queued[p]]
      /\ queued' = [queued EXCEPT ![p] = <<>>]
  BY DEF Flush
<1>2. added[p] \o queued[p] \in Seq(Candidate)
  BY DEF Queues
<1>3. (added[p] \o queued[p]) \o <<>> = added[p] \o queued[p]
  BY <1>2
<1> QED BY <1>1, <1>3 DEF Queues, Held

LEMMA Adds ==
  ASSUME Queues, NEW p \in Peer, NEW c \in Candidate,
         IF remote[p] = NoPeer
         THEN queued' = [queued EXCEPT ![p] = Append(queued[p], c)] /\ UNCHANGED added
         ELSE added' = [added EXCEPT ![p] = Append(added[p], c)] /\ UNCHANGED queued
  PROVE  /\ Held(p)' = Append(Held(p), c) /\ Held(p) \in Seq(Candidate)
         /\ \A q \in Peer \ {p} : Held(q)' = Held(q)
<1>1. added[p] \in Seq(Candidate) /\ queued[p] \in Seq(Candidate)
  BY DEF Queues
<1>2. CASE remote[p] = NoPeer
  <2>1. added[p] \o Append(queued[p], c) = Append(added[p] \o queued[p], c)
    <3> DEFINE a == added[p]
               b == queued[p]
    <3>1. a \in Seq(Candidate) /\ b \in Seq(Candidate)
      BY <1>1
    <3> HIDE DEF a, b
    <3>2. a \o Append(b, c) = Append(a \o b, c)
      BY <3>1, ConcatAppend
    <3> QED BY <3>2 DEF a, b
  <2>2. queued'[p] = Append(queued[p], c) /\ UNCHANGED added
        /\ \A q \in Peer \ {p} : queued'[q] = queued[q]
    BY <1>2 DEF Queues
  <2>3. added[p] \o queued[p] \in Seq(Candidate)
    BY <1>1
  <2> QED BY <2>1, <2>2, <2>3 DEF Held
<1>3. CASE remote[p] # NoPeer
  <2>1. queued[p] = <<>>
    BY <1>3 DEF Queues, QueueOnlyBeforeRemote
  <2>2. added[p] \o <<>> = added[p] /\ Append(added[p], c) \o <<>> = Append(added[p], c)
    <3>1. Append(added[p], c) \in Seq(Candidate)
      BY <1>1
    <3> QED BY <1>1, <3>1, ConcatEmptySeq
  <2>3. added'[p] = Append(added[p], c) /\ UNCHANGED queued
        /\ \A q \in Peer \ {p} : added'[q] = added[q]
    BY <1>3 DEF Queues
  <2> QED BY <1>1, <2>1, <2>2, <2>3 DEF Held
<1> QED BY <1>2, <1>3

LEMMA OrderInit == Init => OrderInv
<1> SUFFICES ASSUME Init PROVE OrderInv
  OBVIOUS
<1>1. \A p \in Peer : Held(p) = <<>> /\ inbox[p] = <<>> /\ wire[p] = <<>>
  BY DEF Init, Held
<1>2. Elements(<<>>) = {} /\ Coming(<<>>) = {} /\ Ascending(<<>>) /\ AscendingFrames(<<>>)
  BY DEF Elements, Coming, Ascending, AscendingFrames
<1>3. \A p \in Peer : Arrived(p) = {} /\ 1..gathered[p] = {}
  BY <1>1, <1>2 DEF Init, Got, Arrived
<1>4. Complete /\ Apart
  BY <1>3 DEF Complete, Apart
<1> QED BY <1>1, <1>2, <1>3, <1>4 DEF OrderInv, Got, Before

\* No candidate moves.
LEMMA OrderKept ==
  ASSUME OrderInv, UNCHANGED gathered,
         \A q \in Peer : /\ Held(q)' = Held(q)
                         /\ Coming(inbox[q])' = Coming(inbox[q]) /\ AscendingFrames(inbox[q])'
                         /\ Coming(wire[q])' = Coming(wire[q]) /\ AscendingFrames(wire[q])'
  PROVE  OrderInv'
<1>1. \A q \in Peer : Got(q)' = Got(q) /\ Arrived(q)' = Arrived(q)
  BY DEF Got, Arrived
<1>2. \A q \in Peer : (Ascending(Held(q)))' <=> Ascending(Held(q))
  BY DEF Ascending
<1>3. \A q \in Peer : /\ (Before(Got(q), Coming(inbox[q])))' <=> Before(Got(q), Coming(inbox[q]))
                      /\ \A r \in Peer : (Before(Arrived(q), Coming(wire[r])))'
                                           <=> Before(Arrived(q), Coming(wire[r]))
  BY <1>1 DEF Before
<1>4. Complete' /\ Apart'
  BY <1>1 DEF OrderInv, Complete, Apart
<1> QED BY <1>1, <1>2, <1>3, <1>4 DEF OrderInv

LEMMA OrderUnmoved ==
  ASSUME OrderInv, UNCHANGED <<queued, added, gathered, inbox, wire>>
  PROVE  OrderInv'
<1>1. \A q \in Peer : /\ Held(q)' = Held(q)
                      /\ Coming(inbox[q])' = Coming(inbox[q]) /\ Coming(wire[q])' = Coming(wire[q])
                      /\ AscendingFrames(inbox[q])' /\ AscendingFrames(wire[q])'
  BY DEF OrderInv, Held, Coming, Elements, AscendingFrames
<1> QED BY <1>1, OrderKept

\* One more candidate is gathered, and the last of them.
LEMMA OrderGathers ==
  ASSUME BaseInv, OrderInv, NEW p \in Peer, OnICECandidate(p)
  PROVE  OrderInv'
<1> DEFINE m == [type |-> "candidate", from |-> p, to |-> targetID[p], n |-> gathered'[p]]
<1>1. /\ gathered[p] \in Nat /\ gathered' = [gathered EXCEPT ![p] = gathered[p] + 1]
      /\ wire' = [wire EXCEPT ![p] = Append(wire[p], m)] /\ UNCHANGED <<queued, added, inbox>>
      /\ targetID[p] \in Peer
  BY DEF BaseInv, States, Targets, OnICECandidate
<1>2. /\ gathered'[p] = gathered[p] + 1 /\ \A q \in Peer \ {p} : gathered'[q] = gathered[q]
      /\ wire'[p] = Append(wire[p], m) /\ \A q \in Peer \ {p} : wire'[q] = wire[q]
      /\ \A q \in Peer : gathered[q] \in Nat
  BY <1>1 DEF BaseInv, States, Frames
<1>3. m \in Message /\ m.type = "candidate" /\ m.from = p /\ m.n = gathered[p] + 1
  BY <1>1, <1>2 DEF Message
<1>4. wire[p] \in Seq(Message)
  BY DEF BaseInv, Frames
<1> HIDE DEF m
<1>5. /\ \A x \in Coming(wire[p]) : x.n \in Nat /\ x.n <= gathered[p]
      /\ \A q \in Peer : \A x \in Arrived(q) :
           x.n \in Nat /\ x.from \in Peer /\ x.n <= gathered[x.from]
  BY Stamps DEF OrderInv
<1>6. Before(Coming(wire[p]), {m}) /\ \A q \in Peer : Before(Arrived(q), {m})
  BY <1>2, <1>3, <1>5 DEF Before
<1>7. Coming(wire[p])' = Coming(wire[p]) \cup {m} /\ AscendingFrames(wire[p])'
  <2>1. /\ Coming(Append(wire[p], m)) = Coming(wire[p]) \cup {m}
        /\ AscendingFrames(Append(wire[p], m))
    BY <1>3, <1>4, <1>6, FramesAppend DEF OrderInv
  <2> QED BY <1>2, <2>1
<1>8. \A q \in Peer : /\ Held(q)' = Held(q) /\ Got(q)' = Got(q) /\ Arrived(q)' = Arrived(q)
                      /\ Coming(inbox[q])' = Coming(inbox[q])
  BY <1>1 DEF Held, Got, Arrived, Coming, Elements
<1>9. \A q \in Peer \ {p} : /\ Coming(wire[q])' = Coming(wire[q])
                            /\ (AscendingFrames(wire[q]))' <=> AscendingFrames(wire[q])
  BY <1>2
<1>10. \A q \in Peer : /\ (Ascending(Held(q)))' /\ (AscendingFrames(inbox[q]))'
                       /\ (AscendingFrames(wire[q]))' /\ (Before(Got(q), Coming(inbox[q])))'
  BY <1>1, <1>7, <1>8, <1>9 DEF OrderInv
<1>11. \A q \in Peer : /\ \A x \in (Coming(wire[q]))' : x.n <= gathered'[q]
                       /\ \A x \in Arrived(q)' : x.n <= gathered'[x.from]
  <2>1. \A q \in Peer : \A x \in Arrived(q)' : x.n <= gathered'[x.from]
    BY <1>2, <1>5, <1>8
  <2>2. \A x \in (Coming(wire[p]))' : x.n <= gathered'[p]
    BY <1>2, <1>3, <1>5, <1>7
  <2>3. \A q \in Peer \ {p} : \A x \in (Coming(wire[q]))' : x.n <= gathered'[q]
    BY <1>2, <1>9 DEF OrderInv
  <2> QED BY <2>1, <2>2, <2>3
<1>12. \A q, r \in Peer : (Before(Arrived(q), Coming(wire[r])))'
  BY <1>6, <1>7, <1>8, <1>9 DEF OrderInv, Before
<1>13. Complete'
  <2> SUFFICES ASSUME NEW q \in Peer, NEW n \in 1..gathered'[q]
               PROVE  \/ \E x \in Coming(wire[q])' : x.n = n
                      \/ \E r \in Peer : \E x \in Arrived(r)' : x.from = q /\ x.n = n
    BY DEF Complete
  <2>1. CASE n \in 1..gathered[q]
    BY <1>7, <1>8, <1>9, <2>1 DEF OrderInv, Complete
  <2>2. CASE n \notin 1..gathered[q]
    <3>1. q = p /\ n = m.n
      BY <1>2, <1>3, <2>2
    <3> QED BY <1>7, <3>1
  <2> QED BY <2>1, <2>2
<1>14. Apart'
  BY <1>8 DEF OrderInv, Apart
<1> QED BY <1>10, <1>11, <1>12, <1>13, <1>14 DEF OrderInv

LEMMA OrderWrites ==
  ASSUME BaseInv, OrderInv, NEW p \in Peer, WriteSdp(p)
  PROVE  OrderInv'
<1> DEFINE m == Head(outbox[p])
<1>1. m \in Description(p)
  BY QueueTypes DEF BaseInv, Frames, WriteSdp
<1>2. m \in Message /\ m.type # "candidate"
  BY <1>1 DEF Description, Sent
<1>3. /\ wire' = [wire EXCEPT ![p] = Append(wire[p], m)]
      /\ UNCHANGED <<queued, added, gathered, inbox>> /\ wire \in [Peer -> Seq(Message)]
  BY DEF WriteSdp, pcVars, BaseInv, Frames
<1> HIDE DEF m
<1>4. /\ Coming(Append(wire[p], m)) = Coming(wire[p])
      /\ AscendingFrames(Append(wire[p], m))
  BY <1>2, <1>3, FramesAppend DEF OrderInv
<1>5. \A q \in Peer : Coming(wire[q])' = Coming(wire[q]) /\ AscendingFrames(wire[q])'
  BY <1>3, <1>4 DEF OrderInv
<1>6. \A q \in Peer : /\ Held(q)' = Held(q) /\ Coming(inbox[q])' = Coming(inbox[q])
                      /\ AscendingFrames(inbox[q])'
  BY <1>3 DEF Held, OrderInv
<1> QED BY <1>3, <1>5, <1>6, OrderKept

\* The server forwards a frame of p to r: a candidate is behind what r has from p,
\* and ahead of what p has written since.
LEMMA OrderDelivers ==
  ASSUME BaseInv, OrderInv, NEW p \in Peer, NEW r \in Peer, NEW m \in Message,
         m.from = p, AscendingFrames(Tail(wire[p])),
         IF m.type = "candidate"
         THEN /\ Coming(wire[p]) = Coming(Tail(wire[p])) \cup {m}
              /\ Before({m}, Coming(Tail(wire[p])))
         ELSE Coming(wire[p]) = Coming(Tail(wire[p])),
         inbox' = [inbox EXCEPT ![r] = Append(inbox[r], m)],
         wire' = [wire EXCEPT ![p] = Tail(wire[p])],
         UNCHANGED <<queued, added, gathered>>
  PROVE  OrderInv'
<1>1. inbox \in [Peer -> Seq(Message)] /\ wire \in [Peer -> Seq(Message)]
  BY DEF BaseInv, Frames
<1>2. /\ inbox'[r] = Append(inbox[r], m) /\ \A q \in Peer \ {r} : inbox'[q] = inbox[q]
      /\ wire'[p] = Tail(wire[p]) /\ \A q \in Peer \ {p} : wire'[q] = wire[q]
  BY <1>1
<1>3. \A q \in Peer : Held(q)' = Held(q) /\ Got(q)' = Got(q)
  BY <1>1 DEF Held, Got, Elements
<1>4. /\ m.type = "candidate" => Coming(wire[p]) = Coming(Tail(wire[p])) \cup {m}
      /\ m.type # "candidate" => Coming(wire[p]) = Coming(Tail(wire[p]))
      /\ AscendingFrames(Tail(wire[p]))
      /\ m.type = "candidate" => Before({m}, Coming(Tail(wire[p])))
  OBVIOUS
<1>5. m.type = "candidate" => Before(Arrived(r), {m}) /\ m.n <= gathered[p]
  BY <1>4 DEF OrderInv, Before
<1>6. /\ m.type = "candidate" => Coming(Append(inbox[r], m)) = Coming(inbox[r]) \cup {m}
      /\ m.type # "candidate" => Coming(Append(inbox[r], m)) = Coming(inbox[r])
      /\ AscendingFrames(Append(inbox[r], m))
  <2> DEFINE s == inbox[r]
  <2>1. s \in Seq(Message) /\ AscendingFrames(s)
    BY <1>1 DEF OrderInv
  <2>2. m.type = "candidate" => Before(Coming(s), {m})
    BY <1>5 DEF Arrived, Before
  <2> HIDE DEF s
  <2>3. /\ m.type = "candidate" => Coming(Append(s, m)) = Coming(s) \cup {m}
        /\ m.type # "candidate" => Coming(Append(s, m)) = Coming(s)
    <3>1. Elements(Append(s, m)) = Elements(s) \cup {m}
      BY <2>1, ElementsAppend
    <3> QED BY <3>1 DEF Coming
  <2>4. AscendingFrames(Append(s, m))
    BY <2>1, <2>2, FramesAppend
  <2> QED BY <2>3, <2>4 DEF s
<1>7. \A q \in Peer : AscendingFrames(inbox[q])' /\ AscendingFrames(wire[q])'
  BY <1>2, <1>4, <1>6 DEF OrderInv
<1>8. CASE m.type # "candidate"
  <2>1. \A q \in Peer : /\ Coming(inbox[q])' = Coming(inbox[q])
                        /\ Coming(wire[q])' = Coming(wire[q])
    BY <1>2, <1>4, <1>6, <1>8
  <2> QED BY <1>1, <1>3, <1>7, <2>1, OrderKept
<1>9. CASE m.type = "candidate"
  <2>1. /\ Coming(inbox[r])' = Coming(inbox[r]) \cup {m}
        /\ \A q \in Peer \ {r} : Coming(inbox[q])' = Coming(inbox[q])
        /\ Coming(wire[p]) = Coming(wire[p])' \cup {m}
        /\ \A q \in Peer \ {p} : Coming(wire[q])' = Coming(wire[q])
    BY <1>2, <1>4, <1>6, <1>9
  <2>2. /\ Arrived(r)' = Arrived(r) \cup {m}
        /\ \A q \in Peer \ {r} : Arrived(q)' = Arrived(q)
    BY <1>3, <2>1 DEF Arrived
  <2>3. \A q \in Peer : Before(Got(q), Coming(inbox[q]))'
    <3>1. Before(Got(r)', Coming(inbox[r])')
      BY <1>3, <1>5, <1>9, <2>1 DEF OrderInv, Before, Arrived
    <3>2. \A q \in Peer \ {r} : Before(Got(q)', Coming(inbox[q])')
      BY <1>3, <2>1 DEF OrderInv
    <3> QED BY <3>1, <3>2 DEF Before
  <2>4. \A q \in Peer : /\ \A x \in Coming(wire[q])' : x.n <= gathered'[q]
                        /\ \A x \in Arrived(q)' : x.n <= gathered'[x.from]
    <3>1. \A q \in Peer : \A x \in Coming(wire[q])' : x.n <= gathered'[q]
      BY <2>1 DEF OrderInv
    <3>2. \A q \in Peer : \A x \in Arrived(q)' : x.n <= gathered'[x.from]
      BY <1>5, <1>9, <2>2 DEF OrderInv
    <3> QED BY <3>1, <3>2
  <2>5. \A q, o \in Peer : Before(Arrived(q), Coming(wire[o]))'
    <3>1. \A o \in Peer : Coming(wire[o])' \subseteq Coming(wire[o])
      BY <2>1
    <3>2. \A o \in Peer : Before({m}, Coming(wire[o])')
      <4>1. Before({m}, Coming(wire[p])')
        BY <1>2, <1>4, <1>9
      <4>2. \A o \in Peer \ {p} : \A x \in Coming(wire[o])' : x.from = o
        BY <2>1, Stamps
      <4> QED BY <4>1, <4>2 DEF Before
    <3>3. \A q, o \in Peer : Before(Arrived(q)', Coming(wire[o])')
      BY <2>2, <3>1, <3>2 DEF OrderInv, Before
    <3> QED BY <3>3 DEF Before
  <2>6. \A q \in Peer : Ascending(Held(q))'
    BY <1>3 DEF OrderInv, Ascending
  <2>7. Complete'
    <3> SUFFICES ASSUME NEW q \in Peer, NEW n \in 1..gathered[q]
                 PROVE  \/ \E x \in Coming(wire[q])' : x.n = n
                        \/ \E o \in Peer : \E x \in Arrived(o)' : x.from = q /\ x.n = n
      BY DEF Complete
    <3>1. CASE \E x \in Coming(wire[q]) : x.n = n
      BY <2>1, <2>2, <3>1
    <3>2. CASE \E o \in Peer : \E x \in Arrived(o) : x.from = q /\ x.n = n
      BY <2>2, <3>2
    <3> QED BY <3>1, <3>2 DEF OrderInv, Complete
  <2>8. Apart'
    <3>1. \A q \in Peer : \A x \in Arrived(q) : x.from # m.from \/ x.n # m.n
      <4>1. \A q \in Peer : \A x \in Arrived(q) : x.from = m.from => x.n < m.n
        BY <2>1 DEF OrderInv, Before
      <4>2. m.n \in Nat /\ \A q \in Peer : \A x \in Arrived(q) : x.n \in Nat
        BY <2>1, Stamps
      <4> QED BY <4>1, <4>2
    <3> QED BY <2>2, <3>1 DEF OrderInv, Apart
  <2> QED BY <1>7, <2>3, <2>4, <2>5, <2>6, <2>7, <2>8 DEF OrderInv
<1> QED BY <1>8, <1>9

LEMMA OrderForwards ==
  ASSUME BaseInv, OrderInv, NEW p \in Peer, Forward(p)
  PROVE  OrderInv'
<1> DEFINE m == Head(wire[p])
<1>1. wire[p] # <<>> /\ m \in Sent(p)
  BY QueueTypes DEF Forward, BaseInv, Frames
<1>2. m \in Message /\ m.from = p /\ m.to \in Peer
  BY <1>1 DEF Sent
<1>3. /\ inbox' = [inbox EXCEPT ![m.to] = Append(inbox[m.to], m)]
      /\ wire' = [wire EXCEPT ![p] = Tail(wire[p])]
      /\ UNCHANGED <<queued, added, gathered>>
  BY <1>2 DEF Forward, pcVars
<1>4. /\ AscendingFrames(Tail(wire[p]))
      /\ IF m.type = "candidate"
         THEN /\ Coming(wire[p]) = Coming(Tail(wire[p])) \cup {m}
              /\ Before({m}, Coming(Tail(wire[p])))
         ELSE Coming(wire[p]) = Coming(Tail(wire[p]))
  <2>1. wire[p] \in Seq(Message) /\ AscendingFrames(wire[p])
    BY DEF BaseInv, Frames, OrderInv
  <2> QED BY <1>1, <2>1, FramesTail
<1> HIDE DEF m
<1> QED BY <1>2, <1>3, <1>4, OrderDelivers

\* A session description is taken from the inbox, with or without a flush.
LEMMA OrderDescribes ==
  ASSUME BaseInv, OrderInv, NEW p \in Peer,
         SetRemoteDescription(p) \/ SetRemoteDescriptionFails(p)
  PROVE  OrderInv'
<1>1. /\ inbox[p] # <<>> /\ Head(inbox[p]).type # "candidate" /\ Consumes(p)
      /\ UNCHANGED <<gathered, wire>>
  BY DEF SetRemoteDescription, SetRemoteDescriptionFails, Receives, pcVars
<1>2. \A q \in Peer : Held(q)' = Held(q)
  BY Flushed DEF BaseInv, SetRemoteDescription, SetRemoteDescriptionFails, pcVars, Held
<1>3. inbox \in [Peer -> Seq(Message)] /\ inbox' = [inbox EXCEPT ![p] = Tail(inbox[p])]
  BY <1>1 DEF BaseInv, Frames, Consumes
<1>4. Coming(inbox[p]) = Coming(Tail(inbox[p])) /\ AscendingFrames(Tail(inbox[p]))
  BY <1>1, <1>3, FramesTail DEF OrderInv
<1>5. \A q \in Peer : /\ Coming(inbox[q])' = Coming(inbox[q]) /\ AscendingFrames(inbox[q])'
                      /\ Coming(wire[q])' = Coming(wire[q]) /\ AscendingFrames(wire[q])'
  BY <1>1, <1>3, <1>4 DEF OrderInv
<1> QED BY <1>1, <1>2, <1>5, OrderKept

\* A candidate is queued or passed to pion.
LEMMA OrderAdds ==
  ASSUME BaseInv, OrderInv, NEW p \in Peer, AddICECandidate(p)
  PROVE  OrderInv'
<1> DEFINE m == Head(inbox[p])
           c == [from |-> m.from, n |-> m.n]
<1>1. /\ inbox[p] # <<>> /\ m.type = "candidate" /\ Consumes(p)
      /\ IF remote[p] = NoPeer
         THEN queued' = [queued EXCEPT ![p] = Append(queued[p], c)] /\ UNCHANGED added
         ELSE added' = [added EXCEPT ![p] = Append(added[p], c)] /\ UNCHANGED queued
      /\ UNCHANGED <<gathered, wire>>
  BY DEF AddICECandidate, Receives
<1>2. c \in Candidate /\ c.from = m.from /\ c.n = m.n
  BY <1>1, FirstFrame DEF BaseInv, Delivered, Sent, Message, Candidate
<1>3. inbox \in [Peer -> Seq(Message)] /\ inbox' = [inbox EXCEPT ![p] = Tail(inbox[p])]
  BY <1>1 DEF BaseInv, Frames, Consumes
<1> HIDE DEF c
<1>4. /\ Held(p)' = Append(Held(p), c) /\ Held(p) \in Seq(Candidate)
      /\ \A q \in Peer \ {p} : Held(q)' = Held(q)
  BY <1>1, <1>2, Adds DEF BaseInv
<1>5. /\ Coming(inbox[p]) = Coming(Tail(inbox[p])) \cup {m} /\ AscendingFrames(Tail(inbox[p]))
      /\ Before({m}, Coming(Tail(inbox[p])))
  BY <1>1, <1>3, FramesTail DEF OrderInv
<1> HIDE DEF m
<1>6. /\ Coming(inbox[p]) = Coming(inbox[p])' \cup {m}
      /\ \A q \in Peer \ {p} : Coming(inbox[q])' = Coming(inbox[q])
      /\ \A q \in Peer : AscendingFrames(inbox[q])' /\ AscendingFrames(wire[q])'
      /\ \A q \in Peer : Coming(wire[q])' = Coming(wire[q])
  BY <1>1, <1>3, <1>5 DEF OrderInv
<1>7. /\ Elements(Append(Held(p), c)) = Got(p) \cup {c}
      /\ Ascending(Append(Held(p), c))
  <2>1. Before(Elements(Held(p)), {c})
    BY <1>2, <1>5 DEF OrderInv, Before, Got
  <2> QED BY <1>2, <1>4, <2>1, ElementsAppend DEF OrderInv, Got
<1>8. /\ Got(p)' = Got(p) \cup {c} /\ \A q \in Peer \ {p} : Got(q)' = Got(q)
      /\ \A q \in Peer : Ascending(Held(q))'
  BY <1>4, <1>7 DEF Got, OrderInv
<1>9. /\ Arrived(p)' \subseteq Arrived(p) \cup {c} /\ m \in Arrived(p)
      /\ \A q \in Peer \ {p} : Arrived(q)' = Arrived(q)
  BY <1>6, <1>8 DEF Arrived
<1>10. \A q \in Peer : Before(Got(q), Coming(inbox[q]))'
  <2>1. Before(Got(p)', Coming(inbox[p])')
    <3>1. Before({m}, Coming(inbox[p])')
      BY <1>3, <1>5
    <3> QED BY <1>2, <1>6, <1>8, <3>1 DEF OrderInv, Before
  <2>2. \A q \in Peer \ {p} : Before(Got(q)', Coming(inbox[q])')
    BY <1>6, <1>8 DEF OrderInv
  <2> QED BY <2>1, <2>2 DEF Before
<1>11. \A q \in Peer : /\ \A x \in Coming(wire[q])' : x.n <= gathered'[q]
                       /\ \A x \in Arrived(q)' : x.n <= gathered'[x.from]
  BY <1>1, <1>2, <1>6, <1>9 DEF OrderInv
<1>12. \A q, o \in Peer : Before(Arrived(q), Coming(wire[o]))'
  <2>1. \A q, o \in Peer : Before(Arrived(q)', Coming(wire[o])')
    BY <1>2, <1>6, <1>9 DEF OrderInv, Before
  <2> QED BY <2>1 DEF Before
<1>13. Complete'
  <2>1. Arrived(p) \subseteq Arrived(p)' \cup {m} /\ c \in Arrived(p)'
    BY <1>6, <1>8 DEF Arrived
  <2>2. \A q \in Peer : \A x \in Arrived(q) :
          \E y \in Arrived(q)' : y.from = x.from /\ y.n = x.n
    BY <1>2, <1>9, <2>1
  <2> SUFFICES ASSUME NEW q \in Peer, NEW n \in 1..gathered[q]
               PROVE  \/ \E x \in Coming(wire[q])' : x.n = n
                      \/ \E o \in Peer : \E x \in Arrived(o)' : x.from = q /\ x.n = n
    BY <1>1 DEF Complete
  <2> QED BY <1>6, <2>2 DEF OrderInv, Complete
<1>14. Apart'
  <2>1. \A q \in Peer : \A x \in Arrived(q)' :
          \E y \in Arrived(q) : y.from = x.from /\ y.n = x.n
    BY <1>2, <1>9
  <2> QED BY <2>1 DEF OrderInv, Apart
<1> QED BY <1>6, <1>8, <1>10, <1>11, <1>12, <1>13, <1>14 DEF OrderInv

LEMMA OrderStep ==
  ASSUME BaseInv, OrderInv, [Next]_vars
  PROVE  OrderInv'
<1>1. ASSUME NEW p \in Peer,
             SetTargetID(p) \/ Offers(p) \/ GatheringComplete(p) \/ CreateAnswer(p)
      PROVE  OrderInv'
  BY <1>1, OrderUnmoved
     DEF SetTargetID, Offers, CreateOffer, SendOffer, GatheringComplete, CreateAnswer, pcVars
<1>2. ASSUME NEW p \in Peer, Reads(p) PROVE OrderInv'
  BY <1>1, <1>2, OrderDescribes, OrderAdds DEF Reads
<1>3. CASE Next
  BY <1>1, <1>2, <1>3, OrderGathers, OrderWrites, OrderForwards DEF Next
<1>4. CASE UNCHANGED vars
  BY <1>4, OrderUnmoved DEF vars, pcVars
<1> QED BY <1>3, <1>4

LEMMA OrderInvariance == Spec => []OrderInv
<1> QED BY OrderInit, OrderStep, BaseInvariance, PTL DEF Spec

\* Whatever the interleaving of descriptions, candidates and flushes, pion gets
\* each author's candidates in the order they were gathered, and none twice.
THEOREM CandidatesKeepOrder == Spec => []CandidatesInOrder
<1>1. BaseInv /\ OrderInv => CandidatesInOrder
  <2> SUFFICES ASSUME BaseInv, OrderInv, NEW p \in Peer,
                      NEW i \in DOMAIN Held(p), NEW j \in DOMAIN Held(p),
                      i < j, Held(p)[i].from = Held(p)[j].from
               PROVE  Held(p)[i].n < Held(p)[j].n
    BY DEF CandidatesInOrder
  <2>1. added[p] \in Seq(Candidate) /\ queued[p] \in Seq(Candidate)
    BY DEF BaseInv, Queues
  <2>2. DOMAIN Held(p) = 1..Len(Held(p))
    BY <2>1 DEF Held
  <2> QED BY <2>2 DEF OrderInv, Ascending, Before
<1> QED BY <1>1, BaseInvariance, OrderInvariance, PTL

\* Wherever targets, queues and flushes send it: what was gathered is in one place.
THEOREM NoneLost == Spec => []NoCandidateLost
<1>1. BaseInv /\ OrderInv => NoCandidateLost
  <2> SUFFICES ASSUME BaseInv, OrderInv, NEW p \in Peer, NEW n \in 1..gathered[p]
               PROVE  \E x \in Places(p, n) : Places(p, n) = {x}
    BY DEF NoCandidateLost
  <2> DEFINE It(m) == m.type = "candidate" /\ m.from = p /\ m.n = n
             OnWire(q, i)  == i \in 1..Len(wire[q]) /\ It(wire[q][i])
             InInbox(q, i) == i \in 1..Len(inbox[q]) /\ It(inbox[q][i])
             IsHeld(q, i)  == i \in 1..Len(Held(q)) /\ Held(q)[i] = [from |-> p, n |-> n]
  <2>1. /\ gathered[p] \in Nat
        /\ \A q \in Peer : /\ DOMAIN wire[q] = 1..Len(wire[q]) /\ Len(wire[q]) \in Nat
                            /\ DOMAIN inbox[q] = 1..Len(inbox[q]) /\ Len(inbox[q]) \in Nat
                            /\ DOMAIN Held(q) = 1..Len(Held(q)) /\ Len(Held(q)) \in Nat
                            /\ Held(q) \in Seq(Candidate)
    BY DEF BaseInv, States, Frames, Queues, Held
  <2>2. \A x : x \in Places(p, n) <=>
          \E q \in Peer : \E i \in Nat : \/ x = <<"wire", q, i>> /\ OnWire(q, i)
                                         \/ x = <<"inbox", q, i>> /\ InInbox(q, i)
                                         \/ x = <<"held", q, i>> /\ IsHeld(q, i)
    <3> DEFINE W(q) == {<<"wire", q, i>> : i \in {j \in DOMAIN wire[q] : It(wire[q][j])}}
               I(q) == {<<"inbox", q, i>> : i \in {j \in DOMAIN inbox[q] : It(inbox[q][j])}}
               H(q) == {<<"held", q, i>> : i \in {j \in DOMAIN Held(q) :
                                                   Held(q)[j] = [from |-> p, n |-> n]}}
    <3>1. Places(p, n) = UNION {W(q) \cup I(q) \cup H(q) : q \in Peer}
      BY DEF Places
    <3>2. \A q \in Peer : \A x :
            /\ x \in W(q) <=> \E i \in Nat : x = <<"wire", q, i>> /\ OnWire(q, i)
            /\ x \in I(q) <=> \E i \in Nat : x = <<"inbox", q, i>> /\ InInbox(q, i)
            /\ x \in H(q) <=> \E i \in Nat : x = <<"held", q, i>> /\ IsHeld(q, i)
      <4> TAKE q \in Peer
      <4>1. \A x : x \in W(q) <=> \E i \in Nat : x = <<"wire", q, i>> /\ OnWire(q, i)
        BY <2>1
      <4>2. \A x : x \in I(q) <=> \E i \in Nat : x = <<"inbox", q, i>> /\ InInbox(q, i)
        BY <2>1
      <4>3. \A x : x \in H(q) <=> \E i \in Nat : x = <<"held", q, i>> /\ IsHeld(q, i)
        BY <2>1
      <4> QED BY <4>1, <4>2, <4>3
    <3> HIDE DEF W, I, H, OnWire, InInbox, IsHeld
    <3>3. \A x : x \in Places(p, n) <=> \E q \in Peer : x \in W(q) \/ x \in I(q) \/ x \in H(q)
      BY <3>1
    <3> QED BY <3>2, <3>3
  \* A place shows in the sets of the invariant.
  <2>3. ASSUME NEW q \in Peer, NEW i \in Nat
        PROVE  /\ OnWire(q, i) => q = p /\ \E x \in Coming(wire[p]) : x.from = p /\ x.n = n
               /\ InInbox(q, i) => \E x \in Coming(inbox[q]) : x.from = p /\ x.n = n
               /\ IsHeld(q, i) => \E x \in Got(q) : x.from = p /\ x.n = n
    <3>1. OnWire(q, i) => wire[q][i] \in Coming(wire[q])
      BY DEF Coming, Elements
    <3>2. InInbox(q, i) => inbox[q][i] \in Coming(inbox[q])
      BY DEF Coming, Elements
    <3>3. IsHeld(q, i) => Held(q)[i] \in Got(q)
      BY DEF Got, Elements
    <3> QED BY <3>1, <3>2, <3>3, Stamps
  <2>4. \E x : x \in Places(p, n)
    <3>1. CASE \E x \in Coming(wire[p]) : x.n = n
      <4>1. \E i \in 1..Len(wire[p]) : It(wire[p][i])
        BY <3>1, Stamps DEF Coming, Elements
      <4>2. \E i \in Nat : OnWire(p, i)
        BY <2>1, <4>1
      <4> HIDE DEF OnWire, InInbox, IsHeld
      <4> QED BY <2>2, <4>2
    <3>2. CASE \E q \in Peer : \E x \in Arrived(q) : x.from = p /\ x.n = n
      <4>1. PICK q \in Peer : \E x \in Arrived(q) : x.from = p /\ x.n = n
        BY <3>2
      <4>2. CASE \E x \in Coming(inbox[q]) : x.from = p /\ x.n = n
        <5>1. \E i \in 1..Len(inbox[q]) : It(inbox[q][i])
          BY <4>2 DEF Coming, Elements
        <5>2. \E i \in Nat : InInbox(q, i)
          BY <2>1, <5>1
        <5> HIDE DEF OnWire, InInbox, IsHeld
        <5> QED BY <2>2, <5>2
      <4>3. CASE \E x \in Got(q) : x.from = p /\ x.n = n
        <5>1. PICK i \in 1..Len(Held(q)) : Held(q)[i].from = p /\ Held(q)[i].n = n
          BY <4>3 DEF Got, Elements
        <5>2. Held(q)[i] = [from |-> p, n |-> n]
          <6>1. Held(q)[i] \in Candidate
            BY <2>1, <5>1
          <6> QED BY <5>1, <6>1 DEF Candidate
        <5>3. i \in Nat /\ IsHeld(q, i)
          BY <2>1, <5>1, <5>2
        <5> HIDE DEF OnWire, InInbox, IsHeld
        <5> QED BY <2>2, <5>3
      <4> QED BY <4>1, <4>2, <4>3 DEF Arrived
    <3> QED BY <3>1, <3>2 DEF OrderInv, Complete
  \* No two peers have it, none has it twice, and none has it while it is under way.
  <2>5. ASSUME NEW q \in Peer, NEW r \in Peer, NEW i \in Nat, NEW j \in Nat
        PROVE  /\ OnWire(q, i) /\ OnWire(r, j) => q = r /\ i = j
               /\ InInbox(q, i) /\ InInbox(r, j) => q = r /\ i = j
               /\ IsHeld(q, i) /\ IsHeld(r, j) => q = r /\ i = j
               /\ ~(OnWire(q, i) /\ InInbox(r, j)) /\ ~(OnWire(q, i) /\ IsHeld(r, j))
               /\ ~(InInbox(q, i) /\ IsHeld(r, j))
    <3>1. /\ OnWire(q, i) /\ OnWire(r, j) => q = r
          /\ InInbox(q, i) /\ InInbox(r, j) => q = r
          /\ IsHeld(q, i) /\ IsHeld(r, j) => q = r
          /\ InInbox(q, i) /\ IsHeld(r, j) => q = r
      <4> HIDE DEF OnWire, InInbox, IsHeld
      <4> QED BY <2>3 DEF OrderInv, Apart, Arrived
    <3>2. ~(n < n) /\ n \in Nat
      BY <2>1
    <3>3. ~(OnWire(q, i) /\ InInbox(r, j)) /\ ~(OnWire(q, i) /\ IsHeld(r, j))
      <4> HIDE DEF OnWire, InInbox, IsHeld
      <4> QED BY <2>3, <3>2 DEF OrderInv, Before, Arrived
    <3>4. ~(InInbox(q, i) /\ IsHeld(r, j))
      <4> HIDE DEF OnWire, InInbox, IsHeld
      <4> QED BY <2>3, <3>1, <3>2 DEF OrderInv, Before
    <3>5. \A k, l \in Nat : /\ OnWire(q, k) /\ OnWire(q, l) => ~(k < l)
                            /\ InInbox(q, k) /\ InInbox(q, l) => ~(k < l)
                            /\ IsHeld(q, k) /\ IsHeld(q, l) => ~(k < l)
      <4> TAKE k \in Nat, l \in Nat
      <4>1. OnWire(q, k) /\ OnWire(q, l) => ~(k < l)
        <5>1. AscendingFrames(wire[q])
          BY DEF OrderInv
        <5> QED BY <3>2, <5>1 DEF AscendingFrames, Before
      <4>2. InInbox(q, k) /\ InInbox(q, l) => ~(k < l)
        <5>1. AscendingFrames(inbox[q])
          BY DEF OrderInv
        <5> QED BY <3>2, <5>1 DEF AscendingFrames, Before
      <4>3. IsHeld(q, k) /\ IsHeld(q, l) => ~(k < l)
        <5>1. Ascending(Held(q))
          BY DEF OrderInv
        <5> QED BY <3>2, <5>1 DEF Ascending, Before
      <4> QED BY <4>1, <4>2, <4>3
    <3>6. i = j \/ i < j \/ j < i
      OBVIOUS
    <3> HIDE DEF OnWire, InInbox, IsHeld
    <3> QED BY <3>1, <3>3, <3>4, <3>5, <3>6
  <2>6. \A x, y \in Places(p, n) : x = y
    <3> HIDE DEF OnWire, InInbox, IsHeld
    <3> QED BY <2>2, <2>5
  <2> QED BY <2>4, <2>6
<1> QED BY <1>1, BaseInvariance, OrderInvariance, PTL

-----------------------------------------------------------------------------
(***************************************************************************)
(* Every call has one token: the offer, the read pump that answers it, or  *)
(* the answer.                                                             *)
(***************************************************************************)
Token(m, p) == \/ m.type = "offer" /\ m.from = p
               \/ m.type = "answer" /\ m.to = p
Holds(s, p) == \E m \in Elements(s) : Token(m, p)
Once(s, p) == \A i, j \in 1..Len(s) : Token(s[i], p) /\ Token(s[j], p) => i = j

Kind == {"outbox", "wire", "inbox", "reader"}
At(k, r, p) == \/ k = "outbox" /\ Holds(outbox[r], p)
               \/ k = "wire" /\ Holds(wire[r], p)
               \/ k = "inbox" /\ Holds(inbox[r], p)
               \/ k = "reader" /\ reader[r] = "answering" /\ remote[r] = p

InOnePlace(p) ==
  \A k, l \in Kind, r, o \in Peer : At(k, r, p) /\ At(l, o, p) => k = l /\ r = o
InOneFrame(p) ==
  \A r \in Peer : Once(outbox[r], p) /\ Once(wire[r], p) /\ Once(inbox[r], p)

\* p waits as long as its token is somewhere, and has none before.
Waits(p) ==
  /\ \A k \in Kind, r \in Peer :
       At(k, r, p) => main[p] = "waiting" /\ signaling[p] = "have-local-offer"
  /\ main[p] = "offering" => signaling[p] = "have-local-offer"

TokenInv == \A p \in Peer : InOnePlace(p) /\ InOneFrame(p) /\ Waits(p)

LEMMA TokenInit == Init => TokenInv
<1> SUFFICES ASSUME Init PROVE TokenInv
  OBVIOUS
<1>1. \A p, r \in Peer : ~Holds(outbox[r], p) /\ ~Holds(wire[r], p) /\ ~Holds(inbox[r], p)
  BY DEF Init, Holds, Elements
<1>2. \A p, r \in Peer : \A k \in Kind : ~At(k, r, p)
  BY <1>1 DEF Init, At
<1>3. \A p \in Peer : InOneFrame(p)
  BY DEF Init, InOneFrame, Once
<1>4. \A p \in Peer : main[p] # "offering"
  BY DEF Init
<1> QED BY <1>2, <1>3, <1>4 DEF TokenInv, InOnePlace, Waits

LEMMA TokenAppend ==
  ASSUME NEW S, NEW s \in Seq(S), NEW m \in S, NEW p
  PROVE  /\ Holds(Append(s, m), p) <=> Holds(s, p) \/ Token(m, p)
         /\ Once(s, p) /\ ~(Holds(s, p) /\ Token(m, p)) => Once(Append(s, m), p)
<1>1. /\ Len(Append(s, m)) = Len(s) + 1 /\ Len(s) \in Nat
      /\ \A i \in 1..Len(s) : Append(s, m)[i] = s[i]
      /\ Append(s, m)[Len(s) + 1] = m
  OBVIOUS
<1>2. Holds(Append(s, m), p) <=> Holds(s, p) \/ Token(m, p)
  <2>1. Elements(Append(s, m)) = Elements(s) \cup {m}
    BY <1>1 DEF Elements
  <2> QED BY <2>1 DEF Holds
<1>3. ASSUME Once(s, p), ~(Holds(s, p) /\ Token(m, p)) PROVE Once(Append(s, m), p)
  BY <1>1, <1>3 DEF Once, Holds, Elements
<1> QED BY <1>2, <1>3

LEMMA TokenTail ==
  ASSUME NEW S, NEW s \in Seq(S), s # <<>>, NEW p
  PROVE  /\ Token(Head(s), p) => Holds(s, p)
         /\ Holds(Tail(s), p) => Holds(s, p)
         /\ Once(s, p) => Once(Tail(s), p) /\ ~(Token(Head(s), p) /\ Holds(Tail(s), p))
<1>1. /\ Len(s) \in Nat \ {0} /\ Len(Tail(s)) = Len(s) - 1 /\ Head(s) = s[1]
      /\ \A i \in 1..Len(Tail(s)) : Tail(s)[i] = s[i + 1]
  OBVIOUS
<1>2. Elements(Tail(s)) \cup {Head(s)} \subseteq Elements(s)
  BY <1>1 DEF Elements
<1>3. ASSUME Once(s, p) PROVE Once(Tail(s), p) /\ ~(Token(Head(s), p) /\ Holds(Tail(s), p))
  BY <1>1, <1>3 DEF Once, Holds, Elements
<1> QED BY <1>2, <1>3 DEF Holds

\* The token of p stays where it is or disappears; it moves.
LEMMA TokenStays ==
  ASSUME NEW p \in Peer, InOnePlace(p), \A k \in Kind, r \in Peer : At(k, r, p)' => At(k, r, p)
  PROVE  InOnePlace(p)'
<1> QED BY DEF InOnePlace

LEMMA TokenMoves ==
  ASSUME NEW p \in Peer, InOnePlace(p), NEW k \in Kind, NEW r \in Peer, NEW l, NEW o,
         At(k, r, p), ~At(k, r, p)',
         \A j \in Kind, q \in Peer : At(j, q, p)' => At(j, q, p) \/ (j = l /\ q = o)
  PROVE  InOnePlace(p)'
<1>1. \A j \in Kind, q \in Peer : At(j, q, p)' => j = l /\ q = o
  <2> SUFFICES ASSUME NEW j \in Kind, NEW q \in Peer, At(j, q, p)', At(j, q, p)
               PROVE  FALSE
    OBVIOUS
  <2>1. j = k /\ q = r
    BY DEF InOnePlace
  <2> QED BY <2>1
<1> QED BY <1>1 DEF InOnePlace

\* No token moves.
LEMMA TokenUnmoved ==
  ASSUME TokenInv, UNCHANGED <<outbox, wire, inbox, reader, remote>>
  PROVE  \A p \in Peer : /\ InOnePlace(p)' /\ InOneFrame(p)'
                         /\ \A k \in Kind, r \in Peer : At(k, r, p)' <=> At(k, r, p)
<1>1. \A p \in Peer : \A k \in Kind, r \in Peer : At(k, r, p)' <=> At(k, r, p)
  BY DEF At
<1>2. \A p \in Peer : InOnePlace(p)'
  BY <1>1, TokenStays DEF TokenInv
<1>3. \A p \in Peer : InOneFrame(p)'
  BY DEF TokenInv, InOneFrame
<1> QED BY <1>1, <1>2, <1>3

LEMMA TokenMain ==
  ASSUME BaseInv, TokenInv, NEW p \in Peer,
         SetTargetID(p) \/ CreateOffer(p) \/ GatheringComplete(p) \/ OnICECandidate(p)
  PROVE  TokenInv'
<1>1. CASE OnICECandidate(p)
  <2> DEFINE m == [type |-> "candidate", from |-> p, to |-> targetID[p], n |-> gathered'[p]]
  <2>1. /\ wire' = [wire EXCEPT ![p] = Append(wire[p], m)] /\ wire \in [Peer -> Seq(Message)]
        /\ UNCHANGED <<outbox, inbox, reader, remote, main, signaling>>
        /\ gathered'[p] \in Nat /\ targetID[p] \in Peer
    BY <1>1 DEF OnICECandidate, BaseInv, Frames, States, Targets
  <2>2. m \in Message /\ \A q : ~Token(m, q)
    BY <2>1 DEF Message, Token
  <2> HIDE DEF m
  <2>3. \A q \in Peer : Holds(wire[p], q)' => Holds(wire[p], q)
    BY <2>1, <2>2, TokenAppend
  <2>4. \A q \in Peer : Once(wire[p], q)'
    BY <2>1, <2>2, TokenAppend DEF TokenInv, InOneFrame
  <2>5. \A r \in Peer \ {p} : wire'[r] = wire[r]
    BY <2>1
  <2>6. ASSUME NEW q \in Peer PROVE InOnePlace(q)' /\ InOneFrame(q)' /\ Waits(q)'
    <3>1. \A k \in Kind, r \in Peer : At(k, r, q)' => At(k, r, q)
      BY <2>1, <2>3, <2>5 DEF At
    <3>2. InOneFrame(q)'
      BY <2>1, <2>4, <2>5 DEF TokenInv, InOneFrame
    <3>3. Waits(q)'
      BY <2>1, <3>1 DEF TokenInv, Waits
    <3> QED BY <3>1, <3>2, <3>3, TokenStays DEF TokenInv
  <2> QED BY <2>6 DEF TokenInv
<1>2. CASE ~OnICECandidate(p)
  <2>1. UNCHANGED <<outbox, wire, inbox, reader, remote>>
    BY <1>2 DEF SetTargetID, CreateOffer, GatheringComplete
  <2>2. \A q \in Peer : Waits(q)'
    <3>1. \/ UNCHANGED <<main, signaling>>
          \/ /\ main[p] \in {"prompt", "targeted"} /\ main' = [main EXCEPT ![p] = main'[p]]
             /\ signaling' = [signaling EXCEPT ![p] = signaling'[p]]
             /\ main'[p] = "offering" => signaling'[p] = "have-local-offer"
      BY <1>2 DEF SetTargetID, CreateOffer, GatheringComplete, BaseInv, States
    <3>2. \A q \in Peer \ {p} : \/ UNCHANGED <<main, signaling>>
                                \/ main'[q] = main[q] /\ signaling'[q] = signaling[q]
      BY <3>1 DEF BaseInv, States
    <3>3. \A q \in Peer : \A k \in Kind, r \in Peer : At(k, r, q)' <=> At(k, r, q)
      BY <2>1, TokenUnmoved
    <3>4. \A q \in Peer \ {p} : Waits(q)'
      BY <3>2, <3>3 DEF TokenInv, Waits
    <3>5. Waits(p)'
      BY <3>1, <3>3 DEF TokenInv, Waits
    <3> QED BY <3>4, <3>5
  <2> QED BY <2>1, <2>2, TokenUnmoved DEF TokenInv
<1> QED BY <1>1, <1>2

\* The offer appears in the channel.
LEMMA TokenOffers ==
  ASSUME BaseInv, TokenInv, NEW p \in Peer, SendOffer(p)
  PROVE  TokenInv'
<1> DEFINE m == Sdp("offer", p, Target[p])
<1>1. /\ main[p] = "offering" /\ main' = [main EXCEPT ![p] = "waiting"]
      /\ outbox' = [outbox EXCEPT ![p] = Append(outbox[p], m)]
      /\ UNCHANGED <<signaling, remote, reader, wire, inbox>>
      /\ outbox \in [Peer -> Seq(Message)] /\ p \in Offerer
      /\ main \in [Peer -> {"prompt", "targeted", "offering", "waiting", "fatal", "answering"}]
  BY DEF SendOffer, pcVars, BaseInv, Frames, Targets, States
<1>2. m \in Message /\ m.type = "offer" /\ m.from = p
  BY <1>1, NegotiationAssumption DEF Sdp, Message
<1>3. \A q \in Peer : Token(m, q) <=> q = p
  BY <1>2 DEF Token
<1> HIDE DEF m
<1>4. signaling[p] = "have-local-offer" /\ \A k \in Kind, r \in Peer : ~At(k, r, p)
  BY <1>1 DEF TokenInv, Waits
<1>5. /\ outbox'[p] = Append(outbox[p], m) /\ \A r \in Peer \ {p} : outbox'[r] = outbox[r]
      /\ main'[p] = "waiting" /\ \A q \in Peer \ {p} : main'[q] = main[q]
  BY <1>1
<1>6. \A q \in Peer : Holds(outbox'[p], q) <=> Holds(outbox[p], q) \/ q = p
  BY <1>1, <1>2, <1>3, <1>5, TokenAppend
<1>7. \A q \in Peer : Once(outbox'[p], q)
  <2>1. ~Holds(outbox[p], p)
    BY <1>4 DEF At, Kind
  <2> QED BY <1>1, <1>2, <1>3, <1>5, <2>1, TokenAppend DEF TokenInv, InOneFrame
<1>8. \A q \in Peer : InOneFrame(q)'
  BY <1>1, <1>5, <1>7 DEF TokenInv, InOneFrame
<1>9. ASSUME NEW q \in Peer \ {p} PROVE InOnePlace(q)' /\ Waits(q)'
  <2>1. \A k \in Kind, r \in Peer : At(k, r, q)' => At(k, r, q)
    BY <1>1, <1>5, <1>6 DEF At
  <2> QED BY <1>1, <1>5, <2>1, TokenStays DEF TokenInv, Waits
<1>10. InOnePlace(p)' /\ Waits(p)'
  <2>1. \A k \in Kind, r \in Peer : At(k, r, p)' => k = "outbox" /\ r = p
    BY <1>1, <1>4, <1>5, <1>6 DEF At, Kind
  <2> QED BY <1>1, <1>4, <1>5, <2>1 DEF InOnePlace, Waits
<1> QED BY <1>8, <1>9, <1>10 DEF TokenInv

\* A description goes onto the wire, with the token of its call.
LEMMA TokenWrites ==
  ASSUME BaseInv, TokenInv, NEW p \in Peer, WriteSdp(p)
  PROVE  TokenInv'
<1> DEFINE m == Head(outbox[p])
<1>1. /\ outbox[p] # <<>> /\ wire' = [wire EXCEPT ![p] = Append(wire[p], m)]
      /\ outbox' = [outbox EXCEPT ![p] = Tail(outbox[p])]
      /\ UNCHANGED <<signaling, remote, main, reader, inbox>>
      /\ outbox \in [Peer -> Seq(Message)] /\ wire \in [Peer -> Seq(Message)]
  BY DEF WriteSdp, pcVars, BaseInv, Frames
<1>2. m \in Message /\ outbox[p] \in Seq(Message) /\ wire[p] \in Seq(Message)
  BY <1>1, QueueTypes
<1>3. ASSUME NEW q \in Peer
      PROVE  /\ Token(m, q) => Holds(outbox[p], q) /\ ~Holds(Tail(outbox[p]), q)
             /\ Holds(Tail(outbox[p]), q) => Holds(outbox[p], q)
             /\ Once(Tail(outbox[p]), q)
  BY <1>1, <1>2, TokenTail DEF TokenInv, InOneFrame
<1> HIDE DEF m
<1>4. ASSUME NEW q \in Peer
      PROVE  /\ Holds(Append(wire[p], m), q) <=> Holds(wire[p], q) \/ Token(m, q)
             /\ Once(Append(wire[p], m), q)
  <2>1. ~(Holds(wire[p], q) /\ Token(m, q))
    <3>1. ~(At("wire", p, q) /\ At("outbox", p, q))
      BY DEF TokenInv, InOnePlace, Kind
    <3> QED BY <1>3, <3>1 DEF At
  <2> QED BY <1>2, <2>1, TokenAppend DEF TokenInv, InOneFrame
<1>5. /\ wire'[p] = Append(wire[p], m) /\ \A r \in Peer \ {p} : wire'[r] = wire[r]
      /\ outbox'[p] = Tail(outbox[p]) /\ \A r \in Peer \ {p} : outbox'[r] = outbox[r]
  BY <1>1
<1>6. ASSUME NEW q \in Peer PROVE InOnePlace(q)' /\ InOneFrame(q)' /\ Waits(q)'
  <2>1. \A k \in Kind, r \in Peer :
          At(k, r, q)' => At(k, r, q) \/ (Token(m, q) /\ k = "wire" /\ r = p)
    BY <1>1, <1>3, <1>4, <1>5 DEF At
  <2>2. Token(m, q) => At("outbox", p, q) /\ ~At("outbox", p, q)'
    BY <1>3, <1>5 DEF At
  <2>3. InOnePlace(q)'
    <3>1. CASE Token(m, q)
      <4>1. "outbox" \in Kind
        BY DEF Kind
      <4> QED BY <2>1, <2>2, <3>1, <4>1, TokenMoves DEF TokenInv
    <3>2. CASE ~Token(m, q)
      BY <2>1, <3>2, TokenStays DEF TokenInv
    <3> QED BY <3>1, <3>2
  <2>4. InOneFrame(q)'
    BY <1>1, <1>3, <1>4, <1>5 DEF TokenInv, InOneFrame
  <2>5. Waits(q)'
    <3>1. \A k \in Kind, r \in Peer : At(k, r, q)' => \E j \in Kind, o \in Peer : At(j, o, q)
      BY <2>1, <2>2 DEF Kind
    <3> QED BY <1>1, <3>1 DEF TokenInv, Waits
  <2> QED BY <2>3, <2>4, <2>5
<1> QED BY <1>6 DEF TokenInv

\* The server puts it into the inbox of r.
LEMMA TokenDelivers ==
  ASSUME BaseInv, TokenInv, NEW p \in Peer, NEW r \in Peer, NEW m \in Message,
         \A q \in Peer : /\ Token(m, q) => Holds(wire[p], q) /\ ~Holds(Tail(wire[p]), q)
                         /\ Holds(Tail(wire[p]), q) => Holds(wire[p], q)
                         /\ Once(Tail(wire[p]), q),
         inbox' = [inbox EXCEPT ![r] = Append(inbox[r], m)],
         wire' = [wire EXCEPT ![p] = Tail(wire[p])],
         UNCHANGED <<signaling, remote, main, reader, outbox>>
  PROVE  TokenInv'
<1>1. inbox \in [Peer -> Seq(Message)] /\ wire \in [Peer -> Seq(Message)]
  BY DEF BaseInv, Frames
<1>2. ASSUME NEW q \in Peer
      PROVE  /\ Holds(Append(inbox[r], m), q) <=> Holds(inbox[r], q) \/ Token(m, q)
             /\ Once(Append(inbox[r], m), q)
  <2>1. ~(Holds(inbox[r], q) /\ Token(m, q))
    <3>1. ~(At("inbox", r, q) /\ At("wire", p, q))
      BY DEF TokenInv, InOnePlace, Kind
    <3> QED BY <3>1 DEF At
  <2> DEFINE s == inbox[r]
  <2>2. s \in Seq(Message) /\ Once(s, q) /\ ~(Holds(s, q) /\ Token(m, q))
    BY <1>1, <2>1 DEF TokenInv, InOneFrame
  <2> HIDE DEF s
  <2>3. (Holds(Append(s, m), q) <=> Holds(s, q) \/ Token(m, q)) /\ Once(Append(s, m), q)
    BY <2>2, TokenAppend
  <2> QED BY <2>3 DEF s
<1>3. /\ inbox'[r] = Append(inbox[r], m) /\ \A o \in Peer \ {r} : inbox'[o] = inbox[o]
      /\ wire'[p] = Tail(wire[p]) /\ \A o \in Peer \ {p} : wire'[o] = wire[o]
  BY <1>1
<1>4. ASSUME NEW q \in Peer PROVE InOnePlace(q)' /\ InOneFrame(q)' /\ Waits(q)'
  <2>1. \A k \in Kind, o \in Peer :
          At(k, o, q)' => At(k, o, q) \/ (Token(m, q) /\ k = "inbox" /\ o = r)
    BY <1>2, <1>3 DEF At
  <2>2. Token(m, q) => At("wire", p, q) /\ ~At("wire", p, q)'
    BY <1>3 DEF At
  <2>3. InOnePlace(q)'
    <3>1. CASE Token(m, q)
      <4>1. "wire" \in Kind
        BY DEF Kind
      <4>2. \A k \in Kind, o \in Peer : At(k, o, q)' => At(k, o, q) \/ (k = "inbox" /\ o = r)
        BY <2>1
      <4>3. InOnePlace(q) /\ At("wire", p, q) /\ ~At("wire", p, q)'
        BY <2>2, <3>1 DEF TokenInv
      <4>4. \A k \in Kind, o \in Peer : At(k, o, q)' => k = "inbox" /\ o = r
        BY <4>1, <4>2, <4>3 DEF InOnePlace
      <4> QED BY <4>4 DEF InOnePlace
    <3>2. CASE ~Token(m, q)
      BY <2>1, <3>2, TokenStays DEF TokenInv
    <3> QED BY <3>1, <3>2
  <2>4. InOneFrame(q)'
    BY <1>2, <1>3 DEF TokenInv, InOneFrame
  <2>5. Waits(q)'
    <3>1. \A k \in Kind, o \in Peer : At(k, o, q)' => \E j \in Kind, x \in Peer : At(j, x, q)
      BY <2>1, <2>2 DEF Kind
    <3> QED BY <3>1 DEF TokenInv, Waits
  <2> QED BY <2>3, <2>4, <2>5
<1> QED BY <1>4 DEF TokenInv

LEMMA TokenForwards ==
  ASSUME BaseInv, TokenInv, NEW p \in Peer, Forward(p)
  PROVE  TokenInv'
<1> DEFINE m == Head(wire[p])
<1>1. wire[p] # <<>> /\ m \in Sent(p)
  BY QueueTypes DEF Forward, BaseInv, Frames
<1>2. m \in Message /\ m.to \in Peer
  BY <1>1 DEF Sent
<1>3. /\ inbox' = [inbox EXCEPT ![m.to] = Append(inbox[m.to], m)]
      /\ wire' = [wire EXCEPT ![p] = Tail(wire[p])]
      /\ UNCHANGED <<signaling, remote, main, reader, outbox>>
  BY <1>2 DEF Forward, pcVars
<1>4. \A q \in Peer : /\ Token(m, q) => Holds(wire[p], q) /\ ~Holds(Tail(wire[p]), q)
                      /\ Holds(Tail(wire[p]), q) => Holds(wire[p], q)
                      /\ Once(Tail(wire[p]), q)
  <2>1. wire[p] \in Seq(Message)
    BY DEF BaseInv, Frames
  <2> QED BY <1>1, <2>1, TokenTail DEF TokenInv, InOneFrame
<1> HIDE DEF m
<1> QED BY <1>2, <1>3, <1>4, TokenDelivers

\* What the read pump of p takes leaves the inbox.
LEMMA TokenConsumed ==
  ASSUME BaseInv, TokenInv, NEW p \in Peer, inbox[p] # <<>>, Consumes(p), UNCHANGED <<outbox, wire>>
  PROVE  \A q \in Peer :
           /\ InOneFrame(q)'
           /\ \A r \in Peer : Holds(inbox[r], q)' => Holds(inbox[r], q)
           /\ Token(Head(inbox[p]), q) => Holds(inbox[p], q) /\ ~Holds(inbox[p], q)'
<1>1. /\ inbox \in [Peer -> Seq(Message)] /\ inbox' = [inbox EXCEPT ![p] = Tail(inbox[p])]
  BY DEF BaseInv, Frames, Consumes
<1>2. inbox'[p] = Tail(inbox[p]) /\ \A r \in Peer \ {p} : inbox'[r] = inbox[r]
  BY <1>1
<1>3. ASSUME NEW q \in Peer
      PROVE  /\ Token(Head(inbox[p]), q) => Holds(inbox[p], q) /\ ~Holds(Tail(inbox[p]), q)
             /\ Holds(Tail(inbox[p]), q) => Holds(inbox[p], q)
             /\ Once(Tail(inbox[p]), q)
  BY <1>1, TokenTail DEF TokenInv, InOneFrame
<1> QED BY <1>2, <1>3 DEF TokenInv, InOneFrame

\* A frame is dropped, or is a candidate: no token moves.
LEMMA TokenDrops ==
  ASSUME BaseInv, TokenInv, NEW p \in Peer,
         SetRemoteDescriptionFails(p) \/ AddICECandidate(p)
  PROVE  TokenInv'
<1>1. /\ inbox[p] # <<>> /\ Consumes(p)
      /\ UNCHANGED <<signaling, remote, main, reader, outbox, wire>>
  BY DEF SetRemoteDescriptionFails, AddICECandidate, Receives, pcVars
<1>2. ASSUME NEW q \in Peer PROVE InOnePlace(q)' /\ InOneFrame(q)' /\ Waits(q)'
  <2>1. \A k \in Kind, r \in Peer : At(k, r, q)' => At(k, r, q)
    BY <1>1, TokenConsumed DEF At
  <2> QED BY <1>1, <2>1, TokenConsumed, TokenStays DEF TokenInv, Waits
<1> QED BY <1>2 DEF TokenInv

\* The read pump takes an offer, and the token with it, or the answer to its own.
LEMMA TokenDescribes ==
  ASSUME BaseInv, TokenInv, NEW p \in Peer, SetRemoteDescription(p)
  PROVE  TokenInv'
<1> DEFINE m == Head(inbox[p])
<1>1. /\ inbox[p] # <<>> /\ Consumes(p) /\ reader[p] = "idle" /\ Acceptable(p, m)
      /\ signaling' = [signaling EXCEPT ![p] =
                         IF m.type = "offer" THEN "have-remote-offer" ELSE "stable"]
      /\ reader' = [reader EXCEPT ![p] = IF m.type = "offer" THEN "answering" ELSE "idle"]
      /\ remote' = [remote EXCEPT ![p] = m.from]
      /\ UNCHANGED <<main, outbox, wire>>
  BY DEF SetRemoteDescription, Receives
<1>2. m.from \in Peer /\ (m.type = "answer" => m.to = p)
  BY <1>1, FirstFrame DEF BaseInv, Delivered, Message
<1>3. /\ \A q \in Peer : InOneFrame(q)'
      /\ \A q, r \in Peer : Holds(inbox[r], q)' => Holds(inbox[r], q)
      /\ \A q \in Peer : Token(m, q) => At("inbox", p, q) /\ ~At("inbox", p, q)'
  BY <1>1, TokenConsumed DEF At
<1> HIDE DEF m
<1>4. /\ \A r \in Peer \ {p} : /\ reader'[r] = reader[r] /\ remote'[r] = remote[r]
                               /\ signaling'[r] = signaling[r]
      /\ remote'[p] = m.from /\ reader[p] # "answering"
      /\ m.type = "offer" => reader'[p] = "answering" /\ signaling[p] = "stable"
      /\ m.type = "answer" => reader'[p] = "idle"
      /\ m.type \in {"offer", "answer"}
  BY <1>1 DEF BaseInv, States, Acceptable
<1>5. CASE m.type = "offer"
  <2>1. \A q \in Peer : Token(m, q) <=> q = m.from
    BY <1>2, <1>5 DEF Token
  <2>2. main[p] # "offering" /\ \A k \in Kind, r \in Peer : ~At(k, r, p)
    BY <1>4, <1>5 DEF TokenInv, Waits
  <2>3. m.from # p
    BY <1>3, <2>1, <2>2 DEF Kind
  <2>4. ASSUME NEW q \in Peer PROVE InOnePlace(q)' /\ Waits(q)'
    <3>1. \A k \in Kind, r \in Peer :
            At(k, r, q)' => At(k, r, q) \/ (Token(m, q) /\ k = "reader" /\ r = p)
      BY <1>1, <1>3, <1>4, <2>1 DEF At
    <3>2. InOnePlace(q)'
      <4>1. CASE Token(m, q)
        <5>1. "inbox" \in Kind
          BY DEF Kind
        <5> QED BY <1>3, <3>1, <4>1, <5>1, TokenMoves DEF TokenInv
      <4>2. CASE ~Token(m, q)
        BY <3>1, <4>2, TokenStays DEF TokenInv
      <4> QED BY <4>1, <4>2
    <3>3. Waits(q)'
      <4>1. CASE q = p
        BY <1>1, <2>1, <2>2, <2>3, <3>1, <4>1 DEF Waits
      <4>2. CASE q # p
        <5>1. \A k \in Kind, r \in Peer : At(k, r, q)' => \E j \in Kind, o \in Peer : At(j, o, q)
          BY <1>3, <3>1 DEF Kind
        <5> QED BY <1>1, <1>4, <4>2, <5>1 DEF TokenInv, Waits
      <4> QED BY <4>1, <4>2
    <3> QED BY <3>2, <3>3
  <2> QED BY <1>3, <2>4 DEF TokenInv
<1>6. CASE m.type = "answer"
  <2>1. Token(m, p)
    BY <1>2, <1>6 DEF Token
  <2>2. \A q \in Peer : \A k \in Kind, r \in Peer : At(k, r, q)' => At(k, r, q)
    BY <1>1, <1>3, <1>4, <1>6 DEF At
  <2>3. \A k \in Kind, r \in Peer : ~At(k, r, p)'
    <3> SUFFICES ASSUME NEW k \in Kind, NEW r \in Peer, At(k, r, p)', At(k, r, p)
                 PROVE  FALSE
      BY <2>2
    <3>1. k = "inbox" /\ r = p
      BY <1>3, <2>1 DEF TokenInv, InOnePlace, Kind
    <3> QED BY <1>3, <2>1, <3>1
  <2>4. main[p] = "waiting"
    BY <1>3, <2>1 DEF TokenInv, Waits, Kind
  <2>5. Waits(p)'
    BY <1>1, <2>3, <2>4 DEF Waits
  <2>6. \A q \in Peer \ {p} : Waits(q)'
    BY <1>1, <1>4, <2>2 DEF TokenInv, Waits
  <2>7. \A q \in Peer : InOnePlace(q)'
    BY <2>2, TokenStays DEF TokenInv
  <2> QED BY <1>3, <2>5, <2>6, <2>7 DEF TokenInv
<1> QED BY <1>4, <1>5, <1>6

\* The offer becomes the answer.
LEMMA TokenAnswers ==
  ASSUME BaseInv, TokenInv, NEW p \in Peer, CreateAnswer(p)
  PROVE  TokenInv'
<1>1. PICK c \in Peer : c = remote[p] /\ c \in Offerer /\ signaling[p] = "have-remote-offer"
  BY NegotiationAssumption DEF CreateAnswer, BaseInv, Targets
<1> DEFINE m == Sdp("answer", p, c)
<1>2. /\ reader[p] = "answering" /\ reader' = [reader EXCEPT ![p] = "idle"]
      /\ signaling' = [signaling EXCEPT ![p] = "stable"]
      /\ outbox' = [outbox EXCEPT ![p] = Append(outbox[p], m)]
      /\ UNCHANGED <<remote, main, wire, inbox>>
      /\ outbox \in [Peer -> Seq(Message)] /\ reader \in [Peer -> {"idle", "answering"}]
  BY <1>1 DEF CreateAnswer, BaseInv, Frames, States
<1>3. m \in Message /\ m.type = "answer" /\ m.to = c
  BY <1>1 DEF Sdp, Message
<1>4. \A q \in Peer : Token(m, q) <=> q = c
  BY <1>3 DEF Token
<1>5. At("reader", p, c)
  BY <1>1, <1>2 DEF At
<1> HIDE DEF m
<1>6. ~At("reader", p, c)' /\ "reader" \in Kind /\ "outbox" \in Kind
  BY <1>2 DEF At, Kind
<1>7. ~Holds(outbox[p], c)
  <2>1. ~At("outbox", p, c)
    BY <1>1, <1>5, <1>6 DEF TokenInv, InOnePlace
  <2> QED BY <2>1 DEF At
<1>8. /\ outbox'[p] = Append(outbox[p], m) /\ \A r \in Peer \ {p} : outbox'[r] = outbox[r]
      /\ reader'[p] = "idle" /\ \A r \in Peer \ {p} : reader'[r] = reader[r]
  BY <1>2
<1>9. \A q \in Peer : /\ Holds(outbox'[p], q) <=> Holds(outbox[p], q) \/ q = c
                      /\ Once(outbox'[p], q)
  BY <1>2, <1>3, <1>4, <1>7, <1>8, TokenAppend DEF TokenInv, InOneFrame
<1>10. \A k \in Kind, r, q \in Peer :
         At(k, r, q)' => At(k, r, q) \/ (q = c /\ k = "outbox" /\ r = p)
  BY <1>2, <1>8, <1>9 DEF At
<1>11. InOnePlace(c)'
  <2>1. \A k \in Kind, r \in Peer : At(k, r, c)' => At(k, r, c) \/ (k = "outbox" /\ r = p)
    BY <1>10
  <2> QED BY <1>5, <1>6, <2>1, TokenMoves DEF TokenInv
<1>12. \A q \in Peer \ {c} : InOnePlace(q)'
  BY <1>10, TokenStays DEF TokenInv
<1>13. \A q \in Peer : InOneFrame(q)'
  BY <1>2, <1>8, <1>9 DEF TokenInv, InOneFrame
<1>14. \A q \in Peer : Waits(q)'
  <2>1. c # p /\ main[p] # "offering" /\ \A k \in Kind, r \in Peer : ~At(k, r, p)
    BY <1>1, <1>5, <1>6 DEF TokenInv, Waits
  <2>2. Waits(p)'
    BY <1>2, <1>10, <2>1 DEF Waits
  <2>3. \A q \in Peer \ {p} : Waits(q)'
    <3>1. \A q \in Peer \ {p} : signaling'[q] = signaling[q]
      BY <1>2 DEF BaseInv, States
    <3>2. \A q \in Peer : \A k \in Kind, r \in Peer :
            At(k, r, q)' => \E j \in Kind, o \in Peer : At(j, o, q)
      BY <1>5, <1>6, <1>10
    <3> QED BY <1>2, <3>1, <3>2 DEF TokenInv, Waits
  <2> QED BY <2>2, <2>3
<1> QED BY <1>11, <1>12, <1>13, <1>14 DEF TokenInv

LEMMA TokenStep ==
  ASSUME BaseInv, TokenInv, [Next]_vars
  PROVE  TokenInv'
<1>1. ASSUME NEW p \in Peer, Reads(p) PROVE TokenInv'
  BY <1>1, TokenDescribes, TokenDrops, TokenAnswers DEF Reads
<1>2. CASE Next
  BY <1>1, <1>2, TokenMain, TokenOffers, TokenWrites, TokenForwards DEF Next, Offers
<1>3. CASE UNCHANGED vars
  <2>1. UNCHANGED <<outbox, wire, inbox, reader, remote, main, signaling>>
    BY <1>3 DEF vars, pcVars
  <2> QED BY <2>1, TokenUnmoved DEF TokenInv, Waits
<1> QED BY <1>2, <1>3

LEMMA TokenInvariance == Spec => []TokenInv
<1> QED BY TokenInit, TokenStep, BaseInvariance, PTL DEF Spec

\* However many peers call each other at once: an answer that reaches a peer comes
\* from the peer it called, while it waits for it.
THEOREM AnswersFindTheirOffer == Spec => []AnswersAreAwaited
<1>1. BaseInv /\ TokenInv => AnswersAreAwaited
  <2> SUFFICES ASSUME BaseInv, TokenInv, NEW p \in Peer, NEW i \in DOMAIN inbox[p],
                      inbox[p][i].type = "answer"
               PROVE  /\ p \in Offerer /\ inbox[p][i].from = Target[p]
                      /\ signaling[p] = "have-local-offer"
    BY DEF AnswersAreAwaited
  <2>1. inbox[p] \in Seq(Delivered(p)) /\ DOMAIN inbox[p] = 1..Len(inbox[p])
    BY DEF BaseInv, Frames
  <2>2. inbox[p][i] \in Delivered(p)
    BY <2>1
  <2>3. inbox[p][i].to = p /\ inbox[p][i] \in Sent(inbox[p][i].from)
    BY <2>2 DEF Delivered
  <2>4. p \in Offerer /\ inbox[p][i].from = Target[p]
    BY <2>3 DEF Sent
  <2>5. At("inbox", p, p) /\ "inbox" \in Kind
    BY <2>1, <2>3 DEF At, Holds, Elements, Token, Kind
  <2> QED BY <2>4, <2>5 DEF TokenInv, Waits
<1> QED BY <1>1, BaseInvariance, TokenInvariance, PTL

-----------------------------------------------------------------------------
(***************************************************************************)
(* The peers implement the calls.                                          *)
(***************************************************************************)
Taken(p)   == \E q \in Peer : reader[q] = "answering" /\ remote[q] = p
Asked(p)   == \E m \in Flying : m.type = "offer" /\ m.from = p
Replied(p) == \E m \in Flying : m.type = "answer" /\ m.to = p
Local(p)   == signaling[p] = "have-local-offer"

\* pion's state shows what main and the read pump are doing.
Roles == \A p \in Peer :
           /\ signaling[p] = "have-remote-offer" => reader[p] = "answering"
           /\ Local(p) => main[p] \in {"offering", "waiting"}

CallsInv == BaseInv /\ TokenInv /\ Roles

\* The phase of a call, one condition for each.
PhaseOf(p) ==
  /\ Phase(p) \in {"none", "failed", "established", "accepted", "ringing", "answered", "refused"}
  /\ Phase(p) = "none" <=> main[p] \in {"prompt", "targeted", "answering"}
  /\ Phase(p) = "failed" <=> main[p] = "fatal"
  /\ Phase(p) = "established" <=> main[p] = "waiting" /\ ~Local(p)
  /\ Phase(p) = "accepted" <=> Taken(p)
  /\ Phase(p) = "ringing" <=> main[p] = "offering" \/ Asked(p)
  /\ Phase(p) = "answered" <=> Replied(p)
PhaseIs == \A p \in Peer : PhaseOf(p)

LEMMA RolesInit == Init => Roles
<1> QED BY DEF Init, Roles, Local

LEMMA RolesStep ==
  ASSUME BaseInv, TokenInv, Roles, [Next]_vars
  PROVE  Roles'
<1> USE DEF Roles, Local
<1> SUFFICES ASSUME NEW q \in Peer
             PROVE  /\ signaling'[q] = "have-remote-offer" => reader'[q] = "answering"
                    /\ signaling'[q] = "have-local-offer" => main'[q] \in {"offering", "waiting"}
  OBVIOUS
<1>1. /\ signaling \in [Peer -> {"stable", "have-local-offer", "have-remote-offer"}]
      /\ main \in [Peer -> {"prompt", "targeted", "offering", "waiting", "fatal", "answering"}]
      /\ reader \in [Peer -> {"idle", "answering"}]
  BY DEF BaseInv, States
<1>2. ASSUME NEW p \in Peer, SetTargetID(p) \/ GatheringComplete(p) \/ OnICECandidate(p)
                             \/ WriteSdp(p) \/ Forward(p)
      PROVE  UNCHANGED <<signaling, reader>> /\ \/ UNCHANGED main
                                                \/ /\ main[p] = "prompt"
                                                   /\ main' = [main EXCEPT ![p] = "targeted"]
  BY <1>2 DEF SetTargetID, GatheringComplete, OnICECandidate, WriteSdp, Forward, pcVars
<1>3. ASSUME NEW p \in Peer, Offers(p)
      PROVE  /\ UNCHANGED reader /\ main' = [main EXCEPT ![p] = main'[p]]
             /\ signaling' = [signaling EXCEPT ![p] = signaling'[p]]
             /\ \/ main'[p] \in {"offering", "waiting"} /\ signaling'[p] # "have-remote-offer"
                \/ main[p] = "targeted" /\ UNCHANGED signaling
  <2>1. main[p] = "offering" => signaling[p] = "have-local-offer"
    BY DEF TokenInv, Waits
  <2> QED BY <1>1, <1>3, <2>1 DEF Offers, CreateOffer, SendOffer, pcVars
<1>4. ASSUME NEW p \in Peer, SetRemoteDescription(p) \/ CreateAnswer(p)
      PROVE  /\ UNCHANGED main /\ reader' = [reader EXCEPT ![p] = reader'[p]]
             /\ signaling' = [signaling EXCEPT ![p] = signaling'[p]]
             /\ signaling'[p] # "have-local-offer"
             /\ signaling'[p] = "have-remote-offer" => reader'[p] = "answering"
  BY <1>1, <1>4 DEF SetRemoteDescription, CreateAnswer
<1>5. ASSUME NEW p \in Peer, SetRemoteDescriptionFails(p) \/ AddICECandidate(p)
      PROVE  UNCHANGED <<signaling, reader, main>>
  BY <1>5 DEF SetRemoteDescriptionFails, AddICECandidate, pcVars
<1>6. CASE UNCHANGED vars
  BY <1>6 DEF vars, pcVars
<1> QED BY <1>1, <1>2, <1>3, <1>4, <1>5, <1>6 DEF Next, Reads

LEMMA CallsInvariance == Spec => []CallsInv
<1>1. Init => Roles
  BY RolesInit
<1>2. BaseInv /\ TokenInv /\ Roles /\ [Next]_vars => Roles'
  BY RolesStep
<1>3. Spec => []Roles
  BY <1>1, <1>2, BaseInvariance, TokenInvariance, PTL DEF Spec
<1> QED BY <1>3, BaseInvariance, TokenInvariance, PTL DEF CallsInv

\* A call that is taken is taken by its target.
LEMMA TakenFacts ==
  ASSUME BaseInv, NEW p \in Peer
  PROVE  Taken(p) <=> /\ p \in Offerer /\ reader[Target[p]] = "answering"
                      /\ remote[Target[p]] = p
<1> QED BY NegotiationAssumption DEF BaseInv, Targets, Taken

\* There is one token of each call, so these exclude each other.
LEMMA TokenFacts ==
  ASSUME BaseInv, TokenInv, NEW p \in Peer
  PROVE  /\ Taken(p) \/ Asked(p) \/ Replied(p) => main[p] = "waiting" /\ Local(p)
         /\ ~(Taken(p) /\ Asked(p)) /\ ~(Taken(p) /\ Replied(p)) /\ ~(Asked(p) /\ Replied(p))
<1>1. ASSUME NEW m \in Flying, Token(m, p)
      PROVE  \E k \in Kind \ {"reader"}, r \in Peer :
               /\ At(k, r, p)
               /\ m \in Elements(IF k = "outbox" THEN outbox[r]
                                 ELSE IF k = "wire" THEN wire[r] ELSE inbox[r])
  <2>1. PICK r \in Peer : m \in Elements(outbox[r]) \cup Elements(wire[r]) \cup Elements(inbox[r])
    BY DEF Flying
  <2>2. CASE m \in Elements(outbox[r])
    BY <1>1, <2>2 DEF At, Holds, Kind
  <2>3. CASE m \in Elements(wire[r])
    BY <1>1, <2>3 DEF At, Holds, Kind
  <2>4. CASE m \in Elements(inbox[r])
    BY <1>1, <2>4 DEF At, Holds, Kind
  <2> QED BY <2>1, <2>2, <2>3, <2>4
<1>2. Taken(p) => \E r \in Peer : At("reader", r, p)
  BY DEF Taken, At
<1>3. \A m \in Flying : /\ m.type = "offer" /\ m.from = p => Token(m, p)
                        /\ m.type = "answer" /\ m.to = p => Token(m, p)
  BY DEF Token
<1>4. Taken(p) => ~\E m \in Flying : Token(m, p)
  BY <1>1, <1>2 DEF TokenInv, InOnePlace, Kind
<1>5. ASSUME NEW m \in Flying, NEW o \in Flying, Token(m, p), Token(o, p) PROVE m = o
  <2>1. PICK k \in Kind \ {"reader"}, r \in Peer :
          /\ At(k, r, p)
          /\ m \in Elements(IF k = "outbox" THEN outbox[r]
                            ELSE IF k = "wire" THEN wire[r] ELSE inbox[r])
    BY <1>1, <1>5
  <2>2. PICK l \in Kind \ {"reader"}, q \in Peer :
          /\ At(l, q, p)
          /\ o \in Elements(IF l = "outbox" THEN outbox[q]
                            ELSE IF l = "wire" THEN wire[q] ELSE inbox[q])
    BY <1>1, <1>5
  <2>3. k = l /\ q = r
    BY <2>1, <2>2 DEF TokenInv, InOnePlace
  <2> DEFINE s == IF k = "outbox" THEN outbox[r] ELSE IF k = "wire" THEN wire[r] ELSE inbox[r]
  <2>4. Once(s, p)
    BY DEF TokenInv, InOneFrame
  <2>5. m \in Elements(s) /\ o \in Elements(s)
    BY <2>1, <2>2, <2>3
  <2> HIDE DEF s
  <2> QED BY <1>5, <2>4, <2>5 DEF Once, Elements
<1>6. ~(Asked(p) /\ Replied(p))
  BY <1>3, <1>5 DEF Asked, Replied
<1>7. Taken(p) \/ Asked(p) \/ Replied(p) => \E k \in Kind, r \in Peer : At(k, r, p)
  BY <1>1, <1>2, <1>3 DEF Asked, Replied, Kind
<1>8. Taken(p) \/ Asked(p) \/ Replied(p) => main[p] = "waiting" /\ Local(p)
  BY <1>7 DEF TokenInv, Waits, Local
<1> QED BY <1>3, <1>4, <1>6, <1>8 DEF Asked, Replied

LEMMA PhaseFacts == CallsInv => PhaseIs
<1> SUFFICES ASSUME CallsInv, NEW p \in Peer PROVE PhaseOf(p)
  BY DEF PhaseIs
<1>1. main[p] \in {"prompt", "targeted", "offering", "waiting", "fatal", "answering"}
  BY DEF CallsInv, BaseInv, States
<1>2. Phase(p) =
        CASE main[p] \in {"prompt", "targeted", "answering"} -> "none"
          [] main[p] = "fatal" -> "failed"
          [] main[p] = "waiting" /\ ~Local(p) -> "established"
          [] Taken(p) -> "accepted"
          [] main[p] = "offering" \/ Asked(p) -> "ringing"
          [] Replied(p) -> "answered"
          [] OTHER -> "refused"
  BY DEF Phase, Local, Taken, Asked, Replied
<1> QED BY <1>1, <1>2, TokenFacts DEF CallsInv, PhaseOf

\* A peer is free for a call exactly when pion would accept an offer.
LEMMA FreeFacts ==
  ASSUME CallsInv, NEW q \in Peer, main[q] # "fatal"
  PROVE  C!Up(q) /\ (C!Free(q) <=> signaling[q] = "stable")
<1>1. PhaseOf(q) /\ \A r \in Peer : Phase(r) = "accepted" <=> Taken(r)
  BY PhaseFacts DEF PhaseIs, PhaseOf
<1>2. C!Up(q)
  BY <1>1 DEF C!Up, PhaseOf
<1>3. signaling[q] = "have-local-offer" <=> Phase(q) \in C!Pending
  BY <1>1, TokenFacts DEF CallsInv, Roles, BaseInv, States, PhaseOf, C!Pending, Local, TokenInv, Waits
<1>4. C!Answers(q) => signaling[q] = "have-remote-offer"
  <2> SUFFICES ASSUME NEW r \in Offerer, Target[r] = q, Phase(r) = "accepted"
               PROVE  signaling[q] = "have-remote-offer"
    BY NegotiationAssumption DEF C!Answers
  <2> QED BY <1>1, TakenFacts, NegotiationAssumption DEF CallsInv, BaseInv, Targets
<1>5. signaling[q] = "have-remote-offer" => C!Answers(q)
  <2> HAVE signaling[q] = "have-remote-offer"
  <2>1. /\ reader[q] = "answering" /\ remote[q] \in Offerer /\ Target[remote[q]] = q
    BY DEF CallsInv, Roles, BaseInv, Targets
  <2>2. Taken(remote[q]) /\ remote[q] \in Peer
    BY <2>1, NegotiationAssumption DEF Taken
  <2> QED BY <1>1, <2>1, <2>2 DEF C!Answers
<1> QED BY <1>2, <1>3, <1>4, <1>5 DEF C!Free, CallsInv, BaseInv, States

\* The call of q stays in its phase; only the call of p changes; no call does.
LEMMA PhaseKept ==
  ASSUME PhaseIs, PhaseIs', NEW q \in Peer, main'[q] = main[q], Local(q)' <=> Local(q),
         Taken(q)' <=> Taken(q), Asked(q)' <=> Asked(q), Replied(q)' <=> Replied(q)
  PROVE  Phase(q)' = Phase(q)
<1> QED BY DEF PhaseIs, PhaseOf

LEMMA CallMoves ==
  ASSUME NEW p \in Peer, NEW x, Phase(p)' = x, \A q \in Peer \ {p} : Phase(q)' = Phase(q)
  PROVE  C!Becomes(p, x)
<1> QED BY DEF C!Becomes

LEMMA CallsKept ==
  ASSUME \A q \in Peer : Phase(q)' = Phase(q), UNCHANGED remote
  PROVE  UNCHANGED C!vars
<1> QED BY DEF C!vars

\* What is under way, when a frame appears, moves on, or is consumed.
LEMMA FrameAppears ==
  ASSUME Frames, NEW p \in Peer, NEW m \in Message, UNCHANGED inbox,
         \/ outbox' = [outbox EXCEPT ![p] = Append(outbox[p], m)] /\ UNCHANGED wire
         \/ wire' = [wire EXCEPT ![p] = Append(wire[p], m)] /\ UNCHANGED outbox
  PROVE  Flying' = Flying \cup {m}
<1>1. /\ Elements(Append(outbox[p], m)) = Elements(outbox[p]) \cup {m}
      /\ Elements(Append(wire[p], m)) = Elements(wire[p]) \cup {m}
  <2> outbox[p] \in Seq(Message) /\ wire[p] \in Seq(Message)
    BY DEF Frames
  <2> QED BY Appended
<1>2. CASE outbox' = [outbox EXCEPT ![p] = Append(outbox[p], m)] /\ UNCHANGED wire
  <2>1. /\ Elements(outbox'[p]) = Elements(outbox[p]) \cup {m}
        /\ \A q \in Peer \ {p} : outbox'[q] = outbox[q]
    BY <1>1, <1>2 DEF Frames
  <2> QED BY <1>2, <2>1 DEF Flying
<1>3. CASE wire' = [wire EXCEPT ![p] = Append(wire[p], m)] /\ UNCHANGED outbox
  <2>1. /\ Elements(wire'[p]) = Elements(wire[p]) \cup {m}
        /\ \A q \in Peer \ {p} : wire'[q] = wire[q]
    BY <1>1, <1>3 DEF Frames
  <2> QED BY <1>3, <2>1 DEF Flying
<1> QED BY <1>2, <1>3

LEMMA FrameMoves ==
  ASSUME BaseInv, NEW p \in Peer, WriteSdp(p) \/ Forward(p)
  PROVE  Flying' = Flying
<1>1. /\ outbox \in [Peer -> Seq(Message)] /\ wire \in [Peer -> Seq(Message)]
      /\ inbox \in [Peer -> Seq(Message)]
  BY DEF BaseInv, Frames
<1>2. CASE WriteSdp(p)
  <2> DEFINE m == Head(outbox[p])
  <2>1. m \in Message
    BY <1>1, <1>2, QueueTypes DEF WriteSdp
  <2>2. Elements(outbox[p]) = Elements(Tail(outbox[p])) \cup {m}
    BY <1>1, <1>2, ElementsTail DEF WriteSdp
  <2>3. Elements(Append(wire[p], m)) = Elements(wire[p]) \cup {m}
    BY <1>1, <2>1, QueueTypes, Appended
  <2>4. /\ wire' = [wire EXCEPT ![p] = Append(wire[p], m)]
        /\ outbox' = [outbox EXCEPT ![p] = Tail(outbox[p])] /\ inbox' = inbox
    BY <1>2 DEF WriteSdp
  <2> HIDE DEF m
  <2>5. /\ Elements(outbox[p]) = Elements(outbox'[p]) \cup {m}
        /\ Elements(wire'[p]) = Elements(wire[p]) \cup {m}
        /\ \A q \in Peer \ {p} : outbox'[q] = outbox[q] /\ wire'[q] = wire[q]
    BY <1>1, <2>2, <2>3, <2>4
  <2> QED BY <2>4, <2>5 DEF Flying
<1>3. CASE Forward(p)
  <2> DEFINE m == Head(wire[p])
  <2>1. wire[p] # <<>> /\ m \in Sent(p)
    BY <1>3, QueueTypes DEF Forward, BaseInv, Frames
  <2>2. PICK r \in Peer : r = m.to
    BY <2>1 DEF Sent
  <2>3. m \in Message
    BY <2>1 DEF Sent
  <2>4. Elements(wire[p]) = Elements(Tail(wire[p])) \cup {m}
    BY <1>1, <2>1, ElementsTail
  <2>5. Elements(Append(inbox[r], m)) = Elements(inbox[r]) \cup {m}
    BY <1>1, <2>3, Appended
  <2>6. /\ inbox' = [inbox EXCEPT ![r] = Append(inbox[r], m)]
        /\ wire' = [wire EXCEPT ![p] = Tail(wire[p])] /\ outbox' = outbox
    BY <1>3, <2>2 DEF Forward
  <2> HIDE DEF m
  <2>7. /\ Elements(wire[p]) = Elements(wire'[p]) \cup {m}
        /\ Elements(inbox'[r]) = Elements(inbox[r]) \cup {m}
        /\ \A q \in Peer \ {p} : wire'[q] = wire[q]
        /\ \A q \in Peer \ {r} : inbox'[q] = inbox[q]
    BY <1>1, <2>4, <2>5, <2>6
  <2> QED BY <2>6, <2>7 DEF Flying
<1> QED BY <1>2, <1>3

LEMMA FrameConsumed ==
  ASSUME BaseInv, TokenInv, NEW p \in Peer, inbox[p] # <<>>, Consumes(p), UNCHANGED <<outbox, wire>>
  PROVE  /\ Head(inbox[p]) \in Flying /\ Flying = Flying' \cup {Head(inbox[p])}
         /\ \A q \in Peer : Token(Head(inbox[p]), q) => ~\E m \in Flying' : Token(m, q)
<1> DEFINE h == Head(inbox[p])
<1>1. /\ inbox \in [Peer -> Seq(Message)] /\ inbox' = [inbox EXCEPT ![p] = Tail(inbox[p])]
  BY DEF BaseInv, Frames, Consumes
<1>2. Elements(inbox[p]) = Elements(Tail(inbox[p])) \cup {h}
  BY <1>1, ElementsTail
<1>3. \A q \in Peer : Token(h, q) => Holds(inbox[p], q) /\ ~Holds(inbox[p], q)'
  BY TokenConsumed
<1> HIDE DEF h
<1>4. /\ Elements(inbox[p]) = Elements(inbox'[p]) \cup {h}
      /\ \A q \in Peer \ {p} : inbox'[q] = inbox[q]
  BY <1>1, <1>2
<1>5. h \in Flying /\ Flying = Flying' \cup {h}
  BY <1>4 DEF Flying
<1>6. ASSUME NEW q \in Peer, Token(h, q), NEW m \in Flying', Token(m, q) PROVE FALSE
  <2>1. At("inbox", p, q) /\ ~Holds(inbox[p], q)'
    BY <1>3, <1>6 DEF At
  <2>2. \A r \in Peer : /\ ~Holds(outbox[r], q) /\ ~Holds(wire[r], q)
                        /\ r # p => ~Holds(inbox[r], q)
    BY <2>1 DEF TokenInv, InOnePlace, At, Kind
  <2>3. PICK r \in Peer : m \in Elements(outbox[r]) \cup Elements(wire[r]) \cup Elements(inbox'[r])
    BY DEF Flying
  <2> QED BY <1>4, <1>6, <2>1, <2>2, <2>3 DEF Holds
<1> QED BY <1>5, <1>6 DEF h

\* Candidates and frames on their way change no call.
LEMMA CallsUntouched ==
  ASSUME BaseInv, PhaseIs, PhaseIs', UNCHANGED <<main, signaling, reader, remote>>,
         \/ Flying' = Flying
         \/ \E m : m.type = "candidate" /\ (Flying' = Flying \cup {m} \/ Flying = Flying' \cup {m})
  PROVE  UNCHANGED C!vars
<1>1. \A q \in Peer : /\ Local(q)' <=> Local(q)
                      /\ Taken(q)' <=> Taken(q)
  BY DEF Local, Taken
<1>2. \A q \in Peer : (Asked(q)' <=> Asked(q)) /\ (Replied(q)' <=> Replied(q))
  BY DEF Asked, Replied
<1>3. \A q \in Peer : Phase(q)' = Phase(q)
  BY <1>1, <1>2, PhaseKept
<1> QED BY <1>3, CallsKept

LEMMA CallsNetwork ==
  ASSUME CallsInv, PhaseIs, PhaseIs', NEW p \in Peer,
         \/ OnICECandidate(p) \/ GatheringComplete(p) \/ WriteSdp(p) \/ Forward(p)
         \/ AddICECandidate(p)
  PROVE  UNCHANGED C!vars
<1>1. UNCHANGED <<main, signaling, reader, remote>>
  BY DEF OnICECandidate, GatheringComplete, WriteSdp, Forward, AddICECandidate, pcVars
<1>2. CASE OnICECandidate(p)
  <2> DEFINE m == [type |-> "candidate", from |-> p, to |-> targetID[p], n |-> gathered'[p]]
  <2>1. /\ wire' = [wire EXCEPT ![p] = Append(wire[p], m)] /\ UNCHANGED <<inbox, outbox>>
        /\ gathered'[p] \in Nat /\ targetID[p] \in Peer
    BY <1>2 DEF OnICECandidate, CallsInv, BaseInv, States, Targets
  <2>2. m \in Message /\ m.type = "candidate"
    BY <2>1 DEF Message
  <2> HIDE DEF m
  <2>3. Flying' = Flying \cup {m}
    BY <2>1, <2>2, FrameAppears DEF CallsInv, BaseInv
  <2> QED BY <1>1, <2>2, <2>3, CallsUntouched DEF CallsInv
<1>3. CASE GatheringComplete(p)
  <2>1. Flying' = Flying
    BY <1>3 DEF GatheringComplete, Flying
  <2> QED BY <1>1, <2>1, CallsUntouched DEF CallsInv
<1>4. CASE WriteSdp(p) \/ Forward(p)
  <2>1. Flying' = Flying
    BY <1>4, FrameMoves DEF CallsInv
  <2> QED BY <1>1, <2>1, CallsUntouched DEF CallsInv
<1>5. CASE AddICECandidate(p)
  <2>1. /\ inbox[p] # <<>> /\ Head(inbox[p]).type = "candidate" /\ Consumes(p)
        /\ UNCHANGED <<outbox, wire>>
    BY <1>5 DEF AddICECandidate, Receives
  <2>2. Flying = Flying' \cup {Head(inbox[p])}
    BY <2>1, FrameConsumed DEF CallsInv
  <2> QED BY <1>1, <2>1, <2>2, CallsUntouched DEF CallsInv
<1> QED BY <1>2, <1>3, <1>4, <1>5

\* main targets, rings or gives up, and sends the offer.
LEMMA CallsMain ==
  ASSUME CallsInv, PhaseIs, PhaseIs', NEW p \in Peer, SetTargetID(p) \/ Offers(p)
  PROVE  UNCHANGED C!vars \/ (p \in Offerer /\ (C!Ring(p) \/ C!GiveUp(p)))
<1>1. /\ main \in [Peer -> {"prompt", "targeted", "offering", "waiting", "fatal", "answering"}]
      /\ signaling \in [Peer -> {"stable", "have-local-offer", "have-remote-offer"}]
  BY DEF CallsInv, BaseInv, States
<1>2. /\ UNCHANGED <<reader, remote>> /\ main' = [main EXCEPT ![p] = main'[p]]
      /\ \A q \in Peer \ {p} : signaling'[q] = signaling[q] /\ main'[q] = main[q]
  BY <1>1 DEF SetTargetID, Offers, CreateOffer, SendOffer, pcVars
<1>3. \A q \in Peer : Taken(q)' <=> Taken(q)
  BY <1>2 DEF Taken
<1>4. ASSUME \A q \in Peer \ {p} : (Asked(q)' <=> Asked(q)) /\ (Replied(q)' <=> Replied(q))
      PROVE  \A q \in Peer \ {p} : Phase(q)' = Phase(q)
  BY <1>2, <1>3, <1>4, PhaseKept DEF Local
<1>5. CASE SetTargetID(p)
  <2>1. Flying' = Flying
    BY <1>5 DEF SetTargetID, Flying
  <2>2. \A q \in Peer \ {p} : Phase(q)' = Phase(q)
    BY <1>4, <2>1 DEF Asked, Replied
  <2>3. main[p] = "prompt" /\ main'[p] = "targeted"
    BY <1>1, <1>5 DEF SetTargetID
  <2>4. Phase(p)' = Phase(p)
    BY <2>3 DEF PhaseIs, PhaseOf
  <2> QED BY <1>2, <2>2, <2>4, CallsKept
<1>6. CASE CreateOffer(p)
  <2>1. Flying' = Flying
    BY <1>6 DEF CreateOffer, Flying
  <2>2. \A q \in Peer \ {p} : Phase(q)' = Phase(q)
    BY <1>4, <2>1 DEF Asked, Replied
  <2>3. /\ main[p] = "targeted" /\ p \in Offerer
        /\ main'[p] = IF signaling[p] = "stable" THEN "offering" ELSE "fatal"
    BY <1>1, <1>6 DEF CreateOffer, CallsInv, BaseInv, Targets
  <2>4. /\ Phase(p) = "none" /\ (C!Free(p) <=> signaling[p] = "stable")
        /\ Phase(p)' = IF signaling[p] = "stable" THEN "ringing" ELSE "failed"
    BY <2>3, FreeFacts DEF PhaseIs, PhaseOf
  <2>5. CASE signaling[p] = "stable"
    <3>1. C!Becomes(p, "ringing")
      BY <2>2, <2>4, <2>5, CallMoves
    <3> QED BY <1>2, <2>3, <2>4, <2>5, <3>1 DEF C!Ring
  <2>6. CASE signaling[p] # "stable"
    <3>1. C!Becomes(p, "failed")
      BY <2>2, <2>4, <2>6, CallMoves
    <3> QED BY <1>2, <2>3, <2>4, <2>6, <3>1 DEF C!GiveUp
  <2> QED BY <2>5, <2>6
<1>7. CASE SendOffer(p)
  <2> DEFINE m == Sdp("offer", p, Target[p])
  <2>1. /\ main[p] = "offering" /\ main'[p] = "waiting" /\ p \in Offerer
        /\ outbox' = [outbox EXCEPT ![p] = Append(outbox[p], m)] /\ UNCHANGED <<wire, inbox>>
    BY <1>1, <1>7 DEF SendOffer, CallsInv, BaseInv, Targets
  <2>2. m \in Message /\ m.type = "offer" /\ m.from = p
    BY <2>1, NegotiationAssumption DEF Sdp, Message
  <2> HIDE DEF m
  <2>3. Flying' = Flying \cup {m}
    BY <2>1, <2>2, FrameAppears DEF CallsInv, BaseInv
  <2>4. \A q \in Peer \ {p} : Phase(q)' = Phase(q)
    BY <1>4, <2>2, <2>3 DEF Asked, Replied
  <2>5. Asked(p)'
    BY <2>2, <2>3 DEF Asked
  <2>6. Phase(p)' = Phase(p)
    BY <2>1, <2>5 DEF PhaseIs, PhaseOf
  <2> QED BY <1>2, <2>4, <2>6, CallsKept
<1> QED BY <1>5, <1>6, <1>7 DEF Offers

\* The description that the read pump of p takes: the token of one call.
LEMMA DescriptionTaken ==
  ASSUME CallsInv, NEW p \in Peer,
         SetRemoteDescription(p) \/ SetRemoteDescriptionFails(p)
  PROVE  LET m == Head(inbox[p])
         IN  /\ m.from \in Peer /\ m.type \in {"offer", "answer"} /\ reader[p] = "idle"
             /\ main[p] # "fatal"
             /\ m.type = "offer" =>
                  /\ m.from \in Offerer /\ Target[m.from] = p /\ Asked(m.from)
                  /\ \A q \in Peer : Asked(q)' <=> Asked(q) /\ q # m.from
                  /\ \A q \in Peer : Replied(q)' <=> Replied(q)
             /\ m.type = "answer" =>
                  /\ p \in Offerer /\ Target[p] = m.from /\ Replied(p)
                  /\ \A q \in Peer : Replied(q)' <=> Replied(q) /\ q # p
                  /\ \A q \in Peer : Asked(q)' <=> Asked(q)
<1> DEFINE m == Head(inbox[p])
<1>1. /\ inbox[p] # <<>> /\ m.type \in {"offer", "answer"} /\ reader[p] = "idle"
      /\ Consumes(p) /\ UNCHANGED <<outbox, wire>> /\ main[p] # "fatal"
  BY DEF SetRemoteDescription, SetRemoteDescriptionFails, Receives, Alive
<1>2. m \in Delivered(p) /\ m \in Message
  BY <1>1, FirstFrame DEF CallsInv, BaseInv
<1>3. /\ m \in Flying /\ Flying = Flying' \cup {m}
      /\ \A q \in Peer : Token(m, q) => ~\E o \in Flying' : Token(o, q)
  BY <1>1, FrameConsumed DEF CallsInv
<1> HIDE DEF m
<1>4. /\ m.from \in Peer
      /\ m.type = "offer" => m.from \in Offerer /\ Target[m.from] = p
      /\ m.type = "answer" => m.to = p /\ p \in Offerer /\ Target[p] = m.from
  BY <1>2 DEF Delivered, Sent, Message
<1>5. CASE m.type = "offer"
  <2> PICK o \in Message : o = m
    BY <1>2
  <2> PICK c \in Peer : c = o.from
    BY <1>4
  <2>1. Token(o, c)
    BY <1>5 DEF Token
  <2>2. Asked(c) /\ ~Asked(c)'
    BY <1>3, <1>5, <2>1 DEF Asked, Token
  <2>3. /\ \A q \in Peer \ {c} : Asked(q)' <=> Asked(q)
        /\ \A q \in Peer : Replied(q)' <=> Replied(q)
    BY <1>3, <1>5 DEF Asked, Replied
  <2> QED BY <1>1, <1>4, <1>5, <2>2, <2>3 DEF m
<1>6. CASE m.type = "answer"
  <2>1. Token(m, p)
    BY <1>4, <1>6 DEF Token
  <2>2. Replied(p) /\ ~Replied(p)'
    BY <1>3, <1>4, <1>6, <2>1 DEF Replied, Token
  <2>3. /\ \A q \in Peer \ {p} : Replied(q)' <=> Replied(q)
        /\ \A q \in Peer : Asked(q)' <=> Asked(q)
    BY <1>3, <1>4, <1>6 DEF Asked, Replied
  <2> QED BY <1>1, <1>4, <1>6, <2>2, <2>3 DEF m
<1> QED BY <1>1, <1>5, <1>6

\* It is accepted: an offer rings no longer, an answer establishes the call.
LEMMA CallsDescribe ==
  ASSUME CallsInv, PhaseIs, PhaseIs', NEW p \in Peer, SetRemoteDescription(p)
  PROVE  \E q \in Offerer : C!Accept(q) \/ C!Establish(q)
<1> PICK m : m = Head(inbox[p])
  OBVIOUS
<1>1. /\ signaling' = [signaling EXCEPT ![p] =
                         IF m.type = "offer" THEN "have-remote-offer" ELSE "stable"]
      /\ reader' = [reader EXCEPT ![p] = IF m.type = "offer" THEN "answering" ELSE "idle"]
      /\ remote' = [remote EXCEPT ![p] = m.from] /\ UNCHANGED main
      /\ m.type = "offer" => signaling[p] = "stable"
  BY DEF SetRemoteDescription, Acceptable
<1>2. /\ m.from \in Peer /\ m.type \in {"offer", "answer"} /\ reader[p] = "idle"
      /\ main[p] # "fatal"
      /\ m.type = "offer" =>
           /\ m.from \in Offerer /\ Target[m.from] = p /\ Asked(m.from)
           /\ \A q \in Peer : Asked(q)' <=> Asked(q) /\ q # m.from
           /\ \A q \in Peer : Replied(q)' <=> Replied(q)
      /\ m.type = "answer" =>
           /\ p \in Offerer /\ Target[p] = m.from /\ Replied(p)
           /\ \A q \in Peer : Replied(q)' <=> Replied(q) /\ q # p
           /\ \A q \in Peer : Asked(q)' <=> Asked(q)
  BY DescriptionTaken
<1>3. /\ reader'[p] = IF m.type = "offer" THEN "answering" ELSE "idle"
      /\ signaling'[p] = IF m.type = "offer" THEN "have-remote-offer" ELSE "stable"
      /\ remote'[p] = m.from
      /\ \A q \in Peer \ {p} : /\ reader'[q] = reader[q] /\ remote'[q] = remote[q]
                               /\ signaling'[q] = signaling[q]
  BY <1>1 DEF CallsInv, BaseInv, States
<1>4. CASE m.type = "offer"
  <2> PICK c \in Offerer : c = m.from
    BY <1>2, <1>4
  <2>1. c \in Peer /\ c # p /\ Local(c) /\ ~Local(p)
    BY <1>1, <1>2, <1>4, TokenFacts DEF CallsInv, Local
  <2>2. Taken(c)' /\ \A q \in Peer \ {c} : Taken(q)' <=> Taken(q)
    BY <1>2, <1>3, <1>4 DEF Taken
  <2>3. \A q \in Peer : Local(q)' <=> Local(q)
    BY <1>3, <1>4, <2>1 DEF Local
  <2>4. \A q \in Peer \ {c} : Phase(q)' = Phase(q)
    BY <1>1, <1>2, <1>4, <2>2, <2>3, PhaseKept
  <2>5. Phase(c) = "ringing" /\ Phase(c)' = "accepted"
    BY <1>2, <1>4, <2>1, <2>2 DEF PhaseIs, PhaseOf
  <2>6. C!Becomes(c, "accepted")
    BY <2>1, <2>4, <2>5, CallMoves
  <2>7. C!Up(p) /\ C!Free(p)
    BY <1>1, <1>2, <1>4, FreeFacts
  <2> QED BY <1>1, <1>2, <1>4, <2>1, <2>5, <2>6, <2>7 DEF C!Accept
<1>5. CASE m.type = "answer"
  <2>1. \A q \in Peer : Taken(q)' <=> Taken(q)
    BY <1>2, <1>3, <1>5 DEF Taken
  <2>2. \A q \in Peer \ {p} : Phase(q)' = Phase(q)
    BY <1>1, <1>2, <1>3, <1>5, <2>1, PhaseKept DEF Local
  <2>3. main[p] = "waiting" /\ ~Local(p)'
    BY <1>2, <1>3, <1>5, TokenFacts DEF CallsInv, Local
  <2>4. Phase(p) = "answered" /\ Phase(p)' = "established"
    BY <1>1, <1>2, <1>5, <2>3 DEF PhaseIs, PhaseOf
  <2>5. C!Becomes(p, "established")
    BY <2>2, <2>4, CallMoves
  <2> QED BY <1>1, <1>2, <1>5, <2>4, <2>5 DEF C!Establish
<1> QED BY <1>2, <1>4, <1>5

\* It is rejected: an offer that rings at a peer that is not free.
LEMMA CallsReject ==
  ASSUME CallsInv, PhaseIs, PhaseIs', NEW p \in Peer, SetRemoteDescriptionFails(p)
  PROVE  \E q \in Offerer : C!Refuse(q)
<1> PICK m : m = Head(inbox[p])
  OBVIOUS
<1>1. UNCHANGED <<main, signaling, reader, remote>> /\ ~Acceptable(p, m)
  BY DEF SetRemoteDescriptionFails, pcVars
<1>2. m.type = "offer"
  <2>1. m.type = "answer" => Replied(p)
    BY DescriptionTaken
  <2>2. Replied(p) => signaling[p] = "have-local-offer"
    BY TokenFacts DEF CallsInv, Local
  <2> QED BY <1>1, <2>1, <2>2, DescriptionTaken DEF Acceptable
<1>3. PICK c \in Offerer : c = m.from
  BY <1>2, DescriptionTaken
<1>4. /\ c \in Peer /\ Target[c] = p /\ Asked(c) /\ ~Asked(c)' /\ main[p] # "fatal"
      /\ \A q \in Peer \ {c} : Asked(q)' <=> Asked(q)
      /\ \A q \in Peer : Replied(q)' <=> Replied(q)
  BY <1>2, <1>3, DescriptionTaken
<1>5. \A q \in Peer : (Taken(q)' <=> Taken(q)) /\ (Local(q)' <=> Local(q))
  BY <1>1 DEF Taken, Local
<1>6. \A q \in Peer \ {c} : Phase(q)' = Phase(q)
  BY <1>1, <1>4, <1>5, PhaseKept
<1>7. main[c] = "waiting" /\ Local(c) /\ ~Taken(c) /\ ~Replied(c)
  BY <1>4, TokenFacts DEF CallsInv
<1>8. Phase(c) = "ringing" /\ Phase(c)' = "refused"
  BY <1>1, <1>4, <1>5, <1>7 DEF PhaseIs, PhaseOf
<1>9. C!Becomes(c, "refused")
  BY <1>4, <1>6, <1>8, CallMoves
<1>10. C!Up(p) /\ ~C!Free(p)
  BY <1>1, <1>2, <1>4, FreeFacts DEF Acceptable
<1> QED BY <1>1, <1>4, <1>8, <1>9, <1>10 DEF C!Refuse

LEMMA CallsAnswer ==
  ASSUME CallsInv, PhaseIs, PhaseIs', NEW p \in Peer, CreateAnswer(p)
  PROVE  \E q \in Offerer : C!Answer(q)
<1>1. PICK c \in Offerer : c = remote[p] /\ Target[c] = p /\ signaling[p] = "have-remote-offer"
  BY DEF CreateAnswer, CallsInv, BaseInv, Targets
<1> DEFINE m == Sdp("answer", p, c)
<1>2. /\ main[p] # "fatal" /\ reader[p] = "answering" /\ reader' = [reader EXCEPT ![p] = "idle"]
      /\ signaling' = [signaling EXCEPT ![p] = "stable"]
      /\ outbox' = [outbox EXCEPT ![p] = Append(outbox[p], m)]
      /\ UNCHANGED <<remote, main, wire, inbox>>
  BY <1>1 DEF CreateAnswer, Alive
<1>3. c \in Peer /\ m \in Message /\ m.type = "answer" /\ m.to = c
  BY <1>1, NegotiationAssumption DEF Sdp, Message
<1> HIDE DEF m
<1>4. Flying' = Flying \cup {m}
  BY <1>2, <1>3, FrameAppears DEF CallsInv, BaseInv
<1>5. /\ reader'[p] = "idle" /\ signaling'[p] = "stable"
      /\ \A q \in Peer \ {p} : reader'[q] = reader[q] /\ signaling'[q] = signaling[q]
  BY <1>2 DEF CallsInv, BaseInv, States
<1>6. /\ Replied(c)' /\ \A q \in Peer \ {c} : Replied(q)' <=> Replied(q)
      /\ \A q \in Peer : (Asked(q)' <=> Asked(q)) /\ (Local(q)' <=> Local(q))
  BY <1>1, <1>3, <1>4, <1>5 DEF Asked, Replied, Local
<1>7. Taken(c) /\ \A q \in Peer \ {c} : Taken(q)' <=> Taken(q)
  BY <1>1, <1>2, <1>5 DEF Taken
<1>8. \A q \in Peer \ {c} : Phase(q)' = Phase(q)
  BY <1>2, <1>6, <1>7, PhaseKept
<1>9. Phase(c) = "accepted" /\ Phase(c)' = "answered"
  BY <1>3, <1>6, <1>7 DEF PhaseIs, PhaseOf
<1>10. C!Becomes(c, "answered")
  BY <1>3, <1>8, <1>9, CallMoves
<1>11. C!Up(p)
  BY <1>2, FreeFacts
<1> QED BY <1>1, <1>2, <1>3, <1>9, <1>10, <1>11 DEF C!Answer

LEMMA CallsStep ==
  ASSUME CallsInv, PhaseIs, PhaseIs', [Next]_vars
  PROVE  [C!Next]_C!vars
<1>1. ASSUME NEW p \in Peer, Reads(p) PROVE C!Next \/ UNCHANGED C!vars
  BY <1>1, CallsDescribe, CallsReject, CallsAnswer, CallsNetwork DEF Reads, C!Next
<1>2. CASE Next
  BY <1>1, <1>2, CallsMain, CallsNetwork DEF Next, C!Next
<1>3. CASE UNCHANGED vars
  <2>1. UNCHANGED <<main, signaling, reader, remote>> /\ Flying' = Flying
    BY <1>3 DEF vars, pcVars, Flying
  <2> QED BY <2>1, CallsUntouched DEF CallsInv
<1> QED BY <1>2, <1>3

LEMMA CallsInit == Init /\ PhaseIs => C!Init
<1> SUFFICES ASSUME Init, PhaseIs PROVE C!Init
  OBVIOUS
<1>1. \A p \in Peer : main[p] \in {"prompt", "targeted", "answering"}
  BY DEF Init
<1>2. \A p \in Peer : Phase(p) = "none"
  BY <1>1 DEF PhaseIs, PhaseOf
<1> QED BY <1>2 DEF Init, C!Init

\* The peers, with their goroutines, queues and messages, implement the calls.
THEOREM NegotiationImplementsCalls == Spec => ImplementsCalls
<1>1. CallsInv => PhaseIs
  BY PhaseFacts
<1>2. CallsInv /\ PhaseIs /\ PhaseIs' /\ [Next]_vars => [C!Next]_C!vars
  BY CallsStep
<1> QED BY <1>1, <1>2, CallsInit, CallsInvariance, PTL DEF Spec, ImplementsCalls, C!Spec
=============================================================================
