--------------------------- MODULE SignalingProofs ---------------------------
(***************************************************************************)
(* Theorems about the signaling server, for any websockets, clients and    *)
(* messages.  The server drives the hub through its calls alone, so what   *)
(* HubProofs shows of the hub holds of the server.                         *)
(***************************************************************************)
EXTENDS Signaling, HubProofs

-----------------------------------------------------------------------------
(***************************************************************************)
(* The server runs the hub.                                                *)
(***************************************************************************)
\* The server never unregisters a client, broadcasts, or stops its hub.
ServerInv == /\ ctx \in {"unset", "live"} /\ stop = "no" /\ panicked = FALSE
             /\ unregister = <<>> /\ broadcast = <<>>
             /\ run \in {"off", "select", "sending"}

\* A websocket or its write pump gives up: what was written, and the hub, stay.
GivesUp(k) == WriteResponseFails(k) \/ PingFails(k) \/ Disconnect(k)

LEMMA GivesUpUnmoved ==
  ASSUME NEW k \in Caller, GivesUp(k)
  PROVE  UNCHANGED <<vars, answering, wire, relayed, notFound, failed>>
BY DEF GivesUp, WriteResponseFails, PingFails, Disconnect

LEMMA ServerIsHub == ASSUME ServerInv, [SigNext]_sigVars PROVE [Next]_vars
<1>1. ASSUME NEW k \in Caller, HandlesRequest(k) PROVE [Next]_vars
  <2>1. ASSUME NEW c \in Client, RegisterRequest(k, c) PROVE Next
    BY <2>1 DEF RegisterRequest, Next, Calls, ServerInv
  <2>2. ASSUME NEW id \in Id, RelayRequest(k, id) PROVE Next
    <3>1. <<id>> \in TargetLists
      BY SignalingAssumption
    <3> QED BY <2>2, <3>1 DEF RelayRequest, Next, Calls, ServerInv
  <2>3. ASSUME Relay(k) \/ RequestFails(k) \/ RequestCounted(k) PROVE Next
    BY <2>3 DEF Relay, RequestFails, RequestCounted, Next, Calls, ServerInv
  <2>4. ASSUME Respond(k) PROVE UNCHANGED vars
    BY <2>4 DEF Respond
  <2> QED BY <1>1, <2>1, <2>2, <2>3, <2>4 DEF HandlesRequest
<1>2. ASSUME NEW k \in Caller, WriteResponse(k) \/ GivesUp(k) PROVE UNCHANGED vars
  BY <1>2, GivesUpUnmoved DEF WriteResponse
<1>3. CASE HubStep
  BY <1>3 DEF HubStep, TakeRegister, TakeSendTo, WriteRelay, WriteRelayFails, Next, Run, Serve,
    ServerInv
<1>4. CASE StartHub
  BY <1>4 DEF StartHub, Next, ServerInv
<1>5. CASE UNCHANGED sigVars
  BY <1>5 DEF sigVars
<1> QED BY <1>1, <1>2, <1>3, <1>4, <1>5 DEF SigNext, WritePump, GivesUp

LEMMA ServerStep == ASSUME ServerInv, [SigNext]_sigVars PROVE ServerInv'
<1> USE DEF ServerInv
<1>1. ASSUME NEW k \in Caller, HandlesRequest(k) \/ WriteResponse(k) \/ GivesUp(k)
      PROVE  ServerInv'
  <2>1. UNCHANGED <<ctx, stop, panicked, unregister, broadcast, run>>
    BY <1>1, GivesUpUnmoved DEF HandlesRequest, RegisterRequest, Register, RelayRequest,
      BeginSendTo, Relay, SendTo, RequestFails, SendToRefused, RequestCounted, CountReceived,
      Respond, WriteResponse, vars, queueVars, runVars, stopVars, linkVars
  <2> QED BY <2>1
<1>2. CASE HubStep
  BY <1>2 DEF HubStep, TakeRegister, HandleRegister, TakeSendTo, HandleSendTo, WriteRelay,
    Deliver, WriteRelayFails, DeliverFails, Served, queueVars, runVars, stopVars
<1>3. CASE StartHub
  BY <1>3 DEF StartHub, Start, queueVars
<1>4. CASE UNCHANGED sigVars
  BY <1>4 DEF sigVars, vars, queueVars, runVars, stopVars
<1> QED BY <1>1, <1>2, <1>3, <1>4 DEF SigNext, WritePump, GivesUp

LEMMA ServerInvariance == SigSpec => []ServerInv
<1>1. SigInit => ServerInv
  BY DEF SigInit, Init, ServerInv
<1> QED BY <1>1, ServerStep, PTL DEF SigSpec

\* Whatever websockets connect, send and disconnect, the server drives the hub by
\* its calls alone: every theorem about the hub is one about the server.
THEOREM ServerRunsHub == SigSpec => Spec
<1>1. SigInit => Init
  BY DEF SigInit
<1>2. ServerInv /\ [SigNext]_sigVars => [Next]_vars
  BY ServerIsHub
<1> QED BY <1>1, <1>2, ServerInvariance, PTL DEF SigSpec, Spec

-----------------------------------------------------------------------------
(***************************************************************************)
(* Types.                                                                  *)
(***************************************************************************)
LEMMA SequenceTypes ==
  ASSUME NEW S, NEW s \in Seq(S)
  PROVE  /\ s # <<>> => Head(s) \in S /\ Tail(s) \in Seq(S)
         /\ \A d \in S : Append(s, d) \in Seq(S)
<1> QED OBVIOUS

LEMMA SigTypeStep == ASSUME TypeOK, SigTypeOK, [SigNext]_sigVars PROVE SigTypeOK'
<1> USE DEF SigTypeOK
<1>1. ASSUME NEW k \in Caller, HandlesRequest(k) PROVE SigTypeOK'
  <2>1. ASSUME NEW c \in Client, RegisterRequest(k, c) PROVE SigTypeOK'
    BY <2>1 DEF RegisterRequest
  <2>2. ASSUME NEW id \in Id, RelayRequest(k, id) PROVE SigTypeOK'
    BY <2>2 DEF RelayRequest, linkVars
  <2>3. CASE Relay(k)
    <3> DEFINE r == [from |-> k, to |-> Head(pending[k]),
                     filed |-> {clients[Head(pending[k])]} \ {NoClient},
                     early |-> clients[Head(pending[k])] = NoClient
                       /\ \E c \in Confirmed :
                            IDOf[c] = Head(pending[k]) /\ link[ConnOf[c]] # "down"]
    <3>1. /\ relayed' = Append(relayed, r)
          /\ UNCHANGED <<link, answering, outbox, wire, notFound, failed>>
      BY <2>3 DEF Relay
    <3>2. Head(pending[k]) \in Id
      BY <2>3, SequenceTypes DEF Relay, SendTo, TypeOK
    <3>3. r \in [from : Caller, to : Id, filed : SUBSET Client, early : BOOLEAN]
      <4>1. clients[Head(pending[k])] \in Client \cup {NoClient}
        BY <3>2 DEF TypeOK
      <4> QED BY <3>2, <4>1
    <3> HIDE DEF r
    <3> QED BY <3>1, <3>3, SequenceTypes
  <2>4. CASE RequestFails(k) \/ RequestCounted(k)
    BY <2>4 DEF RequestFails, RequestCounted, linkVars
  <2>5. CASE Respond(k)
    <3>1. answering[k] \in Client
      BY <2>5 DEF Respond, Owes
    <3>2. Append(outbox[k], answering[k]) \in Seq(Client)
      BY <3>1, SequenceTypes
    <3> QED BY <2>5, <3>2 DEF Respond
  <2> QED BY <1>1, <2>1, <2>2, <2>3, <2>4, <2>5 DEF HandlesRequest
<1>2. ASSUME NEW k \in Caller, WriteResponse(k) PROVE SigTypeOK'
  <2> DEFINE f == [kind |-> "response", of |-> Head(outbox[k])]
  <2>1. /\ outbox[k] # <<>> /\ outbox' = [outbox EXCEPT ![k] = Tail(outbox[k])]
        /\ wire' = [wire EXCEPT ![k] = Append(wire[k], f)]
        /\ UNCHANGED <<link, answering, relayed, notFound, failed>>
    BY <1>2 DEF WriteResponse, Takes
  <2>2. f \in Frame /\ Tail(outbox[k]) \in Seq(Client)
    BY <2>1, SequenceTypes DEF Frame
  <2> HIDE DEF f
  <2>3. Append(wire[k], f) \in Seq(Frame)
    BY <2>2, SequenceTypes
  <2> QED BY <2>1, <2>2, <2>3
<1>3. ASSUME NEW k \in Caller, GivesUp(k) PROVE SigTypeOK'
  <2>1. CASE WriteResponseFails(k)
    <3>1. Tail(outbox[k]) \in Seq(Client)
      BY <2>1, SequenceTypes DEF WriteResponseFails
    <3> QED BY <2>1, <3>1 DEF WriteResponseFails, Takes
  <2>2. CASE PingFails(k) \/ Disconnect(k)
    BY <2>2 DEF PingFails, Disconnect
  <2> QED BY <1>3, <2>1, <2>2 DEF GivesUp
<1>4. CASE TakeRegister \/ StartHub
  BY <1>4 DEF TakeRegister, StartHub, linkVars
<1>5. CASE TakeSendTo
  <2>1. current' \in Nat
    <3>1. Head(sendTo) \in Envelope
      BY <1>5, SequenceTypes DEF TakeSendTo, HandleSendTo, TypeOK
    <3> QED BY <1>5, <3>1 DEF TakeSendTo, HandleSendTo, Envelope
  <2> QED BY <1>5, <2>1 DEF TakeSendTo
<1>6. ASSUME NEW c \in Client, WriteRelay(c) PROVE SigTypeOK'
  <2> DEFINE f == [kind |-> "relay", of |-> current]
  <2>1. f \in Frame
    BY DEF TypeOK, Frame
  <2>2. /\ wire' = [wire EXCEPT ![ConnOf[c]] = Append(wire[ConnOf[c]], f)]
        /\ UNCHANGED <<link, answering, outbox, relayed, notFound, failed>>
        /\ ConnOf[c] \in Caller
    BY <1>6, SignalingAssumption DEF WriteRelay
  <2> HIDE DEF f
  <2>3. Append(wire[ConnOf[c]], f) \in Seq(Frame)
    BY <2>1, <2>2, SequenceTypes
  <2> QED BY <2>2, <2>3
<1>7. ASSUME NEW c \in Client, WriteRelayFails(c) PROVE SigTypeOK'
  BY <1>7, SignalingAssumption DEF WriteRelayFails, TypeOK
<1>8. CASE UNCHANGED sigVars
  BY <1>8 DEF sigVars, linkVars
<1> QED BY <1>1, <1>2, <1>3, <1>4, <1>5, <1>6, <1>7, <1>8 DEF SigNext, HubStep, WritePump, GivesUp

LEMMA SigInitTyped == SigInit => SigTypeOK
<1> SUFFICES ASSUME SigInit PROVE SigTypeOK
  OBVIOUS
<1>1. <<>> \in Seq(Client) /\ <<>> \in Seq(Frame)
  OBVIOUS
<1> QED BY <1>1 DEF SigInit, SigTypeOK

\* What the hub keeps, and the types: every lemma below rests on it.
BaseInv == HubInv /\ DirectOrder /\ ServerInv /\ SigTypeOK

LEMMA BaseInvariance == SigSpec => []BaseInv
<1>1. HubInv /\ SigTypeOK /\ [SigNext]_sigVars => SigTypeOK'
  BY SigTypeStep DEF HubInv
<1>2. SigSpec => []HubInv /\ []DirectOrder
  BY ServerRunsHub, HubInductive, OrderInductive, PTL
<1>3. HubInv /\ DirectOrder /\ ServerInv /\ SigTypeOK => BaseInv
  BY DEF BaseInv
<1> QED BY <1>1, <1>2, <1>3, SigInitTyped, ServerInvariance, PTL DEF SigSpec

\* Every variable of the server keeps its type.
THEOREM SignalingTypeCorrect == SigSpec => []SigTypeOK
<1>1. BaseInv => SigTypeOK
  BY DEF BaseInv
<1> QED BY <1>1, BaseInvariance, PTL

-----------------------------------------------------------------------------
(***************************************************************************)
(* What becomes of a message: it is in the channel, in the hands of run,   *)
(* or gone - dropped, failed, or on a websocket.                           *)
(***************************************************************************)
Gone(n) == n \in notFound \/ n \in failed \/ \E k \in Caller : OnWire(k, n)

\* Every accepted message is somewhere, and what is gone is older than the rest and
\* went one way only.
FateInv ==
  /\ Len(relayed) = direct
  /\ \A n \in Nat : InLine(n) \/ InHand(n) \/ Gone(n) <=> n \in 1..direct
  /\ \A n \in Nat : Gone(n) => /\ \A i \in DOMAIN sendTo : n < sendTo[i].message
                               /\ run = "sending" => n < current
  /\ notFound \cap failed = {}
  /\ \A n \in Nat, k \in Caller :
       OnWire(k, n) => n \notin notFound \cup failed /\ \A l \in Caller : OnWire(l, n) => k = l

\* What the order of the hub says of the channel and of the message in hand.
LEMMA LineOrder ==
  ASSUME BaseInv
  PROVE  /\ sendTo \in Seq(Envelope) /\ direct \in Nat /\ current \in Nat
         /\ DOMAIN sendTo = 1..Len(sendTo) /\ Len(sendTo) \in Nat
         /\ \A i \in DOMAIN sendTo :
              /\ sendTo[i] \in Envelope /\ sendTo[i].message \in Nat /\ sendTo[i].clientID \in Id
              /\ sendTo[i].message <= direct
         /\ \A i, j \in DOMAIN sendTo : i < j => sendTo[i].message < sendTo[j].message
         /\ run = "sending" => /\ current <= direct
                               /\ \A i \in DOMAIN sendTo : current < sendTo[i].message
                               /\ \E c \in Client : audience = {c}
<1>1. /\ sendTo \in Seq(Envelope) /\ direct \in Nat /\ current \in Nat
      /\ run = "sending" => \E c \in Client : audience = {c}
  BY DEF BaseInv, HubInv, TypeOK, RunInv
<1>2. DOMAIN sendTo = 1..Len(sendTo) /\ Len(sendTo) \in Nat
  BY <1>1
<1>3. \A i \in DOMAIN sendTo : sendTo[i] \in Envelope
  BY <1>1
<1>4. /\ \A i \in DOMAIN sendTo : sendTo[i].message \in Nat /\ sendTo[i].clientID \in Id
      /\ DOMAIN Messages(sendTo) = DOMAIN sendTo
      /\ \A i \in DOMAIN sendTo : Messages(sendTo)[i] = sendTo[i].message
  BY <1>3 DEF Envelope, Messages
<1>5. /\ Increasing(Messages(sendTo)) /\ \A i \in DOMAIN sendTo : sendTo[i].message <= direct
      /\ Held("sending") # {} =>
           current <= direct /\ \A i \in DOMAIN sendTo : current < sendTo[i].message
  BY <1>4 DEF BaseInv, DirectOrder, Orderly
<1>6. run = "sending" => Held("sending") # {}
  BY <1>1 DEF Held
<1> QED BY <1>1, <1>2, <1>3, <1>4, <1>5, <1>6 DEF Increasing

LEMMA TailFacts ==
  ASSUME NEW S, NEW s \in Seq(S), s # <<>>
  PROVE  /\ Len(s) \in Nat \ {0} /\ Len(Tail(s)) = Len(s) - 1 /\ Head(s) = s[1]
         /\ DOMAIN s = 1..Len(s) /\ DOMAIN Tail(s) = 1..Len(Tail(s))
         /\ \A i \in 1..Len(Tail(s)) : Tail(s)[i] = s[i + 1]
<1> QED OBVIOUS

\* The channel loses its first message, or gets one more.
LEMMA LineTail ==
  ASSUME BaseInv, sendTo # <<>>, sendTo' = Tail(sendTo)
  PROVE  /\ Head(sendTo) \in Envelope /\ InLine(Head(sendTo).message)
         /\ \A n : InLine(n) <=> InLine(n)' \/ n = Head(sendTo).message
         /\ \A i \in DOMAIN sendTo' : /\ Head(sendTo).message < sendTo'[i].message
                                      /\ \E j \in DOMAIN sendTo : sendTo'[i] = sendTo[j]
<1>1. /\ Len(sendTo) \in Nat \ {0} /\ Len(sendTo') = Len(sendTo) - 1 /\ Head(sendTo) = sendTo[1]
      /\ DOMAIN sendTo = 1..Len(sendTo) /\ DOMAIN sendTo' = 1..Len(sendTo')
      /\ \A i \in 1..Len(sendTo') : sendTo'[i] = sendTo[i + 1]
  BY LineOrder, TailFacts
<1>2. \A i \in DOMAIN sendTo' : /\ Head(sendTo).message < sendTo'[i].message
                                /\ \E j \in DOMAIN sendTo : sendTo'[i] = sendTo[j]
  <2> SUFFICES ASSUME NEW i \in DOMAIN sendTo'
               PROVE  /\ Head(sendTo).message < sendTo'[i].message
                      /\ \E j \in DOMAIN sendTo : sendTo'[i] = sendTo[j]
    OBVIOUS
  <2>1. /\ 1 \in DOMAIN sendTo /\ i + 1 \in DOMAIN sendTo /\ 1 < i + 1
        /\ sendTo'[i] = sendTo[i + 1] /\ Head(sendTo) = sendTo[1]
    BY <1>1
  <2>2. sendTo[1].message < sendTo[i + 1].message
    BY <2>1, LineOrder
  <2> QED BY <2>1, <2>2
<1>3. ASSUME NEW n, InLine(n) PROVE InLine(n)' \/ n = Head(sendTo).message
  <2>1. PICK i \in 1..Len(sendTo) : sendTo[i].message = n
    BY <1>1, <1>3 DEF InLine
  <2>2. CASE i = 1
    BY <1>1, <2>1, <2>2
  <2>3. CASE i # 1
    <3>1. i - 1 \in DOMAIN sendTo' /\ sendTo'[i - 1] = sendTo[i]
      BY <1>1, <2>1, <2>3
    <3> QED BY <2>1, <3>1 DEF InLine
  <2> QED BY <2>2, <2>3
<1>4. ASSUME NEW n, InLine(n)' \/ n = Head(sendTo).message PROVE InLine(n)
  BY <1>1, <1>2, <1>4 DEF InLine
<1>5. Head(sendTo) \in Envelope
  BY <1>1, LineOrder
<1> QED BY <1>2, <1>3, <1>4, <1>5

LEMMA LineAppend ==
  ASSUME BaseInv, NEW e \in Envelope, sendTo' = Append(sendTo, e)
  PROVE  /\ \A n : InLine(n)' <=> InLine(n) \/ n = e.message
         /\ DOMAIN sendTo' = DOMAIN sendTo \cup {Len(sendTo) + 1}
         /\ sendTo'[Len(sendTo) + 1] = e /\ \A i \in DOMAIN sendTo : sendTo'[i] = sendTo[i]
<1>1. /\ DOMAIN sendTo' = DOMAIN sendTo \cup {Len(sendTo) + 1}
      /\ sendTo'[Len(sendTo) + 1] = e /\ \A i \in DOMAIN sendTo : sendTo'[i] = sendTo[i]
  BY LineOrder
<1> QED BY <1>1 DEF InLine

\* A frame is written to websocket k.
Carries(s, f) == \E i \in DOMAIN s : s[i] = f

LEMMA CarriesAppend ==
  ASSUME NEW s \in Seq(Frame), NEW f \in Frame
  PROVE  \A g : Carries(Append(s, f), g) <=> Carries(s, g) \/ g = f
<1>1. /\ DOMAIN Append(s, f) = DOMAIN s \cup {Len(s) + 1} /\ Append(s, f)[Len(s) + 1] = f
      /\ \A i \in DOMAIN s : Append(s, f)[i] = s[i]
  OBVIOUS
<1> QED BY <1>1 DEF Carries

LEMMA FateUnmoved ==
  ASSUME FateInv, UNCHANGED <<relayed, direct, sendTo, run, current, notFound, failed>>,
         \A k \in Caller, n \in Nat : OnWire(k, n)' <=> OnWire(k, n)
  PROVE  FateInv'
<1>1. \A n \in Nat : /\ InLine(n)' <=> InLine(n)
                     /\ InHand(n)' <=> InHand(n)
                     /\ Gone(n)' <=> Gone(n)
  BY DEF InLine, InHand, Gone
<1> QED BY <1>1 DEF FateInv

\* Relay: the message joins the line.
LEMMA FateRelay ==
  ASSUME BaseInv, FateInv, NEW k \in Caller, Relay(k)
  PROVE  FateInv'
<1> DEFINE e == [clientID |-> Head(pending[k]), message |-> direct + 1]
<1>1. /\ sendTo' = Append(sendTo, e) /\ direct' = direct + 1
      /\ UNCHANGED <<run, current, notFound, failed, wire>>
      /\ relayed \in Seq([from : Caller, to : Id, filed : SUBSET Client,
                          early : BOOLEAN])
      /\ pending[k] \in Seq(Id) /\ pending[k] # <<>> /\ direct \in Nat
  BY DEF Relay, SendTo, runVars, BaseInv, SigTypeOK, HubInv, TypeOK
<1>2. Head(pending[k]) \in Id
  BY <1>1, SequenceTypes
<1>3. e \in Envelope /\ e.message = direct + 1
  BY <1>1, <1>2 DEF Envelope
<1> HIDE DEF e
<1>4. Len(relayed') = direct'
  BY <1>1 DEF Relay, FateInv
<1>5. \A n \in Nat : /\ InLine(n)' <=> InLine(n) \/ n = direct + 1
                     /\ InHand(n)' <=> InHand(n)
                     /\ Gone(n)' <=> Gone(n)
                     /\ \A l \in Caller : OnWire(l, n)' <=> OnWire(l, n)
  BY <1>1, <1>3, LineAppend DEF InHand, Gone, OnWire
<1>6. \A n \in Nat : Gone(n) => n \in 1..direct
  BY DEF FateInv
<1>7. \A n \in Nat : Gone(n)' => /\ \A i \in DOMAIN sendTo' : n < sendTo'[i].message
                                 /\ run' = "sending" => n < current'
  BY <1>1, <1>3, <1>5, <1>6, LineAppend DEF FateInv
<1>8. \A n \in Nat : (InLine(n) \/ InHand(n) \/ Gone(n))' <=> n \in 1..direct'
  BY <1>1, <1>5 DEF FateInv
<1> QED BY <1>1, <1>4, <1>5, <1>7, <1>8 DEF FateInv

\* run takes the first message of the line; without a client it is dropped.
LEMMA FateTake ==
  ASSUME BaseInv, FateInv, TakeSendTo
  PROVE  FateInv'
<1> DEFINE m == Head(sendTo).message
<1>1. /\ run = "select" /\ sendTo # <<>> /\ sendTo' = Tail(sendTo) /\ current' = m
      /\ UNCHANGED <<direct, relayed, failed, wire>>
      /\ \/ run' = "select" /\ notFound' = notFound \cup {m}
         \/ run' = "sending" /\ notFound' = notFound
  BY DEF TakeSendTo, HandleSendTo, callVars
<1>2. /\ m \in Nat /\ InLine(m)
      /\ \A n : InLine(n) <=> InLine(n)' \/ n = m
      /\ \A i \in DOMAIN sendTo' : m < sendTo'[i].message
                                   /\ \E j \in DOMAIN sendTo : sendTo'[i] = sendTo[j]
  BY <1>1, LineTail DEF Envelope
<1> HIDE DEF m
<1>3. \A n \in Nat : Gone(n) => n < m
  BY <1>2 DEF FateInv, InLine
<1>4. ~Gone(m)
  BY <1>2, <1>3
<1>5. \A l \in Caller, n \in Nat : OnWire(l, n)' <=> OnWire(l, n)
  BY <1>1 DEF OnWire
<1>6. \A n \in Nat : Gone(n)' <=> Gone(n) \/ (run' = "select" /\ n = m)
  BY <1>1, <1>5 DEF Gone
<1>7. \A n \in Nat : (InLine(n) \/ InHand(n) \/ Gone(n))' <=> n \in 1..direct'
  BY <1>1, <1>2, <1>6 DEF FateInv, InHand
<1>8. \A n \in Nat : Gone(n)' => /\ \A i \in DOMAIN sendTo' : n < sendTo'[i].message
                                 /\ run' = "sending" => n < current'
  BY <1>1, <1>2, <1>3, <1>6 DEF FateInv
<1>9. notFound' \cap failed' = {}
  BY <1>1, <1>4 DEF FateInv, Gone
<1>10. \A n \in Nat, l \in Caller :
         OnWire(l, n)' => n \notin notFound' \cup failed' /\ \A o \in Caller : OnWire(o, n)' => l = o
  BY <1>1, <1>4, <1>5 DEF FateInv, Gone
<1> QED BY <1>1, <1>7, <1>8, <1>9, <1>10 DEF FateInv
\* One frame more on websocket k.
LEMMA WireAppend ==
  ASSUME SigTypeOK, NEW k \in Caller, NEW f \in Frame,
         wire' = [wire EXCEPT ![k] = Append(wire[k], f)]
  PROVE  \A l \in Caller, n \in Nat :
           OnWire(l, n)' <=> OnWire(l, n) \/ (l = k /\ f = [kind |-> "relay", of |-> n])
<1>1. wire \in [Caller -> Seq(Frame)]
  BY DEF SigTypeOK
<1> SUFFICES ASSUME NEW l \in Caller, NEW n \in Nat
             PROVE  OnWire(l, n)' <=> OnWire(l, n) \/ (l = k /\ f = [kind |-> "relay", of |-> n])
  OBVIOUS
<1> DEFINE g == [kind |-> "relay", of |-> n]
<1>2. OnWire(l, n) <=> Carries(wire[l], g)
  BY DEF OnWire, Carries
<1>3. OnWire(l, n)' <=> Carries(wire'[l], g)
  BY DEF OnWire, Carries
<1> HIDE DEF g
<1>4. CASE l = k
  <2>1. wire'[l] = Append(wire[k], f) /\ wire[k] \in Seq(Frame)
    BY <1>1, <1>4
  <2>2. Carries(Append(wire[k], f), g) <=> Carries(wire[k], g) \/ g = f
    BY <2>1, CarriesAppend
  <2> QED BY <1>2, <1>3, <1>4, <2>1, <2>2 DEF g
<1>5. CASE l # k
  BY <1>1, <1>2, <1>3, <1>5
<1> QED BY <1>4, <1>5

\* What run does to a message in hand: the server never broadcasts.
LEMMA HandEmpties ==
  ASSUME BaseInv, NEW c \in Client, WriteRelay(c) \/ WriteRelayFails(c)
  PROVE  /\ run = "sending" /\ audience = {c} /\ run' = "select"
         /\ UNCHANGED <<sendTo, direct, current, relayed, notFound>>
<1>1. run = "sending" /\ c \in audience /\ Served(c)
  BY DEF WriteRelay, WriteRelayFails, Deliver, DeliverFails, BaseInv, ServerInv
<1>2. audience = {c}
  BY <1>1, LineOrder
<1> QED BY <1>1, <1>2 DEF WriteRelay, WriteRelayFails, Deliver, DeliverFails, Served,
         queueVars, callVars

LEMMA RelayOnWire ==
  ASSUME BaseInv, NEW c \in Client, WriteRelay(c)
  PROVE  \A l \in Caller, n \in Nat :
           OnWire(l, n)' <=> OnWire(l, n) \/ (l = ConnOf[c] /\ n = current)
<1> DEFINE f == [kind |-> "relay", of |-> current]
<1>1. /\ f \in Frame /\ ConnOf[c] \in Caller
      /\ wire' = [wire EXCEPT ![ConnOf[c]] = Append(wire[ConnOf[c]], f)]
  BY LineOrder, SignalingAssumption DEF WriteRelay, Frame
<1>2. \A n : f = [kind |-> "relay", of |-> n] <=> n = current
  OBVIOUS
<1> HIDE DEF f
<1>3. \A l \in Caller, n \in Nat :
        OnWire(l, n)' <=> OnWire(l, n) \/ (l = ConnOf[c] /\ f = [kind |-> "relay", of |-> n])
  BY <1>1, WireAppend DEF BaseInv
<1> QED BY <1>2, <1>3

\* The write to the websocket: the message is on that one, and nowhere else.
LEMMA FateWrite ==
  ASSUME BaseInv, FateInv, NEW c \in Client, WriteRelay(c)
  PROVE  FateInv'
<1>1. /\ run = "sending" /\ run' = "select"
      /\ UNCHANGED <<sendTo, direct, current, relayed, notFound, failed>>
  BY HandEmpties DEF WriteRelay
<1>2. \A l \in Caller, n \in Nat : OnWire(l, n)' <=> OnWire(l, n) \/ (l = ConnOf[c] /\ n = current)
  BY RelayOnWire
<1>3. current \in Nat /\ ConnOf[c] \in Caller /\ ~Gone(current)
      /\ \A i \in DOMAIN sendTo : current < sendTo[i].message
  BY <1>1, LineOrder, SignalingAssumption DEF FateInv
<1>4. \A n \in Nat : /\ InLine(n)' <=> InLine(n)
                     /\ InHand(n) <=> n = current
                     /\ ~InHand(n)'
                     /\ Gone(n)' <=> Gone(n) \/ n = current
  BY <1>1, <1>2, <1>3 DEF InLine, InHand, Gone
<1>5. \A n \in Nat : (InLine(n) \/ InHand(n) \/ Gone(n))' <=> n \in 1..direct'
  BY <1>1, <1>4 DEF FateInv
<1>6. \A n \in Nat : Gone(n)' => /\ \A i \in DOMAIN sendTo' : n < sendTo'[i].message
                                 /\ run' = "sending" => n < current'
  BY <1>1, <1>3, <1>4 DEF FateInv
<1>7. \A n \in Nat, k \in Caller :
        OnWire(k, n)' => n \notin notFound' \cup failed' /\ \A l \in Caller : OnWire(l, n)' => k = l
  BY <1>1, <1>2, <1>3 DEF FateInv, Gone
<1>8. Len(relayed') = direct' /\ notFound' \cap failed' = {}
  BY <1>1 DEF FateInv
<1> QED BY <1>5, <1>6, <1>7, <1>8 DEF FateInv

\* The write fails: the message is on no websocket.
LEMMA FateFail ==
  ASSUME BaseInv, FateInv, NEW c \in Client, WriteRelayFails(c)
  PROVE  FateInv'
<1>1. /\ run = "sending" /\ run' = "select" /\ failed' = failed \cup {current}
      /\ UNCHANGED <<sendTo, direct, current, relayed, notFound, wire>>
  BY HandEmpties DEF WriteRelayFails
<1>2. \A l \in Caller, n \in Nat : OnWire(l, n)' <=> OnWire(l, n)
  BY <1>1 DEF OnWire
<1>3. current \in Nat /\ ~Gone(current) /\ \A i \in DOMAIN sendTo : current < sendTo[i].message
  BY <1>1, LineOrder DEF FateInv
<1>4. \A n \in Nat : /\ InLine(n)' <=> InLine(n)
                     /\ InHand(n) <=> n = current
                     /\ ~InHand(n)'
                     /\ Gone(n)' <=> Gone(n) \/ n = current
  BY <1>1, <1>2 DEF InLine, InHand, Gone
<1>5. \A n \in Nat : (InLine(n) \/ InHand(n) \/ Gone(n))' <=> n \in 1..direct'
  BY <1>1, <1>3, <1>4 DEF FateInv
<1>6. \A n \in Nat : Gone(n)' => /\ \A i \in DOMAIN sendTo' : n < sendTo'[i].message
                                 /\ run' = "sending" => n < current'
  BY <1>1, <1>3, <1>4 DEF FateInv
<1>7. \A n \in Nat, k \in Caller :
        OnWire(k, n)' => n \notin notFound' \cup failed' /\ \A l \in Caller : OnWire(l, n)' => k = l
  BY <1>1, <1>2, <1>3 DEF FateInv, Gone
<1>8. Len(relayed') = direct' /\ notFound' \cap failed' = {}
  BY <1>1, <1>3 DEF FateInv, Gone
<1> QED BY <1>5, <1>6, <1>7, <1>8 DEF FateInv

\* A response on the wire is no relayed message.
LEMMA ResponseIsNoRelay ==
  ASSUME SigTypeOK, NEW k \in Caller, WriteResponse(k)
  PROVE  \A l \in Caller, n \in Nat : OnWire(l, n)' <=> OnWire(l, n)
<1> DEFINE f == [kind |-> "response", of |-> Head(outbox[k])]
<1>1. /\ outbox[k] # <<>> /\ outbox[k] \in Seq(Client)
      /\ wire' = [wire EXCEPT ![k] = Append(wire[k], f)]
  BY DEF WriteResponse, SigTypeOK
<1>2. f \in Frame
  BY <1>1, SequenceTypes DEF Frame
<1>3. \A n : f # [kind |-> "relay", of |-> n]
  OBVIOUS
<1> HIDE DEF f
<1> QED BY <1>1, <1>2, <1>3, WireAppend

LEMMA FateStep == ASSUME BaseInv, FateInv, [SigNext]_sigVars PROVE FateInv'
<1>1. ASSUME NEW k \in Caller, HandlesRequest(k) PROVE FateInv'
  <2>1. CASE Relay(k)
    BY <2>1, FateRelay
  <2>2. CASE \/ \E c \in Client : RegisterRequest(k, c)
             \/ \E id \in Id : RelayRequest(k, id)
             \/ RequestFails(k) \/ RequestCounted(k) \/ Respond(k)
    <3>1. UNCHANGED <<relayed, direct, sendTo, run, current, notFound, failed, wire>>
      BY <2>2 DEF RegisterRequest, Register, RelayRequest, BeginSendTo, RequestFails,
        SendToRefused, RequestCounted, CountReceived, Respond, vars, queueVars, runVars,
        linkVars, callVars
    <3> QED BY <3>1, FateUnmoved DEF OnWire
  <2> QED BY <1>1, <2>1, <2>2 DEF HandlesRequest
<1>2. ASSUME NEW k \in Caller, WriteResponse(k) PROVE FateInv'
  <2>1. UNCHANGED <<relayed, direct, sendTo, run, current, notFound, failed>>
    BY <1>2 DEF WriteResponse, vars, queueVars, runVars, callVars
  <2> QED BY <1>2, <2>1, FateUnmoved, ResponseIsNoRelay DEF BaseInv
<1>3. ASSUME NEW k \in Caller, GivesUp(k) PROVE FateInv'
  <2>1. UNCHANGED <<relayed, direct, sendTo, run, current, notFound, failed, wire>>
    BY <1>3, GivesUpUnmoved DEF vars, queueVars, runVars, callVars
  <2> QED BY <2>1, FateUnmoved DEF OnWire
<1>4. CASE TakeRegister
  <2>1. UNCHANGED <<relayed, direct, sendTo, run, current, notFound, failed, wire>>
    BY <1>4 DEF TakeRegister, HandleRegister, runVars, callVars, linkVars
  <2> QED BY <2>1, FateUnmoved DEF OnWire
<1>5. CASE TakeSendTo
  BY <1>5, FateTake
<1>6. ASSUME NEW c \in Client, WriteRelay(c) PROVE FateInv'
  BY <1>6, FateWrite
<1>7. ASSUME NEW c \in Client, WriteRelayFails(c) PROVE FateInv'
  BY <1>7, FateFail
<1>8. CASE StartHub
  <2>1. UNCHANGED <<relayed, direct, sendTo, current, notFound, failed, wire>>
        /\ run' = "select" /\ run # "sending"
    BY <1>8 DEF StartHub, Start, queueVars, callVars, linkVars, BaseInv, HubInv, StopInv
  <2>2. \A n \in Nat : /\ InLine(n)' <=> InLine(n)
                       /\ InHand(n)' <=> InHand(n)
                       /\ Gone(n)' <=> Gone(n)
                       /\ \A l \in Caller : OnWire(l, n)' <=> OnWire(l, n)
    BY <2>1 DEF InLine, InHand, Gone, OnWire
  <2> QED BY <2>1, <2>2 DEF FateInv
<1>9. CASE UNCHANGED sigVars
  <2>1. UNCHANGED <<relayed, direct, sendTo, run, current, notFound, failed, wire>>
    BY <1>9 DEF sigVars, vars, queueVars, runVars, callVars, linkVars
  <2> QED BY <2>1, FateUnmoved DEF OnWire
<1> QED BY <1>1, <1>2, <1>3, <1>4, <1>5, <1>6, <1>7, <1>8, <1>9
       DEF SigNext, HubStep, WritePump, GivesUp

LEMMA FateInit == SigInit => FateInv
<1> SUFFICES ASSUME SigInit PROVE FateInv
  OBVIOUS
<1>1. /\ relayed = <<>> /\ direct = 0 /\ sendTo = <<>> /\ run = "off"
      /\ notFound = {} /\ failed = {} /\ \A k \in Caller : wire[k] = <<>>
  BY DEF SigInit, Init
<1>2. \A n \in Nat : ~InLine(n) /\ ~InHand(n) /\ ~Gone(n) /\ \A k \in Caller : ~OnWire(k, n)
  BY <1>1 DEF InLine, InHand, Gone, OnWire
<1> QED BY <1>1, <1>2 DEF FateInv

LEMMA FateInvariance == SigSpec => []FateInv
<1> QED BY FateInit, FateStep, BaseInvariance, PTL DEF SigSpec
\* Every message the server accepted is in exactly one place, whatever the clients do.
THEOREM MessagesHaveOneFate == SigSpec => []OneFate
<1>1. ASSUME BaseInv, FateInv PROVE OneFate
  <2> SUFFICES ASSUME NEW n \in DOMAIN relayed
      PROVE Cardinality({i \in DOMAIN sendTo : sendTo[i].message = n})
              + (IF run = "sending" /\ current = n THEN 1 ELSE 0)
              + Cardinality({n} \cap notFound) + Cardinality({n} \cap failed)
              + Cardinality({k \in Caller : OnWire(k, n)}) = 1
    BY DEF OneFate
  <2> DEFINE lines == {i \in DOMAIN sendTo : sendTo[i].message = n}
             wires == {k \in Caller : OnWire(k, n)}
             in == InLine(n)
             out == \E k \in Caller : OnWire(k, n)
  <2>1. relayed \in Seq([from : Caller, to : Id, filed : SUBSET Client, early : BOOLEAN])
        /\ n \in Nat /\ n \in 1..direct
    BY <1>1 DEF BaseInv, SigTypeOK, FateInv
  <2>2. /\ in => \E i : lines = {i}
        /\ ~in => lines = {}
    <3>1. \A i, j \in DOMAIN sendTo : sendTo[i].message = n /\ sendTo[j].message = n => i = j
      <4> SUFFICES ASSUME NEW i \in DOMAIN sendTo, NEW j \in DOMAIN sendTo,
                          sendTo[i].message = n, sendTo[j].message = n
                   PROVE  i = j
        OBVIOUS
      <4>1. i \in Int /\ j \in Int /\ ~(i < j) /\ ~(j < i)
        BY <1>1, <2>1, LineOrder
      <4> QED BY <4>1
    <3> QED BY <3>1 DEF InLine
  <2>3. /\ out => \E k : wires = {k}
        /\ ~out => wires = {}
    <3>1. ASSUME NEW k \in Caller, OnWire(k, n) PROVE wires = {k}
      <4>1. \A l \in Caller : OnWire(l, n) => k = l
        BY <1>1, <2>1, <3>1 DEF FateInv
      <4> QED BY <3>1, <4>1
    <3> QED BY <3>1
  <2>4. /\ in => ~InHand(n) /\ n \notin notFound /\ n \notin failed /\ ~out
        /\ InHand(n) => n \notin notFound /\ n \notin failed /\ ~out
        /\ n \notin notFound \/ n \notin failed
        /\ out => n \notin notFound /\ n \notin failed
        /\ in \/ InHand(n) \/ n \in notFound \/ n \in failed \/ out
    <3>1. InHand(n) => ~in
      BY <1>1, <2>1, LineOrder DEF InHand, InLine
    <3>2. Gone(n) => ~in /\ ~InHand(n)
      BY <1>1, <2>1, LineOrder DEF FateInv, InHand, InLine
    <3>3. /\ n \notin notFound \/ n \notin failed
          /\ out => n \notin notFound /\ n \notin failed
          /\ in \/ InHand(n) \/ Gone(n)
      BY <1>1, <2>1 DEF FateInv
    <3> QED BY <3>1, <3>2, <3>3 DEF Gone
  <2>5. /\ Cardinality({n} \cap notFound) = IF n \in notFound THEN 1 ELSE 0
        /\ Cardinality({n} \cap failed) = IF n \in failed THEN 1 ELSE 0
    <3>1. \A S : {n} \cap S = IF n \in S THEN {n} ELSE {}
      OBVIOUS
    <3> QED BY <3>1, FS_EmptySet, FS_Singleton
  <2>6. /\ Cardinality(lines) = IF in THEN 1 ELSE 0
        /\ Cardinality(wires) = IF out THEN 1 ELSE 0
    BY <2>2, <2>3, FS_EmptySet, FS_Singleton
  <2> HIDE DEF lines, wires, in, out
  <2>7. Cardinality(lines) + (IF InHand(n) THEN 1 ELSE 0)
          + Cardinality({n} \cap notFound) + Cardinality({n} \cap failed)
          + Cardinality(wires) = 1
    BY <2>4, <2>5, <2>6
  <2> QED BY <2>7 DEF lines, wires, InHand
<1> QED BY <1>1, BaseInvariance, FateInvariance, PTL

-----------------------------------------------------------------------------
(***************************************************************************)
(* Where a message goes.                                                   *)
(***************************************************************************)
\* A client that is filed stays filed, so the message meets it when it is taken.
DestInv ==
  /\ \A n \in DOMAIN relayed : \A c \in relayed[n].filed : clients[relayed[n].to] = c
  /\ \A i \in DOMAIN sendTo : sendTo[i].clientID = relayed[sendTo[i].message].to
  /\ run = "sending" => \A c \in audience : clients[relayed[current].to] = c
  /\ FiledIsReachable

LEMMA ElementTypes == ASSUME NEW S, NEW s \in Seq(S) PROVE \A i \in DOMAIN s : s[i] \in S
<1> QED OBVIOUS

LEMMA RelayedFacts ==
  ASSUME BaseInv, FateInv
  PROVE  /\ relayed \in Seq([from : Caller, to : Id, filed : SUBSET Client,
                             early : BOOLEAN])
         /\ DOMAIN relayed = 1..direct /\ direct \in Nat /\ Len(relayed) = direct
         /\ \A n \in DOMAIN relayed : relayed[n].to \in Id /\ relayed[n].filed \subseteq Client
         /\ \A i \in DOMAIN sendTo : sendTo[i].message \in DOMAIN relayed
         /\ run = "sending" => current \in DOMAIN relayed
<1>1. /\ relayed \in Seq([from : Caller, to : Id, filed : SUBSET Client,
                          early : BOOLEAN])
      /\ Len(relayed) = direct /\ direct \in Nat /\ current \in Nat
  BY DEF BaseInv, SigTypeOK, HubInv, TypeOK, FateInv
<1>2. \A i \in DOMAIN sendTo : sendTo[i].message \in 1..direct
  BY LineOrder DEF FateInv, InLine
<1>3. run = "sending" => current \in 1..direct
  BY <1>1 DEF FateInv, InHand
<1>4. DOMAIN relayed = 1..direct
  BY <1>1
<1>5. ASSUME NEW n \in DOMAIN relayed PROVE relayed[n].to \in Id /\ relayed[n].filed \subseteq Client
  <2>1. relayed[n] \in [from : Caller, to : Id, filed : SUBSET Client, early : BOOLEAN]
    BY <1>1, ElementTypes
  <2> QED BY <2>1
<1> QED BY <1>1, <1>2, <1>3, <1>4, <1>5

LEMMA DestUnmoved ==
  ASSUME DestInv, UNCHANGED <<clients, relayed, sendTo, run, current, audience, notFound>>,
         \A k \in Caller, n \in DOMAIN relayed : OnWire(k, n)' <=> OnWire(k, n)
  PROVE  DestInv'
<1>1. FiledIsReachable'
  BY DEF DestInv, FiledIsReachable
<1> QED BY <1>1 DEF DestInv

LEMMA DestRelay ==
  ASSUME BaseInv, FateInv, DestInv, NEW k \in Caller, Relay(k)
  PROVE  DestInv'
<1> DEFINE id == Head(pending[k])
           r == [from |-> k, to |-> id, filed |-> {clients[id]} \ {NoClient},
                 early |-> clients[id] = NoClient
                   /\ \E c \in Confirmed : IDOf[c] = id /\ link[ConnOf[c]] # "down"]
           e == [clientID |-> id, message |-> direct + 1]
<1>1. /\ sendTo' = Append(sendTo, e) /\ relayed' = Append(relayed, r)
      /\ UNCHANGED <<clients, run, current, audience, notFound, wire>>
      /\ pending[k] \in Seq(Id) /\ pending[k] # <<>> /\ direct \in Nat
  BY DEF Relay, SendTo, runVars, BaseInv, HubInv, TypeOK
<1>2. id \in Id
  BY <1>1, SequenceTypes
<1>3. /\ e \in Envelope /\ e.message = direct + 1 /\ e.clientID = r.to
      /\ \A c \in r.filed : clients[r.to] = c
  BY <1>1, <1>2 DEF Envelope
<1> HIDE DEF id, r, e
<1>4. /\ DOMAIN relayed' = DOMAIN relayed \cup {direct + 1} /\ relayed'[direct + 1] = r
      /\ direct + 1 \notin DOMAIN relayed
      /\ \A n \in DOMAIN relayed : relayed'[n] = relayed[n]
  BY <1>1, RelayedFacts
<1>5. /\ DOMAIN sendTo' = DOMAIN sendTo \cup {Len(sendTo) + 1}
      /\ sendTo'[Len(sendTo) + 1] = e /\ \A i \in DOMAIN sendTo : sendTo'[i] = sendTo[i]
  BY <1>1, <1>3, LineAppend
<1>6. direct + 1 \notin notFound /\ \A l \in Caller : ~OnWire(l, direct + 1)
  BY <1>1 DEF FateInv, Gone
<1>7. \A l \in Caller : \A n : OnWire(l, n)' <=> OnWire(l, n)
  BY <1>1 DEF OnWire
<1>8. \A n \in DOMAIN relayed' : \A c \in relayed'[n].filed : clients'[relayed'[n].to] = c
  BY <1>1, <1>3, <1>4 DEF DestInv
<1>9. \A i \in DOMAIN sendTo' : sendTo'[i].clientID = relayed'[sendTo'[i].message].to
  BY <1>3, <1>4, <1>5, RelayedFacts DEF DestInv
<1>10. run' = "sending" => \A c \in audience' : clients'[relayed'[current'].to] = c
  BY <1>1, <1>4, RelayedFacts DEF DestInv
<1>11. FiledIsReachable'
  <2> SUFFICES ASSUME NEW n \in DOMAIN relayed', NEW c \in relayed'[n].filed
               PROVE  n \notin notFound' /\ \A l \in Caller \ {ConnOf[c]} : ~OnWire(l, n)'
    BY DEF FiledIsReachable
  <2>1. CASE n = direct + 1
    BY <1>1, <1>6, <1>7, <2>1
  <2>2. CASE n \in DOMAIN relayed
    BY <1>1, <1>4, <1>7, <2>2 DEF DestInv, FiledIsReachable
  <2> QED BY <1>4, <2>1, <2>2
<1> QED BY <1>8, <1>9, <1>10, <1>11 DEF DestInv

\* A client is filed: nobody loses an entry.
LEMMA DestRegister ==
  ASSUME BaseInv, FateInv, DestInv, TakeRegister
  PROVE  DestInv'
<1>1. /\ run = "select" /\ UNCHANGED <<relayed, sendTo, run, current, audience, notFound, wire>>
      /\ clients' = Filed(Head(register)) /\ register # <<>>
  BY DEF TakeRegister, HandleRegister, runVars, linkVars
<1>2. /\ clients \in [Id -> Client \cup {NoClient}] /\ NoClient \notin Client
      /\ register \in Seq(Client)
  BY HubAssumption DEF BaseInv, HubInv, TypeOK
<1>3. Head(register) \in Client
  BY <1>1, <1>2, SequenceTypes
<1>4. \A id \in Id : clients[id] # NoClient => clients'[id] = clients[id]
  BY <1>1, <1>2, <1>3 DEF Filed
<1>5. \A n \in DOMAIN relayed' : \A c \in relayed'[n].filed : clients'[relayed'[n].to] = c
  BY <1>1, <1>2, <1>4, RelayedFacts DEF DestInv
<1>6. FiledIsReachable'
  BY <1>1 DEF DestInv, FiledIsReachable, OnWire
<1> QED BY <1>1, <1>5, <1>6 DEF DestInv

\* run looks up the receiver: it finds the client that was filed.
LEMMA DestTake ==
  ASSUME BaseInv, FateInv, DestInv, TakeSendTo
  PROVE  DestInv'
<1> DEFINE h == Head(sendTo)
<1>1. /\ run = "select" /\ sendTo # <<>> /\ sendTo' = Tail(sendTo) /\ current' = h.message
      /\ audience' = {clients[h.clientID]} \ {NoClient}
      /\ notFound' = IF audience' = {} THEN notFound \cup {h.message} ELSE notFound
      /\ UNCHANGED <<clients, relayed, wire>>
  BY DEF TakeSendTo, HandleSendTo
<1>2. \A i \in DOMAIN sendTo' : \E j \in DOMAIN sendTo : sendTo'[i] = sendTo[j]
  BY <1>1, LineTail
<1>3. PICK j \in DOMAIN sendTo : sendTo[j] = h
  BY <1>1, LineOrder, TailFacts
<1> HIDE DEF h
<1>4. h.clientID = relayed[h.message].to /\ h.message \in DOMAIN relayed
  BY <1>3, RelayedFacts DEF DestInv
<1>5. \A c \in relayed[h.message].filed : c \in audience'
  <2>1. \A c \in relayed[h.message].filed : c # NoClient /\ clients[h.clientID] = c
    BY <1>4, RelayedFacts, HubAssumption DEF DestInv
  <2> QED BY <1>1, <2>1
<1>6. \A i \in DOMAIN sendTo' : sendTo'[i].clientID = relayed'[sendTo'[i].message].to
  BY <1>1, <1>2 DEF DestInv
<1>7. \A c \in audience' : clients'[relayed'[current'].to] = c
  BY <1>1, <1>4
<1>8. FiledIsReachable'
  <2>1. \A l \in Caller : \A n : OnWire(l, n)' <=> OnWire(l, n)
    BY <1>1 DEF OnWire
  <2>2. \A n \in DOMAIN relayed : \A c \in relayed[n].filed : n \notin notFound'
    BY <1>1, <1>5 DEF DestInv, FiledIsReachable
  <2> QED BY <1>1, <2>1, <2>2 DEF DestInv, FiledIsReachable
<1> QED BY <1>1, <1>6, <1>7, <1>8 DEF DestInv

LEMMA DestWrite ==
  ASSUME BaseInv, FateInv, DestInv, NEW c \in Client, WriteRelay(c) \/ WriteRelayFails(c)
  PROVE  DestInv'
<1>1. /\ run = "sending" /\ audience = {c} /\ run' = "select"
      /\ UNCHANGED <<clients, sendTo, direct, current, relayed, notFound>>
  BY HandEmpties DEF WriteRelay, WriteRelayFails, Deliver, DeliverFails
<1>2. \A l \in Caller, n \in DOMAIN relayed :
        OnWire(l, n)' => OnWire(l, n) \/ (l = ConnOf[c] /\ n = current)
  <2>1. CASE WriteRelayFails(c)
    BY <2>1 DEF WriteRelayFails, OnWire
  <2>2. CASE WriteRelay(c)
    BY <2>2, RelayedFacts, RelayOnWire
  <2> QED BY <2>1, <2>2
<1>3. \A d \in relayed[current].filed : d = c
  BY <1>1, RelayedFacts DEF DestInv
<1>4. FiledIsReachable'
  BY <1>1, <1>2, <1>3 DEF DestInv, FiledIsReachable
<1> QED BY <1>1, <1>4 DEF DestInv

LEMMA DestStep == ASSUME BaseInv, FateInv, DestInv, [SigNext]_sigVars PROVE DestInv'
<1>1. ASSUME NEW k \in Caller, HandlesRequest(k) PROVE DestInv'
  <2>1. CASE Relay(k)
    BY <2>1, DestRelay
  <2>2. CASE \/ \E c \in Client : RegisterRequest(k, c)
             \/ \E id \in Id : RelayRequest(k, id)
             \/ RequestFails(k) \/ RequestCounted(k) \/ Respond(k)
    <3>1. UNCHANGED <<clients, relayed, sendTo, run, current, audience, notFound, wire>>
      BY <2>2 DEF RegisterRequest, Register, RelayRequest, BeginSendTo, RequestFails,
        SendToRefused, RequestCounted, CountReceived, Respond, vars, queueVars, runVars,
        linkVars
    <3> QED BY <3>1, DestUnmoved DEF OnWire
  <2> QED BY <1>1, <2>1, <2>2 DEF HandlesRequest
<1>2. ASSUME NEW k \in Caller, WriteResponse(k) PROVE DestInv'
  <2>1. UNCHANGED <<clients, relayed, sendTo, run, current, audience, notFound>>
    BY <1>2 DEF WriteResponse, vars, queueVars, runVars
  <2> QED BY <1>2, <2>1, DestUnmoved, ResponseIsNoRelay, RelayedFacts DEF BaseInv
<1>3. ASSUME NEW k \in Caller, GivesUp(k) PROVE DestInv'
  <2>1. UNCHANGED <<clients, relayed, sendTo, run, current, audience, notFound, wire>>
    BY <1>3, GivesUpUnmoved DEF vars, queueVars, runVars
  <2> QED BY <2>1, DestUnmoved DEF OnWire
<1>4. CASE TakeRegister
  BY <1>4, DestRegister
<1>5. CASE TakeSendTo
  BY <1>5, DestTake
<1>6. ASSUME NEW c \in Client, WriteRelay(c) \/ WriteRelayFails(c) PROVE DestInv'
  BY <1>6, DestWrite
<1>7. CASE StartHub
  <2>1. UNCHANGED <<clients, relayed, sendTo, current, audience, notFound, wire>>
        /\ run' = "select"
    BY <1>7 DEF StartHub, Start, queueVars, linkVars
  <2>2. FiledIsReachable'
    BY <2>1 DEF DestInv, FiledIsReachable, OnWire
  <2> QED BY <2>1, <2>2 DEF DestInv
<1>8. CASE UNCHANGED sigVars
  <2>1. UNCHANGED <<clients, relayed, sendTo, run, current, audience, notFound, wire>>
    BY <1>8 DEF sigVars, vars, queueVars, runVars, linkVars
  <2> QED BY <2>1, DestUnmoved DEF OnWire
<1> QED BY <1>1, <1>2, <1>3, <1>4, <1>5, <1>6, <1>7, <1>8 DEF SigNext, HubStep, WritePump, GivesUp

LEMMA DestInvariance == SigSpec => []DestInv
<1>1. SigInit => DestInv
  BY DEF SigInit, Init, DestInv, FiledIsReachable
<1> QED BY <1>1, DestStep, BaseInvariance, FateInvariance, PTL DEF SigSpec

\* A message for a client that was filed is not dropped, and no other websocket gets it.
THEOREM FiledStaysReachable == SigSpec => []FiledIsReachable
<1>1. DestInv => FiledIsReachable
  BY DEF DestInv
<1> QED BY <1>1, DestInvariance, PTL
-----------------------------------------------------------------------------
(***************************************************************************)
(* The order on a websocket: a relayed message is newer than those already *)
(* there, and a registration is answered by one response.                  *)
(***************************************************************************)
Answered(k, c) == Carries(wire[k], [kind |-> "response", of |-> c])
Waits(k, c) == \E i \in DOMAIN outbox[k] : outbox[k][i] = c

\* A response is owed, waits, or is written: one of the three, and only for a client
\* object that was offered around this websocket.
AnswerInv ==
  \A k \in Caller, c \in Client :
    /\ answering[k] = c \/ Waits(k, c) \/ Answered(k, c) => c \in offered /\ ConnOf[c] = k
    /\ ~(answering[k] = c /\ (Waits(k, c) \/ Answered(k, c)))
    /\ ~(Waits(k, c) /\ Answered(k, c))
    /\ \A i, j \in DOMAIN outbox[k] : outbox[k][i] = c /\ outbox[k][j] = c => i = j

InOrder(f, g) == f.kind = g.kind => IF f.kind = "relay" THEN f.of < g.of ELSE f.of # g.of
Ordered(s) == \A i, j \in DOMAIN s : i < j => InOrder(s[i], s[j])

LEMMA OrderedAppend ==
  ASSUME NEW s \in Seq(Frame), NEW f \in Frame, Ordered(s), \A i \in DOMAIN s : InOrder(s[i], f)
  PROVE  Ordered(Append(s, f))
<1>1. /\ DOMAIN Append(s, f) = DOMAIN s \cup {Len(s) + 1} /\ Append(s, f)[Len(s) + 1] = f
      /\ \A i \in DOMAIN s : Append(s, f)[i] = s[i]
      /\ Len(s) \in Nat /\ DOMAIN s = 1..Len(s)
  OBVIOUS
<1> QED BY <1>1 DEF Ordered

LEMMA WireIsOrdered == WireOrder <=> \A k \in Caller : Ordered(wire[k])
BY DEF WireOrder, Ordered, InOrder

LEMMA WireAppendAnswer ==
  ASSUME SigTypeOK, NEW k \in Caller, NEW f \in Frame,
         wire' = [wire EXCEPT ![k] = Append(wire[k], f)]
  PROVE  \A l \in Caller, c \in Client :
           Answered(l, c)' <=> Answered(l, c) \/ (l = k /\ f = [kind |-> "response", of |-> c])
<1>1. wire \in [Caller -> Seq(Frame)]
  BY DEF SigTypeOK
<1> SUFFICES ASSUME NEW l \in Caller, NEW c \in Client
             PROVE  Answered(l, c)' <=> Answered(l, c)
                                        \/ (l = k /\ f = [kind |-> "response", of |-> c])
  OBVIOUS
<1> DEFINE g == [kind |-> "response", of |-> c]
<1>2. Answered(l, c) <=> Carries(wire[l], g)
  BY DEF Answered
<1>3. Answered(l, c)' <=> Carries(wire'[l], g)
  BY DEF Answered, Carries
<1> HIDE DEF g
<1>4. CASE l = k
  <2>1. wire'[l] = Append(wire[k], f) /\ wire[k] \in Seq(Frame)
    BY <1>1, <1>4
  <2>2. Carries(Append(wire[k], f), g) <=> Carries(wire[k], g) \/ g = f
    BY <2>1, CarriesAppend
  <2> QED BY <1>2, <1>3, <1>4, <2>1, <2>2 DEF g
<1>5. CASE l # k
  BY <1>1, <1>2, <1>3, <1>5
<1> QED BY <1>4, <1>5

LEMMA FrameShapes ==
  ASSUME SigTypeOK, NEW k \in Caller, NEW i \in DOMAIN wire[k]
  PROVE  \/ /\ wire[k][i].kind = "relay" /\ wire[k][i].of \in Nat /\ OnWire(k, wire[k][i].of)
         \/ /\ wire[k][i].kind = "response" /\ wire[k][i].of \in Client
            /\ Answered(k, wire[k][i].of)
<1>1. wire[k] \in Seq(Frame)
  BY DEF SigTypeOK
<1>2. wire[k][i] \in Frame
  BY <1>1, ElementTypes
<1>3. CASE wire[k][i] \in [kind : {"relay"}, of : Nat]
  <2>1. /\ wire[k][i] = [kind |-> "relay", of |-> wire[k][i].of]
        /\ wire[k][i].kind = "relay" /\ wire[k][i].of \in Nat
    BY <1>3
  <2> QED BY <2>1 DEF OnWire
<1>4. CASE wire[k][i] \in [kind : {"response"}, of : Client]
  <2>1. /\ wire[k][i] = [kind |-> "response", of |-> wire[k][i].of]
        /\ wire[k][i].kind = "response" /\ wire[k][i].of \in Client
    BY <1>4
  <2> QED BY <2>1 DEF Answered, Carries
<1> QED BY <1>2, <1>3, <1>4 DEF Frame

\* run writes a relayed message: newer than what the websocket has, and no response.
LEMMA OrderWrite ==
  ASSUME BaseInv, FateInv, AnswerInv, WireOrder, NEW c \in Client, WriteRelay(c)
  PROVE  AnswerInv' /\ WireOrder'
<1> DEFINE f == [kind |-> "relay", of |-> current]
<1>1. /\ SigTypeOK /\ run = "sending" /\ current \in Nat /\ ConnOf[c] \in Caller
      /\ wire' = [wire EXCEPT ![ConnOf[c]] = Append(wire[ConnOf[c]], f)]
      /\ UNCHANGED <<answering, outbox, offered>>
  BY HandEmpties, LineOrder, SignalingAssumption DEF WriteRelay, Deliver, BaseInv
<1>2. f \in Frame /\ f.kind = "relay" /\ f.of = current
  BY <1>1 DEF Frame
<1>3. \A d : f # [kind |-> "response", of |-> d]
  OBVIOUS
<1> HIDE DEF f
<1>4. \A l \in Caller, d \in Client : Answered(l, d)' <=> Answered(l, d)
  BY <1>1, <1>2, <1>3, WireAppendAnswer
<1>5. AnswerInv'
  BY <1>1, <1>4 DEF AnswerInv, Waits
<1>6. \A n \in Nat : OnWire(ConnOf[c], n) => n < current
  BY <1>1 DEF FateInv, Gone
<1>7. ASSUME NEW i \in DOMAIN wire[ConnOf[c]] PROVE InOrder(wire[ConnOf[c]][i], f)
  BY <1>1, <1>2, <1>6, FrameShapes DEF InOrder
<1>8. wire \in [Caller -> Seq(Frame)] /\ \A l \in Caller : Ordered(wire[l])
  BY <1>1, WireIsOrdered DEF SigTypeOK
<1>9. Ordered(Append(wire[ConnOf[c]], f))
  BY <1>1, <1>2, <1>7, <1>8, OrderedAppend
<1>10. \A l \in Caller : Ordered(wire'[l])
  BY <1>1, <1>8, <1>9
<1> QED BY <1>5, <1>10 DEF WireOrder, Ordered, InOrder

\* The write pump takes the oldest response: it is the only one for its client.
LEMMA OutboxTail ==
  ASSUME BaseInv, AnswerInv, NEW k \in Caller, outbox[k] # <<>>,
         outbox' = [outbox EXCEPT ![k] = Tail(outbox[k])]
  PROVE  /\ Head(outbox[k]) \in Client /\ Waits(k, Head(outbox[k])) /\ ~Answered(k, Head(outbox[k]))
         /\ \A d \in Client : Waits(k, d)' => Waits(k, d) /\ d # Head(outbox[k])
         /\ \A l \in Caller \ {k} : outbox'[l] = outbox[l]
         /\ \A l \in Caller, d \in Client : \A i, j \in DOMAIN outbox'[l] :
              outbox'[l][i] = d /\ outbox'[l][j] = d => i = j
<1> DEFINE h == Head(outbox[k])
<1>1. outbox[k] \in Seq(Client) /\ outbox \in [Caller -> Seq(Client)]
  BY DEF BaseInv, SigTypeOK
<1>2. h \in Client
  BY <1>1, SequenceTypes
<1>3. /\ Len(outbox[k]) \in Nat \ {0} /\ Len(Tail(outbox[k])) = Len(outbox[k]) - 1
      /\ h = outbox[k][1]
      /\ DOMAIN outbox[k] = 1..Len(outbox[k])
      /\ DOMAIN Tail(outbox[k]) = 1..Len(Tail(outbox[k]))
      /\ \A i \in 1..Len(Tail(outbox[k])) : Tail(outbox[k])[i] = outbox[k][i + 1]
  BY <1>1, TailFacts
<1> HIDE DEF h
<1>4. Waits(k, h) /\ ~Answered(k, h)
  BY <1>2, <1>3 DEF Waits, AnswerInv
<1>5. /\ \A i \in DOMAIN outbox'[k] : i + 1 \in DOMAIN outbox[k] /\ i + 1 # 1
                                      /\ outbox'[k][i] = outbox[k][i + 1]
      /\ \A i \in DOMAIN outbox'[k] : i \in Int
      /\ 1 \in DOMAIN outbox[k]
  BY <1>1, <1>3
<1>6. \A l \in Caller \ {k} : outbox'[l] = outbox[l]
  BY <1>1
<1>7. \A d \in Client : Waits(k, d)' => Waits(k, d) /\ d # h
  BY <1>2, <1>3, <1>5 DEF Waits, AnswerInv
<1>8. ASSUME NEW l \in Caller, NEW d \in Client,
             NEW i \in DOMAIN outbox'[l], NEW j \in DOMAIN outbox'[l],
             outbox'[l][i] = d, outbox'[l][j] = d
      PROVE  i = j
  <2>1. CASE l = k
    <3>1. i + 1 = j + 1
      BY <1>5, <1>8, <2>1 DEF AnswerInv
    <3> QED BY <1>5, <2>1, <3>1
  <2>2. CASE l # k
    BY <1>6, <1>8, <2>2 DEF AnswerInv
  <2> QED BY <2>1, <2>2
<1> QED BY <1>2, <1>4, <1>6, <1>7, <1>8 DEF h

\* The write pump writes a response that is not there yet.
LEMMA OrderResponse ==
  ASSUME BaseInv, AnswerInv, WireOrder, NEW k \in Caller, WriteResponse(k)
  PROVE  AnswerInv' /\ WireOrder'
<1> DEFINE h == Head(outbox[k])
           f == [kind |-> "response", of |-> h]
<1>1. /\ SigTypeOK /\ outbox[k] # <<>> /\ outbox[k] \in Seq(Client)
      /\ wire \in [Caller -> Seq(Frame)] /\ outbox \in [Caller -> Seq(Client)]
      /\ wire' = [wire EXCEPT ![k] = Append(wire[k], f)]
      /\ outbox' = [outbox EXCEPT ![k] = Tail(outbox[k])]
      /\ UNCHANGED <<answering, offered>>
  BY DEF WriteResponse, Takes, vars, BaseInv, SigTypeOK
<1>2. h \in Client
  BY <1>1, SequenceTypes
<1>3. f \in Frame /\ f.kind = "response" /\ f.of = h
  BY <1>2 DEF Frame
<1>4. \A d : f = [kind |-> "response", of |-> d] <=> d = h
  OBVIOUS
<1>5. /\ Waits(k, h) /\ ~Answered(k, h)
      /\ \A d \in Client : Waits(k, d)' => Waits(k, d) /\ d # h
      /\ \A l \in Caller \ {k} : outbox'[l] = outbox[l]
      /\ \A l \in Caller, d \in Client : \A i, j \in DOMAIN outbox'[l] :
           outbox'[l][i] = d /\ outbox'[l][j] = d => i = j
  BY <1>1, OutboxTail
<1> HIDE DEF h, f
<1>6. \A l \in Caller, d \in Client : Answered(l, d)' <=> Answered(l, d) \/ (l = k /\ d = h)
  BY <1>1, <1>3, <1>4, WireAppendAnswer
<1>7. \A l \in Caller \ {k}, d \in Client : Waits(l, d)' <=> Waits(l, d)
  BY <1>5 DEF Waits
<1>8. AnswerInv'
  BY <1>1, <1>5, <1>6, <1>7 DEF AnswerInv
<1>9. ASSUME NEW i \in DOMAIN wire[k] PROVE InOrder(wire[k][i], f)
  BY <1>1, <1>3, <1>5, FrameShapes DEF InOrder
<1>10. \A l \in Caller : Ordered(wire[l])
  BY WireIsOrdered
<1>11. Ordered(Append(wire[k], f))
  BY <1>1, <1>3, <1>9, <1>10, OrderedAppend
<1>12. \A l \in Caller : Ordered(wire'[l])
  BY <1>1, <1>10, <1>11
<1> QED BY <1>8, <1>12 DEF WireOrder, Ordered, InOrder

\* The response it fails to write is gone.
LEMMA OrderResponseFails ==
  ASSUME BaseInv, AnswerInv, WireOrder, NEW k \in Caller, WriteResponseFails(k)
  PROVE  AnswerInv' /\ WireOrder'
<1>1. /\ outbox[k] # <<>> /\ outbox' = [outbox EXCEPT ![k] = Tail(outbox[k])]
      /\ UNCHANGED <<answering, offered, wire>>
  BY DEF WriteResponseFails, Takes, vars
<1>2. /\ \A d \in Client : Waits(k, d)' => Waits(k, d)
      /\ \A l \in Caller \ {k} : outbox'[l] = outbox[l]
      /\ \A l \in Caller, d \in Client : \A i, j \in DOMAIN outbox'[l] :
           outbox'[l][i] = d /\ outbox'[l][j] = d => i = j
  BY <1>1, OutboxTail
<1>3. \A l \in Caller, d \in Client : /\ Waits(l, d)' => Waits(l, d)
                                      /\ Answered(l, d)' <=> Answered(l, d)
  BY <1>1, <1>2 DEF Waits, Answered, Carries
<1>4. AnswerInv'
  BY <1>1, <1>2, <1>3 DEF AnswerInv
<1> QED BY <1>1, <1>4 DEF WireOrder

\* The read pump puts the response it owes into its channel, or drops it.
LEMMA OrderRespond ==
  ASSUME BaseInv, AnswerInv, NEW k \in Caller, Respond(k)
  PROVE  AnswerInv'
<1> DEFINE a == answering[k]
<1>1. /\ a \in Client /\ a # NoClient /\ NoClient \notin Client
      /\ outbox \in [Caller -> Seq(Client)] /\ answering \in [Caller -> Client \cup {NoClient}]
      /\ answering' = [answering EXCEPT ![k] = NoClient]
      /\ UNCHANGED <<wire, offered>>
      /\ outbox' = outbox \/ outbox' = [outbox EXCEPT ![k] = Append(outbox[k], a)]
  BY HubAssumption DEF Respond, Owes, vars, BaseInv, SigTypeOK
<1> HIDE DEF a
<1>2. \A l \in Caller, d \in Client : /\ Answered(l, d)' <=> Answered(l, d)
                                      /\ answering'[l] = d <=> answering[l] = d /\ l # k
  BY <1>1 DEF Answered, Carries
<1>3. CASE outbox' = outbox
  BY <1>1, <1>2, <1>3 DEF AnswerInv, Waits
<1>4. CASE outbox' = [outbox EXCEPT ![k] = Append(outbox[k], a)]
  <2>1. /\ outbox'[k] = Append(outbox[k], a) /\ outbox[k] \in Seq(Client)
        /\ \A l \in Caller \ {k} : outbox'[l] = outbox[l]
    BY <1>1, <1>4
  <2>2. /\ DOMAIN outbox'[k] = DOMAIN outbox[k] \cup {Len(outbox[k]) + 1}
        /\ outbox'[k][Len(outbox[k]) + 1] = a
        /\ \A i \in DOMAIN outbox[k] : outbox'[k][i] = outbox[k][i]
    BY <1>1, <2>1
  <2>3. \A d \in Client : Waits(k, d)' <=> Waits(k, d) \/ d = a
    BY <1>1, <2>2 DEF Waits
  <2>4. ~Waits(k, a) /\ ~Answered(k, a) /\ a \in offered /\ ConnOf[a] = k
    BY <1>1 DEF AnswerInv, a
  <2> SUFFICES ASSUME NEW l \in Caller, NEW d \in Client
               PROVE  /\ answering'[l] = d \/ Waits(l, d)' \/ Answered(l, d)' =>
                           d \in offered' /\ ConnOf[d] = l
                      /\ ~(answering'[l] = d /\ (Waits(l, d)' \/ Answered(l, d)'))
                      /\ ~(Waits(l, d)' /\ Answered(l, d)')
                      /\ \A i, j \in DOMAIN outbox'[l] :
                           outbox'[l][i] = d /\ outbox'[l][j] = d => i = j
    BY DEF AnswerInv
  <2>5. CASE l = k
    <3>1. \A i, j \in DOMAIN outbox'[k] : outbox'[k][i] = d /\ outbox'[k][j] = d => i = j
      BY <2>2, <2>4 DEF AnswerInv, Waits
    <3> QED BY <1>1, <1>2, <2>3, <2>4, <2>5, <3>1 DEF AnswerInv
  <2>6. CASE l # k
    <3>1. Waits(l, d)' <=> Waits(l, d)
      BY <2>1, <2>6 DEF Waits
    <3> QED BY <1>1, <1>2, <2>1, <2>6, <3>1 DEF AnswerInv
  <2> QED BY <2>5, <2>6
<1> QED BY <1>1, <1>3, <1>4

LEMMA OrderUnmoved ==
  ASSUME AnswerInv, WireOrder, UNCHANGED <<answering, outbox, wire>>, offered \subseteq offered'
  PROVE  AnswerInv' /\ WireOrder'
<1>1. \A l \in Caller, c \in Client : /\ Answered(l, c)' <=> Answered(l, c)
                                      /\ Waits(l, c)' <=> Waits(l, c)
  BY DEF Answered, Carries, Waits
<1> QED BY <1>1 DEF AnswerInv, WireOrder

LEMMA OrderStep ==
  ASSUME BaseInv, FateInv, AnswerInv, WireOrder, [SigNext]_sigVars
  PROVE  AnswerInv' /\ WireOrder'
<1>1. ASSUME NEW k \in Caller, HandlesRequest(k) PROVE AnswerInv' /\ WireOrder'
  <2>1. ASSUME NEW c \in Client, RegisterRequest(k, c) PROVE AnswerInv' /\ WireOrder'
    <3>1. /\ c \notin offered /\ offered' = offered \cup {c} /\ answering[k] = NoClient
          /\ ConnOf[c] = k
          /\ answering' = answering \/ answering' = [answering EXCEPT ![k] = c]
          /\ answering \in [Caller -> Client \cup {NoClient}] /\ UNCHANGED <<outbox, wire>>
      BY <2>1 DEF RegisterRequest, Register, Ready, BaseInv, SigTypeOK
    <3>2. \A l \in Caller, d \in Client : /\ Answered(l, d)' <=> Answered(l, d)
                                          /\ Waits(l, d)' <=> Waits(l, d)
                                          /\ answering'[l] = d => answering[l] = d \/ (d = c /\ l = k)
      BY <3>1 DEF Answered, Carries, Waits
    <3> QED BY <3>1, <3>2 DEF AnswerInv, WireOrder
  <2>2. CASE Respond(k)
    BY <2>2, OrderRespond DEF Respond, WireOrder
  <2>3. CASE \/ \E id \in Id : RelayRequest(k, id)
             \/ Relay(k) \/ RequestFails(k) \/ RequestCounted(k)
    <3>1. UNCHANGED <<answering, outbox, wire, offered>>
      BY <2>3 DEF RelayRequest, BeginSendTo, Relay, SendTo, RequestFails, SendToRefused,
        RequestCounted, CountReceived, linkVars
    <3> QED BY <3>1, OrderUnmoved
  <2> QED BY <1>1, <2>1, <2>2, <2>3 DEF HandlesRequest
<1>2. ASSUME NEW k \in Caller, WriteResponse(k) PROVE AnswerInv' /\ WireOrder'
  BY <1>2, OrderResponse
<1>3. ASSUME NEW c \in Client, WriteRelay(c) PROVE AnswerInv' /\ WireOrder'
  BY <1>3, OrderWrite
<1>4. ASSUME NEW k \in Caller, WriteResponseFails(k) PROVE AnswerInv' /\ WireOrder'
  BY <1>4, OrderResponseFails
<1>5. CASE \/ \E k \in Caller : PingFails(k) \/ Disconnect(k)
           \/ TakeRegister \/ TakeSendTo \/ \E c \in Client : WriteRelayFails(c)
           \/ StartHub \/ UNCHANGED sigVars
  <2>1. UNCHANGED <<answering, outbox, wire, offered>>
    BY <1>5 DEF PingFails, Disconnect, TakeRegister, HandleRegister, TakeSendTo, HandleSendTo,
      WriteRelayFails, DeliverFails, StartHub, Start, linkVars, sigVars, vars
  <2> QED BY <2>1, OrderUnmoved
<1> QED BY <1>1, <1>2, <1>3, <1>4, <1>5 DEF SigNext, HubStep, WritePump

LEMMA OrderInvariance == SigSpec => [](AnswerInv /\ WireOrder)
<1>1. SigInit => AnswerInv /\ WireOrder
  BY HubAssumption DEF SigInit, Init, AnswerInv, WireOrder, Waits, Answered, Carries
<1> QED BY <1>1, OrderStep, BaseInvariance, FateInvariance, PTL DEF SigSpec

\* On every websocket the relayed messages come in the order of their acceptance, and
\* none of them nor any response comes twice, although two goroutines write.
THEOREM WireStaysInOrder == SigSpec => []WireOrder
<1> QED BY OrderInvariance, PTL

-----------------------------------------------------------------------------
(***************************************************************************)
(* The server implements the relay.                                        *)
(***************************************************************************)
Open    == {k \in Caller : link[k] # "down"}
Working == {k \in Caller : link[k] = "up"}
Log     == [n \in DOMAIN relayed |-> [from |-> relayed[n].from, to |-> relayed[n].to]]
Waiting == {n \in DOMAIN relayed : InLine(n) \/ InHand(n)}

RelayInv == BaseInv /\ FateInv /\ DestInv /\ AnswerInv

LEMMA RelayUnmoved ==
  ASSUME UNCHANGED <<link, offered, clients, relayed, wire>>,
         \A n \in DOMAIN relayed : (InLine(n) \/ InHand(n))' <=> InLine(n) \/ InHand(n)
  PROVE  UNCHANGED R!vars
<1>1. Open' = Open /\ Working' = Working /\ Log' = Log
  BY DEF Open, Working, Log
<1>2. Waiting' = Waiting
  BY DEF Waiting
<1> QED BY <1>1, <1>2 DEF R!vars, Open, Working, Log, Waiting

\* A step of the pumps or the hub that only asks or answers moves no message.
LEMMA LineUnmoved ==
  ASSUME UNCHANGED <<sendTo, run, current, relayed>>
  PROVE  /\ Log' = Log /\ Waiting' = Waiting
         /\ \A n \in DOMAIN relayed : (InLine(n) \/ InHand(n))' <=> InLine(n) \/ InHand(n)
<1>1. \A n : (InLine(n)' <=> InLine(n)) /\ (InHand(n)' <=> InHand(n))
  BY DEF InLine, InHand
<1> QED BY <1>1 DEF Log, Waiting

LEMMA RelayAsks ==
  ASSUME NEW k \in Caller, NEW c \in Client, RegisterRequest(k, c)
  PROVE  R!Ask(c)
<1>1. /\ ConnOf[c] = k /\ link[k] # "down" /\ c \notin offered /\ offered' = offered \cup {c}
      /\ UNCHANGED <<link, clients, relayed, wire, sendTo, run, current>>
  BY DEF RegisterRequest, Ready, Register, runVars
<1>2. Open' = Open /\ Working' = Working /\ ConnOf[c] \in Open
  BY <1>1 DEF Open, Working
<1> QED BY <1>1, <1>2, LineUnmoved DEF R!Ask, Open, Working, Log, Waiting

LEMMA RelayAnswers ==
  ASSUME RelayInv, NEW k \in Caller, WriteResponse(k)
  PROVE  \E c \in Client : R!Answer(c)
<1> DEFINE h == Head(outbox[k])
           f == [kind |-> "response", of |-> h]
<1>1. /\ outbox[k] \in Seq(Client) /\ outbox[k] # <<>> /\ link[k] = "up"
      /\ wire' = [wire EXCEPT ![k] = Append(wire[k], f)]
      /\ UNCHANGED <<link, clients, offered, relayed, sendTo, run, current>>
  BY DEF WriteResponse, vars, queueVars, runVars, RelayInv, BaseInv, SigTypeOK
<1>2. h \in Client /\ Waits(k, h)
  BY <1>1, TailFacts, SequenceTypes DEF Waits
<1>3. h \in offered /\ ConnOf[h] = k /\ ~Answered(k, h)
  BY <1>2 DEF RelayInv, AnswerInv
<1>4. \A i \in DOMAIN wire[k] : wire[k][i] # f
  BY <1>3 DEF Answered, Carries
<1> HIDE DEF h
<1>5. Open' = Open /\ Working' = Working /\ k \in Working
  BY <1>1 DEF Open, Working
<1>6. R!Answer(h)
  BY <1>1, <1>3, <1>4, <1>5, LineUnmoved DEF R!Answer, R!Writes, Open, Working, Log, Waiting
<1> QED BY <1>2, <1>6

LEMMA RelayHangsUp ==
  ASSUME NEW k \in Caller, Disconnect(k), SigTypeOK
  PROVE  R!HangUp(k)
<1>1. /\ link[k] # "down" /\ link' = [link EXCEPT ![k] = "down"]
      /\ UNCHANGED <<clients, offered, relayed, wire, sendTo, run, current>>
  BY DEF Disconnect, vars, queueVars, runVars
<1>2. Open' = Open \ {k} /\ Working' = Working \ {k} /\ k \in Open
  BY <1>1 DEF Open, Working, SigTypeOK
<1> QED BY <1>1, <1>2, LineUnmoved DEF R!HangUp, R!Breaks, Open, Working, Log, Waiting

\* A write of the write pump fails: nothing more reaches that websocket.
LEMMA RelayBreaks ==
  ASSUME NEW k \in Caller, WriteResponseFails(k) \/ PingFails(k), SigTypeOK
  PROVE  R!Break(k)
<1>1. /\ link[k] # "down" /\ link' = [link EXCEPT ![k] = "mute"]
      /\ UNCHANGED <<clients, offered, relayed, wire, sendTo, run, current>>
  BY DEF WriteResponseFails, PingFails, vars, queueVars, runVars
<1>2. Open' = Open /\ Working' = Working \ {k}
  BY <1>1 DEF Open, Working, SigTypeOK
<1> QED BY <1>1, <1>2, LineUnmoved DEF R!Break, R!Breaks, Open, Working, Log, Waiting

LEMMA RelayJoins ==
  ASSUME RelayInv, TakeRegister
  PROVE  (\E c \in Client : R!Join(c)) \/ UNCHANGED R!vars
<1> DEFINE c == Head(register)
<1>1. /\ register # <<>> /\ register \in Seq(Client) /\ clients' = Filed(c)
      /\ UNCHANGED <<link, offered, relayed, wire, sendTo, run, current>>
  BY DEF TakeRegister, HandleRegister, runVars, linkVars, RelayInv, BaseInv, HubInv, TypeOK
<1>2. c \in Client /\ \E i \in DOMAIN register : register[i] = c
  BY <1>1, TailFacts, SequenceTypes
<1>3. c \in offered
  BY <1>2 DEF RelayInv, BaseInv, HubInv, RegistryInv
<1> HIDE DEF c
<1>4. Open' = Open /\ Working' = Working
  BY <1>1 DEF Open, Working
<1>5. CASE clients[IDOf[c]] = NoClient
  <2>1. R!Join(c)
    BY <1>1, <1>3, <1>4, <1>5, LineUnmoved DEF R!Join, Filed, Open, Working, Log, Waiting
  <2> QED BY <1>2, <2>1
<1>6. CASE clients[IDOf[c]] # NoClient
  <2>1. clients' = clients
    BY <1>1, <1>6 DEF Filed
  <2> QED BY <1>1, <2>1, LineUnmoved, RelayUnmoved
<1> QED BY <1>5, <1>6

LEMMA FunctionIsSequence ==
  ASSUME NEW S, NEW n \in Nat, NEW s \in [1..n -> S]
  PROVE  s \in Seq(S) /\ Len(s) = n
OBVIOUS

LEMMA SameSequence ==
  ASSUME NEW S, NEW s \in Seq(S), NEW n \in Nat, Len(s) = n, NEW t,
         t = [i \in 1..n |-> t[i]], \A i \in 1..n : t[i] = s[i]
  PROVE  t = s
<1>1. t \in Seq(S) /\ Len(t) = n
  <2>1. \A i \in 1..n : s[i] \in S
    OBVIOUS
  <2>2. t \in [1..n -> S]
    BY <2>1
  <2> QED BY <2>2, FunctionIsSequence
<1> QED BY <1>1, SeqEqual

LEMMA LogFacts ==
  ASSUME RelayInv
  PROVE  /\ Log \in Seq([from : Caller, to : Id]) /\ Len(Log) = direct
         /\ DOMAIN relayed = 1..direct /\ direct \in Nat
         /\ \A n \in DOMAIN relayed : Log[n].to = relayed[n].to
<1>1. /\ DOMAIN relayed = 1..direct /\ direct \in Nat
      /\ relayed \in Seq([from : Caller, to : Id, filed : SUBSET Client,
                          early : BOOLEAN])
  BY RelayedFacts DEF RelayInv
<1>2. \A n \in 1..direct : relayed[n].from \in Caller /\ relayed[n].to \in Id
  <2>1. \A n \in 1..direct : relayed[n] \in [from : Caller, to : Id, filed : SUBSET Client,
                                             early : BOOLEAN]
    BY <1>1, ElementTypes
  <2> QED BY <2>1
<1>3. Log \in [1..direct -> [from : Caller, to : Id]]
  BY <1>1, <1>2 DEF Log
<1>4. \A n \in DOMAIN relayed : Log[n].to = relayed[n].to
  BY DEF Log
<1> HIDE DEF Log
<1>5. Log \in Seq([from : Caller, to : Id]) /\ Len(Log) = direct
  BY <1>1, <1>3, FunctionIsSequence
<1> QED BY <1>1, <1>4, <1>5

LEMMA RelayAccepts ==
  ASSUME RelayInv, NEW k \in Caller, Relay(k)
  PROVE  \E id \in Id : R!Accept(k, id)
<1>0. PICK id \in Id : id = Head(pending[k])
  <2>1. pending[k] # <<>> /\ pending[k] \in Seq(Id)
    BY DEF Relay, SendTo, RelayInv, BaseInv, HubInv, TypeOK
  <2> QED BY <2>1, SequenceTypes
<1> DEFINE e == [clientID |-> id, message |-> direct + 1]
           r == [from |-> k, to |-> id, filed |-> {clients[id]} \ {NoClient},
                 early |-> clients[id] = NoClient
                   /\ \E c \in Confirmed : IDOf[c] = id /\ link[ConnOf[c]] # "down"]
           l == [from |-> k, to |-> id]
<1>1. /\ sendTo' = Append(sendTo, e) /\ relayed' = Append(relayed, r)
      /\ UNCHANGED <<link, clients, offered, wire, run, current>>
  BY <1>0 DEF Relay, SendTo, runVars
<1>3. /\ e \in Envelope /\ e.message = direct + 1 /\ r.from = k /\ r.to = id
      /\ l \in [from : Caller, to : Id]
  BY LogFacts DEF Envelope
<1>4. l = [from |-> r.from, to |-> r.to]
  BY <1>3
<1> HIDE DEF e, r, l
<1>5. \A n : InLine(n)' <=> InLine(n) \/ n = direct + 1
  BY <1>1, <1>3, LineAppend DEF RelayInv
<1>6. \A n : InHand(n)' <=> InHand(n)
  BY <1>1 DEF InHand
<1>7. /\ DOMAIN relayed' = DOMAIN relayed \cup {direct + 1} /\ relayed'[direct + 1] = r
      /\ \A n \in DOMAIN relayed : relayed'[n] = relayed[n]
  BY <1>1, RelayedFacts DEF RelayInv
<1>8. /\ Log' = Append(Log, l) /\ Len(Log') = direct + 1
  <2> DEFINE new == Append(Log, l)
  <2>1. /\ new \in Seq([from : Caller, to : Id]) /\ Len(new) = direct + 1
        /\ new[direct + 1] = l /\ \A n \in 1..direct : new[n] = Log[n]
    <3> HIDE DEF Log
    <3>1. Log \in Seq([from : Caller, to : Id]) /\ Len(Log) = direct
      BY LogFacts
    <3> QED BY <1>3, <3>1, AppendProperties
  <2>2. /\ Log' = [n \in 1..(direct + 1) |-> Log'[n]]
        /\ Log'[direct + 1] = l /\ \A n \in 1..direct : Log'[n] = Log[n]
    <3>1. Log' = [n \in DOMAIN relayed' |-> Log'[n]]
      BY DEF Log
    <3>2. DOMAIN relayed' = 1..(direct + 1)
      BY <1>7, LogFacts
    <3>3. Log'[direct + 1] = l /\ \A n \in 1..direct : Log'[n] = Log[n]
      BY <1>4, <1>7, LogFacts DEF Log
    <3> QED BY <3>1, <3>2, <3>3
  <2>3. \A n \in 1..(direct + 1) : Log'[n] = new[n]
    BY <2>1, <2>2, LogFacts
  <2>4. direct + 1 \in Nat
    BY LogFacts
  <2> HIDE DEF new, Log
  <2>5. Log' = new
    BY <2>1, <2>2, <2>3, <2>4, SameSequence
  <2> QED BY <2>1, <2>5 DEF new
<1>9. Waiting' = Waiting \cup {Len(Log')}
  BY <1>5, <1>6, <1>7, <1>8 DEF Waiting
<1>10. Open' = Open /\ Working' = Working
  BY <1>1 DEF Open, Working
<1>11. R!Accept(k, id)
  BY <1>1, <1>8, <1>9, <1>10 DEF R!Accept, Open, Working, Log, Waiting, l
<1> QED BY <1>11

\* run takes a message for nobody: it was the oldest of all.
LEMMA RelayTakes ==
  ASSUME RelayInv, TakeSendTo
  PROVE  (\E n \in Waiting : R!Lose(n)) \/ UNCHANGED R!vars
<1> DEFINE h == Head(sendTo)
           m == h.message
<1>1. /\ run = "select" /\ sendTo # <<>> /\ sendTo' = Tail(sendTo) /\ current' = m
      /\ audience' = {clients[h.clientID]} \ {NoClient}
      /\ run' = IF audience' = {} THEN "select" ELSE "sending"
      /\ UNCHANGED <<link, offered, clients, relayed, wire>>
  BY DEF TakeSendTo, HandleSendTo
<1>2. /\ m \in Nat /\ InLine(m)
      /\ \A n : InLine(n) <=> InLine(n)' \/ n = m
      /\ \A i \in DOMAIN sendTo' : m < sendTo'[i].message
  BY <1>1, LineTail DEF RelayInv, Envelope
<1>3. h.clientID = relayed[m].to /\ m \in DOMAIN relayed
  BY <1>1, LineOrder, TailFacts, RelayedFacts DEF RelayInv, DestInv
<1> HIDE DEF m, h
<1>4. \A n : ~InHand(n) /\ (InHand(n)' <=> audience' # {} /\ n = m)
  BY <1>1 DEF InHand
<1>5. CASE audience' # {}
  BY <1>1, <1>2, <1>4, <1>5, RelayUnmoved
<1>6. CASE audience' = {}
  <2>1. Waiting' = Waiting \ {m} /\ m \in Waiting
    <3> PICK x \in Nat : x = m
      BY <1>2
    <3>1. ~\E i \in DOMAIN sendTo' : sendTo'[i].message = x
      BY <1>2
    <3>2. /\ \A n : InLine(n)' => n # x /\ InLine(n)
          /\ \A n : InLine(n) => n = x \/ InLine(n)'
      <4>1. ~InLine(x)'
        BY <3>1 DEF InLine
      <4>2. \A n : InLine(n)' => n # x
        BY <4>1
      <4> QED BY <1>2, <4>2
    <3>3. Waiting' = Waiting \ {x} /\ x \in Waiting
      BY <1>1, <1>2, <1>3, <1>4, <1>6, <3>2 DEF Waiting
    <3> QED BY <3>3
  <2>2. \A n \in Waiting : m <= n
    <3> SUFFICES ASSUME NEW n \in Waiting, n # m PROVE m <= n
      BY <1>2
    <3>1. InLine(n)' /\ n \in Nat
      BY <1>2, <1>4, LogFacts DEF Waiting
    <3> QED BY <1>2, <3>1 DEF InLine
  <2>3. clients[Log[m].to] = NoClient
    BY <1>1, <1>3, <1>6, LogFacts
  <2>4. Open' = Open /\ Working' = Working /\ Log' = Log
    BY <1>1 DEF Open, Working, Log
  <2> PICK n \in Waiting : n = m
    BY <2>1
  <2>5. R!Lose(n)
    BY <1>1, <2>1, <2>2, <2>3, <2>4 DEF R!Lose, R!Oldest, R!Gone, Open, Working, Log, Waiting
  <2> QED BY <2>5
<1> QED BY <1>5, <1>6

\* run writes to the client that is filed, or loses the message with its websocket,
\* to which nothing is written after that.
LEMMA RelayServes ==
  ASSUME RelayInv, NEW c \in Client, WriteRelay(c) \/ WriteRelayFails(c)
  PROVE  \E n \in Waiting : R!HandOver(n) \/ R!Lose(n)
<1>1. /\ run = "sending" /\ audience = {c} /\ run' = "select"
      /\ UNCHANGED <<offered, clients, sendTo, current, relayed>>
  BY HandEmpties DEF WriteRelay, WriteRelayFails, Deliver, DeliverFails, RelayInv
<1>2. /\ current \in Nat /\ current \in DOMAIN relayed
      /\ \A i \in DOMAIN sendTo : current < sendTo[i].message
      /\ clients[relayed[current].to] = c /\ c # NoClient
  BY <1>1, LineOrder, RelayedFacts, HubAssumption DEF RelayInv, DestInv
<1>3. \A n : /\ InHand(n) <=> n = current
             /\ ~InHand(n)'
             /\ InLine(n)' <=> InLine(n)
  BY <1>1 DEF InHand, InLine
<1>4. /\ Waiting' = Waiting \ {current} /\ current \in Waiting
      /\ \A n \in Waiting : current <= n
  <2>1. ~InLine(current)
    BY <1>2 DEF InLine
  <2>2. \A n \in Waiting : n \in Nat
    BY LogFacts DEF Waiting
  <2> QED BY <1>1, <1>2, <1>3, <2>1, <2>2 DEF Waiting, InLine
<1>5. Log[current].to = relayed[current].to
  BY <1>2, LogFacts
<1>6. Log' = Log
  BY <1>1 DEF Log
<1>7. CASE WriteRelay(c)
  <2>1. /\ ConnOf[c] \in Working /\ Open' = Open /\ Working' = Working
        /\ wire' = [wire EXCEPT ![ConnOf[c]] =
                      Append(wire[ConnOf[c]], [kind |-> "relay", of |-> current])]
    BY <1>7, SignalingAssumption DEF WriteRelay, Open, Working
  <2>2. R!HandOver(current)
    BY <1>1, <1>2, <1>4, <1>5, <1>6, <2>1
       DEF R!HandOver, R!Oldest, R!Gone, R!Writes, Open, Working, Log, Waiting
  <2> QED BY <1>4, <2>2
<1>8. CASE WriteRelayFails(c)
  <2>1. Open' = Open /\ Working' = Working \ {ConnOf[c]} /\ UNCHANGED wire
    BY <1>8, SignalingAssumption DEF WriteRelayFails, Open, Working, RelayInv, BaseInv, SigTypeOK
  <2> PICK n \in Waiting : n = current
    BY <1>4
  <2>2. R!Lose(n)
    BY <1>1, <1>2, <1>4, <1>5, <1>6, <2>1
       DEF R!Lose, R!Breaks, R!Oldest, R!Gone, Open, Working, Log, Waiting
  <2> QED BY <2>2
<1> QED BY <1>7, <1>8

LEMMA RelayStep == ASSUME RelayInv, [SigNext]_sigVars PROVE [R!Next]_(R!vars)
<1>1. ASSUME NEW k \in Caller, HandlesRequest(k) PROVE [R!Next]_(R!vars)
  <2>1. ASSUME NEW c \in Client, RegisterRequest(k, c) PROVE R!Next
    BY <2>1, RelayAsks DEF R!Next
  <2>2. CASE Relay(k)
    BY <2>2, RelayAccepts DEF R!Next
  <2>3. CASE \/ \E id \in Id : RelayRequest(k, id)
             \/ RequestFails(k) \/ RequestCounted(k) \/ Respond(k)
    <3>1. UNCHANGED <<link, offered, clients, relayed, wire, sendTo, run, current>>
      BY <2>3 DEF RelayRequest, BeginSendTo, RequestFails, SendToRefused, RequestCounted,
        CountReceived, Respond, vars, queueVars, runVars, linkVars
    <3> QED BY <3>1, LineUnmoved, RelayUnmoved
  <2> QED BY <1>1, <2>1, <2>2, <2>3 DEF HandlesRequest
<1>2. ASSUME NEW k \in Caller, WriteResponse(k) PROVE R!Next
  BY <1>2, RelayAnswers DEF R!Next
<1>3. ASSUME NEW k \in Caller, Disconnect(k) PROVE R!Next
  BY <1>3, RelayHangsUp DEF R!Next, RelayInv, BaseInv
<1>4. ASSUME NEW k \in Caller, WriteResponseFails(k) \/ PingFails(k) PROVE R!Next
  BY <1>4, RelayBreaks DEF R!Next, RelayInv, BaseInv
<1>5. CASE TakeRegister
  BY <1>5, RelayJoins DEF R!Next
<1>6. CASE TakeSendTo
  BY <1>6, RelayTakes DEF R!Next, Waiting
<1>7. ASSUME NEW c \in Client, WriteRelay(c) \/ WriteRelayFails(c) PROVE R!Next
  BY <1>7, RelayServes DEF R!Next, Waiting
<1>8. CASE StartHub
  <2>1. UNCHANGED <<link, offered, clients, relayed, wire, sendTo, current>>
        /\ run' = "select" /\ run # "sending"
    BY <1>8 DEF StartHub, Start, queueVars, linkVars, RelayInv, BaseInv, HubInv, StopInv
  <2>2. \A n : (InLine(n) \/ InHand(n))' <=> InLine(n) \/ InHand(n)
    BY <2>1 DEF InLine, InHand
  <2> QED BY <2>1, <2>2, RelayUnmoved
<1>9. CASE UNCHANGED sigVars
  <2>1. UNCHANGED <<link, offered, clients, relayed, wire, sendTo, run, current>>
    BY <1>9 DEF sigVars, vars, queueVars, runVars, linkVars
  <2> QED BY <2>1, LineUnmoved, RelayUnmoved
<1> QED BY <1>1, <1>2, <1>3, <1>4, <1>5, <1>6, <1>7, <1>8, <1>9 DEF SigNext, HubStep, WritePump

LEMMA RelayInit == SigInit => R!Init
<1> SUFFICES ASSUME SigInit PROVE R!Init
  OBVIOUS
<1>1. /\ link = [k \in Caller |-> "up"] /\ offered = {} /\ relayed = <<>>
      /\ clients = [id \in Id |-> NoClient] /\ wire = [k \in Caller |-> <<>>]
  BY DEF SigInit, Init
<1>2. Open = Caller /\ Working = Caller /\ Log = <<>> /\ Waiting = {}
  BY <1>1 DEF Open, Working, Log, Waiting
<1> QED BY <1>1, <1>2 DEF R!Init, Open, Working, Log, Waiting

\* The server implements the relay: one sender's messages leave in order, each for
\* the websocket of the client filed under the receiver's ID, or are lost for want
\* of a client, or with that websocket, to which nothing more is written; no ID
\* changes hands and no registration is answered twice.
THEOREM SignalingImplementsRelay == SigSpec => ImplementsRelay
<1>1. BaseInv /\ FateInv /\ DestInv /\ AnswerInv => RelayInv
  BY DEF RelayInv
<1>2. RelayInv /\ [SigNext]_sigVars => [R!Next]_(R!vars)
  BY RelayStep
<1> QED BY <1>1, <1>2, RelayInit, BaseInvariance, FateInvariance, DestInvariance,
           OrderInvariance, PTL DEF SigSpec, R!Spec, ImplementsRelay
=============================================================================
