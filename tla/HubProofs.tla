------------------------------ MODULE HubProofs ------------------------------
(***************************************************************************)
(* Proofs about the hub, for every number of clients, callers and messages *)
(* and every capacity of the channels.                                     *)
(***************************************************************************)
EXTENDS Hub, SequenceTheorems, FiniteSetTheorems, TLAPS

(***************************************************************************)
(* Types.                                                                  *)
(***************************************************************************)
\* Stop closes the four channels one by one, and stops after the fourth.
StopCounts == /\ stop \in {"no", "waiting"} => nClosed = 0
              /\ stop = "closing" => nClosed < 4

\* Handing a message to a client extends its inbox.
LEMMA HandedType ==
  ASSUME NEW box \in [Client -> Seq(Nat)], NEW c \in Client, NEW n \in Nat
  PROVE  [box EXCEPT ![c] = Append(@, n)] \in [Client -> Seq(Nat)]
<1>1. Append(box[c], n) \in Seq(Nat)
  BY AppendProperties
<1> QED BY <1>1

\* Every step of the hub keeps the types of its state.
LEMMA TypeStep == ASSUME TypeOK, StopCounts, [Next]_vars PROVE TypeOK'
<1> USE HubAssumption
<1>1. ASSUME NEW c \in Client, Register(c) PROVE TypeOK'
  <2>1. Append(register, c) \in Seq(Client)
    BY AppendProperties DEF TypeOK
  <2>2. register' \in Seq(Client) /\ offered' \subseteq Client
    BY <1>1, <2>1 DEF Register, TypeOK
  <2> QED BY <1>1, <2>2 DEF Register, TypeOK, runVars, stopVars, callVars, peerVars
<1>2. ASSUME NEW id \in Id, Unregister(id) PROVE TypeOK'
  BY <1>2, AppendProperties DEF Unregister, TypeOK, runVars, stopVars, callVars, peerVars
<1>3. ASSUME NEW p \in Caller, Broadcast(p) PROVE TypeOK'
  BY <1>3, AppendProperties DEF Broadcast, TypeOK, runVars, stopVars, peerVars
<1>4. ASSUME NEW p \in Caller, NEW ids \in TargetLists, BeginSendTo(p, ids) PROVE TypeOK'
  BY <1>4 DEF BeginSendTo, TypeOK, queueVars, runVars, stopVars, peerVars
<1>5. ASSUME NEW p \in Caller, SendTo(p) PROVE TypeOK'
  <2>1. pending[p] \in Seq(Id) /\ pending[p] # <<>>
    BY <1>5 DEF SendTo, TypeOK
  <2>2. Head(pending[p]) \in Id /\ Tail(pending[p]) \in Seq(Id)
    BY <2>1, HeadTailProperties
  <2>3. direct' \in Nat /\ [clientID |-> Head(pending[p]), message |-> direct'] \in Envelope
    BY <1>5, <2>2 DEF SendTo, TypeOK, Envelope
  <2>4. sendTo' \in Seq(Envelope)
    BY <1>5, <2>3, AppendProperties DEF SendTo, TypeOK
  <2> QED BY <1>5, <2>2, <2>3, <2>4 DEF SendTo, TypeOK, runVars, stopVars, peerVars
<1>6. ASSUME NEW p \in Caller, SendToRefused(p) PROVE TypeOK'
  <2>1. Tail(pending[p]) \in Seq(Id)
    BY <1>6, HeadTailProperties DEF SendToRefused, TypeOK
  <2> QED BY <1>6, <2>1 DEF SendToRefused, TypeOK, queueVars, runVars, stopVars, peerVars
<1>7. ASSUME NEW p \in Caller, CountReceived(p) PROVE TypeOK'
  BY <1>7 DEF CountReceived, TypeOK, queueVars, runVars, stopVars, peerVars
<1>8. ASSUME NEW ch, CallPanics(ch) PROVE TypeOK'
  BY <1>8 DEF CallPanics, TypeOK, queueVars, runVars, stopVars, callVars, peerVars
<1>9. CASE HandleRegister
  <2>1. Head(register) \in Client /\ Tail(register) \in Seq(Client)
    BY <1>9, HeadTailProperties DEF HandleRegister, Filed, TypeOK
  <2> QED BY <1>9, <2>1 DEF HandleRegister, Filed, TypeOK, runVars, stopVars, callVars, peerVars
<1>10. CASE HandleUnregister
  <2>1. Head(unregister) \in Id /\ Tail(unregister) \in Seq(Id)
    BY <1>10, HeadTailProperties DEF HandleUnregister, Without, TypeOK
  <2> QED BY <1>10, <2>1 DEF HandleUnregister, Without, TypeOK, stopVars, callVars, peerVars
<1>11. CASE HandleSendTo
  <2>1. Head(sendTo) \in Envelope /\ Tail(sendTo) \in Seq(Envelope)
    BY <1>11, HeadTailProperties DEF HandleSendTo, TypeOK
  <2> QED BY <1>11, <2>1 DEF HandleSendTo, Envelope, TypeOK, stopVars, callVars, peerVars
<1>12. CASE HandleBroadcast
  <2>1. Head(broadcast) \in Nat /\ Tail(broadcast) \in Seq(Nat)
    BY <1>12, HeadTailProperties DEF HandleBroadcast, TypeOK
  <2>2. Stored \subseteq Client
    BY DEF Stored, TypeOK
  <2> QED BY <1>12, <2>1, <2>2 DEF HandleBroadcast, TypeOK, stopVars, callVars, peerVars
<1>13. CASE CloseUnregistered
  BY <1>13 DEF CloseUnregistered, TypeOK, queueVars, stopVars, callVars, peerVars
<1>14. ASSUME NEW c \in Client, Deliver(c) PROVE TypeOK'
  <2>1. messagesSent' \in Nat /\ current \in Nat /\ current' = current
    BY <1>14 DEF Deliver, TypeOK
  <2>2. inbox' \in [Client -> Seq(Nat)] /\ heard' \in [Client -> Seq(Nat)]
    <3>1. inbox \in [Client -> Seq(Nat)] /\ heard \in [Client -> Seq(Nat)]
      BY DEF TypeOK
    <3>2. /\ [inbox EXCEPT ![c] = Append(@, current)] \in [Client -> Seq(Nat)]
          /\ [heard EXCEPT ![c] = Append(@, current)] \in [Client -> Seq(Nat)]
      BY <2>1, <3>1, HandedType
    <3> QED BY <1>14, <3>1, <3>2, Zenon DEF Deliver
  <2>3. audience' \subseteq Client /\ run' \in {"select", run}
    BY <1>14 DEF Deliver, Served, TypeOK
  <2> QED BY <1>14, <2>1, <2>2, <2>3 DEF Deliver, TypeOK, queueVars, stopVars, callVars
<1>15. ASSUME NEW c \in Client, DeliverFails(c) PROVE TypeOK'
  BY <1>15 DEF DeliverFails, Served, TypeOK, queueVars, stopVars, callVars, peerVars
<1>16. CASE Return
  BY <1>16 DEF Return, TypeOK, queueVars, stopVars, callVars, peerVars
<1>17. CASE Start
  BY <1>17 DEF Start, TypeOK, queueVars, callVars, peerVars
<1>18. CASE Stop
  BY <1>18 DEF Stop, Cancel, TypeOK, queueVars, runVars, callVars, peerVars
<1>19. CASE StopWaited
  BY <1>19 DEF StopWaited, RunIsGone, Stored, TypeOK, queueVars, runVars, callVars, peerVars
<1>20. ASSUME NEW c \in Client, StopClosesClient(c) PROVE TypeOK'
  BY <1>20 DEF StopClosesClient, TypeOK, queueVars, runVars, callVars, peerVars
<1>21. CASE StopClosesChannel
  BY <1>21 DEF StopClosesChannel, AllClosed, ClientsClosed, Channels, StopCounts, TypeOK,
      queueVars, runVars, callVars, peerVars
<1>22. CASE StopPanics
  BY <1>22 DEF StopPanics, TypeOK, queueVars, runVars, stopVars, callVars, peerVars
<1>23. CASE UNCHANGED vars
  BY <1>23 DEF TypeOK, vars, queueVars, runVars, stopVars, callVars, peerVars
<1> QED
  BY <1>1, <1>2, <1>3, <1>4, <1>5, <1>6, <1>7, <1>8, <1>9, <1>10, <1>11, <1>12, <1>13,
     <1>14, <1>15, <1>16, <1>17, <1>18, <1>19, <1>20, <1>21, <1>22, <1>23
  DEF Next, Calls, Run, Serve, Shutdown

LEMMA StopCountsStep == ASSUME TypeOK, StopCounts, [Next]_vars PROVE StopCounts'
<1>1. CASE Calls
  BY <1>1 DEF Calls, Register, Unregister, Broadcast, BeginSendTo, SendTo, SendToRefused,
    CountReceived, CallPanics, StopCounts, stopVars
<1>2. CASE Run
  BY <1>2 DEF Run, HandleRegister, Filed, HandleUnregister, Without, HandleSendTo,
      HandleBroadcast,
    CloseUnregistered, Serve, Deliver, DeliverFails, Return, StopCounts, stopVars
<1>3. CASE Start \/ Stop \/ StopPanics
  BY <1>3 DEF Start, Stop, Cancel, StopPanics, StopCounts, stopVars
<1>4. CASE Shutdown
  BY <1>4 DEF Shutdown, StopWaited, RunIsGone, StopClosesClient, StopClosesChannel,
      AllClosed, ClientsClosed, Channels,
    StopCounts, TypeOK
<1>5. CASE UNCHANGED vars
  BY <1>5 DEF vars, stopVars, StopCounts
<1> QED BY <1>1, <1>2, <1>3, <1>4, <1>5 DEF Next

LEMMA InitTyped == Init => TypeOK /\ StopCounts
<1>1. Init => TypeOK
  <2>1. /\ <<>> \in Seq(Id) /\ <<>> \in Seq(Client)
        /\ <<>> \in Seq(Nat) /\ <<>> \in Seq(Envelope)
    BY EmptySeq
  <2>2. Init => /\ register \in Seq(Client) /\ unregister \in Seq(Id)
                /\ broadcast \in Seq(Nat)   /\ sendTo \in Seq(Envelope)
                /\ pending \in [Caller -> Seq(Id)]
                /\ counting \in [Caller -> BOOLEAN] /\ panicked \in BOOLEAN
                /\ inbox \in [Client -> Seq(Nat)] /\ heard \in [Client -> Seq(Nat)]
    BY <2>1, Zenon DEF Init
  <2>3. Init => clients \in [Id -> Client \cup {NoClient}]
    BY DEF Init
  <2> QED BY <2>2, <2>3 DEF Init, TypeOK
<1>2. Init => StopCounts
  BY DEF Init, StopCounts
<1> QED BY <1>1, <1>2

\* The state of the hub always has its types.
THEOREM TypeCorrect == Spec => []TypeOK
BY InitTyped, TypeStep, StopCountsStep, PTL DEF Spec

-----------------------------------------------------------------------------
(***************************************************************************)
(* The registry, the run goroutine and Stop.                               *)
(*                                                                         *)
(* A client object lives in one place after the other: offered to          *)
(* Register, waiting in the channel, filed, in the hands of run or of      *)
(* Stop, closed.  RegistryInv says that these places do not overlap where  *)
(* the code needs it, RunInv what run holds at each point, StopInv how far *)
(* Stop has come.                                                          *)
(***************************************************************************)
RegistryInv ==
  /\ \A id \in Id : clients[id] # NoClient => IDOf[clients[id]] = id
  /\ \A i, j \in DOMAIN register : register[i] = register[j] => i = j
  /\ \A i \in DOMAIN register : register[i] \in offered \ (Stored \cup closed \cup audience)
  /\ Stored \cup closed \cup audience \subseteq offered

RunInv ==
  /\ run \in {"off", "select", "returned"} => audience = {}
  /\ run = "closing" => audience \cap Stored = {}
  /\ run \in {"sending", "broadcasting"} => audience \subseteq Stored
  /\ run = "sending" => \E c \in Client : audience = {c}

StopInv ==
  /\ ctx = "unset" => run = "off" /\ stop = "no"
  /\ stop \in {"no", "waiting"} => Stored \cap closed = {} /\ toClose = {}
  /\ stop \in {"closing", "stopped"} =>
       run = "returned" /\ toClose \subseteq Stored /\ Stored \subseteq closed \cup toClose
  /\ stop = "stopped" => toClose = {}

HubInv == TypeOK /\ StopCounts /\ RegistryInv /\ RunInv /\ StopInv

\* The registry changes only with clients.
LEMMA SameStored == clients' = clients => Stored' = Stored
BY DEF Stored

\* What handleRegister does to the registry: the ID of the client was free and
\* now names it, or nothing changes.
LEMMA Filing ==
  ASSUME HubInv, HandleRegister, NEW c, c = Head(register)
  PROVE  /\ c \in Client /\ IDOf[c] \in Id
         /\ \/ clients[IDOf[c]] = NoClient /\ clients' = [clients EXCEPT ![IDOf[c]] = c]
               /\ Stored' = Stored \cup {c}
            \/ clients' = clients /\ Stored' = Stored
<1>1. c \in Client
  BY HeadTailProperties DEF HubInv, TypeOK, HandleRegister, Filed
<1>2. IDOf[c] \in Id /\ c # NoClient
  BY <1>1, HubAssumption
<1>3. CASE clients[IDOf[c]] = NoClient
  <2>1. clients' = [clients EXCEPT ![IDOf[c]] = c]
    BY <1>3 DEF HandleRegister, Filed
  <2> QED BY <1>1, <1>2, <1>3, <2>1 DEF HubInv, TypeOK, Stored
<1>4. CASE clients[IDOf[c]] # NoClient
  BY <1>1, <1>2, <1>4 DEF HandleRegister, Filed, Stored
<1> QED BY <1>3, <1>4

\* What handleUnregister does to the registry: the client it names is out of the
\* registry, under any ID, and in the hands of run.
LEMMA Unfiling ==
  ASSUME HubInv, HandleUnregister
  PROVE  /\ Stored' = Stored \ audience' /\ audience' \subseteq Stored
         /\ \A id \in Id : clients'[id] \in {clients[id], NoClient}
         /\ audience' = {} \/ \E c \in Client : audience' = {c}
<1> DEFINE id == Head(unregister)
<1>1. id \in Id
  BY HeadTailProperties DEF HubInv, TypeOK, HandleUnregister, Without
<1>2. /\ clients' = [clients EXCEPT ![id] = NoClient]
      /\ audience' = {clients[id]} \ {NoClient}
  BY DEF HandleUnregister, Without
<1>3. \A other \in Id \ {id} : clients[other] # NoClient => clients[other] # clients[id]
  BY <1>1 DEF HubInv, RegistryInv
<1>4. clients \in [Id -> Client \cup {NoClient}]
  BY DEF HubInv, TypeOK
<1> HIDE DEF id
<1>5. Stored' = Stored \ audience' /\ audience' \subseteq Stored
  BY <1>1, <1>2, <1>3, <1>4 DEF Stored
<1>6. \A other \in Id : clients'[other] \in {clients[other], NoClient}
  BY <1>1, <1>2, <1>4
<1>7. audience' = {} \/ \E c \in Client : audience' = {c}
  BY <1>1, <1>2, <1>4
<1> QED BY <1>5, <1>6, <1>7

LEMMA RegistryStep == ASSUME HubInv, [Next]_vars PROVE RegistryInv'
<1> USE DEF HubInv
<1>1. ASSUME NEW c \in Client, Register(c) PROVE RegistryInv'
  <2>1. /\ c \notin offered /\ offered' = offered \cup {c}
        /\ clients' = clients /\ closed' = closed /\ audience' = audience /\ Stored' = Stored
    BY <1>1 DEF Register, runVars, Stored
  <2>2. CASE register' = Append(register, c)
    <3>1. /\ register \in Seq(Client)
          /\ Len(register') = Len(register) + 1 /\ register'[Len(register) + 1] = c
          /\ \A i \in DOMAIN register : register'[i] = register[i]
          /\ DOMAIN register' = 1..Len(register') /\ DOMAIN register = 1..Len(register)
      BY <2>2, AppendProperties, LenProperties DEF TypeOK
    <3>2. \A i \in DOMAIN register' : i = Len(register) + 1 \/ i \in DOMAIN register
      BY <3>1, LenProperties
    <3>3. \A i \in DOMAIN register : register[i] # c
      BY <2>1 DEF RegistryInv
    <3>4. \A i, j \in DOMAIN register' : register'[i] = register'[j] => i = j
      BY <3>1, <3>2, <3>3 DEF RegistryInv
    <3>5. \A i \in DOMAIN register' :
            register'[i] \in offered' \ (Stored' \cup closed' \cup audience')
      BY <2>1, <3>1, <3>2 DEF RegistryInv
    <3> QED BY <2>1, <3>4, <3>5 DEF RegistryInv
  <2>3. CASE register' = register
    BY <2>1, <2>3 DEF RegistryInv
  <2> QED BY <1>1, <2>2, <2>3 DEF Register
<1>2. CASE HandleRegister
  <2> DEFINE c == Head(register)
  <2>1. /\ register \in Seq(Client) /\ register # <<>> /\ register' = Tail(register)
        /\ offered' = offered /\ closed' = closed /\ audience' = audience
        /\ run = "select" /\ c = register[1]
    BY <1>2 DEF HandleRegister, Filed, runVars, TypeOK
  <2>2. \A i \in DOMAIN register' : i + 1 \in DOMAIN register /\ register'[i] = register[i + 1]
                                    /\ register'[i] # c /\ i + 1 # 1
    BY <2>1 DEF RegistryInv
  <2>3. 1 \in DOMAIN register /\ audience = {}
    BY <2>1 DEF RunInv
  <2>4. \A i, j \in DOMAIN register' : register'[i] = register'[j] => i = j
    BY <2>2, <2>1 DEF RegistryInv
  <2>5. Stored' \subseteq Stored \cup {c}
    BY <1>2, Filing
  <2>6. \A i \in DOMAIN register' :
          register'[i] \in offered' \ (Stored' \cup closed' \cup audience')
    BY <2>1, <2>2, <2>5 DEF RegistryInv
  <2>7. Stored' \cup closed' \cup audience' \subseteq offered'
    BY <2>1, <2>3, <2>5 DEF RegistryInv
  <2>8. \A id \in Id : clients'[id] # NoClient => IDOf[clients'[id]] = id
    <3>1. CASE clients' = [clients EXCEPT ![IDOf[c]] = c]
      BY <1>2, <3>1, Filing DEF RegistryInv, TypeOK
    <3>2. CASE clients' = clients
      BY <3>2 DEF RegistryInv
    <3> QED BY <1>2, <3>1, <3>2, Filing
  <2> QED BY <2>4, <2>6, <2>7, <2>8 DEF RegistryInv
<1>3. CASE HandleUnregister
  <2>1. register' = register /\ offered' = offered /\ closed' = closed /\ audience = {}
    BY <1>3 DEF HandleUnregister, Without, RunInv
  <2>2. Stored' \subseteq Stored /\ audience' \subseteq Stored
    BY <1>3, Unfiling
  <2>3. \A id \in Id : clients'[id] # NoClient => IDOf[clients'[id]] = id
    BY <1>3, Unfiling DEF RegistryInv
  <2> QED BY <2>1, <2>2, <2>3 DEF RegistryInv
<1>4. CASE HandleSendTo \/ HandleBroadcast
  <2>1. /\ register' = register /\ offered' = offered /\ closed' = closed
        /\ clients' = clients /\ Stored' = Stored
    BY <1>4 DEF HandleSendTo, HandleBroadcast, Stored
  <2>2. audience' \subseteq Stored
    <3>1. ASSUME HandleSendTo PROVE Head(sendTo).clientID \in Id
      <4>1. Head(sendTo) \in Envelope
        BY <3>1, HeadTailProperties DEF HandleSendTo, TypeOK
      <4> QED BY <4>1 DEF Envelope
    <3> QED BY <1>4, <3>1 DEF HandleSendTo, HandleBroadcast, Stored, TypeOK
  <2> QED BY <2>1, <2>2 DEF RegistryInv
<1>5. CASE CloseUnregistered \/ Serve
  <2>1. /\ register' = register /\ offered' = offered /\ audience' \subseteq audience
        /\ clients' = clients /\ Stored' = Stored /\ closed' \subseteq closed \cup audience
    BY <1>5 DEF CloseUnregistered, Serve, Deliver, DeliverFails, Served, queueVars, Stored
  <2> QED BY <2>1 DEF RegistryInv
<1>6. ASSUME NEW c \in Client, StopClosesClient(c) PROVE RegistryInv'
  <2>1. /\ register' = register /\ offered' = offered /\ audience' = audience
        /\ clients' = clients /\ Stored' = Stored
        /\ closed' = closed \cup {c} /\ c \in Stored
    BY <1>6 DEF StopClosesClient, StopInv, queueVars, runVars, Stored
  <2> QED BY <2>1 DEF RegistryInv
<1>7. CASE \/ Calls /\ UNCHANGED offered
           \/ Return \/ Start \/ Stop \/ StopWaited \/ StopClosesChannel \/ StopPanics
           \/ UNCHANGED vars
  <2>1. UNCHANGED <<clients, register, offered, closed, audience>>
    BY <1>7 DEF Calls, Register, Unregister, Broadcast, BeginSendTo, SendTo, SendToRefused,
      CountReceived, CallPanics, Return, Start, Stop, Cancel, StopWaited, RunIsGone,
      StopClosesChannel, AllClosed, ClientsClosed,
      StopPanics, vars, queueVars, runVars
  <2> QED BY <2>1, SameStored DEF RegistryInv
<1> QED
  <2>1. Calls => UNCHANGED offered \/ \E c \in Client : Register(c)
    BY DEF Calls, Unregister, Broadcast, BeginSendTo, SendTo, SendToRefused, CountReceived,
      CallPanics
  <2> QED BY <1>1, <1>2, <1>3, <1>4, <1>5, <1>6, <1>7, <2>1 DEF Next, Run, Shutdown

LEMMA RunStep == ASSUME HubInv, [Next]_vars PROVE RunInv'
<1> USE DEF HubInv
<1>1. CASE HandleRegister
  BY <1>1 DEF HandleRegister, Filed, runVars, RunInv
<1>2. CASE HandleUnregister
  <2>1. audience' \cap Stored' = {}
    BY <1>2, Unfiling
  <2> QED BY <1>2, <2>1 DEF HandleUnregister, Without, RunInv
<1>3. CASE HandleSendTo
  <2>1. Head(sendTo) \in Envelope
    BY <1>3, HeadTailProperties DEF HandleSendTo, TypeOK
  <2>2. Head(sendTo).clientID \in Id
    BY <2>1 DEF Envelope
  <2>3. audience' \subseteq Stored' /\ (audience' = {} \/ \E c \in Client : audience' = {c})
    <3> DEFINE c == clients[Head(sendTo).clientID]
    <3>1. c \in Client \cup {NoClient} /\ c \in Stored \cup {NoClient}
      BY <2>2 DEF TypeOK, Stored
    <3>2. audience' = {c} \ {NoClient} /\ Stored' = Stored
      BY <1>3, SameStored DEF HandleSendTo
    <3> QED BY <3>1, <3>2
  <2> QED BY <1>3, <2>3 DEF HandleSendTo, RunInv
<1>4. CASE HandleBroadcast
  BY <1>4, SameStored DEF HandleBroadcast, RunInv
<1>5. CASE CloseUnregistered
  BY <1>5 DEF CloseUnregistered, RunInv
<1>6. ASSUME NEW c \in Client, Deliver(c) \/ DeliverFails(c) PROVE RunInv'
  <2>1. /\ c \in audience /\ audience' = audience \ {c}
        /\ run' = IF audience = {c} THEN "select" ELSE run
        /\ clients' = clients /\ run \in {"sending", "broadcasting"}
    BY <1>6 DEF Deliver, DeliverFails, Served
  <2>2. CASE audience = {c}
    BY <2>1, <2>2 DEF RunInv
  <2>3. CASE audience # {c}
    <3>1. run = "broadcasting" /\ run' = "broadcasting"
      BY <2>1, <2>3 DEF RunInv
    <3> QED BY <2>1, <3>1, SameStored DEF RunInv
  <2> QED BY <2>2, <2>3
<1>7. CASE Return \/ Start
  BY <1>7 DEF Return, Start, RunInv, StopInv
<1>8. CASE Calls \/ Stop \/ Shutdown \/ StopPanics \/ UNCHANGED vars
  <2>1. UNCHANGED <<run, audience, clients>>
    BY <1>8 DEF Calls, Register, Unregister, Broadcast, BeginSendTo, SendTo, SendToRefused,
      CountReceived, CallPanics, Stop, Cancel, Shutdown, StopWaited, RunIsGone,
      StopClosesClient,
      StopClosesChannel, AllClosed, ClientsClosed, StopPanics, vars, runVars
  <2> QED BY <2>1, SameStored DEF RunInv
<1> QED BY <1>1, <1>2, <1>3, <1>4, <1>5, <1>6, <1>7, <1>8 DEF Next, Run, Serve

LEMMA StopStep == ASSUME HubInv, [Next]_vars PROVE StopInv'
<1> USE DEF HubInv
<1>1. CASE Run
  <2>1. /\ UNCHANGED <<ctx, stop, toClose>>
        /\ run \notin {"off", "returned"}
    BY <1>1 DEF Run, HandleRegister, Filed, HandleUnregister, Without, HandleSendTo,
        HandleBroadcast,
      CloseUnregistered, Serve, Deliver, DeliverFails, Return, stopVars
  <2>2. stop' \in {"no", "waiting"} /\ toClose' = {} /\ ctx' # "unset"
    BY <2>1 DEF StopInv, TypeOK
  <2>3. Stored \cap closed = {}
    BY <2>1, <2>2 DEF StopInv
  <2>4. CASE HandleRegister
    <3>1. register # <<>> /\ closed' = closed
      BY <2>4 DEF HandleRegister, Filed
    <3>2. 1 \in DOMAIN register /\ Head(register) = register[1]
      BY <3>1 DEF TypeOK
    <3>3. Head(register) \notin closed /\ Stored' \subseteq Stored \cup {Head(register)}
      BY <2>4, <3>2, Filing DEF RegistryInv
    <3>4. Stored' \cap closed' = {}
      BY <2>3, <3>1, <3>3
    <3> QED BY <2>2, <3>4 DEF StopInv
  <2>5. CASE HandleUnregister
    <3>1. Stored' \subseteq Stored /\ closed' = closed
      BY <2>5, Unfiling DEF HandleUnregister, Without
    <3>2. Stored' \cap closed' = {}
      BY <2>3, <3>1
    <3> QED BY <2>2, <3>2 DEF StopInv
  <2>6. CASE CloseUnregistered
    <3>1. Stored' = Stored /\ closed' = closed \cup audience /\ audience \cap Stored = {}
      BY <2>6, SameStored DEF CloseUnregistered, RunInv
    <3>2. Stored' \cap closed' = {}
      BY <2>3, <3>1
    <3> QED BY <2>2, <3>2 DEF StopInv
  <2>7. CASE HandleSendTo \/ HandleBroadcast \/ Serve \/ Return
    <3>1. clients' = clients /\ closed' = closed
      BY <2>7 DEF HandleSendTo, HandleBroadcast, Serve, Deliver, DeliverFails, Return
    <3> QED BY <2>2, <2>3, <3>1, SameStored DEF StopInv
  <2> QED BY <1>1, <2>4, <2>5, <2>6, <2>7 DEF Run
<1>2. CASE Start \/ Stop
  <2>1. Stored' = Stored /\ closed' = closed /\ toClose' = toClose
    BY <1>2, SameStored DEF Start, Stop, Cancel
  <2> QED BY <1>2, <2>1 DEF Start, Stop, Cancel, StopInv, runVars
<1>3. CASE Shutdown
  <2>1. Stored' = Stored /\ ctx' = ctx /\ run' = run
    BY <1>3, SameStored DEF Shutdown, StopWaited, RunIsGone, StopClosesClient,
        StopClosesChannel, AllClosed, ClientsClosed, runVars
  <2> QED BY <1>3, <2>1 DEF Shutdown, StopWaited, RunIsGone, StopClosesClient,
      StopClosesChannel, AllClosed, ClientsClosed,
       StopInv, TypeOK
<1>4. CASE Calls \/ StopPanics \/ UNCHANGED vars
  <2>1. UNCHANGED <<ctx, run, stop, clients, closed, toClose>>
    BY <1>4 DEF Calls, Register, Unregister, Broadcast, BeginSendTo, SendTo, SendToRefused,
      CountReceived, CallPanics, StopPanics, vars, runVars, stopVars
  <2> QED BY <2>1, SameStored DEF StopInv
<1> QED BY <1>1, <1>2, <1>3, <1>4 DEF Next

\* HubInv is an inductive invariant of the hub.
LEMMA HubInductive == Spec => []HubInv
<1>1. Init => HubInv
  <2> SUFFICES ASSUME Init PROVE HubInv
    OBVIOUS
  <2>1. Stored = {} /\ DOMAIN register = {}
    BY DEF Init, Stored
  <2>2. TypeOK /\ StopCounts
    BY InitTyped
  <2>3. RegistryInv /\ RunInv /\ StopInv
    BY <2>1 DEF Init, RegistryInv, RunInv, StopInv
  <2> QED BY <2>2, <2>3 DEF HubInv
<1>2. HubInv /\ [Next]_vars => HubInv'
  BY TypeStep, StopCountsStep, RegistryStep, RunStep, StopStep DEF HubInv
<1> QED BY <1>1, <1>2, PTL DEF Spec

\* The run goroutine never hands a message to a closed client, and until Stop
\* closes the rest the registry names no closed client.
THEOREM NeverUsedAfterClose == Spec => []NoUseAfterClose
<1>1. HubInv => NoUseAfterClose
  BY DEF HubInv, TypeOK, RunInv, StopInv, NoUseAfterClose
<1> QED BY <1>1, HubInductive, PTL

\* Clients and channels are closed by Stop only after run has returned.
THEOREM ReceiverIsGone == Spec => []ReceiverGoneBeforeClose
<1>1. HubInv => ReceiverGoneBeforeClose
  BY DEF HubInv, TypeOK, StopCounts, StopInv, ReceiverGoneBeforeClose
<1> QED BY <1>1, HubInductive, PTL

\* When Stop returns, every client in the registry was closed.
THEOREM StopClosesAll == Spec => []StopClosesEveryStored
<1>1. HubInv => StopClosesEveryStored
  BY DEF HubInv, StopInv, StopClosesEveryStored
<1> QED BY <1>1, HubInductive, PTL

-----------------------------------------------------------------------------
(***************************************************************************)
(* Order of delivery.  Both lines, direct messages and broadcasts, obey    *)
(* the same law: everything handed over is older than the message run      *)
(* holds, which is older than everything in the channel, which is not      *)
(* newer than the last message accepted.                                   *)
(***************************************************************************)
\* A channel q of messages up to n, what each client was handed, and message m
\* that run still has to hand to the clients in to.
Orderly(q, n, box, to, m) ==
  /\ Increasing(q) /\ \A i \in DOMAIN q : q[i] <= n
  /\ \A c \in Client :
       /\ Increasing(box[c])
       /\ \A k \in DOMAIN box[c] : box[c][k] <= n /\ \A i \in DOMAIN q : box[c][k] < q[i]
  /\ to # {} => m <= n /\ \A i \in DOMAIN q : m < q[i]
  /\ \A c \in to : \A k \in DOMAIN box[c] : box[c][k] < m

\* The channel accepts one more message.
LEMMA Accepting ==
  ASSUME NEW q \in Seq(Nat), NEW n \in Nat, NEW box \in [Client -> Seq(Nat)],
         NEW to \in SUBSET Client, NEW m \in Nat, Orderly(q, n, box, to, m)
  PROVE  Orderly(Append(q, n + 1), n + 1, box, to, m)
<1> DEFINE r == Append(q, n + 1)
           l == Len(q)
<1>1. /\ DOMAIN q = 1..l /\ l \in Nat /\ DOMAIN r = 1..(l + 1) /\ r[l + 1] = n + 1
      /\ \A i \in 1..l : r[i] = q[i] /\ q[i] \in Nat
  BY AppendProperties, LenProperties
<1> HIDE DEF r, l
<1>2. \A i \in 1..l : r[i] <= n /\ r[i] \in Nat
  BY <1>1 DEF Orderly
<1>3. Increasing(r)
  <2> SUFFICES ASSUME NEW i \in 1..(l + 1), NEW j \in 1..(l + 1), i < j
               PROVE  r[i] < r[j]
    BY <1>1 DEF Increasing
  <2>1. CASE j = l + 1
    BY <1>1, <1>2, <2>1
  <2>2. CASE j # l + 1
    <3>1. i \in 1..l /\ j \in 1..l
      BY <1>1, <2>2
    <3> QED BY <1>1, <3>1 DEF Orderly, Increasing
  <2> QED BY <2>1, <2>2
<1>4. \A i \in DOMAIN r : r[i] <= n + 1
  BY <1>1, <1>2
<1>5. ASSUME NEW c \in Client, NEW k \in DOMAIN box[c]
      PROVE  box[c][k] <= n + 1 /\ \A i \in DOMAIN r : box[c][k] < r[i]
  <2>1. box[c][k] <= n /\ \A i \in 1..l : box[c][k] < q[i]
    BY <1>1 DEF Orderly
  <2>2. box[c] \in Seq(Nat)
    OBVIOUS
  <2>3. box[c][k] \in Nat
    BY <2>2
  <2> QED BY <1>1, <2>1, <2>3
<1>6. to # {} => m <= n + 1 /\ \A i \in DOMAIN r : m < r[i]
  <2> SUFFICES ASSUME to # {} PROVE m <= n + 1 /\ \A i \in DOMAIN r : m < r[i]
    OBVIOUS
  <2>1. m <= n /\ \A i \in DOMAIN q : m < q[i]
    BY Zenon DEF Orderly
  <2> QED BY <1>1, <2>1
<1>7. Orderly(r, n + 1, box, to, m)
  BY <1>3, <1>4, <1>5, <1>6 DEF Orderly
<1> QED BY <1>7 DEF r

\* run, with nothing in its hands, takes the oldest message for some clients.
LEMMA Taking ==
  ASSUME NEW q \in Seq(Nat), NEW n \in Nat, NEW box \in [Client -> Seq(Nat)],
         NEW to \in SUBSET Client, NEW m \in Nat, Orderly(q, n, box, {}, m), q # <<>>
  PROVE  Orderly(Tail(q), n, box, to, Head(q))
<1> DEFINE r == Tail(q)
           l == Len(q)
<1>1. /\ DOMAIN q = 1..l /\ l \in Nat \ {0} /\ Head(q) = q[1] /\ DOMAIN r = 1..(l - 1)
      /\ \A i \in 1..(l - 1) : r[i] = q[i + 1]
      /\ \A i \in 1..l : q[i] \in Nat
  BY HeadTailProperties, LenProperties, EmptySeq
<1> HIDE DEF r, l
<1>2. \A i, j \in 1..l : i < j => q[i] < q[j]
  BY <1>1 DEF Orderly, Increasing
<1>3. Increasing(r)
  <2> SUFFICES ASSUME NEW i \in 1..(l - 1), NEW j \in 1..(l - 1), i < j
               PROVE  r[i] < r[j]
    BY <1>1 DEF Increasing
  <2>1. i + 1 \in 1..l /\ j + 1 \in 1..l /\ i + 1 < j + 1
    BY <1>1
  <2>2. r[i] = q[i + 1] /\ r[j] = q[j + 1]
    BY <1>1
  <2> QED BY <1>2, <2>1, <2>2
<1>4. ASSUME NEW i \in 1..(l - 1) PROVE r[i] <= n /\ q[1] < r[i]
  <2>1. i + 1 \in 1..l /\ 1 \in 1..l /\ 1 < i + 1 /\ r[i] = q[i + 1]
    BY <1>1
  <2> QED BY <1>1, <1>2, <2>1 DEF Orderly
<1>5. ASSUME NEW c \in Client, NEW k \in DOMAIN box[c]
      PROVE  /\ box[c][k] <= n /\ box[c][k] < q[1]
             /\ \A i \in 1..(l - 1) : box[c][k] < r[i]
  <2>1. box[c][k] <= n /\ \A i \in 1..l : box[c][k] < q[i]
    BY <1>1 DEF Orderly
  <2>2. \A i \in 1..(l - 1) : i + 1 \in 1..l
    BY <1>1
  <2> QED BY <1>1, <2>1, <2>2
<1>6. q[1] <= n
  <2>1. 1 \in DOMAIN q
    BY <1>1
  <2> QED BY <2>1, Zenon DEF Orderly
<1>7. Orderly(r, n, box, to, q[1])
  BY <1>1, <1>3, <1>4, <1>5, <1>6 DEF Orderly
<1> QED BY <1>1, <1>7 DEF r

\* run hands its message to one of the clients.
LEMMA Handing ==
  ASSUME NEW q \in Seq(Nat), NEW n \in Nat, NEW box \in [Client -> Seq(Nat)],
         NEW to \in SUBSET Client, NEW m \in Nat, Orderly(q, n, box, to, m), NEW c \in to
  PROVE  Orderly(q, n, [box EXCEPT ![c] = Append(@, m)], to \ {c}, m)
<1> DEFINE b == box[c]
           r == Append(b, m)
           l == Len(b)
           new == [box EXCEPT ![c] = r]
<1>1. /\ DOMAIN b = 1..l /\ l \in Nat /\ DOMAIN r = 1..(l + 1) /\ r[l + 1] = m
      /\ \A k \in 1..l : r[k] = b[k] /\ b[k] \in Nat
  BY AppendProperties, LenProperties
<1>2. new[c] = r /\ \A d \in Client \ {c} : new[d] = box[d]
  OBVIOUS
<1>3. /\ \A i, j \in 1..l : i < j => b[i] < b[j]
      /\ \A k \in 1..l : b[k] <= n /\ b[k] < m /\ \A i \in DOMAIN q : b[k] < q[i]
      /\ m <= n /\ \A i \in DOMAIN q : m < q[i]
  BY <1>1 DEF Orderly, Increasing
<1> HIDE DEF r, new, b, l
<1>4. Increasing(r)
  <2> SUFFICES ASSUME NEW i \in 1..(l + 1), NEW j \in 1..(l + 1), i < j
               PROVE  r[i] < r[j]
    BY <1>1 DEF Increasing
  <2>1. i \in 1..l
    BY <1>1
  <2>2. CASE j = l + 1
    BY <1>1, <1>3, <2>1, <2>2
  <2>3. CASE j # l + 1
    <3>1. j \in 1..l
      BY <1>1, <2>3
    <3> QED BY <1>1, <1>3, <2>1, <3>1
  <2> QED BY <2>2, <2>3
<1>5. \A k \in DOMAIN r : r[k] <= n /\ \A i \in DOMAIN q : r[k] < q[i]
  <2> SUFFICES ASSUME NEW k \in 1..(l + 1)
               PROVE  r[k] <= n /\ \A i \in DOMAIN q : r[k] < q[i]
    BY <1>1
  <2>1. CASE k \in 1..l
    BY <1>1, <1>3, <2>1
  <2>2. CASE k = l + 1
    BY <1>1, <1>3, <2>2
  <2> QED BY <1>1, <2>1, <2>2
<1>6. Orderly(q, n, new, to \ {c}, m)
  BY <1>2, <1>4, <1>5 DEF Orderly
<1> QED BY <1>6 DEF new, r, b

\* run gives up on some clients, or takes up another line.
LEMMA Skipping ==
  ASSUME NEW q, NEW n, NEW box, NEW to, NEW m, NEW fewer \in SUBSET to, NEW l,
         Orderly(q, n, box, to, m), fewer # {} => l = m
  PROVE  Orderly(q, n, box, fewer, l)
BY DEF Orderly

Messages(s) == [i \in DOMAIN s |-> s[i].message]
Held(doing) == IF run = doing THEN audience ELSE {}

DirectOrder    == Orderly(Messages(sendTo), direct, inbox, Held("sending"), current)
BroadcastOrder == Orderly(broadcast, broadcasts, heard, Held("broadcasting"), current)

\* The messages of a channel of envelopes form a channel of messages.
LEMMA MessagesOf ==
  ASSUME NEW s \in Seq(Envelope)
  PROVE  /\ Messages(s) \in Seq(Nat)
         /\ \A e \in Envelope : Messages(Append(s, e)) = Append(Messages(s), e.message)
         /\ s # <<>> => /\ Messages(s) # <<>> /\ Head(Messages(s)) = Head(s).message
                        /\ Messages(Tail(s)) = Tail(Messages(s))
<1>1. DOMAIN s = 1..Len(s) /\ Len(s) \in Nat /\ \A i \in 1..Len(s) : s[i].message \in Nat
  <2>1. \A i \in 1..Len(s) : s[i] \in Envelope
    OBVIOUS
  <2> QED BY <2>1 DEF Envelope
<1>2. Messages(s) \in Seq(Nat) /\ Len(Messages(s)) = Len(s)
  BY <1>1 DEF Messages
<1>3. ASSUME NEW e \in Envelope
      PROVE  Messages(Append(s, e)) = Append(Messages(s), e.message)
  <2>1. e.message \in Nat
    BY DEF Envelope
  <2>2. /\ Append(Messages(s), e.message) \in Seq(Nat)
        /\ Len(Append(Messages(s), e.message)) = Len(s) + 1
        /\ DOMAIN Append(s, e) = 1..(Len(s) + 1)
    BY <1>2, <2>1, AppendProperties
  <2>3. \A i \in 1..(Len(s) + 1) :
          Append(s, e)[i].message = Append(Messages(s), e.message)[i]
    BY <1>1, <1>2, <2>1 DEF Messages
  <2> QED BY <2>2, <2>3 DEF Messages
<1>4. ASSUME s # <<>>
      PROVE  /\ Messages(s) # <<>> /\ Head(Messages(s)) = Head(s).message
             /\ Messages(Tail(s)) = Tail(Messages(s))
  <2>1. Len(s) \in Nat \ {0}
    BY <1>4, EmptySeq
  <2>2. Messages(s) # <<>> /\ Head(Messages(s)) = Head(s).message
    BY <1>1, <1>2, <2>1 DEF Messages
  <2>3. /\ DOMAIN Tail(s) = 1..(Len(s) - 1)
        /\ \A i \in 1..(Len(s) - 1) : Tail(s)[i] = s[i + 1]
    BY <1>4, <2>1, HeadTailProperties
  <2>4. /\ Tail(Messages(s)) \in Seq(Nat) /\ Len(Tail(Messages(s))) = Len(s) - 1
        /\ \A i \in 1..(Len(s) - 1) : Tail(Messages(s))[i] = Messages(s)[i + 1]
    BY <1>2, <2>1, <2>2, HeadTailProperties
  <2>5. \A i \in 1..(Len(s) - 1) : Tail(Messages(s))[i] = Tail(s)[i].message
    BY <1>1, <2>1, <2>3, <2>4 DEF Messages
  <2> QED BY <2>2, <2>3, <2>4, <2>5 DEF Messages
<1> QED BY <1>2, <1>3, <1>4

\* What a step of run does to its hands.
LEMMA HeldServed ==
  ASSUME NEW c \in audience, Served(c), NEW doing, run = doing, doing # "select"
  PROVE  Held(doing)' = audience \ {c}
BY DEF Served, Held

LEMMA HeldElsewhere ==
  ASSUME [Next]_vars, ~HandleSendTo, ~HandleBroadcast
  PROVE  /\ Held("sending")' \subseteq Held("sending")
         /\ Held("broadcasting")' \subseteq Held("broadcasting")
         /\ current' = current
<1>1. CASE \/ HandleRegister \/ HandleUnregister \/ CloseUnregistered \/ Serve
           \/ Return \/ Start
  BY <1>1 DEF HandleRegister, Filed, HandleUnregister, Without, CloseUnregistered, Serve,
      Deliver,
    DeliverFails, Served, Return, Start, runVars, Held
<1>2. CASE Calls \/ Stop \/ Shutdown \/ StopPanics \/ UNCHANGED vars
  BY <1>2 DEF Calls, Register, Unregister, Broadcast, BeginSendTo, SendTo, SendToRefused,
    CountReceived, CallPanics, Stop, Cancel, Shutdown, StopWaited, RunIsGone, StopClosesClient,
    StopClosesChannel, AllClosed, ClientsClosed, StopPanics, vars, runVars, Held
<1> QED BY <1>1, <1>2 DEF Next, Run

LEMMA DirectStep == ASSUME HubInv, DirectOrder, [Next]_vars PROVE DirectOrder'
<1>1. /\ sendTo \in Seq(Envelope) /\ direct \in Nat /\ inbox \in [Client -> Seq(Nat)]
      /\ current \in Nat /\ Held("sending") \in SUBSET Client
      /\ Held("sending")' \in SUBSET Client
  BY TypeStep DEF HubInv, TypeOK, Held
<1>2. ASSUME NEW p \in Caller, SendTo(p) PROVE DirectOrder'
  <2> DEFINE e == [clientID |-> Head(pending[p]), message |-> direct + 1]
  <2>1. /\ sendTo' = Append(sendTo, e) /\ direct' = direct + 1
        /\ UNCHANGED <<inbox, run, audience, current>>
    BY <1>2 DEF SendTo, runVars, peerVars
  <2>2. pending[p] \in Seq(Id) /\ pending[p] # <<>>
    BY <1>2 DEF SendTo, HubInv, TypeOK
  <2>3. e \in Envelope
    BY <1>1, <2>2, HeadTailProperties DEF Envelope
  <2> HIDE DEF e
  <2>4. Messages(sendTo') = Append(Messages(sendTo), direct + 1)
    BY <1>1, <2>1, <2>3, MessagesOf DEF e
  <2>5. Orderly(Append(Messages(sendTo), direct + 1), direct + 1, inbox, Held("sending"),
                current)
    BY <1>1, MessagesOf, Accepting DEF DirectOrder
  <2> QED BY <2>1, <2>4, <2>5 DEF DirectOrder, Held
<1>3. CASE HandleSendTo
  <2>1. /\ sendTo # <<>> /\ sendTo' = Tail(sendTo) /\ current' = Head(sendTo).message
        /\ run = "select" /\ UNCHANGED <<direct, inbox>>
    BY <1>3 DEF HandleSendTo, callVars, peerVars
  <2>2. Orderly(Messages(sendTo), direct, inbox, {}, current)
    BY <2>1 DEF DirectOrder, Held
  <2>3. Orderly(Tail(Messages(sendTo)), direct, inbox, Held("sending")',
                Head(Messages(sendTo)))
    BY <1>1, <2>1, <2>2, MessagesOf, Taking
  <2> QED BY <1>1, <2>1, <2>3, MessagesOf DEF DirectOrder
<1>4. CASE HandleBroadcast
  <2>1. UNCHANGED <<sendTo, direct, inbox>> /\ Held("sending")' = {}
    BY <1>4 DEF HandleBroadcast, Held, callVars, peerVars
  <2>2. Orderly(Messages(sendTo), direct, inbox, {}, current')
    BY Skipping DEF DirectOrder
  <2> QED BY <2>1, <2>2 DEF DirectOrder
<1>5. ASSUME NEW c \in Client, Deliver(c), run = "sending" PROVE DirectOrder'
  <2>1. /\ c \in audience /\ inbox' = [inbox EXCEPT ![c] = Append(@, current)]
        /\ Served(c) /\ UNCHANGED <<sendTo, direct, current>>
    BY <1>5 DEF Deliver, queueVars, callVars
  <2>2. c \in Held("sending") /\ Held("sending")' = Held("sending") \ {c}
    BY <1>5, <2>1, HeldServed DEF Held
  <2>3. Messages(sendTo) \in Seq(Nat)
    BY <1>1, MessagesOf
  <2>4. Orderly(Messages(sendTo), direct, [inbox EXCEPT ![c] = Append(@, current)],
                Held("sending") \ {c}, current)
    BY <1>1, <2>2, <2>3, Handing DEF DirectOrder
  <2> QED BY <2>1, <2>2, <2>4, Zenon DEF DirectOrder
<1>6. ASSUME ~HandleSendTo, ~HandleBroadcast, UNCHANGED <<sendTo, direct, inbox>>
      PROVE  DirectOrder'
  <2>1. Held("sending")' \subseteq Held("sending") /\ current' = current
    BY <1>6, HeldElsewhere
  <2>2. Orderly(Messages(sendTo), direct, inbox, Held("sending")', current')
    BY <2>1, Skipping DEF DirectOrder
  <2> QED BY <1>6, <2>2 DEF DirectOrder
<1>7. \/ \E p \in Caller : SendTo(p)
      \/ HandleSendTo \/ HandleBroadcast
      \/ \E c \in Client : Deliver(c) /\ run = "sending"
      \/ ~HandleSendTo /\ ~HandleBroadcast /\ UNCHANGED <<sendTo, direct, inbox>>
  BY DEF Next, Calls, Register, Unregister, Broadcast, BeginSendTo, SendToRefused,
    CountReceived, CallPanics, Run, HandleRegister, Filed, HandleUnregister, Without,
    CloseUnregistered,
    Serve, Deliver, DeliverFails, Return, Start, Stop, Cancel, Shutdown, StopWaited, RunIsGone,
    StopClosesClient, StopClosesChannel, AllClosed, ClientsClosed, StopPanics, vars,
    queueVars, callVars, peerVars
<1> QED BY <1>2, <1>3, <1>4, <1>5, <1>6, <1>7

LEMMA BroadcastStep == ASSUME HubInv, BroadcastOrder, [Next]_vars PROVE BroadcastOrder'
<1>1. /\ broadcast \in Seq(Nat) /\ broadcasts \in Nat /\ heard \in [Client -> Seq(Nat)]
      /\ current \in Nat /\ Held("broadcasting") \in SUBSET Client
      /\ Held("broadcasting")' \in SUBSET Client
  BY TypeStep DEF HubInv, TypeOK, Held
<1>2. ASSUME NEW p \in Caller, Broadcast(p) PROVE BroadcastOrder'
  <2>1. /\ broadcast' = Append(broadcast, broadcasts + 1) /\ broadcasts' = broadcasts + 1
        /\ UNCHANGED <<heard, run, audience, current>>
    BY <1>2 DEF Broadcast, runVars, peerVars
  <2>2. Orderly(Append(broadcast, broadcasts + 1), broadcasts + 1, heard,
                Held("broadcasting"), current)
    BY <1>1, Accepting DEF BroadcastOrder
  <2> QED BY <2>1, <2>2 DEF BroadcastOrder, Held
<1>3. CASE HandleBroadcast
  <2>1. /\ broadcast # <<>> /\ broadcast' = Tail(broadcast) /\ current' = Head(broadcast)
        /\ run = "select" /\ UNCHANGED <<broadcasts, heard>>
    BY <1>3 DEF HandleBroadcast, callVars, peerVars
  <2>2. Orderly(broadcast, broadcasts, heard, {}, current)
    BY <2>1 DEF BroadcastOrder, Held
  <2>3. Orderly(Tail(broadcast), broadcasts, heard, Held("broadcasting")', Head(broadcast))
    BY <1>1, <2>1, <2>2, Taking
  <2> QED BY <2>1, <2>3 DEF BroadcastOrder
<1>4. CASE HandleSendTo
  <2>1. UNCHANGED <<broadcast, broadcasts, heard>> /\ Held("broadcasting")' = {}
    BY <1>4 DEF HandleSendTo, Held, callVars, peerVars
  <2>2. Orderly(broadcast, broadcasts, heard, {}, current')
    BY Skipping DEF BroadcastOrder
  <2> QED BY <2>1, <2>2 DEF BroadcastOrder
<1>5. ASSUME NEW c \in Client, Deliver(c), run = "broadcasting" PROVE BroadcastOrder'
  <2>1. /\ c \in audience /\ heard' = [heard EXCEPT ![c] = Append(@, current)]
        /\ Served(c) /\ UNCHANGED <<broadcast, broadcasts, current>>
    BY <1>5 DEF Deliver, queueVars, callVars
  <2>2. c \in Held("broadcasting") /\ Held("broadcasting")' = Held("broadcasting") \ {c}
    BY <1>5, <2>1, HeldServed DEF Held
  <2>3. Orderly(broadcast, broadcasts, [heard EXCEPT ![c] = Append(@, current)],
                Held("broadcasting") \ {c}, current)
    BY <1>1, <2>2, Handing DEF BroadcastOrder
  <2> QED BY <2>1, <2>2, <2>3, Zenon DEF BroadcastOrder
<1>6. ASSUME ~HandleSendTo, ~HandleBroadcast, UNCHANGED <<broadcast, broadcasts, heard>>
      PROVE  BroadcastOrder'
  <2>1. Held("broadcasting")' \subseteq Held("broadcasting") /\ current' = current
    BY <1>6, HeldElsewhere
  <2>2. Orderly(broadcast, broadcasts, heard, Held("broadcasting")', current')
    BY <2>1, Skipping DEF BroadcastOrder
  <2> QED BY <1>6, <2>2 DEF BroadcastOrder
<1>7. \/ \E p \in Caller : Broadcast(p)
      \/ HandleSendTo \/ HandleBroadcast
      \/ \E c \in Client : Deliver(c) /\ run = "broadcasting"
      \/ /\ ~HandleSendTo /\ ~HandleBroadcast
         /\ UNCHANGED <<broadcast, broadcasts, heard>>
  BY DEF Next, Calls, Register, Unregister, SendTo, BeginSendTo, SendToRefused,
    CountReceived, CallPanics, Run, HandleRegister, Filed, HandleUnregister, Without,
    CloseUnregistered,
    Serve, Deliver, DeliverFails, Return, Start, Stop, Cancel, Shutdown, StopWaited, RunIsGone,
    StopClosesClient, StopClosesChannel, AllClosed, ClientsClosed, StopPanics, vars,
    queueVars, callVars, peerVars
<1> QED BY <1>2, <1>3, <1>4, <1>5, <1>6, <1>7

LEMMA OrderInductive == Spec => [](DirectOrder /\ BroadcastOrder)
<1>1. Init => DirectOrder /\ BroadcastOrder
  <2> SUFFICES ASSUME Init PROVE DirectOrder /\ BroadcastOrder
    OBVIOUS
  <2>1. /\ sendTo = <<>> /\ broadcast = <<>> /\ Messages(sendTo) = <<>>
        /\ Held("sending") = {} /\ Held("broadcasting") = {}
        /\ \A c \in Client : inbox[c] = <<>> /\ heard[c] = <<>>
    BY DEF Init, Messages, Held
  <2> QED BY <2>1 DEF DirectOrder, BroadcastOrder, Orderly, Increasing
<1>2. HubInv /\ DirectOrder /\ BroadcastOrder /\ [Next]_vars
        => DirectOrder' /\ BroadcastOrder'
  BY DirectStep, BroadcastStep
<1> QED BY <1>1, <1>2, HubInductive, PTL DEF Spec

\* Each client is handed the messages of each channel in the order in which the
\* channel accepted them, and none of them twice, whatever run picks, whoever
\* comes and goes meanwhile, and whichever writes fail.
THEOREM DeliveryIsOrdered == Spec => []OrderedDelivery
<1>1. DirectOrder /\ BroadcastOrder => OrderedDelivery
  BY DEF DirectOrder, BroadcastOrder, Orderly, OrderedDelivery
<1> QED BY <1>1, OrderInductive, PTL

-----------------------------------------------------------------------------
(***************************************************************************)
(* The counters.                                                           *)
(***************************************************************************)
\* The callers that put a message in and have not counted it yet.
Counters == {p \in Caller : counting[p]}
CountInv == IsFiniteSet(Counters) /\ ReceivedAddsUp

LEMMA CountStep == ASSUME TypeOK, CountInv, [Next]_vars PROVE CountInv'
<1> USE DEF CountInv
<1>1. /\ Cardinality(Counters) \in Nat /\ direct \in Nat /\ broadcasts \in Nat
      /\ messagesReceived \in Nat /\ counting \in [Caller -> BOOLEAN]
      /\ messagesReceived + Cardinality(Counters) = direct + broadcasts
  BY FS_CardinalityType DEF TypeOK, ReceivedAddsUp, Counters
<1>2. ASSUME NEW p \in Caller, SendTo(p) \/ Broadcast(p) PROVE CountInv'
  <2>1. /\ ~counting[p] /\ counting' = [counting EXCEPT ![p] = TRUE]
        /\ UNCHANGED messagesReceived
        /\ direct' + broadcasts' = direct + broadcasts + 1
    BY <1>1, <1>2 DEF SendTo, Broadcast, Idle
  <2>2. Counters' = Counters \cup {p} /\ p \notin Counters
    BY <1>1, <2>1 DEF Counters
  <2>3. IsFiniteSet(Counters') /\ Cardinality(Counters') = Cardinality(Counters) + 1
    BY <2>2, FS_AddElement
  <2> QED BY <1>1, <2>1, <2>3 DEF ReceivedAddsUp, Counters
<1>3. ASSUME NEW p \in Caller, CountReceived(p) PROVE CountInv'
  <2>1. /\ counting[p] /\ counting' = [counting EXCEPT ![p] = FALSE]
        /\ messagesReceived' = messagesReceived + 1 /\ UNCHANGED <<direct, broadcasts>>
    BY <1>3 DEF CountReceived
  <2>2. Counters' = Counters \ {p} /\ p \in Counters
    BY <1>1, <2>1 DEF Counters
  <2>3. IsFiniteSet(Counters') /\ Cardinality(Counters') = Cardinality(Counters) - 1
    BY <2>2, FS_RemoveElement
  <2> QED BY <1>1, <2>1, <2>3 DEF ReceivedAddsUp, Counters
<1>4. CASE UNCHANGED <<counting, messagesReceived, direct, broadcasts>>
  BY <1>4 DEF ReceivedAddsUp, Counters
<1>5. \/ \E p \in Caller : SendTo(p) \/ Broadcast(p) \/ CountReceived(p)
      \/ UNCHANGED <<counting, messagesReceived, direct, broadcasts>>
  <2>1. CASE Calls
    BY <2>1 DEF Calls, Register, Unregister, BeginSendTo, SendToRefused, CallPanics, callVars
  <2>2. CASE Run
    BY <2>2 DEF Run, HandleRegister, HandleUnregister, HandleSendTo, HandleBroadcast,
      CloseUnregistered, Serve, Deliver, DeliverFails, Return, callVars
  <2>3. CASE Start \/ Stop \/ Shutdown \/ StopPanics \/ UNCHANGED vars
    BY <2>3 DEF Start, Stop, Shutdown, StopWaited, StopClosesClient, StopClosesChannel,
      StopPanics, vars, callVars
  <2> QED BY <2>1, <2>2, <2>3 DEF Next
<1> QED BY <1>2, <1>3, <1>4, <1>5

\* The counter of received messages loses none, however many callers count at once.
THEOREM ReceivedIsCounted == Spec => []ReceivedAddsUp
<1>1. Init => CountInv
  <2> SUFFICES ASSUME Init PROVE CountInv
    OBVIOUS
  <2>1. Counters = {}
    BY DEF Init, Counters
  <2> QED BY <2>1, FS_EmptySet DEF Init, CountInv, ReceivedAddsUp, Counters
<1>2. HubInv /\ CountInv /\ [Next]_vars => CountInv'
  BY CountStep DEF HubInv
<1>3. CountInv => ReceivedAddsUp
  BY DEF CountInv
<1> QED BY <1>1, <1>2, <1>3, HubInductive, PTL DEF Spec

-----------------------------------------------------------------------------
(***************************************************************************)
(* The hub implements the postbox of Postbox.tla: each of its steps is a   *)
(* step of the postbox or changes nothing there.                           *)
(***************************************************************************)
\* A sequence with one element put before it.
LEMMA PutBefore ==
  ASSUME NEW S, NEW x \in S, NEW s \in Seq(S)
  PROVE  /\ <<x>> \o s \in Seq(S) /\ <<x>> \o s # <<>>
         /\ Head(<<x>> \o s) = x /\ Tail(<<x>> \o s) = s
         /\ \A y \in S : Append(<<x>> \o s, y) = <<x>> \o Append(s, y)
OBVIOUS

LEMMA HeadBefore ==
  ASSUME NEW S, NEW s \in Seq(S), s # <<>>
  PROVE  <<Head(s)>> \o Tail(s) = s
OBVIOUS

\* While run delivers a direct message, that message is still in the line, and
\* the registry names the client it goes to.
LEMMA LineWhileSending ==
  ASSUME HubInv, run = "sending", NEW c \in audience
  PROVE  /\ audience = {c} /\ c \in Client /\ IDOf[c] \in Id /\ clients[IDOf[c]] = c
         /\ [clientID |-> IDOf[c], message |-> current] \in Envelope
         /\ Line = <<[clientID |-> IDOf[c], message |-> current]>> \o sendTo
<1>1. audience = {c} /\ c \in Stored
  BY DEF HubInv, RunInv
<1>2. PICK id \in Id : clients[id] = c /\ c # NoClient
  BY <1>1 DEF Stored
<1>3. c \in Client /\ IDOf[c] = id
  BY <1>2 DEF HubInv, TypeOK, RegistryInv
<1>4. [clientID |-> IDOf[c], message |-> current] \in Envelope
  BY <1>3 DEF HubInv, TypeOK, Envelope
<1>5. (CHOOSE d \in audience : TRUE) = c
  BY <1>1
<1> QED BY <1>1, <1>2, <1>3, <1>4, <1>5 DEF Line

\* Every step of the hub is a step of the postbox or leaves it as it is.
LEMMA RefinedStep == ASSUME HubInv, [Next]_vars PROVE [PB!Next]_(PB!vars)
<1> USE DEF HubInv
<1>1. CASE HandleRegister
  <2>1. UNCHANGED <<run, audience, current, sendTo, direct, inbox>> /\ run = "select"
    BY <1>1 DEF HandleRegister, Filed, runVars, callVars, peerVars
  <2>2. Line' = Line
    BY <2>1 DEF Line
  <2>3. CASE clients' = clients
    BY <2>1, <2>2, <2>3 DEF PB!vars
  <2>4. CASE clients' # clients
    <3>1. PB!Join(Head(register))
      BY <1>1, <2>1, <2>2, <2>4, Filing DEF PB!Join
    <3> QED BY <1>1, <3>1, Filing DEF PB!Next
  <2> QED BY <2>3, <2>4
<1>2. CASE HandleUnregister
  <2> DEFINE id == Head(unregister)
  <2>1. /\ UNCHANGED <<current, sendTo, direct, inbox>>
        /\ run = "select" /\ run' # "sending"
    BY <1>2 DEF HandleUnregister, Without, callVars, peerVars
  <2>2. Line' = Line
    BY <2>1 DEF Line
  <2>3. id \in Id /\ clients' = [clients EXCEPT ![id] = NoClient]
    BY <1>2, HeadTailProperties DEF HandleUnregister, Without, TypeOK
  <2>4. CASE clients[id] = NoClient
    <3>1. clients' = clients
      BY <2>3, <2>4 DEF TypeOK
    <3> QED BY <2>1, <2>2, <3>1 DEF PB!vars
  <2>5. CASE clients[id] # NoClient
    <3>1. PB!Leave(id)
      BY <2>1, <2>2, <2>3, <2>5 DEF PB!Leave
    <3> QED BY <2>3, <3>1 DEF PB!Next
  <2> QED BY <2>4, <2>5
<1>3. ASSUME NEW p \in Caller, SendTo(p) PROVE [PB!Next]_(PB!vars)
  <2> DEFINE id == Head(pending[p])
             e  == [clientID |-> id, message |-> direct + 1]
  <2>1. /\ UNCHANGED <<clients, run, audience, current, inbox>>
        /\ direct' = direct + 1 /\ sendTo' = Append(sendTo, e)
    BY <1>3 DEF SendTo, runVars, peerVars
  <2>2. id \in Id
    <3>1. pending[p] \in Seq(Id) /\ pending[p] # <<>>
      BY <1>3 DEF SendTo, TypeOK
    <3> QED BY <3>1, HeadTailProperties
  <2>3. e \in Envelope /\ sendTo \in Seq(Envelope)
    BY <2>2 DEF Envelope, TypeOK
  <2> HIDE DEF id
  <2>4. Line' = Append(Line, e)
    <3>1. CASE run = "sending"
      <4>1. PICK c \in audience : TRUE
        BY <3>1 DEF RunInv
      <4> DEFINE x == [clientID |-> IDOf[c], message |-> current]
      <4>2. x \in Envelope /\ audience = {c} /\ Line = <<x>> \o sendTo
        BY <3>1, LineWhileSending
      <4>3. Append(Line, e) = <<x>> \o Append(sendTo, e)
        BY <2>3, <4>2, PutBefore
      <4>4. (CHOOSE d \in audience : TRUE) = c
        BY <4>2
      <4>5. Line' = <<x>> \o sendTo'
        BY <2>1, <3>1, <4>4 DEF Line
      <4> QED BY <2>1, <4>3, <4>5
    <3>2. CASE run # "sending"
      BY <2>1, <3>2 DEF Line
    <3> QED BY <3>1, <3>2
  <2>5. PB!Accept(id)
    BY <2>1, <2>4 DEF PB!Accept
  <2> QED BY <2>2, <2>5 DEF PB!Next
<1>4. CASE HandleSendTo
  <2> DEFINE e == Head(sendTo)
             c == clients[e.clientID]
  <2>1. /\ run = "select" /\ sendTo # <<>> /\ sendTo' = Tail(sendTo)
        /\ current' = e.message /\ audience' = {c} \ {NoClient}
        /\ run' = IF audience' = {} THEN "select" ELSE "sending"
        /\ UNCHANGED <<clients, direct, inbox>>
    BY <1>4 DEF HandleSendTo, callVars, peerVars
  <2>2. e \in Envelope /\ sendTo \in Seq(Envelope)
    BY <2>1, HeadTailProperties DEF TypeOK
  <2>3. e.clientID \in Id /\ e = [clientID |-> e.clientID, message |-> e.message]
    BY <2>2 DEF Envelope
  <2> HIDE DEF e
  <2>4. Line = sendTo
    BY <2>1 DEF Line
  <2>5. CASE c = NoClient
    <3>1. Line' = Tail(sendTo)
      BY <2>1, <2>5 DEF Line
    <3>2. PB!Lose
      BY <2>1, <2>4, <3>1 DEF PB!Lose
    <3> QED BY <3>2 DEF PB!Next
  <2>6. CASE c # NoClient
    <3>1. audience' = {c} /\ run' = "sending"
      BY <2>1, <2>6
    <3>2. IDOf[c] = e.clientID
      BY <2>3, <2>6 DEF RegistryInv
    <3>3. (CHOOSE d \in audience' : TRUE) = c
      BY <3>1
    <3>4. Line' = <<e>> \o Tail(sendTo)
      BY <2>1, <2>3, <3>1, <3>2, <3>3 DEF Line
    <3>5. Line' = Line
      BY <2>1, <2>2, <2>4, <3>4, HeadBefore DEF e
    <3> QED BY <2>1, <3>5 DEF PB!vars
  <2> QED BY <2>5, <2>6
<1>5. ASSUME NEW c \in Client, Deliver(c) \/ DeliverFails(c), run = "sending"
      PROVE  [PB!Next]_(PB!vars)
  <2> DEFINE x == [clientID |-> IDOf[c], message |-> current]
  <2>1. /\ c \in audience /\ run' = (IF audience = {c} THEN "select" ELSE run)
        /\ UNCHANGED <<clients, sendTo, direct>>
    BY <1>5 DEF Deliver, DeliverFails, Served, queueVars, callVars
  <2>2. /\ audience = {c} /\ x \in Envelope /\ sendTo \in Seq(Envelope)
        /\ clients[IDOf[c]] = c /\ c # NoClient /\ Line = <<x>> \o sendTo
    BY <1>5, <2>1, LineWhileSending, HubAssumption DEF TypeOK
  <2>3. Line # <<>> /\ Head(Line) = x /\ Tail(Line) = sendTo
    BY <2>2, PutBefore
  <2>4. Line' = Tail(Line)
    BY <2>1, <2>2, <2>3 DEF Line
  <2>5. CASE Deliver(c)
    <3>1. inbox' = [inbox EXCEPT ![c] = Append(@, current)]
      BY <1>5, <2>5 DEF Deliver
    <3>2. /\ Head(Line).message = current /\ Head(Line).clientID = IDOf[c]
          /\ clients[Head(Line).clientID] = c
      BY <2>2, <2>3
    <3>3. PB!HandOver
      BY <2>1, <2>2, <2>3, <2>4, <3>1, <3>2 DEF PB!HandOver
    <3> QED BY <3>3 DEF PB!Next
  <2>6. CASE DeliverFails(c)
    <3>1. PB!Lose
      BY <2>1, <2>3, <2>4, <2>6 DEF PB!Lose, DeliverFails, peerVars
    <3> QED BY <3>1 DEF PB!Next
  <2> QED BY <1>5, <2>5, <2>6
<1>6. ASSUME UNCHANGED <<clients, sendTo, direct, inbox>>,
             \/ UNCHANGED <<run, audience, current>>
             \/ run # "sending" /\ run' # "sending"
      PROVE  [PB!Next]_(PB!vars)
  <2>1. Line' = Line
    <3>1. CASE UNCHANGED <<run, audience, current>>
      BY <1>6, <3>1 DEF Line
    <3>2. CASE run # "sending" /\ run' # "sending"
      BY <1>6, <3>2 DEF Line
    <3> QED BY <1>6, <3>1, <3>2
  <2> QED BY <1>6, <2>1 DEF PB!vars
<1>7. \/ HandleRegister \/ HandleUnregister \/ HandleSendTo
      \/ \E p \in Caller : SendTo(p)
      \/ \E c \in Client : (Deliver(c) \/ DeliverFails(c)) /\ run = "sending"
      \/ /\ UNCHANGED <<clients, sendTo, direct, inbox>>
         /\ \/ UNCHANGED <<run, audience, current>>
            \/ run # "sending" /\ run' # "sending"
  <2>1. CASE Calls \/ Start \/ Stop \/ Shutdown \/ StopPanics \/ UNCHANGED vars
    BY <2>1 DEF Calls, Register, Unregister, Broadcast, BeginSendTo, SendToRefused,
      CountReceived, CallPanics, Start, Stop, Cancel, Shutdown, StopWaited, RunIsGone,
      StopClosesClient,
      StopClosesChannel, AllClosed, ClientsClosed, StopPanics, StopInv, vars, queueVars,
      runVars, callVars, peerVars
  <2>2. CASE Run
    BY <2>2 DEF Run, HandleBroadcast, CloseUnregistered, Serve, Deliver, DeliverFails,
      Served, Return, queueVars, callVars, peerVars
  <2> QED BY <2>1, <2>2 DEF Next
<1> QED BY <1>1, <1>2, <1>3, <1>4, <1>5, <1>6, <1>7

\* Whatever run picks from its channels, whoever registers, leaves or stops the
\* hub meanwhile, the hub behaves as the postbox promises.
THEOREM HubImplementsPostbox == Spec => ImplementsPostbox
<1>1. Init => PB!Init
  BY DEF Init, PB!Init, Line
<1>2. HubInv /\ [Next]_vars => [PB!Next]_(PB!vars)
  BY RefinedStep
<1> QED BY <1>1, <1>2, HubInductive, PTL DEF Spec, PB!Spec, ImplementsPostbox
=============================================================================
