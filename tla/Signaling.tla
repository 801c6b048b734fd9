------------------------------ MODULE Signaling ------------------------------
(***************************************************************************)
(* The signaling server: signal/ and domain/client.go around the hub of    *)
(* Hub.tla.  Every websocket has a read pump that handles one request at a *)
(* time through the router, and a write pump for the responses; the hub    *)
(* writes the relayed messages to the same websocket itself.  The pumps    *)
(* are those of Connection.tla, seen through what they promise: responses  *)
(* are written in the order the channel accepted them, until a write fails *)
(* or the connection ends.  Any write may fail, the hub's and the pump's,  *)
(* and then every later one on that websocket does; its read pump goes on. *)
(*                                                                         *)
(* The server never calls Unregister, Broadcast or Stop, and Start has run *)
(* before the first request (cmd/signal/main.go).                          *)
(***************************************************************************)
EXTENDS Hub

CONSTANTS ConnOf,     \* the websocket of each client object
          OutboxCap   \* capacity of a connection's sendChan (256)

\* The callers of the hub are the read pumps, one per websocket; they call SendTo.
ASSUME SignalingAssumption == /\ ConnOf \in [Client -> Caller] /\ OutboxCap \in Nat \ {0}
                              /\ {<<id>> : id \in Id} \subseteq TargetLists

VARIABLES
  link,       \* each websocket: "up"; "broken", a write has failed; "mute", so has
              \* one of the write pump, which is gone; "down", closed
  answering,  \* per read pump: the registration it is about to answer
  outbox,     \* per websocket: responses its write pump has not written
  wire,       \* per websocket: the frames written to it, in order
  relayed,    \* the accepted messages in order: sender, receiver ID, the client filed
              \* under it at that moment, and whether there was none though one of that
              \* ID had its response (early)
  notFound,   \* messages dropped because the registry had no such client
  failed      \* messages whose write to the websocket failed

linkVars == <<link, answering, outbox, wire, relayed, notFound, failed>>
sigVars == <<vars, linkVars>>

Frame == [kind : {"response"}, of : Client] \cup [kind : {"relay"}, of : Nat]

Confirmed == {c \in Client : \E i \in DOMAIN wire[ConnOf[c]] :
                wire[ConnOf[c]][i] = [kind |-> "response", of |-> c]}

SigTypeOK ==
  /\ link \in [Caller -> {"up", "broken", "mute", "down"}]
  /\ answering \in [Caller -> Client \cup {NoClient}]
  /\ outbox \in [Caller -> Seq(Client)]
  /\ wire \in [Caller -> Seq(Frame)]
  /\ relayed \in Seq([from : Caller, to : Id, filed : SUBSET Client, early : BOOLEAN])
  /\ notFound \subseteq Nat /\ failed \subseteq Nat

SigInit ==
  /\ Init
  /\ link = [k \in Caller |-> "up"] /\ answering = [k \in Caller |-> NoClient]
  /\ outbox = [k \in Caller |-> <<>>] /\ wire = [k \in Caller |-> <<>>]
  /\ relayed = <<>> /\ notFound = {} /\ failed = {}

-----------------------------------------------------------------------------
(***************************************************************************)
(* The read pump of websocket k, between two requests, takes the next one. *)
(***************************************************************************)
Ready(k) == ctx = "live" /\ link[k] # "down" /\ Idle(k) /\ answering[k] = NoClient

\* RegisterRequestHandler: a new client object around the websocket goes into
\* the hub's channel; the answer does not wait for the hub to take it.
RegisterRequest(k, c) ==
  /\ Ready(k) /\ ConnOf[c] = k
  /\ Register(c)
  /\ answering' = IF register' # register THEN [answering EXCEPT ![k] = c] ELSE answering
  /\ UNCHANGED <<link, outbox, wire, relayed, notFound, failed>>

\* A slip: the handler answers although it has no client.
Owes_Always(k) == link[k] = "up"

Owes(k) == answering[k] # NoClient

\* The response {ClientID, Success: true} goes to the connection's own channel.
Respond(k) ==
  /\ Owes(k)
  /\ \/ /\ link[k] # "down" /\ Len(outbox[k]) < OutboxCap
        /\ outbox' = [outbox EXCEPT ![k] = Append(@, answering[k])]
     \/ /\ link[k] = "down" \/ Len(outbox[k]) = OutboxCap
        /\ UNCHANGED outbox
  /\ answering' = [answering EXCEPT ![k] = NoClient]
  /\ UNCHANGED <<vars, link, wire, relayed, notFound, failed>>

\* A slip: the response stays in the channel.
Takes_Not(k) == UNCHANGED outbox

Takes(k) == outbox' = [outbox EXCEPT ![k] = Tail(@)]

WriteResponse(k) ==
  /\ link[k] = "up" /\ outbox[k] # <<>>
  /\ wire' = [wire EXCEPT ![k] = Append(@, [kind |-> "response", of |-> Head(outbox[k])])]
  /\ Takes(k)
  /\ UNCHANGED <<vars, link, answering, relayed, notFound, failed>>

\* The write of a response fails, and the write pump returns; the response is lost,
\* those behind it stay in the channel.
WriteResponseFails(k) ==
  /\ link[k] \in {"up", "broken"} /\ outbox[k] # <<>>
  /\ Takes(k)
  /\ link' = [link EXCEPT ![k] = "mute"]
  /\ UNCHANGED <<vars, answering, wire, relayed, notFound, failed>>

\* So does that of a ping.
PingFails(k) ==
  /\ link[k] \in {"up", "broken"}
  /\ link' = [link EXCEPT ![k] = "mute"]
  /\ UNCHANGED <<vars, answering, outbox, wire, relayed, notFound, failed>>

\* SDPHandler, ICECandidateHandler and DataChannelHandler: the whole message goes
\* to the hub for its ToID.  FromID is whatever the sender wrote.
RelayRequest(k, id) ==
  /\ Ready(k) /\ direct < MaxDirect
  /\ BeginSendTo(k, <<id>>)
  /\ UNCHANGED linkVars

Relay(k) ==
  /\ SendTo(k)
  /\ LET id == Head(pending[k])
     IN  relayed' = Append(relayed,
           [from |-> k, to |-> id, filed |-> {clients[id]} \ {NoClient},
            early |-> clients[id] = NoClient
                        /\ \E c \in Confirmed : IDOf[c] = id /\ link[ConnOf[c]] # "down"])
  /\ UNCHANGED <<link, answering, outbox, wire, notFound, failed>>

\* The router has no handler for the type, the data does not parse, or the hub
\* refused: the read pump logs it, answers nothing and goes on.
RequestFails(k) == SendToRefused(k) /\ UNCHANGED linkVars

RequestCounted(k) == CountReceived(k) /\ UNCHANGED linkVars

\* The connection ends: its pumps stop and the websocket is closed.  Nothing
\* tells the hub.
Disconnect(k) ==
  /\ link[k] # "down"
  /\ link' = [link EXCEPT ![k] = "down"]
  /\ UNCHANGED <<vars, answering, outbox, wire, relayed, notFound, failed>>

-----------------------------------------------------------------------------
(***************************************************************************)
(* The hub's run goroutine, writing through domain.client to the websocket.*)
(***************************************************************************)
TakeRegister == HandleRegister /\ UNCHANGED linkVars

TakeSendTo ==
  /\ HandleSendTo
  /\ notFound' = IF audience' = {} THEN notFound \cup {current'} ELSE notFound
  /\ UNCHANGED <<link, answering, outbox, wire, relayed, failed>>

WriteRelay(c) ==
  /\ link[ConnOf[c]] = "up"
  /\ Deliver(c)
  /\ wire' = [wire EXCEPT ![ConnOf[c]] = Append(@, [kind |-> "relay", of |-> current])]
  /\ UNCHANGED <<link, answering, outbox, relayed, notFound, failed>>

\* Also while the websocket is open: the write runs under a deadline that may have
\* passed, or into one that was broken before.  handleSendTo logs it and goes on.
WriteRelayFails(c) ==
  /\ DeliverFails(c)
  /\ failed' = failed \cup {current}
  /\ link' = [link EXCEPT ![ConnOf[c]] = IF @ = "up" THEN "broken" ELSE @]
  /\ UNCHANGED <<answering, outbox, wire, relayed, notFound>>

StartHub == Start /\ UNCHANGED linkVars

-----------------------------------------------------------------------------
HandlesRequest(k) == \/ \E c \in Client : RegisterRequest(k, c)
                     \/ \E id \in Id : RelayRequest(k, id)
                     \/ Relay(k)
                     \/ RequestFails(k)
                     \/ RequestCounted(k)
                     \/ Respond(k)

WritePump(k) == WriteResponse(k) \/ WriteResponseFails(k) \/ PingFails(k)

HubStep == \/ TakeRegister
           \/ TakeSendTo
           \/ \E c \in Client : WriteRelay(c) \/ WriteRelayFails(c)

SigNext == \/ \E k \in Caller : HandlesRequest(k) \/ WritePump(k) \/ Disconnect(k)
           \/ HubStep
           \/ StartHub

SigSpec == SigInit /\ [][SigNext]_sigVars

(***************************************************************************)
(* A request that was taken is handled to its end, the write pump writes,  *)
(* and the hub's select starves no channel.  Nothing makes a client send a *)
(* request or disconnect.                                                  *)
(***************************************************************************)
SigFairness ==
  /\ \A k \in Caller :
       /\ WF_sigVars(Relay(k) \/ RequestFails(k) \/ RequestCounted(k) \/ Respond(k))
       /\ WF_sigVars(WriteResponse(k) \/ WriteResponseFails(k))
  /\ SF_sigVars(TakeRegister) /\ SF_sigVars(TakeSendTo)
  /\ WF_sigVars(\E c \in Client : WriteRelay(c) \/ WriteRelayFails(c))
  /\ WF_sigVars(StartHub)

SigFairSpec == SigSpec /\ SigFairness

-----------------------------------------------------------------------------
(***************************************************************************)
(* Properties.                                                             *)
(***************************************************************************)
OnWire(k, n) == \E i \in DOMAIN wire[k] : wire[k][i] = [kind |-> "relay", of |-> n]

\* On every websocket the relayed messages appear in the order in which the hub
\* accepted them, so those of one sender in the order it sent them, and no
\* message or response appears twice, although two goroutines write.
WireOrder ==
  \A k \in Caller : \A i, j \in DOMAIN wire[k] :
    i < j /\ wire[k][i].kind = wire[k][j].kind =>
      IF wire[k][i].kind = "relay" THEN wire[k][i].of < wire[k][j].of
                                   ELSE wire[k][i].of # wire[k][j].of

\* A message accepted while a client holds the receiver's ID is never dropped for
\* want of a client and never written to another websocket: handleRegister
\* refuses a second client under the ID, and the server never unregisters.
FiledIsReachable ==
  \A n \in DOMAIN relayed : \A c \in relayed[n].filed :
    n \notin notFound /\ \A k \in Caller \ {ConnOf[c]} : ~OnWire(k, n)

\* The server keeps track of every message it accepted: at any time it is
\* waiting, being written, dropped, failed, or on one websocket, and only one
\* of these.
OneFate ==
  \A n \in DOMAIN relayed :
    Cardinality({i \in DOMAIN sendTo : sendTo[i].message = n})
      + (IF run = "sending" /\ current = n THEN 1 ELSE 0)
      + Cardinality({n} \cap notFound) + Cardinality({n} \cap failed)
      + Cardinality({k \in Caller : OnWire(k, n)}) = 1

\* A message for a client that is filed reaches its websocket, unless a write to that
\* websocket failed or it was closed: requests for other clients do not hold it up for
\* ever, nor do their websockets that fail.
RelayArrives ==
  \A n \in 1..MaxDirect :
    n \in DOMAIN relayed
      ~> \E i \in DOMAIN relayed : i = n /\ \A c \in relayed[i].filed :
           OnWire(ConnOf[c], n) \/ link[ConnOf[c]] # "up"

\* The server implements the relay of Relay.tla.  A message is waiting as long as it
\* is in the hub's channel or in the hands of run.
InLine(n) == \E i \in DOMAIN sendTo : sendTo[i].message = n
InHand(n) == run = "sending" /\ current = n
R == INSTANCE Relay WITH
       Socket <- Caller,
       SocketOf <- ConnOf,
       open <- {k \in Caller : link[k] # "down"},
       working <- {k \in Caller : link[k] = "up"},
       asked <- offered,
       directory <- clients,
       log <- [n \in DOMAIN relayed |-> [from |-> relayed[n].from, to |-> relayed[n].to]],
       waiting <- {n \in DOMAIN relayed : InLine(n) \/ InHand(n)},
       sent <- wire
ImplementsRelay == R!Spec

\* README.md shows clients[id] = client before the RegisterResponse.  Then a
\* message accepted after a client has its response finds the client.
ConfirmedIsReachable ==
  \A n \in DOMAIN relayed : relayed[n].early => n \notin notFound

\* domain/hub.go: GetClients returns all connected clients; one whose websocket
\* is gone should leave the registry.
DisconnectedIsForgotten ==
  \A c \in Client : link[ConnOf[c]] = "down" ~> c \notin Stored
=============================================================================
