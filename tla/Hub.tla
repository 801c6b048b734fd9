--------------------------------- MODULE Hub ---------------------------------
(***************************************************************************)
(* The message hub of the signaling server, hub/hub.go: a registry of      *)
(* clients owned by one goroutine, four buffered channels through which    *)
(* every other goroutine reaches it, two counters, and a shutdown.         *)
(*                                                                         *)
(* Message contents do not matter to the hub: a message is the turn at     *)
(* which its channel accepted it, counted per channel.                     *)
(***************************************************************************)
EXTENDS Integers, Sequences, FiniteSets

CONSTANTS Id,             \* client IDs
          Client,         \* client objects; each register request makes a new one
          IDOf,           \* IDOf[c] is the ID of client object c
          NoClient,       \* "no entry in the registry"
          Caller,         \* goroutines that call SendTo, SendToMultiple, Broadcast
          TargetLists,    \* the ID lists that callers pass
          RegisterCap, UnregisterCap, BroadcastCap, SendToCap,
          MaxDirect, MaxBroadcast     \* bounds on the accepted messages

ASSUME HubAssumption ==
  /\ NoClient \notin Client
  /\ IDOf \in [Client -> Id]
  /\ TargetLists \subseteq Seq(Id)
  /\ {RegisterCap, UnregisterCap, BroadcastCap, SendToCap} \subseteq Nat \ {0}
  /\ MaxDirect \in Nat /\ MaxBroadcast \in Nat

VARIABLES
  clients,      \* the sync.Map: ID -> client object or NoClient
  register, unregister, broadcast, sendTo,    \* the buffered channels
  nClosed,      \* how many of Channels Stop has closed
  ctx,          \* h.ctx: "unset" before Start, "live", "done"
  run,          \* where the run goroutine is
  audience,     \* the clients run still has to serve in its current task
  current,      \* the message run is delivering
  stop,         \* progress of the Stop call
  toClose,      \* clients Stop still has to close
  panicked,     \* some goroutine panicked: the process is gone
  messagesSent, messagesReceived,             \* the counters
  pending,      \* per caller: IDs its call still has to send to
  counting,     \* per caller: it put a message in, its AddInt64 is still to come
  offered,      \* client objects passed to Register
  closed,       \* client objects whose Close was called
  direct, broadcasts,   \* how many messages sendTo and broadcast have accepted
  inbox, heard  \* per client: direct and broadcast messages written to it

queueVars == <<register, unregister, broadcast, sendTo>>
runVars   == <<run, audience, current>>
stopVars  == <<ctx, stop, toClose, nClosed>>
callVars  == <<pending, counting, messagesReceived, direct, broadcasts>>
peerVars  == <<inbox, heard, messagesSent>>
vars == <<clients, queueVars, runVars, stopVars, callVars, peerVars,
          offered, closed, panicked>>

Envelope == [clientID : Id, message : Nat]
Stored   == {clients[id] : id \in Id} \ {NoClient}

\* The order in which Stop closes the channels.
Channels == <<"register", "unregister", "broadcast", "sendTo">>
ChanClosed(ch) == \E i \in 1..nClosed : Channels[i] = ch

TypeOK ==
  /\ clients \in [Id -> Client \cup {NoClient}]
  /\ register \in Seq(Client) /\ unregister \in Seq(Id)
  /\ broadcast \in Seq(Nat)   /\ sendTo \in Seq(Envelope)
  /\ nClosed \in 0..4
  /\ ctx \in {"unset", "live", "done"}
  /\ run \in {"off", "select", "closing", "sending", "broadcasting", "returned"}
  /\ audience \subseteq Client /\ current \in Nat
  /\ stop \in {"no", "waiting", "closing", "stopped"}
  /\ toClose \subseteq Client
  /\ panicked \in BOOLEAN
  /\ messagesSent \in Nat /\ messagesReceived \in Nat
  /\ pending \in [Caller -> Seq(Id)] /\ counting \in [Caller -> BOOLEAN]
  /\ offered \subseteq Client /\ closed \subseteq Client
  /\ direct \in Nat /\ broadcasts \in Nat
  /\ inbox \in [Client -> Seq(Nat)] /\ heard \in [Client -> Seq(Nat)]

Init ==
  /\ clients = [id \in Id |-> NoClient]
  /\ register = <<>> /\ unregister = <<>> /\ broadcast = <<>> /\ sendTo = <<>>
  /\ nClosed = 0 /\ ctx = "unset"
  /\ run = "off" /\ audience = {} /\ current = 0
  /\ stop = "no" /\ toClose = {} /\ panicked = FALSE
  /\ messagesSent = 0 /\ messagesReceived = 0
  /\ pending = [p \in Caller |-> <<>>] /\ counting = [p \in Caller |-> FALSE]
  /\ offered = {} /\ closed = {}
  /\ direct = 0 /\ broadcasts = 0
  /\ inbox = [c \in Client |-> <<>>] /\ heard = [c \in Client |-> <<>>]

-----------------------------------------------------------------------------
(***************************************************************************)
(* Calls from other goroutines.  Each is one Go select with a send case, a *)
(* ctx.Done case and a default: ready cases are chosen between at random,  *)
(* default only when there is none.                                        *)
(***************************************************************************)
CanPut(ch, q, cap) == ctx # "unset" /\ ~ChanClosed(ch) /\ Len(q) < cap
Refuses(ch, q, cap) == \/ ctx = "done"
                       \/ ctx = "live" /\ ~ChanClosed(ch) /\ Len(q) = cap

Idle(p) == pending[p] = <<>> /\ ~counting[p]

Register(c) ==
  /\ c \notin offered
  /\ offered' = offered \cup {c}
  /\ \/ /\ CanPut("register", register, RegisterCap)
        /\ register' = Append(register, c)
     \/ /\ Refuses("register", register, RegisterCap)
        /\ UNCHANGED register
  /\ UNCHANGED <<clients, unregister, broadcast, sendTo, runVars, stopVars,
                 callVars, peerVars, closed, panicked>>

\* A refused Unregister or Broadcast returns an error and changes nothing: it
\* is a stuttering step.
Unregister(id) ==
  /\ CanPut("unregister", unregister, UnregisterCap)
  /\ unregister' = Append(unregister, id)
  /\ UNCHANGED <<clients, register, broadcast, sendTo, runVars, stopVars,
                 callVars, peerVars, offered, closed, panicked>>

Broadcast(p) ==
  /\ Idle(p) /\ broadcasts < MaxBroadcast
  /\ CanPut("broadcast", broadcast, BroadcastCap)
  /\ broadcasts' = broadcasts + 1
  /\ broadcast' = Append(broadcast, broadcasts')
  /\ counting' = [counting EXCEPT ![p] = TRUE]
  /\ UNCHANGED <<clients, register, unregister, sendTo, runVars, stopVars, pending,
                 messagesReceived, direct, peerVars, offered, closed, panicked>>

\* SendToMultiple(ids, m); SendTo(id, m) is the call with the list <<id>>.
BeginSendTo(p, ids) ==
  /\ Idle(p)
  /\ pending' = [pending EXCEPT ![p] = ids]
  /\ UNCHANGED <<clients, queueVars, runVars, stopVars, counting, messagesReceived,
                 direct, broadcasts, peerVars, offered, closed, panicked>>

\* The message for the next ID of the list goes into the channel ...
SendTo(p) ==
  /\ pending[p] # <<>> /\ ~counting[p] /\ direct < MaxDirect
  /\ CanPut("sendTo", sendTo, SendToCap)
  /\ direct' = direct + 1
  /\ sendTo' = Append(sendTo, [clientID |-> Head(pending[p]), message |-> direct'])
  /\ pending' = [pending EXCEPT ![p] = Tail(@)]
  /\ counting' = [counting EXCEPT ![p] = TRUE]
  /\ UNCHANGED <<clients, register, unregister, broadcast, runVars, stopVars,
                 messagesReceived, broadcasts, peerVars, offered, closed, panicked>>

\* A slip: the call is counted before the select decides.
SendToRefused_Counted(p) ==
  /\ pending[p] # <<>> /\ ~counting[p]
  /\ Refuses("sendTo", sendTo, SendToCap)
  /\ pending' = [pending EXCEPT ![p] = Tail(@)]
  /\ counting' = [counting EXCEPT ![p] = TRUE]
  /\ UNCHANGED <<clients, queueVars, runVars, stopVars, messagesReceived,
                 direct, broadcasts, peerVars, offered, closed, panicked>>

\* ... or is refused; the error is logged and the list goes on.
SendToRefused(p) ==
  /\ pending[p] # <<>> /\ ~counting[p]
  /\ Refuses("sendTo", sendTo, SendToCap)
  /\ pending' = [pending EXCEPT ![p] = Tail(@)]
  /\ UNCHANGED <<clients, queueVars, runVars, stopVars, counting, messagesReceived,
                 direct, broadcasts, peerVars, offered, closed, panicked>>

\* atomic.AddInt64(&h.messagesReceived, 1), after the channel took the message.
CountReceived(p) ==
  /\ counting[p]
  /\ counting' = [counting EXCEPT ![p] = FALSE]
  /\ messagesReceived' = messagesReceived + 1
  /\ UNCHANGED <<clients, queueVars, runVars, stopVars, pending, direct, broadcasts,
                 peerVars, offered, closed, panicked>>

\* Before Start h.ctx is a nil interface and h.ctx.Done() panics; after Stop has
\* closed a channel the send case is ready and panics if it is chosen.
CallPanics(ch) ==
  /\ ctx = "unset" \/ ChanClosed(ch)
  /\ panicked' = TRUE
  /\ UNCHANGED <<clients, queueVars, runVars, stopVars, callVars, peerVars,
                 offered, closed>>

-----------------------------------------------------------------------------
(***************************************************************************)
(* The run goroutine.  Its select takes from whichever channels are ready, *)
(* at random; a handler runs to its end before the next select.            *)
(***************************************************************************)
\* A slip: the check for a client under the ID is missing.
Filed_Over(c) == [clients EXCEPT ![IDOf[c]] = c]

\* A second client under an ID is dropped.
Filed(c) == IF clients[IDOf[c]] = NoClient THEN [clients EXCEPT ![IDOf[c]] = c] ELSE clients

HandleRegister ==
  /\ run = "select" /\ register # <<>>
  /\ register' = Tail(register)
  /\ clients' = Filed(Head(register))
  /\ UNCHANGED <<unregister, broadcast, sendTo, runVars, stopVars, callVars, peerVars,
                 offered, closed, panicked>>

\* A slip: the entry is looked up but not deleted.
Without_Not(id) == clients

Without(id) == [clients EXCEPT ![id] = NoClient]

\* LoadAndDelete, then the client is closed in CloseUnregistered.
HandleUnregister ==
  /\ run = "select" /\ unregister # <<>>
  /\ unregister' = Tail(unregister)
  /\ clients' = Without(Head(unregister))
  /\ audience' = {clients[Head(unregister)]} \ {NoClient}
  /\ run' = IF audience' = {} THEN "select" ELSE "closing"
  /\ UNCHANGED <<register, broadcast, sendTo, current, stopVars, callVars, peerVars,
                 offered, closed, panicked>>

CloseUnregistered ==
  /\ run = "closing"
  /\ closed' = closed \cup audience
  /\ audience' = {} /\ run' = "select"
  /\ UNCHANGED <<clients, queueVars, current, stopVars, callVars, peerVars,
                 offered, panicked>>

HandleSendTo ==
  /\ run = "select" /\ sendTo # <<>>
  /\ sendTo' = Tail(sendTo)
  /\ current' = Head(sendTo).message
  /\ audience' = {clients[Head(sendTo).clientID]} \ {NoClient}
  /\ run' = IF audience' = {} THEN "select" ELSE "sending"
  /\ UNCHANGED <<clients, register, unregister, broadcast, stopVars, callVars, peerVars,
                 offered, closed, panicked>>

HandleBroadcast ==
  /\ run = "select" /\ broadcast # <<>>
  /\ broadcast' = Tail(broadcast)
  /\ current' = Head(broadcast)
  /\ audience' = Stored
  /\ run' = IF audience' = {} THEN "select" ELSE "broadcasting"
  /\ UNCHANGED <<clients, register, unregister, sendTo, stopVars, callVars, peerVars,
                 offered, closed, panicked>>

\* Two slips: a client stays in the audience; run does not return to its select.
Served_Again(c) == UNCHANGED <<audience, run>>
Served_Waits(c) == audience' = audience \ {c} /\ UNCHANGED run

Served(c) == /\ audience' = audience \ {c}
             /\ run' = IF audience = {c} THEN "select" ELSE run

\* client.Send returned nil.
Deliver(c) ==
  /\ c \in audience \ closed
  /\ \/ /\ run = "sending"
        /\ inbox' = [inbox EXCEPT ![c] = Append(@, current)]
        /\ UNCHANGED heard
     \/ /\ run = "broadcasting"
        /\ heard' = [heard EXCEPT ![c] = Append(@, current)]
        /\ UNCHANGED inbox
  /\ messagesSent' = messagesSent + 1
  /\ Served(c)
  /\ UNCHANGED <<clients, queueVars, current, stopVars, callVars, offered, closed,
                 panicked>>

\* client.Send returned an error: it is logged, nothing is retried.
DeliverFails(c) ==
  /\ run \in {"sending", "broadcasting"} /\ c \in audience
  /\ Served(c)
  /\ UNCHANGED <<clients, queueVars, current, stopVars, callVars, peerVars, offered,
                 closed, panicked>>

Return ==
  /\ run = "select" /\ ctx = "done"
  /\ run' = "returned"
  /\ UNCHANGED <<clients, queueVars, audience, current, stopVars, callVars, peerVars,
                 offered, closed, panicked>>

-----------------------------------------------------------------------------
(***************************************************************************)
(* Start and Stop.  The server calls Start once; Stop waits for run, then  *)
(* closes the stored clients, then the channels.                           *)
(***************************************************************************)
Start ==
  /\ ctx = "unset"
  /\ ctx' = "live" /\ run' = "select"
  /\ UNCHANGED <<clients, queueVars, audience, current, stop, toClose, nClosed,
                 callVars, peerVars, offered, closed, panicked>>

\* A slip: Stop waits for run without cancelling.
Cancel_Not == UNCHANGED ctx

Cancel == ctx' = "done"
RunIsGone == run = "returned"

Stop ==
  /\ stop = "no" /\ ctx = "live"
  /\ Cancel /\ stop' = "waiting"
  /\ UNCHANGED <<clients, queueVars, runVars, toClose, nClosed, callVars, peerVars,
                 offered, closed, panicked>>

StopWaited ==
  /\ stop = "waiting" /\ RunIsGone
  /\ stop' = "closing" /\ toClose' = Stored
  /\ UNCHANGED <<clients, queueVars, runVars, ctx, nClosed, callVars, peerVars, offered,
                 closed, panicked>>

StopClosesClient(c) ==
  /\ stop = "closing" /\ c \in toClose
  /\ toClose' = toClose \ {c} /\ closed' = closed \cup {c}
  /\ UNCHANGED <<clients, queueVars, runVars, ctx, stop, nClosed, callVars, peerVars,
                 offered, panicked>>

\* A slip: the channels do not wait for the clients.
ClientsClosed_Unasked == toClose \subseteq Stored

AllClosed(n) == n = Len(Channels)
ClientsClosed == toClose = {}

StopClosesChannel ==
  /\ stop = "closing" /\ ClientsClosed
  /\ nClosed' = nClosed + 1
  /\ stop' = IF AllClosed(nClosed') THEN "stopped" ELSE stop
  /\ UNCHANGED <<clients, queueVars, runVars, ctx, toClose, callVars, peerVars, offered,
                 closed, panicked>>

\* A Stop before Start calls a nil cancel function; a second one closes closed channels.
StopPanics ==
  /\ ctx = "unset" \/ stop = "stopped"
  /\ panicked' = TRUE
  /\ UNCHANGED <<clients, queueVars, runVars, stopVars, callVars, peerVars,
                 offered, closed>>

-----------------------------------------------------------------------------
Calls == \/ \E c \in Client : Register(c)
         \/ \E id \in Id : Unregister(id)
         \/ \E p \in Caller : \/ Broadcast(p)
                              \/ \E ids \in TargetLists : BeginSendTo(p, ids)
                              \/ SendTo(p)
                              \/ SendToRefused(p)
                              \/ CountReceived(p)
         \/ \E i \in 1..4 : CallPanics(Channels[i])

Serve == \E c \in Client : Deliver(c) \/ DeliverFails(c)

Run == \/ HandleRegister
       \/ HandleUnregister
       \/ HandleSendTo
       \/ HandleBroadcast
       \/ CloseUnregistered
       \/ Serve
       \/ Return

Shutdown == \/ StopWaited
            \/ \E c \in Client : StopClosesClient(c)
            \/ StopClosesChannel

Next == /\ ~panicked
        /\ Calls \/ Run \/ Start \/ Stop \/ Shutdown \/ StopPanics

Spec == Init /\ [][Next]_vars

(***************************************************************************)
(* Go's select picks uniformly among its ready cases, so a case that is    *)
(* ready at infinitely many selects is chosen: strong fairness per case.   *)
(* Handlers and Stop run on: weak fairness.  Nothing forces a call.        *)
(***************************************************************************)
Fairness == /\ SF_vars(~panicked /\ HandleRegister)
            /\ SF_vars(~panicked /\ HandleUnregister)
            /\ SF_vars(~panicked /\ HandleSendTo)
            /\ SF_vars(~panicked /\ HandleBroadcast)
            /\ SF_vars(~panicked /\ Return)
            /\ WF_vars(~panicked /\ CloseUnregistered)
            /\ WF_vars(~panicked /\ Serve)
            /\ WF_vars(~panicked /\ Shutdown)
            /\ WF_vars(~panicked /\ Start)

FairSpec == Spec /\ Fairness

-----------------------------------------------------------------------------
(***************************************************************************)
(* Properties.                                                             *)
(***************************************************************************)
Increasing(s) == \A i, j \in DOMAIN s : i < j => s[i] < s[j]

\* A client is handed the messages of one channel in the order the channel
\* accepted them, none of them twice (HandleSendTo, HandleBroadcast, Deliver).
OrderedDelivery == \A c \in Client : Increasing(inbox[c]) /\ Increasing(heard[c])

\* The run goroutine never hands a message to a client that was closed, and
\* until Stop closes the remaining clients the registry names none that is:
\* handleUnregister removes a client before it closes it, and a client object
\* that was closed is never filed again.
NoUseAfterClose ==
  /\ stop \in {"no", "waiting"} => Stored \cap closed = {}
  /\ run \in {"sending", "broadcasting"} => audience \cap closed = {}

\* Stop closes clients and channels only after the run goroutine is gone: run
\* never takes the zero value of a closed channel and never shares a client
\* with Stop (the wg.Wait between cancel and the closes).
ReceiverGoneBeforeClose ==
  stop \in {"closing", "stopped"} \/ nClosed > 0 => run = "returned"

\* When Stop returns, every client the registry holds was closed (the Range).
StopClosesEveryStored == stop = "stopped" => Stored \subseteq closed

\* The statistics lose no message: messagesReceived trails what the channels
\* accepted by exactly the calls between their send and their AddInt64.
ReceivedAddsUp ==
  messagesReceived + Cardinality({p \in Caller : counting[p]}) = direct + broadcasts

\* Stop always returns unless the process panics: run leaves its select at the
\* latest when the random choice falls on ctx.Done, however full the channels.
StopReturns == stop = "waiting" ~> stop = "stopped" \/ panicked

\* While the hub is not being stopped, run takes every direct message that was
\* accepted: no channel starves another.
AcceptedIsTaken ==
  \A n \in 1..MaxDirect :
    direct >= n ~> \/ \A i \in DOMAIN sendTo : sendTo[i].message # n
                   \/ ctx = "done"
                   \/ panicked

\* The hub implements the postbox of Postbox.tla: the message that run is
\* delivering is still at the head of the line.
Line == IF run = "sending"
        THEN LET c == CHOOSE c \in audience : TRUE
             IN  <<[clientID |-> IDOf[c], message |-> current]>> \o sendTo
        ELSE sendTo
PB == INSTANCE Postbox WITH
        directory <- clients,
        line <- Line,
        taken <- direct
ImplementsPostbox == PB!Spec
=============================================================================
