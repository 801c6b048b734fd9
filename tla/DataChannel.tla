----------------------------- MODULE DataChannel -----------------------------
(***************************************************************************)
(* The data channel of two peers (internal/webrtc/datachannel.go) as the   *)
(* programs use it (cmd/datachannel): the offering end wraps the channel,  *)
(* sets its handlers and waits for OnOpen; the answering end wraps it in   *)
(* the callback that peer.go forwards; both send their messages from a     *)
(* goroutine.  pion carries the messages of a channel reliably and in      *)
(* order, the first being the one that opens the channel.                  *)
(*                                                                         *)
(* pion connects the peers once this one has the other's description and a *)
(* candidate of it: the state of CandidateQueue.tla, which goes on below.  *)
(***************************************************************************)
EXTENDS CandidateQueue, SequencesExt

CONSTANT MaxMessages   \* bound on the messages that an end sends

ASSUME MaxMessagesAssumption == MaxMessages \in Nat \ {0}

VARIABLES
  ready,      \* per end: dc.ReadyState(), "none" where pion has no channel yet
  onMessage,  \* per end: the wrapper has a message handler
  wire,       \* per end: what is on its way to it
  sender,     \* per end: its sending goroutine
  turn,       \* per end: the message that goroutine is at
  accepted,   \* per end: the messages that dc.Send took
  handled,    \* per end: the messages the handler was called with
  messagesSent, messagesRecv   \* per end: the wrapper's counters

chanVars == <<ready, onMessage>>
sendVars == <<sender, turn, accepted, messagesSent>>
recvVars == <<handled, messagesRecv>>
dcVars   == <<chanVars, wire, sendVars, recvVars>>

End == {"offer", "answer"}
Far(e) == CHOOSE f \in End : f # e

\* What the wire carries besides messages: the channel's opening and its
\* confirmation, and the end of the stream.
Sign   == {<<"open">>, <<"ack">>, <<"end">>}
Number == 1..MaxMessages
Message(k) == <<"message", k>>

DCTypeOK ==
  /\ ready \in [End -> {"none", "connecting", "open", "closed"}]
  /\ onMessage \in [End -> BOOLEAN]
  /\ wire \in [End -> Seq(Sign \cup {Message(k) : k \in Number})]
  /\ sender \in [End -> {"none", "checking", "sending", "counting", "done"}]
  /\ turn \in [End -> 1..MaxMessages + 1]
  /\ {accepted, handled} \subseteq [End -> Seq(Number)]
  /\ {messagesSent, messagesRecv} \subseteq [End -> 0..MaxMessages]

\* CreateDataChannel and OnMessage come before the offer is made.
DCInit ==
  /\ ready = [e \in End |-> IF e = "offer" THEN "connecting" ELSE "none"]
  /\ onMessage = [e \in End |-> e = "offer"]
  /\ wire = [e \in End |-> <<>>]
  /\ sender = [e \in End |-> "none"] /\ turn = [e \in End |-> 1]
  /\ accepted = [e \in End |-> <<>>] /\ handled = [e \in End |-> <<>>]
  /\ messagesSent = [e \in End |-> 0] /\ messagesRecv = [e \in End |-> 0]

Puts(e, x) == wire' = [wire EXCEPT ![e] = Append(@, x)]
Arrives(e, x) == wire[e] # <<>> /\ Head(wire[e]) = x
Taken(e) == [wire EXCEPT ![e] = Tail(@)]
Starts(e) == sender' = [sender EXCEPT ![e] = "checking"]

-----------------------------------------------------------------------------
\* The connection comes up: pion opens the channel that was made before.  Its
\* state is open at once, OnOpen waits for the confirmation.
Connects == /\ described /\ added # <<>> /\ ready["offer"] = "connecting"
            /\ ready' = [ready EXCEPT !["offer"] = "open"]
            /\ Puts("answer", <<"open">>)
            /\ UNCHANGED <<onMessage, sendVars, recvVars>>

\* pion calls back before it reads the channel: the callback wraps the channel,
\* sets the message handler and starts the goroutine that sends ...
OnDataChannel ==
  /\ Arrives("answer", <<"open">>) /\ ready["answer"] = "none"
  /\ ready' = [ready EXCEPT !["answer"] = "connecting"]
  /\ onMessage' = [onMessage EXCEPT !["answer"] = TRUE]
  /\ Starts("answer")
  /\ UNCHANGED <<wire, turn, accepted, messagesSent, recvVars>>

\* ... then pion opens and confirms the channel and starts to read it.
AnswerOpens ==
  /\ ready["answer"] = "connecting"
  /\ ready' = [ready EXCEPT !["answer"] = "open"]
  /\ wire' = [e \in End |-> IF e = "answer" THEN Tail(wire[e]) ELSE Append(wire[e], <<"ack">>)]
  /\ UNCHANGED <<onMessage, sendVars, recvVars>>

\* A slip: OnOpen was set after the channel was open, and is not called.
OnOpen_Missed ==
  /\ ready["offer"] = "open" /\ Arrives("offer", <<"ack">>)
  /\ wire' = Taken("offer")
  /\ UNCHANGED <<chanVars, sendVars, recvVars>>

\* OnOpen at the offering end starts the goroutine that sends.
OnOpen ==
  /\ ready["offer"] = "open" /\ Arrives("offer", <<"ack">>)
  /\ wire' = Taken("offer")
  /\ Starts("offer")
  /\ UNCHANGED <<chanVars, turn, accepted, messagesSent, recvVars>>

-----------------------------------------------------------------------------
Goes(e, s) == sender' = [sender EXCEPT ![e] = s] /\ UNCHANGED turn

\* The loop goes on after a failure as after a success.
NextMessage(e) == /\ turn' = [turn EXCEPT ![e] = @ + 1]
                  /\ sender' = [sender EXCEPT
                                  ![e] = IF turn[e] = MaxMessages THEN "done" ELSE "checking"]

\* Send looks at the state of the channel ...
SendChecks(e) ==
  /\ sender[e] = "checking"
  /\ IF ready[e] = "open" THEN Goes(e, "sending") ELSE NextMessage(e)
  /\ UNCHANGED <<chanVars, wire, accepted, messagesSent, recvVars>>

\* A slip: the message is counted although pion did not take it.
SendSends_Counted(e) ==
  /\ sender[e] = "sending"
  /\ IF ready[e] = "open"
     THEN accepted' = [accepted EXCEPT ![e] = Append(@, turn[e])] /\ Puts(Far(e), Message(turn[e]))
     ELSE UNCHANGED <<accepted, wire>>
  /\ Goes(e, "counting")
  /\ UNCHANGED <<chanVars, messagesSent, recvVars>>

\* ... hands the message to pion, which refuses it if the channel has closed ...
SendSends(e) ==
  /\ sender[e] = "sending"
  /\ \/ /\ ready[e] = "open"
        /\ accepted' = [accepted EXCEPT ![e] = Append(@, turn[e])]
        /\ Puts(Far(e), Message(turn[e]))
        /\ Goes(e, "counting")
     \/ /\ ready[e] # "open"
        /\ NextMessage(e)
        /\ UNCHANGED <<accepted, wire>>
  /\ UNCHANGED <<chanVars, messagesSent, recvVars>>

\* ... and counts it afterwards.
SendCounts(e) ==
  /\ sender[e] = "counting"
  /\ messagesSent' = [messagesSent EXCEPT ![e] = @ + 1]
  /\ NextMessage(e)
  /\ UNCHANGED <<chanVars, wire, accepted, recvVars>>

\* A slip: the handler is set by the goroutine that sends, after its first message.
Handler_Late(e) == turn[e] > 1

Handler(e) == onMessage[e]

\* pion's read loop calls the wrapper, which counts the message and passes it on.
Receives(e) ==
  /\ ready[e] = "open"
  /\ \E k \in Number :
       /\ Arrives(e, Message(k))
       /\ handled' = IF Handler(e) THEN [handled EXCEPT ![e] = Append(@, k)] ELSE handled
  /\ messagesRecv' = [messagesRecv EXCEPT ![e] = @ + 1]
  /\ wire' = Taken(e)
  /\ UNCHANGED <<chanVars, sendVars>>

\* Close ends the read loop here, and there when it gets to the end of the stream.
Close(e) == /\ ready[e] = "open"
            /\ ready' = [ready EXCEPT ![e] = "closed"]
            /\ Puts(Far(e), <<"end">>)
            /\ UNCHANGED <<onMessage, sendVars, recvVars>>

FarCloses(e) == /\ ready[e] = "open" /\ Arrives(e, <<"end">>)
                /\ ready' = [ready EXCEPT ![e] = "closed"]
                /\ wire' = Taken(e)
                /\ UNCHANGED <<onMessage, sendVars, recvVars>>

-----------------------------------------------------------------------------
Opens == Connects \/ OnDataChannel \/ AnswerOpens \/ OnOpen
Sends(e) == SendChecks(e) \/ SendSends(e) \/ SendCounts(e)
Reads(e) == Receives(e) \/ FarCloses(e)

DCNext == /\ Opens \/ \E e \in End : Sends(e) \/ Reads(e) \/ Close(e)
          /\ UNCHANGED vars

PeerInit == Init /\ DCInit
PeerNext == DCNext \/ (Next /\ UNCHANGED dcVars)
PeerVars == <<vars, dcVars>>

\* Goroutines and callbacks run, pion connects and delivers; nobody has to close.
Fairness ==
  /\ WF_PeerVars(Next /\ UNCHANGED dcVars)
  /\ WF_PeerVars(Opens /\ UNCHANGED vars)
  /\ \A e \in End : /\ WF_PeerVars(Sends(e) /\ UNCHANGED vars)
                    /\ WF_PeerVars(Reads(e) /\ UNCHANGED vars)

PeerSpec == PeerInit /\ [][PeerNext]_PeerVars /\ Fairness

-----------------------------------------------------------------------------
Closed == \E e \in End : ready[e] = "closed"

\* The handler of one end gets exactly what the other end's Send accepted, in that
\* order and from the first message on, however early that comes.
HandledIsPrefix == \A e \in End : IsPrefix(handled[e], accepted[Far(e)])

\* The counters of both ends differ by what is under way and by the message that
\* was handed over and is not counted yet; a message that pion refused, because
\* the channel closed after the check, is not counted.
UnderWay(e) == Cardinality({i \in DOMAIN wire[e] : wire[e][i] \notin Sign})
CountsAgree ==
  \A e \in End :
    LET handedOver == messagesSent[Far(e)] + (IF sender[Far(e)] = "counting" THEN 1 ELSE 0)
    IN  messagesRecv[e] + UnderWay(e) = handedOver

\* Once this peer has the other's description and one candidate, in whatever order
\* and with however many calls they came, the other end gets all the messages and
\* answers, and of the answers those arrive that Send accepted.  Messages go
\* missing only together with the channel.
Answered == sender["answer"] = "done" /\ handled["offer"] = accepted["answer"]
GreetingArrives ==
  (described /\ added # <<>>) ~>
    ((handled["answer"] = [k \in Number |-> k] /\ Answered) \/ Closed)
=============================================================================
