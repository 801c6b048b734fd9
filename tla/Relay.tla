-------------------------------- MODULE Relay --------------------------------
(***************************************************************************)
(* What the signaling server promises to the peers behind its websockets,  *)
(* without pumps, hub and channels.  A websocket asks to file clients; a   *)
(* client that is filed keeps its ID; a registration is answered at most   *)
(* once.  A message that was accepted waits until the older ones of the    *)
(* same sender are gone; then it is written to the websocket of the client *)
(* that is filed under the receiver's ID, or it is lost.  It is lost only  *)
(* if there is no such client, or with the websocket: nothing more is      *)
(* written to that one, so the peer behind it, having missed a message,    *)
(* gets no newer one.  Its requests may still be read.                     *)
(***************************************************************************)
EXTENDS Naturals, Sequences

CONSTANTS Id,         \* client IDs
          Client,     \* client objects
          IDOf,       \* the ID of each client object
          NoClient,   \* "the directory has no entry"
          Socket,     \* websockets
          SocketOf    \* the websocket of each client object

VARIABLES open,       \* websockets whose requests are read
          working,    \* websockets that can be written to
          asked,      \* client objects made by a register request
          directory,  \* the client filed under each ID, or NoClient
          log,        \* sender and receiver of each accepted message
          waiting,    \* the accepted messages whose fate is open
          sent        \* the frames written to each websocket

vars == <<open, working, asked, directory, log, waiting, sent>>

Init == /\ open = Socket /\ working = Socket /\ asked = {}
        /\ directory = [id \in Id |-> NoClient]
        /\ log = <<>> /\ waiting = {}
        /\ sent = [k \in Socket |-> <<>>]

Ask(c) == /\ SocketOf[c] \in open /\ c \notin asked
          /\ asked' = asked \cup {c}
          /\ UNCHANGED <<open, working, directory, log, waiting, sent>>

\* An ID in use is never given to a second client, nor given back.
Join(c) == /\ c \in asked /\ directory[IDOf[c]] = NoClient
           /\ directory' = [directory EXCEPT ![IDOf[c]] = c]
           /\ UNCHANGED <<open, working, asked, log, waiting, sent>>

Writes(k, frame) == /\ k \in working
                    /\ sent' = [sent EXCEPT ![k] = Append(@, frame)]

Answer(c) == LET frame == [kind |-> "response", of |-> c]
             IN  /\ c \in asked
                 /\ \A i \in DOMAIN sent[SocketOf[c]] : sent[SocketOf[c]][i] # frame
                 /\ Writes(SocketOf[c], frame)
                 /\ UNCHANGED <<open, working, asked, directory, log, waiting>>

Accept(k, id) == /\ log' = Append(log, [from |-> k, to |-> id])
                 /\ waiting' = waiting \cup {Len(log')}
                 /\ UNCHANGED <<open, working, asked, directory, sent>>

\* n is the oldest message of its sender.
Oldest(n) == n \in waiting /\ \A m \in waiting : log[m].from = log[n].from => n <= m
Gone(n)  == waiting' = waiting \ {n}

HandOver(n) == /\ Oldest(n) /\ Gone(n)
               /\ directory[log[n].to] # NoClient
               /\ Writes(SocketOf[directory[log[n].to]], [kind |-> "relay", of |-> n])
               /\ UNCHANGED <<open, working, asked, directory, log>>

\* A failed write leaves a websocket that fails every later one.
Breaks(k) == working' = working \ {k}

Lose(n) == /\ Oldest(n) /\ Gone(n)
           /\ IF directory[log[n].to] = NoClient
              THEN UNCHANGED working
              ELSE Breaks(SocketOf[directory[log[n].to]])
           /\ UNCHANGED <<open, asked, directory, log, sent>>

\* A failed write of something else.
Break(k) == /\ Breaks(k)
            /\ UNCHANGED <<open, asked, directory, log, waiting, sent>>

HangUp(k) == /\ k \in open
             /\ open' = open \ {k} /\ Breaks(k)
             /\ UNCHANGED <<asked, directory, log, waiting, sent>>

Next == \/ \E c \in Client : Ask(c) \/ Join(c) \/ Answer(c)
        \/ \E k \in Socket : Break(k) \/ HangUp(k) \/ \E id \in Id : Accept(k, id)
        \/ \E n \in waiting : HandOver(n) \/ Lose(n)

Spec == Init /\ [][Next]_vars
=============================================================================
