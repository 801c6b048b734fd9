----------------------------- MODULE Connection -----------------------------
(***************************************************************************)
(* One websocket connection, internal/transport/websocket.go: a read pump, *)
(* a write pump fed by a buffered channel, and a four-step Close that any  *)
(* goroutine may call.  Used by the server (signal/server.go: only the     *)
(* read pump sends and closes) and, inside transport.Client, by the peers  *)
(* (cmd/: main sends too).                                                 *)
(*                                                                         *)
(* Around the connection, some goroutines write to the websocket itself:   *)
(* the hub's run goroutine through domain.client on the server, pion's     *)
(* callback goroutine through OnIceCandidate on a peer.                    *)
(*                                                                         *)
(* A message is the turn at which the channel accepted it.                 *)
(***************************************************************************)
EXTENDS Integers, Sequences, FiniteSets

CONSTANTS Goroutine,     \* goroutines other than the connection's own pumps
          Reader,        \* the read pump goroutine
          Uses,          \* the ways in which programs use a connection
          SendCap,       \* capacity of sendChan (256)
          MaxAccepted    \* bound on the messages accepted by Send

(***************************************************************************)
(* A use: the goroutines besides the read pump that call Send and Close,   *)
(* those that write to the websocket itself, and whether the context given *)
(* to Start ends when Start returns, as that of an HTTP request does.      *)
(***************************************************************************)
Use == [senders : SUBSET Goroutine, closers : SUBSET Goroutine,
        rawWriters : SUBSET Goroutine, requestScoped : BOOLEAN]

ASSUME ConnectionAssumption ==
  /\ Reader \notin Goroutine
  /\ Uses \subseteq Use
  /\ SendCap \in Nat \ {0} /\ MaxAccepted \in Nat

VARIABLES
  use,        \* how this connection is used
  closed,     \* c.closed, guarded by c.mutex
  ctxDone,    \* c.ctx is cancelled
  requestDone,\* the context given to Start is cancelled
  sendChan, chanClosed,
  accepted,   \* how many messages Send has accepted
  sending,    \* per sender: past the check of c.closed, or not in Send
  closing,    \* per closer: the last step of Close it has done
  reader, writer,
  held,       \* the message the write pump is writing
  left,       \* how many messages the write pump still drains, n in the code
  conn,       \* the websocket: "open" or "closed"
  broken,     \* a write failed; the websocket fails every later write
  raw,        \* direct writers inside WriteMessage
  wire,       \* frames of the write pump that reached the network
  panicked    \* why the process died

chanVars  == <<sendChan, chanClosed, accepted>>
closeVars == <<closed, ctxDone, closing>>
pumpVars  == <<writer, held, left, wire>>
vars == <<use, closed, ctxDone, requestDone, sendChan, chanClosed, accepted, sending,
          closing, reader, writer, held, left, conn, broken, raw, wire, panicked>>

NoMessage  == 0           \* what a receive from a closed channel yields
CloseFrame == -1

Senders == use.senders \cup {Reader}
Closers == use.closers \cup {Reader}

TypeOK ==
  /\ use \in Uses
  /\ {closed, ctxDone, requestDone, chanClosed, broken} \subseteq BOOLEAN
  /\ sendChan \in Seq(1..accepted) /\ accepted \in Nat
  /\ sending \in [Senders -> {"idle", "checked"}]
  /\ closing \in [Closers -> {"idle", "flagged", "cancelled", "unplugged"}]
  /\ reader \in {"loop", "reading", "handling", "closing", "stopped"}
  /\ writer \in {"select", "writing", "draining", "flushing", "pinging",
                 "parting", "stopped"}
  /\ held \in Nat /\ left \in Nat
  /\ conn \in {"open", "closed"} /\ raw \subseteq use.rawWriters
  /\ wire \in Seq(Nat \cup {CloseFrame})
  /\ panicked \in {"no", "send on closed channel", "close of closed channel",
                   "concurrent write"}

Init ==
  /\ use \in Uses
  /\ closed = FALSE /\ ctxDone = FALSE /\ requestDone = FALSE
  /\ sendChan = <<>> /\ chanClosed = FALSE /\ accepted = 0
  /\ sending = [s \in Senders |-> "idle"] /\ closing = [g \in Closers |-> "idle"]
  /\ reader = "loop" /\ writer = "select" /\ held = NoMessage /\ left = 0
  /\ conn = "open" /\ broken = FALSE /\ raw = {} /\ wire = <<>> /\ panicked = "no"

-----------------------------------------------------------------------------
(***************************************************************************)
(* Send: the check of c.closed under the read lock, then, unlocked, a      *)
(* select of the two contexts, the channel and a default.  After either    *)
(* the read pump goes back to its loop.                                    *)
(***************************************************************************)
Returned(s) == reader' = IF s = Reader THEN "loop" ELSE reader

SendChecks(s) ==
  /\ sending[s] = "idle"
  /\ s = Reader => reader = "handling"
  /\ IF closed THEN Returned(s) /\ UNCHANGED sending
               ELSE sending' = [sending EXCEPT ![s] = "checked"] /\ UNCHANGED reader
  /\ UNCHANGED <<closeVars, requestDone, chanVars, pumpVars, conn, broken, raw, panicked>>

SendAccepted(s) ==
  /\ sending[s] = "checked" /\ accepted < MaxAccepted
  /\ ~chanClosed /\ Len(sendChan) < SendCap
  /\ accepted' = accepted + 1 /\ sendChan' = Append(sendChan, accepted')
  /\ sending' = [sending EXCEPT ![s] = "idle"] /\ Returned(s)
  /\ UNCHANGED <<closeVars, requestDone, chanClosed, pumpVars, conn, broken, raw, panicked>>

SendRefused(s) ==
  /\ sending[s] = "checked"
  /\ \/ ctxDone
     \/ (s = Reader /\ requestDone)
     \/ (~chanClosed /\ Len(sendChan) = SendCap)
  /\ sending' = [sending EXCEPT ![s] = "idle"] /\ Returned(s)
  /\ UNCHANGED <<closeVars, requestDone, chanVars, pumpVars, conn, broken, raw, panicked>>

SendPanics(s) ==
  /\ sending[s] = "checked" /\ chanClosed
  /\ panicked' = "send on closed channel"
  /\ UNCHANGED <<closeVars, requestDone, chanVars, sending, reader, pumpVars, conn,
                 broken, raw>>

-----------------------------------------------------------------------------
(***************************************************************************)
(* Close: set the flag, cancel the context, close the channel, close the   *)
(* websocket.  The read pump calls it when it ends.                        *)
(***************************************************************************)
Ended(g) == reader' = IF g = Reader THEN "stopped" ELSE reader

\* Three slips: the flag is not tested; the read pump leaves Close to another
\* goroutine and reads on; the websocket is left open.
AlreadyClosed_Untested == FALSE
MayClose_Aside(g) == g \in Closers
HangUp_Not == UNCHANGED conn

AlreadyClosed == closed
MayClose(g) == g = Reader => reader = "closing"
HangUp == conn' = "closed"

CloseFlags(g) ==
  /\ closing[g] = "idle"
  /\ MayClose(g)
  /\ IF AlreadyClosed
     THEN Ended(g) /\ UNCHANGED <<closed, closing>>
     ELSE /\ closed' = TRUE /\ closing' = [closing EXCEPT ![g] = "flagged"]
          /\ UNCHANGED reader
  /\ UNCHANGED <<ctxDone, requestDone, chanVars, sending, pumpVars, conn, broken, raw,
                 panicked>>

CloseCancels(g) ==
  /\ closing[g] = "flagged"
  /\ ctxDone' = TRUE /\ closing' = [closing EXCEPT ![g] = "cancelled"]
  /\ UNCHANGED <<closed, requestDone, chanVars, sending, reader, pumpVars, conn, broken,
                 raw, panicked>>

CloseUnplugs(g) ==
  /\ closing[g] = "cancelled"
  /\ IF chanClosed
     THEN panicked' = "close of closed channel" /\ UNCHANGED <<chanClosed, closing>>
     ELSE /\ chanClosed' = TRUE /\ closing' = [closing EXCEPT ![g] = "unplugged"]
          /\ UNCHANGED panicked
  /\ UNCHANGED <<closed, ctxDone, requestDone, sendChan, accepted, sending, reader,
                 pumpVars, conn, broken, raw>>

CloseHangsUp(g) ==
  /\ closing[g] = "unplugged"
  /\ HangUp /\ closing' = [closing EXCEPT ![g] = "idle"] /\ Ended(g)
  /\ UNCHANGED <<closed, ctxDone, requestDone, chanVars, sending, pumpVars, broken, raw,
                 panicked>>

CloseStep(g) == CloseFlags(g) \/ CloseCancels(g) \/ CloseUnplugs(g) \/ CloseHangsUp(g)

-----------------------------------------------------------------------------
(***************************************************************************)
(* The read pump.  A message it handles may or may not have a response.    *)
(***************************************************************************)
readerOnly == <<closeVars, chanVars, sending, pumpVars, conn, broken, raw, panicked>>

ReaderLoops == /\ reader = "loop"
               /\ reader' = IF ctxDone \/ requestDone THEN "closing" ELSE "reading"
               /\ UNCHANGED <<requestDone, readerOnly>>

ReaderGetsMessage == /\ reader = "reading" /\ conn = "open"
                     /\ reader' = "handling"
                     /\ UNCHANGED <<requestDone, readerOnly>>

\* A control frame, a message that does not parse, an error or no response.
ReaderIgnores == /\ reader = "handling" /\ sending[Reader] = "idle"
                 /\ reader' = "loop"
                 /\ UNCHANGED <<requestDone, readerOnly>>

\* The peer is gone, the read deadline passed, or the websocket was closed here.
ReaderFails == /\ reader = "reading"
               /\ reader' = "closing"
               /\ UNCHANGED <<requestDone, readerOnly>>

\* Start returns; for a server the HTTP request is over and its context ends.
RequestEnds == /\ use.requestScoped /\ reader = "stopped" /\ ~requestDone
               /\ requestDone' = TRUE
               /\ UNCHANGED <<reader, readerOnly>>

-----------------------------------------------------------------------------
(***************************************************************************)
(* The write pump.  Its select picks at random among the ready cases.      *)
(***************************************************************************)
writerOnly == <<closeVars, requestDone, chanClosed, accepted, sending, reader, conn, raw,
                panicked>>

WriterStops == /\ writer = "select" /\ (ctxDone \/ requestDone)
               /\ writer' = "stopped"
               /\ UNCHANGED <<writerOnly, sendChan, held, left, broken, wire>>

WriterTakes == /\ writer = "select" /\ sendChan # <<>>
               /\ held' = Head(sendChan) /\ sendChan' = Tail(sendChan)
               /\ writer' = "writing"
               /\ UNCHANGED <<writerOnly, left, broken, wire>>

WriterParts == /\ writer = "select" /\ sendChan = <<>> /\ chanClosed
               /\ writer' = "parting"
               /\ UNCHANGED <<writerOnly, sendChan, held, left, broken, wire>>

WriterPings == /\ writer = "select"
               /\ writer' = "pinging"
               /\ UNCHANGED <<writerOnly, sendChan, held, left, broken, wire>>

\* Two slips in the drain loop: one turn too many; it returns at its end.
AfterWrite_OneMore(n) == IF n < 0 THEN "select" ELSE "draining"
AfterWrite_Returns(n) == IF n = 0 THEN "stopped" ELSE "draining"

\* The drain loop goes on while there are turns left.
AfterWrite(n) == IF n = 0 THEN "select" ELSE "draining"

\* One turn of the drain loop: its receive ignores whether the channel is
\* closed, and its default ignores an empty channel.
WriterDrains ==
  /\ writer = "draining"
  /\ left' = left - 1
  /\ \/ /\ sendChan # <<>>
        /\ held' = Head(sendChan) /\ sendChan' = Tail(sendChan)
        /\ writer' = "flushing"
     \/ /\ sendChan = <<>> /\ chanClosed
        /\ held' = NoMessage /\ writer' = "flushing"
        /\ UNCHANGED sendChan
     \/ /\ sendChan = <<>> /\ ~chanClosed
        /\ writer' = AfterWrite(left')
        /\ UNCHANGED <<sendChan, held>>
  /\ UNCHANGED <<writerOnly, broken, wire>>

Writing == writer \in {"writing", "flushing", "pinging", "parting"}

\* WriteMessage returned nil: after the first message the pump drains what the
\* channel holds at that moment.  A websocket accepts nothing after a close frame.
WriteDone ==
  /\ Writing /\ conn = "open" /\ ~broken
  /\ wire' = CASE writer \in {"writing", "flushing"} -> Append(wire, held)
               [] writer = "parting" -> Append(wire, CloseFrame)
               [] writer = "pinging" -> wire
  /\ left' = IF writer = "writing" THEN Len(sendChan) ELSE left
  /\ writer' = CASE writer = "parting" -> "stopped"
                 [] writer = "pinging" -> "select"
                 [] OTHER -> AfterWrite(left')
  /\ broken' = (writer = "parting")
  /\ held' = NoMessage
  /\ UNCHANGED <<writerOnly, sendChan>>

\* WriteMessage failed: the pump returns, and nothing closes the connection.
WriteFailed ==
  /\ Writing
  /\ broken' = TRUE /\ writer' = "stopped" /\ held' = NoMessage
  /\ UNCHANGED <<writerOnly, sendChan, left, wire>>

-----------------------------------------------------------------------------
(***************************************************************************)
(* Goroutines that hold the websocket itself.  The websocket detects two   *)
(* writers at once on a best-effort basis and panics.                      *)
(***************************************************************************)
rawOnly == <<closeVars, requestDone, chanVars, sending, reader, pumpVars>>

RawBegins(r) == /\ r \notin raw /\ raw' = raw \cup {r}
                /\ UNCHANGED <<rawOnly, conn, broken, panicked>>

RawEnds(r) == /\ r \in raw /\ raw' = raw \ {r}
              /\ \/ (conn = "open" /\ ~broken /\ UNCHANGED broken)
                 \/ broken' = TRUE
              /\ UNCHANGED <<rawOnly, conn, panicked>>

\* Hub.Unregister or Hub.Stop on a server, main's deferred conn.Close on a peer.
RawCloses == /\ use.rawWriters # {} /\ conn' = "closed"
             /\ UNCHANGED <<rawOnly, broken, raw, panicked>>

ConcurrentWrite == /\ \/ Writing /\ raw # {}
                      \/ Cardinality(raw) > 1
                   /\ panicked' = "concurrent write"
                   /\ UNCHANGED <<rawOnly, conn, broken, raw>>

-----------------------------------------------------------------------------
SendStep(s) == SendChecks(s) \/ SendAccepted(s) \/ SendRefused(s) \/ SendPanics(s)

ReaderStep == \/ ReaderLoops \/ ReaderGetsMessage \/ ReaderIgnores \/ ReaderFails

WriterStep == \/ WriterStops \/ WriterTakes \/ WriterParts \/ WriterPings
              \/ WriterDrains \/ WriteDone \/ WriteFailed

Next == /\ panicked = "no" /\ UNCHANGED use
        /\ \/ \E s \in Senders : SendStep(s)
           \/ \E g \in Closers : CloseStep(g)
           \/ ReaderStep \/ RequestEnds
           \/ WriterStep
           \/ \E r \in use.rawWriters : RawBegins(r) \/ RawEnds(r)
           \/ RawCloses
           \/ ConcurrentWrite

Spec == Init /\ [][Next]_vars

(***************************************************************************)
(* Every goroutine runs on: a write returns by its deadline, a read fails  *)
(* once the websocket is closed, a Send or Close that was entered goes     *)
(* through its steps.  Nothing makes a healthy read fail, a message arrive *)
(* or a goroutine call Send or Close.  A select takes a case that is ready *)
(* at infinitely many of its turns.                                        *)
(***************************************************************************)
Runs(A) == panicked = "no" /\ UNCHANGED use /\ A

Fairness ==
  /\ \A s \in Goroutine \cup {Reader} :
       WF_vars(Runs(s \in Senders /\ (SendAccepted(s) \/ SendRefused(s))))
  /\ \A g \in Goroutine \cup {Reader} :
       WF_vars(Runs(g \in Closers /\ (CloseCancels(g) \/ CloseUnplugs(g) \/ CloseHangsUp(g))))
  /\ WF_vars(Runs(CloseFlags(Reader)))
  /\ WF_vars(Runs(ReaderLoops \/ ReaderIgnores \/ (conn = "closed" /\ ReaderFails)))
  /\ WF_vars(Runs(RequestEnds))
  /\ SF_vars(Runs(WriterStops)) /\ SF_vars(Runs(WriterTakes))
  /\ WF_vars(Runs(WriterDrains)) /\ WF_vars(Runs(WriteDone \/ WriteFailed))

FairSpec == Spec /\ Fairness

-----------------------------------------------------------------------------
(***************************************************************************)
(* Properties.                                                             *)
(***************************************************************************)
\* What the write pump puts on the wire is a prefix of what Send accepted, in
\* that order, without gaps, repetitions or empty frames, then at most a close
\* frame: the drain loop never receives the nil of the closed channel, because
\* the write pump is the only receiver and drains no more than it counted.
WireIsPrefix ==
  \A i \in DOMAIN wire : wire[i] = i \/ (wire[i] = CloseFrame /\ i = Len(wire))

\* Where only the read pump sends and closes, which is how signal/server.go uses
\* a connection, Send and Close never touch a channel that was closed.
ChannelSafe ==
  panicked \in {"send on closed channel", "close of closed channel"} =>
    use.senders \cup use.closers # {}

\* The programs of cmd/ expect a Send that fails to be an error they can survive
\* ("Failed to send registration message, continuing anyway"): it never panics.
SendFailsGently == panicked # "send on closed channel"

\* Close may be called by several goroutines: the flag lets one through.
OneCloser == Cardinality({g \in Closers : closing[g] # "idle"}) <= 1

\* Once Close has begun both pumps end, whatever they were doing.
ClosedStopsPumps ==
  closed ~> (reader = "stopped" /\ writer = "stopped") \/ panicked # "no"

\* A message that Send accepted is written, unless the connection is closing
\* or a write has failed: pings and new messages do not hold it up for ever.
AcceptedIsWritten ==
  \A n \in 1..MaxAccepted :
    accepted >= n ~> Len(wire) >= n \/ closed \/ broken \/ panicked # "no"
=============================================================================
