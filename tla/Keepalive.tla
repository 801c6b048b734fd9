------------------------------ MODULE Keepalive ------------------------------
(***************************************************************************)
(* The clocks of one end of a websocket connection                         *)
(* (internal/transport/websocket.go): the pump's ticker and its pings, the *)
(* read deadline that only a pong moves, and the write deadline that the   *)
(* pump sets and that every later write of the websocket inherits, also    *)
(* the hub's (domain/client.go) and pion's (internal/webrtc/candidate.go), *)
(* which set none.  Connection.tla has the same goroutines without time.   *)
(*                                                                         *)
(* Time passes in units, in which the goroutines are prompt: only a write  *)
(* that the network does not take lasts.  Clocks are kept as the time that *)
(* is left.                                                                *)
(***************************************************************************)
EXTENDS Integers, FiniteSets

CONSTANTS WriteTimeout, ReadTimeout, PingInterval,   \* ConnectionOptions
          Delay,    \* a pong arrives at most so long after its ping was written
          Faults    \* the ways in which the far end may fail

ASSUME KeepaliveAssumption ==
  /\ {WriteTimeout, ReadTimeout, PingInterval} \subseteq Nat \ {0} /\ Delay \in Nat
  /\ PingInterval + Delay < ReadTimeout
  /\ Faults \subseteq {"silent", "jammed"}

VARIABLES
  far,       \* "prompt"; "silent": nothing comes back; "jammed": it takes no data
  prompt,    \* it has always been prompt
  relays,    \* whether a goroutine besides the pump writes to the websocket
  tick,      \* time until the ticker fires
  due,       \* ticker.C holds a tick
  pump,      \* the write pump: in its select, in a write, or gone
  relay,     \* the other writer: not in a write, or in one
  limit,     \* c.writeDeadline of the websocket
  grace,     \* the deadline of the write in progress
  broken,    \* a write failed: the websocket fails every later one
  patience,  \* time until the read deadline
  pongs,     \* pongs under way: the time within which each arrives
  open,      \* the read pump reads; when it stops it closes the connection
  deaf,      \* how long the far end is not prompt or broken holds
  waited,    \* how long the relay has been in its write
  panicked   \* two goroutines wrote at once

farVars   == <<far, prompt, relays>>
writeVars == <<pump, relay, limit, grace, broken, waited, panicked>>
readVars  == <<patience, open>>
tickVars  == <<tick, due>>
vars == <<farVars, writeVars, readVars, tickVars, pongs, deaf>>

NoLimit == -1          \* the zero time.Time: no deadline
Limit   == {NoLimit} \cup 0..WriteTimeout

\* The longest a connection lasts that is cut off from its far end.
Noticed == ReadTimeout + Delay

\* Both stopwatches stop one beyond what a property asks about.
MaxDeaf   == Noticed + 1
MaxWaited == WriteTimeout + PingInterval + 1

TypeOK ==
  /\ far \in {"prompt"} \cup Faults /\ {prompt, relays, due, broken, open, panicked} \subseteq BOOLEAN
  /\ tick \in 1..PingInterval /\ pump \in {"select", "writing", "stopped"}
  /\ relay \in {"idle", "writing"} /\ limit \in Limit /\ grace \in Limit
  /\ patience \in 0..ReadTimeout /\ pongs \subseteq 0..Delay
  /\ deaf \in 0..MaxDeaf /\ waited \in 0..MaxWaited

Init ==
  /\ far = "prompt" /\ prompt = TRUE /\ relays \in BOOLEAN
  /\ tick = PingInterval /\ due = FALSE /\ pump = "select" /\ relay = "idle"
  /\ limit = NoLimit /\ grace = NoLimit /\ broken = FALSE
  /\ patience = ReadTimeout /\ pongs = {} /\ open = TRUE
  /\ deaf = 0 /\ waited = 0 /\ panicked = FALSE

-----------------------------------------------------------------------------
(***************************************************************************)
(* WriteMessage under deadline d.  A websocket that is closed or has       *)
(* failed once returns the error, one whose deadline has passed fails, one *)
(* that the far end does not drain keeps the caller; any other write goes  *)
(* through.  A second writer meanwhile makes the websocket panic.          *)
(***************************************************************************)
InWrite == pump = "writing" \/ relay = "writing"
Fails(d)  == ~open \/ broken \/ d = 0
Blocks(d) == ~Fails(d) /\ far = "jammed"
Passes(d) == ~Fails(d) /\ far # "jammed"

\* A slip: the pump writes under the deadline that it set before.
Deadline_Kept == IF limit = NoLimit THEN WriteTimeout ELSE limit

\* c.conn.SetWriteDeadline(time.Now().Add(c.options.WriteTimeout))
Deadline == WriteTimeout

PumpWrites ==
  /\ limit' = Deadline
  /\ IF relay = "writing"
     THEN panicked' = TRUE /\ UNCHANGED <<pump, grace, broken>>
     ELSE /\ UNCHANGED panicked
          /\ \/ Passes(limit') /\ UNCHANGED <<pump, grace, broken>>
             \/ Blocks(limit') /\ pump' = "writing" /\ grace' = limit' /\ UNCHANGED broken
             \/ Fails(limit') /\ pump' = "stopped" /\ broken' = TRUE /\ UNCHANGED grace
  /\ UNCHANGED <<relay, waited>>

\* The far end answers a ping that reaches it.
Answered == IF ~panicked' /\ far = "prompt" /\ Passes(limit') THEN pongs \cup {Delay} ELSE pongs

\* A slip: no ping while somebody else writes.
PumpPings_Aside == /\ pump = "select" /\ due
                   /\ due' = FALSE
                   /\ IF relay = "writing" THEN UNCHANGED <<writeVars, pongs>>
                      ELSE PumpWrites /\ pongs' = Answered
                   /\ UNCHANGED <<farVars, readVars, tick, deaf>>

PumpPings == /\ pump = "select" /\ due
             /\ due' = FALSE
             /\ PumpWrites
             /\ pongs' = Answered
             /\ UNCHANGED <<farVars, readVars, tick, deaf>>

\* A message from sendChan, with those that are drained after it.
PumpSends == /\ pump = "select" /\ open
             /\ PumpWrites
             /\ UNCHANGED <<farVars, readVars, tickVars, pongs, deaf>>

PumpStops == /\ pump = "select" /\ ~open
             /\ pump' = "stopped"
             /\ UNCHANGED <<farVars, readVars, tickVars, pongs, deaf, relay, limit, grace,
                            broken, waited, panicked>>

\* client.Send of the hub or OnIceCandidate on a peer: under whatever deadline
\* the pump has left behind.
RelayWrites ==
  /\ relays /\ relay = "idle"
  /\ IF pump = "writing"
     THEN panicked' = TRUE /\ UNCHANGED <<relay, grace, broken>>
     ELSE /\ UNCHANGED panicked
          /\ \/ Blocks(limit) /\ relay' = "writing" /\ grace' = limit /\ UNCHANGED broken
             \/ Fails(limit) /\ open /\ ~broken
                /\ broken' = TRUE /\ UNCHANGED <<relay, grace>>
  /\ UNCHANGED <<farVars, readVars, tickVars, pongs, deaf, pump, limit, waited>>

Leaves == /\ relay' = "idle" /\ waited' = 0 /\ grace' = NoLimit
          /\ UNCHANGED <<farVars, readVars, tickVars, deaf, limit, panicked>>

\* The network takes the data after all; the pump's may have been a ping.
WriteReturns == /\ InWrite /\ open /\ far # "jammed"
                /\ pump' = IF pump = "writing" THEN "select" ELSE pump
                /\ \/ UNCHANGED pongs
                   \/ pump = "writing" /\ pongs' = pongs \cup {Delay}
                /\ Leaves /\ UNCHANGED broken

\* The deadline has come, or the connection was closed.
WriteTimesOut == /\ InWrite /\ (grace = 0 \/ ~open)
                 /\ pump' = IF pump = "writing" THEN "stopped" ELSE pump
                 /\ broken' = TRUE
                 /\ Leaves /\ UNCHANGED pongs

\* The answer to a ping of a far end that takes no data: written under a deadline
\* of a second, unless another write is in progress.
PongTimesOut == /\ open /\ far = "jammed" /\ ~InWrite /\ ~broken
                /\ broken' = TRUE
                /\ UNCHANGED <<farVars, readVars, tickVars, pongs, deaf, pump, relay, limit,
                               grace, waited, panicked>>

-----------------------------------------------------------------------------
\* A slip: the pong handler does not move the deadline.
Patience_Kept == patience

\* c.conn.SetReadDeadline(time.Now().Add(c.options.ReadTimeout)) in the pong handler
Patience == ReadTimeout

PongArrives == /\ open
               /\ \E p \in pongs : (\A q \in pongs : p <= q) /\ pongs' = pongs \ {p}
               /\ patience' = Patience
               /\ UNCHANGED <<farVars, writeVars, tickVars, open, deaf>>

\* A slip: a read that times out is tried again.
ReadTimesOut_Retries == /\ open /\ patience = 0
                        /\ patience' = ReadTimeout
                        /\ UNCHANGED <<farVars, writeVars, tickVars, pongs, open, deaf>>

\* The read pump returns and closes the connection.
ReadTimesOut == /\ open /\ patience = 0
                /\ open' = FALSE /\ pongs' = {}
                /\ UNCHANGED <<farVars, writeVars, tickVars, patience, deaf>>

-----------------------------------------------------------------------------
FarFails(f) == /\ far = "prompt" /\ far' = f /\ prompt' = FALSE
               /\ IF f = "silent" THEN pongs' = {} ELSE UNCHANGED pongs
               /\ UNCHANGED <<relays, writeVars, readVars, tickVars, deaf>>

FarRecovers == /\ far = "jammed" /\ far' = "prompt"
               /\ deaf' = IF broken THEN deaf ELSE 0
               /\ UNCHANGED <<prompt, relays, writeVars, readVars, tickVars, pongs>>

\* What has to happen before time goes on.
Urgent == \/ pump = "select" /\ (due \/ ~open)
          \/ InWrite /\ (grace = 0 \/ ~open \/ far # "jammed")
          \/ open /\ (patience = 0 \/ 0 \in pongs)

Less(d) == IF d > 0 THEN d - 1 ELSE d
UpTo(bound, n) == IF n < bound THEN n ELSE bound

TimePasses ==
  /\ ~Urgent /\ open
  /\ tick' = IF tick = 1 THEN PingInterval ELSE tick - 1
  /\ due' = (due \/ tick = 1)
  /\ limit' = Less(limit) /\ grace' = Less(grace) /\ patience' = Less(patience)
  /\ pongs' = {p - 1 : p \in pongs}
  /\ deaf' = IF far # "prompt" \/ broken THEN UpTo(MaxDeaf, deaf + 1) ELSE 0
  /\ waited' = IF relay = "writing" THEN UpTo(MaxWaited, waited + 1) ELSE 0
  /\ UNCHANGED <<farVars, pump, relay, broken, open, panicked>>

Steps == \/ PumpPings \/ PumpSends \/ PumpStops \/ RelayWrites
         \/ WriteReturns \/ WriteTimesOut \/ PongTimesOut
         \/ PongArrives \/ ReadTimesOut
         \/ (\E f \in Faults : FarFails(f)) \/ FarRecovers

Next == ~panicked /\ (Steps \/ TimePasses)

Spec == Init /\ [][Next]_vars

\* Goroutines run and time passes; nobody is made to write or to fail.
Runs == PumpPings \/ PumpStops \/ WriteReturns \/ WriteTimesOut \/ PongArrives \/ ReadTimesOut
Fairness == WF_vars(~panicked /\ Runs) /\ WF_vars(~panicked /\ TimePasses)

FairSpec == Spec /\ Fairness

-----------------------------------------------------------------------------
(***************************************************************************)
(* Properties.                                                             *)
(***************************************************************************)
\* Pings keep a healthy connection open for ever: while the far end answers, the
\* read deadline never passes, however the messages and the ticks fall.
PingsKeepAlive == prompt /\ ~broken => open

\* The write deadline is no danger to the pump: on a connection that the far end
\* keeps up with, a write fails only if somebody else writes as well.
PumpNeverLate == prompt /\ broken => relays

\* A connection that is cut off from its far end - nothing comes back, or a write
\* has failed and nothing goes out - is closed within Noticed: the write pump is
\* gone and tells nobody, so only the read deadline ends it.
CutOffIsNoticed == open => deaf <= Noticed

\* A client that takes no data holds the goroutine that writes to it - on the
\* server the one goroutine that serves all clients - no longer than the deadline
\* the pump left or, if there is none, than the pump's next ping, which panics.
RelayIsReleased == waited <= WriteTimeout \/ waited <= PingInterval

\* A connection whose far end went silent ends, and so do its goroutines.
SilenceEnds == far = "silent" ~> (pump = "stopped" /\ relay = "idle") \/ panicked

\* domain/hub.go:28: "SendTo sends a message to a specific client".  A write to a
\* client that answers every ping should not be what cuts it off.
RelayReaches == prompt => ~broken
=============================================================================
