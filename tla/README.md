# Formal model of conic

conic is a WebRTC toolkit in Go: a signaling server that relays session
descriptions and ICE candidates between peers by ID, and peers that use pion to
talk to each other. This directory holds TLA+ modules translated from the Go
sources, TLC configurations that check them on small instances, and TLAPS proofs
for every instance: of the hub and the server around it, the connections and
their clocks, the negotiation, the candidate queue and the data channel, the
tracks and the playback.

    tlc -config MCHub.cfg MCHub.tla       # one run; the list is in PROJECT.json
    tlapm HubProofs.tla                   # the proofs; so are the other *Proofs
                                          # modules

## 1. The system

    peer (cmd/*)                                 server (cmd/signal)
    +---------------------------+                +-----------------------------+
    | main --Send--> sendChan --+-- websocket ---+-> read pump --> handlers    |
    | pion --WriteMessage-------+----------------+        |  response: sendChan|
    | read pump --> handlers    |                |        v                    |
    |     |--> PeerConnection   |<---------------+-- write pump                |
    +---------------------------+        ^       |   hub channels              |
                                         |       |        v                    |
                                         +-------+-- run goroutine of the hub  |
                                WriteMessage     +-----------------------------+

| Component | State | Operations | Talks to |
|---|---|---|---|
| hub (`hub/hub.go`) | registry `clients`, four buffered channels, context, two counters | Register, Unregister, Broadcast, SendTo, SendToMultiple, Start, Stop; run and its four handlers | called by the server's read pumps; writes to clients |
| direct client (`domain/client.go`) | a websocket | Send, Close | called by run only (and Stop) |
| connection (`internal/transport/websocket.go`) | `closed` under a mutex, context, `sendChan`, the websocket | Send, Close, Start with a read pump and a write pump | router; websocket |
| transport client (`internal/transport/client.go`) | a connection and an ID | the connection's | peers' main |
| server and handlers (`signal/`) | none of their own | register_request, sdp, candidate, data_channel | hub; connection |
| registry (`registry/handler.go`, `internal/protocol/router.go`) | map from type to handler, filled once | Handle | pumps call it |
| peer handlers (`internal/protocol/handler.go`) | none | sdp, candidate | peer connection |
| peer connection (`internal/webrtc/peer.go`) | target ID, candidate queue, track maps, pion's connection | CreateOffer, CreateAnswer, SetRemoteDescription, AddICECandidate, Add/Remove tracks, Close; pion's callbacks | main, read pump and pion's goroutines call it |
| candidate callback (`internal/webrtc/candidate.go`) | none | writes a candidate to the websocket | pion calls it |
| tracks (`audiotrack.go`, `videotrack.go`) | `closed`, statistics, pion's tracks | WriteSample, ReadSamples, Close | pion's callback, application |
| data channel (`datachannel.go`) | handlers, four counters | Send, Close, callbacks | pion, application |
| WAV reader and player (`internal/audio/wav.go`, `cmd/audio`) | file position | ReadSamples, Reset | a track |
| generator (`cmd/generate-audio`) | none | writes a WAV file | the reader, by its file |
| programs (`cmd/*`), logging | | | |

What makes the components correct, and what is hard about it:

* **hub.** Messages of one sender to one receiver keep their order; an ID in use is
  not given away; nothing is sent to a client after it was closed; Stop returns
  and closes everything, and only after the run goroutine is gone. Hard: callers
  on any goroutine, a select that picks at random, counters updated after the
  fact, Stop against calls in progress.
* **connection.** What Send accepts is written, in order, at most once, until the
  connection ends; Close may come from anywhere, at any time, twice. Hard: Send
  and Close release the lock before they touch the channel, the drain loop does
  not look at `ok`, other goroutines write to the same websocket.
* **clocks of a connection.** Pings keep a healthy connection open; a dead one is
  noticed; nobody waits in a write for ever. Hard: only a pong moves the read
  deadline, only the pump moves the write deadline, which other writers inherit;
  a pump that died tells nobody.
* **server.** A registered client is reachable; every accepted message has one
  fate; responses and relayed messages come from different goroutines. Hard: the
  answer to a registration does not wait for the hub, disconnects do not reach it.
* **negotiation.** Candidates are not lost, doubled, reordered or sent nowhere,
  though they travel apart from the descriptions; calls that cross do not mix up
  offers and answers.
* **data channel.** What Send accepts is handled at the other end, in order, from
  the first message on; the counters agree. Hard: descriptions, candidates and
  the channel's own handshake come in any order, Send checks and sends apart.
* **tracks.** No wrapper is left open, no goroutine left reading, Close returns.
  Hard: pion's callbacks run while the application calls Close, and two levels of
  mutexes are held across callbacks.
* **WAV.** Samples survive the conversions of three programs and playback loops.

`PROJECT.json` lists every hazard at its line, with the properties that cover it
or the reason why none does.

## 2. Modules

Read them in this order.

| Module | Models | How it corresponds |
|---|---|---|
| `Postbox` | what the hub promises | abstract: a directory, one line of messages, each handed to the client filed at that moment or lost |
| `Hub` | `hub/hub.go` | one variable per field or channel; `run` is the program counter of the run goroutine, `stop` that of Stop, `pending`/`counting` those of a call. One action per critical step: a select, a handler, one Send of a handler, one close |
| `HubProofs` | | theorems about `Hub`, section 6 |
| `Connection` | `internal/transport/websocket.go`, `domain/client.go` as a writer | `sending`, `closing`, `reader`, `writer` are program counters; an action ends where the code releases a lock, enters a channel operation or returns from a websocket call. `use`, fixed at the start, says which goroutines send, close and write beside the pumps |
| `Signaling` (extends `Hub`) | `signal/`, the registry, the server's websockets | the callers of the hub are read pumps; every hub step that the server can take is conjoined with what it does to the websockets. A connection is reduced to what `Connection` shows of it: responses in order until a write fails or it ends. `link` says what is left of it: `up`; `broken`, a write has failed, so every later one does, and requests are still read; `mute`, one of the write pump has, which returned; `down`, closed |
| `Relay` | what the server promises the peers behind its websockets | abstract: websockets whose requests are read (`open`) and those that can be written to (`working`), a directory, the log of accepted messages, those whose fate is open, and the frames written to each websocket; no pumps, channels or hub |
| `SignalingProofs` (extends `HubProofs`) | | theorems about `Signaling` |
| `Negotiation` | `internal/protocol/handler.go`, `peer.go`, `candidate.go`, main of the offering programs | per peer: main, the read pump, pion's goroutine; `wire`/`inbox` are the frames on the websockets, forwarded in order per sender as `Signaling` shows |
| `Calls` | what the peers promise each other | abstract: where each peer's call stands - ringing, accepted, answered, established, refused, failed - and whose description each peer has; no messages |
| `NegotiationProofs` | | theorems about `Negotiation` |
| `ConnectionProofs` | | theorems about `Connection` |
| `Keepalive` | the deadlines, the ticker, pings and pongs of `websocket.go`, and writers that set no deadline (`domain/client.go`, `candidate.go`) | the goroutines of `Connection`, reduced to their writes, with clocks counted down by `TimePasses`; what must happen at an instant (`Urgent`) happens before time goes on |
| `KeepaliveProofs` | | theorems about `Keepalive` |
| `CandidateQueue` | `AddICECandidate` and `SetRemoteDescription` in `peer.go`, called concurrently | the steps inside the two calls, that `Negotiation` has as one because one read pump makes them |
| `DataChannel` (extends `CandidateQueue`) | `datachannel.go`, `OnDataChannel` in `peer.go`, the greetings of `cmd/datachannel` | per end: pion's state of the channel, the wrapper's handler and counters, the sending goroutine. pion connects when the queue below has delivered description and candidate |
| `DataChannelProofs` | | theorems about both |
| `Tracks` | the track maps in `peer.go`, `audiotrack.go`, `videotrack.go` | wrap, file, look up, remove, close, read, write as separate steps, with the mutex of each map (`locked`) and each wrapper (`sampling`); audio and video share the definitions |
| `TracksProofs` | | theorems about `Tracks` |
| `WavPlayback` | `internal/audio/wav.go`, `playWAVFile` | bytes and samples with their widths |
| `Media` (extends `Tracks` and `WavPlayback`) | `cmd/audio` at the offering end | the player's writes are `WriteCounts` and `WriteReturns` of the track it plays on |
| `GenerateAudio` (extends `Media`) | `cmd/generate-audio` | the file it writes, as a function of the wave |
| `WavProofs` | | theorems about the player, the reader and the generator |
| `MCHub`, `MCConnection`, `MCSignaling`, `MCNegotiation`, `MCDataChannel`, `MCMedia` | | values for constants that a `.cfg` cannot write |

An operator whose name has a suffix after an underscore (`Served_Again`) is not
part of a specification: it is a slip a programmer could make in the operator
that follows, kept to show that a property notices it (`mutants` in
`PROJECT.json`).

Conventions. A message is the turn at which its channel accepted it. A panic
stops the process: `panicked` ends the behaviour. History variables (`direct`,
`inbox`, `wire`, `relayed`, `everFiled`) record what happened for the properties
and never guard a step of the code, except where a bound does. Calls that are
refused and change nothing are stuttering steps. pion and the websocket library
are modelled by how the code uses them: the JSEP signaling states, candidates
gathered once after the first local description, a websocket that fails every
write after a failed one or a close frame.

## 3. Runs and what they show

Bounds are constants of the modules (`MaxDirect`, `MaxBroadcast`, `MaxAccepted`,
`MaxCandidates`, `MaxMessages`, `MaxPackets`, and the capacities of the channels).

| Run | Instance | Shows |
|---|---|---|
| `hub` | two client objects, one after the other, under one ID (registered, refused, unregistered and again unknown); one caller that broadcasts and sends lists of two; channels of 1; Stop and panics at any moment | `OrderedDelivery`, `NoUseAfterClose`, `StopClosesEveryStored`, `ReceivedAddsUp`, `ImplementsPostbox`, `StopReturns`, `AcceptedIsTaken` |
| `connection` | three uses: the server's (the read pump sends and closes, the hub writes beside it), a peer's (main sends too, pion writes), and one with two more closers | `WireIsPrefix`, `ChannelSafe`, `OneCloser`, `ClosedStopsPumps`, `AcceptedIsWritten` |
| `signaling` | two websockets that ask for the same ID and relay to it; an outbox of 1; responses, pings and relayed messages whose write fails at any moment; disconnects | `WireOrder`, `FiledIsReachable`, `OneFate`, `ImplementsRelay`, `RelayArrives` |
| `negotiation` | Alice and Bob call each other, Carol calls Bob; two, one and one candidates | `CandidatesInOrder`, `QueueOnlyBeforeRemote`, `NoCandidateLost`, `AnswersAreAwaited`, `ImplementsCalls`, `SessionEstablishes` |
| `data_channel` | two goroutines that each add a candidate and set the description; two messages from each end; either end closes at any moment | `NoneLostOrDoubled`, `HandledIsPrefix`, `CountsAgree`, `GreetingArrives` |
| `media` | a local audio track that a file is played on, a remote one; files with all 256 byte values as 8-bit and 16-bit samples, ragged, 24 bit, not PCM, and a generated one | `NoneLeaked`, `FiledIsOpen`, `HandlerFindsTrack`, `CloseReturns`, `CloseStopsReaders`, `SamplesSurvive`, `ToneArrives`, `LoopsForever` |
| `keepalive` | the defaults of the code in units of five seconds: WriteTimeout 2, PingInterval 3, ReadTimeout 18, a pong within 1; a far end that may go silent or stop taking data | `PingsKeepAlive`, `PumpNeverLate`, `CutOffIsNoticed`, `RelayIsReleased`, `SilenceEnds` |

The type invariants are not repeated in the runs, they are proved (section 6), and so
are some weaker facts (`ReceiverGoneBeforeClose`, `NoneBeforeDescription`, `SentIsFinal`,
`NoGap`, `CandidatesAddressed`).

Why the bounds are enough. A hub channel of 1 is full after one call; two messages
are what it takes to confuse an order, and a second object with the same ID what
it takes to displace a client. What two clients filed at once could add - a
broadcast with two receivers, messages that change receivers - is covered by the
proofs of section 6, which have no bounds. A connection with three messages and
a channel of two reaches the drain loop with zero, one and two turns. Three peers
are the smallest group with a crossing call and a bystander; since a user may
never type a target, the same run holds the calls of two peers alone. Two
goroutines with a candidate and a description each reach every overlap of two
flushes and of a flush and a late candidate; two messages per end are what order
needs. In `media` one remote track meets each step of Close with each of its own;
`Tracks` treats tracks alike, and its proofs have no bound. In `keepalive` the
unit divides all three defaults, a write that blocks can cross the next ping
(3 > 2), and the read deadline lies six pings ahead.

Deadlock checking is off everywhere: a hub that was stopped, a connection that
was closed, a call that is set up and a file that ended really stop, and so
does a process that panicked.

### Disagreements between code and documentation

Each has a run of its own that TLC refutes; `findings` in `PROJECT.json` quotes
the lines.

| Run, property | The code |
|---|---|
| `connection_send`, `SendFailsGently` | likewise Send against Close on a peer, where main sends too; on the server it cannot happen (`ChannelSafe`) |
| `signaling_race`, `ConfirmedIsReachable` | a message for a client that has its response is dropped, because the registration is still queued |
| `signaling_stale`, `DisconnectedIsForgotten` | nothing unregisters a client whose connection ended; its ID stays taken |
| `media_nil_map`, `AddAfterCloseIsAnError` | a track added or received during Close is written to a nil map |
| `keepalive_relay`, `RelayReaches` | a message relayed more than WriteTimeout after the last ping and before the next one, to a client that answers every ping, fails on the deadline of that ping, and every later write to that client fails |

Behaviour of the code that the modules contain and a user of the library should
know of, although no run is devoted to it:

* a call of Register, Unregister, Broadcast or SendTo that meets Stop may pick the
  send on a closed channel and panic, although `domain/hub.go:16` calls Stop
  graceful (`CallPanics`); no program calls Stop;
* the hub's run goroutine and the write pump can write to one websocket at once,
  and so can pion's callback on a peer (`ConcurrentWrite` in `Connection`); a
  relay that is still stuck when the ping is due makes gorilla panic (`panicked`
  in `Keepalive`, which ends the wait that `RelayIsReleased` bounds);
* a connection whose write pump died accepts messages until the read deadline,
  which a last pong may have moved (`CutOffIsNoticed`);
* a client whose ID is in use is told Success, then its registration is dropped
  (`Respond` does not wait for `TakeRegister`);
* if `AddICECandidate` and `SetRemoteDescription` were called concurrently, a
  candidate could stay in the queue after the flush (`AddQueues` after
  `TakeQueue`);
* a removed and closed track goes on counting packets and calling `onSample`
  (`ReadSample` after `CloseRemoved`);
* the player of a WAV file does not end when its track is closed (`LoopsForever`
  holds with the track open or closed);
* the answering end of `cmd/datachannel` may find its channel not yet open and
  loses that message: Send refuses it and nothing repeats it;
* a call that crosses another may be refused: the callee's handler logs the error and
  nobody tells the caller, who waits for ever (`Refuse` in `Calls`);
* the size in the header of a generated file is wrong from 2^27 samples on
  (`HeaderStatesSize`), which the reader of this repository does not notice;
* a WAV file that ends inside a frame stops the playback, and 24 or 32 bit files,
  which the comment of `ReadSamples` mentions, are refused (`StopInsideFrame`,
  `UnsupportedDepth`).

## 4. Fairness

* A Go select takes one of its ready cases at random. A case that is ready at
  infinitely many selects is taken: strong fairness for each case of `Hub`'s run
  and of the write pump.
* In `Keepalive` goroutines run and time passes: weak fairness on each; `Urgent`
  keeps time from passing over what is due.
* pion connects, calls back and delivers (`DataChannel`): weak fairness; a
  goroutine that sends goes through its list.
* A goroutine inside a handler, a Close, or the loop of Stop runs on: weak
  fairness. A write returns, by success or error: the code sets a deadline.
* A read returns once the websocket is closed; a healthy read may wait for ever.
  In `Tracks` a cancelled context does not wake a read, only the end of pion's
  connection does.
* Nothing makes anyone call: no fairness on Register, SendTo, Stop, Close of an
  application, on a disconnect, or on a user typing a target.
* `Media`: the ticker ticks, and a mutex that is freed goes to one that waits.

A property under fairness excuses itself by `panicked`, `closed`, `broken` or
`link # "up"` where the code gives up. In `Signaling` the pump's fairness is that it
gets a response off its channel, by a write or a failure; no failure need happen.

## 5. Abstractions to know about

* `Signaling` and `Negotiation` assume that the hub's Start ran before the first
  request and that Stop is never called: the server never does.
* `Negotiation` treats the relay as reliable and in order per sender. The order is
  `WireOrder`. That nothing is lost is `RelayArrives` for a filed client as long as no
  write to its websocket has failed. That is an assumption about the writes and not
  a consequence of both ends being healthy: `RelayReaches` shows that a write to a
  client that answers every ping can fail, on a deadline that has passed. Then the
  frame and all later ones to that peer are lost, and `NoCandidateLost` and
  `SessionEstablishes` say nothing of that call.
* `CandidateQueue` lets several goroutines call `AddICECandidate` and
  `SetRemoteDescription` at once, as the API allows; in the programs one read pump
  makes both calls. A candidate that stays in the queue after the flush counts as
  kept in `NoneLostOrDoubled`; that none stays where the programs call them is
  `QueueOnlyBeforeRemote` of `Negotiation`.
* A frame of the hub and one of the write pump never mix in `Signaling`; that two
  goroutines can write at once is in `Connection` (`RawBegins`, `ConcurrentWrite`).
* Time is in `Keepalive` only, in units of five seconds in which goroutines are
  prompt; the read pump is always ready for a pong, that is, its handlers do not
  block. Elsewhere a ping, a deadline that passes and a write that fails can
  happen at any moment a goroutine waits for them.
* `DataChannel` and `Tracks` start with main's OnDataChannel and OnTrack handlers
  set. The program sets them while the read pump already runs, and nothing orders
  the two; if the offer wins, the channel or track is lost to the application.
* `DataChannel` models Close of an open channel; closing one that is still
  connecting is left out, as no program does.
* The application's onSample returns and calls neither its wrapper nor the
  connection, as those of the programs do; one that does deadlocks.
* The size in a WAV header is not in the state of the player, which stores it and
  never uses it; `Subchunk2Size` is what the generator writes there.
* Tracks have distinct IDs, as the programs make them (`xid`).

Not modelled: contents of messages; the HTTP upgrade; logging; the sine waves and
the test pattern, which are floating-point or constant data; the terminal
dialogues; pion's connection state callback and the data channel's onClose and
onError, which no program sets; `signal/client.go` and `ReadFloat32Samples`, which
nothing calls; the read-only `GetClient`, `GetClients`, `GetStats`.

## 6. Proofs

All are free of bounds on the instance: any sets of clients, goroutines, tracks,
files and any numbers. What they assume is the named ASSUME of each module.

### Hub

`HubProofs.tla` proves, from `HubAssumption` alone (`IDOf`
assigns an ID to every client object, capacities are positive, target lists are
lists of IDs), for any number of clients, callers and messages:

| Theorem | Statement |
|---|---|
| `TypeCorrect` | `Spec => []TypeOK` |
| `NeverUsedAfterClose` | `Spec => []NoUseAfterClose` |
| `ReceiverIsGone` | `Spec => []ReceiverGoneBeforeClose` |
| `StopClosesAll` | `Spec => []StopClosesEveryStored` |
| `DeliveryIsOrdered` | `Spec => []OrderedDelivery` |
| `ReceivedIsCounted` | `Spec => []ReceivedAddsUp` |
| `HubImplementsPostbox` | `Spec => PB!Spec` |

The first four follow from one inductive invariant, `HubInv`, the conjunction of

* `TypeOK`;
* `StopCounts`: no channel is closed before Stop has waited, and not all four
  while it is still closing them;
* `RegistryInv`: a client object is in at most one place - in the register
  channel once, in the registry under its own ID, in the hands of
  `handleUnregister`, or closed. This is what `NoUseAfterClose` lacks to be
  inductive: without it a closed object could come out of the channel and be
  filed again;
* `RunInv`: whom a handler serves: filed clients while it delivers, one of them
  for a direct message, and no filed client while it closes one;
* `StopInv`: before Stop closes clients no filed client is closed; from then on run
  has returned, and what is filed is closed or in `toClose`.

Order needs its own: `DirectOrder` says that the messages in a client's inbox, the
one being delivered and those in the channel form one increasing sequence bounded
by `direct`; `BroadcastOrder` says the same of broadcasts, for every client, and
that a client in the current audience has not heard the current message. Both
are instances of one operator, `Orderly`, with one lemma for each way the
sequence moves (`Accepting`, `Taking`, `Handing`, `Skipping`). `ReceivedAddsUp` counts the
callers between their send and their AddInt64; `CountInv` adds that they are
finitely many, whatever the set of callers.

The refinement maps the directory to `clients` and the line to `Line`, which is
the channel with, in front of it, the message that `run` is delivering. A step
of `Hub` is a `Join`, `Leave`, `Accept`, `HandOver`, `Lose` or a stutter.
`RegistryInv` is needed to see that the client to which a message is handed is
still the one the directory names.

### Server

From `HubAssumption` and `SignalingAssumption` - every client object has a websocket,
an outbox has room, and the target lists include each ID alone - for any number
of websockets, clients and messages. `ServerRunsHub` (`SigSpec => Spec`) shows that the
server drives the hub by the hub's calls alone, without Unregister, Broadcast or
Stop (`ServerInv`); every theorem about the hub is then one about the server, and
the rest builds on `HubInv` and `DirectOrder`:

* `OneFate` (`MessagesHaveOneFate`): by `FateInv`, the messages in the channel, in the
  hands of run and gone - dropped, failed, on a websocket - are together
  `1..direct`, and what is gone is older than the rest; since the order is strict
  no message comes back. The counting follows by cardinality;
* `FiledIsReachable` (`FiledStaysReachable`): by `DestInv`, a client that was filed
  when its message was accepted still is, and run has the client that the
  registry names: handleRegister gives no ID away;
* `WireOrder` (`WireStaysInOrder`): for relayed messages from `FateInv`; for responses
  by `AnswerInv`, a client object is owed a response, has one waiting, or has it
  written, and at most one of the three;
* `ImplementsRelay` (`SignalingImplementsRelay`): the server implements the relay. The
  mapping takes the log from the history of acceptances and lets a message wait
  while it is in the hub's channel or in the hands of run. One step of the server
  is one of the relay or a stutter: a registration joins when run takes it from
  the channel, a message leaves the relay when it is on the websocket, has failed
  there or finds nobody. The relay may lose a message for a filed client at any
  moment, as the code may, but then it takes the websocket out of `working` (`Lose`),
  as it does when a response or a ping fails (`Break`), and writes nothing more to
  it; requests from there are still read until it hangs up. `FateInv` shows that the oldest message of a sender is the
  one that leaves, `DestInv` that it goes to the websocket of the client which the
  directory names, `AnswerInv` that a response is the first of its registration.

`ConfirmedIsReachable` and `DisconnectedIsForgotten` are false of the code (section 3).

### Connection

From `ConnectionAssumption`: `TypeOK`, `WireIsPrefix`, `ChannelSafe`, `OneCloser`. The
invariant, `ConnectionInv`, adds to the type: `CloserInv`, that at most one goroutine
is inside Close, that `closed` is set by then, and that the channel is closed only
behind it; `ReaderInv`, that the read pump is in one place at a time and, where
nobody else closes, the flag is set in its own Close; and `WriterInv`, that what
was accepted is on the wire, with the pump or in the channel, in that order, and
that the drain loop has at most as many turns left as there are messages in the
channel - which holds because the pump alone receives. Without the last the loop
could take the zero value of a closed channel for a message.

### Clocks

From `KeepaliveAssumption` - the timeouts are positive and a pong arrives within
`PingInterval + Delay < ReadTimeout` of the ping before - for every choice of the
timeouts: `PingsKeepAlive`, `PumpNeverLate`, `CutOffIsNoticed`, `RelayIsReleased`. The
invariant relates the clocks: on a far end that is prompt there is always a pong
under way or a ping to come before the read deadline (`PromptInv`); a connection
that has been deaf for some time has used up as much of its patience, unless a
pong was still under way (`DeafInv`); a relay that waits does so under a deadline
that has run down as long as it waits or, where no deadline was ever set, with
the pump in its select and the next tick to come (`RelayInv`); two goroutines are
never both in a write (`WriterInv`). The defaults of the code satisfy the assumption
with 15 s + Delay < 90 s.

### Negotiation

From `NegotiationAssumption` - the offering peers have targets - for any peers,
whoever calls whom, and any number of candidates:

* `QueueOnlyBeforeRemote`, `CandidatesAddressed` and the types by `BaseInv`: which frames
  a peer can write (`Sent`) and receive (`Delivered`), and that whoever starts the
  gathering has a target;
* `CandidatesInOrder` by `OrderInv`: what a peer holds was gathered before what waits
  in its inbox, and that before what its author has on the wire, so that flush and
  arrival only ever append;
* `NoCandidateLost` (`NoneLost`): `OrderInv` is strengthened by `Complete` - what was
  gathered is on its author's wire or has arrived at some peer - and `Apart` - at
  one peer only. That no candidate is in two places follows, with the strict order
  that `OrderInv` gives each of them; only together are the three inductive;
* `AnswersAreAwaited` by `TokenInv`: a call has one token - its offer, the read pump
  that answers it, or the answer - which is in one place, and the calling peer
  waits in `have-local-offer` as long as there is one. That the place is unique is
  what makes the statement inductive: a second answer would reach a peer that
  is stable again;
* `ImplementsCalls` (`NegotiationImplementsCalls`): `Phase` reads the state of a call off
  main, the read pumps and the frames that are under way (`Flying`). `CallsInv` adds to
  the tokens that pion's state agrees with what main and the read pump are doing
  (`Roles`); the phases are then disjoint (`PhaseFacts`), a peer is free for a call
  exactly when pion would accept an offer (`FreeFacts`), and each step that takes or
  writes a description moves one call by one phase. Frames that travel from the
  channel to the wire to the inbox, and candidates, change no call
  (`FrameMoves`, `CallsNetwork`).

### Candidates and data channel

From `ScriptAssumption` and `MaxMessagesAssumption`. `QueueInv` says of each candidate
that it is in the queue, in the batch of one goroutine or added, and nowhere
twice, if and only if its call has returned (`OnePlace`); `NoneLostOrDoubled`, which
counts places, follows by cardinality. `PeerImplementsQueue` carries it to the peer
with a data channel. `DCInv` has for the channel: `OpeningInv`, which signs of the
opening are under way in which state; `LineInv`, what was accepted is what was
handled followed by the messages under way, in that order, and nothing follows an
end of stream; `CountInv`, the counters against these sequences. `HandledIsPrefix`
and `CountsAgree` follow.

### Tracks and playback

From `TracksAssumption`: `NoneLeaked`, `FiledIsOpen`, `HandlerFindsTrack`, `SentIsFinal`.
The invariant ties `life`, the maps and `closed` together (`LifeInv`), the mutexes to
the progress of Close (`LockInv`) and the handler to what was filed (`CallbackInv`).
`MediaImplementsTracks` shows that the player on one of the tracks takes steps of
`Tracks`. From `WavAssumption` and `ToneAssumption`, for any files: `SamplesSurvive`,
`NoGap`, `ToneArrives`. `WavInv` says that what is written is a whole frame inside the
file, that the reader stands behind it (`PlaceInv`), and that 16-bit samples are read
at even offsets (`EvenInv`); `WriterInv`, that only the player writes to its track. The
rest is arithmetic modulo 2^8 and 2^16. `HeaderStatesSize` says of every wave that the
size in the header is that of the data if and only if the wave has less than 2^27
samples: main multiplies by 16 bits in 32 bits and divides by 8 afterwards.

### Only model-checked

Liveness, all of it: TLAPS handles neither `ENABLED` nor fairness. What a recursive
definition computes for every input is beyond the installed provers; no module
declares a RECURSIVE operator. The safety properties of all passing runs are
proved.

## 7. Plan

Done: the modules above in the order of section 2. What is left:

1. A slow client in `Signaling`: `RelayIsReleased` bounds one write; what all other
   clients wait for meanwhile needs the clocks and the hub in one module.
2. `Negotiation` over the relay of `Relay`, with targets that are not registered and
   websockets that go down, in place of the reliable network it has now.
3. Handlers that main sets after the read pump has answered an offer.
