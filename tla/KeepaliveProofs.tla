--------------------------- MODULE KeepaliveProofs ---------------------------
(***************************************************************************)
(* Theorems about Keepalive, for all timeouts with PingInterval + Delay <  *)
(* ReadTimeout.  The invariant says how far each clock has come while a    *)
(* condition lasts.                                                        *)
(***************************************************************************)
EXTENDS Keepalive, TLAPS

\* One writer at a time, none on a failed websocket; the pump leaves a deadline
\* behind once it has written.
WriterInv ==
  /\ ~(pump = "writing" /\ relay = "writing")
  /\ InWrite => ~broken
  /\ relay = "idle" => waited = 0
  /\ limit = NoLimit /\ open => pump = "select"

\* While the far end is prompt no write lasts, and the read deadline lies behind
\* the next pong: one that is under way or, if there is none, that of the next ping.
NextPong == IF due THEN Delay ELSE tick + Delay

PromptInv ==
  prompt => /\ far = "prompt" /\ ~InWrite
            /\ broken => relays
            /\ ~broken => /\ open /\ pump = "select"
                          /\ pongs = {} => NextPong < patience
                          /\ pongs # {} => \E p \in pongs : p < patience

\* While the connection is cut off no new pong sets out, and time runs from both
\* the pongs that are still under way and the read deadline.
DeafInv ==
  /\ far = "prompt" /\ ~broken => deaf = 0
  /\ InWrite /\ far # "jammed" => deaf = 0
  /\ open => /\ \A p \in pongs : deaf + p <= Delay
             /\ deaf + patience <= Noticed

\* A write of the relay has a deadline, or the pump's next ping is due before long.
RelayInv ==
  relay = "writing" =>
    \/ grace # NoLimit /\ waited + grace <= WriteTimeout
    \/ grace = NoLimit /\ (open => pump = "select")
       /\ waited <= PingInterval /\ (due \/ panicked \/ waited + tick <= PingInterval)

KeepaliveInv == TypeOK /\ WriterInv /\ PromptInv /\ DeafInv /\ RelayInv

\* The assumption and the types, written out for the provers.
LEMMA Parameters ==
  /\ WriteTimeout \in Nat \ {0} /\ ReadTimeout \in Nat \ {0} /\ PingInterval \in Nat \ {0}
  /\ Delay \in Nat /\ PingInterval + Delay < ReadTimeout
BY KeepaliveAssumption

LEMMA Numbers ==
  ASSUME TypeOK
  PROVE  /\ tick \in 1..PingInterval /\ limit \in -1..WriteTimeout /\ grace \in -1..WriteTimeout
         /\ patience \in 0..ReadTimeout /\ deaf \in Nat /\ waited \in Nat
         /\ \A p \in pongs : p \in 0..Delay
BY Parameters DEF TypeOK, Limit, NoLimit, MaxDeaf, MaxWaited, Noticed

LEMMA InitInv == Init => KeepaliveInv
<1> SUFFICES ASSUME Init PROVE KeepaliveInv
  OBVIOUS
<1> USE Parameters DEF Init
<1>1. TypeOK
  <2>1. tick \in 1..PingInterval /\ patience \in 0..ReadTimeout
    OBVIOUS
  <2>2. deaf \in 0..MaxDeaf /\ waited \in 0..MaxWaited
    BY DEF MaxDeaf, MaxWaited, Noticed
  <2> QED BY <2>1, <2>2 DEF TypeOK, Limit
<1>2. WriterInv /\ PromptInv /\ DeafInv /\ RelayInv
  BY DEF WriterInv, PromptInv, DeafInv, RelayInv, NextPong, InWrite, NoLimit, Noticed
<1> QED BY <1>1, <1>2 DEF KeepaliveInv

\* A write of the pump, alone: what becomes of the invariant before any pong is added.
LEMMA PumpInv ==
  ASSUME KeepaliveInv, ~panicked, pump = "select", PumpWrites,
         pongs' \in {pongs, Answered}, due' \in {due, FALSE}, due' # due => pongs' = Answered,
         UNCHANGED <<farVars, readVars, tick, deaf>>
  PROVE  KeepaliveInv'
<1> USE Parameters DEF KeepaliveInv, farVars, readVars, Deadline
<1>n. /\ tick \in 1..PingInterval /\ limit \in -1..WriteTimeout /\ grace \in -1..WriteTimeout
      /\ patience \in 0..ReadTimeout /\ deaf \in Nat /\ waited \in Nat
      /\ \A p \in pongs : p \in 0..Delay
  BY Numbers
<1>1. TypeOK'
  <2>0. Delay \in 0..Delay
    OBVIOUS
  <2>1. pongs' \subseteq 0..Delay /\ due' \in BOOLEAN
    BY <2>0, <1>n DEF TypeOK, Answered
  <2>2. limit' \in Limit /\ grace' \in Limit
    BY DEF TypeOK, PumpWrites, Limit
  <2>3. pump' \in {"select", "writing", "stopped"} /\ broken' \in BOOLEAN /\ panicked' \in BOOLEAN
        /\ relay' = relay /\ waited' = waited
    BY DEF TypeOK, PumpWrites
  <2> QED BY <2>1, <2>2, <2>3 DEF TypeOK
<1>2. WriterInv'
  BY <1>n DEF TypeOK, PumpWrites, WriterInv, NoLimit, Passes, Fails, Blocks, InWrite
<1>3. PromptInv'
  BY <1>n DEF TypeOK, PumpWrites, WriterInv, PromptInv, NextPong, Answered, Passes, Fails, Blocks, InWrite
<1>4. DeafInv'
  BY <1>n DEF TypeOK, PumpWrites, WriterInv, DeafInv, Answered, Passes, Fails, Blocks, InWrite, Noticed
<1>5. RelayInv'
  BY <1>n DEF TypeOK, PumpWrites, RelayInv, NoLimit
<1> QED BY <1>1, <1>2, <1>3, <1>4, <1>5
\* Steps of the pump.
LEMMA PumpStepInv ==
  ASSUME KeepaliveInv, ~panicked, PumpPings \/ PumpSends \/ PumpStops
  PROVE  KeepaliveInv'
<1>1. CASE PumpPings
  BY <1>1, PumpInv DEF PumpPings
<1>2. CASE PumpSends
  BY <1>2, PumpInv DEF PumpSends, tickVars
<1>3. CASE PumpStops
  BY <1>3 DEF PumpStops, KeepaliveInv, TypeOK, WriterInv, PromptInv, DeafInv, RelayInv, NextPong,
              InWrite, Noticed, farVars, readVars, tickVars
<1> QED BY <1>1, <1>2, <1>3

\* Steps of the relay, and the ends of a write.
LEMMA WriteStepInv ==
  ASSUME KeepaliveInv, ~panicked, RelayWrites \/ WriteReturns \/ WriteTimesOut \/ PongTimesOut
  PROVE  KeepaliveInv'
<1> USE Parameters DEF KeepaliveInv, farVars, readVars, tickVars
<1>n. /\ tick \in 1..PingInterval /\ limit \in -1..WriteTimeout /\ grace \in -1..WriteTimeout
      /\ patience \in 0..ReadTimeout /\ deaf \in Nat /\ waited \in Nat
      /\ \A p \in pongs : p \in 0..Delay
  BY Numbers
<1>1. CASE RelayWrites
  <2>1. TypeOK'
    BY <1>1 DEF RelayWrites, TypeOK
  <2>2. WriterInv' /\ PromptInv'
    BY <1>1 DEF RelayWrites, TypeOK, WriterInv, PromptInv, NextPong, InWrite, Fails, Blocks
  <2>3. DeafInv'
    BY <1>1 DEF RelayWrites, TypeOK, DeafInv, InWrite, Fails, Blocks, Noticed
  <2>4. RelayInv'
    BY <1>1, <1>n DEF RelayWrites, TypeOK, WriterInv, RelayInv, Fails, Blocks, NoLimit
  <2> QED BY <2>1, <2>2, <2>3, <2>4
<1>2. CASE WriteReturns
  <2>0. /\ relay' = "idle" /\ waited' = 0 /\ grace' = NoLimit /\ pump' \in {pump, "select"}
        /\ pump' # "writing" /\ pongs' \in {pongs, pongs \cup {Delay}} /\ deaf = 0 /\ ~prompt
        /\ UNCHANGED <<farVars, readVars, tickVars, deaf, limit, broken, panicked>>
    BY <1>2 DEF WriteReturns, Leaves, TypeOK, PromptInv, DeafInv
  <2>1. TypeOK'
    <3>1. pongs' \subseteq 0..Delay /\ waited' \in 0..MaxWaited /\ grace' \in Limit
      BY <2>0 DEF TypeOK, Limit, MaxWaited
    <3> QED BY <2>0, <3>1 DEF TypeOK
  <2>2. WriterInv' /\ PromptInv' /\ RelayInv'
    BY <2>0, <1>2 DEF WriteReturns, WriterInv, PromptInv, RelayInv, InWrite
  <2>3. DeafInv'
    BY <2>0, <1>n DEF DeafInv, InWrite, Noticed
  <2> QED BY <2>1, <2>2, <2>3
<1>3. CASE WriteTimesOut
  <2>0. /\ relay' = "idle" /\ waited' = 0 /\ grace' = NoLimit /\ broken' = TRUE /\ ~prompt
        /\ pump' = IF pump = "writing" THEN "stopped" ELSE pump
        /\ UNCHANGED <<farVars, readVars, tickVars, deaf, limit, pongs, panicked>>
    BY <1>3 DEF WriteTimesOut, Leaves, TypeOK, PromptInv
  <2>1. TypeOK'
    <3>1. waited' \in 0..MaxWaited /\ grace' \in Limit
      BY <2>0 DEF TypeOK, Limit, MaxWaited
    <3> QED BY <2>0, <3>1 DEF TypeOK
  <2>2. WriterInv' /\ PromptInv' /\ RelayInv'
    BY <2>0 DEF WriterInv, PromptInv, RelayInv, InWrite
  <2>3. DeafInv'
    BY <2>0 DEF DeafInv, InWrite, Noticed
  <2> QED BY <2>1, <2>2, <2>3
<1>4. CASE PongTimesOut
  BY <1>4 DEF PongTimesOut, TypeOK, WriterInv, PromptInv, DeafInv, RelayInv, InWrite, Noticed
<1> QED BY <1>1, <1>2, <1>3, <1>4

\* Steps of the read pump and of the far end.
LEMMA ReadStepInv ==
  ASSUME KeepaliveInv, ~panicked,
         PongArrives \/ ReadTimesOut \/ FarRecovers \/ \E f \in Faults : FarFails(f)
  PROVE  KeepaliveInv'
<1> USE Parameters DEF KeepaliveInv, writeVars, tickVars
<1>n. /\ tick \in 1..PingInterval /\ limit \in -1..WriteTimeout /\ grace \in -1..WriteTimeout
      /\ patience \in 0..ReadTimeout /\ deaf \in Nat /\ waited \in Nat
      /\ \A p \in pongs : p \in 0..Delay
  BY Numbers
<1>1. CASE PongArrives
  <2>0. PICK p \in pongs : /\ \A q \in pongs : p <= q
                           /\ pongs' = pongs \ {p} /\ patience' = ReadTimeout /\ open
                           /\ UNCHANGED <<farVars, writeVars, tickVars, open, deaf>>
    BY <1>1 DEF PongArrives, Patience
  <2>1. TypeOK'
    <3>1. patience' \in 0..ReadTimeout /\ pongs' \subseteq 0..Delay
      BY <2>0, <1>n
    <3> QED BY <2>0, <3>1 DEF TypeOK, farVars
  <2>2. WriterInv' /\ RelayInv'
    BY <2>0 DEF WriterInv, RelayInv, InWrite, farVars
  <2>3. PromptInv'
    <3>1. \A q \in pongs' : q < patience'
      BY <2>0, <1>n
    <3>2. NextPong' < patience'
      BY <2>0, <1>n DEF NextPong
    <3> QED BY <2>0, <3>1, <3>2 DEF PromptInv, InWrite, farVars
  <2>4. DeafInv'
    <3>1. deaf + p <= Delay /\ p >= 0
      BY <2>0, <1>n DEF DeafInv
    <3>2. deaf' + patience' <= Noticed
      BY <2>0, <3>1, <1>n DEF Noticed
    <3> QED BY <2>0, <3>2 DEF DeafInv, InWrite, farVars
  <2> QED BY <2>1, <2>2, <2>3, <2>4
<1>2. CASE ReadTimesOut
  <2>1. TypeOK' /\ WriterInv' /\ RelayInv'
    BY <1>2 DEF ReadTimesOut, TypeOK, WriterInv, RelayInv, InWrite, farVars
  <2>2. ~prompt \/ broken
    <3>1. ASSUME prompt, ~broken PROVE FALSE
      BY <3>1, <1>2, <1>n DEF ReadTimesOut, PromptInv, NextPong
    <3> QED BY <3>1 DEF TypeOK
  <2>3. PromptInv'
    BY <1>2, <2>2 DEF ReadTimesOut, PromptInv, InWrite, farVars
  <2>4. DeafInv'
    BY <1>2 DEF ReadTimesOut, DeafInv, InWrite, farVars
  <2> QED BY <2>1, <2>2, <2>3, <2>4
<1>3. CASE FarRecovers
  <2>0. deaf' \in {0, deaf} /\ (~broken => deaf' = 0) /\ ~prompt /\ InWrite' = InWrite
    BY <1>3 DEF FarRecovers, PromptInv, TypeOK, InWrite
  <2>1. TypeOK'
    BY <1>3, <2>0 DEF FarRecovers, TypeOK, readVars, MaxDeaf, Noticed
  <2>2. WriterInv' /\ PromptInv' /\ RelayInv'
    BY <1>3, <2>0 DEF FarRecovers, WriterInv, PromptInv, RelayInv, InWrite, readVars
  <2>3. DeafInv'
    BY <1>3, <2>0, <1>n DEF FarRecovers, WriterInv, DeafInv, readVars, Noticed
  <2> QED BY <2>1, <2>2, <2>3
<1>4. ASSUME NEW f \in Faults, FarFails(f) PROVE KeepaliveInv'
  <2>0. f \in {"silent", "jammed"} /\ pongs' \in {{}, pongs}
    BY <1>4, KeepaliveAssumption DEF FarFails
  <2>1. TypeOK'
    BY <1>4, <2>0 DEF FarFails, TypeOK, readVars
  <2>2. WriterInv' /\ PromptInv' /\ RelayInv'
    BY <1>4 DEF FarFails, WriterInv, PromptInv, RelayInv, InWrite, readVars
  <2>3. DeafInv'
    BY <1>4, <2>0 DEF FarFails, WriterInv, DeafInv, InWrite, readVars, Noticed
  <2> QED BY <2>1, <2>2, <2>3
<1> QED BY <1>1, <1>2, <1>3, <1>4
\* Time passes only when nothing is urgent; every clock moves by one unit.
LEMMA TimeInv ==
  ASSUME KeepaliveInv, ~panicked, TimePasses
  PROVE  KeepaliveInv'
<1> USE Parameters DEF KeepaliveInv, TimePasses, farVars
<1>n. /\ tick \in 1..PingInterval /\ limit \in -1..WriteTimeout /\ grace \in -1..WriteTimeout
      /\ patience \in 0..ReadTimeout /\ deaf \in Nat /\ waited \in Nat
      /\ \A p \in pongs : p \in 0..Delay
  BY Numbers
<1>1. patience > 0 /\ 0 \notin pongs /\ ~(pump = "select" /\ due)
      /\ (InWrite => grace # 0 /\ far = "jammed")
  BY <1>n DEF Urgent, TypeOK
<1>d. tick = 1 => due'
  BY DEF TypeOK
<1>2. deaf' \in {0, deaf, deaf + 1} /\ waited' \in {0, waited, waited + 1}
      /\ (far = "prompt" /\ ~broken => deaf' = 0) /\ (relay # "writing" => waited' = 0)
      /\ deaf' \in 0..MaxDeaf /\ waited' \in 0..MaxWaited
  BY <1>n DEF TypeOK, UpTo, MaxDeaf, MaxWaited, Noticed
<1>3. pongs' \subseteq 0..Delay
  BY <1>1, <1>n
<1>4. TypeOK'
  <2>1. tick' \in 1..PingInterval /\ due' \in BOOLEAN
    BY <1>n DEF TypeOK
  <2>2. limit' \in Limit /\ grace' \in Limit /\ patience' \in 0..ReadTimeout
    BY <1>n DEF Limit, NoLimit, Less
  <2> QED BY <1>2, <1>3, <2>1, <2>2 DEF TypeOK
<1>5. WriterInv'
  BY <1>2, <1>n DEF WriterInv, InWrite, NoLimit, Less
<1>6. PromptInv'
  <2> SUFFICES ASSUME prompt PROVE PromptInv'
    BY DEF PromptInv
  <2>1. ASSUME ~broken, pongs = {} PROVE pongs' = {} /\ NextPong' < patience'
    <3>1. pongs' = {} /\ ~due /\ tick + Delay < patience /\ patience' = patience - 1
      BY <2>1, <1>1, <1>n DEF PromptInv, NextPong, Less
    <3>2. CASE tick = 1
      BY <3>1, <3>2, <1>d, <1>n DEF NextPong
    <3>3. CASE tick # 1
      BY <3>1, <3>3, <1>n DEF NextPong
    <3> QED BY <3>2, <3>3
  <2>2. ASSUME ~broken, NEW p \in pongs, p < patience PROVE p - 1 \in pongs' /\ p - 1 < patience'
    BY <2>2, <1>1, <1>n DEF Less
  <2> QED BY <2>1, <2>2 DEF PromptInv, InWrite
<1>7. DeafInv'
  <2>1. \A p \in pongs' : deaf' + p <= Delay
    BY <1>2, <1>3, <1>n DEF DeafInv
  <2>2. deaf' + patience' <= Noticed
    BY <1>1, <1>2, <1>n DEF DeafInv, Less, Noticed
  <2>3. InWrite' = InWrite
    BY DEF InWrite
  <2> QED BY <1>1, <1>2, <2>1, <2>2, <2>3 DEF DeafInv
<1>8. RelayInv'
  <2> SUFFICES ASSUME relay = "writing" PROVE RelayInv'
    BY DEF RelayInv
  <2>1. CASE grace # NoLimit
    BY <2>1, <1>1, <1>2, <1>n DEF RelayInv, InWrite, NoLimit, Less
  <2>2. CASE grace = NoLimit
    <3>1. ~due /\ grace' = NoLimit /\ pump = "select" /\ waited + tick <= PingInterval
      BY <2>2, <1>1 DEF RelayInv, NoLimit, Less
    <3>2. CASE tick = 1
      BY <3>1, <3>2, <1>d, <1>2, <1>n DEF RelayInv
    <3>3. CASE tick # 1
      BY <3>1, <3>3, <1>2, <1>n DEF RelayInv
    <3> QED BY <3>2, <3>3
  <2> QED BY <2>1, <2>2
<1> QED BY <1>4, <1>5, <1>6, <1>7, <1>8

LEMMA StepInv == KeepaliveInv /\ [Next]_vars => KeepaliveInv'
<1> SUFFICES ASSUME KeepaliveInv, [Next]_vars PROVE KeepaliveInv'
  OBVIOUS
<1>1. CASE Next
  BY <1>1, PumpStepInv, WriteStepInv, ReadStepInv, TimeInv DEF Next, Steps
<1>2. CASE UNCHANGED vars
  BY <1>2 DEF vars, farVars, writeVars, readVars, tickVars, KeepaliveInv, TypeOK, WriterInv,
              PromptInv, DeafInv, RelayInv, NextPong, InWrite
<1> QED BY <1>1, <1>2

LEMMA Invariance == Spec => []KeepaliveInv
<1> QED BY InitInv, StepInv, PTL DEF Spec

-----------------------------------------------------------------------------
\* Every clock stays within its bounds.
THEOREM KeepaliveTypeCorrect == Spec => []TypeOK
<1>1. KeepaliveInv => TypeOK BY DEF KeepaliveInv
<1> QED BY <1>1, Invariance, PTL

\* readPump never times out on a far end that answers pings within Delay, for any
\* timeouts with PingInterval + Delay < ReadTimeout.
THEOREM PingsSuffice == Spec => []PingsKeepAlive
<1>1. KeepaliveInv => PingsKeepAlive BY DEF KeepaliveInv, PromptInv, PingsKeepAlive
<1> QED BY <1>1, Invariance, PTL

\* The deadline of writePump never passes on such a far end unless the hub or pion
\* writes to the websocket as well.
THEOREM PumpIsInTime == Spec => []PumpNeverLate
<1>1. KeepaliveInv => PumpNeverLate BY DEF KeepaliveInv, PromptInv, PumpNeverLate
<1> QED BY <1>1, Invariance, PTL

\* A connection whose far end is gone, or whose write pump is, is closed after
\* ReadTimeout + Delay at the latest.
THEOREM CutOffEnds == Spec => []CutOffIsNoticed
<1>1. KeepaliveInv => CutOffIsNoticed
  BY Numbers, Parameters DEF KeepaliveInv, DeafInv, CutOffIsNoticed, Noticed
<1> QED BY <1>1, Invariance, PTL

\* The hub is held up by one client for WriteTimeout or PingInterval at most.
THEOREM RelaysAreReleased == Spec => []RelayIsReleased
<1>1. KeepaliveInv => RelayIsReleased
  <2> SUFFICES ASSUME KeepaliveInv PROVE RelayIsReleased
    OBVIOUS
  <2>1. CASE relay = "writing"
    BY <2>1, Numbers, Parameters DEF KeepaliveInv, RelayInv, RelayIsReleased, NoLimit
  <2>2. CASE relay = "idle"
    BY <2>2, Parameters DEF KeepaliveInv, WriterInv, RelayIsReleased
  <2> QED BY <2>1, <2>2 DEF KeepaliveInv, TypeOK
<1> QED BY <1>1, Invariance, PTL
=============================================================================
