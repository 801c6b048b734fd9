--------------------------- MODULE ConnectionProofs ---------------------------
(***************************************************************************)
(* Theorems about Connection, for any capacity of the channel and any      *)
(* goroutines that send, close and write besides the pumps.                *)
(***************************************************************************)
EXTENDS Connection, FiniteSetTheorems, TLAPS

\* The flag lets one goroutine into Close, and it alone closes the channel.
CloserInv ==
  /\ \A g, h \in Closers : closing[g] # "idle" /\ closing[h] # "idle" => g = h
  /\ \A g \in Closers : closing[g] # "idle" => closed
  /\ \A g \in Closers : closing[g] \in {"flagged", "cancelled"} => ~chanClosed
  /\ chanClosed => closed
  /\ panicked # "close of closed channel"

\* The read pump is in one place at a time; where nobody else closes, the flag is
\* set in its own Close.
ReaderInv ==
  /\ sending[Reader] = "checked" => reader = "handling"
  /\ closing[Reader] # "idle" => reader = "closing"
  /\ use.closers = {} /\ closed => reader \in {"closing", "stopped"}
  /\ panicked = "send on closed channel" => use.senders \cup use.closers # {}

\* The messages are on the wire, with the write pump, or in the channel, in that
\* order; the drain loop has at most as many turns left as there are messages.
Gone == accepted - Len(sendChan)

WriterInv ==
  /\ Len(sendChan) <= accepted
  /\ \A i \in 1..Len(sendChan) : sendChan[i] = Gone + i
  /\ writer \in {"writing", "flushing"} => held = Gone /\ Len(wire) + 1 = Gone
  /\ writer \in {"select", "draining", "pinging", "parting"} => Len(wire) = Gone
  /\ writer \in {"draining", "flushing"} => left <= Len(sendChan)
  /\ writer = "draining" => left > 0
  /\ writer # "stopped" => \A i \in 1..Len(wire) : wire[i] = i
  /\ WireIsPrefix

ConnectionInv == TypeOK /\ CloserInv /\ ReaderInv /\ WriterInv

LEMMA InitInv == Init => ConnectionInv
<1> SUFFICES ASSUME Init PROVE ConnectionInv
  OBVIOUS
<1> USE ConnectionAssumption DEF Init
<1>1. TypeOK
  <2>1. sendChan \in Seq(1..accepted) /\ wire \in Seq(Nat \cup {CloseFrame})
    OBVIOUS
  <2>2. sending \in [Senders -> {"idle", "checked"}]
        /\ closing \in [Closers -> {"idle", "flagged", "cancelled", "unplugged"}]
    OBVIOUS
  <2> QED BY <2>1, <2>2 DEF TypeOK, NoMessage
<1>2. CloserInv /\ ReaderInv
  BY DEF CloserInv, ReaderInv, Senders, Closers
<1>3. WriterInv
  <2>1. Len(sendChan) = 0 /\ Len(wire) = 0 /\ accepted = 0 /\ DOMAIN wire = 1..Len(wire)
    OBVIOUS
  <2>2. Gone = 0
    BY ONLY <2>1 DEF Gone
  <2> QED BY <2>1, <2>2 DEF WriterInv, WireIsPrefix
<1> QED BY <1>1, <1>2, <1>3 DEF ConnectionInv

\* Send, by any goroutine.
LEMMA SendInv ==
  ASSUME ConnectionInv, panicked = "no", UNCHANGED use, NEW s \in Senders, SendStep(s)
  PROVE  ConnectionInv'
<1> USE ConnectionAssumption DEF ConnectionInv, Returned, closeVars, pumpVars, chanVars
<1>1. CASE SendChecks(s)
  <2>1. TypeOK'
    BY <1>1 DEF SendChecks, TypeOK, Senders, Closers
  <2>2. CloserInv' /\ WriterInv'
    BY <1>1 DEF SendChecks, CloserInv, WriterInv, WireIsPrefix, Gone, Closers
  <2>3. ReaderInv'
    BY <1>1 DEF SendChecks, ReaderInv, CloserInv, TypeOK, Senders
  <2> QED BY <2>1, <2>2, <2>3
<1>2. CASE SendAccepted(s)
  <2>0. /\ accepted' = accepted + 1 /\ sendChan' = Append(sendChan, accepted + 1)
        /\ sending' = [sending EXCEPT ![s] = "idle"] /\ sending[s] = "checked"
        /\ reader' = (IF s = Reader THEN "loop" ELSE reader)
        /\ UNCHANGED <<closeVars, requestDone, chanClosed, pumpVars, conn, broken, raw, panicked>>
    BY <1>2 DEF SendAccepted
  <2>1. accepted \in Nat /\ sendChan \in Seq(1..accepted)
    BY DEF TypeOK
  <2>2. sendChan' \in Seq(1..accepted') /\ accepted' \in Nat
    <3>1. sendChan \in Seq(1..(accepted + 1))
      BY <2>1
    <3> QED BY <2>0, <2>1, <3>1
  <2>3. TypeOK'
    BY <2>0, <2>2 DEF TypeOK, Senders, Closers
  <2>4. CloserInv'
    BY <2>0 DEF CloserInv, Closers
  <2>5. ReaderInv'
    BY <1>2 DEF SendAccepted, ReaderInv, CloserInv, TypeOK, Senders
  <2>6. WriterInv'
    <3>1. Len(sendChan') = Len(sendChan) + 1 /\ Gone' = Gone /\ Gone \in Int
      BY <2>0, <2>1 DEF Gone
    <3>2. \A i \in 1..Len(sendChan') : sendChan'[i] = Gone' + i
      BY <2>0, <2>1, <3>1 DEF WriterInv, Gone
    <3> QED BY <2>0, <2>1, <3>1, <3>2 DEF WriterInv, WireIsPrefix, TypeOK
  <2> QED BY <2>3, <2>4, <2>5, <2>6
<1>3. CASE SendRefused(s)
  <2>1. TypeOK'
    BY <1>3 DEF SendRefused, TypeOK, Senders, Closers
  <2>2. CloserInv' /\ WriterInv'
    BY <1>3 DEF SendRefused, CloserInv, WriterInv, WireIsPrefix, Gone, Closers
  <2>3. ReaderInv'
    BY <1>3 DEF SendRefused, ReaderInv, CloserInv, TypeOK, Senders
  <2> QED BY <2>1, <2>2, <2>3
<1>4. CASE SendPanics(s)
  <2>1. TypeOK'
    BY <1>4 DEF SendPanics, TypeOK, Senders, Closers
  <2>2. CloserInv' /\ WriterInv'
    BY <1>4 DEF SendPanics, CloserInv, WriterInv, WireIsPrefix, Gone, Closers
  <2>3. ReaderInv'
    BY <1>4 DEF SendPanics, ReaderInv, CloserInv, Senders
  <2> QED BY <2>1, <2>2, <2>3
<1> QED BY <1>1, <1>2, <1>3, <1>4 DEF SendStep

\* Close, by any goroutine.
LEMMA CloseInv ==
  ASSUME ConnectionInv, panicked = "no", UNCHANGED use, NEW g \in Closers, CloseStep(g)
  PROVE  ConnectionInv'
<1> USE ConnectionAssumption DEF ConnectionInv, Ended, pumpVars, chanVars
<1>1. CASE CloseFlags(g)
  <2>1. TypeOK'
    BY <1>1 DEF CloseFlags, TypeOK, Senders, Closers
  <2>2. CloserInv'
    BY <1>1 DEF CloseFlags, AlreadyClosed, CloserInv, TypeOK, Closers
  <2>3. ReaderInv'
    BY <1>1 DEF CloseFlags, AlreadyClosed, MayClose, ReaderInv, TypeOK, Closers
  <2>4. WriterInv'
    BY <1>1 DEF CloseFlags, WriterInv, WireIsPrefix, Gone
  <2> QED BY <2>1, <2>2, <2>3, <2>4
<1>2. CASE CloseCancels(g)
  BY <1>2 DEF CloseCancels, TypeOK, CloserInv, ReaderInv, WriterInv, WireIsPrefix, Gone, Senders,
              Closers
<1>3. CASE CloseUnplugs(g)
  <2>1. ~chanClosed
    BY <1>3 DEF CloseUnplugs, CloserInv
  <2>2. TypeOK' /\ CloserInv'
    BY <1>3, <2>1 DEF CloseUnplugs, TypeOK, CloserInv, Senders, Closers
  <2>3. ReaderInv' /\ WriterInv'
    BY <1>3 DEF CloseUnplugs, ReaderInv, TypeOK, WriterInv, WireIsPrefix, Gone, Closers
  <2> QED BY <2>2, <2>3
<1>4. CASE CloseHangsUp(g)
  <2>1. TypeOK'
    BY <1>4 DEF CloseHangsUp, HangUp, TypeOK, Senders, Closers
  <2>2. CloserInv' /\ ReaderInv'
    BY <1>4 DEF CloseHangsUp, TypeOK, CloserInv, ReaderInv, Closers
  <2>3. WriterInv'
    BY <1>4 DEF CloseHangsUp, WriterInv, WireIsPrefix, Gone
  <2> QED BY <2>1, <2>2, <2>3
<1> QED BY <1>1, <1>2, <1>3, <1>4 DEF CloseStep
\* The read pump, and the end of the request.
LEMMA ReadInv ==
  ASSUME ConnectionInv, panicked = "no", UNCHANGED use, ReaderStep \/ RequestEnds
  PROVE  ConnectionInv'
<1> USE ConnectionAssumption
    DEF ConnectionInv, ReaderStep, ReaderLoops, ReaderGetsMessage, ReaderIgnores, ReaderFails,
        RequestEnds, readerOnly, closeVars, pumpVars, chanVars
<1>1. TypeOK'
  BY DEF TypeOK, Senders, Closers
<1>2. UNCHANGED <<closeVars, chanVars, sending, pumpVars, panicked>>
  OBVIOUS
<1>3. CloserInv' /\ WriterInv'
  BY ONLY ConnectionInv, <1>2, UNCHANGED use
     DEF ConnectionInv, CloserInv, WriterInv, WireIsPrefix, Gone, Closers, closeVars, chanVars, pumpVars
<1>4. ReaderInv'
  <2>1. CASE ReaderLoops
    BY <2>1 DEF ReaderInv, CloserInv, TypeOK, Closers
  <2>2. CASE ReaderGetsMessage
    BY <2>2 DEF ReaderInv, TypeOK
  <2>3. CASE ReaderIgnores
    BY <2>3 DEF ReaderInv, TypeOK
  <2>4. CASE ReaderFails
    BY <2>4 DEF ReaderInv, TypeOK
  <2>5. CASE RequestEnds
    BY <2>5 DEF ReaderInv, TypeOK
  <2> QED BY <2>1, <2>2, <2>3, <2>4, <2>5
<1> QED BY <1>1, <1>3, <1>4

\* The write pump: what it takes, drains and writes is the head of the line.
LEMMA WriteInv ==
  ASSUME ConnectionInv, panicked = "no", UNCHANGED use, WriterStep
  PROVE  ConnectionInv'
<1> USE DEF ConnectionInv, writerOnly, closeVars
<1>0. UNCHANGED writerOnly
  BY DEF WriterStep, WriterStops, WriterTakes, WriterParts, WriterPings, WriterDrains, WriteDone,
         WriteFailed
<1>1. CloserInv' /\ ReaderInv'
  BY <1>0 DEF CloserInv, ReaderInv, Closers
<1>2. /\ accepted \in Nat /\ sendChan \in Seq(1..accepted) /\ held \in Nat /\ left \in Nat
      /\ wire \in Seq(Nat \cup {CloseFrame}) /\ Len(sendChan) \in Nat /\ Len(wire) \in Nat
      /\ Gone \in Nat
  BY DEF TypeOK, WriterInv, Gone
<1>t. ASSUME sendChan # <<>>, sendChan' = Tail(sendChan), held' = Head(sendChan),
             UNCHANGED accepted
      PROVE  /\ sendChan' \in Seq(1..accepted) /\ Len(sendChan') = Len(sendChan) - 1
             /\ Gone' = Gone + 1 /\ held' = Gone' /\ held' \in Nat
             /\ \A i \in 1..Len(sendChan') : sendChan'[i] = Gone' + i
  <2>1. Len(sendChan) > 0 /\ Len(sendChan') = Len(sendChan) - 1 /\ Gone' = Gone + 1
    BY <1>t, <1>2 DEF Gone
  <2>2. \A i \in 1..Len(sendChan') : sendChan'[i] = sendChan[i + 1]
    BY <1>t, <1>2
  <2>3. held' = sendChan[1]
    BY <1>t, <1>2
  <2> QED BY <1>t, <1>2, <2>1, <2>2, <2>3 DEF WriterInv
<1>3. CASE WriterStops \/ WriterParts \/ WriterPings
  <2>1. TypeOK'
    BY <1>3 DEF WriterStops, WriterParts, WriterPings, TypeOK, Senders, Closers
  <2>2. WriterInv'
    BY <1>3 DEF WriterStops, WriterParts, WriterPings, WriterInv, WireIsPrefix, Gone
  <2> QED BY <1>1, <2>1, <2>2
<1>4. CASE WriterTakes
  <2>1. TypeOK'
    BY <1>4, <1>t DEF WriterTakes, TypeOK, Senders, Closers
  <2>2. WriterInv'
    BY <1>4, <1>t, <1>2 DEF WriterTakes, WriterInv, WireIsPrefix
  <2> QED BY <1>1, <2>1, <2>2
<1>5. CASE WriterDrains
  <2>1. sendChan # <<>> /\ left > 0 /\ left <= Len(sendChan)
    BY <1>5, <1>2 DEF WriterDrains, WriterInv
  <2>2. /\ left' = left - 1 /\ writer' = "flushing" /\ writer = "draining"
        /\ held' = Head(sendChan) /\ sendChan' = Tail(sendChan)
        /\ UNCHANGED <<writerOnly, broken, wire>>
    BY <1>5, <2>1 DEF WriterDrains
  <2>3. TypeOK'
    BY <2>1, <2>2, <1>t, <1>2 DEF TypeOK, Senders, Closers
  <2>4. WriterInv'
    BY <2>1, <2>2, <1>t, <1>2 DEF WriterInv, WireIsPrefix
  <2> QED BY <1>1, <2>3, <2>4
<1>6. CASE WriteDone
  <2>0. UNCHANGED <<writerOnly, sendChan>> /\ broken' \in BOOLEAN /\ held' = NoMessage
        /\ Gone' = Gone
    BY <1>6 DEF WriteDone, Gone
  <2>1. CASE writer \in {"writing", "flushing"}
    <3>1. /\ wire' = Append(wire, held) /\ left' = (IF writer = "writing" THEN Len(sendChan) ELSE left)
          /\ writer' = (IF left' = 0 THEN "select" ELSE "draining")
      BY <1>6, <2>1 DEF WriteDone, AfterWrite
    <3>2. held = Gone /\ Len(wire) + 1 = Gone /\ \A i \in 1..Len(wire) : wire[i] = i
      BY <2>1 DEF WriterInv
    <3>3. /\ wire' \in Seq(Nat \cup {CloseFrame}) /\ Len(wire') = Gone
          /\ \A i \in 1..Len(wire') : wire'[i] = i
      BY <3>1, <3>2, <1>2
    <3>4. left' \in Nat /\ left' <= Len(sendChan)
      BY <2>1, <3>1, <1>2 DEF WriterInv
    <3>5. TypeOK'
      BY <2>0, <3>1, <3>3, <3>4 DEF TypeOK, Senders, Closers, NoMessage
    <3>6. WriterInv'
      BY <2>0, <3>1, <3>3, <3>4, <1>2 DEF WriterInv, WireIsPrefix
    <3> QED BY <1>1, <3>5, <3>6
  <2>2. CASE writer = "parting"
    <3>1. wire' = Append(wire, CloseFrame) /\ left' = left /\ writer' = "stopped"
      BY <1>6, <2>2 DEF WriteDone
    <3>2. /\ wire' \in Seq(Nat \cup {CloseFrame}) /\ Len(wire') = Len(wire) + 1
          /\ \A i \in 1..Len(wire) : wire'[i] = wire[i]
          /\ wire'[Len(wire) + 1] = CloseFrame
      BY <3>1, <1>2
    <3>3. TypeOK'
      BY <2>0, <3>1, <3>2 DEF TypeOK, Senders, Closers, NoMessage
    <3>4. WriterInv'
      BY <2>0, <2>2, <3>1, <3>2, <1>2 DEF WriterInv, WireIsPrefix
    <3> QED BY <1>1, <3>3, <3>4
  <2>3. CASE writer = "pinging"
    <3>1. wire' = wire /\ left' = left /\ writer' = "select"
      BY <1>6, <2>3 DEF WriteDone
    <3> QED BY <1>1, <2>0, <2>3, <3>1 DEF TypeOK, Senders, Closers, NoMessage, WriterInv, WireIsPrefix
  <2> QED BY <1>6, <2>1, <2>2, <2>3 DEF WriteDone, Writing
<1>7. CASE WriteFailed
  <2>1. TypeOK'
    BY <1>7 DEF WriteFailed, TypeOK, Senders, Closers, NoMessage
  <2>2. WriterInv'
    BY <1>7 DEF WriteFailed, WriterInv, WireIsPrefix, Gone
  <2> QED BY <1>1, <2>1, <2>2
<1> QED BY <1>3, <1>4, <1>5, <1>6, <1>7 DEF WriterStep

\* Whoever holds the websocket itself.
LEMMA RawInv ==
  ASSUME ConnectionInv, panicked = "no", UNCHANGED use,
         (\E r \in use.rawWriters : RawBegins(r) \/ RawEnds(r)) \/ RawCloses \/ ConcurrentWrite
  PROVE  ConnectionInv'
<1> USE DEF ConnectionInv, RawBegins, RawEnds, RawCloses, ConcurrentWrite, rawOnly, closeVars,
            chanVars, pumpVars
<1>1. TypeOK'
  BY DEF TypeOK, Senders, Closers
<1>2. UNCHANGED rawOnly /\ panicked' \in {panicked, "concurrent write"}
  OBVIOUS
<1>3. CloserInv' /\ ReaderInv'
  BY <1>2 DEF CloserInv, ReaderInv, Closers
<1>4. WriterInv'
  BY <1>2 DEF WriterInv, WireIsPrefix, Gone
<1> QED BY <1>1, <1>3, <1>4

LEMMA StepInv == ConnectionInv /\ [Next]_vars => ConnectionInv'
<1> SUFFICES ASSUME ConnectionInv, [Next]_vars PROVE ConnectionInv'
  OBVIOUS
<1>1. CASE Next
  BY <1>1, SendInv, CloseInv, ReadInv, WriteInv, RawInv DEF Next
<1>2. CASE UNCHANGED vars
  <2>1. TypeOK'
    BY <1>2 DEF vars, ConnectionInv, TypeOK, Senders, Closers
  <2>2. CloserInv' /\ ReaderInv' /\ WriterInv'
    BY <1>2 DEF vars, ConnectionInv, CloserInv, ReaderInv, WriterInv, WireIsPrefix, Gone, Closers
  <2> QED BY <2>1, <2>2 DEF ConnectionInv
<1> QED BY <1>1, <1>2

LEMMA Invariance == Spec => []ConnectionInv
<1> QED BY InitInv, StepInv, PTL DEF Spec

-----------------------------------------------------------------------------
\* Every variable of the connection keeps its type.
THEOREM ConnectionTypeCorrect == Spec => []TypeOK
<1>1. ConnectionInv => TypeOK BY DEF ConnectionInv
<1> QED BY <1>1, Invariance, PTL

\* writePump writes what Send accepted, in order, without gaps or empty frames.
THEOREM WireCarriesPrefix == Spec => []WireIsPrefix
<1>1. ConnectionInv => WireIsPrefix BY DEF ConnectionInv, WriterInv
<1> QED BY <1>1, Invariance, PTL

\* On the server, where the read pump alone sends and closes, no goroutine meets a
\* closed sendChan.
THEOREM ServerChannelIsSafe == Spec => []ChannelSafe
<1>1. ConnectionInv => ChannelSafe BY DEF ConnectionInv, CloserInv, ReaderInv, ChannelSafe
<1> QED BY <1>1, Invariance, PTL

\* One goroutine at a time goes through Close, for any number that call it.
THEOREM CloseIsExclusive == Spec => []OneCloser
<1>1. ConnectionInv => OneCloser
  <2> SUFFICES ASSUME ConnectionInv PROVE OneCloser
    OBVIOUS
  <2> DEFINE Inside == {g \in Closers : closing[g] # "idle"}
  <2>1. CASE Inside = {}
    BY <2>1, FS_EmptySet DEF OneCloser
  <2>2. CASE Inside # {}
    <3>1. PICK g \in Inside : TRUE
      BY <2>2
    <3>2. Inside = {g}
      BY <3>1 DEF ConnectionInv, CloserInv
    <3> HIDE DEF Inside
    <3>3. Cardinality(Inside) = 1
      BY <3>2, FS_Singleton
    <3> QED BY <3>3 DEF OneCloser, Inside
  <2> QED BY <2>1, <2>2
<1> QED BY <1>1, Invariance, PTL
=============================================================================
