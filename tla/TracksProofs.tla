----------------------------- MODULE TracksProofs -----------------------------
(***************************************************************************)
(* Theorems about Tracks, for any number of tracks of either kind: the     *)
(* maps and the wrappers agree, whatever Close, Remove and pion's          *)
(* callbacks do to them at the same time.  Media only restricts what       *)
(* Tracks may do, so it inherits them.                                     *)
(***************************************************************************)
EXTENDS Media, TLAPS

\* Where a wrapper is: only File puts it into a map, and once; what was taken out
\* of a map is closed or about to be.
LifeInv ==
  /\ \A t \in filed : t \in everFiled /\ life[t] = "filed" /\ KindOf[t] \notin nilled
  /\ \A t \in Track : t \in everFiled <=> life[t] \in {"filed", "removing", "removed"}
  /\ closed \subseteq everFiled
  /\ \A t \in everFiled : t \in filed \/ life[t] = "removing" \/ t \in closed

\* A wrapper that is still in a map is closed only by Close, under the map's mutex.
LockInv ==
  /\ \A k \in locked : closing = k
  /\ \A t \in filed : t \in closed => KindOf[t] \in locked

\* The handler is called after its track was filed.
CallbackInv ==
  \A t \in Track :
    /\ callback[t] # "no" => t \in everFiled
    /\ callback[t] = "lost" => t \notin filed

TracksInv == TypeOK /\ LifeInv /\ LockInv /\ CallbackInv

LEMMA InitInv == Init => TracksInv
<1> USE TracksAssumption DEF Init, Kind
<1>1. ASSUME Init PROVE TypeOK
  <2>1. 0 \in 0..MaxPackets
    OBVIOUS
  <2>2. packets \in [Track -> 0..MaxPackets] /\ packetsSent \in [Track -> 0..MaxPackets]
    BY <1>1, <2>1
  <2> QED BY <1>1, <2>2 DEF TypeOK
<1>2. Init => LifeInv /\ LockInv /\ CallbackInv BY DEF LifeInv, LockInv, CallbackInv
<1> QED BY <1>1, <1>2 DEF TracksInv

\* What a step of the application or of pion's callback does to one wrapper.
LEMMA AppliesInv ==
  ASSUME TracksInv, NEW t \in Track, Applies(t)
  PROVE  TracksInv'
<1> USE TracksAssumption DEF TracksInv, Kind, MapFree, Free, Becomes
<1>1. CASE Wrap(t)
  BY <1>1 DEF Wrap, TypeOK, LifeInv, LockInv, CallbackInv, closeVars, mapVars, readVars, writeVars
<1>2. CASE WrapFails(t)
  BY <1>2 DEF WrapFails, TypeOK, LifeInv, LockInv, CallbackInv, closeVars, mapVars, readVars,
              writeVars
<1>3. CASE File(t)
  <2> USE <1>3 DEF File
  <2>1. TypeOK'
    <3>1. reads' \in [Track -> {"no", "starting", "reading", "ended"}]
          /\ callback' \in [Track -> {"no", "looking", "found", "set", "lost"}]
          /\ life' \in [Track -> {"new", "wrapped", "filed", "removing", "removed", "gone"}]
      BY DEF StartsReading, CallsBack, TypeOK
    <3>2. \A u \in Track \ Remote : reads'[u] = "no" /\ callback'[u] = "no"
      BY DEF StartsReading, CallsBack, TypeOK
    <3>3. filed' \subseteq Track /\ everFiled' \subseteq Track /\ panicked' \in BOOLEAN
      <4>1. CASE KindOf[t] \in nilled
        BY <4>1 DEF TypeOK
      <4>2. CASE KindOf[t] \notin nilled
        BY <4>2 DEF TypeOK
      <4> QED BY <4>1, <4>2
    <3> QED BY <3>1, <3>2, <3>3 DEF TypeOK, closeVars, writeVars
  <2>2. t \notin everFiled /\ t \notin filed
    BY DEF LifeInv
  <2>3. LifeInv'
    <3>1. CASE KindOf[t] \in nilled
      BY <3>1 DEF LifeInv, closeVars
    <3>2. CASE KindOf[t] \notin nilled
      <4>1. life' = [life EXCEPT ![t] = "filed"] /\ filed' = filed \cup {t}
            /\ everFiled' = everFiled \cup {t} /\ UNCHANGED <<nilled, closed>>
        BY <3>2 DEF closeVars
      <4> QED BY <3>2, <4>1, <2>2 DEF LifeInv, TypeOK
    <3> QED BY <3>1, <3>2
  <2>5. LockInv'
    <3>1. t \notin closed
      BY <2>2 DEF LifeInv
    <3>2. filed' \subseteq filed \cup {t} /\ closed' = closed /\ locked' = locked
          /\ closing' = closing
      BY DEF closeVars
    <3> QED BY <3>1, <3>2 DEF LockInv
  <2>4. CallbackInv'
    BY <2>2 DEF CallsBack, TypeOK, CallbackInv
  <2> QED BY <2>1, <2>3, <2>4, <2>5
<1>4. CASE LooksUp(t)
  BY <1>4 DEF LooksUp, TypeOK, LifeInv, LockInv, CallbackInv, closeVars, mapVars, readVars,
              writeVars
<1>5. CASE OnSample(t)
  BY <1>5 DEF OnSample, TypeOK, LifeInv, LockInv, CallbackInv, closeVars, mapVars, readVars,
              writeVars
<1>6. CASE Remove(t)
  BY <1>6 DEF Remove, TypeOK, LifeInv, LockInv, CallbackInv, closeVars, readVars, writeVars
<1>7. CASE CloseRemoved(t)
  BY <1>7 DEF CloseRemoved, TypeOK, LifeInv, LockInv, CallbackInv, closeVars, mapVars, readVars,
              writeVars
<1>8. QED BY <1>1, <1>2, <1>3, <1>4, <1>5, <1>6, <1>7 DEF Applies

\* What Close does to the maps, one mutex at a time.
LEMMA ClosesInv ==
  ASSUME TracksInv, Close \/ ClosesOn
  PROVE  TracksInv'
<1> USE TracksAssumption DEF TracksInv, Kind, TypeOK, LifeInv, LockInv, CallbackInv
<1>1. CASE Close
  BY <1>1 DEF Close, mapVars, readVars, writeVars
<1>2. ASSUME NEW k \in Kind, LockMap(k) PROVE TracksInv'
  BY <1>2 DEF LockMap, mapVars, readVars, writeVars
<1>3. ASSUME NEW k \in Kind, CloseTrack(k) PROVE TracksInv'
  BY <1>3 DEF CloseTrack, InMap, closeVars, mapVars, readVars, writeVars
<1>4. ASSUME NEW k \in Kind, DropMap(k) PROVE TracksInv'
  BY <1>4 DEF DropMap, InMap, Unlock, readVars, writeVars
<1>5. CASE ClosePC
  BY <1>5 DEF ClosePC, mapVars, readVars, writeVars
<1> QED BY <1>1, <1>2, <1>3, <1>4, <1>5 DEF ClosesOn

\* Reading and writing samples leaves the maps and the flags alone.
LEMMA SamplesInv ==
  ASSUME TracksInv, NEW t \in Track, Reads(t) \/ Writes(t)
  PROVE  TracksInv'
<1> USE TracksAssumption DEF TracksInv, Kind, TypeOK
<1>1. TypeOK'
  <2>1. CASE ReadStarts(t)
    BY <2>1 DEF ReadStarts, readFrame, closeVars, mapVars, writeVars
  <2>2. CASE ReadSample(t)
    BY <2>2 DEF ReadSample, readFrame, closeVars, mapVars, writeVars
  <2>3. CASE SampleDone(t)
    BY <2>3 DEF SampleDone, readFrame, closeVars, mapVars, writeVars
  <2>4. CASE ReadEnds(t) \/ ReadFails(t)
    <3>1. reads' = [reads EXCEPT ![t] = "ended"] /\ reads[t] = "reading"
          /\ UNCHANGED <<readFrame, packets, sampling>>
      BY <2>4 DEF ReadEnds, ReadFails
    <3> QED BY <3>1 DEF readFrame, closeVars, mapVars, writeVars
  <2>5. CASE WriteCounts(t)
    BY <2>5 DEF WriteCounts, Local, writeFrame, closeVars, mapVars, readVars
  <2>6. CASE WriteReturns(t)
    BY <2>6 DEF WriteReturns, writeFrame, closeVars, mapVars, readVars
  <2> QED BY <2>1, <2>2, <2>3, <2>4, <2>5, <2>6 DEF Reads, Writes
<1>2. UNCHANGED <<closeVars, mapVars, life, closed, callback>>
  BY DEF Reads, Writes, ReadStarts, ReadSample, SampleDone, ReadEnds, ReadFails, WriteCounts,
         WriteReturns, readFrame, writeFrame
<1>3. LifeInv' /\ LockInv' /\ CallbackInv'
  BY <1>2 DEF LifeInv, LockInv, CallbackInv, closeVars, mapVars
<1> QED BY <1>1, <1>3

LEMMA StepInv == TracksInv /\ [Next]_vars => TracksInv'
<1> SUFFICES ASSUME TracksInv, [Next]_vars PROVE TracksInv'
  OBVIOUS
<1>1. CASE Next
  BY <1>1, AppliesInv, ClosesInv, SamplesInv DEF Next
<1>2. CASE UNCHANGED vars
  BY <1>2 DEF vars, closeVars, mapVars, readVars, writeVars, TracksInv, TypeOK, LifeInv, LockInv,
              CallbackInv
<1> QED BY <1>1, <1>2

LEMMA Invariance == Spec => []TracksInv
<1> QED BY InitInv, StepInv, PTL DEF Spec

-----------------------------------------------------------------------------
\* Every variable of the tracks keeps its type.
THEOREM TracksTypeCorrect == Spec => []TypeOK
<1>1. TracksInv => TypeOK BY DEF TracksInv
<1> QED BY <1>1, Invariance, PTL

\* No wrapper that was ever in a map is left open and out of reach, however
\* RemoveAudioTrack, RemoveVideoTrack and Close meet.
THEOREM NoTrackLeaks == Spec => []NoneLeaked
<1>1. TracksInv => NoneLeaked BY DEF TracksInv, LifeInv, NoneLeaked
<1> QED BY <1>1, Invariance, PTL

\* Whoever gets the mutex of a map finds open wrappers in it.
THEOREM FiledTracksAreOpen == Spec => []FiledIsOpen
<1>1. TracksInv => FiledIsOpen
  BY DEF TracksInv, LifeInv, LockInv, FiledIsOpen, MapFree
<1> QED BY <1>1, Invariance, PTL

\* OnTrack of the application finds the wrapper, unless it was taken away.
THEOREM HandlersFindTracks == Spec => []HandlerFindsTrack
<1>1. TracksInv => HandlerFindsTrack
  BY DEF TracksInv, CallbackInv, HandlerFindsTrack
<1> QED BY <1>1, Invariance, PTL

\* WriteSample on a closed track does not move the statistics.
THEOREM SentCountIsFinal == Spec => SentIsFinal
<1>1. TracksInv /\ [Next]_vars => [\A t \in closed : packetsSent'[t] = packetsSent[t]]_vars
  <2> SUFFICES ASSUME TracksInv, Next, NEW t \in closed PROVE packetsSent'[t] = packetsSent[t]
    OBVIOUS
  <2>1. ASSUME NEW u \in Track, Applies(u) PROVE UNCHANGED packetsSent
    BY <2>1 DEF Applies, Wrap, WrapFails, File, LooksUp, OnSample, Remove, CloseRemoved, writeVars
  <2>2. ASSUME NEW u \in Track, Reads(u) PROVE UNCHANGED packetsSent
    BY <2>2 DEF Reads, ReadStarts, ReadSample, SampleDone, ReadEnds, ReadFails, readFrame, writeVars
  <2>3. ASSUME Close \/ ClosesOn PROVE UNCHANGED packetsSent
    BY <2>3 DEF Close, ClosesOn, LockMap, CloseTrack, DropMap, Unlock, ClosePC, writeVars
  <2>4. ASSUME NEW u \in Track, Writes(u) PROVE packetsSent'[t] = packetsSent[t]
    BY <2>4 DEF Writes, WriteCounts, WriteReturns, TracksInv, TypeOK
  <2> QED BY <2>1, <2>2, <2>3, <2>4 DEF Next
<1> QED BY <1>1, Invariance, PTL DEF Spec, SentIsFinal

\* The program that plays a file on one of its tracks is an instance of Tracks: all
\* of the above holds of it.
THEOREM MediaImplementsTracks == MediaSpec => Spec
<1>1. MediaInit => Init BY DEF MediaInit
<1>2. [MediaNext]_mediaVars => [Next]_vars
  <2> SUFFICES ASSUME MediaNext PROVE [Next]_vars
    BY DEF mediaVars
  <2>1. PlayedOn \in Track
    BY PlayedOnAssumption DEF Local
  <2> QED BY <2>1 DEF MediaNext, Next, Plays, WriteFrame, FrameWritten, Writes
<1> QED BY <1>1, <1>2, PTL DEF MediaSpec, Spec
=============================================================================
