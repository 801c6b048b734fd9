-------------------------------- MODULE Tracks --------------------------------
(***************************************************************************)
(* The media tracks of one PeerConnection (internal/webrtc/peer.go) and    *)
(* their wrappers (audiotrack.go, videotrack.go): pion's callback wraps    *)
(* and files an incoming track, starts a goroutine that reads it and calls *)
(* the application, the application adds and removes tracks and writes     *)
(* samples to those it added, and Close closes all of them.                *)
(*                                                                         *)
(* Audio and video differ in names only; each has a map guarded by its own *)
(* mutex, and each wrapper has a mutex: Close holds the map's while it     *)
(* waits for a wrapper's, and a wrapper's is held while onSample runs.     *)
(***************************************************************************)
EXTENDS Integers, FiniteSets

CONSTANTS Track,      \* track wrappers, each with an ID of its own
          KindOf,     \* the kind of each wrapper, "audio" or "video"
          Remote,     \* the wrappers of incoming tracks; the others are local
          MaxPackets  \* bound on the packets that arrive on a track, and up to which those
              \* that are sent are counted

Kind == {"audio", "video"}

ASSUME TracksAssumption == /\ KindOf \in [Track -> Kind] /\ Remote \subseteq Track
                           /\ MaxPackets \in Nat

VARIABLES
  ctxDone,    \* p.ctx is cancelled
  nilled,     \* the maps Close has set to nil
  filed,      \* the wrappers in the maps
  pcClosed,   \* pion's connection is closed
  closing,    \* progress of PeerConnection.Close
  locked,     \* the maps whose mutex Close holds
  life,       \* per wrapper: what is being done to it
  closed,     \* wrappers whose closed flag is set
  sampling,   \* wrappers whose mutex is held while onSample runs
  reads,      \* per wrapper: its ReadSamples goroutine
  packets,    \* stats.PacketsReceived
  callback,   \* per wrapper: the application's OnTrack handler
  writer,     \* per wrapper: the goroutine that writes samples to it
  packetsSent,
  everFiled,  \* wrappers that were in a map
  panicked

closeVars == <<ctxDone, nilled, pcClosed, closing, locked>>
mapVars   == <<filed, everFiled, panicked>>
readVars  == <<reads, packets, sampling>>
writeVars == <<writer, packetsSent>>
vars == <<closeVars, mapVars, readVars, writeVars, life, closed, callback>>

TypeOK ==
  /\ {ctxDone, pcClosed, panicked} \subseteq BOOLEAN
  /\ nilled \subseteq Kind /\ locked \subseteq Kind
  /\ filed \subseteq Track /\ closed \subseteq Track /\ everFiled \subseteq Track
  /\ closing \in {"no", "audio", "video", "pc", "closed"}
  /\ life \in [Track -> {"new", "wrapped", "filed", "removing", "removed", "gone"}]
  /\ sampling \subseteq Remote
  /\ reads \in [Track -> {"no", "starting", "reading", "ended"}]
  /\ packets \in [Track -> 0..MaxPackets]
  /\ callback \in [Track -> {"no", "looking", "found", "set", "lost"}]
  /\ writer \in [Track -> {"idle", "writing"}]
  /\ packetsSent \in [Track -> 0..MaxPackets]
  /\ \A t \in Track \ Remote : reads[t] = "no" /\ callback[t] = "no"

Init == /\ ctxDone = FALSE /\ nilled = {} /\ filed = {} /\ pcClosed = FALSE
        /\ closing = "no" /\ locked = {}
        /\ life = [t \in Track |-> "new"] /\ closed = {} /\ sampling = {}
        /\ reads = [t \in Track |-> "no"] /\ packets = [t \in Track |-> 0]
        /\ callback = [t \in Track |-> "no"]
        /\ writer = [t \in Track |-> "idle"] /\ packetsSent = [t \in Track |-> 0]
        /\ everFiled = {} /\ panicked = FALSE

Becomes(t, s) == life' = [life EXCEPT ![t] = s]

\* The mutex of the map that t belongs to, and that of t, are free.
MapFree(t) == KindOf[t] \notin locked
Free(t)    == t \notin sampling

-----------------------------------------------------------------------------
\* A slip: the application's handler is called before the wrapper is filed.
Wrap_CallsBack(t) ==
  /\ life[t] = "new" /\ ~pcClosed
  /\ Becomes(t, "wrapped")
  /\ callback' = IF t \in Remote THEN [callback EXCEPT ![t] = "looking"] ELSE callback
  /\ UNCHANGED <<closeVars, mapVars, readVars, writeVars, closed>>

\* pion's OnTrack callback makes the wrapper of an incoming track, or the
\* application's AddAudioTrack adds its track to pion's connection ...
Wrap(t) == /\ life[t] = "new" /\ ~pcClosed
           /\ Becomes(t, "wrapped")
           /\ UNCHANGED <<closeVars, mapVars, readVars, writeVars, closed, callback>>

\* ... which pion refuses on a closed connection ...
WrapFails(t) == /\ life[t] = "new" /\ pcClosed /\ t \notin Remote
                /\ Becomes(t, "gone")
                /\ UNCHANGED <<closeVars, mapVars, readVars, writeVars, closed, callback>>

StartsReading(t) ==
  reads' = IF t \in Remote THEN [reads EXCEPT ![t] = "starting"] ELSE reads

CallsBack(t) ==
  callback' = IF t \in Remote THEN [callback EXCEPT ![t] = "looking"] ELSE callback

\* ... then it goes into the map under the mutex.  A write to a nil map panics.
\* The callback starts the goroutine that reads the track, and goes on to call
\* the application's handler.
File(t) ==
  /\ life[t] = "wrapped" /\ MapFree(t)
  /\ IF KindOf[t] \in nilled
     THEN panicked' = TRUE /\ UNCHANGED <<filed, everFiled, life, reads, callback>>
     ELSE /\ filed' = filed \cup {t} /\ everFiled' = everFiled \cup {t}
          /\ Becomes(t, "filed")
          /\ StartsReading(t) /\ CallsBack(t)
          /\ UNCHANGED panicked
  /\ UNCHANGED <<closeVars, writeVars, packets, sampling, closed>>

\* The handler looks its track up, under the map's mutex, and gives up if it is
\* not there; otherwise it sets onSample, under the wrapper's.
LooksUp(t) == /\ callback[t] = "looking" /\ MapFree(t)
              /\ callback' = [callback EXCEPT ![t] = IF t \in filed THEN "found" ELSE "lost"]
              /\ UNCHANGED <<closeVars, mapVars, readVars, writeVars, life, closed>>

OnSample(t) == /\ callback[t] = "found" /\ Free(t)
               /\ callback' = [callback EXCEPT ![t] = "set"]
               /\ UNCHANGED <<closeVars, mapVars, readVars, writeVars, life, closed>>

\* RemoveAudioTrack takes the wrapper out of the map under the mutex, and closes
\* it after releasing the mutex.
Remove(t) == /\ t \in filed /\ MapFree(t)
             /\ filed' = filed \ {t} /\ Becomes(t, "removing")
             /\ UNCHANGED <<closeVars, readVars, writeVars, closed, callback, everFiled,
                            panicked>>

\* A slip: the wrapper is dropped without closing it.
CloseRemoved_Not(t) == /\ life[t] = "removing" /\ Free(t)
                       /\ Becomes(t, "removed")
                       /\ UNCHANGED <<closeVars, mapVars, readVars, writeVars, closed, callback>>

CloseRemoved(t) == /\ life[t] = "removing" /\ Free(t)
                   /\ closed' = closed \cup {t} /\ Becomes(t, "removed")
                   /\ UNCHANGED <<closeVars, mapVars, readVars, writeVars, callback>>

-----------------------------------------------------------------------------
\* PeerConnection.Close: cancel; the audio map, then the video map: lock it, close
\* every wrapper in it and set it to nil, and unlock; close pion's connection.
Close == /\ closing = "no"
         /\ ctxDone' = TRUE /\ closing' = "audio"
         /\ UNCHANGED <<nilled, pcClosed, locked, mapVars, readVars, writeVars, life, closed,
                        callback>>

LockMap(k) == /\ closing = k /\ k \notin locked
              /\ locked' = {k}
              /\ UNCHANGED <<ctxDone, nilled, pcClosed, closing, mapVars, readVars, writeVars,
                             life, closed, callback>>

InMap(k) == {t \in filed : KindOf[t] = k}

\* track.Close waits for the wrapper's mutex.
CloseTrack(k) == /\ k \in locked
                 /\ \E t \in InMap(k) \ closed : Free(t) /\ closed' = closed \cup {t}
                 /\ UNCHANGED <<closeVars, mapVars, readVars, writeVars, life, callback>>

Unlock(k) == /\ locked' = {}
             /\ closing' = IF k = "audio" THEN "video" ELSE "pc"
             /\ UNCHANGED <<ctxDone, pcClosed, readVars, writeVars, life, closed, callback,
                            everFiled, panicked>>

\* A slip: the map keeps the wrappers that were closed.
DropMap_Keeps(k) == /\ k \in locked /\ InMap(k) \subseteq closed
                    /\ Unlock(k)
                    /\ UNCHANGED <<filed, nilled>>

DropMap(k) == /\ k \in locked /\ InMap(k) \subseteq closed
              /\ filed' = filed \ InMap(k) /\ nilled' = nilled \cup {k}
              /\ Unlock(k)

\* A slip: Close leaves pion's connection open.
ClosePC_Not == /\ closing = "pc"
               /\ closing' = "closed"
               /\ UNCHANGED <<ctxDone, nilled, pcClosed, locked, mapVars, readVars, writeVars,
                              life, closed, callback>>

ClosePC == /\ closing = "pc"
           /\ pcClosed' = TRUE /\ closing' = "closed"
           /\ UNCHANGED <<ctxDone, nilled, locked, mapVars, readVars, writeVars, life, closed,
                          callback>>

-----------------------------------------------------------------------------
readFrame == <<closeVars, mapVars, writeVars, life, closed, callback>>

\* ReadSamples looks at the closed flag once, when it starts.
ReadStarts(t) == /\ reads[t] = "starting" /\ Free(t)
                 /\ reads' = [reads EXCEPT ![t] = IF t \in closed THEN "ended" ELSE "reading"]
                 /\ UNCHANGED <<readFrame, packets, sampling>>

\* A packet arrives: processSample counts it and, if it is set, calls onSample,
\* all with the wrapper's mutex held.
ReadSample(t) == /\ reads[t] = "reading" /\ Free(t) /\ ~pcClosed /\ packets[t] < MaxPackets
                 /\ packets' = [packets EXCEPT ![t] = @ + 1]
                 /\ sampling' = IF callback[t] = "set" THEN sampling \cup {t} ELSE sampling
                 /\ UNCHANGED <<readFrame, reads>>

\* A slip: the mutex is not given back.
SampleDone_Keeps(t) == /\ t \in sampling /\ reads[t] = "reading"
                       /\ reads' = [reads EXCEPT ![t] = "ended"]
                       /\ UNCHANGED <<readFrame, packets, sampling>>

\* The callback returns.
SampleDone(t) == /\ t \in sampling
                 /\ sampling' = sampling \ {t}
                 /\ UNCHANGED <<readFrame, reads, packets>>

\* The loop ends on p.ctx, which it looks at between packets, or when the read
\* fails because pion's connection is closed.
ReadEnds(t) == /\ reads[t] = "reading" /\ Free(t) /\ (ctxDone \/ pcClosed)
               /\ reads' = [reads EXCEPT ![t] = "ended"]
               /\ UNCHANGED <<readFrame, packets, sampling>>

\* The sender ends the track, or the read fails for another reason.
ReadFails(t) == /\ reads[t] = "reading" /\ Free(t)
                /\ reads' = [reads EXCEPT ![t] = "ended"]
                /\ UNCHANGED <<readFrame, packets, sampling>>

-----------------------------------------------------------------------------
writeFrame == <<closeVars, mapVars, readVars, life, closed, callback>>
Local == Track \ Remote

\* WriteSample tests the flag and counts the sample under the mutex, before ...
WriteCounts(t) ==
  /\ t \in Local \cap everFiled /\ writer[t] = "idle" /\ t \notin closed
  /\ packetsSent' = [packetsSent EXCEPT ![t] = IF @ < MaxPackets THEN @ + 1 ELSE @]
  /\ writer' = [writer EXCEPT ![t] = "writing"]
  /\ UNCHANGED writeFrame

\* ... it goes to pion, which has it or, on a closed connection, drops it.
WriteReturns(t) == /\ writer[t] = "writing"
                   /\ writer' = [writer EXCEPT ![t] = "idle"]
                   /\ UNCHANGED <<writeFrame, packetsSent>>

-----------------------------------------------------------------------------
ClosesOn == ClosePC \/ \E k \in Kind : LockMap(k) \/ CloseTrack(k) \/ DropMap(k)
Applies(t) == \/ Wrap(t) \/ WrapFails(t) \/ File(t) \/ LooksUp(t) \/ OnSample(t)
              \/ Remove(t) \/ CloseRemoved(t)
Reads(t)   == ReadStarts(t) \/ ReadSample(t) \/ SampleDone(t) \/ ReadEnds(t) \/ ReadFails(t)
Writes(t)  == WriteCounts(t) \/ WriteReturns(t)

Next == /\ ~panicked
        /\ \/ Close \/ ClosesOn
           \/ \E t \in Track : Applies(t) \/ Reads(t) \/ Writes(t)

Spec == Init /\ [][Next]_vars

-----------------------------------------------------------------------------
\* A wrapper that was filed is in a map, being removed, or closed: Remove and
\* Close, however they interleave, leave none open and out of reach.
NoneLeaked ==
  \A t \in everFiled : t \in filed \/ life[t] = "removing" \/ t \in closed

\* Whoever gets at a map finds open wrappers only, and a map that Close gave up
\* stays empty.
FiledIsOpen ==
  \A t \in filed : MapFree(t) => t \notin closed /\ KindOf[t] \notin nilled

\* The application's handler finds the wrapper of the track it is called with,
\* unless somebody removed the track or closes the connection meanwhile.
HandlerFindsTrack ==
  \A t \in Track : callback[t] = "lost" => t \in everFiled /\ t \notin filed

\* The count of sent samples that Close logs is final: no writer, however far it
\* had come, counts one more.
SentIsFinal == [][\A t \in closed : packetsSent'[t] = packetsSent[t]]_vars

\* errors.go: "ErrPeerConnectionClosed is returned when peer connection is
\* closed".  Adding a track while the connection closes should be an error.
AddAfterCloseIsAnError == ~panicked
=============================================================================
