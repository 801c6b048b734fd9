-------------------------------- MODULE Media --------------------------------
(***************************************************************************)
(* cmd/audio at the offering end: the tracks of a PeerConnection           *)
(* (Tracks.tla) and the goroutine that plays a WAV file (WavPlayback.tla)  *)
(* on one of them, the only one that is written to.  Main starts the       *)
(* player when the track has been added; nothing stops it but the file.    *)
(***************************************************************************)
EXTENDS Tracks, WavPlayback

CONSTANT PlayedOn   \* the local audio track that the file is played on

ASSUME PlayedOnAssumption == PlayedOn \in Local

MediaInit == Init /\ WavInit

\* A step of the player on its own.
Plays == /\ PlayedOn \in everFiled
         /\ WavNext
         /\ UNCHANGED vars

\* A slip: an error ends the player.
WriteFrame_Returns ==
  /\ player = "writing"
  /\ \/ WriteCounts(PlayedOn) /\ UNCHANGED wavVars
     \/ /\ PlayedOn \in closed /\ writer[PlayedOn] = "idle"
        /\ player' = "stopped"
        /\ UNCHANGED <<file, pos, start, vars>>

\* audioTrack.WriteSample(sample): an error is logged.
WriteFrame ==
  /\ player = "writing"
  /\ \/ WriteCounts(PlayedOn) /\ UNCHANGED wavVars
     \/ PlayedOn \in closed /\ writer[PlayedOn] = "idle" /\ Written /\ UNCHANGED vars

FrameWritten == WriteReturns(PlayedOn) /\ Written

MediaNext ==
  /\ ~panicked
  /\ \/ Plays \/ WriteFrame \/ FrameWritten
     \/ /\ \/ Close \/ ClosesOn
           \/ \E t \in Track : Applies(t) \/ Reads(t)
        /\ UNCHANGED wavVars

mediaVars == <<vars, wavVars>>

(***************************************************************************)
(* A goroutine in the middle of a call runs on, a mutex that is freed goes *)
(* to one that waits for it, a read on a closed connection returns, and    *)
(* the player's ticker ticks.  Nothing makes the application call Close,   *)
(* and a cancelled context alone does not wake a read that waits for a     *)
(* packet.                                                                 *)
(***************************************************************************)
AppSteps(t)  == File(t) \/ CloseRemoved(t) \/ LooksUp(t) \/ OnSample(t)
ReadSteps(t) == ReadStarts(t) \/ SampleDone(t) \/ (pcClosed /\ ReadEnds(t))

Fairness ==
  /\ WF_mediaVars(~panicked /\ ClosesOn /\ UNCHANGED wavVars)
  /\ \A t \in Track : /\ WF_mediaVars(~panicked /\ AppSteps(t) /\ UNCHANGED wavVars)
                      /\ WF_mediaVars(~panicked /\ ReadSteps(t) /\ UNCHANGED wavVars)
  /\ WF_mediaVars(~panicked /\ (Plays \/ WriteFrame \/ FrameWritten))

MediaSpec == MediaInit /\ [][MediaNext]_mediaVars /\ Fairness

-----------------------------------------------------------------------------
\* Close returns although it waits for the mutex of a wrapper, which is held while
\* the application's onSample runs, with that of the map held against everybody.
CloseReturns == (closing # "no") ~> (closing = "closed" \/ panicked)

\* After Close no goroutine goes on reading, also one that was just started.
CloseStopsReaders ==
  \A t \in Remote : (closing # "no") ~> (reads[t] \in {"no", "ended"} \/ panicked)

\* A file of whole frames is played again and again from its first frame, with the
\* track open or closed: an error of WriteSample does not end the player.
WholeFrames == Files[file].header = "pcm" /\ Supported /\ Len(Data) % FrameBytes = 0
LoopsForever ==
  (WholeFrames /\ player # "opening") ~> ((pos = 0 /\ player = "playing") \/ panicked)
=============================================================================
