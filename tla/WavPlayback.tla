----------------------------- MODULE WavPlayback -----------------------------
(***************************************************************************)
(* Playing a WAV file on an audio track: WAVReader                         *)
(* (internal/audio/wav.go) and playWAVFile (cmd/audio/main.go).  The file  *)
(* is opened and its header tested, then every                             *)
(* tick reads one frame from the file, converts it to signed 16-bit        *)
(* samples and writes those, least significant byte first, to the track;   *)
(* at the end of the file the reader goes back to the first sample.        *)
(* Bytes and samples keep their widths: uint8 and int16 wrap.              *)
(***************************************************************************)
EXTENDS Integers, Sequences, Functions

CONSTANTS Files,          \* by name: what the header is, its field bits, the bytes after it
          FrameSamples    \* samples of a frame over all channels (960 * channels)

ASSUME WavAssumption ==
  /\ Range(Files) \subseteq [header : {"pcm", "coded", "other", "short"},
                          bits : {8, 16, 24, 32}, data : Seq(0..255)]
  /\ FrameSamples \in Nat \ {0}

VARIABLES file,    \* the name of the file that is played
          pos,     \* offset of the next byte to read
          start,   \* where in the file the frame began that was read last
          player   \* "opening" the file, "playing", "writing" a frame to the track, or, when playWAVFile has
           \* returned, "stopped"

wavVars == <<file, pos, start, player>>

Data == Files[file].data
BitsPerSample == Files[file].bits
Width == BitsPerSample \div 8
FrameBytes == FrameSamples * Width
Left == Len(Data) - pos

Uint8(n) == n % 256
Int16(n) == ((n + 32768) % 65536) - 32768
LittleEndian(lo, hi) == Int16(lo + 256 * hi)

\* One sample that begins at byte i: read as it is, or int16(v-128) << 8.
Sample(i) == IF BitsPerSample = 16 THEN LittleEndian(Data[i], Data[i + 1])
             ELSE Int16(Int16(Uint8(Data[i] - 128)) * 256)

\* A slip: the most significant byte first.
Bytes_BigEndian(sample) == <<Uint8(sample \div 256), Uint8(sample)>>

\* data[i*2] = byte(sample), data[i*2+1] = byte(sample >> 8)
Bytes(sample) == <<Uint8(sample), Uint8(sample \div 256)>>

WavTypeOK == /\ file \in DOMAIN Files
          /\ pos \in 0..Len(Data) /\ start \in 0..Len(Data)
          /\ player \in {"opening", "playing", "writing", "stopped"}

WavInit == file \in DOMAIN Files /\ pos = 0 /\ start = 0 /\ player = "opening"

Supported == BitsPerSample \in {8, 16}

\* NewWAVReader takes a RIFF file of format WAVE that holds PCM samples; other
\* files, and those that end inside the header, are not played.
NewWAVReader == /\ player = "opening"
                /\ player' = IF Files[file].header = "pcm" THEN "playing" ELSE "stopped"
                /\ UNCHANGED <<file, pos, start>>

\* The samples that were read, as the bytes that are written to the track.
Frame == [j \in 1..(2 * FrameSamples) |->
            Bytes(Sample(start + 1 + Width * ((j - 1) \div 2)))[1 + ((j - 1) % 2)]]

\* A tick of the player.
PlayFrame ==
  /\ player = "playing" /\ Supported /\ Left >= FrameBytes
  /\ start' = pos /\ pos' = pos + FrameBytes
  /\ player' = "writing"
  /\ UNCHANGED file

\* Back from WriteSample, with or without an error.
Written == player' = "playing" /\ UNCHANGED <<file, pos, start>>

\* io.EOF: nothing was left to read.
LoopBack == /\ player = "playing" /\ Supported /\ Left = 0
            /\ pos' = 0
            /\ UNCHANGED <<file, start, player>>

\* io.ErrUnexpectedEOF, the file ends inside a frame, is not io.EOF.
StopInsideFrame == /\ player = "playing" /\ Supported /\ 0 < Left /\ Left < FrameBytes
                   /\ pos' = Len(Data) /\ player' = "stopped"
                   /\ UNCHANGED <<file, start>>

UnsupportedDepth == /\ player = "playing" /\ ~Supported
                    /\ player' = "stopped"
                    /\ UNCHANGED <<file, pos, start>>

WavNext == NewWAVReader \/ PlayFrame \/ LoopBack \/ StopInsideFrame \/ UnsupportedDepth

-----------------------------------------------------------------------------
\* The receiver of a frame gets the samples of the file: unsigned bytes v come
\* out as (v - 128) * 256, 16-bit samples unchanged, at every value including
\* the ends of both ranges, although all arithmetic wraps.
Decoded(k) == LET u == Frame[2 * k - 1] + 256 * Frame[2 * k]
              IN  IF u < 32768 THEN u ELSE u - 65536
Expected(k) ==
  IF BitsPerSample = 8 THEN (Data[start + k] - 128) * 256
  ELSE LET u == Data[start + 2 * k - 1] + 256 * Data[start + 2 * k]
       IN  IF u < 32768 THEN u ELSE u - 65536
SamplesSurvive ==
  player = "writing" => \A k \in 1..FrameSamples : Decoded(k) = Expected(k)

\* Frames follow each other without a gap, and start again at the first sample.
NoGap == [][start' # start => start' = 0 \/ start' = start + FrameBytes]_wavVars
=============================================================================
