---------------------------- MODULE GenerateAudio ----------------------------
(***************************************************************************)
(* cmd/generate-audio writes the WAV file that cmd/audio plays: a header   *)
(* and a sine wave of the same value on both channels.  The values are a   *)
(* parameter here.  What is promised spans three programs: the generator,  *)
(* the reader and the player of WavPlayback.tla, on a track of Media.tla.  *)
(***************************************************************************)
EXTENDS Media

CONSTANT Tone   \* the values of the wave, in order

\* value := int16(amplitude * math.Sin(...)): 0.3 of the range
Values == -9831..9831

ASSUME ToneAssumption == Tone \in Seq(Values)

NumChannels == 2

\* A slip: the value is written for one of the channels only.
Interleaved_Once(wave) ==
  [i \in 1..(2 * Len(wave)) |->
     LET value == wave[1 + ((i - 1) \div 2)]
     IN  IF i % 2 = 1 THEN Uint8(value) ELSE Uint8(value \div 256)]

\* binary.Write in little-endian order: two bytes for each channel.
Interleaved(wave) ==
  [i \in 1..(2 * NumChannels * Len(wave)) |->
     LET value == wave[1 + ((i - 1) \div (2 * NumChannels))]
     IN  IF i % 2 = 1 THEN Uint8(value) ELSE Uint8(value \div 256)]

\* The size in the header is computed in 32 bits, which hold the bits of the data
\* only up to a length; the bytes would fit eight times as long.
Uint32(n) == n % (65536 * 65536)
Subchunk2Size(samples) == Uint32(Uint32(Uint32(samples) * NumChannels) * 16) \div 8

\* AudioFormat 1, BitsPerSample 16.
Generated == [header |-> "pcm", bits |-> 16, data |-> Interleaved(Tone)]

\* What the track gets of a generated file is the wave: the value of each moment on
\* both channels, at every place of the file and on every round.
Moment(k) == Tone[1 + ((start + 2 * (k - 1)) \div 4)]
ToneArrives ==
  player = "writing" /\ Files[file] = Generated =>
    \A k \in 1..FrameSamples : Decoded(k) = Moment(k)
=============================================================================
