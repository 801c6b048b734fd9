------------------------------- MODULE MCMedia -------------------------------
(* A local and a remote audio track and, in one of the runs, a remote video    *)
(* track.  WAV files: every byte value once, in an order that mixes high and   *)
(* low, as 8-bit and as 16-bit samples; files that end inside a frame; other   *)
(* depths and headers; and a generated one of two frames.                      *)
EXTENDS GenerateAudio, TLC

CONSTANTS mic, voice, camera

MCKindOf == [t \in Track |-> IF t = camera THEN "video" ELSE "audio"]

EveryByte == [i \in 1..256 |-> (i * 129 + 127) % 256] \o <<>>
Ragged == <<0, 128, 255, 1, 127>>
MCTone == [i \in 1..64 |-> ((i * 6007) % 19663) - 9831] \o <<>>
Wav(header, bits, data) == [header |-> header, bits |-> bits, data |-> data]
MCFiles == <<Wav("pcm", 8, EveryByte), Wav("pcm", 16, EveryByte), Wav("pcm", 8, Ragged),
             Wav("pcm", 16, Ragged), Wav("pcm", 24, Ragged), Wav("coded", 16, Ragged),
             Generated>>
OneFile == <<Wav("pcm", 8, EveryByte)>>
=============================================================================
