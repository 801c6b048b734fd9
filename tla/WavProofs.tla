------------------------------- MODULE WavProofs -------------------------------
(***************************************************************************)
(* Theorems about the player, for every file and every frame size: what    *)
(* the track gets is what the file holds, and what the generator wrote.    *)
(***************************************************************************)
EXTENDS GenerateAudio, TLAPS

Byte == 0..255

FileInv == file \in DOMAIN Files

\* The reader stays inside the file, and the frame that is being written is whole.
PlaceInv ==
  /\ pos \in 0..Len(Data) /\ start \in 0..Len(Data)
  /\ player \in {"opening", "playing", "writing", "stopped"}
  /\ player = "writing" => Supported /\ start + FrameBytes <= Len(Data)
  /\ player # "stopped" => pos = 0 \/ pos = start + FrameBytes

\* 16-bit samples are read at even offsets, as long as anything is read.
EvenInv == BitsPerSample = 16 /\ player # "stopped" => pos % 2 = 0 /\ start % 2 = 0

\* WriteSample is called by the player, which waits for it.
WriterInv ==
  /\ writer \in [Track -> {"idle", "writing"}]
  /\ writer[PlayedOn] = "writing" => player = "writing"

WavInv == FileInv /\ PlaceInv /\ EvenInv

\* A file's bytes are bytes.
LEMMA FileTypes ==
  ASSUME FileInv
  PROVE  /\ Data \in Seq(Byte) /\ Len(Data) \in Nat /\ BitsPerSample \in {8, 16, 24, 32}
         /\ FrameSamples \in Nat \ {0}
<1>1. Files[file] \in Range(Files)
  BY DEF FileInv, Range
<1>2. Files[file] \in [header : {"pcm", "coded", "other", "short"},
                       bits : {8, 16, 24, 32}, data : Seq(0..255)]
  BY <1>1, WavAssumption
<1>3. Data \in Seq(Byte)
  BY <1>2 DEF Data, Byte
<1>4. BitsPerSample \in {8, 16, 24, 32}
  BY <1>2 DEF BitsPerSample
<1> QED BY <1>3, <1>4, WavAssumption

\* The bytes of a frame of a file that is played.
LEMMA FrameSize ==
  ASSUME FileInv, Supported
  PROVE  \/ BitsPerSample = 8 /\ Width = 1 /\ FrameBytes = FrameSamples
         \/ BitsPerSample = 16 /\ Width = 2 /\ FrameBytes = 2 * FrameSamples
<1>1. CASE BitsPerSample = 8
  <2>1. Width = 1
    BY <1>1 DEF Width
  <2> QED BY <1>1, <2>1, FileTypes DEF FrameBytes
<1>2. CASE BitsPerSample = 16
  <2>1. Width = 2
    BY <1>2 DEF Width
  <2> QED BY <1>2, <2>1, FileTypes DEF FrameBytes
<1> QED BY <1>1, <1>2 DEF Supported

LEMMA WavInitInv == MediaInit => WavInv
<1> SUFFICES ASSUME WavInit PROVE WavInv
  BY DEF MediaInit
<1>1. FileInv /\ pos = 0 /\ start = 0 /\ player = "opening"
  BY DEF WavInit, FileInv
<1>2. Len(Data) \in Nat
  BY <1>1, FileTypes
<1> QED BY <1>1, <1>2 DEF WavInv, PlaceInv, EvenInv

\* The file stays the same, and so does what it holds.
LEMMA SameFile ==
  ASSUME file' = file
  PROVE  /\ Data' = Data /\ BitsPerSample' = BitsPerSample /\ (FileInv => FileInv')
         /\ (Supported => Supported') /\ Width' = Width /\ FrameBytes' = FrameBytes
BY DEF Data, BitsPerSample, FileInv, Supported, Width, FrameBytes

LEMMA PlayFrameInv ==
  ASSUME WavInv, PlayFrame
  PROVE  WavInv'
<1>1. /\ player = "playing" /\ Supported /\ Left >= FrameBytes /\ start' = pos
      /\ pos' = pos + FrameBytes /\ player' = "writing" /\ file' = file
  BY DEF PlayFrame
<1>2. /\ Len(Data) \in Nat /\ FrameSamples \in Nat \ {0}
      /\ pos \in 0..Len(Data) /\ Left = Len(Data) - pos
  BY FileTypes DEF WavInv, PlaceInv, Left
<1>3. \/ BitsPerSample = 8 /\ FrameBytes = FrameSamples
      \/ BitsPerSample = 16 /\ FrameBytes = 2 * FrameSamples
  BY <1>1, FrameSize DEF WavInv
<1>4. FrameBytes \in Nat
  BY <1>2, <1>3
<1>5. pos' \in 0..Len(Data) /\ start' \in 0..Len(Data) /\ start' + FrameBytes <= Len(Data)
  BY <1>1, <1>2, <1>4
<1>6. PlaceInv'
  BY <1>1, <1>5, SameFile DEF PlaceInv
<1>7. EvenInv'
  <2> SUFFICES ASSUME BitsPerSample = 16 PROVE pos' % 2 = 0 /\ start' % 2 = 0
    BY <1>1, SameFile DEF EvenInv
  <2>1. pos % 2 = 0 /\ FrameBytes = 2 * FrameSamples
    BY <1>1, <1>3 DEF WavInv, EvenInv
  <2>2. (pos + 2 * FrameSamples) % 2 = 0
    BY <2>1, <1>2
  <2> QED BY <1>1, <2>1, <2>2
<1> QED BY <1>1, <1>6, <1>7, SameFile DEF WavInv

LEMMA WavNextInv ==
  ASSUME WavInv, WavNext
  PROVE  WavInv'
<1>1. CASE NewWAVReader
  <2>1. UNCHANGED <<file, pos, start>> /\ player' \in {"playing", "stopped"} /\ player = "opening"
    BY <1>1 DEF NewWAVReader
  <2> QED BY <2>1, SameFile DEF WavInv, PlaceInv, EvenInv
<1>2. CASE PlayFrame
  BY <1>2, PlayFrameInv
<1>3. CASE LoopBack
  <2>1. UNCHANGED <<file, start, player>> /\ pos' = 0 /\ player = "playing"
    BY <1>3 DEF LoopBack
  <2>2. Len(Data) \in Nat
    BY FileTypes DEF WavInv
  <2> QED BY <2>1, <2>2, SameFile DEF WavInv, PlaceInv, EvenInv
<1>4. CASE StopInsideFrame
  <2>1. UNCHANGED <<file, start>> /\ pos' = Len(Data) /\ player' = "stopped"
    BY <1>4 DEF StopInsideFrame
  <2>2. Len(Data) \in Nat
    BY FileTypes DEF WavInv
  <2> QED BY <2>1, <2>2, SameFile DEF WavInv, PlaceInv, EvenInv
<1>5. CASE UnsupportedDepth
  <2>1. UNCHANGED <<file, pos, start>> /\ player' = "stopped"
    BY <1>5 DEF UnsupportedDepth
  <2> QED BY <2>1, SameFile DEF WavInv, PlaceInv, EvenInv
<1> QED BY <1>1, <1>2, <1>3, <1>4, <1>5 DEF WavNext

LEMMA WriterStepInv ==
  ASSUME WriterInv, [MediaNext]_mediaVars
  PROVE  WriterInv'
<1>p. PlayedOn \in Track
  BY PlayedOnAssumption DEF Local
<1>1. CASE WriteCounts(PlayedOn) /\ UNCHANGED wavVars /\ player = "writing"
  BY <1>1 DEF WriteCounts, WriterInv, wavVars
<1>2. CASE FrameWritten
  BY <1>p, <1>2 DEF FrameWritten, WriteReturns, WriterInv
<1>3. CASE UNCHANGED writer /\ (UNCHANGED player \/ player # "writing" \/ writer[PlayedOn] = "idle")
  BY <1>3 DEF WriterInv
<1>4. CASE Plays
  <2>1. UNCHANGED writer /\ player # "writing"
    BY <1>4 DEF Plays, vars, writeVars, WavNext, NewWAVReader, PlayFrame, LoopBack,
                StopInsideFrame, UnsupportedDepth
  <2> QED BY <1>3, <2>1
<1>5. CASE WriteFrame
  <2>1. CASE Written /\ writer[PlayedOn] = "idle" /\ UNCHANGED vars
    BY <1>3, <2>1 DEF vars, writeVars
  <2> QED BY <1>1, <1>5, <2>1 DEF WriteFrame
<1>6. CASE UNCHANGED <<writeVars, wavVars>>
  BY <1>3, <1>6 DEF writeVars, wavVars
<1>7. ASSUME Close \/ ClosesOn \/ \E t \in Track : Applies(t) \/ Reads(t) PROVE UNCHANGED writeVars
  <2>1. CASE Close \/ ClosesOn
    BY <2>1 DEF Close, ClosesOn, ClosePC, LockMap, CloseTrack, DropMap, Unlock
  <2>2. ASSUME NEW t \in Track, Applies(t) PROVE UNCHANGED writeVars
    BY <2>2 DEF Applies, Wrap, WrapFails, File, LooksUp, OnSample, Remove, CloseRemoved
  <2>3. ASSUME NEW t \in Track, Reads(t) PROVE UNCHANGED writeVars
    BY <2>3 DEF Reads, ReadStarts, ReadSample, SampleDone, ReadEnds, ReadFails, readFrame
  <2> QED BY <1>7, <2>1, <2>2, <2>3
<1> QED BY <1>2, <1>4, <1>5, <1>6, <1>7 DEF MediaNext, mediaVars, vars

LEMMA WavInvariance == MediaSpec => [](WavInv /\ WriterInv)
<1>1. MediaInit => WriterInv
  BY PlayedOnAssumption DEF MediaInit, Init, WriterInv, Local
<1>2. WavInv /\ WriterInv /\ [MediaNext]_mediaVars => WavInv'
  <2> SUFFICES ASSUME WavInv, WriterInv, [MediaNext]_mediaVars PROVE WavInv'
    OBVIOUS
  <2>1. CASE UNCHANGED wavVars
    <3>1. UNCHANGED <<file, pos, start, player>>
      BY <2>1 DEF wavVars
    <3> QED BY <3>1, SameFile DEF WavInv, PlaceInv, EvenInv
  <2>2. CASE WavNext
    BY <2>2, WavNextInv
  <2>3. CASE player = "writing" /\ Written
    <3>1. UNCHANGED <<file, pos, start>> /\ player' = "playing" /\ player # "stopped"
      BY <2>3 DEF Written
    <3> QED BY <3>1, SameFile DEF WavInv, PlaceInv, EvenInv
  <2>4. CASE FrameWritten
    <3>1. player = "writing" /\ Written
      BY <2>4 DEF FrameWritten, WriteReturns, WriterInv
    <3> QED BY <2>3, <3>1
  <2> QED BY <2>1, <2>2, <2>3, <2>4 DEF MediaNext, mediaVars, Plays, WriteFrame
<1> QED BY <1>1, <1>2, WavInitInv, WriterStepInv, PTL DEF MediaSpec

\* The player's variables keep their types: the reader never leaves the file.
THEOREM PlayerTypeCorrect == MediaSpec => []WavTypeOK
<1>1. WavInv => WavTypeOK BY DEF WavInv, FileInv, PlaceInv, WavTypeOK
<1> QED BY <1>1, WavInvariance, PTL

\* Frame follows upon frame, in every file.
THEOREM NoFrameSkipped == MediaSpec => NoGap
<1>1. WavInv /\ [MediaNext]_mediaVars => [start' # start => start' = 0 \/ start' = start + FrameBytes]_wavVars
  <2> SUFFICES ASSUME WavInv, [MediaNext]_mediaVars, start' # start
               PROVE  start' = 0 \/ start' = start + FrameBytes
    OBVIOUS
  <2>1. CASE PlayFrame
    BY <2>1 DEF PlayFrame, WavInv, PlaceInv
  <2>2. CASE UNCHANGED start
    BY <2>2
  <2> QED BY <2>1, <2>2 DEF MediaNext, mediaVars, wavVars, Plays, WavNext, WriteFrame, FrameWritten,
             Written, NewWAVReader, LoopBack, StopInsideFrame, UnsupportedDepth
<1> QED BY <1>1, WavInvariance, PTL DEF NoGap, MediaSpec

-----------------------------------------------------------------------------
\* Two bytes stand for a 16-bit sample, whatever the sign.
Int16s == -32768..32767
Signed(u) == IF u < 32768 THEN u ELSE u - 65536

LEMMA BytesBack ==
  ASSUME NEW s \in Int, -32768 <= s, s <= 32767
  PROVE  Signed(Uint8(s) + 256 * Uint8(s \div 256)) = s
<1> DEFINE q == s \div 256
           r == s % 256
<1>1. q \in Int /\ r \in Int /\ s = 256 * q + r /\ 0 <= r /\ r < 256
  OBVIOUS
<1> HIDE DEF q, r
<1>2. -128 <= q /\ q <= 127
  BY <1>1
<1>3. CASE q >= 0
  <2>1. q % 256 = q
    BY <1>1, <1>2, <1>3
  <2>2. Signed(r + 256 * q) = s
    BY <1>1, <1>2, <1>3 DEF Signed
  <2> QED BY <2>1, <2>2 DEF Uint8, q, r
<1>4. CASE q < 0
  <2>1. q % 256 = q + 256
    BY <1>1, <1>2, <1>4
  <2>2. Signed(r + 256 * (q + 256)) = s
    BY <1>1, <1>2, <1>4 DEF Signed
  <2> QED BY <2>1, <2>2 DEF Uint8, q, r
<1> QED BY <1>1, <1>3, <1>4

LEMMA ReadBack ==
  ASSUME NEW lo \in Int, NEW hi \in Int, 0 <= lo, lo < 256, 0 <= hi, hi < 256
  PROVE  /\ LittleEndian(lo, hi) = Signed(lo + 256 * hi) /\ LittleEndian(lo, hi) \in Int
         /\ -32768 <= LittleEndian(lo, hi) /\ LittleEndian(lo, hi) <= 32767
<1> DEFINE u == lo + 256 * hi
<1>1. u \in Int /\ 0 <= u /\ u < 65536
  OBVIOUS
<1> HIDE DEF u
<1>2. ((u + 32768) % 65536) - 32768 = Signed(u)
  BY <1>1 DEF Signed
<1>3. Signed(u) \in Int /\ -32768 <= Signed(u) /\ Signed(u) <= 32767
  BY <1>1 DEF Signed
<1> QED BY <1>2, <1>3 DEF LittleEndian, Int16, u

LEMMA Widened ==
  ASSUME NEW v \in Int, 0 <= v, v < 256
  PROVE  Int16(Int16(Uint8(v - 128)) * 256) = (v - 128) * 256
<1>1. CASE v >= 128
  <2>1. Uint8(v - 128) = v - 128
    BY <1>1 DEF Uint8
  <2>2. Int16(v - 128) = v - 128
    BY <1>1 DEF Int16
  <2>3. (((v - 128) * 256) + 32768) % 65536 = ((v - 128) * 256) + 32768
    BY <1>1
  <2> QED BY <2>1, <2>2, <2>3 DEF Int16
<1>2. CASE v < 128
  <2>1. Uint8(v - 128) = v + 128
    BY <1>2 DEF Uint8
  <2>2. Int16(v + 128) = v + 128
    BY <1>2 DEF Int16
  <2>3. (((v + 128) * 256) + 32768) % 65536 = v * 256
    BY <1>2
  <2> QED BY <2>1, <2>2, <2>3 DEF Int16
<1> QED BY <1>1, <1>2

-----------------------------------------------------------------------------
\* What the k-th sample of the frame decodes to.
LEMMA DecodedSample ==
  ASSUME WavInv, player = "writing", NEW k \in 1..FrameSamples,
         NEW s \in Int, -32768 <= s, s <= 32767, Sample(start + 1 + Width * (k - 1)) = s
  PROVE  Decoded(k) = s
<1>1. FrameSamples \in Nat \ {0} /\ k \in Int /\ 1 <= k /\ k <= FrameSamples
  BY FileTypes DEF WavInv
<1>2. /\ 2 * k - 1 \in 1..(2 * FrameSamples) /\ 2 * k \in 1..(2 * FrameSamples)
      /\ ((2 * k - 1) - 1) \div 2 = k - 1 /\ ((2 * k) - 1) \div 2 = k - 1
      /\ ((2 * k - 1) - 1) % 2 = 0 /\ ((2 * k) - 1) % 2 = 1
  BY <1>1
<1>3. Frame[2 * k - 1] = Bytes(s)[1] /\ Frame[2 * k] = Bytes(s)[2]
  BY <1>2 DEF Frame
<1>4. Bytes(s)[1] = Uint8(s) /\ Bytes(s)[2] = Uint8(s \div 256)
  BY DEF Bytes
<1>5. Decoded(k) = Signed(Frame[2 * k - 1] + 256 * Frame[2 * k])
  BY DEF Decoded, Signed
<1> QED BY <1>3, <1>4, <1>5, BytesBack

LEMMA ElementOf ==
  ASSUME NEW S, NEW s \in Seq(S), NEW i \in 1..Len(s)
  PROVE  s[i] \in S
OBVIOUS

\* The bytes of the k-th sample are in the file.
Read(i) == i \in 1..Len(Data) /\ Data[i] \in Int /\ 0 <= Data[i] /\ Data[i] < 256

LEMMA ReadByte ==
  ASSUME FileInv, NEW i \in Int, 1 <= i, i <= Len(Data)
  PROVE  Read(i)
<1>1. Data \in Seq(Byte) /\ Len(Data) \in Nat
  BY FileTypes
<1>2. i \in 1..Len(Data)
  BY <1>1
<1>3. Data[i] \in Byte
  BY <1>1, <1>2, ElementOf
<1> DEFINE b == Data[i]
<1>4. b \in Int /\ 0 <= b /\ b < 256
  <2> HIDE DEF b
  <2>1. b \in Byte
    BY <1>3 DEF b
  <2> QED BY <2>1 DEF Byte
<1> QED BY <1>2, <1>4 DEF Read

LEMMA InFile ==
  ASSUME WavInv, player = "writing", NEW k \in 1..FrameSamples
  PROVE  /\ start \in Nat /\ k \in Nat
         /\ \/ BitsPerSample = 8 /\ Width = 1 /\ Read(start + k)
            \/ /\ BitsPerSample = 16 /\ Width = 2 /\ start % 2 = 0
               /\ Read(start + 2 * k - 1) /\ Read(start + 2 * k)
<1>1. /\ FrameSamples \in Nat \ {0} /\ k \in Nat /\ 1 <= k /\ k <= FrameSamples
      /\ Len(Data) \in Nat /\ FileInv
  BY FileTypes DEF WavInv
<1>2. start \in Nat /\ start + FrameBytes <= Len(Data) /\ Supported
  BY <1>1 DEF WavInv, PlaceInv
<1>3. CASE BitsPerSample = 8 /\ Width = 1 /\ FrameBytes = FrameSamples
  <2>1. start + k \in Int /\ 1 <= start + k /\ start + k <= Len(Data)
    BY <1>1, <1>2, <1>3
  <2>2. Read(start + k)
    BY <1>1, <2>1, ReadByte
  <2> QED BY <1>1, <1>2, <1>3, <2>2
<1>4. CASE BitsPerSample = 16 /\ Width = 2 /\ FrameBytes = 2 * FrameSamples
  <2>1. /\ start + 2 * k - 1 \in Int /\ 1 <= start + 2 * k - 1 /\ start + 2 * k - 1 <= Len(Data)
        /\ start + 2 * k \in Int /\ 1 <= start + 2 * k /\ start + 2 * k <= Len(Data)
    BY <1>1, <1>2, <1>4
  <2>2. Read(start + 2 * k - 1) /\ Read(start + 2 * k)
    BY <1>1, <2>1, ReadByte
  <2>3. start % 2 = 0
    BY <1>4 DEF WavInv, EvenInv
  <2> QED BY <1>1, <1>2, <1>4, <2>2, <2>3
<1> QED BY <1>2, <1>3, <1>4, FrameSize DEF WavInv

LEMMA FrameSurvives ==
  ASSUME WavInv, player = "writing", NEW k \in 1..FrameSamples
  PROVE  Decoded(k) = Expected(k)
<1>1. CASE BitsPerSample = 8
  <2>1. /\ start \in Nat /\ k \in Nat /\ Width = 1
        /\ Data[start + k] \in Int /\ 0 <= Data[start + k] /\ Data[start + k] < 256
    BY <1>1, InFile DEF Read
  <2>2. start + 1 + Width * (k - 1) = start + k
    BY <2>1
  <2>3. Sample(start + k) = Int16(Int16(Uint8(Data[start + k] - 128)) * 256)
    BY <1>1 DEF Sample
  <2> DEFINE s == (Data[start + k] - 128) * 256
  <2>4. Sample(start + 1 + Width * (k - 1)) = s
    BY <2>1, <2>2, <2>3, Widened
  <2>5. s \in Int /\ -32768 <= s /\ s <= 32767
    BY <2>1
  <2>6. Expected(k) = s
    BY <1>1 DEF Expected
  <2> HIDE DEF s
  <2> QED BY <2>4, <2>5, <2>6, DecodedSample
<1>2. CASE BitsPerSample = 16
  <2> DEFINE lo == Data[start + 2 * k - 1]
             hi == Data[start + 2 * k]
             s == LittleEndian(lo, hi)
  <2>1. /\ start \in Nat /\ k \in Nat /\ Width = 2
        /\ lo \in Int /\ 0 <= lo /\ lo < 256 /\ hi \in Int /\ 0 <= hi /\ hi < 256
    BY <1>2, InFile DEF Read
  <2>2. /\ start + 1 + Width * (k - 1) = start + 2 * k - 1
        /\ (start + 2 * k - 1) + 1 = start + 2 * k
    BY <2>1
  <2>3. Sample(start + 1 + Width * (k - 1)) = s
    BY <1>2, <2>2 DEF Sample
  <2>4. Expected(k) = Signed(lo + 256 * hi)
    BY <1>2 DEF Expected, Signed
  <2> HIDE DEF lo, hi
  <2>5. s = Signed(lo + 256 * hi) /\ s \in Int /\ -32768 <= s /\ s <= 32767
    BY <2>1, ReadBack
  <2> HIDE DEF s
  <2> QED BY <2>3, <2>4, <2>5, DecodedSample
<1>3. BitsPerSample \in {8, 16}
  BY InFile
<1> QED BY <1>1, <1>2, <1>3

\* No sample of any 8-bit or 16-bit file is changed on its way to the track.
THEOREM FilesSurvive == MediaSpec => []SamplesSurvive
<1>1. WavInv => SamplesSurvive
  BY FrameSurvives DEF SamplesSurvive
<1> QED BY <1>1, WavInvariance, PTL

\* What the generator wrote for one of the two channels of a moment.
LEMMA ChannelOfTone ==
  ASSUME NEW n \in Nat, n % 2 = 0, n + 1 < 2 * NumChannels * Len(Tone)
  PROVE  Signed(Interleaved(Tone)[n + 1] + 256 * Interleaved(Tone)[n + 2])
           = Tone[1 + (n \div 4)]
<1>1. Tone \in Seq(Values) /\ Len(Tone) \in Nat
  BY ToneAssumption
<1>2. 2 * NumChannels * Len(Tone) = 4 * Len(Tone) /\ 2 * NumChannels = 4
  BY <1>1 DEF NumChannels
<1>3. /\ n + 1 \in 1..(4 * Len(Tone)) /\ n + 2 \in 1..(4 * Len(Tone))
      /\ (n + 1) % 2 = 1 /\ (n + 2) % 2 = 0
  <2>1. n + 1 < 4 * Len(Tone)
    BY <1>2
  <2>2. n + 2 <= 4 * Len(Tone)
    BY <1>1, <2>1
  <2>3. n + 1 \in 1..(4 * Len(Tone)) /\ n + 2 \in 1..(4 * Len(Tone))
    BY <1>1, <2>1, <2>2
  <2>4. (n + 1) % 2 = 1 /\ (n + 2) % 2 = 0
    OBVIOUS
  <2> QED BY <2>3, <2>4
<1> DEFINE i == 1 + (n \div 4)
           v == Tone[i]
<1>4. i \in 1..Len(Tone)
  <2>1. n < 4 * Len(Tone)
    BY <1>1, <1>3
  <2>2. n \div 4 \in Int /\ 0 <= n \div 4 /\ n \div 4 < Len(Tone)
    BY <1>1, <2>1
  <2> QED BY <1>1, <2>2
<1>9. ((n + 1) - 1) \div 4 = n \div 4 /\ ((n + 2) - 1) \div 4 = n \div 4
  <2>1. (n + 1) \div 4 = n \div 4
    OBVIOUS
  <2>2. (n + 1) - 1 = n /\ (n + 2) - 1 = n + 1
    OBVIOUS
  <2> QED BY <2>1, <2>2
<1>5. v \in Values
  <2> HIDE DEF i
  <2> QED BY <1>1, <1>4, ElementOf
<1>6. v \in Int /\ -32768 <= v /\ v <= 32767
  <2> HIDE DEF v
  <2> QED BY <1>5 DEF Values
<1>7. Interleaved(Tone)[n + 1] = Uint8(v) /\ Interleaved(Tone)[n + 2] = Uint8(v \div 256)
  BY <1>2, <1>3, <1>9 DEF Interleaved
<1> HIDE DEF v
<1>8. Signed(Uint8(v) + 256 * Uint8(v \div 256)) = v
  BY <1>6, BytesBack
<1> QED BY <1>7, <1>8 DEF v

\* A generated tone of any length arrives as it was computed.
THEOREM TonesArrive == MediaSpec => []ToneArrives
<1>1. WavInv => ToneArrives
  <2> SUFFICES ASSUME WavInv, player = "writing", Files[file] = Generated,
                      NEW k \in 1..FrameSamples
               PROVE  Decoded(k) = Moment(k)
    BY DEF ToneArrives
  <2>1. BitsPerSample = 16 /\ Data = Interleaved(Tone)
    BY DEF Generated, BitsPerSample, Data
  <2>2. /\ start \in Nat /\ k \in Nat /\ start % 2 = 0
        /\ start + 2 * k - 1 \in 1..Len(Data) /\ start + 2 * k \in 1..Len(Data)
    BY <2>1, InFile DEF Read
  <2>3. Len(Data) = 2 * NumChannels * Len(Tone)
    <3>1. Len(Tone) \in Nat
      BY ToneAssumption
    <3>2. DOMAIN Data = 1..(2 * NumChannels * Len(Tone)) /\ 2 * NumChannels * Len(Tone) \in Nat
      BY <2>1, <3>1 DEF Interleaved, NumChannels
    <3>3. Data \in Seq(Byte)
      BY FileTypes DEF WavInv
    <3> QED BY <3>2, <3>3
  <2> DEFINE n == start + 2 * (k - 1)
  <2>4. /\ n \in Nat /\ n % 2 = 0 /\ n + 1 = start + 2 * k - 1 /\ n + 2 = start + 2 * k
        /\ n + 1 < 2 * NumChannels * Len(Tone)
    <3>1. n \in Nat /\ n + 1 = start + 2 * k - 1 /\ n + 2 = start + 2 * k /\ n + 2 <= Len(Data)
      BY <2>2
    <3>2. n % 2 = 0
      BY <2>2
    <3>3. Len(Data) \in Nat
      BY FileTypes DEF WavInv
    <3> QED BY <2>3, <3>1, <3>2, <3>3
  <2>5. Signed(Data[n + 1] + 256 * Data[n + 2]) = Tone[1 + (n \div 4)]
    <3> HIDE DEF n
    <3> QED BY <2>1, <2>4, ChannelOfTone
  <2>6. Expected(k) = Signed(Data[start + 2 * k - 1] + 256 * Data[start + 2 * k])
    BY <2>1 DEF Expected, Signed
  <2>7. Expected(k) = Moment(k)
    BY <2>4, <2>5, <2>6 DEF Moment
  <2> QED BY <2>7, FrameSurvives
<1> QED BY <1>1, WavInvariance, PTL

-----------------------------------------------------------------------------
(***************************************************************************)
(* The header of a generated file.                                         *)
(***************************************************************************)
LEMMA InterleavedLength ==
  ASSUME NEW wave \in Seq(Values)
  PROVE  Len(wave) \in Nat /\ Len(Interleaved(wave)) = 4 * Len(wave)
<1>1. DOMAIN Interleaved(wave) = 1..(4 * Len(wave)) /\ Len(wave) \in Nat
  BY DEF Interleaved, NumChannels
<1>2. ASSUME NEW n \in Nat, NEW s \in [1..n -> Byte] PROVE s \in Seq(Byte) /\ Len(s) = n
  OBVIOUS
<1>3. \A i \in 1..(4 * Len(wave)) : Interleaved(wave)[i] \in Byte
  <2> TAKE i \in 1..(4 * Len(wave))
  <2> DEFINE value == wave[1 + ((i - 1) \div 4)]
  <2>1. 1 + ((i - 1) \div 4) \in 1..Len(wave)
    BY <1>1
  <2>2. value \in Int
    <3>1. \A j \in 1..Len(wave) : wave[j] \in Values
      OBVIOUS
    <3>2. Values \subseteq Int
      BY DEF Values
    <3> QED BY <2>1, <3>1, <3>2
  <2>3. Interleaved(wave)[i] = IF i % 2 = 1 THEN Uint8(value) ELSE Uint8(value \div 256)
    BY <1>1 DEF Interleaved, NumChannels
  <2> HIDE DEF value
  <2> QED BY <2>2, <2>3 DEF Uint8, Byte
<1>4. Interleaved(wave) \in [1..(4 * Len(wave)) -> Byte]
  BY <1>1, <1>3 DEF Interleaved, NumChannels
<1> QED BY <1>1, <1>2, <1>4

\* 32 bits hold the bits of less than 2^27 samples of two channels.
MaxSamples == 65536 * 2048

LEMMA SizeIsRight ==
  ASSUME NEW n \in Nat
  PROVE  Subchunk2Size(n) = 4 * n <=> n < MaxSamples
<1>1. CASE n < MaxSamples
  BY <1>1, SMT DEF MaxSamples, Subchunk2Size, Uint32, NumChannels
<1>2. CASE n >= MaxSamples
  <2>1. \A k \in Nat : Uint32(k) < 65536 * 65536
    BY SMT DEF Uint32
  <2>2. \A k \in Nat : Uint32(k) \in Nat
    BY SMT DEF Uint32
  <2>3. Uint32(Uint32(n) * NumChannels) \in Nat
    BY <2>2, SMT DEF NumChannels
  <2>4. PICK k \in Nat : k = Uint32(Uint32(n) * NumChannels) * 16
    BY <2>3, SMT
  <2>5. PICK size \in Nat : size = Uint32(k) /\ size < 65536 * 65536
    BY <2>1, <2>2, SMT
  <2>6. Subchunk2Size(n) = size \div 8
    BY <2>4, <2>5, SMT DEF Subchunk2Size
  <2> QED BY <1>2, <2>5, <2>6, SMT DEF MaxSamples
<1> QED BY <1>1, <1>2, SMT DEF MaxSamples

\* The header of a generated file states the size of its data exactly when the wave
\* has less than 2^27 samples, whatever the samples are: the product of main wraps
\* beyond, also where the size itself would fit.
THEOREM HeaderStatesSize ==
  \A wave \in Seq(Values) :
    Subchunk2Size(Len(wave)) = Len(Interleaved(wave)) <=> Len(wave) < MaxSamples
<1> TAKE wave \in Seq(Values)
<1>1. PICK n \in Nat : n = Len(wave) /\ Len(Interleaved(wave)) = 4 * n
  BY InterleavedLength
<1> QED BY <1>1, SizeIsRight
=============================================================================
