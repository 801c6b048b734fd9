SPECIFICATION MediaSpec
CONSTANTS
  mic = mic
  voice = voice
  camera = camera
  Track = {mic, voice}
  KindOf <- MCKindOf
  Remote = {voice}
  PlayedOn = mic
  MaxPackets = 1
  Files <- MCFiles
  FrameSamples = 64
  Tone <- MCTone
INVARIANTS
  NoneLeaked
  FiledIsOpen
  HandlerFindsTrack
  SamplesSurvive
  ToneArrives
PROPERTIES
  CloseReturns
  CloseStopsReaders
  LoopsForever
CHECK_DEADLOCK FALSE
