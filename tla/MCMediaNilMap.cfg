SPECIFICATION MediaSpec
CONSTANTS
  mic = mic
  voice = voice
  camera = camera
  Track = {mic, voice, camera}
  KindOf <- MCKindOf
  Remote = {voice, camera}
  PlayedOn = mic
  MaxPackets = 1
  Files <- OneFile
  FrameSamples = 128
  Tone <- MCTone
INVARIANT
  AddAfterCloseIsAnError
CHECK_DEADLOCK FALSE
