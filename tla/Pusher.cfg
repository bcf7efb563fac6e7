CONSTANTS
  Channels = {0, 1}
  Buffer <- MCBuffer
  DmaLen <- MCDmaLen
  RegValues <- MCRegs
  MaxEmitted = 2
  Commands <- MCCommands
SPECIFICATION GuestsSpec
INVARIANTS
  TypeOK
  MethodNeverWraps
  StreamIsDecoded
  EndMeansAll
