SPECIFICATION FairSpec
CONSTANTS
  Bytes = 4
  MaxBlock = 2
  Calls <- MCCalls
  NoCall = NoCall
INVARIANTS
  TypeOK
  SlavesStayReady
  WritesLand
  ReadsReturn
  IrqHasCause
PROPERTIES
  ResetIsEarned
  SilentGuestsReboot
