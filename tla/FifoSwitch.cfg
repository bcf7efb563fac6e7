SPECIFICATION Spec
CONSTANTS
  Threads = {p1}
  Channels = {0, 1}
  Subchannels = {0}
  Stream <- StreamSwitch
  GuestOps = {"PUSH0", "PUSH1", "PULL0", "ENGINE", "DMA_PUT", "SWITCH", "FIFO"}
  PmcMasks = {}
  MaxFlips = 1
INVARIANTS
  CacheIsServed
  SwitchLoadsChannel
