SPECIFICATION DisplaySpec
CONSTANTS
  Threads = {p1}
  Channels = {0}
  Subchannels = {0}
  Stream <- StreamBind
  GuestOps = {"PUSH0", "PULL0", "DMA_PUT", "INTR", "PMC", "PCRTC", "INTR_EN"}
  PmcMasks = {{}, {"PCRTC"}, {"PGRAPH"}}
  MaxFlips = 1
PROPERTIES
  WaitIsSignalled
