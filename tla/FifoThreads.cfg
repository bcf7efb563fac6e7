SPECIFICATION HostSpec
CONSTANTS
  Threads = {p1}
  Channels = {0}
  Subchannels = {0}
  Stream <- StreamWaits
  GuestOps = {"PUSH0", "PULL0", "DMA_PUT", "CTX_CONTROL", "CTX_USER", "FIFO", "INTR", "INCREMENT"}
  PmcMasks = {}
  MaxFlips = 1
INVARIANTS
  TypeOK
  FifoOrder
  WaitsJustified
PROPERTIES
  ImplementsFifo
  MmioCompletes
  CommandsRetire
