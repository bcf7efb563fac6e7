SPECIFICATION HostSpec
CONSTANTS
  Threads = {p1}
  Channels = {0}
  Subchannels = {0}
  Stream <- StreamNone
  GuestOps = {"PULL0", "PUSH0"}
  PmcMasks = {}
  MaxFlips = 1
PROPERTIES
  PullerDies
