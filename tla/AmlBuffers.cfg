CONSTANTS
  Npeer = 3
  Nsend = 2
  Aggr = 4
  Hdr = 1
  MaxLen = 2
SPECIFICATION Spec
INVARIANTS TypeOK WritesNoPacket
