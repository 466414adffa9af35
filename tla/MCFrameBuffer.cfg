SPECIFICATION FairSpec
CONSTANTS
  BufferSize = 4
  MaxFrm = 3
  MaxIFrm = 2
  IndexMod = 5
  FrameLens = {1, 2}
  Users = {0, 1}
  LocalRecId = 0
  Gop = 5
  MaxPut = 5
INVARIANTS
  TypeOK
  ReadLapBounded
  LapsIntact
  PointerValidForALap
PROPERTIES
  InStepDelivery
  IsStream
  CatchesUp
