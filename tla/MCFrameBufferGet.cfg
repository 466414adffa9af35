SPECIFICATION Spec
CONSTANTS
  BufferSize = 5
  MaxFrm = 4
  MaxIFrm = 2
  IndexMod = 6
  FrameLens = {1, 2}
  Users = {0, 1}
  LocalRecId = 0
  Gop = 2
  MaxPut = 8
PROPERTY
  GetReturnsItsFrame
