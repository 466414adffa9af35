SPECIFICATION FairSpec
CONSTANTS
  a = a
  b = b
  Conns <- TwoConns
  NoConn = NoConn
  MaxTcpUser = 2
  StreamTypes = {"vga", "720p"}
  MaxMedia = 2
  Menus <- SmallMenus
INVARIANTS
  TypeOK
  OneSessionPerSlot
  CursorReserved
  
  TalkAccounted
PROPERTIES
  LostClientIsDropped
