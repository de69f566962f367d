CONSTANTS
  Objects = {x, y, z}
  NoChannel = NoChannel
  MaxIds = 2
  Contents <- OneOrTwo
  MaxPackets = 2
SPECIFICATION FairSpec
INVARIANTS SignalPerPacket CalleeLives HandledInOrder
PROPERTIES StoredIsTaken ExitEnds
