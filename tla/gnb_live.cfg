SPECIFICATION FairSpec
CONSTANTS
  Conns = {c1, c2, c3}
  NoConn = NoConn
  MaxPackets = 3
  Blocks = {b1}
  Heap = Heap
  NoBlock = NoBlock
PROPERTIES PendingResolved QuitCompletes
