SPECIFICATION Spec
CONSTANTS
  Conns = {c1, c2, c3}
  NoConn = NoConn
  MaxPackets = 4
  Blocks = {b1, b2}
  Heap = Heap
  NoBlock = NoBlock
SYMMETRY Symmetry
INVARIANTS TypeOK ContextOwnership PoolIntegrity NoStrandedPending SendOrder
  SingleConnection TicketStable QuitQuiet ClosedSendOnlyInWindow
  ConnectingHasConnection QuitFreesContexts
