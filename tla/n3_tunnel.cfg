SPECIFICATION Spec
CONSTANTS
  Gnbs = {g1, g2}
  Upfs = {u1, u2}
  Packets = {p1, p2, p3}
  Conns = {c1, c2, c3}
  NoConn = NoConn
  NoEnd = NoEnd
  AddrOf <- GnbAddr
SYMMETRY Symmetry
CHECK_DEADLOCK FALSE
INVARIANT TypeOK
PROPERTY ImplementsChannel
