SPECIFICATION Spec
CONSTANTS
  Modes = {"GTPU", "QUIC"}
  Sessions = {s1, s2}
  NoSess = NoSess
  Addrs = {a1, a2}
  NoAddr = NoAddr
  Gnbs = {g1, g2}
  Smf = Smf
  NoIp = NoIp
  PoolSize = 9
  MaxBuf = 2
  MaxPkts = 2
  MaxCreates = 3
SYMMETRY Symmetry
CHECK_DEADLOCK FALSE
INVARIANTS
  TypeOK
  TeidTableMatchesRules
  PdrOwnership
  RulesHaveFar
  SessionFoundByAddress
  RoutedToOwnTunnel
  BufferedInOrder
  GtpuPagesOnce
