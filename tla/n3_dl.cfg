SPECIFICATION Spec
CONSTANTS
  Modes = {"QUIC"}
  Sessions = {s1}
  NoSess = NoSess
  Addrs = {a1}
  NoAddr = NoAddr
  Gnbs = {g1, g2}
  Smf = Smf
  NoIp = NoIp
  PoolSize = 6
  MaxBuf = 2
  MaxPkts = 2
  MaxCreates = 1
SYMMETRY Symmetry
CHECK_DEADLOCK FALSE
INVARIANT IdleUePagedOnce
