SPECIFICATION FairSpec
CONSTANTS
  Conns = {c1, c2}
  NoConn = NoConn
  Addrs = {gnb1}
  Workers = {w1, w2}
  Nodes = {n1}
  NoNode = NoNode
  SendCtxs = {s1}
  NoCtx = NoCtx
  MaxAccepts = 3
PROPERTIES NullNodeOnlyAtCapacity QuietStopCompletes
