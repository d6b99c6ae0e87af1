SPECIFICATION Spec
CONSTANTS
  Conns = {c1, c2}
  NoConn = NoConn
  Addrs = {gnb1, gnb2}
  Workers = {w1, w2}
  Nodes = {n1, n2}
  NoNode = NoNode
  SendCtxs = {s1}
  NoCtx = NoCtx
  MaxAccepts = 3
SYMMETRY Symmetry
INVARIANT NodeMatchesConnection
