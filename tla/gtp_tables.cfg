SPECIFICATION Spec
CONSTANTS
  UEs = {u1}
  Psis = {p1, p2}
  Signalled = {8}
  MaxTeid = 3
  MaxItems = 1
  MaxQueue = 2
  Absent = Absent
  TransportMode = "QUIC"
SYMMETRY Symmetry
INVARIANTS TypeOK PacketsStayInSession TreeFindsSessions UplinkLimits
