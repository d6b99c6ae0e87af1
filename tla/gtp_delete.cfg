SPECIFICATION Spec
CONSTANTS
  UEs = {u1}
  Psis = {p1}
  Signalled = {8}
  MaxTeid = 1
  MaxItems = 1
  MaxQueue = 2
  Absent = Absent
  TransportMode = "QUIC"
INVARIANT DeletedUeHasNoSessions
