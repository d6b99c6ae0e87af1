SPECIFICATION FairSpec
CONSTANTS
  UEs = {u1}
  Psis = {p1, p2}
  Signalled = {}
  MaxTeid = 3
  MaxItems = 2
  MaxQueue = 3
  Absent = Absent
  TransportMode = "GTPU"
INVARIANT SessionsAgree
PROPERTY SetupReachesTable
