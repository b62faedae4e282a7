SPECIFICATION FairSpec
CONSTANTS
  c1 = c1
  c2 = c2
  c3 = c3
  Conns = {c1, c2, c3}
  NoConn = NoConn
  Patient = {c1, c3}
  Frames <- LiveStreams
  MaxClients = 2
  HdrLen = 1
  SockCap = 1
  Backlog = 2
  Timeout = 1
  Faults = {}
PROPERTIES  PatientAnswered AcceptedOrRefused NoSlotHeld
CHECK_DEADLOCK FALSE
