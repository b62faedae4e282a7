SPECIFICATION Spec
CONSTANTS
  c1 = c1
  c2 = c2
  c3 = c3
  Conns = {c1, c2, c3}
  NoConn = NoConn
  Patient = {c3}
  Frames <- Streams
  MaxClients = 2
  HdrLen = 2
  SockCap = 1
  Backlog = 2
  Timeout = 1
  Faults = {"nomem", "fcntl", "accept", "poll", "slow"}
INVARIANTS TypeOK AnswersInOrder OneSlotEach
PROPERTIES TurnKeepsClient
CHECK_DEADLOCK FALSE
