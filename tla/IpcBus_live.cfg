SPECIFICATION FairSpec
CONSTANTS
  Conns = {c1, c2}
  Publishers = {p1}
  Topics = {t1}
  DefaultTopics = {t1}
  Pipelined = FALSE
  Ops = {"subscribe", "bad"}
  SockCap = 1
  MaxRequests = 2
  MaxPublishes = 1
PROPERTIES PublishReturns LeavesBus
CHECK_DEADLOCK FALSE
