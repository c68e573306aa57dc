SPECIFICATION MCSpec
CONSTANTS
  Conns = {c1, c2}
  Publishers = {p1}
  Topics = {t1}
  DefaultTopics = {t1}
  Pipelined = FALSE
  Ops = {"subscribe", "unsubscribe"}
  SockCap = 1
  MaxRequests = 2
  MaxPublishes = 1
  Objects = {a, b}
  MaxEvents = 3
  MaxMessages = 4
  Interfaces <- Protocols
  Scenes <- MCScenes
  Variants = {"vibrant", "tonal_spot", "content"}
  Given = {{}, {"primary", "error"}}
  Nil = Nil
INVARIANTS TypesOK TornLast Settled Delivers Understood Resolves
CHECK_DEADLOCK FALSE
