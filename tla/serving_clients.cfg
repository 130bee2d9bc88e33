SPECIFICATION Spec
CONSTANTS
  a = a
  b = b
  Clients = {a, b}
  Null = Null
  Backlog = 0
  Requests = 2
  Worlds <- AllWorlds
  Ports <- PortNumbers
  Mis = {"mis", "misc"}
CHECK_DEADLOCK FALSE
INVARIANT AnswersReachTheirClient
INVARIANT DescriptorsReturned
PROPERTY EveryClientServed
