SPECIFICATION FairSpec
CONSTANTS
  r1 = r1
  r2 = r2
  SubCount = 2
  BankCount = 2
  Rows = {r1, r2}
  SchedSizes = {1, 2}
  ReturnSize = 1
  RwqSize = 2
  QueueSize = 2
  WrittenRows = {r1}
  MaxRequests = 3
INVARIANTS CreditsMatchInFlight SameRowInOrder
PROPERTIES TurnsTaken AllServed
