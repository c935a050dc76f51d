SPECIFICATION Spec
CONSTANTS
  Peers = {server, client}
  Owners = {server}
  Ids = {1, 2, 3}
  Slots = 2
  ReplicaSlots = 2
  Room = 2
  Ring = 3
  MaxReads <- OneOrTwo
  Values = {0, 1}
  Initial = 0
  MaxUpdates <- OneMore
  MaxEvents = 1
INVARIANTS UnseenRemoved
CHECK_DEADLOCK FALSE
