SPECIFICATION Spec
CONSTANTS
  Node = {1, 2}
  Citizen = {1, 2, 3}
  Name = {"ann", "eve"}
  Passport = {1, 2}
  Request <- Requests
  Scenarios <- Written
  Designated <- Turns
  MaxTime = 1
  MaxBlocks = 4
INVARIANTS
  TruncateRebuilds
CHECK_DEADLOCK FALSE
