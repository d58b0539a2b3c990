SPECIFICATION Spec
CONSTANTS
  Node = {1, 2}
  Citizen = {1, 2, 3}
  Name = {"ann", "eve"}
  Passport = {1, 2}
  Request <- Requests
  Scenarios <- Cases
  Designated <- Turns
  MaxTime = 1
  MaxBlocks = 4
INVARIANTS
  TypeOK
  ProjectionIsFold
  PassportBacked
PROPERTIES
  RevokedForGood
  AcceptedConfirmed
CHECK_DEADLOCK FALSE
