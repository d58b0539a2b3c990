SPECIFICATION FairSpec
CONSTANTS
  Node = {1, 2, 3}
  Event = {11, 12}
  Stamp = {1}
  Public = {1, 2, 3}
  Requests <- NoRequest
  Forced = {}
  Bootstrap <- FullMesh
  PeerAlive <- NoPeerUpdate
  PeerDead <- NoPeerUpdate
  Operated <- NoRequest
  MinEvents = 1
  bg = bg
  MaxBlock = 2
  MaxCrash = 0
  Backlog <- Shared
  InFlight <- Nothing
  Faults = FALSE
  Garbling = FALSE
  BlindReads = FALSE
PROPERTIES
  ImplementsLog
  EventuallyConfirmed
