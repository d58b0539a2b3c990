SPECIFICATION Spec
CONSTANTS
  Node = {1, 2}
  Event = {e1, e2}
  Stamp = {1}
  Public = {1, 2}
  Requests <- AllAtOne
  Forced = {}
  Bootstrap <- OneSided
  PeerAlive <- NoPeerUpdate
  PeerDead <- NoPeerUpdate
  Operated <- NoRequest
  MinEvents = 1
  bg = bg
  MaxBlock = 1
  MaxCrash = 0
  Backlog <- Nothing
  InFlight <- Nothing
  Faults = FALSE
  Garbling = FALSE
  BlindReads = FALSE
SYMMETRY Permuted
INVARIANT AllLinked
