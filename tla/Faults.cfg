SPECIFICATION Spec
CONSTANTS
  Node = {1, 2}
  Event = {11, 12, 13}
  Stamp = {1}
  Public = {1, 2}
  Requests <- NoRequest
  Forced = {}
  Bootstrap <- Seeded
  PeerAlive <- NoPeerUpdate
  PeerDead <- NoPeerUpdate
  Operated <- NoRequest
  MinEvents = 1
  bg = bg
  MaxBlock = 3
  MaxCrash = 1
  Backlog <- Nothing
  InFlight <- Overlapping
  Faults = TRUE
  Garbling = TRUE
  BlindReads = TRUE
INVARIANTS
  HashCommitted
  ObserverLinked
  PrefixAgreement
  ConfirmedInChain
  NoEventTwice
PROPERTIES
  PendingLeavesConfirmed
  HealReplacesFork
