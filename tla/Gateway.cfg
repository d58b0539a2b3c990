SPECIFICATION Spec
CONSTANTS
  Node = {1, 2}
  Event = {11, 12, 13}
  Stamp = {1}
  Public = {1, 2}
  Requests <- FirstAtOne
  Forced = {2}
  Bootstrap <- FullMesh
  PeerAlive <- HighestAlive
  PeerDead <- LowestDead
  Operated <- Severed
  MinEvents = 1
  bg = bg
  MaxBlock = 1
  MaxCrash = 0
  Backlog <- LastAtTwo
  InFlight <- LastAtTwo
  Faults = FALSE
  Garbling = FALSE
  BlindReads = FALSE
INVARIANTS
  TypeOK
  ObserverLinked
PROPERTIES
  HealReplacesFork
