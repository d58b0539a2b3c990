SPECIFICATION Spec
CONSTANTS
  Node = {1, 2}
  Citizen = {"ann", "bob", "cid"}
  Candidacy = {"c1", "c2"}
  Initiative = {"law"}
  Referendum = {"ref"}
  Candidate <- AnnIsCandidate
  TargetRole <- ForJudge
  nobody = "nobody"
  ApprovalPercent = 50
  Request <- Requests
  Scenarios <- LawCase
  MaxTime = 1
  Dropped <- Lost
INVARIANT
  PassedAtThreshold
CHECK_DEADLOCK FALSE
