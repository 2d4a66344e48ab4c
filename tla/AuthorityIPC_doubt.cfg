\* Five calls of two clients to one owner.
CONSTANTS
  i1 = i1  i2 = i2  i3 = i3  s1 = s1  p1 = p1  e1 = e1  d1 = d1  d2 = d2

  Ids = {i1, i2, i3}
  MaxCalls = 5
  MaxHandlers = 1
  MaxInflight = 2
  MaxCompleted = 2
  Workloads <- Loads
  Refs = {1, 2, 3, 4, 5}
  Holders = {1, 2, 3, 4, 5}
  Digests = {d1, d2}
  NoDigest = NoDigest
  Litter = {d2}
  MaxArtifacts = 2
  Sessions = {s1}
  Proposals = {p1}
  SubjectOf <- Subject
  NoProposal = NoProposal
  NoSession = NoSession
  MaxSessions = 1
  MaxProposals = 1
SPECIFICATION Spec
INVARIANT DoubtIsTold
CHECK_DEADLOCK FALSE
