SPECIFICATION Spec
CONSTANTS
  SessionIds = {s1, s2}
  Devices = {d1, d2}
  Challenges = {c1, c2, c3}
  Requests = {r1, r2}
  ChallengeTtl = 1
  LoginTtl = 1
  StepUpTtl = 1
  MaxTime = 2
  MaxVersion = 3
  None = None
  Defaults <- MCDefaults
  Patches <- MCPatches
  Facts <- MCFacts
CHECK_DEADLOCK FALSE
CONSTRAINT Explored
SYMMETRY Interchangeable
INVARIANTS
  TypeOK
  ChallengesEndOnce
  VerifiedByOwnChallenge
  AssessmentsReproducible
  ThresholdsOrdered
  MoreReasonsHigherLevel
  PolicyChangesVerified
PROPERTIES
  AddedWhileAuthorized
