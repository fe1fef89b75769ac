SPECIFICATION ReleaseSpec
CONSTANTS
  Evaluations = {e1, e2}
  c1 = c1
  c2 = c2
  m1 = m1
  m2 = m2
  Challenges <- MCChallenges
  Markers <- MCMarkers
  Requests <- MCRequests
  Scopes <- MCScopes
  Attestations <- MCAttestations
  MaxFreshness = 1
  ChallengeTTL = 1
  MaxClock = 2
  Nothing = Nothing
SYMMETRY EvaluationSymmetry
INVARIANTS EligibleAsJudged FreshWhenConsumed
PROPERTY ImplementsOneReview
CHECK_DEADLOCK FALSE
