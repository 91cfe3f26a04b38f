SPECIFICATION FrontSpec
CONSTANTS
  Resources <- MCResources
  Candidates <- MCCandidates
INVARIANTS
  Antichain
  Covers
