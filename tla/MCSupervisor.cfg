SPECIFICATION FairSpec
CONSTANTS
  Serials <- MCSerials
  MaxKills = 1
INVARIANTS Watched
PROPERTIES EndReported Revives
