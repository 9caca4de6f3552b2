SPECIFICATION RSpec
CONSTANTS
  Ids = {1, 2, 3}
  PathOf <- MCPathOf
  OwnerOf <- MCOwnerOf
  Watched <- MCWatched
  Callers = {r1, r2}
SYMMETRY Symmetry
INVARIANTS
  NegativeMeansGone
  RunningPodAttributed
