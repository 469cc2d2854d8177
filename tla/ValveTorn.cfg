SPECIFICATION Safety
CONSTANTS
  MaxDrafts = 2
  MayCrash = FALSE
  MayFail = FALSE
INVARIANTS RunsWholePatch
