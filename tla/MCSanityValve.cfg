SPECIFICATION Spec
CONSTANTS
  MaxDrafts = 2
  MayCrash = TRUE
  MayFail = TRUE
INVARIANTS TypeOK OnlyApprovedRuns RunsOnce
PROPERTIES PatchPromise NumbersNeverReused DiscardedNeverRuns ApprovedRuns DraftSurfaces
