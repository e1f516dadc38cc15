CONSTANTS
  v1 = v1
  v2 = v2
  Values <- MCValues
  Erased = Erased
  Zero = Zero
  None = None
  PutMayFail = TRUE
SPECIFICATION Spec
SYMMETRY MCSymmetry
INVARIANTS SkipIsSound SavedSurvives
