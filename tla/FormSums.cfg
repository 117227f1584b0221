SPECIFICATION Spec
CONSTANTS
  Members = {m1, m2, m3}
  Texts = {57, 114}
  RoundedDown = {47, 57, 59, 83, 94, 113, 114}
SYMMETRY MemberSymmetry
INVARIANTS
  SavedAddsUpUnlessAmountLast
  EvenSplitIsExactAndFair
  ReopeningKeepsShares
  ReopeningKeepsPayers
  UntouchedLosesACentAtMost
