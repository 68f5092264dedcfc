\* Three entries for four keys: the array fills up, empties from every side,
\* and a key can come back.  The two worths tell a value moved to the wrong key.
SPECIFICATION Spec
CONSTANTS
  Positions = {p1, p2, p3, p4}
  MAX_POSITIONS = 3
  Worths = {0, 1}
  OtherQuotes = {1}
  MaxSlot = 3
  NoPosition = none
SYMMETRY KeySymmetry
INVARIANTS
  TypeOK
  ArraysWellFormed
  LoopsAgreeWithRegistry
  ArraysTrackPositions
PROPERTIES
  ImplementsRegistry
  NewPositionNeedsQuote
