SPECIFICATION Spec
CONSTANTS
  Images <- MCImages
  MaxSweep = 6
INVARIANTS
  DescentIsExact
  ListingIsDisjoint
  NothingIsLost
PROPERTIES
  Terminates
