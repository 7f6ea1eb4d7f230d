CONSTANTS
  none = none
  Foreign = none
  Order <- MCOrder
  Asked <- MCAsked
  PageSize = 2
  MaxKeys = 2
  MaxInput = 3
SPECIFICATION Spec
INVARIANTS FloorIsCurrent OutcomesAreTrue
PROPERTIES SweepsOnlyExpired
