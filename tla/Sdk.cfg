CONSTANTS
  u1 = u1
  u2 = u2
  Uploaders = {u1, u2}
  Size <- Sizes
  PartSize = 2
  Nothing = Nothing
  Strategies <- AllStrategies
  Predicates <- AllPredicates
  MaxWait = 1
  MaxMultiplier = 2
  Hints = {0, 2}
  None = None
SPECIFICATION Spec
INVARIANTS WholeOrNothing NothingLeftOpen OutcomeIsTrue
