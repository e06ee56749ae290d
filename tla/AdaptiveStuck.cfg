SPECIFICATION DriftSpec
CONSTANTS
  Shares = {0, 40, 60, 80, 100}
  Thin = Thin
  Unset = Unset
  Points = 10
  Step = 25
  Hold = 2
  Start = 50
  Choices = {0, 50}
  MaxFailedApplies = 1
PROPERTIES
  DriftActedOn
CHECK_DEADLOCK FALSE
