SPECIFICATION Spec
CONSTANTS
  Day = 4
  Plans <- BoundaryPlans
  MaxNow = 10
  MaxChanges = 2
  MaxRestarts = 0
  MaxDown = 0
  MaxIssues = 3
PROPERTY EndedByWindow
CHECK_DEADLOCK FALSE
