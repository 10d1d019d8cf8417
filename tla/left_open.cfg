SPECIFICATION Spec
CONSTANTS
  Day = 4
  Plans <- MCPlans
  MaxNow = 9
  MaxChanges = 2
  MaxRestarts = 1
  MaxDown = 3
  MaxIssues = 3
INVARIANT
  IssueTimely
PROPERTIES
  NeverEarly
  RecoveryIsReported
  NoLateAlert
CHECK_DEADLOCK FALSE
