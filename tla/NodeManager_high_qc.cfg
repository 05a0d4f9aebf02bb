CONSTANTS
  N = 5
  Leavers = {}
  MaxJoins = 1
  MaxExits = 0
  MaxView = 2
  Schedules <- JoinWithDeaf
SPECIFICATION Scheduled
PROPERTY HighestQCTaken
CHECK_DEADLOCK FALSE
