SPECIFICATION FairSpec
CONSTANTS
  NReminders = 1
  Offset <- MCOffset
  DueTimes = {1}
  MaxTime = 2
  MaxCalls = 1
  MaxLevel = 1
  MaxRetries = 2
  FaultKinds = {}
  MaxFaults = 0
  Celery = TRUE
PROPERTIES ReminderDelivered
CHECK_DEADLOCK FALSE
