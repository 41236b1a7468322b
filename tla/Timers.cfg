SPECIFICATION FairSpec
CONSTANTS
  t1 = t1
  t2 = t2
  t3 = t3
  Task <- MCTask
  Futures <- MCFutures
  MaxAlarms = 2
  MaxTime = 2
INVARIANT AlarmsInv
PROPERTY TimersExpire
