CONSTANTS
  Threads = {t1, t2}
  Timers = {a, b, c}
  Delays = {0, 2}
  MaxTime = 3
SPECIFICATION FairSpec
INVARIANTS
  NoOversleep
  FiresInOrder
PROPERTY EveryTimerFires
