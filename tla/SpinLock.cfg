CONSTANTS
  Threads = {t1, t2, t3}
  MaxCredit = 3
SPECIFICATION FairSpec
INVARIANTS TypeOK NoLostWakeup OneWaitPerNotify
PROPERTY WaitReturns
