SPECIFICATION LockSpec
CONSTANTS
  Units = {1, 2}
  Transactions = {t1, t2}
  Operations = {"reserve", "releaseSet"}
CHECK_DEADLOCK FALSE
INVARIANTS NoCircularWait
