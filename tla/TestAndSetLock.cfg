SPECIFICATION FairSpec
CONSTANTS
  Threads = {t1, t2, t3, t4}
  Null = Null
PROPERTIES ImplementsMutex SomeoneEnters
