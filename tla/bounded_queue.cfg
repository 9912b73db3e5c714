CONSTANTS
  Threads = {t1, t2, t3, t4}
  Values = {1, 2}
  capacity_ = 2
SPECIFICATION Spec
INVARIANT NoLostWakeup
PROPERTY ImplementsChannel
