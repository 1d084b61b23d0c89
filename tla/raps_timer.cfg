SPECIFICATION Spec
CONSTANTS
  Handle = {t1, t2, t3, t4, t5}
  VMK_INVALID_TIMER = VMK_INVALID_TIMER
  Free = Free
  Stopper = Stopper
INVARIANTS OneEngine QuietWhenClosed EngineAlive
CHECK_DEADLOCK FALSE
