SPECIFICATION FairSpec
CONSTANTS
  Handle = {t1, t2, t3}
  VMK_INVALID_TIMER = VMK_INVALID_TIMER
  Free = Free
  Stopper = Stopper
PROPERTIES CloseCompletes
CHECK_DEADLOCK FALSE
