SPECIFICATION FairSpec
CONSTANTS
  N = 3
  InitCuts = 1
  MaxChanges = 1
  MaxSends = 1
INVARIANTS DeliveredOnce NoAlertStorm
PROPERTIES EverybodyHears RingQuiet
CHECK_DEADLOCK FALSE
