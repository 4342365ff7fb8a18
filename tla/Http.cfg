CONSTANTS
  t1 = t1
  t2 = t2
  t3 = t3
  none = none
  c1 = c1
  c2 = c2
  NoThread <- none
  Threads <- Two
  Uses <- MCUses
  MaxRedirects = 1
  MaxRequests = 3
SPECIFICATION FairAll
INVARIANTS Exclusive OwnAnswer Servers Routing Texts
PROPERTY Heard
CHECK_DEADLOCK FALSE
