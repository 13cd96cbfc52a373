\* One thread in io_context.run(), a pool that is filled as it is used.
SPECIFICATION LiveSpec
CONSTANTS
  c1 = c1
  c2 = c2
  c3 = c3
  c4 = c4
  c5 = c5
  Clients <- FourCoroutines
  MaxSize = 2
  Threads = 1
  Prefilled = FALSE
INVARIANTS
  NoLostWakeup
PROPERTIES
  NoIdleObjectWhileStarving
  WaiterWoken
  WaiterServed
