\* Three threads in any mix of calls, two tasks that succeed or fail.
SPECIFICATION Spec
CONSTANTS
  Threads = {t1, t2, t3}
  NoThread = NoThread
  MaxTasks = 2
  MaxPending = 2
INVARIANTS
  AcceptedTasksTracked
  ShutdownInOrder
PROPERTIES
  DrainTerminates
CHECK_DEADLOCK FALSE
