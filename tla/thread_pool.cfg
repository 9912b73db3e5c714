CONSTANTS
  num_threads = 3
  MaxTasks = 2
SPECIFICATION Spec
INVARIANTS TypeOK NoLostWakeup SubmittedTasksRun
PROPERTY DestructorReturns
