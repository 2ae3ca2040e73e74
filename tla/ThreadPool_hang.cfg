\* One worker, two tasks: an AddTask that passed its tests returns, even when Shutdown detached a worker.
\* The run looks for the hang itself, so TLC is told not to stop at the deadlock.
CONSTANTS
    NWorkers = 1
    NTasks = 2
    Spurious = "never"
    None = None
SPECIFICATION Spec
CHECK_DEADLOCK FALSE
PROPERTY AddTaskReturns
