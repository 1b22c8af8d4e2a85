\* Four tasks: a task that waits for one that waits for one that waits.
SPECIFICATION Spec
CONSTANTS
    Tasks = {main, a, b, c}
    Main = main
    None = None
\* All tasks have ended, or the program has panicked.
CHECK_DEADLOCK FALSE
PROPERTIES
    EveryCallReturns
