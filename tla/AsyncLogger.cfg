\* Two callers, two closers, a channel of two lines; writeLoop and begun Closes go on.
SPECIFICATION Spec
CONSTANTS
    Callers = {a, b}
    Closers = {x, y}
    Capacity = 2
    MaxCalls = 2
    MaxLines = 4
INVARIANTS
    InOrder
    CloseFlushes
PROPERTIES
    WritesWhileOpen
    Flushes
    CloseReturns
CHECK_DEADLOCK FALSE
