\* A Ruby caller that calls connect on a connected object.
CONSTANTS
    MaxConnects = 2
    CallerReconnects = TRUE
    CallerAllocates = FALSE
SPECIFICATION Spec
INVARIANT NoLeak
CHECK_DEADLOCK FALSE
