\* A Ruby caller that obtains an object through OMIInterface.allocate (or
\* dup/clone of a connected object), which skips initialize, and lets it go.
CONSTANTS
    MaxConnects = 2
    CallerReconnects = FALSE
    CallerAllocates = TRUE
SPECIFICATION Spec
INVARIANT NoIndeterminateHandle
CHECK_DEADLOCK FALSE
