\* A download to a client whose socket fails.
CONSTANTS
    MaxData = 1
    Settings <- ClientFails
SPECIFICATION Spec
INVARIANTS
    AckedBeforeClosed
\* A stream that has ended leaves nothing to do.
CHECK_DEADLOCK FALSE
