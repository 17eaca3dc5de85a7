\* A download of two chunks that nothing disturbs.
CONSTANTS
    MaxData = 2
    Settings <- Downloads
SPECIFICATION Spec
INVARIANTS
    WholeDownload
\* A stream that has ended leaves nothing to do.
CHECK_DEADLOCK FALSE
