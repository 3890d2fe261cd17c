\* Launcher processes started one after another or at the same time, with
\* up to two failed probes, mkdir() or open() calls.
CONSTANTS
    p1 = p1
    p2 = p2
    p3 = p3
    NoFile = NoFile
    Procs <- MCProcs
    MaxFsFailures = 2

SPECIFICATION Spec

\* Every process ends after closeLog(): the end state is final.
CHECK_DEADLOCK FALSE

SYMMETRY MCProcSymmetry

INVARIANTS
    RotatedLogKept
