------------------------------ MODULE MCLogger ------------------------------
(* Three launcher processes, each one opening the log once; one failed    *)
(* file-system call.                                                       *)
EXTENDS Logger, TLC

CONSTANTS p1, p2, p3

MCProcs == {p1, p2, p3}

MCProcSymmetry == Permutations(MCProcs)
=============================================================================
