------------------------------ MODULE MCPidNs ------------------------------
EXTENDS PidNs, TLC

CONSTANTS r, c1, c2, t1, t2, t3

MCNSIds == {r, c1, c2}
MCTasks == {t1, t2, t3}
MCSymmetry == Permutations(MCTasks)
=============================================================================
