----------------------------- MODULE MCDbTasks -----------------------------
(* DbTasks on small instances.                                              *)
EXTENDS DbTasks, TLC

\* Workers, MYSQL handles and tokens are interchangeable (for safety only).
Symmetry ==
    Permutations(Workers) \cup Permutations(MysqlHandles) \cup Permutations(Tokens)
============================================================================
