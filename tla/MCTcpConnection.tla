--------------------------- MODULE MCTcpConnection ---------------------------
\* Model values for TcpConnection: the tasks, and the ids, are alike.
EXTENDS TcpConnection, TLC

Symmetry == Permutations(Tasks) \cup Permutations(Ids)
=============================================================================
