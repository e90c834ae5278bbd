------------------------- MODULE MCAccountingSession -------------------------
\* Model values for AccountingSession.
EXTENDS AccountingSession, TLC

Symmetry == Permutations(Callers)
=============================================================================
