-------------------------- MODULE MCMockConnection --------------------------
\* Model values for MockConnection are in the configuration.
EXTENDS MockConnection
=============================================================================
