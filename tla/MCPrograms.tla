----------------------------- MODULE MCPrograms -----------------------------
\* Values for Programs are in the configuration.
EXTENDS Programs
=============================================================================
