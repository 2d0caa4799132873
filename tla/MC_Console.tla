----------------------------- MODULE MC_Console -----------------------------
EXTENDS Console
=============================================================================
