---------------------------- MODULE MCLogPanel ----------------------------
EXTENDS LogPanel
===========================================================================
