---------------------------- MODULE MCSolConsole ----------------------------
EXTENDS SolConsole
=============================================================================
