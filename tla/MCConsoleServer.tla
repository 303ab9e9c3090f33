--------------------------- MODULE MCConsoleServer ---------------------------
(* Model-checking instance of ConsoleServer.                               *)
EXTENDS ConsoleServer

\* One session with three disturbances, or two sessions with one.
OneOrTwoSessions ==
    {[sessions |-> {CHOOSE s \in Session : TRUE}, events |-> 3],
     [sessions |-> Session, events |-> 1]}
=============================================================================
