------------------------- MODULE ConsoleServerProofs -------------------------
(***************************************************************************)
(* Proofs about ConsoleServer: type correctness, and that no connection to *)
(* a node is forgotten, for any sessions, consoles and disturbances.       *)
(***************************************************************************)
EXTENDS ConsoleServer, TLAPS

\* Only a node that exists gets new consoles, and its handler is alive.
Alive == exists => isalive

\* No console is made while another one is disconnected, but for the overlaps
\* that the history records.
Apart == isalive /\ ~overlapped => ~Making \/ Disconnecting = {}

\* There is no console when the plugin is asked for one.
Cleaned == thread = "tell" => console = None

\* Who closes a console before there is none closes the only one there is.
Closing == ~overlapped =>
    /\ thread = "close" => console \in {making, None}
    /\ \A t \in Task : pc[t] = "close" => console \in {closing[t], None}

ConsoleInv == TypeOK /\ OneConsole /\ Alive /\ Apart /\ Cleaned /\ Closing

-----------------------------------------------------------------------------
\* A handler starts without a console.
LEMMA InitInv == Init => ConsoleInv
  <1> SUFFICES ASSUME Init PROVE ConsoleInv
    OBVIOUS
  <1> USE NameAssumption DEF Init
  <1>1. pc \in [Task -> {"new", "init", "idle", "gone"}] /\ events \in Nat
    OBVIOUS
  <1>2. TypeOK
    BY <1>1 DEF TypeOK
  <1>3. OneConsole /\ Alive /\ Apart /\ Cleaned /\ Closing
    BY <1>1 DEF OneConsole, Held, Alive, Apart, Making, Cleaned, Closing
  <1> QED BY <1>2, <1>3 DEF ConsoleInv
-----------------------------------------------------------------------------
\* One step per action.
LEMMA TypeStep ==
  ASSUME ConsoleInv, [Next]_vars PROVE TypeOK'
  <1> USE NameAssumption DEF ConsoleInv, TypeOK, configvars, threadvars, taskvars,
        Task, Goto, Event, Down, Connect, ConnectDuring, KeepThread, InUse,
        NewConsole, GotDisconnected, Disconnect, Ended
  <1>1. CASE ThreadClose
    BY <1>1 DEF ThreadClose
  <1>2. CASE ThreadConnecting
    BY <1>2 DEF ThreadConnecting
  <1>3. CASE ThreadCreate
    BY <1>3 DEF ThreadCreate
  <1>4. CASE ThreadCreateFails
    BY <1>4 DEF ThreadCreateFails
  <1>5. CASE ThreadMisconfigured
    BY <1>5 DEF ThreadMisconfigured
  <1>6. CASE ThreadConnected
    BY <1>6 DEF ThreadConnected
  <1>7. CASE ThreadFails
    BY <1>7 DEF ThreadFails
  <1>8. CASE ThreadUnconnected
    BY <1>8 DEF ThreadUnconnected
  <1>9. CASE ThreadRetry
    BY <1>9 DEF ThreadRetry
  <1>10. CASE TimerFires
    BY <1>10 DEF TimerFires
  <1>11. CASE OndemandInit
    BY <1>11 DEF OndemandInit
  <1>12. CASE CloseHandler
    BY <1>12 DEF CloseHandler
  <1>13. CASE SetOndemand
    <2>1. /\ exists' \in BOOLEAN /\ always' \in BOOLEAN /\ method' \in BOOLEAN
          /\ isondemand' \in BOOLEAN /\ isalive' \in BOOLEAN
          /\ reconnect' \in BOOLEAN
      BY <1>13 DEF SetOndemand
    <2>2. overlapped' \in BOOLEAN /\ neglected' \in BOOLEAN
      BY <1>13 DEF SetOndemand
    <2>3. /\ connectstate' \in {"unconnected", "connecting", "connected"}
          /\ console' \in Console \cup {None} /\ livesessions' \subseteq Session
          /\ link' \in [Console -> {"down", "connecting", "up"}]
          /\ events' \in Nat
          /\ init' \in [Session -> {"none", "replay", "attach"}]
      BY <1>13 DEF SetOndemand
    <2>4. /\ thread' \in {"none", "begin", "close", "tell", "misconfigured",
                   "connect", "failed", "retry", "done"}
          /\ making' \in Console \cup {None}
          /\ making' # None <=> thread' \in {"close", "connect"}
      BY <1>13 DEF SetOndemand
    <2>5. pc' \in [Task -> {"new", "init", "idle", "drop", "dropped", "clear",
                        "close", "detach", "delete", "gone"}]
      BY <1>13 DEF SetOndemand
    <2>6. closing' \in [Task -> Console \cup {None}]
      BY <1>13 DEF SetOndemand
    <2>7. \A t \in Task : closing'[t] # None <=> pc'[t] \in {"drop", "close"}
      BY <1>13 DEF SetOndemand
    <2> QED BY <2>1, <2>2, <2>3, <2>4, <2>5, <2>6, <2>7
  <1>14. CASE SetAlwayson
    <2>1. /\ exists' \in BOOLEAN /\ always' \in BOOLEAN /\ method' \in BOOLEAN
          /\ isondemand' \in BOOLEAN /\ isalive' \in BOOLEAN
          /\ reconnect' \in BOOLEAN
      BY <1>14 DEF SetAlwayson
    <2>2. overlapped' \in BOOLEAN /\ neglected' \in BOOLEAN
      BY <1>14 DEF SetAlwayson
    <2>3. /\ connectstate' \in {"unconnected", "connecting", "connected"}
          /\ console' \in Console \cup {None} /\ livesessions' \subseteq Session
          /\ link' \in [Console -> {"down", "connecting", "up"}]
          /\ events' \in Nat
          /\ init' \in [Session -> {"none", "replay", "attach"}]
      BY <1>14 DEF SetAlwayson
    <2>4. /\ thread' \in {"none", "begin", "close", "tell", "misconfigured",
                   "connect", "failed", "retry", "done"}
          /\ making' \in Console \cup {None}
          /\ making' # None <=> thread' \in {"close", "connect"}
      BY <1>14 DEF SetAlwayson
    <2>5. pc' \in [Task -> {"new", "init", "idle", "drop", "dropped", "clear",
                        "close", "detach", "delete", "gone"}]
      BY <1>14 DEF SetAlwayson
    <2>6. closing' \in [Task -> Console \cup {None}]
      BY <1>14 DEF SetAlwayson
    <2>7. \A t \in Task : closing'[t] # None <=> pc'[t] \in {"drop", "close"}
      BY <1>14 DEF SetAlwayson
    <2> QED BY <2>1, <2>2, <2>3, <2>4, <2>5, <2>6, <2>7
  <1>15. CASE SetMethod
    BY <1>15 DEF SetMethod
  <1>16. CASE Delete
    <2>1. /\ exists' \in BOOLEAN /\ always' \in BOOLEAN /\ method' \in BOOLEAN
          /\ isondemand' \in BOOLEAN /\ isalive' \in BOOLEAN
          /\ reconnect' \in BOOLEAN
      BY <1>16 DEF Delete
    <2>2. overlapped' \in BOOLEAN /\ neglected' \in BOOLEAN
      BY <1>16 DEF Delete
    <2>3. /\ connectstate' \in {"unconnected", "connecting", "connected"}
          /\ console' \in Console \cup {None} /\ livesessions' \subseteq Session
          /\ link' \in [Console -> {"down", "connecting", "up"}]
          /\ events' \in Nat
          /\ init' \in [Session -> {"none", "replay", "attach"}]
      BY <1>16 DEF Delete
    <2>4. /\ thread' \in {"none", "begin", "close", "tell", "misconfigured",
                   "connect", "failed", "retry", "done"}
          /\ making' \in Console \cup {None}
          /\ making' # None <=> thread' \in {"close", "connect"}
      BY <1>16 DEF Delete
    <2>5. pc' \in [Task -> {"new", "init", "idle", "drop", "dropped", "clear",
                        "close", "detach", "delete", "gone"}]
      BY <1>16 DEF Delete
    <2>6. closing' \in [Task -> Console \cup {None}]
      BY <1>16 DEF Delete
    <2>7. \A t \in Task : closing'[t] # None <=> pc'[t] \in {"drop", "close"}
      BY <1>16 DEF Delete
    <2> QED BY <2>1, <2>2, <2>3, <2>4, <2>5, <2>6, <2>7
  <1>17. ASSUME NEW t \in Task, Dropped(t) PROVE TypeOK'
    BY <1>17 DEF Dropped
  <1>18. ASSUME NEW t \in Task, Redial(t) PROVE TypeOK'
    BY <1>18 DEF Redial
  <1>19. ASSUME NEW t \in Task, Cleared(t) PROVE TypeOK'
    BY <1>19 DEF Cleared
  <1>20. ASSUME NEW t \in Task, Closed(t) PROVE TypeOK'
    BY <1>20 DEF Closed
  <1>21. ASSUME NEW s \in Session, Attach(s) PROVE TypeOK'
    BY <1>21 DEF Attach
  <1>22. ASSUME NEW s \in Session, Attached(s) PROVE TypeOK'
    <2>1. /\ exists' \in BOOLEAN /\ always' \in BOOLEAN /\ method' \in BOOLEAN
          /\ isondemand' \in BOOLEAN /\ isalive' \in BOOLEAN
          /\ reconnect' \in BOOLEAN
      BY <1>22 DEF Attached
    <2>2. overlapped' \in BOOLEAN /\ neglected' \in BOOLEAN
      BY <1>22 DEF Attached
    <2>3. /\ connectstate' \in {"unconnected", "connecting", "connected"}
          /\ console' \in Console \cup {None} /\ livesessions' \subseteq Session
          /\ link' \in [Console -> {"down", "connecting", "up"}]
          /\ events' \in Nat
          /\ init' \in [Session -> {"none", "replay", "attach"}]
      BY <1>22 DEF Attached
    <2>4. /\ thread' \in {"none", "begin", "close", "tell", "misconfigured",
                   "connect", "failed", "retry", "done"}
          /\ making' \in Console \cup {None}
          /\ making' # None <=> thread' \in {"close", "connect"}
      BY <1>22 DEF Attached
    <2>5. pc' \in [Task -> {"new", "init", "idle", "drop", "dropped", "clear",
                        "close", "detach", "delete", "gone"}]
      BY <1>22 DEF Attached
    <2>6. closing' \in [Task -> Console \cup {None}]
      BY <1>22 DEF Attached
    <2>7. \A t \in Task : closing'[t] # None <=> pc'[t] \in {"drop", "close"}
      BY <1>22 DEF Attached
    <2> QED BY <2>1, <2>2, <2>3, <2>4, <2>5, <2>6, <2>7
  <1>23. ASSUME NEW s \in Session, Detached(s) PROVE TypeOK'
    BY <1>23 DEF Detached
  <1>24. ASSUME NEW s \in Session, Open(s) PROVE TypeOK'
    BY <1>24 DEF Open
  <1>25. ASSUME NEW s \in Session, Detach(s) PROVE TypeOK'
    BY <1>25 DEF Detach
  <1>26. ASSUME NEW s \in Session, Reopen(s) PROVE TypeOK'
    BY <1>26 DEF Reopen
  <1>27. ASSUME NEW s \in Session, WriteFails(s) PROVE TypeOK'
    BY <1>27 DEF WriteFails
  <1>28. ASSUME NEW c \in Console, Lost(c) PROVE TypeOK'
    BY <1>28 DEF Lost
  <1>29. CASE UNCHANGED vars
    BY <1>29 DEF vars
  <1> QED
    BY <1>1, <1>2, <1>3, <1>4, <1>5, <1>6, <1>7, <1>8, <1>9, <1>10,
       <1>11, <1>12, <1>13, <1>14, <1>15, <1>16, <1>17, <1>18, <1>19, <1>20,
       <1>21, <1>22, <1>23, <1>24, <1>25, <1>26, <1>27, <1>28, <1>29
    DEF Next, Progress, Others, Thread
-----------------------------------------------------------------------------
\* Every step keeps the rest of the invariant.
LEMMA InvStep ==
  ASSUME ConsoleInv, [Next]_vars
  PROVE (OneConsole /\ Alive /\ Apart /\ Cleaned /\ Closing)'
  <1> USE NameAssumption DEF ConsoleInv, TypeOK, configvars, threadvars, taskvars,
        Task, Goto, Event, Down, Connect, ConnectDuring, KeepThread, InUse,
        NewConsole, GotDisconnected, Disconnect, Ended,
        OneConsole, Held, Closing, Cleaned, Alive, Apart, Making, Disconnecting
  <1>1. CASE ThreadClose
    BY <1>1 DEF ThreadClose
  <1>2. CASE ThreadConnecting
    BY <1>2 DEF ThreadConnecting
  <1>3. CASE ThreadCreate
    BY <1>3 DEF ThreadCreate
  <1>4. CASE ThreadCreateFails
    BY <1>4 DEF ThreadCreateFails
  <1>5. CASE ThreadMisconfigured
    BY <1>5 DEF ThreadMisconfigured
  <1>6. CASE ThreadConnected
    BY <1>6 DEF ThreadConnected
  <1>7. CASE ThreadFails
    BY <1>7 DEF ThreadFails
  <1>8. CASE ThreadUnconnected
    BY <1>8 DEF ThreadUnconnected
  <1>9. CASE ThreadRetry
    BY <1>9 DEF ThreadRetry
  <1>10. CASE TimerFires
    BY <1>10 DEF TimerFires
  <1>11. CASE OndemandInit
    BY <1>11 DEF OndemandInit
  <1>12. CASE CloseHandler
    BY <1>12 DEF CloseHandler
  <1>13. CASE SetOndemand
    <2>1. OneConsole'
      BY <1>13 DEF SetOndemand
    <2>2. Alive'
      BY <1>13 DEF SetOndemand
    <2>3. Apart'
      BY <1>13 DEF SetOndemand
    <2>4. Cleaned'
      BY <1>13 DEF SetOndemand
    <2>5. Closing'
      BY <1>13 DEF SetOndemand
    <2> QED BY <2>1, <2>2, <2>3, <2>4, <2>5
  <1>14. CASE SetAlwayson
    <2>1. OneConsole'
      BY <1>14 DEF SetAlwayson
    <2>2. Alive'
      BY <1>14 DEF SetAlwayson
    <2>3. Apart'
      BY <1>14 DEF SetAlwayson
    <2>4. Cleaned'
      BY <1>14 DEF SetAlwayson
    <2>5. Closing'
      BY <1>14 DEF SetAlwayson
    <2> QED BY <2>1, <2>2, <2>3, <2>4, <2>5
  <1>15. CASE SetMethod
    <2>1. OneConsole'
      BY <1>15 DEF SetMethod
    <2>2. Alive'
      BY <1>15 DEF SetMethod
    <2>3. Apart'
      BY <1>15 DEF SetMethod
    <2>4. Cleaned'
      BY <1>15 DEF SetMethod
    <2>5. Closing'
      BY <1>15 DEF SetMethod
    <2> QED BY <2>1, <2>2, <2>3, <2>4, <2>5
  <1>16. CASE Delete
    BY <1>16 DEF Delete
  <1>17. ASSUME NEW t \in Task, Dropped(t)
        PROVE (OneConsole /\ Alive /\ Apart /\ Cleaned /\ Closing)'
    BY <1>17 DEF Dropped
  <1>18. ASSUME NEW t \in Task, Redial(t)
        PROVE (OneConsole /\ Alive /\ Apart /\ Cleaned /\ Closing)'
    BY <1>18 DEF Redial
  <1>19. ASSUME NEW t \in Task, Cleared(t)
        PROVE (OneConsole /\ Alive /\ Apart /\ Cleaned /\ Closing)'
    BY <1>19 DEF Cleared
  <1>20. ASSUME NEW t \in Task, Closed(t)
        PROVE (OneConsole /\ Alive /\ Apart /\ Cleaned /\ Closing)'
    BY <1>20 DEF Closed
  <1>21. ASSUME NEW s \in Session, Attach(s)
        PROVE (OneConsole /\ Alive /\ Apart /\ Cleaned /\ Closing)'
    BY <1>21 DEF Attach
  <1>22. ASSUME NEW s \in Session, Attached(s)
        PROVE (OneConsole /\ Alive /\ Apart /\ Cleaned /\ Closing)'
    BY <1>22 DEF Attached
  <1>23. ASSUME NEW s \in Session, Detached(s)
        PROVE (OneConsole /\ Alive /\ Apart /\ Cleaned /\ Closing)'
    BY <1>23 DEF Detached
  <1>24. ASSUME NEW s \in Session, Open(s)
        PROVE (OneConsole /\ Alive /\ Apart /\ Cleaned /\ Closing)'
    BY <1>24 DEF Open
  <1>25. ASSUME NEW s \in Session, Detach(s)
        PROVE (OneConsole /\ Alive /\ Apart /\ Cleaned /\ Closing)'
    BY <1>25 DEF Detach
  <1>26. ASSUME NEW s \in Session, Reopen(s)
        PROVE (OneConsole /\ Alive /\ Apart /\ Cleaned /\ Closing)'
    BY <1>26 DEF Reopen
  <1>27. ASSUME NEW s \in Session, WriteFails(s)
        PROVE (OneConsole /\ Alive /\ Apart /\ Cleaned /\ Closing)'
    BY <1>27 DEF WriteFails
  <1>28. ASSUME NEW c \in Console, Lost(c)
        PROVE (OneConsole /\ Alive /\ Apart /\ Cleaned /\ Closing)'
    BY <1>28 DEF Lost
  <1>29. CASE UNCHANGED vars
    BY <1>29 DEF vars
  <1> QED
    BY <1>1, <1>2, <1>3, <1>4, <1>5, <1>6, <1>7, <1>8, <1>9, <1>10,
       <1>11, <1>12, <1>13, <1>14, <1>15, <1>16, <1>17, <1>18, <1>19, <1>20,
       <1>21, <1>22, <1>23, <1>24, <1>25, <1>26, <1>27, <1>28, <1>29
    DEF Next, Progress, Others, Thread
-----------------------------------------------------------------------------
\* The invariant of both theorems.
LEMMA ConsoleInvariant == Spec => []ConsoleInv
  <1>1. ConsoleInv /\ [Next]_vars => ConsoleInv'
    BY TypeStep, InvStep DEF ConsoleInv
  <1> QED BY <1>1, InitInv, PTL DEF Spec

\* Every variable keeps its type, however many sessions and consoles there are:
\* the fields of the handler, the phases of the connecting thread, of the
\* sessions, of the administrator and of the plugins.
THEOREM TypeCorrect == Spec => []TypeOK
  <1>1. ConsoleInv => TypeOK
    BY DEF ConsoleInv
  <1> QED BY <1>1, ConsoleInvariant, PTL

\* While a handler lives no connection to the node is held but the one it knows
\* of, unless _connect_backend has run during a disconnect or beside another
\* _connect_backend, which kill() does not stop once a console is being made.
THEOREM OneConsoleCorrect == Spec => []OneConsole
  <1>1. ConsoleInv => OneConsole
    BY DEF ConsoleInv
  <1> QED BY <1>1, ConsoleInvariant, PTL
=============================================================================
