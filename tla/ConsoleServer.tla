---------------------------- MODULE ConsoleServer ----------------------------
(***************************************************************************)
(* The console of one node (consoleserver.py): a ConsoleHandler that keeps *)
(* the connection made by a console plugin, and the ConsoleSessions that   *)
(* clients attach to it.  The node is managed by this member (_is_local).  *)
(*                                                                         *)
(* Every routine of the handler is a coroutine and each await is a place   *)
(* where others go on: the connection thread (_connect_backend, of which   *)
(* _connect keeps one by cancelling the last), the retry timer, the task   *)
(* of each client, the callback of the plugin that lost its connection and *)
(* the callbacks of the configuration.  An await at the end of a routine,  *)
(* with nothing to do after it, is left out.  The buffered output and the  *)
(* contents of the messages to the clients are not modelled.               *)
(***************************************************************************)
EXTENDS Naturals, FiniteSets

CONSTANTS Session,  \* the sessions clients open, each once
          Console,  \* names for the consoles that the plugin creates
          None,     \* no console
          Plugin,   \* the task of the plugin that reports a lost connection
          Admin,    \* the task of the configuration's callbacks
          Situation \* bounds a run may have: the sessions that are opened, and
                    \* how often clients, BMC and administrator disturb

Task == Session \cup {Plugin, Admin}

ASSUME NameAssumption ==
    /\ None \notin Console
    /\ Plugin \notin Session /\ Admin \notin Session /\ Plugin # Admin
    /\ Situation \subseteq [sessions : SUBSET Session, events : Nat]

VARIABLES
    (* the configuration *)
    exists,      \* the node is in the configuration
    always,      \* console.logging asks for a console that is always on
    method,      \* console.method is configured
    (* the handler *)
    connectstate,
    console,     \* _console
    isondemand,  \* _isondemand
    isalive,     \* _isalive
    livesessions,
    reconnect,   \* the timer of a retry runs
    thread,      \* where connectionthread is: "none" if it is None
    making,      \* the console it closes or makes
    (* the tasks of others *)
    init,        \* where delayinit of a session is
    pc,          \* where a task is in a routine of the handler
    closing,     \* the console it closes
    (* the other end *)
    link,        \* the connection of a console, in the plugin
    (* bound and history *)
    events,      \* what is left of the disturbances
    overlapped,  \* a connection was begun or stopped during a _disconnect
    neglected    \* a callback left a console alone that nobody makes

configvars == <<exists, always, method>>
threadvars == <<reconnect, thread, making>>
taskvars == <<init, pc, closing>>
vars == <<configvars, connectstate, console, isondemand, isalive,
          livesessions, threadvars, taskvars, link, events, overlapped,
          neglected>>

\* ConsoleHandler.__init__: ondemand_init is spawned, by the task that
\* added the node or started the service.
Init ==
    /\ exists = TRUE /\ always \in BOOLEAN /\ method \in BOOLEAN
    /\ connectstate = "unconnected" /\ console = None
    /\ isondemand = FALSE /\ isalive = TRUE
    /\ livesessions = {}
    /\ reconnect = FALSE /\ thread = "none" /\ making = None
    /\ init = [s \in Session |-> "none"]
    /\ \E situation \in Situation :
         /\ pc = [t \in Task |-> IF t \in situation.sessions THEN "new"
                                 ELSE IF t \in Session THEN "gone"
                                 ELSE IF t = Admin THEN "init" ELSE "idle"]
         /\ events = situation.events
    /\ closing = [t \in Task |-> None]
    /\ link = [c \in Console |-> "down"]
    /\ overlapped = FALSE /\ neglected = FALSE

Event == events > 0 /\ events' = events - 1

\* The consoles that have, or may get, a connection to the node.
Held == {c \in Console : link[c] # "down"}
Down(c) == [d \in Console |-> IF d = c THEN "down" ELSE link[d]]

Goto(t, l) == pc' = [pc EXCEPT ![t] = l]

\* The tasks in _disconnect, and a connection that is being made.
Disconnecting == {t \in Task : pc[t] \in {"clear", "close"}}
Making == thread \notin {"none", "done"}
Unmade == thread \in {"misconfigured", "done"}

\* _connect: whatever the last connection thread waits for, it ends there.
ConnectDuring(disconnects) ==
    /\ thread' = "begin" /\ making' = None
    /\ overlapped' = (overlapped \/ (isalive /\ disconnects # {}))
Connect == ConnectDuring(Disconnecting)
KeepThread == UNCHANGED <<thread, making, overlapped>>

-----------------------------------------------------------------------------
(* The connection thread, _connect_backend.                                *)

\* Its first await is to close the console there is, if there is one ...
ThreadClose ==
    /\ thread = "begin" /\ console # None
    /\ thread' = "close" /\ making' = console
    /\ UNCHANGED <<configvars, connectstate, console, isondemand, isalive,
                   livesessions, reconnect, taskvars, link, events, overlapped,
                   neglected>>

\* Mutant of ThreadConnecting: the console there is is forgotten, not closed.
ThreadConnectingAnew ==
    /\ thread = "begin"
    /\ console' = None
    /\ connectstate' = "connecting"
    /\ thread' = "tell"
    /\ UNCHANGED <<configvars, isondemand, isalive, livesessions, reconnect,
                   making, taskvars, link, events, overlapped, neglected>>

ThreadConnecting ==
    /\ \/ thread = "begin" /\ console = None
       \/ thread = "close"
    /\ link' = Down(making)
    /\ console' = None
    /\ connectstate' = "connecting"
    /\ thread' = "tell" /\ making' = None
    /\ UNCHANGED <<configvars, isondemand, isalive, livesessions, reconnect,
                   taskvars, events, overlapped, neglected>>

InUse == Held \cup {console, making} \cup {closing[t] : t \in Task}
NewConsole == CHOOSE c \in Console : c \notin InUse

\* ... then the clients are told, the timer is stopped and the plugin
\* creates a console, which is kept while it connects.
ThreadCreate ==
    /\ thread = "tell"
    /\ exists /\ method
    /\ \E c \in Console : c \notin InUse
    /\ reconnect' = FALSE
    /\ console' = NewConsole /\ making' = NewConsole
    /\ link' = [link EXCEPT ![NewConsole] = "connecting"]
    /\ thread' = "connect"
    /\ UNCHANGED <<configvars, connectstate, isondemand, isalive, livesessions,
                   taskvars, events, overlapped, neglected>>

\* There is no plugin for the method, or no node any more.
ThreadCreateFails ==
    /\ thread = "tell"
    /\ ~(exists /\ method)
    /\ reconnect' = FALSE
    /\ thread' = "misconfigured"
    /\ UNCHANGED <<configvars, connectstate, console, isondemand, isalive,
                   livesessions, making, taskvars, link, events, overlapped,
                   neglected>>

ThreadMisconfigured ==
    /\ thread = "misconfigured"
    /\ connectstate' = "unconnected"
    /\ thread' = "done"
    /\ UNCHANGED <<configvars, console, isondemand, isalive, livesessions,
                   reconnect, making, taskvars, link, events, overlapped,
                   neglected>>

\* connect of the plugin returns, _got_connected.
ThreadConnected ==
    /\ thread = "connect" /\ making \in Held
    /\ link' = [link EXCEPT ![making] = "up"]
    /\ connectstate' = "connected"
    /\ thread' = "done" /\ making' = None
    /\ UNCHANGED <<configvars, console, isondemand, isalive, livesessions,
                   reconnect, taskvars, events, overlapped, neglected>>

\* connect of the plugin fails, because of the BMC or because somebody closes
\* the console.  The buffer is cleared, then the state is unconnected and the
\* clients are told, then there will be a retry.
ThreadFails ==
    /\ thread = "connect"
    /\ \/ Event
       \/ /\ making \notin Held \/ \E t \in Task : closing[t] = making
          /\ UNCHANGED events
    /\ link' = Down(making)
    /\ thread' = "failed" /\ making' = None
    /\ UNCHANGED <<configvars, connectstate, console, isondemand, isalive,
                   livesessions, reconnect, taskvars, overlapped, neglected>>

ThreadUnconnected ==
    /\ thread = "failed"
    /\ connectstate' = "unconnected"
    /\ thread' = "retry"
    /\ UNCHANGED <<configvars, console, isondemand, isalive, livesessions,
                   reconnect, making, taskvars, link, events, overlapped,
                   neglected>>

\* Mutant of ThreadRetry: the timer is not set.
ThreadRetryNever ==
    /\ thread = "retry"
    /\ thread' = "done"
    /\ UNCHANGED <<configvars, connectstate, console, isondemand, isalive,
                   livesessions, reconnect, making, taskvars, link, events,
                   overlapped, neglected>>

ThreadRetry ==
    /\ thread = "retry"
    /\ reconnect' = TRUE
    /\ thread' = "done"
    /\ UNCHANGED <<configvars, connectstate, console, isondemand, isalive,
                   livesessions, making, taskvars, link, events, overlapped,
                   neglected>>

TimerFires ==
    /\ reconnect
    /\ reconnect' = FALSE
    /\ Connect
    /\ UNCHANGED <<configvars, connectstate, console, isondemand, isalive,
                   livesessions, taskvars, link, events, neglected>>

Thread ==
    \/ ThreadClose \/ ThreadConnecting \/ ThreadCreate \/ ThreadCreateFails
    \/ ThreadMisconfigured \/ ThreadConnected \/ ThreadFails
    \/ ThreadUnconnected \/ ThreadRetry


-----------------------------------------------------------------------------
(* _got_disconnected, by the callback of a plugin or by a client.          *)

\* Whoever calls it when there is no console to close, while the next is
\* being made, fails on None: the task of a client ends there, and leaves its
\* session attached.
GotDisconnected(t) ==
    /\ UNCHANGED <<configvars, connectstate, console, isondemand, isalive,
                   livesessions, reconnect, init>>
    /\ \/ /\ connectstate # "unconnected" /\ console # None
          /\ Goto(t, "drop") /\ closing' = [closing EXCEPT ![t] = console]
          /\ KeepThread
       \/ /\ connectstate # "unconnected" /\ console = None
          /\ Goto(t, IF t = Plugin THEN "idle" ELSE "gone")
          /\ KeepThread /\ UNCHANGED closing
       \/ /\ connectstate = "unconnected"
          /\ IF isalive THEN Connect ELSE KeepThread
          /\ UNCHANGED <<pc, closing>>

\* The plugin tells of the end of a connection that was made and that nobody
\* closes.  (Of two at once, the second is told when the first is done with.)
Lost(c) ==
    /\ pc[Plugin] = "idle" /\ link[c] = "up"
    /\ making # c /\ \A t \in Task : closing[t] # c
    /\ Event
    /\ link' = Down(c)
    /\ GotDisconnected(Plugin)
    /\ UNCHANGED neglected

\* A client asks for a new connection ...
Reopen(s) ==
    /\ pc[s] = "idle"
    /\ Event
    /\ GotDisconnected(s)
    /\ UNCHANGED <<link, neglected>>

\* ... or what it types cannot be written.
WriteFails(s) ==
    /\ pc[s] = "idle" /\ connectstate = "connected"
    /\ console \notin Held
    /\ GotDisconnected(s)
    /\ UNCHANGED <<link, events, neglected>>

\* The console is closed, the clients are told ...
Dropped(t) ==
    /\ pc[t] = "drop"
    /\ link' = Down(closing[t])
    /\ connectstate' = "unconnected"
    /\ Goto(t, "dropped") /\ closing' = [closing EXCEPT ![t] = None]
    /\ UNCHANGED <<configvars, console, isondemand, isalive, livesessions,
                   threadvars, init, events, overlapped, neglected>>

\* ... and the next connection begins.
Redial(t) ==
    /\ pc[t] = "dropped"
    /\ Goto(t, "idle")
    /\ IF isalive THEN Connect ELSE KeepThread
    /\ UNCHANGED <<configvars, connectstate, console, isondemand, isalive,
                   livesessions, reconnect, init, closing, link, events,
                   neglected>>

-----------------------------------------------------------------------------
(* _disconnect, for the last client of a console on demand, for a change of*)
(* console.logging and for a node that is deleted.                         *)

Disconnect(t) ==
    /\ thread' = "none" /\ making' = None
    /\ overlapped' = (overlapped \/ (isalive /\ (Making \/ Disconnecting # {})))
    /\ Goto(t, "clear")

\* What its callers do after it: _attribschanged connects again for the
\* clients there are, close cancels what began in the meantime.
Ended(t) ==
    IF t \in Session
    THEN Goto(t, "gone") /\ KeepThread
    ELSE /\ Goto(t, "idle")
         /\ IF ~isalive
            THEN thread' = "none" /\ making' = None /\ UNCHANGED overlapped
            ELSE IF ~isondemand \/ livesessions # {}
            THEN ConnectDuring(Disconnecting \ {t})
            ELSE KeepThread

\* Mutant of Cleared: whether there is a console is decided before the buffer
\* is cleared, as _ondemand has it.
ClearedUnchecked(t) ==
    /\ pc[t] = "clear"
    /\ Goto(t, "close")
    /\ closing' = [closing EXCEPT ![t] = console]
    /\ KeepThread
    /\ UNCHANGED <<configvars, connectstate, console, isondemand, isalive,
                   livesessions, reconnect, init, link, events, neglected>>

\* The buffer is cleared: with no console there is nothing more to do ...
Cleared(t) ==
    /\ pc[t] = "clear"
    /\ IF console # None
       THEN /\ Goto(t, "close")
            /\ closing' = [closing EXCEPT ![t] = console]
            /\ KeepThread
       ELSE Ended(t) /\ UNCHANGED closing
    /\ UNCHANGED <<configvars, connectstate, console, isondemand, isalive,
                   livesessions, reconnect, init, link, events, neglected>>

\* ... otherwise it is closed, and then there is none, whichever there is.
Closed(t) ==
    /\ pc[t] = "close"
    /\ link' = Down(closing[t])
    /\ console' = None
    /\ connectstate' = "unconnected"
    /\ closing' = [closing EXCEPT ![t] = None]
    /\ Ended(t)
    /\ UNCHANGED <<configvars, isondemand, isalive, livesessions, reconnect,
                   init, events, neglected>>

-----------------------------------------------------------------------------
(* Clients: ConsoleSession.create, attachsession, destroy.                 *)

\* create spawns delayinit, which replays the buffer first ...
Open(s) ==
    /\ pc[s] = "new" /\ exists
    /\ Goto(s, "idle")
    /\ init' = [init EXCEPT ![s] = "replay"]
    /\ UNCHANGED <<configvars, connectstate, console, isondemand, isalive,
                   livesessions, threadvars, closing, link, events, overlapped,
                   neglected>>

\* ... and attaches the session, even if it was destroyed meanwhile.  The
\* clients are told how many they are ...
Attach(s) ==
    /\ init[s] = "replay"
    /\ livesessions' = livesessions \cup {s}
    /\ init' = [init EXCEPT ![s] = "attach"]
    /\ UNCHANGED <<configvars, connectstate, console, isondemand, isalive,
                   threadvars, pc, closing, link, events, overlapped,
                   neglected>>

\* ... and only a console that is unconnected then is connected.
Attached(s) ==
    /\ init[s] = "attach"
    /\ init' = [init EXCEPT ![s] = "none"]
    /\ IF connectstate = "unconnected"
       THEN /\ reconnect' = FALSE
            /\ connectstate' = "connecting"
            /\ Connect
       ELSE /\ overlapped' = (overlapped \/ (isalive /\ Disconnecting # {}))
            /\ UNCHANGED <<connectstate, threadvars>>
    /\ UNCHANGED <<configvars, console, isondemand, isalive, livesessions, pc,
                   closing, link, events, neglected>>

\* destroy, detachsession: the others are told, the last one disconnects.
Detach(s) ==
    /\ pc[s] = "idle"
    /\ livesessions' = livesessions \ {s}
    /\ Goto(s, "detach")
    /\ UNCHANGED <<configvars, connectstate, console, isondemand, isalive,
                   threadvars, init, closing, link, events, overlapped,
                   neglected>>

Detached(s) ==
    /\ pc[s] = "detach"
    /\ IF isondemand /\ livesessions = {} THEN Disconnect(s)
       ELSE Goto(s, "gone") /\ KeepThread
    /\ UNCHANGED <<configvars, connectstate, console, isondemand, isalive,
                   livesessions, reconnect, init, closing, link, events,
                   neglected>>

-----------------------------------------------------------------------------
(* The configuration.  A change is made when the callback of the last one  *)
(* has returned.                                                           *)

\* ondemand_init, after clearbuffer.
OndemandInit ==
    /\ pc[Admin] = "init"
    /\ Goto(Admin, "idle")
    /\ isondemand' = ~always
    /\ IF always THEN connectstate' = "connecting" /\ Connect
       ELSE UNCHANGED connectstate /\ KeepThread
    /\ UNCHANGED <<configvars, console, isalive, livesessions, reconnect, init,
                   closing, link, events, neglected>>

\* console.logging changes, to a console on demand: _ondemand ...
SetOndemand ==
    /\ pc[Admin] = "idle" /\ exists /\ always
    /\ Event
    /\ always' = FALSE /\ isondemand' = TRUE
    /\ IF livesessions = {} /\ console # None THEN Disconnect(Admin)
       ELSE /\ IF livesessions # {} THEN Connect
               ELSE KeepThread
            /\ UNCHANGED pc
    /\ UNCHANGED <<exists, method, connectstate, console, isalive,
                   livesessions, reconnect, init, closing, link, neglected>>

\* ... or to one that is always on: _alwayson connects when there is neither
\* a console nor a thread, and pings the console otherwise.
SetAlwayson ==
    /\ pc[Admin] = "idle" /\ exists /\ ~always
    /\ Event
    /\ always' = TRUE /\ isondemand' = FALSE
    /\ IF console = None /\ thread = "none" THEN Connect
       ELSE KeepThread
    /\ neglected' = (neglected \/ Disconnecting # {} \/ (console = None /\ Unmade))
    /\ UNCHANGED <<exists, method, connectstate, console, isalive,
                   livesessions, reconnect, taskvars, link>>

\* console.method changes: _attribschanged.
SetMethod ==
    /\ pc[Admin] = "idle" /\ exists
    /\ Event
    /\ method' = ~method
    /\ IF ~isondemand \/ livesessions # {} THEN Connect
       ELSE KeepThread
    /\ neglected' = (neglected \/ (isondemand /\ livesessions = {} /\ Unmade))
    /\ UNCHANGED <<exists, always, connectstate, console, isondemand, isalive,
                   livesessions, reconnect, taskvars, link>>

\* The node is deleted: disconnect_node closes the handler, which first tells
\* the clients ...
Delete ==
    /\ pc[Admin] = "idle" /\ exists
    /\ exists' = FALSE /\ isalive' = FALSE
    /\ Goto(Admin, "delete")
    /\ UNCHANGED <<always, method, connectstate, console, isondemand,
                   livesessions, threadvars, init, closing, link, events,
                   overlapped, neglected>>

\* ... and then disconnects.
CloseHandler ==
    /\ pc[Admin] = "delete"
    /\ Disconnect(Admin)
    /\ UNCHANGED <<configvars, connectstate, console, isondemand, isalive,
                   livesessions, reconnect, init, closing, link, events,
                   neglected>>

-----------------------------------------------------------------------------
\* What the event loop does by itself, once it has begun.
Progress ==
    \/ Thread \/ TimerFires
    \/ \E t \in Task : Dropped(t) \/ Redial(t) \/ Cleared(t) \/ Closed(t)
    \/ \E s \in Session : Attach(s) \/ Attached(s) \/ Detached(s)
    \/ OndemandInit \/ CloseHandler

Others ==
    \/ \E s \in Session : Open(s) \/ Detach(s) \/ Reopen(s) \/ WriteFails(s)
    \/ \E c \in Console : Lost(c)
    \/ SetOndemand \/ SetAlwayson \/ SetMethod \/ Delete

Next == Progress \/ Others

Spec == Init /\ [][Next]_vars

\* The event loop runs every task that can go on, timers fire, and a plugin
\* that connects or closes comes to an end.  Nobody has to open, to reopen or to
\* leave a console.
FairSpec == Spec /\ WF_vars(Progress)

-----------------------------------------------------------------------------
(* Properties.                                                             *)

TypeOK ==
    /\ exists \in BOOLEAN /\ always \in BOOLEAN /\ method \in BOOLEAN
    /\ connectstate \in {"unconnected", "connecting", "connected"}
    /\ console \in Console \cup {None}
    /\ isondemand \in BOOLEAN /\ isalive \in BOOLEAN
    /\ livesessions \subseteq Session
    /\ reconnect \in BOOLEAN
    /\ thread \in {"none", "begin", "close", "tell", "misconfigured",
                   "connect", "failed", "retry", "done"}
    /\ making \in Console \cup {None}
    /\ making # None <=> thread \in {"close", "connect"}
    /\ init \in [Session -> {"none", "replay", "attach"}]
    /\ pc \in [Task -> {"new", "init", "idle", "drop", "dropped", "clear",
                        "close", "detach", "delete", "gone"}]
    /\ closing \in [Task -> Console \cup {None}]
    /\ \A t \in Task : closing[t] # None <=> pc[t] \in {"drop", "close"}
    /\ link \in [Console -> {"down", "connecting", "up"}]
    /\ events \in Nat
    /\ overlapped \in BOOLEAN /\ neglected \in BOOLEAN

\* "The response to this will be to dispose of the Console object and try to
\* request a new one": however losses, retries, clients and the configuration
\* interrupt each other, a connection to the node is the handler's or is being
\* closed.  (A BMC has one console session; one that is forgotten takes it
\* from the handler for ever.)
OneConsole ==
    ~overlapped => Held \subseteq {console} \cup {closing[t] : t \in Task}

\* Somebody wants the console: it is always on, or a session is attached.
Wanted == isalive /\ method /\ (~isondemand \/ livesessions # {})
Up == connectstate = "connected" /\ console # None /\ link[console] = "up"

\* A console that is wanted is connected in the end.
Recovers == <>[](Wanted /\ ~overlapped /\ ~neglected => Up)
=============================================================================
