---------------------------- MODULE IpmiSessions ----------------------------
(* Sessions of aiohmi/ipmi/private/session.py that callers share: Session(...)   *)
(* gives a caller the session that others have with the BMC under the same       *)
(* credentials, waits for one that is still logging in, or sets up a new one;    *)
(* logout gives it up, and the last caller out closes it.  Callers are asyncio   *)
(* tasks: an action is what one of them does between two waits.                  *)
(*                                                                               *)
(* There is one BMC.  Sessions share UDP sockets, and what arrives at a socket   *)
(* is handed to the session that bmc_handlers names for it.                      *)
EXTENDS Naturals, FiniteSets

CONSTANTS
  Caller,       \* tasks that talk to the BMC
  Other,        \* the callers that use other credentials than the rest
  Session,      \* session objects, each used once
  Socket,       \* sockets that may be opened
  MaxPerSocket, \* MAX_BMCS_PER_SOCKET
  None,
  MaxLoss,      \* failed logins and timeouts of established sessions
  MaxError      \* exceptions while a session is being set up

ASSUME SessionsAssumption ==
  /\ Other \subseteq Caller
  /\ IsFiniteSet(Caller) /\ IsFiniteSet(Session)
  /\ None \notin Session \cup Socket \cup Nat
  /\ None \notin BOOLEAN
  /\ MaxPerSocket \in Nat \ {0}
  /\ MaxLoss \in Nat
  /\ MaxError \in Nat

VARIABLES
  pc,         \* of a caller: idle, assign, send, login, wait, hold, leave
  mine,       \* the session a caller sets up, waits for or holds
  forbidden,  \* forbidsock: sockets a caller may not use for a new session
  cred,       \* credentials of a session, None until the object is used
  logging, logged, broken,
  users,      \* callers a session counts
  socket,     \* socket of a session
  claimed,    \* _socketclaimed: the session holds its count in the pool
  closing,    \* sessions a failure is bringing down
  handlers,   \* bmc_handlers: the session that gets what arrives at a socket
  initting,   \* initting_sessions: the session being set up, by credentials
  socketpool, \* the sessions counted for a socket, None before it is opened
  losses, errors

vars == <<pc, mine, forbidden, cred, logging, logged, broken, users, socket,
          claimed, closing, handlers, initting, socketpool, losses, errors>>
callers == <<pc, mine, forbidden>>
flags == <<logging, logged, broken>>
pool == <<socket, claimed, socketpool>>
counters == <<losses, errors>>

CredOf(c) == c \in Other      \* two kinds of credentials

Init ==
  /\ pc = [c \in Caller |-> "idle"]
  /\ mine = [c \in Caller |-> None]
  /\ forbidden = [c \in Caller |-> {}]
  /\ cred = [s \in Session |-> None]
  /\ logging = [s \in Session |-> FALSE]
  /\ logged = [s \in Session |-> FALSE]
  /\ broken = [s \in Session |-> FALSE]
  /\ users = [s \in Session |-> 0]
  /\ socket = [s \in Session |-> None]
  /\ claimed = [s \in Session |-> FALSE]
  /\ closing = {}
  /\ handlers = [k \in Socket |-> None]
  /\ initting = [d \in BOOLEAN |-> None]
  /\ socketpool = [k \in Socket |-> None]
  /\ losses = 0
  /\ errors = 0

----------------------------------------------------------------------------
(* Getting a session.                                                            *)

(* _is_session_valid and the flags __new__ looks at before.                      *)
Valid(s) == s # None /\ (logged[s] \/ logging[s]) /\ ~broken[s]

(* Entries that __new__ finds for the BMC, without the leftovers it deletes.     *)
Kept == [k \in Socket |-> IF Valid(handlers[k]) THEN handlers[k] ELSE None]
Candidates == {Kept[k] : k \in Socket} \ {None}

(* The session that another caller sets up with the credentials of a caller.     *)
\* Mutant of Pending: it is registered only when its login is over.
PendingLate(c) ==
  IF initting[CredOf(c)] # None /\ logged[initting[CredOf(c)]]
  THEN initting[CredOf(c)] ELSE None

Pending(c) == initting[CredOf(c)]

\* Mutant of Join: a caller is counted before it waits.
JoinCountedEarly(c, s) ==
  /\ mine' = [mine EXCEPT ![c] = s]
  /\ pc' = [pc EXCEPT ![c] = IF logged[s] THEN "hold" ELSE "wait"]
  /\ users' = [users EXCEPT ![s] = @ + 1]

(* _await_login, and the caller is counted once it really gets the session.      *)
Join(c, s) ==
  /\ mine' = [mine EXCEPT ![c] = s]
  /\ IF logged[s]
     THEN /\ pc' = [pc EXCEPT ![c] = "hold"]
          /\ users' = [users EXCEPT ![s] = @ + 1]
     ELSE /\ pc' = [pc EXCEPT ![c] = "wait"]
          /\ UNCHANGED users

(* The object that a caller creates: which of the unused ones makes no matter.   *)
Unused == {s \in Session : cred[s] = None}
NewSession == CHOOSE s \in Unused : TRUE

(* __new__: a session with the same credentials that works or is logging in, one *)
(* that is being set up, or a new one, which may not use the socket of a session *)
(* with other credentials.                                                       *)
Lookup(c) ==
  /\ pc[c] = "idle"
  /\ handlers' = Kept
  /\ \/ \E s \in Candidates :
          /\ cred[s] = CredOf(c)
          /\ Join(c, s)
          /\ UNCHANGED <<forbidden, cred, initting>>
     \/ /\ ~\E s \in Candidates : cred[s] = CredOf(c)
        /\ Pending(c) # None
        /\ Join(c, Pending(c))
        /\ UNCHANGED <<forbidden, cred, initting>>
     \/ /\ ~\E s \in Candidates : cred[s] = CredOf(c)
        /\ Pending(c) = None
        /\ Unused # {}
        /\ cred' = [cred EXCEPT ![NewSession] = CredOf(c)]
        /\ initting' = [initting EXCEPT ![CredOf(c)] = NewSession]
        /\ mine' = [mine EXCEPT ![c] = NewSession]
        /\ users' = [users EXCEPT ![NewSession] = 1]
        /\ forbidden' = [forbidden EXCEPT ![c] = {socket[s] : s \in Candidates}]
        /\ pc' = [pc EXCEPT ![c] = "assign"]
  /\ UNCHANGED <<flags, pool, closing, counters>>

(* The caller that sets a session up leaves __new__ with an exception: the only  *)
(* thing undone is the entry in initting_sessions.                               *)
SetupFails(c) ==
  /\ pc[c] \in {"assign", "send"}
  /\ errors < MaxError
  /\ errors' = errors + 1
  /\ pc' = [pc EXCEPT ![c] = "idle"]
  /\ mine' = [mine EXCEPT ![c] = None]
  /\ initting' = [initting EXCEPT ![CredOf(c)] = None]
  /\ UNCHANGED <<forbidden, cred, flags, users, pool, closing, handlers, losses>>

(* _assignsocket: the least used socket that is open, has room and is not        *)
(* forbidden, or else a new one.                                                 *)
Usable(c) ==
  {k \in Socket : socketpool[k] # None /\ k \notin forbidden[c]
                  /\ socketpool[k] < MaxPerSocket}

Assigned(c) ==
  {k \in Usable(c) : \A l \in Usable(c) : socketpool[k] <= socketpool[l]}

NewSocket == CHOOSE k \in Socket : socketpool[k] = None

AssignSocket(c) ==
  LET s == mine[c]
  IN  /\ pc[c] = "assign"
      /\ \E k \in Socket :
           /\ IF Usable(c) = {} THEN socketpool[k] = None /\ k = NewSocket
              ELSE k \in Assigned(c)
           /\ socket' = [socket EXCEPT ![s] = k]
           /\ socketpool' =
                [socketpool EXCEPT ![k] = IF @ = None THEN 1 ELSE @ + 1]
      /\ claimed' = [claimed EXCEPT ![s] = TRUE]
      /\ pc' = [pc EXCEPT ![c] = "send"]
      /\ UNCHANGED <<mine, forbidden, cred, flags, users, closing, handlers,
                     initting, counters>>

(* login up to its first packet, which _xmit_packet sends once the address is    *)
(* known: from now on the session is in bmc_handlers.                            *)
Send(c) ==
  LET s == mine[c]
  IN  /\ pc[c] = "send"
      /\ handlers' = [handlers EXCEPT ![socket[s]] = s]
      /\ logging' = [logging EXCEPT ![s] = TRUE]
      /\ pc' = [pc EXCEPT ![c] = "login"]
      /\ UNCHANGED <<mine, forbidden, cred, logged, broken, users, pool, closing,
                     initting, counters>>

(* __init__ waits for the end of the login.                                      *)
SetupDone(c) ==
  /\ pc[c] = "login"
  /\ ~logging[mine[c]] \/ broken[mine[c]]
  /\ initting' = [initting EXCEPT ![CredOf(c)] = None]
  /\ IF broken[mine[c]]
     THEN /\ pc' = [pc EXCEPT ![c] = "idle"]
          /\ mine' = [mine EXCEPT ![c] = None]
     ELSE /\ pc' = [pc EXCEPT ![c] = "hold"]
          /\ UNCHANGED mine
  /\ UNCHANGED <<forbidden, cred, flags, users, pool, closing, handlers, counters>>

\* Mutant of WaitDone: only a login that succeeds ends the wait.
WaitDoneLogged(c) ==
  LET s == mine[c]
  IN  /\ pc[c] = "wait"
      /\ logged[s]
      /\ pc' = [pc EXCEPT ![c] = "hold"]
      /\ users' = [users EXCEPT ![s] = @ + 1]
      /\ UNCHANGED <<mine, forbidden, cred, flags, pool, closing, handlers,
                     initting, counters>>

(* A caller that waited for the login of another one has its answer.             *)
WaitDone(c) ==
  LET s == mine[c]
  IN  /\ pc[c] = "wait"
      /\ logged[s] \/ broken[s]
      /\ IF broken[s]
         THEN /\ pc' = [pc EXCEPT ![c] = "idle"]
              /\ mine' = [mine EXCEPT ![c] = None]
              /\ UNCHANGED users
         ELSE /\ pc' = [pc EXCEPT ![c] = "hold"]
              /\ users' = [users EXCEPT ![s] = @ + 1]
              /\ UNCHANGED mine
      /\ UNCHANGED <<forbidden, cred, flags, pool, closing, handlers, initting,
                     counters>>

----------------------------------------------------------------------------
(* The login and the loss of a session.                                          *)

Reachable(s) == handlers[socket[s]] = s

(* RAKP4 arrived: _req_priv_level counts the session as logged in already.       *)
LoggedIn(s) ==
  /\ logging[s] /\ ~logged[s] /\ Reachable(s)
  /\ logged' = [logged EXCEPT ![s] = TRUE]
  /\ UNCHANGED <<callers, cred, logging, broken, users, pool, closing, handlers,
                 initting, counters>>

(* The privilege level was granted.                                              *)
Granted(s) ==
  /\ logging[s] /\ logged[s] /\ s \notin closing /\ Reachable(s)
  /\ logging' = [logging EXCEPT ![s] = FALSE]
  /\ UNCHANGED <<callers, cred, logged, broken, users, pool, closing, handlers,
                 initting, counters>>

(* Packets of an established session time out: _relog starts over.               *)
Relog(s) ==
  /\ logged[s] /\ ~logging[s] /\ ~broken[s] /\ s \notin closing
  /\ losses < MaxLoss
  /\ losses' = losses + 1
  /\ logging' = [logging EXCEPT ![s] = TRUE]
  /\ logged' = [logged EXCEPT ![s] = FALSE]
  /\ handlers' = [handlers EXCEPT ![socket[s]] = s]
  /\ UNCHANGED <<callers, cred, broken, users, pool, closing, initting, errors>>

\* Mutant of Down: gives the place back without asking whether it still holds it.
DownUnclaimed(s) ==
  /\ logged' = [logged EXCEPT ![s] = FALSE]
  /\ logging' = [logging EXCEPT ![s] = FALSE]
  /\ broken' = [broken EXCEPT ![s] = TRUE]
  /\ handlers' = IF broken[s] THEN handlers
                 ELSE [handlers EXCEPT ![socket[s]] = None]
  /\ claimed' = [claimed EXCEPT ![s] = FALSE]
  /\ socketpool' = [socketpool EXCEPT ![socket[s]] = @ - 1]
  /\ UNCHANGED socket

(* The end of logout: the session is out of use and its place in the pool free.  *)
(* The entry in bmc_handlers goes, whatever session it names.                    *)
Down(s) ==
  /\ logged' = [logged EXCEPT ![s] = FALSE]
  /\ logging' = [logging EXCEPT ![s] = FALSE]
  /\ broken' = [broken EXCEPT ![s] = TRUE]
  /\ handlers' = IF broken[s] THEN handlers
                 ELSE [handlers EXCEPT ![socket[s]] = None]
  /\ claimed' = [claimed EXCEPT ![s] = FALSE]
  /\ socketpool' = IF claimed[s]
                   THEN [socketpool EXCEPT ![socket[s]] = @ - 1]
                   ELSE socketpool
  /\ UNCHANGED socket

(* _mark_broken, when a login fails or nothing is left to try: nobody counts any *)
(* more.  A session that is logged in says goodbye first, which takes time.      *)
MarkBroken(s) ==
  /\ logging[s] \/ logged[s]
  /\ s \notin closing /\ ~broken[s]
  /\ losses < MaxLoss \/ ~Reachable(s)
  /\ losses' = IF Reachable(s) THEN losses + 1 ELSE losses
  /\ users' = [users EXCEPT ![s] = 0]
  /\ IF logged[s]
     THEN /\ closing' = closing \cup {s}
          /\ UNCHANGED <<flags, pool, handlers>>
     ELSE /\ Down(s)
          /\ UNCHANGED closing
  /\ UNCHANGED <<callers, cred, initting, errors>>

MarkedBroken(s) ==
  /\ s \in closing
  /\ closing' = closing \ {s}
  /\ Down(s)
  /\ UNCHANGED <<callers, cred, users, initting, counters>>

(* logout: a caller that is not the last one only gives up its claim.            *)
Logout(c) ==
  LET s == mine[c]
  IN  /\ pc[c] = "hold"
      /\ IF users[s] > 1 /\ ~broken[s]
         THEN /\ users' = [users EXCEPT ![s] = @ - 1]
              /\ pc' = [pc EXCEPT ![c] = "idle"]
              /\ mine' = [mine EXCEPT ![c] = None]
              /\ UNCHANGED <<flags, pool, handlers>>
         ELSE /\ users' = [users EXCEPT ![s] = 0]
              /\ IF logged[s]
                 THEN /\ pc' = [pc EXCEPT ![c] = "leave"]
                      /\ UNCHANGED <<mine, flags, pool, handlers>>
                 ELSE /\ Down(s)
                      /\ pc' = [pc EXCEPT ![c] = "idle"]
                      /\ mine' = [mine EXCEPT ![c] = None]
      /\ UNCHANGED <<forbidden, cred, closing, initting, counters>>

(* The BMC was told to close the session.                                        *)
LoggedOut(c) ==
  /\ pc[c] = "leave"
  /\ Down(mine[c])
  /\ pc' = [pc EXCEPT ![c] = "idle"]
  /\ mine' = [mine EXCEPT ![c] = None]
  /\ UNCHANGED <<forbidden, cred, users, closing, initting, counters>>

----------------------------------------------------------------------------
Next ==
  \/ \E c \in Caller :
       \/ Lookup(c) \/ SetupFails(c) \/ AssignSocket(c) \/ Send(c)
       \/ SetupDone(c) \/ WaitDone(c) \/ Logout(c) \/ LoggedOut(c)
  \/ \E s \in Session :
       \/ LoggedIn(s) \/ Granted(s) \/ Relog(s) \/ MarkBroken(s) \/ MarkedBroken(s)

Spec == Init /\ [][Next]_vars

(* Tasks run, and a login ends: with an answer, or when its retries are used up. *)
FairSpec ==
  /\ Spec
  /\ \A c \in Caller :
       WF_vars(AssignSocket(c) \/ Send(c) \/ SetupDone(c) \/ WaitDone(c)
               \/ LoggedOut(c))
  /\ \A s \in Session :
       WF_vars(LoggedIn(s) \/ Granted(s) \/ MarkBroken(s) \/ MarkedBroken(s))

----------------------------------------------------------------------------
TypeOK ==
  /\ pc \in [Caller -> {"idle", "assign", "send", "login", "wait", "hold", "leave"}]
  /\ mine \in [Caller -> Session \cup {None}]
  /\ forbidden \in [Caller -> SUBSET Socket]
  /\ cred \in [Session -> BOOLEAN \cup {None}]
  /\ logging \in [Session -> BOOLEAN]
  /\ logged \in [Session -> BOOLEAN]
  /\ broken \in [Session -> BOOLEAN]
  /\ users \in [Session -> Nat]
  /\ socket \in [Session -> Socket \cup {None}]
  /\ claimed \in [Session -> BOOLEAN]
  /\ closing \subseteq Session
  /\ handlers \in [Socket -> Session \cup {None}]
  /\ initting \in [BOOLEAN -> Session \cup {None}]
  /\ socketpool \in [Socket -> Nat \cup {None}]
  /\ losses \in 0..MaxLoss /\ errors \in 0..MaxError

(* A count in the socket pool is the number of sessions that still hold a place  *)
(* on the socket, however often and by whomever they are ended.                  *)
PoolAgrees ==
  \A k \in Socket : socketpool[k] # None =>
    socketpool[k] = Cardinality({s \in Session : claimed[s] /\ socket[s] = k})

Leaving(s) == s \in closing \/ \E c \in Caller : pc[c] = "leave" /\ mine[c] = s

Holders(s) ==
  {c \in Caller : mine[c] = s /\ pc[c] \in {"assign", "send", "login", "hold"}}

(* A working session counts exactly the callers that have it: none that only     *)
(* waits for it, none that left, and the one that set it up once.  A count too   *)
(* low would close it under somebody, one too high would never close it.         *)
UsersAgree ==
  \A s \in Session : logged[s] /\ ~broken[s] /\ ~Leaving(s) =>
    users[s] = Cardinality(Holders(s))

(* Callers with the same credentials share one session: there are two that work  *)
(* or log in with the same credentials only if a session with other credentials  *)
(* was given the socket of one of them, which hides it from __new__.             *)
SessionShared ==
  \A s, t \in Session :
    Valid(s) /\ Valid(t) /\ cred[s] = cred[t] /\ s # t =>
      \E u \in Session : /\ cred[u] \notin {None, cred[s]}
                         /\ socket[u] \in {socket[s], socket[t]}

(* The session that was left by the exception of the caller that set it up:      *)
(* nothing will log it in or break it.                                           *)
Orphaned(s) ==
  /\ ~logging[s] /\ ~logged[s] /\ ~broken[s]
  /\ ~\E c \in Caller : mine[c] = s /\ pc[c] \in {"assign", "send"}

(* A caller that waits for the login of another one gets its answer, unless the  *)
(* session was orphaned.                                                         *)
WaiterAnswered ==
  \A c \in Caller :
    pc[c] = "wait" ~> pc[c] # "wait" \/ Orphaned(mine[c])

(* _await_login gives the caller that waits the same answer as the caller that   *)
(* built the session, an exception included.                                     *)
SameAnswer == \A c \in Caller : pc[c] = "wait" ~> pc[c] # "wait"

(* A caller that leaves a session that works leaves it to whoever holds it.      *)
HeldNotClosed ==
  [][\A c \in Caller : LoggedOut(c) =>
       ~\E d \in Caller : pc[d] = "hold" /\ mine[d] = mine[c]]_vars

(* No two sessions with the BMC share a socket: the share routing code would     *)
(* confuse them.                                                                 *)
RouteOwned == \A s \in Session : Valid(s) /\ ~Leaving(s) => Reachable(s)

=============================================================================
