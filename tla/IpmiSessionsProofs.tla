------------------------- MODULE IpmiSessionsProofs -------------------------
(* Proofs about IpmiSessions: type correctness, that the count of a socket *)
(* is the number of sessions that hold a place on it, that a session counts *)
(* the callers that have it, and that sessions are shared, for any callers, *)
(* credentials, sessions, sockets, failures and exceptions.                *)
EXTENDS IpmiSessions, FiniteSetTheorems, TLAPS

\* Who has a session object, or is registered with one, has it with its
\* credentials; no two callers set up the same object.
Owned == \A c \in Caller : pc[c] # "idle" => mine[c] # None /\ cred[mine[c]] # None
Pended == \A d \in BOOLEAN : initting[d] # None => cred[initting[d]] # None
Fresh == \A c \in Caller : pc[c] = "assign" =>
           /\ ~claimed[mine[c]]
           /\ \A d \in Caller : pc[d] = "assign" /\ mine[d] = mine[c] => d = c

\* A session that holds a place holds it on an open socket.
Opened == \A s \in Session : claimed[s] =>
            socket[s] # None /\ socketpool[socket[s]] # None /\ cred[s] # None

\* A session that logs in, works or is about to has a socket.
Placed ==
  /\ \A s \in Session : logging[s] \/ logged[s] => socket[s] # None
  /\ \A c \in Caller : pc[c] = "send" => socket[mine[c]] # None

\* What makes TypeOK and PoolAgrees inductive: a count is lowered only by a
\* session that holds a place, so it is not zero, and raised only for one that
\* holds none.
PoolInv == TypeOK /\ PoolAgrees /\ Owned /\ Pended /\ Fresh /\ Opened /\ Placed

Place(k) == {s \in Session : claimed[s] /\ socket[s] = k}

\* There are finitely many sessions.
LEMMA PlacesFinite ==
  ASSUME NEW k PROVE IsFiniteSet(Place(k)) /\ Cardinality(Place(k)) \in Nat
  BY SessionsAssumption, FS_Subset, FS_CardinalityType DEF Place

\* Callers of a session have credentials.
LEMMA CredType ==
  \A c \in Caller : CredOf(c) \in BOOLEAN /\ CredOf(c) # None
  <1>1. \A b \in BOOLEAN : b # None
    BY SessionsAssumption
  <1>2. \A c \in Caller : CredOf(c) \in BOOLEAN
    BY DEF CredOf
  <1> QED BY <1>1, <1>2, Zenon

\* No session holds a place at first.
LEMMA InitPool == Init => PoolInv
  <1> SUFFICES ASSUME Init PROVE PoolInv
    OBVIOUS
  <1>1. TypeOK
    BY SessionsAssumption DEF Init, TypeOK
  <1>2. PoolAgrees /\ Owned /\ Pended /\ Fresh /\ Opened /\ Placed
    BY DEF Init, PoolAgrees, Owned, Pended, Fresh, Opened, Placed
  <1> QED BY <1>1, <1>2 DEF PoolInv

\* The steps that leave the pool alone.
LEMMA PoolStays ==
  ASSUME PoolInv, UNCHANGED pool PROVE PoolAgrees'
  BY DEF PoolInv, PoolAgrees, pool

\* A session that goes down gives its place back, if it has one.
LEMMA DownPool ==
  ASSUME PoolInv, NEW s \in Session, Down(s)
  PROVE  /\ socketpool' \in [Socket -> Nat \cup {None}]
         /\ claimed' \in [Session -> BOOLEAN]
         /\ handlers' \in [Socket -> Session \cup {None}]
         /\ \A t \in Session : claimed'[t] => claimed[t]
         /\ \A k \in Socket : socketpool[k] # None => socketpool'[k] # None
         /\ PoolAgrees'
  <1> USE DEF PoolInv, TypeOK, Down
  <1>1. claimed' \in [Session -> BOOLEAN] /\ \A t \in Session : claimed'[t] => claimed[t]
    BY Zenon
  <1>2. handlers' \in [Socket -> Session \cup {None}]
    OBVIOUS
  <1>3. CASE ~claimed[s]
    <2>1. socketpool' = socketpool /\ claimed' = claimed /\ socket' = socket
      BY <1>3
    <2> QED BY <1>1, <1>2, <2>1 DEF PoolAgrees
  <1>4. CASE claimed[s]
    <2> DEFINE k == socket[s]
    <2>1. k \in Socket /\ socketpool[k] # None
      BY <1>4 DEF Opened
    <2>2. socketpool' = [socketpool EXCEPT ![k] = socketpool[k] - 1]
      BY <1>4
    <2>3. \A l \in Socket : Place(l)' = IF l = k THEN Place(k) \ {s} ELSE Place(l)
      BY <1>4, <1>1 DEF Place
    <2>4. s \in Place(k)
      BY <1>4 DEF Place
    <2>5. Cardinality(Place(k) \ {s}) = Cardinality(Place(k)) - 1
      <3>1. IsFiniteSet(Place(k))
        BY PlacesFinite
      <3> HIDE DEF k
      <3> QED BY <2>4, <3>1, FS_RemoveElement
    <2>6. socketpool[k] = Cardinality(Place(k))
      BY <2>1 DEF PoolAgrees, Place
    <2>7. Cardinality(Place(k) \ {s}) \in Nat
      BY PlacesFinite, FS_RemoveElement, FS_CardinalityType
    <2>8. socketpool[k] - 1 \in Nat /\ socketpool[k] - 1 = Cardinality(Place(k) \ {s})
      BY <2>5, <2>6, <2>7
    <2>9. socketpool' \in [Socket -> Nat \cup {None}]
      BY <2>2, <2>8
    <2>10. ASSUME NEW l \in Socket, socketpool'[l] # None
           PROVE  socketpool'[l] = Cardinality(Place(l)')
      BY <2>1, <2>2, <2>3, <2>8, <2>10 DEF PoolAgrees, Place
    <2>11. PoolAgrees'
      BY <2>10 DEF PoolAgrees, Place
    <2>12. \A l \in Socket : socketpool[l] # None => socketpool'[l] # None
      BY <2>1, <2>2, <2>8, SessionsAssumption
    <2> QED BY <1>1, <1>2, <2>9, <2>11, <2>12
  <1> QED BY <1>3, <1>4

\* Whatever else a step that takes a session down does, if it takes callers
\* only away the invariant holds afterwards.
LEMMA DownStep ==
  ASSUME PoolInv, NEW s \in Session, Down(s), UNCHANGED <<cred, initting, forbidden>>,
         users' \in [Session -> Nat], closing' \subseteq Session,
         losses' \in 0..MaxLoss, errors' \in 0..MaxError,
         pc' \in [Caller -> {"idle", "assign", "send", "login", "wait", "hold", "leave"}],
         mine' \in [Caller -> Session \cup {None}],
         \A c \in Caller : pc'[c] = "idle" \/ (pc'[c] = pc[c] /\ mine'[c] = mine[c])
  PROVE  PoolInv'
  <1>1. /\ socketpool' \in [Socket -> Nat \cup {None}]
        /\ claimed' \in [Session -> BOOLEAN]
        /\ handlers' \in [Socket -> Session \cup {None}]
        /\ \A t \in Session : claimed'[t] => claimed[t]
        /\ \A k \in Socket : socketpool[k] # None => socketpool'[k] # None
        /\ PoolAgrees'
    BY DownPool
  <1>2. /\ logged' \in [Session -> BOOLEAN]
        /\ logging' \in [Session -> BOOLEAN]
        /\ broken' \in [Session -> BOOLEAN]
    BY Zenon DEF PoolInv, TypeOK, Down
  <1>3. TypeOK'
    BY <1>1, <1>2 DEF PoolInv, TypeOK, Down
  <1>4. Owned' /\ Pended'
    BY DEF PoolInv, Owned, Pended
  <1>5. Fresh'
    BY <1>1 DEF PoolInv, TypeOK, Fresh, Owned
  <1>6. Opened'
    BY <1>1 DEF PoolInv, TypeOK, Opened, Down
  <1>7. Placed'
    <2>1. \A t \in Session : logging'[t] \/ logged'[t] => logging[t] \/ logged[t]
      BY Zenon DEF PoolInv, TypeOK, Down
    <2>2. UNCHANGED socket
      BY DEF Down
    <2> QED BY <2>1, <2>2 DEF PoolInv, Placed
  <1> QED BY <1>1, <1>3, <1>4, <1>5, <1>6, <1>7 DEF PoolInv

\* Every action keeps the types, and with them the counts.
LEMMA PoolStep == PoolInv /\ [Next]_vars => PoolInv'
  <1> SUFFICES ASSUME PoolInv, [Next]_vars PROVE PoolInv'
    OBVIOUS
  <1> USE SessionsAssumption DEF PoolInv, TypeOK, callers, flags, pool, counters,
          Owned, Pended, Fresh, Opened, Placed
  <1>0. \A c \in Caller : CredOf(c) \in BOOLEAN /\ CredOf(c) # None
    BY CredType
  <1>1. ASSUME NEW c \in Caller, Lookup(c) PROVE PoolInv'
    <2>1. /\ Kept \in [Socket -> Session \cup {None}]
          /\ Candidates \subseteq Session
          /\ \A s \in Candidates : socket[s] # None
      BY DEF Kept, Candidates, Valid
    <2>2. UNCHANGED <<flags, pool, closing, counters>> /\ handlers' = Kept
      BY <1>1 DEF Lookup
    <2>3. PoolAgrees'
      BY <2>2, PoolStays
    <2>4. ASSUME NEW s \in Session, cred[s] # None, Join(c, s),
                 UNCHANGED <<forbidden, cred, initting>>
          PROVE  PoolInv'
      <3>1. mine' = [mine EXCEPT ![c] = s] /\ UNCHANGED <<forbidden, cred, initting>>
        BY <2>4 DEF Join
      <3>2. \/ pc' = [pc EXCEPT ![c] = "hold"] /\ users' = [users EXCEPT ![s] = @ + 1]
            \/ pc' = [pc EXCEPT ![c] = "wait"] /\ UNCHANGED users
        BY <2>4 DEF Join
      <3>3. TypeOK'
        <4>1. /\ pc' \in [Caller -> {"idle", "assign", "send", "login", "wait", "hold", "leave"}]
              /\ users' \in [Session -> Nat]
          BY <3>2
        <4> QED BY <2>1, <2>2, <3>1, <4>1
      <3>4. Owned' /\ Pended' /\ Fresh' /\ Opened' /\ Placed'
        BY <2>2, <2>4, <3>1, <3>2
      <3> QED BY <2>3, <3>3, <3>4
    <2>5. CASE \E s \in Candidates : /\ cred[s] = CredOf(c)
                                      /\ Join(c, s)
                                      /\ UNCHANGED <<forbidden, cred, initting>>
      <3>1. PICK s \in Candidates : /\ cred[s] = CredOf(c)
                                     /\ Join(c, s)
                                     /\ UNCHANGED <<forbidden, cred, initting>>
        BY <2>5
      <3>2. s \in Session /\ cred[s] # None
        BY <1>0, <2>1, <3>1
      <3> QED BY <2>4, <3>1, <3>2
    <2>6. CASE /\ Pending(c) # None
               /\ Join(c, Pending(c))
               /\ UNCHANGED <<forbidden, cred, initting>>
      <3>1. initting[CredOf(c)] # None /\ initting[CredOf(c)] \in Session
        BY <1>0, <2>6 DEF Pending
      <3>2. cred[initting[CredOf(c)]] # None
        BY <1>0, <3>1
      <3> QED BY <2>4, <2>6, <3>1, <3>2 DEF Pending
    <2>7. ASSUME NEW s \in Session, cred[s] = None,
                 cred' = [cred EXCEPT ![s] = CredOf(c)],
                 initting' = [initting EXCEPT ![CredOf(c)] = s],
                 mine' = [mine EXCEPT ![c] = s],
                 users' = [users EXCEPT ![s] = 1],
                 forbidden' = [forbidden EXCEPT ![c] = {socket[t] : t \in Candidates}],
                 pc' = [pc EXCEPT ![c] = "assign"]
          PROVE  PoolInv'
      <3>0. {socket[t] : t \in Candidates} \subseteq Socket
        BY <2>1
      <3>1. TypeOK'
        <4>1. cred' \in [Session -> BOOLEAN \cup {None}]
          BY <1>0, <2>7
        <4>2. initting' \in [BOOLEAN -> Session \cup {None}]
          BY <1>0, <2>7
        <4>3. /\ pc' \in [Caller -> {"idle", "assign", "send", "login", "wait", "hold", "leave"}]
              /\ mine' \in [Caller -> Session \cup {None}]
              /\ forbidden' \in [Caller -> SUBSET Socket]
              /\ users' \in [Session -> Nat]
          BY <2>7, <3>0
        <4> QED BY <2>1, <2>2, <4>1, <4>2, <4>3
      <3>2. Owned' /\ Pended' /\ Opened' /\ Placed'
        BY <1>0, <2>2, <2>7
      <3>3. Fresh'
        BY <2>2, <2>7
      <3> QED BY <2>3, <3>1, <3>2, <3>3
    <2>8. CASE /\ Pending(c) = None
               /\ Unused # {}
               /\ cred' = [cred EXCEPT ![NewSession] = CredOf(c)]
               /\ initting' = [initting EXCEPT ![CredOf(c)] = NewSession]
               /\ mine' = [mine EXCEPT ![c] = NewSession]
               /\ users' = [users EXCEPT ![NewSession] = 1]
               /\ forbidden' = [forbidden EXCEPT ![c] = {socket[t] : t \in Candidates}]
               /\ pc' = [pc EXCEPT ![c] = "assign"]
      <3>1. NewSession \in Session /\ cred[NewSession] = None
        BY <2>8 DEF NewSession, Unused
      <3> QED BY <2>7, <2>8, <3>1
    <2> QED BY <1>1, <2>5, <2>6, <2>8 DEF Lookup
  <1>2. ASSUME NEW c \in Caller, SetupFails(c) PROVE PoolInv'
    <2>1. PoolAgrees'
      BY <1>2, PoolStays DEF SetupFails
    <2>2. initting' = [initting EXCEPT ![CredOf(c)] = None]
      BY <1>2 DEF SetupFails
    <2>3. initting' \in [BOOLEAN -> Session \cup {None}]
      BY <1>0, <2>2
    <2>4. Pended'
      BY <1>0, <1>2, <2>2 DEF SetupFails
    <2>5. TypeOK'
      BY <1>2, <2>3 DEF SetupFails
    <2>6. Owned' /\ Fresh' /\ Opened' /\ Placed'
      BY <1>2 DEF SetupFails
    <2> QED BY <2>1, <2>4, <2>5, <2>6
  <1>3. ASSUME NEW c \in Caller, AssignSocket(c) PROVE PoolInv'
    <2> DEFINE s == mine[c]
    <2>1. s \in Session /\ ~claimed[s] /\ cred[s] # None
      BY <1>3 DEF AssignSocket
    <2>2. PICK k \in Socket :
            /\ IF Usable(c) = {} THEN socketpool[k] = None /\ k = NewSocket
               ELSE k \in Assigned(c)
            /\ socket' = [socket EXCEPT ![s] = k]
            /\ socketpool' = [socketpool EXCEPT ![k] = IF @ = None THEN 1 ELSE @ + 1]
      BY <1>3 DEF AssignSocket
    <2>3. /\ claimed' = [claimed EXCEPT ![s] = TRUE]
          /\ pc[c] = "assign" /\ pc' = [pc EXCEPT ![c] = "send"]
          /\ UNCHANGED <<mine, forbidden, cred, flags, users, closing, handlers,
                         initting, counters>>
      BY <1>3 DEF AssignSocket
    <2>4. claimed' \in [Session -> BOOLEAN]
          /\ \A t \in Session : claimed'[t] <=> claimed[t] \/ t = s
      BY <2>1, <2>3, Zenon
    <2>5. \A l \in Socket : Place(l)' = IF l = k THEN Place(k) \cup {s} ELSE Place(l)
      BY <2>1, <2>2, <2>4 DEF Place
    <2>6. s \notin Place(k)
      BY <2>1 DEF Place
    <2>7. Cardinality(Place(k) \cup {s}) = Cardinality(Place(k)) + 1
      <3>1. IsFiniteSet(Place(k))
        BY PlacesFinite
      <3> HIDE DEF s
      <3> QED BY <2>6, <3>1, FS_AddElement
    <2>8. Cardinality(Place(k)) = IF socketpool[k] = None THEN 0 ELSE socketpool[k]
      <3>1. CASE socketpool[k] = None
        <4>1. Place(k) = {}
          BY <3>1 DEF Place
        <4> QED BY <3>1, <4>1, FS_EmptySet
      <3>2. CASE socketpool[k] # None
        BY <3>2 DEF PoolAgrees, Place
      <3> QED BY <3>1, <3>2
    <2>9. socketpool'[k] = Cardinality(Place(k)') /\ socketpool'[k] \in Nat
      <3>1. Place(k)' = Place(k) \cup {s}
        BY <2>5
      <3>2. Cardinality(Place(k)') = Cardinality(Place(k)) + 1
        BY <2>7, <3>1
      <3> QED BY <2>2, <2>8, <3>2
    <2>10. \A l \in Socket \ {k} : socketpool'[l] = socketpool[l]
      BY <2>2
    <2>11. PoolAgrees'
      <3> SUFFICES ASSUME NEW l \in Socket, socketpool'[l] # None
                   PROVE  socketpool'[l] = Cardinality(Place(l)')
        BY DEF PoolAgrees, Place
      <3>1. CASE l = k
        BY <2>9, <3>1
      <3>2. CASE l # k
        <4>1. socketpool[l] = Cardinality(Place(l)) /\ Place(l)' = Place(l)
          BY <2>5, <2>10, <3>2 DEF PoolAgrees, Place
        <4> QED BY <2>10, <3>2, <4>1
      <3> QED BY <3>1, <3>2
    <2>12. socketpool' \in [Socket -> Nat \cup {None}]
      BY <2>2
    <2>13. TypeOK'
      BY <2>1, <2>2, <2>3, <2>4, <2>12
    <2>14. Owned' /\ Pended' /\ Fresh'
      BY <2>1, <2>3, <2>4
    <2>15. Opened'
      BY <2>1, <2>2, <2>3, <2>4, <2>9, <2>10
    <2>16. Placed'
      BY <2>1, <2>2, <2>3
    <2> QED BY <2>11, <2>13, <2>14, <2>15, <2>16
  <1>4. ASSUME NEW c \in Caller, Send(c) PROVE PoolInv'
    <2>1. PoolAgrees'
      BY <1>4, PoolStays DEF Send
    <2> QED BY <1>4, <2>1 DEF Send
  <1>5. ASSUME NEW c \in Caller, SetupDone(c) PROVE PoolInv'
    <2>1. PoolAgrees'
      BY <1>5, PoolStays DEF SetupDone
    <2>2. initting' = [initting EXCEPT ![CredOf(c)] = None]
      BY <1>5 DEF SetupDone
    <2>3. initting' \in [BOOLEAN -> Session \cup {None}]
      BY <1>0, <2>2
    <2>4. Pended'
      BY <1>0, <1>5, <2>2 DEF SetupDone
    <2>5. TypeOK'
      BY <1>5, <2>3 DEF SetupDone
    <2>6. CASE broken[mine[c]]
      <3>1. /\ pc' = [pc EXCEPT ![c] = "idle"] /\ mine' = [mine EXCEPT ![c] = None]
            /\ UNCHANGED <<forbidden, cred, flags, users, pool, closing, handlers, counters>>
        BY <1>5, <2>6 DEF SetupDone
      <3> QED BY <2>1, <2>4, <2>5, <3>1
    <2>7. CASE ~broken[mine[c]]
      <3>1. /\ pc' = [pc EXCEPT ![c] = "hold"] /\ pc[c] = "login"
            /\ UNCHANGED <<mine, forbidden, cred, flags, users, pool, closing, handlers,
                           counters>>
        BY <1>5, <2>7 DEF SetupDone
      <3> QED BY <2>1, <2>4, <2>5, <3>1
    <2> QED BY <2>6, <2>7
  <1>6. ASSUME NEW c \in Caller, WaitDone(c) PROVE PoolInv'
    <2>1. PoolAgrees'
      BY <1>6, PoolStays DEF WaitDone
    <2>2. CASE broken[mine[c]]
      BY <1>6, <2>1, <2>2 DEF WaitDone
    <2>3. CASE ~broken[mine[c]]
      <3>1. mine[c] \in Session
        BY <1>6 DEF WaitDone
      <3>2. /\ pc' = [pc EXCEPT ![c] = "hold"]
            /\ users' = [users EXCEPT ![mine[c]] = @ + 1]
            /\ UNCHANGED <<mine, forbidden, cred, flags, pool, closing, handlers,
                           initting, counters>>
            /\ pc[c] = "wait"
        BY <1>6, <2>3 DEF WaitDone
      <3> QED BY <2>1, <3>1, <3>2
    <2> QED BY <2>2, <2>3
  <1>7. ASSUME NEW c \in Caller, Logout(c) PROVE PoolInv'
    <2> DEFINE s == mine[c]
    <2>1. s \in Session /\ pc[c] = "hold" /\ UNCHANGED <<forbidden, cred, closing, initting, counters>>
      BY <1>7 DEF Logout
    <2>2. CASE users[s] > 1 /\ ~broken[s]
      <3>1. /\ users' = [users EXCEPT ![s] = @ - 1]
            /\ pc' = [pc EXCEPT ![c] = "idle"]
            /\ mine' = [mine EXCEPT ![c] = None]
            /\ UNCHANGED <<flags, pool, handlers>>
        BY <1>7, <2>2 DEF Logout
      <3>2. users[s] - 1 \in Nat
        BY <2>1, <2>2
      <3>3. TypeOK'
        BY <2>1, <3>1, <3>2
      <3>4. PoolAgrees'
        BY <3>1, PoolStays
      <3> QED BY <2>1, <3>1, <3>3, <3>4
    <2>3. CASE ~(users[s] > 1 /\ ~broken[s])
      <3>1. users' = [users EXCEPT ![s] = 0]
        BY <1>7, <2>3 DEF Logout
      <3>2. CASE logged[s]
        <4>1. pc' = [pc EXCEPT ![c] = "leave"] /\ UNCHANGED <<mine, flags, pool, handlers>>
          BY <1>7, <2>3, <3>2 DEF Logout
        <4>2. PoolAgrees'
          BY <4>1, PoolStays
        <4> QED BY <2>1, <3>1, <4>1, <4>2
      <3>3. CASE ~logged[s]
        <4>1. /\ Down(s)
              /\ pc' = [pc EXCEPT ![c] = "idle"]
              /\ mine' = [mine EXCEPT ![c] = None]
          BY <1>7, <2>3, <3>3 DEF Logout
        <4> QED BY <2>1, <3>1, <4>1, DownStep
      <3> QED BY <3>2, <3>3
    <2> QED BY <2>2, <2>3
  <1>8. ASSUME NEW c \in Caller, LoggedOut(c) PROVE PoolInv'
    <2>1. mine[c] \in Session
      BY <1>8 DEF LoggedOut
    <2> QED BY <1>8, <2>1, DownStep DEF LoggedOut
  <1>9. ASSUME NEW s \in Session, LoggedIn(s) PROVE PoolInv'
    <2>1. PoolAgrees'
      BY <1>9, PoolStays DEF LoggedIn
    <2> QED BY <1>9, <2>1 DEF LoggedIn
  <1>10. ASSUME NEW s \in Session, Granted(s) PROVE PoolInv'
    <2>1. PoolAgrees'
      BY <1>10, PoolStays DEF Granted
    <2> QED BY <1>10, <2>1 DEF Granted
  <1>11. ASSUME NEW s \in Session, Relog(s) PROVE PoolInv'
    <2>1. PoolAgrees'
      BY <1>11, PoolStays DEF Relog
    <2>2. logging' \in [Session -> BOOLEAN] /\ logged' \in [Session -> BOOLEAN]
      BY <1>11, Zenon DEF Relog
    <2>3. handlers' \in [Socket -> Session \cup {None}] /\ losses' \in 0..MaxLoss
      BY <1>11 DEF Relog
    <2>4. \A t \in Session : logging'[t] \/ logged'[t] => logging[t] \/ logged[t]
      BY <1>11, Zenon DEF Relog
    <2>5. UNCHANGED <<callers, cred, broken, users, pool, closing, initting, errors>>
      BY <1>11 DEF Relog
    <2>6. TypeOK'
      BY <2>2, <2>3, <2>5
    <2>7. Owned' /\ Pended' /\ Fresh' /\ Opened' /\ Placed'
      BY <2>4, <2>5
    <2> QED BY <2>1, <2>6, <2>7
  <1>12. ASSUME NEW s \in Session, MarkBroken(s) PROVE PoolInv'
    <2>1. /\ users' = [users EXCEPT ![s] = 0]
          /\ UNCHANGED <<callers, cred, initting, errors>>
      BY <1>12 DEF MarkBroken
    <2>2. losses' \in 0..MaxLoss
      <3>1. CASE Reachable(s)
        BY <1>12, <3>1 DEF MarkBroken
      <3>2. CASE ~Reachable(s)
        BY <1>12, <3>2 DEF MarkBroken
      <3> QED BY <3>1, <3>2
    <2>3. CASE logged[s]
      <3>1. closing' = closing \cup {s} /\ UNCHANGED <<flags, pool, handlers>>
        BY <1>12, <2>3 DEF MarkBroken
      <3>2. PoolAgrees'
        BY <3>1, PoolStays
      <3> QED BY <2>1, <2>2, <3>1, <3>2
    <2>4. CASE ~logged[s]
      <3>1. Down(s) /\ UNCHANGED closing
        BY <1>12, <2>4 DEF MarkBroken
      <3> QED BY <2>1, <2>2, <3>1, DownStep
    <2> QED BY <2>3, <2>4
  <1>13. ASSUME NEW s \in Session, MarkedBroken(s) PROVE PoolInv'
    BY <1>13, DownStep DEF MarkedBroken
  <1>14. CASE UNCHANGED vars
    BY <1>14, PoolStays DEF vars
  <1> QED BY <1>1, <1>2, <1>3, <1>4, <1>5, <1>6, <1>7, <1>8, <1>9, <1>10, <1>11,
             <1>12, <1>13, <1>14 DEF Next

\* The attributes of sessions, the table of sockets and the counts keep the
\* shape of the Python values, and no count of the socket pool ever goes below
\* zero.
THEOREM TypeCorrect == Spec => []TypeOK
  <1>1. PoolInv => TypeOK
    BY DEF PoolInv
  <1> QED BY <1>1, InitPool, PoolStep, PTL DEF Spec

\* _release_socket gives every place back exactly once, however often and by
\* whomever a session is ended: the count of a socket is always the number of
\* sessions that hold a place on it.
THEOREM PoolCorrect == Spec => []PoolAgrees
  <1>1. PoolInv => PoolAgrees
    BY DEF PoolInv
  <1> QED BY <1>1, InitPool, PoolStep, PTL DEF Spec

----------------------------------------------------------------------------
(* The count of callers.                                                   *)

Setting(s) == \E c \in Caller : pc[c] \in {"assign", "send"} /\ mine[c] = s

\* While a caller sets up a session the others only wait for it, and nothing
\* has happened to it; nor has anything to an object that is not yet used.
Sole == \A c \in Caller : pc[c] \in {"assign", "send"} =>
          /\ ~logging[mine[c]] /\ ~logged[mine[c]]
          /\ \A d \in Caller : mine[d] = mine[c] => d = c \/ pc[d] \in {"wait", "idle"}
Untouched == \A s \in Session : cred[s] = None => ~logging[s] /\ ~logged[s]

\* The count is right from the first step of the setup on, not only once the
\* session works, until its end begins.
Counted(s) ==
  (logging[s] \/ logged[s] \/ Setting(s)) /\ ~broken[s] /\ ~Leaving(s) =>
    users[s] = Cardinality(Holders(s))

UsersInv == PoolInv /\ Sole /\ Untouched /\ \A s \in Session : Counted(s)

\* There are finitely many callers.
LEMMA HoldersFinite ==
  ASSUME NEW s PROVE IsFiniteSet(Holders(s)) /\ Cardinality(Holders(s)) \in Nat
  BY SessionsAssumption, FS_Subset, FS_CardinalityType DEF Holders

\* One more holder.
LEMMA HolderComes ==
  ASSUME NEW s, NEW c, c \notin Holders(s)
  PROVE  Cardinality(Holders(s) \cup {c}) = Cardinality(Holders(s)) + 1
  BY HoldersFinite, FS_AddElement

\* One holder less.
LEMMA HolderGoes ==
  ASSUME NEW s, NEW c, c \in Holders(s)
  PROVE  Cardinality(Holders(s) \ {c}) = Cardinality(Holders(s)) - 1
  BY HoldersFinite, FS_RemoveElement

\* A session that a step does not count anew, and does not bring back, is
\* still counted right.
LEMMA CountedStays ==
  ASSUME NEW s \in Session, Counted(s), users'[s] = users[s],
         Holders(s)' = Holders(s),
         logging'[s] \/ logged'[s] \/ Setting(s)' => logging[s] \/ logged[s] \/ Setting(s),
         broken[s] \/ Leaving(s) => broken'[s] \/ Leaving(s)'
  PROVE  Counted(s)'
  BY DEF Counted

\* Nobody has a session at first.
LEMMA InitUsers == Init => UsersInv
  <1> SUFFICES ASSUME Init PROVE UsersInv
    OBVIOUS
  <1>1. Sole /\ Untouched /\ \A s \in Session : Counted(s)
    BY DEF Init, Sole, Untouched, Counted, Setting
  <1> QED BY <1>1, InitPool DEF UsersInv

\* A session goes down: what is left of its count does not matter any more.
LEMMA DownCounted ==
  ASSUME UsersInv, NEW s \in Session, Down(s),
         \A t \in Session \ {s} : users'[t] = users[t],
         closing \ {s} \subseteq closing',
         \A c \in Caller :
           \/ pc'[c] = pc[c] /\ mine'[c] = mine[c]
           \/ mine[c] = s /\ pc'[c] = "idle"
  PROVE  \A t \in Session : Counted(t)'
  <1> SUFFICES ASSUME NEW t \in Session PROVE Counted(t)'
    OBVIOUS
  <1>1. /\ logging' = [logging EXCEPT ![s] = FALSE]
        /\ logged' = [logged EXCEPT ![s] = FALSE]
        /\ broken' = [broken EXCEPT ![s] = TRUE]
    BY DEF Down
  <1>2. /\ logging \in [Session -> BOOLEAN] /\ logged \in [Session -> BOOLEAN]
        /\ broken \in [Session -> BOOLEAN]
    BY DEF UsersInv, PoolInv, TypeOK
  <1>3. CASE t = s
    <2>1. broken'[t]
      BY <1>1, <1>2, <1>3, Zenon
    <2> QED BY <2>1 DEF Counted
  <1>4. CASE t # s
    <2>1. /\ logging'[t] <=> logging[t]
          /\ logged'[t] <=> logged[t]
          /\ broken'[t] <=> broken[t]
      BY <1>1, <1>2, <1>4, Zenon
    <2>2. Holders(t)' = Holders(t) /\ (Setting(t)' => Setting(t)) /\ (Leaving(t) => Leaving(t)')
      BY <1>4 DEF Holders, Setting, Leaving
    <2>3. Counted(t)
      BY DEF UsersInv
    <2> QED BY <1>4, <2>1, <2>2, <2>3, CountedStays
  <1> QED BY <1>3, <1>4

\* Every action keeps the counts of callers.
LEMMA UsersStep == UsersInv /\ [Next]_vars => UsersInv'
  <1> SUFFICES ASSUME UsersInv, [Next]_vars PROVE UsersInv'
    OBVIOUS
  <1>0. PoolInv'
    BY PoolStep DEF UsersInv
  <1>a. \A s \in Session : Counted(s)
    BY DEF UsersInv
  <1>b. Sole /\ Untouched /\ Owned /\ TypeOK
    BY DEF UsersInv, PoolInv
  <1> USE DEF callers, flags, pool, counters
  <1>1. ASSUME NEW c \in Caller, Lookup(c) PROVE UsersInv'
    <2>1. UNCHANGED <<flags, closing>> /\ pc[c] = "idle" /\ c \notin Holders(c)
      BY <1>1 DEF Lookup, Holders
    <2>2. ASSUME NEW s \in Session, cred[s] # None, Join(c, s), UNCHANGED cred,
                 ~Setting(s) \/ ~logged[s]
          PROVE  UsersInv'
      <3>1. mine' = [mine EXCEPT ![c] = s]
        BY <2>2 DEF Join
      <3>2. CASE logged[s]
        <4>1. /\ pc' = [pc EXCEPT ![c] = "hold"]
              /\ users' = [users EXCEPT ![s] = @ + 1]
          BY <2>2, <3>2 DEF Join
        <4>2. Sole' /\ Untouched'
          BY <1>b, <2>1, <2>2, <3>1, <3>2, <4>1 DEF Sole, Untouched, TypeOK
        <4>3. ASSUME NEW t \in Session PROVE Counted(t)'
          <5>1. Setting(t)' <=> Setting(t)
            BY <1>b, <2>1, <3>1, <4>1 DEF Setting, TypeOK
          <5>2. Leaving(t)' <=> Leaving(t)
            BY <1>b, <2>1, <3>1, <4>1 DEF Leaving, TypeOK
          <5>3. CASE t = s
            <6>1. Holders(s)' = Holders(s) \cup {c} /\ c \notin Holders(s)
              BY <1>b, <2>1, <3>1, <4>1 DEF Holders, TypeOK
            <6>2. users'[s] = users[s] + 1
              BY <1>b, <4>1 DEF TypeOK
            <6> QED BY <1>a, <2>1, <3>2, <5>1, <5>2, <5>3, <6>1, <6>2, HolderComes DEF Counted
          <5>4. CASE t # s
            <6>1. Holders(t)' = Holders(t) /\ users'[t] = users[t]
              BY <1>b, <2>1, <3>1, <4>1, <5>4 DEF Holders, TypeOK
            <6> QED BY <1>a, <2>1, <5>1, <5>2, <6>1, CountedStays
          <5> QED BY <5>3, <5>4
        <4> QED BY <1>0, <4>2, <4>3 DEF UsersInv
      <3>3. CASE ~logged[s]
        <4>1. pc' = [pc EXCEPT ![c] = "wait"] /\ UNCHANGED users
          BY <2>2, <3>3 DEF Join
        <4>2. Sole' /\ Untouched'
          BY <1>b, <2>1, <2>2, <3>1, <4>1 DEF Sole, Untouched, TypeOK
        <4>3. ASSUME NEW t \in Session PROVE Counted(t)'
          <5>1. Setting(t)' <=> Setting(t)
            BY <1>b, <2>1, <3>1, <4>1 DEF Setting, TypeOK
          <5>2. Leaving(t)' <=> Leaving(t)
            BY <1>b, <2>1, <3>1, <4>1 DEF Leaving, TypeOK
          <5>3. Holders(t)' = Holders(t)
            BY <1>b, <2>1, <3>1, <4>1 DEF Holders, TypeOK
          <5> QED BY <1>a, <2>1, <4>1, <5>1, <5>2, <5>3, CountedStays
        <4> QED BY <1>0, <4>2, <4>3 DEF UsersInv
      <3> QED BY <3>2, <3>3
    <2>3. ASSUME NEW s \in Session, cred[s] = None,
                 cred' = [cred EXCEPT ![s] = CredOf(c)],
                 mine' = [mine EXCEPT ![c] = s],
                 users' = [users EXCEPT ![s] = 1],
                 pc' = [pc EXCEPT ![c] = "assign"]
          PROVE  UsersInv'
      <3>1. \A d \in Caller : pc[d] # "idle" => mine[d] # s
        BY <1>b, <2>3 DEF Owned
      <3>2. Sole' /\ Untouched'
        <4>1. Sole'
          BY <1>b, <2>1, <2>3, <3>1 DEF Sole, Untouched, TypeOK
        <4>2. Untouched'
          BY <1>b, <2>1, <2>3, CredType DEF Untouched, TypeOK
        <4> QED BY <4>1, <4>2
      <3>3. ASSUME NEW t \in Session PROVE Counted(t)'
        <4>1. CASE t = s
          <5>1. Holders(s)' = {c} /\ users'[s] = 1
            BY <1>b, <2>1, <2>3, <3>1 DEF Holders, TypeOK
          <5> QED BY <4>1, <5>1, FS_Singleton DEF Counted
        <4>2. CASE t # s
          <5>1. Setting(t)' <=> Setting(t)
            BY <1>b, <2>1, <2>3, <4>2 DEF Setting, TypeOK
          <5>2. Leaving(t)' <=> Leaving(t)
            BY <1>b, <2>1, <2>3, <4>2 DEF Leaving, TypeOK
          <5>3. Holders(t)' = Holders(t) /\ users'[t] = users[t]
            BY <1>b, <2>1, <2>3, <4>2 DEF Holders, TypeOK
          <5> QED BY <1>a, <2>1, <5>1, <5>2, <5>3, CountedStays
        <4> QED BY <4>1, <4>2
      <3> QED BY <1>0, <3>2, <3>3 DEF UsersInv
    <2>4. CASE \E s \in Candidates : /\ cred[s] = CredOf(c)
                                     /\ Join(c, s)
                                     /\ UNCHANGED <<forbidden, cred, initting>>
      <3>1. PICK s \in Candidates : /\ cred[s] = CredOf(c)
                                    /\ Join(c, s)
                                    /\ UNCHANGED <<forbidden, cred, initting>>
        BY <2>4
      <3>2. s \in Session /\ cred[s] # None
        BY <1>b, <3>1, CredType DEF Candidates, Kept, TypeOK
      <3> QED BY <1>b, <2>2, <3>1, <3>2 DEF Sole, Setting
    <2>5. CASE /\ Pending(c) # None
               /\ Join(c, Pending(c))
               /\ UNCHANGED <<forbidden, cred, initting>>
      <3>1. initting[CredOf(c)] # None /\ initting[CredOf(c)] \in Session
        BY <1>b, <2>5, CredType DEF Pending, TypeOK
      <3>2. cred[initting[CredOf(c)]] # None
        BY <3>1, CredType DEF UsersInv, PoolInv, Pended
      <3> QED BY <1>b, <2>2, <2>5, <3>1, <3>2 DEF Pending, Sole, Setting
    <2>6. CASE /\ Unused # {}
               /\ cred' = [cred EXCEPT ![NewSession] = CredOf(c)]
               /\ mine' = [mine EXCEPT ![c] = NewSession]
               /\ users' = [users EXCEPT ![NewSession] = 1]
               /\ pc' = [pc EXCEPT ![c] = "assign"]
      <3>1. NewSession \in Session /\ cred[NewSession] = None
        BY <2>6 DEF NewSession, Unused
      <3> QED BY <2>3, <2>6, <3>1
    <2> QED BY <1>1, <2>4, <2>5, <2>6 DEF Lookup
  <1>2. ASSUME NEW c \in Caller, SetupFails(c) PROVE UsersInv'
    <2>1. /\ pc[c] \in {"assign", "send"} /\ pc' = [pc EXCEPT ![c] = "idle"]
          /\ mine' = [mine EXCEPT ![c] = None]
          /\ UNCHANGED <<cred, flags, users, closing>>
      BY <1>2 DEF SetupFails
    <2>2. Sole' /\ Untouched'
      BY <1>b, <2>1 DEF Sole, Untouched, TypeOK
    <2>3. ASSUME NEW t \in Session PROVE Counted(t)'
      <3>1. CASE t = mine[c]
        <4>1. ~logging[t] /\ ~logged[t] /\ ~Setting(t)'
          BY <1>b, <2>1, <3>1 DEF Sole, Setting, TypeOK
        <4> QED BY <2>1, <4>1 DEF Counted
      <3>2. CASE t # mine[c]
        <4>1. Holders(t)' = Holders(t) /\ (Setting(t)' => Setting(t))
          BY <1>b, <2>1, <3>2 DEF Holders, Setting, TypeOK
        <4>2. Leaving(t)' <=> Leaving(t)
          BY <1>b, <2>1 DEF Leaving, TypeOK
        <4> QED BY <1>a, <2>1, <4>1, <4>2, CountedStays
      <3> QED BY <3>1, <3>2
    <2> QED BY <1>0, <2>2, <2>3 DEF UsersInv
  <1>3. ASSUME NEW c \in Caller, AssignSocket(c) PROVE UsersInv'
    <2>1. /\ pc[c] = "assign" /\ pc' = [pc EXCEPT ![c] = "send"]
          /\ UNCHANGED <<mine, cred, flags, users, closing>>
      BY <1>3 DEF AssignSocket
    <2>2. Sole' /\ Untouched'
      BY <1>b, <2>1 DEF Sole, Untouched, TypeOK
    <2>3. ASSUME NEW t \in Session PROVE Counted(t)'
      <3>1. Holders(t)' = Holders(t) /\ (Setting(t)' <=> Setting(t)) /\ (Leaving(t)' <=> Leaving(t))
        BY <1>b, <2>1 DEF Holders, Setting, Leaving, TypeOK
      <3> QED BY <1>a, <2>1, <3>1, CountedStays
    <2> QED BY <1>0, <2>2, <2>3 DEF UsersInv
  <1>4. ASSUME NEW c \in Caller, Send(c) PROVE UsersInv'
    <2>1. /\ pc[c] = "send" /\ pc' = [pc EXCEPT ![c] = "login"]
          /\ logging' = [logging EXCEPT ![mine[c]] = TRUE]
          /\ UNCHANGED <<mine, cred, logged, broken, users, closing>>
      BY <1>4 DEF Send
    <2>2. Sole' /\ Untouched'
      BY <1>b, <2>1 DEF Sole, Untouched, Owned, TypeOK
    <2>3. ASSUME NEW t \in Session PROVE Counted(t)'
      <3>1. Holders(t)' = Holders(t) /\ (Setting(t)' => Setting(t)) /\ (Leaving(t)' <=> Leaving(t))
        BY <1>b, <2>1 DEF Holders, Setting, Leaving, TypeOK
      <3>2. logging'[t] => logging[t] \/ Setting(t)
        <4>1. CASE t = mine[c]
          BY <2>1, <4>1 DEF Setting
        <4>2. CASE t # mine[c]
          BY <1>b, <2>1, <4>2 DEF TypeOK
        <4> QED BY <4>1, <4>2
      <3> QED BY <1>a, <2>1, <3>1, <3>2, CountedStays
    <2> QED BY <1>0, <2>2, <2>3 DEF UsersInv
  <1>5. ASSUME NEW c \in Caller, SetupDone(c) PROVE UsersInv'
    <2>1. pc[c] = "login" /\ UNCHANGED <<cred, flags, users, closing>>
      BY <1>5 DEF SetupDone
    <2>2. CASE broken[mine[c]]
      <3>1. pc' = [pc EXCEPT ![c] = "idle"] /\ mine' = [mine EXCEPT ![c] = None]
        BY <1>5, <2>2 DEF SetupDone
      <3>2. Sole' /\ Untouched'
        BY <1>b, <2>1, <3>1 DEF Sole, Untouched, TypeOK
      <3>3. ASSUME NEW t \in Session PROVE Counted(t)'
        <4>1. CASE t = mine[c]
          BY <2>1, <2>2, <4>1 DEF Counted
        <4>2. CASE t # mine[c]
          <5>1. Holders(t)' = Holders(t) /\ (Setting(t)' <=> Setting(t)) /\ (Leaving(t)' <=> Leaving(t))
            BY <1>b, <2>1, <3>1, <4>2 DEF Holders, Setting, Leaving, TypeOK
          <5> QED BY <1>a, <2>1, <5>1, CountedStays
        <4> QED BY <4>1, <4>2
      <3> QED BY <1>0, <3>2, <3>3 DEF UsersInv
    <2>3. CASE ~broken[mine[c]]
      <3>1. pc' = [pc EXCEPT ![c] = "hold"] /\ UNCHANGED mine
        BY <1>5, <2>3 DEF SetupDone
      <3>2. Sole' /\ Untouched'
        BY <1>b, <2>1, <3>1 DEF Sole, Untouched, TypeOK
      <3>3. ASSUME NEW t \in Session PROVE Counted(t)'
        <4>1. Holders(t)' = Holders(t) /\ (Setting(t)' <=> Setting(t)) /\ (Leaving(t)' <=> Leaving(t))
          BY <1>b, <2>1, <3>1 DEF Holders, Setting, Leaving, TypeOK
        <4> QED BY <1>a, <2>1, <4>1, CountedStays
      <3> QED BY <1>0, <3>2, <3>3 DEF UsersInv
    <2> QED BY <2>2, <2>3
  <1>6. ASSUME NEW c \in Caller, WaitDone(c) PROVE UsersInv'
    <2>1. /\ pc[c] = "wait" /\ UNCHANGED <<cred, flags, closing>>
          /\ logged[mine[c]] \/ broken[mine[c]]
      BY <1>6 DEF WaitDone
    <2>2. CASE broken[mine[c]]
      <3>1. /\ pc' = [pc EXCEPT ![c] = "idle"] /\ mine' = [mine EXCEPT ![c] = None]
            /\ UNCHANGED users
        BY <1>6, <2>2 DEF WaitDone
      <3>2. Sole' /\ Untouched'
        BY <1>b, <2>1, <3>1 DEF Sole, Untouched, TypeOK
      <3>3. ASSUME NEW t \in Session PROVE Counted(t)'
        <4>1. Holders(t)' = Holders(t) /\ (Setting(t)' <=> Setting(t)) /\ (Leaving(t)' <=> Leaving(t))
          BY <1>b, <2>1, <3>1 DEF Holders, Setting, Leaving, TypeOK
        <4> QED BY <1>a, <2>1, <3>1, <4>1, CountedStays
      <3> QED BY <1>0, <3>2, <3>3 DEF UsersInv
    <2>3. CASE ~broken[mine[c]]
      <3> DEFINE s == mine[c]
      <3>1. /\ pc' = [pc EXCEPT ![c] = "hold"] /\ UNCHANGED mine
            /\ users' = [users EXCEPT ![s] = @ + 1]
        BY <1>6, <2>3 DEF WaitDone
      <3>2. s \in Session /\ logged[s]
        BY <1>b, <2>1, <2>3 DEF Owned, TypeOK
      <3>3. Sole' /\ Untouched'
        BY <1>b, <2>1, <3>1, <3>2 DEF Sole, Untouched, TypeOK
      <3>4. ASSUME NEW t \in Session PROVE Counted(t)'
        <4>1. (Setting(t)' <=> Setting(t)) /\ (Leaving(t)' <=> Leaving(t))
          BY <1>b, <2>1, <3>1 DEF Setting, Leaving, TypeOK
        <4>2. CASE t = s
          <5>1. Holders(t)' = Holders(t) \cup {c} /\ c \notin Holders(t)
            BY <1>b, <2>1, <3>1, <4>2 DEF Holders, TypeOK
          <5>2. users'[t] = users[t] + 1
            BY <1>b, <3>1, <3>2, <4>2 DEF TypeOK
          <5>3. Cardinality(Holders(t) \cup {c}) = Cardinality(Holders(t)) + 1
            BY <5>1, HolderComes
          <5> QED BY <1>a, <2>1, <3>2, <4>1, <4>2, <5>1, <5>2, <5>3 DEF Counted
        <4>3. CASE t # s
          <5>1. Holders(t)' = Holders(t) /\ users'[t] = users[t]
            BY <1>b, <2>1, <3>1, <4>3 DEF Holders, TypeOK
          <5> QED BY <1>a, <2>1, <4>1, <5>1, CountedStays
        <4> QED BY <4>2, <4>3
      <3> QED BY <1>0, <3>3, <3>4 DEF UsersInv
    <2> QED BY <2>2, <2>3
  <1>7. ASSUME NEW c \in Caller, Logout(c) PROVE UsersInv'
    <2> DEFINE s == mine[c]
    <2>1. s \in Session /\ pc[c] = "hold" /\ UNCHANGED <<cred, closing>>
      BY <1>7, <1>b DEF Logout, Owned, TypeOK
    <2>2. CASE users[s] > 1 /\ ~broken[s]
      <3>1. /\ users' = [users EXCEPT ![s] = @ - 1]
            /\ pc' = [pc EXCEPT ![c] = "idle"]
            /\ mine' = [mine EXCEPT ![c] = None]
            /\ UNCHANGED flags
        BY <1>7, <2>2 DEF Logout
      <3>2. Sole' /\ Untouched'
        BY <1>b, <2>1, <3>1 DEF Sole, Untouched, TypeOK
      <3>3. ASSUME NEW t \in Session PROVE Counted(t)'
        <4>1. (Setting(t)' <=> Setting(t)) /\ (Leaving(t)' <=> Leaving(t))
          BY <1>b, <2>1, <3>1 DEF Setting, Leaving, TypeOK
        <4>2. CASE t = s
          <5>1. Holders(t)' = Holders(t) \ {c} /\ c \in Holders(t)
            BY <1>b, <2>1, <3>1, <4>2 DEF Holders, TypeOK
          <5>2. users'[t] = users[t] - 1
            BY <1>b, <2>1, <3>1, <4>2 DEF TypeOK
          <5>3. Cardinality(Holders(t) \ {c}) = Cardinality(Holders(t)) - 1
            BY <5>1, HolderGoes
          <5> QED BY <1>a, <2>1, <3>1, <4>1, <4>2, <5>1, <5>2, <5>3 DEF Counted
        <4>3. CASE t # s
          <5>1. Holders(t)' = Holders(t) /\ users'[t] = users[t]
            BY <1>b, <2>1, <3>1, <4>3 DEF Holders, TypeOK
          <5> QED BY <1>a, <2>1, <3>1, <4>1, <5>1, CountedStays
        <4> QED BY <4>2, <4>3
      <3> QED BY <1>0, <3>2, <3>3 DEF UsersInv
    <2>3. CASE ~(users[s] > 1 /\ ~broken[s])
      <3>1. users' = [users EXCEPT ![s] = 0]
        BY <1>7, <2>3 DEF Logout
      <3>2. CASE logged[s]
        <4>1. pc' = [pc EXCEPT ![c] = "leave"] /\ UNCHANGED <<mine, flags>>
          BY <1>7, <2>3, <3>2 DEF Logout
        <4>2. Sole' /\ Untouched'
          BY <1>b, <2>1, <3>2, <4>1 DEF Sole, Untouched, TypeOK
        <4>3. ASSUME NEW t \in Session PROVE Counted(t)'
          <5>1. CASE t = s
            <6>1. Leaving(t)'
              BY <1>b, <2>1, <4>1, <5>1 DEF Leaving, TypeOK
            <6> QED BY <6>1 DEF Counted
          <5>2. CASE t # s
            <6>1. Holders(t)' = Holders(t) /\ users'[t] = users[t] /\ (Setting(t)' <=> Setting(t))
                  /\ (Leaving(t)' <=> Leaving(t))
              BY <1>b, <2>1, <3>1, <4>1, <5>2 DEF Holders, Setting, Leaving, TypeOK
            <6> QED BY <1>a, <2>1, <4>1, <6>1, CountedStays
          <5> QED BY <5>1, <5>2
        <4> QED BY <1>0, <4>2, <4>3 DEF UsersInv
      <3>3. CASE ~logged[s]
        <4>1. /\ Down(s)
              /\ pc' = [pc EXCEPT ![c] = "idle"]
              /\ mine' = [mine EXCEPT ![c] = None]
          BY <1>7, <2>3, <3>3 DEF Logout
        <4>2. Sole' /\ Untouched'
          BY <1>b, <2>1, <4>1 DEF Sole, Untouched, TypeOK, Down
        <4>3. \A t \in Session : Counted(t)'
          BY <1>b, <2>1, <3>1, <4>1, DownCounted DEF TypeOK
        <4> QED BY <1>0, <4>2, <4>3 DEF UsersInv
      <3> QED BY <3>2, <3>3
    <2> QED BY <2>2, <2>3
  <1>8. ASSUME NEW c \in Caller, LoggedOut(c) PROVE UsersInv'
    <2>1. mine[c] \in Session /\ pc[c] = "leave"
      BY <1>8, <1>b DEF LoggedOut, Owned, TypeOK
    <2>2. /\ Down(mine[c]) /\ UNCHANGED <<cred, users, closing>>
          /\ pc' = [pc EXCEPT ![c] = "idle"] /\ mine' = [mine EXCEPT ![c] = None]
      BY <1>8 DEF LoggedOut
    <2>3. Sole' /\ Untouched'
      BY <1>b, <2>1, <2>2 DEF Sole, Untouched, TypeOK, Down
    <2>4. \A t \in Session : Counted(t)'
      BY <1>b, <2>1, <2>2, DownCounted DEF TypeOK
    <2> QED BY <1>0, <2>3, <2>4 DEF UsersInv
  <1>9. ASSUME NEW s \in Session, UNCHANGED <<callers, cred, broken, users, closing>>,
               logging[s] \/ logged[s],
               \A t \in Session \ {s} : logging'[t] = logging[t] /\ logged'[t] = logged[t]
        PROVE  UsersInv'
    <2>1. Sole' /\ Untouched'
      BY <1>b, <1>9 DEF Sole, Untouched, Owned, TypeOK
    <2>2. ASSUME NEW t \in Session PROVE Counted(t)'
      <3>1. Holders(t)' = Holders(t) /\ Setting(t)' = Setting(t) /\ Leaving(t)' = Leaving(t)
        BY <1>9 DEF Holders, Setting, Leaving
      <3> QED BY <1>a, <1>9, <3>1, CountedStays
    <2> QED BY <1>0, <2>1, <2>2 DEF UsersInv
  <1>10. ASSUME NEW s \in Session, LoggedIn(s) \/ Granted(s) \/ Relog(s) PROVE UsersInv'
    <2>1. /\ UNCHANGED <<callers, cred, broken, users, closing>>
          /\ logging[s] \/ logged[s]
      BY <1>10 DEF LoggedIn, Granted, Relog
    <2>2. \A t \in Session \ {s} : logging'[t] = logging[t] /\ logged'[t] = logged[t]
      BY <1>b, <1>10 DEF LoggedIn, Granted, Relog, TypeOK
    <2> QED BY <1>9, <2>1, <2>2
  <1>11. ASSUME NEW s \in Session, MarkBroken(s) PROVE UsersInv'
    <2>1. users' = [users EXCEPT ![s] = 0] /\ UNCHANGED <<callers, cred>>
      BY <1>11 DEF MarkBroken
    <2>2. CASE logged[s]
      <3>1. closing' = closing \cup {s} /\ UNCHANGED flags
        BY <1>11, <2>2 DEF MarkBroken
      <3>2. Sole' /\ Untouched'
        BY <1>b, <2>1, <3>1 DEF Sole, Untouched
      <3>3. ASSUME NEW t \in Session PROVE Counted(t)'
        <4>1. CASE t = s
          BY <3>1, <4>1 DEF Counted, Leaving
        <4>2. CASE t # s
          <5>1. Holders(t)' = Holders(t) /\ (Setting(t)' <=> Setting(t)) /\ (Leaving(t)' <=> Leaving(t))
                /\ users'[t] = users[t]
            BY <1>b, <2>1, <3>1, <4>2 DEF Holders, Setting, Leaving, TypeOK
          <5> QED BY <1>a, <3>1, <5>1, CountedStays
        <4> QED BY <4>1, <4>2
      <3> QED BY <1>0, <3>2, <3>3 DEF UsersInv
    <2>3. CASE ~logged[s]
      <3>1. Down(s) /\ UNCHANGED closing
        BY <1>11, <2>3 DEF MarkBroken
      <3>2. Sole' /\ Untouched'
        BY <1>b, <2>1, <3>1 DEF Sole, Untouched, TypeOK, Down
      <3>3. \A t \in Session : Counted(t)'
        BY <1>b, <2>1, <3>1, DownCounted DEF TypeOK
      <3> QED BY <1>0, <3>2, <3>3 DEF UsersInv
    <2> QED BY <2>2, <2>3
  <1>12. ASSUME NEW s \in Session, MarkedBroken(s) PROVE UsersInv'
    <2>1. Down(s) /\ UNCHANGED <<callers, cred, users>> /\ closing' = closing \ {s}
      BY <1>12 DEF MarkedBroken
    <2>2. Sole' /\ Untouched'
      BY <1>b, <2>1 DEF Sole, Untouched, TypeOK, Down
    <2>3. \A t \in Session : Counted(t)'
      BY <2>1, DownCounted
    <2> QED BY <1>0, <2>2, <2>3 DEF UsersInv
  <1>13. CASE UNCHANGED vars
    BY <1>0, <1>13 DEF UsersInv, vars, Sole, Untouched, Counted, Setting, Leaving, Holders
  <1> QED BY <1>1, <1>2, <1>3, <1>4, <1>5, <1>6, <1>7, <1>8, <1>10, <1>11, <1>12,
             <1>13 DEF Next

\* A working session counts exactly the callers that have it, so that the last
\* of them closes it and none before.
THEOREM UsersCorrect == Spec => []UsersAgree
  <1>1. UsersInv => UsersAgree
    BY DEF UsersInv, Counted, UsersAgree
  <1> QED BY <1>1, InitUsers, UsersStep, PTL DEF Spec

----------------------------------------------------------------------------
(* The sharing of sessions.                                                *)

\* A session has begun to log in, whatever became of it.
Started(s) == logging[s] \/ logged[s] \/ broken[s]
Broken == \A s \in Session : broken[s] => ~logging[s] /\ ~logged[s]

\* A session object that is not used yet, or is being set up, has done nothing;
\* one that a caller has, or whose end has begun, has begun to log in.
Untried ==
  /\ \A s \in Session : cred[s] = None => ~Started(s) /\ socket[s] = None
  /\ \A c \in Caller : pc[c] \in {"assign", "send"} => ~Started(mine[c])
  /\ \A c \in Caller : pc[c] = "assign" => socket[mine[c]] = None
Attended ==
  /\ \A c \in Caller : pc[c] \in {"login", "hold", "leave"} => Started(mine[c])
  /\ \A s \in closing : Started(s)

\* Whoever sets up a session is registered in initting_sessions with it, so
\* nobody else sets one up with the same credentials.
Builds(c) == pc[c] \in {"assign", "send", "login"}
Registered ==
  \A c \in Caller : Builds(c) =>
    /\ initting[CredOf(c)] = mine[c] /\ cred[mine[c]] = CredOf(c)
    /\ \A d \in Caller : Builds(d) /\ mine[d] = mine[c] => d = c

\* A session with other credentials was given the socket of s.
Clash(s) ==
  /\ socket[s] # None
  /\ \E u \in Session : cred[u] \notin {None, cred[s]} /\ socket[u] = socket[s]

\* A session that works or logs in is found by __new__ unless it is hidden, and
\* so a second one with its credentials is made only beside a hidden one.
Live(s) == Valid(s) \/ Setting(s)
Hidden == \A s \in Session : Valid(s) => handlers[socket[s]] = s \/ Clash(s)
Apart == \A s, t \in Session :
  Live(s) /\ Live(t) /\ s # t /\ cred[s] = cred[t] => Clash(s) \/ Clash(t)

LifeInv == UsersInv /\ Broken /\ Untried /\ Attended /\ Registered
ShareInv == LifeInv /\ Hidden /\ Apart

\* What the end of a session does to its flags.
LEMMA DownFlags ==
  ASSUME TypeOK, NEW s \in Session, Down(s)
  PROVE  /\ \A t \in Session \ {s} : /\ logging'[t] = logging[t] /\ logged'[t] = logged[t]
                                     /\ broken'[t] = broken[t]
         /\ ~logging'[s] /\ ~logged'[s] /\ broken'[s]
         /\ UNCHANGED socket
         /\ handlers' = handlers \/ (~broken[s] /\ handlers' = [handlers EXCEPT ![socket[s]] = None])
  BY Zenon DEF TypeOK, Down

\* Who goes down has begun to log in.
LEMMA DownStarted ==
  ASSUME LifeInv
  PROVE  /\ \A s \in Session : MarkedBroken(s) => Started(s)
         /\ \A c \in Caller : Logout(c) \/ LoggedOut(c) => mine[c] \in Session /\ Started(mine[c])
  BY DEF LifeInv, UsersInv, PoolInv, TypeOK, Owned, Attended, MarkedBroken, Logout, LoggedOut

\* Credentials, sockets and the beginning of a login are never undone.
LEMMA NamesStay ==
  ASSUME LifeInv, [Next]_vars, NEW s \in Session
  PROVE  /\ cred[s] # None => cred'[s] = cred[s]
         /\ socket[s] # None => socket'[s] = socket[s]
         /\ Started(s) => Started(s)'
  <1> USE DEF Started
  <1>1. TypeOK
    BY DEF LifeInv, UsersInv, PoolInv
  <1>2. ASSUME NEW c \in Caller, Lookup(c)
        PROVE  /\ cred[s] # None => cred'[s] = cred[s]
               /\ UNCHANGED <<socket, flags>>
    <2>1. UNCHANGED <<socket, flags>>
      BY <1>2 DEF Lookup, pool
    <2>2. cred' = cred \/ (Unused # {} /\ cred' = [cred EXCEPT ![NewSession] = CredOf(c)])
      BY <1>2 DEF Lookup
    <2>3. Unused # {} => cred[NewSession] = None
      BY DEF NewSession, Unused
    <2> QED BY <1>1, <2>1, <2>2, <2>3 DEF TypeOK
  <1>3. ASSUME NEW c \in Caller, AssignSocket(c)
        PROVE  /\ UNCHANGED <<cred, flags>>
               /\ socket[s] # None => socket'[s] = socket[s]
    <2>1. mine[c] \in Session /\ socket[mine[c]] = None
      BY <1>1, <1>3 DEF LifeInv, UsersInv, PoolInv, Owned, Untried, AssignSocket, TypeOK
    <2> QED BY <1>1, <1>3, <2>1 DEF AssignSocket, TypeOK
  <1>4. ASSUME NEW c \in Caller,
               SetupFails(c) \/ SetupDone(c) \/ WaitDone(c)
        PROVE  UNCHANGED <<cred, socket, flags>>
    BY <1>4 DEF SetupFails, SetupDone, WaitDone, pool
  <1>5. ASSUME NEW c \in Caller, Send(c)
        PROVE  UNCHANGED <<cred, socket>> /\ (Started(s) => Started(s)')
    <2>1. /\ logging' = [logging EXCEPT ![mine[c]] = TRUE]
          /\ UNCHANGED <<cred, socket, logged, broken>>
      BY <1>5 DEF Send, pool
    <2>2. logging[s] => logging'[s]
      BY <1>1, <2>1, Zenon DEF TypeOK
    <2> QED BY <2>1, <2>2
  <1>6. ASSUME NEW t \in Session, Down(t)
        PROVE  UNCHANGED socket /\ (Started(s) => Started(s)')
    BY <1>1, <1>6, DownFlags
  <1>7. ASSUME NEW c \in Caller, Logout(c) \/ LoggedOut(c)
        PROVE  UNCHANGED <<cred, socket>> /\ (Started(s) => Started(s)')
    <2>1. UNCHANGED cred /\ (Down(mine[c]) \/ UNCHANGED <<flags, pool>>)
      BY <1>7 DEF Logout, LoggedOut
    <2>2. mine[c] \in Session
      BY <1>7, DownStarted
    <2> QED BY <1>6, <2>1, <2>2 DEF flags, pool
  <1>8. ASSUME NEW t \in Session, MarkBroken(t) \/ MarkedBroken(t)
        PROVE  UNCHANGED <<cred, socket>> /\ (Started(s) => Started(s)')
    <2>1. UNCHANGED cred /\ (Down(t) \/ UNCHANGED <<flags, pool>>)
      BY <1>8 DEF MarkBroken, MarkedBroken
    <2> QED BY <1>6, <2>1 DEF flags, pool
  <1>9. ASSUME NEW t \in Session, LoggedIn(t) \/ Granted(t) \/ Relog(t)
        PROVE  UNCHANGED <<cred, socket>> /\ (Started(s) => Started(s)')
    <2>1. UNCHANGED <<cred, socket, broken>>
      BY <1>9 DEF LoggedIn, Granted, Relog, pool
    <2>2. logging[s] \/ logged[s] => logging'[s] \/ logged'[s]
      <3>1. CASE LoggedIn(t)
        BY <1>1, <3>1, Zenon DEF LoggedIn, TypeOK
      <3>2. CASE Granted(t)
        BY <1>1, <3>2, Zenon DEF Granted, TypeOK
      <3>3. CASE Relog(t)
        BY <1>1, <3>3, Zenon DEF Relog, TypeOK
      <3> QED BY <1>9, <3>1, <3>2, <3>3
    <2> QED BY <2>1, <2>2
  <1>10. CASE UNCHANGED vars
    BY <1>10 DEF vars
  <1> QED BY <1>2, <1>3, <1>4, <1>5, <1>7, <1>8, <1>9, <1>10 DEF Next, flags

\* Nothing has happened at first.
LEMMA InitShare == Init => ShareInv
  <1> SUFFICES ASSUME Init PROVE ShareInv
    OBVIOUS
  <1>1. Broken /\ Untried /\ Attended /\ Registered
    BY DEF Init, Broken, Untried, Attended, Registered, Builds, Started
  <1>2. Hidden /\ Apart
    BY DEF Init, Hidden, Apart, Live, Valid, Setting
  <1> QED BY <1>1, <1>2, InitUsers DEF ShareInv, LifeInv

\* A step that only takes callers away, and begins or undoes no login.
LEMMA LifeStays ==
  ASSUME LifeInv, UsersInv', UNCHANGED <<cred, socket>>,
         \A s \in closing' : s \in closing \/ (s \in Session /\ Started(s)),
         \A c \in Caller : pc'[c] = "idle" \/ (pc'[c] = pc[c] /\ mine'[c] = mine[c]),
         \A c \in Caller : pc'[c] # "idle" => initting'[CredOf(c)] = initting[CredOf(c)],
         \A s \in Session : Started(s)' <=> Started(s),
         Broken'
  PROVE  LifeInv'
  <1> USE DEF LifeInv
  <1>1. \A c \in Caller : pc[c] # "idle" => mine[c] \in Session
    BY DEF UsersInv, PoolInv, Owned, TypeOK
  <1>2. closing \subseteq Session
    BY DEF UsersInv, PoolInv, TypeOK
  <1>3. Untried'
    <2>1. \A s \in Session : cred'[s] = None => ~Started(s)' /\ socket'[s] = None
      BY DEF Untried
    <2>2. \A c \in Caller : pc'[c] \in {"assign", "send"} => ~Started(mine[c])'
      BY <1>1 DEF Untried
    <2>3. \A c \in Caller : pc'[c] = "assign" => socket'[mine'[c]] = None
      BY DEF Untried
    <2> QED BY <2>1, <2>2, <2>3 DEF Untried, Started
  <1>4. Attended'
    <2>1. \A c \in Caller : pc'[c] \in {"login", "hold", "leave"} => Started(mine[c])'
      BY <1>1 DEF Attended
    <2>2. \A s \in closing' : Started(s)'
      BY <1>2 DEF Attended
    <2> QED BY <2>1, <2>2 DEF Attended, Started
  <1>5. Registered'
    BY DEF Registered, Builds
  <1> QED BY <1>3, <1>4, <1>5

\* A session ends, and whoever leaves it is gone.
LEMMA DownLife ==
  ASSUME LifeInv, UsersInv', NEW t \in Session, Down(t), Started(t),
         UNCHANGED <<cred, initting>>, closing' \subseteq closing,
         \A c \in Caller : pc'[c] = "idle" \/ (pc'[c] = pc[c] /\ mine'[c] = mine[c])
  PROVE  LifeInv'
  <1>1. /\ \A s \in Session \ {t} : /\ logging'[s] = logging[s] /\ logged'[s] = logged[s]
                                    /\ broken'[s] = broken[s]
        /\ ~logging'[t] /\ ~logged'[t] /\ broken'[t]
        /\ UNCHANGED socket
    BY DownFlags DEF LifeInv, UsersInv, PoolInv
  <1>2. Broken'
    BY <1>1 DEF LifeInv, Broken
  <1>3. \A s \in Session : Started(s)' <=> Started(s)
    BY <1>1 DEF Started
  <1> QED BY <1>1, <1>2, <1>3, LifeStays

\* Every action keeps what is known of the life of a session.
LEMMA LifeStep == LifeInv /\ [Next]_vars => LifeInv'
  <1> SUFFICES ASSUME LifeInv, [Next]_vars PROVE LifeInv'
    OBVIOUS
  <1>u. UsersInv'
    BY UsersStep DEF LifeInv
  <1>t. /\ TypeOK /\ Owned /\ Broken /\ Untried /\ Attended /\ Registered
        /\ \A c \in Caller : pc[c] # "idle" => mine[c] \in Session
    BY DEF LifeInv, UsersInv, PoolInv, Owned, TypeOK
  <1>c. \A c \in Caller : CredOf(c) \in BOOLEAN /\ CredOf(c) # None
    BY CredType
  <1> USE DEF callers, flags, pool, counters
  <1>1. ASSUME NEW c \in Caller, Lookup(c) PROVE LifeInv'
    <2>1. UNCHANGED <<flags, socket, closing>> /\ pc[c] = "idle"
      BY <1>1 DEF Lookup
    <2>2. ASSUME NEW s \in Session, cred[s] # None, Join(c, s), UNCHANGED <<cred, initting>>
          PROVE  LifeInv'
      <3>1. /\ mine' = [mine EXCEPT ![c] = s]
            /\ \/ pc' = [pc EXCEPT ![c] = "hold"] /\ logged[s]
               \/ pc' = [pc EXCEPT ![c] = "wait"]
        BY <2>2 DEF Join
      <3>2. Broken'
        BY <1>t, <2>1 DEF Broken
      <3>3. Untried'
        BY <1>t, <2>1, <2>2, <3>1 DEF Untried, Started, TypeOK
      <3>4. Attended'
        BY <1>t, <2>1, <2>2, <3>1 DEF Attended, Started, TypeOK
      <3>5. Registered'
        BY <1>t, <2>1, <2>2, <3>1 DEF Registered, Builds, TypeOK
      <3> QED BY <1>u, <3>2, <3>3, <3>4, <3>5 DEF LifeInv
    <2>3. ASSUME NEW s \in Session, cred[s] = None, initting[CredOf(c)] = None,
                 cred' = [cred EXCEPT ![s] = CredOf(c)],
                 initting' = [initting EXCEPT ![CredOf(c)] = s],
                 mine' = [mine EXCEPT ![c] = s],
                 pc' = [pc EXCEPT ![c] = "assign"]
          PROVE  LifeInv'
      <3>1. \A d \in Caller : pc[d] # "idle" => mine[d] # s
        BY <1>t, <2>3 DEF Owned
      <3>2. Broken'
        BY <1>t, <2>1 DEF Broken
      <3>3. Untried'
        BY <1>t, <1>c, <2>1, <2>3, <3>1 DEF Untried, Started, TypeOK
      <3>4. Attended'
        BY <1>t, <2>1, <2>3 DEF Attended, Started, TypeOK
      <3>5. Registered'
        <4>1. \A d \in Caller : Builds(d) => CredOf(d) # CredOf(c)
          BY <1>t, <1>c, <2>3, SessionsAssumption DEF Registered, Builds
        <4>2. \A d \in Caller \ {c} : Builds(d)' <=> Builds(d) /\ mine'[d] = mine[d]
          BY <1>t, <2>3, Zenon DEF Builds, TypeOK
        <4> QED BY <1>t, <1>c, <2>1, <2>3, <3>1, <4>1, <4>2 DEF Registered, Builds, TypeOK
      <3> QED BY <1>u, <3>2, <3>3, <3>4, <3>5 DEF LifeInv
    <2>4. CASE \E s \in Candidates : Join(c, s) /\ UNCHANGED <<cred, initting>> /\ cred[s] = CredOf(c)
      <3>1. Candidates \subseteq Session
        BY <1>t DEF Candidates, Kept, TypeOK
      <3> QED BY <1>c, <2>2, <2>4, <3>1
    <2>5. CASE Pending(c) # None /\ Join(c, Pending(c)) /\ UNCHANGED <<cred, initting>>
      <3>1. Pending(c) \in Session /\ cred[Pending(c)] # None
        BY <1>t, <1>c, <2>5 DEF Pending, LifeInv, UsersInv, PoolInv, Pended, TypeOK
      <3> QED BY <2>2, <2>5, <3>1
    <2>6. CASE /\ Pending(c) = None /\ Unused # {}
               /\ cred' = [cred EXCEPT ![NewSession] = CredOf(c)]
               /\ initting' = [initting EXCEPT ![CredOf(c)] = NewSession]
               /\ mine' = [mine EXCEPT ![c] = NewSession]
               /\ pc' = [pc EXCEPT ![c] = "assign"]
      <3>1. NewSession \in Session /\ cred[NewSession] = None
        BY <2>6 DEF NewSession, Unused
      <3> QED BY <2>3, <2>6, <3>1 DEF Pending
    <2> QED BY <1>1, <2>4, <2>5, <2>6 DEF Lookup
  <1>2. ASSUME NEW c \in Caller, SetupFails(c) \/ SetupDone(c) PROVE LifeInv'
    <2>1. /\ UNCHANGED <<cred, flags, socket, closing>> /\ Builds(c)
          /\ initting' = [initting EXCEPT ![CredOf(c)] = None]
      BY <1>2 DEF SetupFails, SetupDone, Builds
    <2>2. \A d \in Caller \ {c} : pc'[d] = pc[d] /\ mine'[d] = mine[d]
      BY <1>t, <1>2 DEF SetupFails, SetupDone, TypeOK
    <2>3. pc'[c] = "idle" \/ (pc'[c] = "hold" /\ pc[c] = "login" /\ mine'[c] = mine[c])
      BY <1>t, <1>2 DEF SetupFails, SetupDone, TypeOK
    <2>4. Broken' /\ Untried' /\ Attended'
      BY <1>t, <2>1, <2>2, <2>3 DEF Broken, Untried, Attended, Started
    <2>5. Registered'
      <3>1. ASSUME NEW d \in Caller, Builds(d)'
            PROVE  d # c /\ Builds(d) /\ initting'[CredOf(d)] = initting[CredOf(d)]
        <4>1. d # c /\ Builds(d)
          BY <2>2, <2>3, <3>1 DEF Builds
        <4>2. CredOf(d) # CredOf(c)
          BY <1>t, <2>1, <4>1 DEF Registered
        <4> QED BY <1>t, <1>c, <2>1, <4>1, <4>2 DEF TypeOK
      <3> QED BY <1>t, <2>1, <2>2, <3>1 DEF Registered
    <2> QED BY <1>u, <2>4, <2>5 DEF LifeInv
  <1>3. ASSUME NEW c \in Caller, AssignSocket(c) PROVE LifeInv'
    <2>1. /\ UNCHANGED <<cred, flags, closing, mine, initting>> /\ pc[c] = "assign"
          /\ pc' = [pc EXCEPT ![c] = "send"]
          /\ \A s \in Session \ {mine[c]} : socket'[s] = socket[s]
      BY <1>t, <1>3 DEF AssignSocket, TypeOK
    <2>2. Broken' /\ Attended'
      BY <1>t, <2>1 DEF Broken, Attended, Started, TypeOK
    <2>3. Untried'
      BY <1>t, <2>1 DEF Untried, Started, TypeOK, Owned, Registered, Builds
    <2>4. Registered'
      BY <1>t, <2>1 DEF Registered, Builds, TypeOK
    <2> QED BY <1>u, <2>2, <2>3, <2>4 DEF LifeInv
  <1>4. ASSUME NEW c \in Caller, Send(c) PROVE LifeInv'
    <2>1. /\ UNCHANGED <<cred, logged, broken, socket, closing, mine, initting>>
          /\ pc[c] = "send" /\ pc' = [pc EXCEPT ![c] = "login"]
          /\ logging' = [logging EXCEPT ![mine[c]] = TRUE]
      BY <1>4 DEF Send
    <2>2. \A s \in Session : logging'[s] <=> logging[s] \/ s = mine[c]
      BY <1>t, <2>1, Zenon DEF TypeOK
    <2>3. Broken'
      BY <1>t, <2>1, <2>2 DEF Broken, Untried, Started
    <2>4. Untried'
      BY <1>t, <2>1, <2>2 DEF Untried, Started, Owned, Registered, Builds, TypeOK
    <2>5. Attended'
      BY <1>t, <2>1, <2>2 DEF Attended, Started, TypeOK
    <2>6. Registered'
      BY <1>t, <2>1 DEF Registered, Builds, TypeOK
    <2> QED BY <1>u, <2>3, <2>4, <2>5, <2>6 DEF LifeInv
  <1>5. ASSUME NEW c \in Caller, WaitDone(c) PROVE LifeInv'
    <2>1. /\ UNCHANGED <<cred, flags, socket, closing, initting>> /\ pc[c] = "wait"
          /\ \A d \in Caller \ {c} : pc'[d] = pc[d] /\ mine'[d] = mine[d]
          /\ pc'[c] = "idle" \/ (pc'[c] = "hold" /\ mine'[c] = mine[c] /\ Started(mine[c]))
      BY <1>t, <1>5 DEF WaitDone, Started, TypeOK
    <2>2. Broken' /\ Untried' /\ Attended'
      BY <1>t, <2>1 DEF Broken, Untried, Attended, Started
    <2>3. Registered'
      BY <1>t, <2>1 DEF Registered, Builds
    <2> QED BY <1>u, <2>2, <2>3 DEF LifeInv
  <1>6. ASSUME NEW c \in Caller, Logout(c) \/ LoggedOut(c) PROVE LifeInv'
    <2>1. mine[c] \in Session /\ Started(mine[c])
      BY <1>6, DownStarted
    <2>2. /\ UNCHANGED <<cred, closing, initting>>
          /\ \A d \in Caller \ {c} : pc'[d] = pc[d] /\ mine'[d] = mine[d]
      BY <1>t, <1>6 DEF Logout, LoggedOut, TypeOK
    <2>3. CASE Down(mine[c]) /\ pc'[c] = "idle"
      BY <1>u, <2>1, <2>2, <2>3, DownLife
    <2>4. CASE UNCHANGED <<flags, socket>> /\ pc'[c] = "idle"
      <3>1. Broken' /\ \A s \in Session : Started(s)' <=> Started(s)
        BY <1>t, <2>4 DEF Broken, Started
      <3>2. \A s \in closing' : s \in closing
        BY <2>2
      <3> QED BY <1>u, <2>2, <2>4, <3>1, <3>2, LifeStays
    <2>5. CASE UNCHANGED <<flags, socket, mine>> /\ pc[c] = "hold" /\ pc'[c] = "leave"
      <3>1. Broken' /\ Untried' /\ Attended'
        BY <1>t, <2>2, <2>5 DEF Broken, Untried, Attended, Started
      <3>2. Registered'
        BY <1>t, <2>2, <2>5 DEF Registered, Builds
      <3> QED BY <1>u, <3>1, <3>2 DEF LifeInv
    <2> QED BY <1>6, <1>t, <2>3, <2>4, <2>5 DEF Logout, LoggedOut, TypeOK
  <1>7. ASSUME NEW t \in Session, LoggedIn(t) \/ Granted(t) \/ Relog(t) PROVE LifeInv'
    <2>1. /\ UNCHANGED <<pc, mine, cred, broken, socket, closing, initting>>
          /\ ~broken[t]
      BY <1>t, <1>7 DEF LoggedIn, Granted, Relog, Broken
    <2>2. \A s \in Session : /\ s # t => logging'[s] = logging[s] /\ logged'[s] = logged[s]
                             /\ s = t => (logging'[s] \/ logged'[s]) /\ (logging[s] \/ logged[s])
      <3>1. CASE LoggedIn(t)
        BY <1>t, <3>1, Zenon DEF LoggedIn, TypeOK
      <3>2. CASE Granted(t)
        BY <1>t, <3>2, Zenon DEF Granted, TypeOK
      <3>3. CASE Relog(t)
        BY <1>t, <3>3, Zenon DEF Relog, TypeOK
      <3> QED BY <1>7, <3>1, <3>2, <3>3
    <2>3. Broken' /\ \A s \in Session : Started(s)' <=> Started(s)
      BY <1>t, <2>1, <2>2 DEF Broken, Started
    <2> QED BY <1>u, <2>1, <2>3, LifeStays
  <1>8. ASSUME NEW t \in Session, MarkBroken(t) \/ MarkedBroken(t) PROVE LifeInv'
    <2>1. /\ UNCHANGED <<pc, mine, cred, initting>> /\ Started(t)
          /\ \/ Down(t) /\ closing' \subseteq closing
             \/ UNCHANGED <<flags, socket>> /\ closing' = closing \cup {t}
      BY <1>t, <1>8 DEF MarkBroken, MarkedBroken, Started, Attended
    <2>2. CASE Down(t) /\ closing' \subseteq closing
      BY <1>u, <2>1, <2>2, DownLife
    <2>3. CASE UNCHANGED <<flags, socket>> /\ closing' = closing \cup {t}
      <3>1. Broken' /\ \A s \in Session : Started(s)' <=> Started(s)
        BY <1>t, <2>3 DEF Broken, Started
      <3>2. \A s \in closing' : s \in closing \/ (s \in Session /\ Started(s))
        BY <2>1, <2>3
      <3> QED BY <1>u, <2>1, <2>3, <3>1, <3>2, LifeStays
    <2> QED BY <2>1, <2>2, <2>3
  <1>9. CASE UNCHANGED vars
    <2>1. Broken' /\ \A s \in Session : Started(s)' <=> Started(s)
      BY <1>t, <1>9 DEF Broken, Started, vars
    <2> QED BY <1>u, <1>9, <2>1, LifeStays DEF vars
  <1> QED BY <1>1, <1>2, <1>3, <1>4, <1>5, <1>6, <1>7, <1>8, <1>9 DEF Next

\* A session hidden by one with other credentials stays hidden by it.
LEMMA ClashStays ==
  ASSUME LifeInv, [Next]_vars, NEW s \in Session, Clash(s), cred[s] # None
  PROVE  Clash(s)'
  <1>1. PICK u \in Session : cred[u] \notin {None, cred[s]} /\ socket[u] = socket[s]
    BY DEF Clash
  <1>2. cred'[u] = cred[u] /\ cred'[s] = cred[s]
    BY <1>1, NamesStay
  <1>3. socket'[u] = socket[u] /\ socket'[s] = socket[s] /\ socket[s] # None
    BY <1>1, NamesStay DEF Clash
  <1> QED BY <1>1, <1>2, <1>3 DEF Clash

\* Two sessions that work on one socket are hidden by credentials, for with the
\* same ones they would not both have been made.
LEMMA Shadow ==
  ASSUME ShareInv, NEW s \in Session, NEW u \in Session, Live(s), Live(u), s # u,
         socket[u] = socket[s], socket[s] # None, cred[u] # None
  PROVE  Clash(s)
  <1>1. CASE cred[u] # cred[s]
    BY <1>1 DEF Clash
  <1>2. CASE cred[u] = cred[s]
    BY <1>2 DEF ShareInv, Apart, Clash
  <1> QED BY <1>1, <1>2

\* A session that works, or is set up, is in use.
LEMMA LiveUsed ==
  ASSUME LifeInv, NEW s \in Session, Live(s)
  PROVE  cred[s] # None
  BY DEF LifeInv, UsersInv, PoolInv, Owned, Untried, Started, Live, Valid, Setting

\* A step that brings no session to life, and makes a table entry name another
\* session only on behalf of one that is alive.
LEMMA ShareStays ==
  ASSUME ShareInv, [Next]_vars,
         \A s \in Session : Live(s)' => Live(s),
         \A s \in Session : Valid(s)' => Valid(s) \/ handlers'[socket'[s]] = s,
         \/ handlers' = handlers
         \/ \E u \in Session : /\ Live(u) /\ socket[u] # None
                               /\ \E v \in {u, None} : handlers' = [handlers EXCEPT ![socket[u]] = v]
                               /\ Valid(u)' => handlers'[socket[u]] = u
  PROVE  ShareInv'
  <1>1. LifeInv /\ LifeInv' /\ TypeOK
    BY LifeStep DEF ShareInv, LifeInv, UsersInv, PoolInv
  <1>2. \A s \in Session : Live(s) /\ Clash(s) => Clash(s)'
    BY <1>1, LiveUsed, ClashStays
  <1>3. Apart'
    <2> SUFFICES ASSUME NEW s \in Session, NEW t \in Session,
                        Live(s)', Live(t)', s # t, cred'[s] = cred'[t]
                 PROVE  Clash(s)' \/ Clash(t)'
      BY DEF Apart
    <2>1. Live(s) /\ Live(t) /\ cred[s] = cred[t]
      BY <1>1, LiveUsed, NamesStay
    <2> QED BY <1>2, <2>1 DEF ShareInv, Apart
  <1>4. Hidden'
    <2> SUFFICES ASSUME NEW s \in Session, Valid(s)', handlers'[socket'[s]] # s
                 PROVE  Clash(s)'
      BY DEF Hidden
    <2>1. Valid(s) /\ Live(s) /\ socket[s] # None /\ socket'[s] = socket[s]
      BY <1>1, NamesStay DEF Live, Valid, LifeInv, UsersInv, PoolInv, Placed
    <2>2. CASE handlers[socket[s]] # s
      BY <1>2, <2>1, <2>2 DEF ShareInv, Hidden
    <2>3. CASE handlers[socket[s]] = s
      <3>1. handlers' # handlers
        BY <2>1, <2>3
      <3>2. PICK u \in Session : /\ Live(u) /\ socket[u] # None
                                 /\ \E v \in {u, None} : handlers' = [handlers EXCEPT ![socket[u]] = v]
                                 /\ Valid(u)' => handlers'[socket[u]] = u
        BY <3>1
      <3>3. socket[u] = socket[s]
        BY <1>1, <2>1, <2>3, <3>2 DEF TypeOK
      <3>4. u # s
        BY <2>1, <3>2
      <3>5. Clash(s)
        BY <1>1, <2>1, <3>2, <3>3, <3>4, LiveUsed, Shadow
      <3> QED BY <1>2, <2>1, <3>5
    <2> QED BY <2>2, <2>3
  <1> QED BY <1>1, <1>3, <1>4 DEF ShareInv

\* Every action keeps sessions with the same credentials apart.
LEMMA ShareStep == ShareInv /\ [Next]_vars => ShareInv'
  <1> SUFFICES ASSUME ShareInv, [Next]_vars PROVE ShareInv'
    OBVIOUS
  <1>t. /\ TypeOK /\ Owned /\ Broken /\ Untried /\ Attended /\ Registered /\ Placed
        /\ \A c \in Caller : pc[c] # "idle" => mine[c] \in Session
    BY DEF ShareInv, LifeInv, UsersInv, PoolInv, Owned, TypeOK
  <1>n. \A s \in Session : s # None
    BY SessionsAssumption
  <1>l. LifeInv /\ LifeInv'
    BY LifeStep DEF ShareInv
  <1>c. \A c \in Caller : CredOf(c) \in BOOLEAN /\ CredOf(c) # None
    BY CredType
  <1> USE DEF callers, flags, pool, counters
  <1>1. ASSUME NEW c \in Caller, Lookup(c) PROVE ShareInv'
    <2>1. UNCHANGED <<flags, socket>> /\ pc[c] = "idle" /\ handlers' = Kept
      BY <1>1 DEF Lookup
    <2>2. \A s \in Session : Valid(s)' <=> Valid(s)
      BY <2>1 DEF Valid
    <2>3. \A s \in Session : Valid(s) /\ handlers[socket[s]] = s => Kept[socket[s]] = s
      BY <1>t, <1>n DEF Kept, Valid, Placed, TypeOK
    <2>4. \A s \in Session : Live(s) /\ Clash(s) => Clash(s)'
      BY <1>l, LiveUsed, ClashStays
    <2>5. Hidden'
      BY <2>1, <2>2, <2>3, <2>4 DEF ShareInv, Hidden, Live
    <2>6. ASSUME \A s \in Session : Setting(s)' => Setting(s)
          PROVE  Apart'
      <3> SUFFICES ASSUME NEW s \in Session, NEW t \in Session,
                          Live(s)', Live(t)', s # t, cred'[s] = cred'[t]
                   PROVE  Clash(s)' \/ Clash(t)'
        BY DEF Apart
      <3>1. Live(s) /\ Live(t) /\ cred[s] = cred[t]
        BY <1>l, <2>2, <2>6, LiveUsed, NamesStay DEF Live
      <3> QED BY <2>4, <3>1 DEF ShareInv, Apart
    <2>7. CASE \E s : Join(c, s)
      <3>1. PICK s : Join(c, s)
        BY <2>7
      <3>2. /\ mine' = [mine EXCEPT ![c] = s]
            /\ pc' = [pc EXCEPT ![c] = "hold"] \/ pc' = [pc EXCEPT ![c] = "wait"]
        BY <3>1 DEF Join
      <3>3. \A t \in Session : Setting(t)' => Setting(t)
        BY <1>t, <2>1, <3>2 DEF Setting, TypeOK
      <3> QED BY <1>l, <2>5, <2>6, <3>3 DEF ShareInv
    <2>8. CASE /\ ~\E s \in Candidates : cred[s] = CredOf(c)
               /\ Pending(c) = None /\ Unused # {}
               /\ cred' = [cred EXCEPT ![NewSession] = CredOf(c)]
               /\ mine' = [mine EXCEPT ![c] = NewSession]
               /\ pc' = [pc EXCEPT ![c] = "assign"]
      <3> DEFINE n == NewSession
      <3>1. n \in Session /\ cred[n] = None /\ cred'[n] = CredOf(c)
        BY <1>t, <2>8 DEF NewSession, Unused, TypeOK
      <3>2. \A t \in Session : Setting(t)' => Setting(t) \/ t = n
        BY <1>t, <2>1, <2>8 DEF Setting, TypeOK
      <3> HIDE DEF n
      <3>3. \A t \in Session : Live(t)' => Live(t) \/ t = n
        BY <2>2, <3>2 DEF Live
      <3>4. ASSUME NEW s \in Session, Live(s), cred[s] = CredOf(c)
            PROVE  Clash(s)
        <4>1. CASE Valid(s)
          <5>1. handlers[socket[s]] # s
            <6> SUFFICES ASSUME handlers[socket[s]] = s PROVE FALSE
              OBVIOUS
            <6>1. Kept[socket[s]] = s /\ socket[s] \in Socket
              BY <1>t, <2>3, <4>1 DEF Placed, Valid, TypeOK
            <6>2. s \in Candidates
              BY <1>n, <6>1 DEF Candidates
            <6> QED BY <2>8, <3>4, <6>2
          <5> QED BY <4>1, <5>1 DEF ShareInv, Hidden
        <4>2. CASE Setting(s)
          <5>1. PICK d \in Caller : pc[d] \in {"assign", "send"} /\ mine[d] = s
            BY <4>2 DEF Setting
          <5>2. initting[CredOf(d)] = s /\ CredOf(d) = CredOf(c)
            BY <1>t, <3>4, <5>1 DEF Registered, Builds
          <5> QED BY <1>n, <2>8, <5>2 DEF Pending
        <4> QED BY <3>4, <4>1, <4>2 DEF Live
      <3>5. Apart'
        <4> SUFFICES ASSUME NEW s \in Session, NEW t \in Session,
                            Live(s)', Live(t)', s # t, cred'[s] = cred'[t]
                     PROVE  Clash(s)' \/ Clash(t)'
          BY DEF Apart
        <4>1. \A u \in Session \ {n} : Live(u)' => Live(u) /\ cred'[u] = cred[u]
          BY <1>l, <3>3, LiveUsed, NamesStay
        <4>2. CASE s # n /\ t # n
          BY <2>4, <4>1, <4>2 DEF ShareInv, Apart
        <4>3. CASE s = n
          BY <2>4, <3>1, <3>4, <4>1, <4>3
        <4>4. CASE t = n
          BY <2>4, <3>1, <3>4, <4>1, <4>4
        <4> QED BY <4>2, <4>3, <4>4
      <3> QED BY <1>l, <2>5, <3>5 DEF ShareInv
    <2> QED BY <1>1, <2>7, <2>8 DEF Lookup
  <1>2. ASSUME NEW c \in Caller, SetupFails(c) \/ SetupDone(c) \/ WaitDone(c) PROVE ShareInv'
    <2>1. UNCHANGED <<flags, socket, handlers>>
      BY <1>2 DEF SetupFails, SetupDone, WaitDone
    <2>2. \A s \in Session : Setting(s)' => Setting(s)
      BY <1>t, <1>2 DEF SetupFails, SetupDone, WaitDone, Setting, TypeOK
    <2>3. \A s \in Session : (Valid(s)' <=> Valid(s)) /\ (Live(s)' => Live(s))
      BY <2>1, <2>2 DEF Valid, Live
    <2> QED BY <2>1, <2>3, ShareStays
  <1>3. ASSUME NEW c \in Caller, AssignSocket(c) PROVE ShareInv'
    <2>1. /\ UNCHANGED <<flags, handlers, mine>> /\ pc[c] = "assign"
          /\ pc' = [pc EXCEPT ![c] = "send"]
      BY <1>3 DEF AssignSocket
    <2>2. \A s \in Session : Setting(s)' => Setting(s)
      BY <1>t, <2>1 DEF Setting, TypeOK
    <2>3. \A s \in Session : (Valid(s)' <=> Valid(s)) /\ (Live(s)' => Live(s))
      BY <2>1, <2>2 DEF Valid, Live
    <2> QED BY <2>1, <2>3, ShareStays
  <1>4. ASSUME NEW c \in Caller, Send(c) PROVE ShareInv'
    <2> DEFINE u == mine[c]
    <2>1. /\ UNCHANGED <<logged, broken, socket, mine>> /\ pc[c] = "send"
          /\ pc' = [pc EXCEPT ![c] = "login"]
          /\ logging' = [logging EXCEPT ![u] = TRUE]
          /\ handlers' = [handlers EXCEPT ![socket[u]] = u]
          /\ u \in Session /\ socket[u] \in Socket
      BY <1>t, <1>4 DEF Send, Placed, TypeOK
    <2>2. \A s \in Session : logging'[s] <=> logging[s] \/ s = u
      BY <1>t, <2>1, Zenon DEF TypeOK
    <2>3. Setting(u)
      BY <2>1 DEF Setting
    <2>4. \A s \in Session : Setting(s)' => Setting(s)
      BY <1>t, <2>1 DEF Setting, TypeOK
    <2>5. handlers'[socket'[u]] = u
      BY <1>t, <2>1 DEF TypeOK
    <2> HIDE DEF u
    <2>6. \A s \in Session : (Valid(s)' => Valid(s) \/ s = u) /\ (Live(s)' => Live(s))
      BY <2>1, <2>2, <2>3, <2>4 DEF Valid, Live
    <2>7. Live(u) /\ socket[u] # None
      BY <2>1, <2>3, SessionsAssumption DEF Live
    <2> QED BY <2>1, <2>5, <2>6, <2>7, ShareStays
  <1>5. ASSUME NEW u \in Session, UNCHANGED <<cred, flags, socket, handlers>>,
               \A s \in Session : Setting(s)' => Setting(s)
        PROVE  ShareInv'
    <2>1. \A s \in Session : (Valid(s)' <=> Valid(s)) /\ (Live(s)' => Live(s))
      BY <1>5 DEF Valid, Live
    <2> QED BY <1>5, <2>1, ShareStays
  <1>6. ASSUME NEW u \in Session, Down(u), Started(u),
               \A s \in Session : Setting(s)' => Setting(s)
        PROVE  ShareInv'
    <2>1. /\ \A t \in Session \ {u} : /\ logging'[t] = logging[t] /\ logged'[t] = logged[t]
                                      /\ broken'[t] = broken[t]
          /\ ~logging'[u] /\ ~logged'[u] /\ broken'[u]
          /\ UNCHANGED socket
          /\ handlers' = handlers \/ (~broken[u] /\ handlers' = [handlers EXCEPT ![socket[u]] = None])
      BY <1>t, <1>6, DownFlags
    <2>2. ~Valid(u)' /\ \A s \in Session : (Valid(s)' => Valid(s)) /\ (Live(s)' => Live(s))
      BY <1>6, <2>1 DEF Valid, Live
    <2>3. ~broken[u] => Live(u) /\ socket[u] # None
      BY <1>t, <1>n, <1>6 DEF Started, Live, Valid, Placed
    <2> QED BY <2>1, <2>2, <2>3, ShareStays
  <1>7. ASSUME NEW c \in Caller, Logout(c) \/ LoggedOut(c) PROVE ShareInv'
    <2>1. mine[c] \in Session /\ Started(mine[c])
      BY <1>l, <1>7, DownStarted
    <2>2. \A s \in Session : Setting(s)' => Setting(s)
      BY <1>t, <1>7 DEF Logout, LoggedOut, Setting, TypeOK
    <2>3. Down(mine[c]) \/ UNCHANGED <<cred, flags, socket, handlers>>
      BY <1>7 DEF Logout, LoggedOut
    <2> QED BY <1>5, <1>6, <2>1, <2>2, <2>3
  <1>8. ASSUME NEW t \in Session, MarkBroken(t) \/ MarkedBroken(t) PROVE ShareInv'
    <2>1. /\ UNCHANGED <<pc, mine>> /\ Started(t)
          /\ Down(t) \/ UNCHANGED <<cred, flags, socket, handlers>>
      BY <1>t, <1>8 DEF MarkBroken, MarkedBroken, Started, Attended
    <2>2. \A s \in Session : Setting(s)' => Setting(s)
      BY <2>1 DEF Setting
    <2> QED BY <1>5, <1>6, <2>1, <2>2
  <1>9. ASSUME NEW t \in Session, LoggedIn(t) \/ Granted(t) PROVE ShareInv'
    <2>1. UNCHANGED <<pc, mine, broken, socket, handlers>>
      BY <1>9 DEF LoggedIn, Granted
    <2>2. \A s \in Session : logging'[s] \/ logged'[s] => logging[s] \/ logged[s]
      <3>1. CASE LoggedIn(t)
        BY <1>t, <3>1, Zenon DEF LoggedIn, TypeOK
      <3>2. CASE Granted(t)
        BY <1>t, <3>2, Zenon DEF Granted, TypeOK
      <3> QED BY <1>9, <3>1, <3>2
    <2>3. \A s \in Session : (Valid(s)' => Valid(s)) /\ (Live(s)' => Live(s))
      BY <2>1, <2>2 DEF Valid, Live, Setting
    <2> QED BY <2>1, <2>3, ShareStays
  <1>10. ASSUME NEW u \in Session, Relog(u) PROVE ShareInv'
    <2>1. /\ UNCHANGED <<pc, mine, broken, socket>> /\ logged[u] /\ ~broken[u]
          /\ handlers' = [handlers EXCEPT ![socket[u]] = u]
      BY <1>10 DEF Relog
    <2>2. \A s \in Session : logging'[s] \/ logged'[s] => logging[s] \/ logged[s]
      BY <1>t, <1>10, Zenon DEF Relog, TypeOK
    <2>3. \A s \in Session : (Valid(s)' => Valid(s)) /\ (Live(s)' => Live(s))
      BY <2>1, <2>2 DEF Valid, Live, Setting
    <2>4. Live(u) /\ socket[u] \in Socket /\ socket[u] # None
      BY <1>t, <1>n, <2>1 DEF Live, Valid, Placed, TypeOK
    <2>5. handlers'[socket[u]] = u
      BY <1>t, <2>1, <2>4 DEF TypeOK
    <2> QED BY <2>1, <2>3, <2>4, <2>5, ShareStays
  <1>11. CASE UNCHANGED vars
    <2>1. UNCHANGED <<cred, flags, socket, handlers>>
      BY <1>11 DEF vars
    <2>2. \A s \in Session : (Valid(s)' <=> Valid(s)) /\ (Live(s)' => Live(s))
      BY <1>11 DEF vars, Valid, Live, Setting
    <2> QED BY <2>1, <2>2, ShareStays
  <1> QED BY <1>1, <1>2, <1>3, <1>4, <1>7, <1>8, <1>9, <1>10, <1>11 DEF Next

\* Callers with the same credentials get the same session, however their
\* look-ups, logins, failures and logouts interleave: a second one is made only
\* beside a session that one with other credentials hides from __new__.
THEOREM SharedCorrect == Spec => []SessionShared
  <1>1. ShareInv => SessionShared
    <2> SUFFICES ASSUME ShareInv, NEW s \in Session, NEW t \in Session,
                        Valid(s), Valid(t), cred[s] = cred[t], s # t
                 PROVE  \E u \in Session : /\ cred[u] \notin {None, cred[s]}
                                           /\ socket[u] \in {socket[s], socket[t]}
      BY DEF SessionShared
    <2>1. Clash(s) \/ Clash(t)
      BY DEF ShareInv, Apart, Live
    <2> QED BY <2>1 DEF Clash
  <1> QED BY <1>1, InitShare, ShareStep, PTL DEF Spec

=============================================================================
