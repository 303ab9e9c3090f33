----------------------------- MODULE IpmiLogin -----------------------------
(* The login of one session of aiohmi/ipmi/private/session.py with a BMC that     *)
(* behaves as aiohmi/ipmi/private/serversession.py: authentication capabilities,  *)
(* open session, RAKP 1 to 4, privilege level.  The packets are UDP datagrams:    *)
(* they can be lost, be slower than the timers of the client, and be reordered.   *)
(*                                                                                *)
(* Both sides know the same password, so a keyed hash is the record of what it    *)
(* covers.  Random bytes and session ids of the BMC are numbers never used        *)
(* before; tags and session ids of the client count from where it starts.         *)
EXTENDS Naturals, Sequences, SequencesExt

CONSTANTS
  BmcHash,   \* hashes of which a BMC may know one: 1 (SHA-1), 256
  BmcLimit,  \* where a BMC may refuse the administrator level: "none" (it grants
             \* it), "rakp" (in RAKP2), "command" (when the level is requested)
  AuthWaits, \* timeouts after which the client gives up a request of the login
  PrivWaits, \* ... and the request for the privilege level
  None,
  MaxLoss,   \* packets lost
  MaxEarly,  \* timeouts while a packet is still on its way
  MaxOvertake \* packets that overtake an earlier one

ASSUME LoginAssumption ==
  /\ BmcHash \subseteq {1, 256}
  /\ BmcLimit \subseteq {"none", "rakp", "command"}
  /\ AuthWaits \in Nat \ {0} /\ PrivWaits \in Nat \ {0}
  /\ MaxLoss \in Nat /\ MaxEarly \in Nat /\ MaxOvertake \in Nat

VARIABLES
  phase,     \* auth, open, rakp2, rakp4: waits for that answer; priv; done; failed
  why,       \* why the login failed
  tag,       \* rmcptag
  localsid,  \* session id of the client, counted from the one it starts with
  hash,      \* attemptedhash
  privlevel, tries,
  waits,     \* timeouts since the last answer or since the login started
  pending,   \* pendingsessionid
  rm,        \* randombytes
  rc,        \* remoterandombytes
  sik,       \* key the client derived
  bmc,       \* the BMC: what kind it is, and its ServerSession for the client
  toBmc, toClient,
  fresh,     \* next random number
  losses, early, overtakes

progress == <<phase, why, tries, waits>>
names == <<tag, localsid, hash, privlevel>>
secrets == <<pending, rm, rc, sik>>
client == <<progress, names, secrets>>
net == <<toBmc, toClient>>
faults == <<losses, early, overtakes>>
vars == <<client, bmc, net, fresh, faults>>

(* A BMC that has not heard of the client.  "on" says that bmc_handlers has a     *)
(* ServerSession for the client, "secure" that its packets are encrypted.         *)
NoSession(b) ==
  [b EXCEPT !.on = FALSE, !.secure = FALSE, !.clientsid = None, !.managedsid = None,
            !.rm = None, !.rc = None, !.role = None, !.sik = None, !.localsid = None,
            !.sessionid = None, !.level = None]

Send(m) == toBmc' = Append(toBmc, m)

(* login: the session starts over and asks for the authentication capabilities.   *)
Init ==
  /\ phase = "auth" /\ why = "none"
  /\ tag = 1 /\ localsid = 1 /\ hash = 256 /\ privlevel = 4 /\ tries = 1 /\ waits = 0
  /\ pending = None /\ rm = None /\ rc = None /\ sik = None
  /\ \E h \in BmcHash, l \in BmcLimit :
       bmc = NoSession([hash |-> h, limit |-> l, on |-> FALSE, secure |-> FALSE,
                        clientsid |-> None, managedsid |-> None, rm |-> None,
                        rc |-> None, role |-> None, sik |-> None,
                        localsid |-> None, sessionid |-> None, level |-> None])
  /\ toBmc = <<[type |-> "auth"]>> /\ toClient = <<>>
  /\ fresh = 1
  /\ losses = 0 /\ early = 0 /\ overtakes = 0

----------------------------------------------------------------------------
(* The client.                                                                    *)

Fail(reason) ==
  /\ phase' = "failed" /\ why' = reason
  /\ UNCHANGED <<tries, waits, names, secrets, toBmc, fresh>>

(* _initsession and _get_channel_auth_cap, by login and _relog.                   *)
Restart(t, p) ==
  /\ phase' = "auth" /\ tries' = t /\ waits' = 0
  /\ tag' = 1 /\ localsid' = 1 /\ hash' = 256 /\ privlevel' = p
  /\ Send([type |-> "auth"])
  /\ UNCHANGED <<why, secrets, fresh>>

Relog == Restart(tries - 1, privlevel)

\* Mutant of OpenRequest: a repeated request looks like the first.
OpenRequestSame(h, w) ==
  /\ phase' = "open" /\ waits' = w
  /\ tag' = 2 /\ localsid' = 2 /\ hash' = h
  /\ Send([type |-> "open", tag |-> 2, sid |-> 2, hash |-> h])
  /\ UNCHANGED <<why, tries, privlevel, secrets, fresh>>

(* _open_rmcpplus_request: a new tag and session id for every request.            *)
OpenRequest(h, w) ==
  /\ phase' = "open" /\ waits' = w
  /\ tag' = tag + 1 /\ localsid' = localsid + 1 /\ hash' = h
  /\ Send([type |-> "open", tag |-> tag + 1, sid |-> localsid + 1, hash |-> h])
  /\ UNCHANGED <<why, tries, privlevel, secrets, fresh>>

GotAuthCap == phase = "auth" /\ OpenRequest(hash, 0)

(* _got_rmcp_response, and _send_rakp1.                                           *)
GotOpenResponse(m) ==
  /\ phase \in {"open", "rakp2", "rakp4"} /\ m.tag = tag
  /\ \/ m.code # 0 /\ hash = 256 /\ OpenRequest(1, waits)
     \/ m.code # 0 /\ hash = 1 /\ Fail("refused")
     \/ /\ m.code = 0 /\ m.sid = localsid
        /\ phase' = "rakp2"
        /\ tag' = tag + 1 /\ pending' = m.managedsid /\ rm' = fresh /\ fresh' = fresh + 1
        /\ Send([type |-> "rakp1", tag |-> tag + 1, rm |-> fresh, role |-> privlevel])
        /\ UNCHANGED <<why, tries, waits, localsid, hash, privlevel, rc, sik>>

Rakp2Mac(s, m, a, b, p, h) ==
  [sid |-> s, managedsid |-> m, rm |-> a, rc |-> b, role |-> p, hash |-> h]
Rakp3Mac(b, s, p) == [rc |-> b, sid |-> s, role |-> p]
Rakp4Mac(k, a, m) == [sik |-> k, rm |-> a, managedsid |-> m]
Sik(a, b, p) == [rm |-> a, rc |-> b, role |-> p]

(* _got_rakp2, and _send_rakp3.                                                   *)
GotRakp2(m) ==
  /\ phase \in {"rakp2", "rakp4"} /\ m.tag = tag
  /\ \/ m.code # 0 /\ privlevel = 4 /\ Restart(1, 3)
     \/ m.code # 0 /\ privlevel # 4 /\ Fail("refused")
     \/ /\ m.code = 0 /\ m.sid = localsid
        /\ m.mac # Rakp2Mac(localsid, pending, rm, m.rc, privlevel, hash)
        /\ Fail("password")
     \/ /\ m.code = 0 /\ m.sid = localsid
        /\ m.mac = Rakp2Mac(localsid, pending, rm, m.rc, privlevel, hash)
        /\ phase' = "rakp4"
        /\ tag' = tag + 1 /\ rc' = m.rc /\ sik' = Sik(rm, m.rc, privlevel)
        /\ Send([type |-> "rakp3", tag |-> tag + 1,
                 mac |-> Rakp3Mac(m.rc, localsid, privlevel)])
        /\ UNCHANGED <<why, tries, waits, localsid, hash, privlevel, pending, rm, fresh>>

PrivRequest(p) ==
  [type |-> "priv", sik |-> sik, sid |-> pending, level |-> p]

(* _got_rakp4, and _req_priv_level up to its wait.                                *)
GotRakp4(m) ==
  /\ phase = "rakp4" /\ m.tag = tag /\ m.sid = localsid
  /\ \/ m.mac # Rakp4Mac(sik, rm, pending) /\ Fail("integrity")
     \/ /\ m.mac = Rakp4Mac(sik, rm, pending)
        /\ phase' = "priv" /\ tries' = 1
        /\ Send(PrivRequest(privlevel))
        /\ UNCHANGED <<why, waits, names, secrets, fresh>>

\* Mutant of GotPrivilege: the level is lowered after a refusal, but not asked for.
GotPrivilegeLowered(m) ==
  /\ phase = "priv" /\ m.sik = sik /\ m.sid = localsid /\ m.level = privlevel
  /\ phase' = "done" /\ waits' = 0
  /\ privlevel' = IF m.code = 0 THEN privlevel ELSE 3
  /\ UNCHANGED <<why, tries, tag, localsid, hash, secrets, toBmc, fresh>>

(* The answer to the request for the privilege level.  The sequence number in it   *)
(* tells which of the two requests it is for: here the level does.                *)
GotPrivilege(m) ==
  /\ phase = "priv" /\ m.sik = sik /\ m.sid = localsid /\ m.level = privlevel
  /\ \/ /\ m.code = 0
        /\ phase' = "done" /\ waits' = 0
        /\ UNCHANGED <<why, tries, names, secrets, toBmc, fresh>>
     \/ /\ m.code # 0 /\ privlevel = 4
        /\ privlevel' = 3 /\ waits' = 0
        /\ Send(PrivRequest(3))
        /\ UNCHANGED <<phase, why, tries, tag, localsid, hash, secrets, fresh>>
     \/ m.code # 0 /\ privlevel # 4 /\ Fail("refused")

Got(m) ==
  \/ m.type = "auth" /\ GotAuthCap
  \/ m.type = "openrsp" /\ GotOpenResponse(m)
  \/ m.type = "rakp2" /\ GotRakp2(m)
  \/ m.type = "rakp4" /\ GotRakp4(m)
  \/ m.type = "privrsp" /\ GotPrivilege(m)

(* Packets that no handler accepts: their guards, without what they change.       *)
Accepts(m) ==
  \/ m.type = "auth" /\ phase = "auth"
  \/ /\ m.type = "openrsp" /\ phase \in {"open", "rakp2", "rakp4"} /\ m.tag = tag
     /\ m.code # 0 \/ m.sid = localsid
  \/ /\ m.type = "rakp2" /\ phase \in {"rakp2", "rakp4"} /\ m.tag = tag
     /\ m.code # 0 \/ m.sid = localsid
  \/ m.type = "rakp4" /\ phase = "rakp4" /\ m.tag = tag /\ m.sid = localsid
  \/ /\ m.type = "privrsp" /\ phase = "priv" /\ m.sik = sik /\ m.sid = localsid
     /\ m.level = privlevel

(* The packet that arrives next: the first on its way, or one that overtakes it.   *)
Arrives(i) ==
  /\ i = 1 \/ overtakes < MaxOvertake
  /\ overtakes' = IF i = 1 THEN overtakes ELSE overtakes + 1

ClientReceive ==
  \E i \in DOMAIN toClient :
    /\ Arrives(i)
    /\ toClient' = RemoveAt(toClient, i)
    /\ \/ Got(toClient[i])
       \/ ~Accepts(toClient[i]) /\ UNCHANGED <<client, toBmc, fresh>>
    /\ UNCHANGED <<bmc, losses, early>>

\* Mutant of GiveUp: always tries again.
GiveUpNever == Relog

(* The login starts over while there is a try left.                               *)
GiveUp == IF tries > 0 THEN Relog ELSE Fail("timeout")

\* Mutant of TimedOut: the timer of an open session request is not armed.
TimedOutNotOpen ==
  \/ /\ phase = "auth"
     /\ \/ waits + 1 >= AuthWaits /\ GiveUp
        \/ /\ waits + 1 < AuthWaits
           /\ waits' = waits + 1
           /\ Send([type |-> "auth"])
           /\ UNCHANGED <<phase, why, tries, names, secrets, fresh>>
  \/ phase \in {"rakp2", "rakp4"} /\ GiveUp
  \/ /\ phase = "priv"
     /\ \/ waits + 1 >= PrivWaits /\ (GiveUp \/ Fail("timeout"))
        \/ /\ waits + 1 < PrivWaits
           /\ waits' = waits + 1
           /\ Send(PrivRequest(privlevel))
           /\ UNCHANGED <<phase, why, tries, names, secrets, fresh>>

(* _timedout: what the client waits for decides.  A request for capabilities or   *)
(* for the privilege level is repeated, an open session request made anew, and a  *)
(* RAKP exchange started over.                                                    *)
TimedOut ==
  \/ /\ phase = "auth"
     /\ \/ waits + 1 >= AuthWaits /\ GiveUp
        \/ /\ waits + 1 < AuthWaits
           /\ waits' = waits + 1
           /\ Send([type |-> "auth"])
           /\ UNCHANGED <<phase, why, tries, names, secrets, fresh>>
  \/ /\ phase = "open"
     /\ \/ waits + 1 >= AuthWaits /\ GiveUp
        \/ waits + 1 < AuthWaits /\ OpenRequest(hash, waits + 1)
  \/ phase \in {"rakp2", "rakp4"} /\ GiveUp
  \/ /\ phase = "priv"
     /\ \/ waits + 1 >= PrivWaits /\ (GiveUp \/ Fail("timeout"))
        \/ /\ waits + 1 < PrivWaits
           /\ waits' = waits + 1
           /\ Send(PrivRequest(privlevel))
           /\ UNCHANGED <<phase, why, tries, names, secrets, fresh>>

Due == toBmc = <<>> /\ toClient = <<>>

Timeout ==
  /\ Due \/ early < MaxEarly
  /\ early' = IF Due THEN early ELSE early + 1
  /\ TimedOut
  /\ UNCHANGED <<bmc, toClient, losses, overtakes>>

----------------------------------------------------------------------------
(* The BMC.                                                                       *)

Answer(m) == toClient' = Append(toClient, m)

(* A request without a session ends the ServerSession of the client's address.    *)
AuthCap ==
  /\ bmc' = NoSession(bmc)
  /\ Answer([type |-> "auth"])
  /\ UNCHANGED fresh

(* A ServerSession is made for the client, or the one there is starts over.  Once *)
(* it encrypts, the client cannot make anything of its response.                  *)
OpenSession(m) ==
  IF m.hash # bmc.hash
  THEN /\ Answer([type |-> "openrsp", tag |-> m.tag, code |-> 1, sid |-> m.sid,
                  managedsid |-> None])
       /\ UNCHANGED <<bmc, fresh>>
  ELSE /\ bmc' = [bmc EXCEPT !.on = TRUE, !.clientsid = m.sid, !.managedsid = fresh]
       /\ fresh' = fresh + 1
       /\ IF bmc.secure
          THEN UNCHANGED toClient
          ELSE Answer([type |-> "openrsp", tag |-> m.tag, code |-> 0, sid |-> m.sid,
                       managedsid |-> fresh])

(* _got_rakp1.                                                                    *)
Rakp1(m) ==
  IF bmc.limit = "rakp" /\ m.role = 4
  THEN /\ Answer([type |-> "rakp2", tag |-> m.tag, code |-> 13, sid |-> bmc.clientsid,
                  rc |-> None, mac |-> None])
       /\ UNCHANGED <<bmc, fresh>>
  ELSE /\ bmc' = [bmc EXCEPT !.rm = m.rm, !.role = m.role, !.rc = fresh]
       /\ fresh' = fresh + 1
       /\ IF bmc.secure
          THEN UNCHANGED toClient
          ELSE Answer([type |-> "rakp2", tag |-> m.tag, code |-> 0,
                       sid |-> bmc.clientsid, rc |-> fresh,
                       mac |-> Rakp2Mac(bmc.clientsid, bmc.managedsid, m.rm, fresh,
                                        m.role, bmc.hash)])

(* _got_rakp3: the keys are derived before the code of the packet is checked.     *)
Rakp3(m) ==
  LET key == Sik(bmc.rm, bmc.rc, bmc.role)
      good == m.mac = Rakp3Mac(bmc.rc, bmc.clientsid, bmc.role)
  IN  /\ bmc' = [bmc EXCEPT !.sik = key,
                            !.localsid = IF good THEN bmc.managedsid ELSE @,
                            !.sessionid = IF good THEN bmc.clientsid ELSE @,
                            !.secure = @ \/ good]
      /\ IF good /\ ~bmc.secure
         THEN Answer([type |-> "rakp4", tag |-> m.tag, sid |-> bmc.clientsid,
                      mac |-> Rakp4Mac(key, bmc.rm, bmc.managedsid)])
         ELSE UNCHANGED toClient
      /\ UNCHANGED fresh

(* handle_client_request, for the privilege level.                                *)
Privilege(m) ==
  LET code == IF bmc.limit = "command" /\ m.level = 4 THEN 129 ELSE 0
  IN  /\ bmc' = [bmc EXCEPT !.level = IF code = 0 THEN m.level ELSE @]
      /\ Answer([type |-> "privrsp", sik |-> bmc.sik, sid |-> bmc.sessionid,
                 level |-> m.level, code |-> code])
      /\ UNCHANGED fresh

Serves(m) ==
  \/ m.type \in {"auth", "open"}
  \/ m.type = "rakp1" /\ bmc.on
  \/ m.type = "rakp3" /\ bmc.on /\ bmc.rc # None
  \/ m.type = "priv" /\ bmc.on /\ bmc.secure /\ m.sik = bmc.sik /\ m.sid = bmc.localsid

BmcReceive ==
  \E i \in DOMAIN toBmc :
    LET m == toBmc[i]
    IN  /\ Arrives(i)
        /\ toBmc' = RemoveAt(toBmc, i)
        /\ \/ m.type = "auth" /\ AuthCap
           \/ m.type = "open" /\ OpenSession(m)
           \/ m.type = "rakp1" /\ Serves(m) /\ Rakp1(m)
           \/ m.type = "rakp3" /\ Serves(m) /\ Rakp3(m)
           \/ m.type = "priv" /\ Serves(m) /\ Privilege(m)
           \/ ~Serves(m) /\ UNCHANGED <<bmc, fresh, toClient>>
        /\ UNCHANGED <<client, losses, early>>

----------------------------------------------------------------------------
Lose ==
  /\ losses < MaxLoss
  /\ losses' = losses + 1
  /\ \/ /\ \E i \in DOMAIN toBmc : toBmc' = RemoveAt(toBmc, i)
        /\ UNCHANGED toClient
     \/ /\ \E i \in DOMAIN toClient : toClient' = RemoveAt(toClient, i)
        /\ UNCHANGED toBmc
  /\ UNCHANGED <<client, bmc, fresh, early, overtakes>>

Next == ClientReceive \/ BmcReceive \/ Timeout \/ Lose

Spec == Init /\ [][Next]_vars

(* Packets that are not lost arrive, and the timers of the client run.            *)
FairSpec ==
  /\ Spec
  /\ WF_vars(ClientReceive) /\ WF_vars(BmcReceive) /\ WF_vars(Due /\ Timeout)

----------------------------------------------------------------------------
Opt(S) == S \cup {None}
Requests ==
  [type : {"auth"}]
  \cup [type : {"open"}, tag : Nat, sid : Nat, hash : {1, 256}]
  \cup [type : {"rakp1"}, tag : Nat, rm : Nat, role : {3, 4}]
  \cup [type : {"rakp3"}, tag : Nat,
        mac : [rc : Nat, sid : Nat, role : {3, 4}]]
  \cup [type : {"priv"}, sik : [rm : Nat, rc : Nat, role : {3, 4}], sid : Nat,
        level : {3, 4}]

(* What the client sends is well formed: it never uses a random number or key it  *)
(* does not have.                                                                 *)
TypeOK ==
  /\ phase \in {"auth", "open", "rakp2", "rakp4", "priv", "done", "failed"}
  /\ why \in {"none", "timeout", "password", "integrity", "refused"}
  /\ tag \in Nat /\ localsid \in Nat /\ hash \in {1, 256} /\ privlevel \in {3, 4}
  /\ tries \in {0, 1} /\ waits \in 0..(AuthWaits + PrivWaits)
  /\ pending \in Opt(Nat) /\ rm \in Opt(Nat) /\ rc \in Opt(Nat)
  /\ toBmc \in Seq(Requests)
  /\ losses \in 0..MaxLoss /\ early \in 0..MaxEarly /\ overtakes \in 0..MaxOvertake

(* Both sides know the password, so a login that fails is never blamed on it:      *)
(* answers to an aborted attempt are recognised by the session id of the client,  *)
(* which is unique.                                                               *)
PasswordBelieved == why # "password"

(* Once the client trusts its keys, a BMC that still has a session for it holds   *)
(* the same keys and session ids, and when the login is done granted the level    *)
(* that the client believes to have, whatever stale packets reach either side.    *)
SessionAgrees ==
  phase \in {"priv", "done"} /\ bmc.secure =>
    /\ bmc.sik = sik /\ bmc.localsid = pending /\ bmc.sessionid = localsid
    /\ phase = "done" => bmc.level = privlevel

(* One packet that is lost, late or overtaken never makes a login fail, whichever it is and  *)
(* however much the BMC made the client negotiate.                                *)
OneFaultHealed == phase = "failed" => losses + early + overtakes >= 2

(* Every login ends, with a session or an error.                                  *)
LoginEnds == <>(phase \in {"done", "failed"})

=============================================================================
