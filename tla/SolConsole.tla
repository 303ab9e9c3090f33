----------------------------- MODULE SolConsole -----------------------------
(* Serial over LAN: the Console of aiohmi/ipmi/console.py (a client that types   *)
(* text and breaks at a node) and the ServerConsole of the same file (the other  *)
(* end, in aiohmi/ipmi/bmc.py) over an IPMI session that loses and repeats       *)
(* packets.  Both ends number what they send, acknowledge what they receive and  *)
(* run one retry loop per packet sent: a task that waits, resends its packet     *)
(* while any acknowledgement is awaited and gives the console up when it has     *)
(* run out of retries.  Several such loops may be alive at once, because the     *)
(* acknowledgement that lets the next packet go is handled by whichever task     *)
(* reads the socket.                                                             *)
(*                                                                               *)
(* Characters are numbered in the order they are typed at an end.  The session   *)
(* drops a packet numbered below the last one it took, so a channel behaves as a *)
(* queue from which packets vanish and whose last packet taken may come again.   *)
EXTENDS Naturals, Sequences, FiniteSets

CONSTANTS
  ConsoleInput,  \* characters typed at the client
  BmcInput,   \* characters that come from the node
  MaxOut,     \* maxoutcount: the most characters one packet may carry
  SeqMax,     \* the largest packet number (0xf)
  Retries,    \* resends before the console is given up (5)
  Firmware,   \* whether the node end is BMC firmware, which may take a packet in
              \* part, rather than ServerConsole, which takes all of it
  MaxEvent,   \* rare events: breaks, packets repeated by the network or taken in part,
              \* consoles taken by another client, sessions lost or closed
  Capacity    \* packets in flight in one direction; those beyond are lost

Side == {"console", "bmc"}

ASSUME SolAssumption ==
  /\ ConsoleInput \in Nat
  /\ BmcInput \in Nat
  /\ MaxOut \in Nat \ {0}
  /\ SeqMax \in Nat \ {0, 1}
  /\ Retries \in Nat \ {0}
  /\ Firmware \in BOOLEAN
  /\ MaxEvent \in Nat
  /\ Capacity \in Nat \ {0}

VARIABLES
  phase,      \* new, open, closed (activated cleared) or broken, of each end
  typed,      \* characters typed so far
  pending,    \* pendingoutput: texts and breaks that wait to be sent
  myseq,      \* number of the last packet sent
  awaiting,   \* awaitingack
  last,       \* lastpayload
  loops,      \* retry loops alive: [payload, retries]
  remseq,     \* number of the last packet received
  lastsize,   \* its length
  shown,      \* what out_handler was given
  net,        \* packets on their way to an end
  retried,    \* retriedpayload: the client has forced its way in once
  events      \* such events so far

vars == <<phase, typed, pending, myseq, awaiting, last, loops, remseq, lastsize,
          shown, net, retried, events>>
counters == <<retried, events>>

MaxInput(s) == IF s = "console" THEN ConsoleInput ELSE BmcInput
Peer(s) == IF s = "console" THEN "bmc" ELSE "console"

Text(t) == [brk |-> FALSE, text |-> t]
Break == [brk |-> TRUE, text |-> <<>>]

Payload(n, item) ==
  [seq |-> n, ack |-> 0, count |-> 0, nack |-> FALSE, off |-> FALSE,
   brk |-> item.brk, text |-> item.text]

Ack(n, count, nack, off) ==
  [seq |-> 0, ack |-> n, count |-> count, nack |-> nack, off |-> off,
   brk |-> FALSE, text |-> <<>>]

NoPayload == Payload(0, Text(<<>>))

(* What the channel of end s holds once packets were put into it: UDP loses what *)
(* does not fit, and nobody takes what comes for an end that is gone.            *)
Transmit(s, packets) ==
  LET all == net[s] \o packets
  IN  IF phase[s] = "broken" THEN <<>>
      ELSE SubSeq(all, 1, IF Len(all) < Capacity THEN Len(all) ELSE Capacity)

Init ==
  /\ phase = [s \in Side |-> "new"]
  /\ typed = [s \in Side |-> 0]
  /\ pending = [s \in Side |-> <<>>]
  /\ myseq = [s \in Side |-> 0]
  /\ awaiting = [s \in Side |-> FALSE]
  /\ last = [s \in Side |-> NoPayload]
  /\ loops = [s \in Side |-> {}]
  /\ remseq = [s \in Side |-> 0]
  /\ lastsize = [s \in Side |-> 0]
  /\ shown = [s \in Side |-> <<>>]
  /\ net = [s \in Side |-> <<>>]
  /\ retried = FALSE
  /\ events = 0

----------------------------------------------------------------------------
(* Sending.                                                                      *)

(* _addpendingdata: text joins the text before it, a break stands alone.         *)
AddPending(q, item) ==
  IF item.brk \/ q = <<>> \/ q[Len(q)].brk
  THEN Append(q, item)
  ELSE [q EXCEPT ![Len(q)].text = @ \o item.text]

(* _sendpendingoutput: what goes into the next packet, and what is left.         *)
Chunk(q) ==
  IF Len(Head(q).text) > MaxOut
  THEN Text(SubSeq(Head(q).text, 1, MaxOut))
  ELSE Head(q)

Rest(q) ==
  IF Len(Head(q).text) > MaxOut
  THEN <<Text(SubSeq(Head(q).text, MaxOut + 1, Len(Head(q).text)))>> \o Tail(q)
  ELSE Tail(q)

(* _sendoutput: the number is kept in four bits and is never 0.                  *)
NextSeq(n) == IF n = SeqMax THEN 1 ELSE n + 1

(* The packets _sendpendingoutput puts on the wire when q is pending.            *)
Outgoing(s, q) ==
  IF q = <<>> THEN <<>> ELSE <<Payload(NextSeq(myseq[s]), Chunk(q))>>

\* Mutant of SendPendingOutput: a loop that is alive is trusted to see to it.
SendPendingOutputOneLoop(s, q) ==
  IF q = <<>>
  THEN /\ pending' = [pending EXCEPT ![s] = q]
       /\ awaiting' = [awaiting EXCEPT ![s] = FALSE]
       /\ UNCHANGED <<myseq, last, loops>>
  ELSE LET p == Payload(NextSeq(myseq[s]), Chunk(q))
       IN  /\ pending' = [pending EXCEPT ![s] = Rest(q)]
           /\ awaiting' = [awaiting EXCEPT ![s] = TRUE]
           /\ myseq' = [myseq EXCEPT ![s] = p.seq]
           /\ last' = [last EXCEPT ![s] = p]
           /\ loops' = [loops EXCEPT ![s] =
                IF @ = {} THEN {[payload |-> p, retries |-> Retries]} ELSE @]

(* _sendpendingoutput and _sendoutput up to the first wait, when q is pending and *)
(* no acknowledgement is awaited.                                                *)
SendPendingOutput(s, q) ==
  IF q = <<>>
  THEN /\ pending' = [pending EXCEPT ![s] = q]
       /\ awaiting' = [awaiting EXCEPT ![s] = FALSE]
       /\ UNCHANGED <<myseq, last, loops>>
  ELSE LET p == Payload(NextSeq(myseq[s]), Chunk(q))
       IN  /\ pending' = [pending EXCEPT ![s] = Rest(q)]
           /\ awaiting' = [awaiting EXCEPT ![s] = TRUE]
           /\ myseq' = [myseq EXCEPT ![s] = p.seq]
           /\ last' = [last EXCEPT ![s] = p]
           /\ loops' = [loops EXCEPT
                          ![s] = @ \cup {[payload |-> p, retries |-> Retries]}]

(* Queue an item and send it unless an acknowledgement is awaited.               *)
Submit(s, item) ==
  LET q == AddPending(pending[s], item)
  IN  IF phase[s] = "new" \/ awaiting[s]
      THEN /\ pending' = [pending EXCEPT ![s] = q]
           /\ UNCHANGED <<myseq, awaiting, last, loops, net>>
      ELSE /\ SendPendingOutput(s, q)
           /\ net' = [net EXCEPT ![Peer(s)] = Transmit(Peer(s), Outgoing(s, q))]

(* send_data: one more character is typed, perhaps before the client connected.  *)
SendData(s) ==
  /\ phase[s] = "open" \/ (s = "console" /\ phase[s] = "new")
  /\ typed[s] < MaxInput(s)
  /\ typed' = [typed EXCEPT ![s] = @ + 1]
  /\ Submit(s, Text(<<typed[s] + 1>>))
  /\ UNCHANGED <<phase, remseq, lastsize, shown, counters>>

(* send_break, by the client.                                                    *)
SendBreak ==
  /\ phase["console"] = "open"
  /\ events < MaxEvent
  /\ events' = events + 1
  /\ Submit("console", Break)
  /\ UNCHANGED <<phase, typed, remseq, lastsize, shown, retried>>

\* Mutant of Tick: the last retry is followed by another one.
TickOnceMore(s, l) ==
  /\ phase[s] \in {"open", "closed"}
  /\ net' = [net EXCEPT ![Peer(s)] =
               IF awaiting[s] THEN Transmit(Peer(s), <<l.payload>>) ELSE @,
                    ![s] = IF l.retries = 0 THEN <<>> ELSE @]
  /\ IF l.retries = 0
     THEN /\ phase' = [phase EXCEPT ![s] = "broken"]
          /\ loops' = [loops EXCEPT ![s] = {}]
     ELSE /\ loops' = [loops EXCEPT ![s] =
                         (@ \ {l}) \cup
                         (IF awaiting[s] THEN {[l EXCEPT !.retries = @ - 1]}
                                         ELSE {})]
          /\ UNCHANGED phase
  /\ UNCHANGED <<typed, pending, myseq, awaiting, last, remseq, lastsize, shown,
                 counters>>

\* Mutant of Tick: a resend does not count as a retry.
TickUncounted(s, l) ==
  /\ phase[s] \in {"open", "closed"}
  /\ net' = [net EXCEPT ![Peer(s)] =
               IF awaiting[s] THEN Transmit(Peer(s), <<l.payload>>) ELSE @]
  /\ loops' = [loops EXCEPT ![s] = IF awaiting[s] THEN @ ELSE @ \ {l}]
  /\ UNCHANGED <<phase, typed, pending, myseq, awaiting, last, remseq, lastsize,
                 shown, counters>>

(* One turn of the retry loop of _sendoutput, once its wait is over: it resends  *)
(* its own packet if any acknowledgement is awaited and gives the console up     *)
(* when no retry is left, whether or not the answer has come.                    *)
Tick(s, l) ==
  /\ phase[s] \in {"open", "closed"}
  /\ net' = [net EXCEPT ![Peer(s)] =
               IF awaiting[s] THEN Transmit(Peer(s), <<l.payload>>) ELSE @,
                    ![s] = IF l.retries = 1 THEN <<>> ELSE @]
  /\ IF l.retries = 1
     THEN /\ phase' = [phase EXCEPT ![s] = "broken"]
          /\ loops' = [loops EXCEPT ![s] = {}]
     ELSE /\ loops' = [loops EXCEPT ![s] =
                         (@ \ {l}) \cup
                         (IF awaiting[s] THEN {[l EXCEPT !.retries = @ - 1]}
                                         ELSE {})]
          /\ UNCHANGED phase
  /\ UNCHANGED <<typed, pending, myseq, awaiting, last, remseq, lastsize, shown,
                 counters>>

----------------------------------------------------------------------------
(* Receiving.                                                                    *)

(* The text of packet m that end s has not shown yet.  A packet with the number  *)
(* of the last one is a retry, of which only what exceeds the last length is     *)
(* new; the code skips four characters more, firmware does not.                  *)
Skipped(s) == IF s = "bmc" /\ Firmware THEN 0 ELSE 4

NewText(s, m) ==
  IF m.seq # remseq[s] THEN m.text
  ELSE IF Len(m.text) > lastsize[s]
       THEN SubSeq(m.text, Skipped(s) + lastsize[s] + 1, Len(m.text))
       ELSE <<>>

(* The part of _got_sol_payload for the data in a packet: all of it counts as    *)
(* received and what is new is shown.                                            *)
TakeData(s, m) ==
  IF m.seq = 0
  THEN UNCHANGED <<remseq, lastsize, shown>>
  ELSE /\ remseq' = [remseq EXCEPT ![s] = m.seq]
       /\ lastsize' = [lastsize EXCEPT ![s] = Len(m.text)]
       /\ shown' = [shown EXCEPT ![s] = @ \o NewText(s, m)]

(* The acknowledgement of it; a ServerConsole that was closed says so.           *)
DataAck(s, m) ==
  IF m.seq = 0 THEN <<>>
  ELSE <<Ack(m.seq, Len(m.text), phase[s] = "closed", phase[s] = "closed")>>

(* Firmware that is short of room takes only the first k characters of a packet, *)
(* and says so; it goes on from there if the packet comes again.                 *)
TakePart(s, m, k) ==
  LET had == IF m.seq = remseq[s] THEN lastsize[s] ELSE 0
  IN  /\ Firmware
      /\ s = "bmc" /\ phase[s] = "open"
      /\ m.seq # 0 /\ had <= k
      /\ remseq' = [remseq EXCEPT ![s] = m.seq]
      /\ lastsize' = [lastsize EXCEPT ![s] = k]
      /\ shown' = [shown EXCEPT ![s] = @ \o SubSeq(m.text, had + 1, k)]

\* Mutant of Acknowledges: any number will do.
AcknowledgesAny(s, m) == myseq[s] # 0 /\ m.ack # 0

Acknowledges(s, m) == myseq[s] # 0 /\ m.ack = myseq[s]
Disconnects(s, m) == Acknowledges(s, m) /\ m.nack /\ m.off

\* Mutant of Requeue: the part refused is queued like new input.
RequeueLast(s, m) ==
  LET text == SubSeq(last[s].text, m.count + 1, Len(last[s].text))
  IN  IF m.nack THEN AddPending(pending[s], Text(text)) ELSE pending[s]

(* What is pending once packet m was handled: the part of the last packet that m *)
(* refuses goes before everything else.                                          *)
Requeue(s, m) ==
  LET text == SubSeq(last[s].text, m.count + 1, Len(last[s].text))
      q == pending[s]
  IN  IF ~m.nack THEN q
      ELSE IF q # <<>> /\ ~Head(q).brk
           THEN [q EXCEPT ![1].text = text \o @]
           ELSE <<Text(text)>> \o q

(* The part of _got_sol_payload for the acknowledgement in a packet.  One that   *)
(* fits lets the next packet go; one that says the other end was deactivated     *)
(* ends the console.                                                             *)
TakeAck(s, m) ==
  CASE Disconnects(s, m) ->
         /\ phase' = [phase EXCEPT ![s] = "broken"]
         /\ loops' = [loops EXCEPT ![s] = {}]
         /\ awaiting' = [awaiting EXCEPT ![s] = FALSE]
         /\ UNCHANGED <<pending, myseq, last>>
    [] Acknowledges(s, m) /\ ~Disconnects(s, m) ->
         /\ SendPendingOutput(s, Requeue(s, m))
         /\ UNCHANGED phase
    [] OTHER -> UNCHANGED <<phase, pending, myseq, awaiting, last, loops>>

(* What it sends after its own acknowledgement: the next packet, or the last one *)
(* again when some other packet was acknowledged.                                *)
Answer(s, m) ==
  CASE Disconnects(s, m) -> <<>>
    [] Acknowledges(s, m) /\ ~Disconnects(s, m) -> Outgoing(s, Requeue(s, m))
    [] OTHER -> IF m.ack # 0 /\ awaiting[s] THEN <<last[s]>> ELSE <<>>

(* Packet i leaves the channel of s, with those before it, which the session     *)
(* would drop if they came now; it may come again.                               *)
Deliver(s, i, again, packets) ==
  net' = [net EXCEPT ![s] = IF Disconnects(s, @[i]) THEN <<>>
                            ELSE SubSeq(@, IF again THEN i ELSE i + 1, Len(@)),
                     ![Peer(s)] = Transmit(Peer(s), packets)]

GotSolPayload(s, i, again) ==
  LET m == net[s][i]
  IN  /\ phase[s] \in {"open", "closed"}
      /\ \/ /\ TakeData(s, m)
            /\ Deliver(s, i, again, DataAck(s, m) \o Answer(s, m))
            /\ events' = IF again THEN events + 1 ELSE events
         \/ \E k \in 0..(Len(m.text) - 1) :
              /\ TakePart(s, m, k)
              /\ Deliver(s, i, FALSE, <<Ack(m.seq, k, TRUE, FALSE)>> \o Answer(s, m))
              /\ events' = events + 1
      /\ TakeAck(s, m)
      /\ events' <= MaxEvent
      /\ UNCHANGED <<typed, retried>>

----------------------------------------------------------------------------
(* Activating and ending the payload.                                            *)

(* _got_session and Bmc.activate_payload: both ends are ready, and what was typed*)
(* before goes out.                                                              *)
Activate ==
  /\ phase["console"] = "new" /\ phase["bmc"] = "new"
  /\ phase' = [s \in Side |-> "open"]
  /\ SendPendingOutput("console", pending["console"])
  /\ net' = [net EXCEPT !["bmc"] = Transmit("bmc", Outgoing("console", pending["console"]))]
  /\ UNCHANGED <<typed, remseq, lastsize, shown, counters>>

(* The payload is active when the client asks: for another client, or because    *)
(* the answer to its own first request was lost and the session asked again.     *)
Taken ==
  /\ phase["console"] = "new" /\ phase["bmc"] = "new"
  /\ events < MaxEvent
  /\ events' = events + 1
  /\ phase' = [phase EXCEPT !["bmc"] = "taken"]
  /\ UNCHANGED <<typed, pending, myseq, awaiting, last, loops, remseq, lastsize,
                 shown, net, retried>>

(* Completion code 0x80: the client deactivates the payload once and asks again; *)
(* the second time it gives up.                                                  *)
AlreadyActive ==
  /\ phase["console"] = "new" /\ phase["bmc"] = "taken"
  /\ phase' = IF retried THEN [phase EXCEPT !["console"] = "broken"]
                         ELSE [phase EXCEPT !["bmc"] = "new"]
  /\ retried' = TRUE
  /\ UNCHANGED <<typed, pending, myseq, awaiting, last, loops, remseq, lastsize,
                 shown, net, events>>

(* Another client forces its way in: Bmc.deactivate_payload closes the server    *)
(* console, which goes on answering.                                             *)
Stolen ==
  /\ phase["bmc"] = "open"
  /\ events < MaxEvent
  /\ events' = events + 1
  /\ phase' = [phase EXCEPT !["bmc"] = "closed"]
  /\ UNCHANGED <<typed, pending, myseq, awaiting, last, loops, remseq, lastsize,
                 shown, net, retried>>

(* The client is done: its keepalive found that the payload is not its own       *)
(* (_got_payload_instance_info), the session was lost, or it closed the console, *)
(* which deactivates the payload unless the request is lost.                     *)
GiveUp ==
  /\ phase["console"] = "open"
  /\ \/ /\ phase["bmc"] # "open"
        /\ UNCHANGED events
        /\ phase' = [phase EXCEPT !["console"] = "broken"]
     \/ /\ events < MaxEvent
        /\ events' = events + 1
        /\ phase' = [phase EXCEPT !["console"] = "broken"]
     \/ /\ events < MaxEvent
        /\ events' = events + 1
        /\ phase' = [phase EXCEPT !["console"] = "broken",
                                  !["bmc"] = IF @ = "open" THEN "closed" ELSE @]
  /\ loops' = [loops EXCEPT !["console"] = {}]
  /\ net' = [net EXCEPT !["console"] = <<>>]
  /\ UNCHANGED <<typed, pending, myseq, awaiting, last, remseq, lastsize, shown,
                 retried>>

----------------------------------------------------------------------------
Next ==
  \/ \E s \in Side : SendData(s)
  \/ SendBreak
  \/ \E s \in Side : \E l \in loops[s] : Tick(s, l)
  \/ \E s \in Side : \E i \in 1..Len(net[s]) : \E again \in BOOLEAN :
       GotSolPayload(s, i, again)
  \/ Activate
  \/ Taken
  \/ AlreadyActive
  \/ Stolen
  \/ GiveUp

Spec == Init /\ [][Next]_vars

(* Only the retry loops are sure to run; no packet is sure to arrive.            *)
FairSpec ==
  /\ Spec
  /\ \A s \in Side : WF_vars(\E l \in loops[s] : Tick(s, l))

----------------------------------------------------------------------------
Item == [brk : BOOLEAN, text : Seq(Nat)]
Packet == [seq : 0..SeqMax, ack : 0..SeqMax, count : Nat, nack : BOOLEAN,
           off : BOOLEAN, brk : BOOLEAN, text : Seq(Nat)]

TypeOK ==
  /\ phase \in [Side -> {"new", "taken", "open", "closed", "broken"}]
  /\ typed \in [Side -> Nat] /\ \A s \in Side : typed[s] <= MaxInput(s)
  /\ pending \in [Side -> Seq(Item)]
  /\ myseq \in [Side -> 0..SeqMax]
  /\ awaiting \in [Side -> BOOLEAN]
  /\ last \in [Side -> Packet]
  /\ loops \in [Side -> SUBSET [payload : Packet, retries : 1..Retries]]
  /\ remseq \in [Side -> 0..SeqMax]
  /\ lastsize \in [Side -> Nat]
  /\ shown \in [Side -> Seq(Nat)]
  /\ net \in [Side -> Seq(Packet)]
  /\ retried \in BOOLEAN
  /\ events \in 0..MaxEvent

Elements(q) == {q[i] : i \in DOMAIN q}

(* No loop of s resends a packet of number n, none is on its way, no packet      *)
(* acknowledges n and the other end has not just received n.                     *)
NumberFree(s, n) ==
  /\ \A l \in loops[s] : l.payload.seq # n
  /\ \A m \in Elements(net[Peer(s)]) : m.seq # n
  /\ \A m \in Elements(net[s]) : m.ack # n
  /\ remseq[Peer(s)] # n

(* The runs in which four bits are enough: numbers go round, but no packet gets  *)
(* the number of another one that something still refers to.  (The code does not *)
(* see to that: a loop that sleeps while SeqMax other packets are acknowledged   *)
(* resends its own under the number of the next one.)                            *)
NumberedNext ==
  Next /\ \A s \in Side : myseq'[s] # myseq[s] => NumberFree(s, myseq'[s])
NumberedSpec == Init /\ [][NumberedNext]_vars

Queued(s) == UNION {Elements(item.text) : item \in Elements(pending[s])}
Unacknowledged(s) == IF awaiting[s] THEN Elements(last[s].text) ELSE {}

(* What an end gave to its console is never dropped while that end lives: it     *)
(* waits to be sent, or is in the packet that awaits its acknowledgement, or the *)
(* other end has shown it.  An acknowledgement taken for the wrong packet, or a  *)
(* refused part that is not sent again, would lose text.                         *)
NothingLost ==
  \A s \in Side : phase[s] \in {"new", "open", "closed"} =>
    1..typed[s] \subseteq
      Queued(s) \cup Unacknowledged(s) \cup Elements(shown[Peer(s)])

(* Text is shown in the order it was typed: no character is shown before an      *)
(* earlier one was, however often one of them comes again.                       *)
FirstInOrder ==
  \A s \in Side : \A i \in DOMAIN shown[s] :
    1..shown[s][i] \subseteq Elements(SubSeq(shown[s], 1, i))

(* A packet that awaits its acknowledgement has a retry loop of its own, so it   *)
(* cannot be forgotten when the packet or the acknowledgement is lost.           *)
RetryArmed ==
  \A s \in Side : awaiting[s] /\ phase[s] \in {"open", "closed"} =>
    \E l \in loops[s] : l.payload = last[s]

(* Each packet gets through or the console is given up: an end does not wait for *)
(* an acknowledgement for ever, though nothing need ever arrive.                 *)
Settles ==
  \A s \in Side : []<>(~awaiting[s] \/ phase[s] = "broken")

(* Nothing is shown twice: a resent packet that was shown before is recognised   *)
(* by its number.                                                                *)
ExactlyOnce ==
  \A s \in Side : \A i, j \in DOMAIN shown[s] :
    shown[s][i] = shown[s][j] => i = j

=============================================================================
