-------------------------- MODULE SolConsoleProofs --------------------------
(* Proofs about SolConsole, for any input, sizes, numbers and retries:     *)
(*                                                                         *)
(*   TypeCorrect          the shape of every variable;                     *)
(*   RetryArmedCorrect    a packet that is awaited has its loop;           *)
(*   NothingLostCorrect   what is typed waits, is awaited or was shown,    *)
(*   FirstInOrderCorrect  and is first shown in its order: both as long as *)
(*                        no packet gets a number that is still in use.    *)
(*   FirstRoundCorrect    as is so until the numbers go round.             *)
(*                                                                         *)
(* NothingLost rests on TextInv.  The text of an end is a row of runs of   *)
(* consecutive characters: what was shown, the last packet, what waits.    *)
(* Every step of Next is one of four that an end takes (Moves): it repeats *)
(* packets, queues input, sends the next packet, or takes a packet of the  *)
(* other end; TextStep shows for each that the row stays whole.            *)
EXTENDS SolConsole, WellFoundedInduction, TLAPS

-----------------------------------------------------------------------------
(* Ends, lists and packets.                                                  *)

\* There are two ends.
LEMMA Sides ==
    ASSUME NEW s \in Side
    PROVE  Peer(s) \in Side /\ Peer(s) # s /\ Peer(Peer(s)) = s
  BY DEF Side, Peer

\* The members of lists that are joined, cut or grown.
LEMMA ElementsJoined ==
    ASSUME NEW S, NEW a \in Seq(S), NEW b \in Seq(S)
    PROVE  Elements(a \o b) = Elements(a) \cup Elements(b)
  <1>1. /\ DOMAIN (a \o b) = 1 .. Len(a) + Len(b)
        /\ \A i \in DOMAIN a : i \in DOMAIN (a \o b) /\ (a \o b)[i] = a[i]
        /\ \A i \in DOMAIN b : Len(a) + i \in DOMAIN (a \o b) /\ (a \o b)[Len(a) + i] = b[i]
    OBVIOUS
  <1>2. ASSUME NEW i \in DOMAIN (a \o b), i \notin DOMAIN a
        PROVE  i - Len(a) \in DOMAIN b /\ i = Len(a) + (i - Len(a))
    BY <1>1, <1>2
  <1>3. ASSUME NEW i \in DOMAIN (a \o b) PROVE (a \o b)[i] \in Elements(a) \cup Elements(b)
    <2>1. CASE i \in DOMAIN a
      BY <1>1, <2>1 DEF Elements
    <2>2. CASE i \notin DOMAIN a
      <3>1. PICK k \in DOMAIN b : i = Len(a) + k
        BY <1>2, <2>2
      <3>2. (a \o b)[i] = b[k]
        BY <1>1, <3>1
      <3> QED BY <3>2 DEF Elements
    <2> QED BY <2>1, <2>2
  <1>4. Elements(a) \subseteq Elements(a \o b) /\ Elements(b) \subseteq Elements(a \o b)
    BY <1>1 DEF Elements
  <1>5. Elements(a \o b) \subseteq Elements(a) \cup Elements(b)
    BY <1>3 DEF Elements
  <1> QED BY <1>4, <1>5

\* A list of one.
LEMMA ElementsOne ==
    ASSUME NEW S, NEW e \in S
    PROVE  <<e>> \in Seq(S) /\ Elements(<<e>>) = {e}
  <1>1. DOMAIN <<e>> = {1} /\ <<e>>[1] = e /\ <<e>> \in Seq(S)
    OBVIOUS
  <1> QED BY <1>1 DEF Elements

\* A part of a list has no others.
LEMMA ElementsCut ==
    ASSUME NEW S, NEW a \in Seq(S), NEW i \in Nat \ {0}, NEW k \in Nat, k <= Len(a)
    PROVE  /\ SubSeq(a, i, k) \in Seq(S)
           /\ Elements(SubSeq(a, i, k)) \subseteq Elements(a)
           /\ i <= k + 1 => Len(SubSeq(a, i, k)) = k - i + 1
  <1> DEFINE t == SubSeq(a, i, k)
  <1>1. t \in Seq(S) /\ \A j \in DOMAIN t : j + i - 1 \in DOMAIN a /\ t[j] = a[j + i - 1]
    OBVIOUS
  <1>2. i <= k + 1 => Len(t) = k - i + 1
    OBVIOUS
  <1> HIDE DEF t
  <1>3. Elements(t) \subseteq Elements(a)
    BY <1>1 DEF Elements
  <1> QED BY <1>1, <1>2, <1>3 DEF t

\* What is sent may be lost, but nothing comes that was not sent.
LEMMA Transmitted ==
    ASSUME NEW r \in Side, net \in [Side -> Seq(Packet)], NEW p \in Seq(Packet)
    PROVE  /\ Transmit(r, p) \in Seq(Packet)
           /\ Elements(Transmit(r, p)) \subseteq Elements(net[r]) \cup Elements(p)
  <1> DEFINE all == net[r] \o p
             n == IF Len(all) < Capacity THEN Len(all) ELSE Capacity
  <1>1. all \in Seq(Packet) /\ n \in Nat /\ n <= Len(all)
    BY SolAssumption
  <1>2. Elements(all) = Elements(net[r]) \cup Elements(p)
    BY ElementsJoined
  <1>3. SubSeq(all, 1, n) \in Seq(Packet) /\ Elements(SubSeq(all, 1, n)) \subseteq Elements(all)
    <2> HIDE DEF all, n
    <2> QED BY <1>1, ElementsCut
  <1>4. <<>> \in Seq(Packet) /\ Elements(<<>>) = {}
    BY DEF Elements
  <1> QED BY <1>2, <1>3, <1>4 DEF Transmit

\* Items and packets.
LEMMA Made ==
    /\ \A t \in Seq(Nat) : Text(t) \in Item /\ Text(t).text = t /\ ~Text(t).brk
    /\ Break \in Item /\ Break.text = <<>> /\ Break.brk
    /\ \A n \in 0 .. SeqMax : \A e \in Item :
          /\ Payload(n, e) \in Packet /\ Payload(n, e).seq = n /\ Payload(n, e).ack = 0
          /\ Payload(n, e).text = e.text
    /\ \A n \in 0 .. SeqMax : \A c \in Nat : \A b, o \in BOOLEAN :
          /\ Ack(n, c, b, o) \in Packet /\ Ack(n, c, b, o).ack = n /\ Ack(n, c, b, o).seq = 0
          /\ Ack(n, c, b, o).count = c /\ Ack(n, c, b, o).nack = b /\ Ack(n, c, b, o).off = o
    /\ NoPayload \in Packet /\ NoPayload.seq = 0 /\ NoPayload.ack = 0 /\ NoPayload.text = <<>>
  <1>1. 0 \in 0 .. SeqMax /\ <<>> \in Seq(Nat) /\ SeqMax \in Nat
    BY SolAssumption
  <1>2. \A t \in Seq(Nat) : Text(t) \in Item /\ Text(t).text = t /\ ~Text(t).brk
    BY DEF Text, Item
  <1>3. Break \in Item /\ Break.text = <<>> /\ Break.brk
    BY DEF Break, Item
  <1>4. \A n \in 0 .. SeqMax : \A e \in Item :
          /\ Payload(n, e) \in Packet /\ Payload(n, e).seq = n /\ Payload(n, e).ack = 0
          /\ Payload(n, e).text = e.text
    BY <1>1 DEF Payload, Packet, Item
  <1>5. \A n \in 0 .. SeqMax : \A c \in Nat : \A b, o \in BOOLEAN :
          /\ Ack(n, c, b, o) \in Packet /\ Ack(n, c, b, o).ack = n /\ Ack(n, c, b, o).seq = 0
          /\ Ack(n, c, b, o).count = c /\ Ack(n, c, b, o).nack = b /\ Ack(n, c, b, o).off = o
    BY <1>1 DEF Ack, Packet
  <1>6. NoPayload \in Packet /\ NoPayload.seq = 0 /\ NoPayload.ack = 0 /\ NoPayload.text = <<>>
    <2>1. Text(<<>>) \in Item /\ Text(<<>>).text = <<>>
      BY <1>1, <1>2
    <2> QED BY <1>1, <1>4, <2>1 DEF NoPayload
  <1> QED BY <1>2, <1>3, <1>4, <1>5, <1>6

\* Numbers go round and are never 0.
LEMMA Numbers ==
    ASSUME NEW n \in 0 .. SeqMax
    PROVE  NextSeq(n) \in 1 .. SeqMax /\ NextSeq(n) # n
  BY SolAssumption DEF NextSeq

-----------------------------------------------------------------------------
(* The shape of every variable.                                              *)

\* Text in an item.
LEMMA TextJoined ==
    ASSUME NEW e \in Item
    PROVE  /\ e.text \in Seq(Nat) /\ e.brk \in BOOLEAN
           /\ \A t \in Seq(Nat) : /\ [e EXCEPT !.text = @ \o t] \in Item
                                  /\ [e EXCEPT !.text = t \o @] \in Item
  <1>1. e.text \in Seq(Nat) /\ e.brk \in BOOLEAN
    BY DEF Item
  <1>2. ASSUME NEW t \in Seq(Nat) PROVE e.text \o t \in Seq(Nat) /\ t \o e.text \in Seq(Nat)
    BY <1>1, <1>2
  <1>3. \A t \in Seq(Nat) : [e EXCEPT !.text = t] \in Item
    BY DEF Item
  <1> QED BY <1>1, <1>2, <1>3

\* What waits to be sent is a list of items.
LEMMA QueueTypes ==
    ASSUME NEW q \in Seq(Item), NEW e \in Item
    PROVE  /\ AddPending(q, e) \in Seq(Item) /\ AddPending(q, e) # <<>>
           /\ q # <<>> => Chunk(q) \in Item /\ Rest(q) \in Seq(Item)
  <1>1. AddPending(q, e) \in Seq(Item) /\ AddPending(q, e) # <<>>
    <2>1. CASE e.brk \/ q = <<>> \/ q[Len(q)].brk
      <3>1. AddPending(q, e) = Append(q, e)
        BY <2>1 DEF AddPending
      <3> QED BY <3>1
    <2>2. CASE ~(e.brk \/ q = <<>> \/ q[Len(q)].brk)
      <3> DEFINE n == Len(q)
                 u == [q[n] EXCEPT !.text = @ \o e.text]
      <3>1. n \in 1 .. Len(q) /\ q[n] \in Item
        BY <2>2
      <3>2. u \in Item
        BY <3>1, TextJoined
      <3>3. AddPending(q, e) = [q EXCEPT ![n] = u]
        BY <2>2 DEF AddPending
      <3> HIDE DEF u, n
      <3> QED BY <3>1, <3>2, <3>3
    <2> QED BY <2>1, <2>2
  <1>2. ASSUME q # <<>> PROVE Chunk(q) \in Item /\ Rest(q) \in Seq(Item)
    <2> DEFINE t == Head(q).text
    <2>1. Head(q) \in Item /\ t \in Seq(Nat) /\ Tail(q) \in Seq(Item)
      BY <1>2, TextJoined
    <2> HIDE DEF t
    <2>2. CASE Len(t) > MaxOut
      <3>1. /\ SubSeq(t, 1, MaxOut) \in Seq(Nat)
            /\ SubSeq(t, MaxOut + 1, Len(t)) \in Seq(Nat)
        BY <2>1, <2>2, SolAssumption
      <3>2. /\ Text(SubSeq(t, 1, MaxOut)) \in Item
            /\ Text(SubSeq(t, MaxOut + 1, Len(t))) \in Item
        BY <3>1, Made
      <3>3. /\ Chunk(q) = Text(SubSeq(t, 1, MaxOut))
            /\ Rest(q) = <<Text(SubSeq(t, MaxOut + 1, Len(t)))>> \o Tail(q)
        BY <2>2 DEF Chunk, Rest, t
      <3> QED BY <2>1, <3>2, <3>3
    <2>3. CASE ~(Len(t) > MaxOut)
      BY <2>1, <2>3 DEF Chunk, Rest, t
    <2> QED BY <2>2, <2>3
  <1> QED BY <1>1, <1>2

\* So it is when a part is queued again.
LEMMA RequeueTypes ==
    ASSUME TypeOK, NEW s \in Side, NEW m \in Packet
    PROVE  Requeue(s, m) \in Seq(Item)
  <1> DEFINE t == SubSeq(last[s].text, m.count + 1, Len(last[s].text))
             q == pending[s]
  <1>1. q \in Seq(Item) /\ last[s].text \in Seq(Nat) /\ m.count \in Nat
    BY DEF TypeOK, Packet
  <1>2. t \in Seq(Nat)
    <2> DEFINE u == last[s].text
               c == m.count
    <2>1. u \in Seq(Nat) /\ c \in Nat
      BY <1>1
    <2> HIDE DEF u, c
    <2>2. SubSeq(u, c + 1, Len(u)) \in Seq(Nat)
      BY <2>1
    <2> QED BY <2>2 DEF u, c
  <1>3. Requeue(s, m) = IF ~m.nack THEN q
                        ELSE IF q # <<>> /\ ~Head(q).brk THEN [q EXCEPT ![1].text = t \o @]
                             ELSE <<Text(t)>> \o q
    BY DEF Requeue
  <1> HIDE DEF t, q
  <1>4. CASE q # <<>>
    <2>1. q[1] \in Item /\ 1 \in DOMAIN q
      BY <1>1, <1>4
    <2>2. [q[1] EXCEPT !.text = t \o @] \in Item
      BY <1>2, <2>1, TextJoined
    <2>3. [q EXCEPT ![1].text = t \o @] \in Seq(Item)
      BY <1>1, <2>1, <2>2
    <2> QED BY <1>1, <1>2, <1>3, <2>3, Made
  <1>5. CASE q = <<>>
    BY <1>1, <1>2, <1>3, <1>5, Made
  <1> QED BY <1>4, <1>5

\* What is sent is a packet, and its loop starts with all retries.
LEMMA SendTypes ==
    ASSUME TypeOK, NEW s \in Side, NEW q \in Seq(Item)
    PROVE  /\ Outgoing(s, q) \in Seq(Packet)
           /\ SendPendingOutput(s, q) =>
                 /\ pending' \in [Side -> Seq(Item)] /\ myseq' \in [Side -> 0 .. SeqMax]
                 /\ awaiting' \in [Side -> BOOLEAN] /\ last' \in [Side -> Packet]
                 /\ loops' \in [Side -> SUBSET [payload : Packet, retries : 1 .. Retries]]
  <1>1. /\ pending \in [Side -> Seq(Item)] /\ myseq \in [Side -> 0 .. SeqMax]
        /\ awaiting \in [Side -> BOOLEAN] /\ last \in [Side -> Packet]
        /\ loops \in [Side -> SUBSET [payload : Packet, retries : 1 .. Retries]]
    BY DEF TypeOK
  <1>2. CASE q = <<>>
    <2>1. Outgoing(s, q) = <<>>
      BY <1>2 DEF Outgoing
    <2>2. SendPendingOutput(s, q) =>
             /\ pending' = [pending EXCEPT ![s] = <<>>]
             /\ awaiting' = [awaiting EXCEPT ![s] = FALSE]
             /\ myseq' = myseq /\ last' = last /\ loops' = loops
      BY <1>2 DEF SendPendingOutput
    <2>3. /\ [pending EXCEPT ![s] = <<>>] \in [Side -> Seq(Item)]
          /\ [awaiting EXCEPT ![s] = FALSE] \in [Side -> BOOLEAN]
          /\ <<>> \in Seq(Packet)
      BY <1>1
    <2> QED BY <1>1, <2>1, <2>2, <2>3, Zenon
  <1>3. CASE q # <<>>
    <2> DEFINE p == Payload(NextSeq(myseq[s]), Chunk(q))
               l == [payload |-> p, retries |-> Retries]
    <2>1. NextSeq(myseq[s]) \in 0 .. SeqMax
      BY <1>1, Numbers
    <2>2. Chunk(q) \in Item /\ Rest(q) \in Seq(Item)
      BY <1>3, QueueTypes
    <2>3. p \in Packet /\ p.seq \in 0 .. SeqMax
      BY <2>1, <2>2, Made
    <2>4. l \in [payload : Packet, retries : 1 .. Retries]
      BY <2>3, SolAssumption
    <2>5. SendPendingOutput(s, q) =>
             /\ pending' = [pending EXCEPT ![s] = Rest(q)]
             /\ awaiting' = [awaiting EXCEPT ![s] = TRUE]
             /\ myseq' = [myseq EXCEPT ![s] = p.seq]
             /\ last' = [last EXCEPT ![s] = p]
             /\ loops' = [loops EXCEPT ![s] = @ \cup {l}]
      BY <1>3 DEF SendPendingOutput
    <2>6. Outgoing(s, q) = <<p>>
      BY <1>3 DEF Outgoing
    <2> HIDE DEF p, l
    <2>7. <<p>> \in Seq(Packet)
      BY <2>3
    <2>8. [loops EXCEPT ![s] = @ \cup {l}]
             \in [Side -> SUBSET [payload : Packet, retries : 1 .. Retries]]
      BY <1>1, <2>4
    <2>9. /\ [pending EXCEPT ![s] = Rest(q)] \in [Side -> Seq(Item)]
          /\ [myseq EXCEPT ![s] = p.seq] \in [Side -> 0 .. SeqMax]
          /\ [awaiting EXCEPT ![s] = TRUE] \in [Side -> BOOLEAN]
          /\ [last EXCEPT ![s] = p] \in [Side -> Packet]
      BY <1>1, <2>2, <2>3
    <2> QED BY <2>5, <2>6, <2>7, <2>8, <2>9
  <1> QED BY <1>2, <1>3

\* A function over the ends that changes at both.
LEMMA Both ==
    ASSUME NEW S, NEW f \in [Side -> S], NEW s \in Side, NEW a, NEW b
    PROVE  LET g == [f EXCEPT ![s] = a, ![Peer(s)] = b]
               h == [f EXCEPT ![Peer(s)] = b, ![s] = a]
           IN  /\ g[s] = a /\ g[Peer(s)] = b /\ h = g
               /\ a \in S /\ b \in S => g \in [Side -> S]
  BY Sides

\* Input that is queued, and sent if nothing is awaited.
LEMMA SubmitTypes ==
    ASSUME TypeOK, NEW s \in Side, NEW e \in Item, Submit(s, e)
    PROVE  /\ pending' \in [Side -> Seq(Item)] /\ myseq' \in [Side -> 0 .. SeqMax]
           /\ awaiting' \in [Side -> BOOLEAN] /\ last' \in [Side -> Packet]
           /\ loops' \in [Side -> SUBSET [payload : Packet, retries : 1 .. Retries]]
           /\ net' \in [Side -> Seq(Packet)]
  <1>1. /\ pending \in [Side -> Seq(Item)] /\ myseq \in [Side -> 0 .. SeqMax]
        /\ awaiting \in [Side -> BOOLEAN] /\ last \in [Side -> Packet]
        /\ loops \in [Side -> SUBSET [payload : Packet, retries : 1 .. Retries]]
        /\ net \in [Side -> Seq(Packet)] /\ Peer(s) \in Side
    BY Sides DEF TypeOK
  <1> DEFINE q == AddPending(pending[s], e)
  <1>2. q \in Seq(Item)
    BY <1>1, QueueTypes
  <1>3. CASE phase[s] = "new" \/ awaiting[s]
    <2>1. pending' = [pending EXCEPT ![s] = q] /\ UNCHANGED <<myseq, awaiting, last, loops, net>>
      BY <1>3 DEF Submit
    <2>2. [pending EXCEPT ![s] = q] \in [Side -> Seq(Item)]
      BY <1>1, <1>2
    <2> QED BY <1>1, <2>1, <2>2
  <1>4. CASE ~(phase[s] = "new" \/ awaiting[s])
    <2>1. SendPendingOutput(s, q)
          /\ net' = [net EXCEPT ![Peer(s)] = Transmit(Peer(s), Outgoing(s, q))]
      BY <1>4 DEF Submit
    <2>2. Outgoing(s, q) \in Seq(Packet)
      BY <1>2, SendTypes
    <2>3. Transmit(Peer(s), Outgoing(s, q)) \in Seq(Packet)
      BY <1>1, <2>2, Transmitted
    <2>4. net' \in [Side -> Seq(Packet)]
      BY <1>1, <2>1, <2>3
    <2> QED BY <1>2, <2>1, <2>4, SendTypes
  <1> QED BY <1>3, <1>4

\* The cases of an acknowledgement.
LEMMA AckCases ==
    ASSUME NEW s, NEW m, TakeAck(s, m)
    PROVE  \/ /\ Disconnects(s, m)
              /\ phase' = [phase EXCEPT ![s] = "broken"]
              /\ loops' = [loops EXCEPT ![s] = {}]
              /\ awaiting' = [awaiting EXCEPT ![s] = FALSE]
              /\ UNCHANGED <<pending, myseq, last>>
              /\ Answer(s, m) = <<>>
           \/ /\ Acknowledges(s, m) /\ ~Disconnects(s, m)
              /\ SendPendingOutput(s, Requeue(s, m))
              /\ UNCHANGED phase
              /\ Answer(s, m) = Outgoing(s, Requeue(s, m))
           \/ /\ ~Acknowledges(s, m) /\ ~Disconnects(s, m)
              /\ UNCHANGED <<phase, pending, myseq, awaiting, last, loops>>
              /\ Answer(s, m) = IF m.ack # 0 /\ awaiting[s] THEN <<last[s]>> ELSE <<>>
  <1>1. CASE Disconnects(s, m)
    BY <1>1 DEF TakeAck, Answer
  <1>2. CASE ~Disconnects(s, m) /\ Acknowledges(s, m)
    BY <1>2 DEF TakeAck, Answer
  <1>3. CASE ~Disconnects(s, m) /\ ~Acknowledges(s, m)
    BY <1>3 DEF TakeAck, Answer
  <1> QED BY <1>1, <1>2, <1>3

\* The parts of a packet.
LEMMA PacketParts ==
    ASSUME NEW m \in Packet
    PROVE  /\ m.seq \in 0 .. SeqMax /\ m.ack \in 0 .. SeqMax /\ m.count \in Nat
           /\ m.nack \in BOOLEAN /\ m.off \in BOOLEAN
           /\ m.text \in Seq(Nat) /\ Len(m.text) \in Nat
  <1>1. /\ m.seq \in 0 .. SeqMax /\ m.ack \in 0 .. SeqMax /\ m.count \in Nat
        /\ m.nack \in BOOLEAN /\ m.off \in BOOLEAN
        /\ m.text \in Seq(Nat)
    BY DEF Packet
  <1> DEFINE t == m.text
  <1>2. t \in Seq(Nat)
    BY <1>1
  <1> HIDE DEF t
  <1>3. Len(t) \in Nat
    BY <1>2
  <1> QED BY <1>1, <1>3 DEF t

\* What an acknowledgement changes, and the answer to it.
LEMMA AckTypes ==
    ASSUME TypeOK, NEW s \in Side, NEW m \in Packet, TakeAck(s, m)
    PROVE  /\ phase' \in [Side -> {"new", "taken", "open", "closed", "broken"}]
           /\ pending' \in [Side -> Seq(Item)] /\ myseq' \in [Side -> 0 .. SeqMax]
           /\ awaiting' \in [Side -> BOOLEAN] /\ last' \in [Side -> Packet]
           /\ loops' \in [Side -> SUBSET [payload : Packet, retries : 1 .. Retries]]
           /\ Answer(s, m) \in Seq(Packet)
  <1>1. /\ pending \in [Side -> Seq(Item)] /\ myseq \in [Side -> 0 .. SeqMax]
        /\ awaiting \in [Side -> BOOLEAN] /\ last \in [Side -> Packet]
        /\ loops \in [Side -> SUBSET [payload : Packet, retries : 1 .. Retries]]
        /\ phase \in [Side -> {"new", "taken", "open", "closed", "broken"}]
    BY DEF TypeOK
  <1>2. CASE /\ phase' = [phase EXCEPT ![s] = "broken"]
             /\ loops' = [loops EXCEPT ![s] = {}]
             /\ awaiting' = [awaiting EXCEPT ![s] = FALSE]
             /\ UNCHANGED <<pending, myseq, last>>
             /\ Answer(s, m) = <<>>
    <2>1. /\ [phase EXCEPT ![s] = "broken"]
               \in [Side -> {"new", "taken", "open", "closed", "broken"}]
          /\ [loops EXCEPT ![s] = {}]
               \in [Side -> SUBSET [payload : Packet, retries : 1 .. Retries]]
          /\ [awaiting EXCEPT ![s] = FALSE] \in [Side -> BOOLEAN]
          /\ <<>> \in Seq(Packet)
      BY <1>1
    <2> QED BY <1>1, <1>2, <2>1
  <1>3. CASE /\ SendPendingOutput(s, Requeue(s, m)) /\ UNCHANGED phase
             /\ Answer(s, m) = Outgoing(s, Requeue(s, m))
    <2>1. Requeue(s, m) \in Seq(Item)
      BY RequeueTypes
    <2> QED BY <1>1, <1>3, <2>1, SendTypes
  <1>4. CASE /\ UNCHANGED <<phase, pending, myseq, awaiting, last, loops>>
             /\ Answer(s, m) = IF m.ack # 0 /\ awaiting[s] THEN <<last[s]>> ELSE <<>>
    <2>1. <<last[s]>> \in Seq(Packet) /\ <<>> \in Seq(Packet)
      BY <1>1
    <2> QED BY <1>1, <1>4, <2>1
  <1> QED BY <1>2, <1>3, <1>4, AckCases

\* What s does with the data in m, and its acknowledgement d.
Took(s, m, d) ==
    \/ m.seq = 0 /\ d = <<>> /\ UNCHANGED <<remseq, lastsize, shown>>
    \/ /\ m.seq # 0 /\ TakeData(s, m)
       /\ \E b \in BOOLEAN : d = <<Ack(m.seq, Len(m.text), b, b)>>
    \/ /\ m.seq # 0
       /\ \E k \in 0 .. (Len(m.text) - 1) :
             TakePart(s, m, k) /\ d = <<Ack(m.seq, k, TRUE, FALSE)>>

\* Delivery changes both channels.
LEMMA Delivers ==
    ASSUME TypeOK, NEW s \in Side, NEW i \in 1 .. Len(net[s]), NEW again \in BOOLEAN,
           NEW p \in Seq(Packet), Deliver(s, i, again, p)
    PROVE  /\ net' \in [Side -> Seq(Packet)]
           /\ Elements(net'[s]) \subseteq Elements(net[s])
           /\ Elements(net'[Peer(s)]) \subseteq Elements(net[Peer(s)]) \cup Elements(p)
  <1>1. net \in [Side -> Seq(Packet)] /\ Peer(s) \in Side /\ net[s] \in Seq(Packet)
    BY Sides DEF TypeOK
  <1> DEFINE j == IF again THEN i ELSE i + 1
             a == IF Disconnects(s, net[s][i]) THEN <<>> ELSE SubSeq(net[s], j, Len(net[s]))
             b == Transmit(Peer(s), p)
  <1>2. net' = [net EXCEPT ![s] = a, ![Peer(s)] = b]
    BY DEF Deliver
  <1>3. b \in Seq(Packet) /\ Elements(b) \subseteq Elements(net[Peer(s)]) \cup Elements(p)
    BY <1>1, Transmitted
  <1>4. a \in Seq(Packet) /\ Elements(a) \subseteq Elements(net[s])
    <2>1. j \in Nat \ {0} /\ Len(net[s]) \in Nat
      BY <1>1
    <2> HIDE DEF j
    <2>2. /\ SubSeq(net[s], j, Len(net[s])) \in Seq(Packet)
          /\ Elements(SubSeq(net[s], j, Len(net[s]))) \subseteq Elements(net[s])
      BY <1>1, <2>1, ElementsCut
    <2>3. <<>> \in Seq(Packet) /\ Elements(<<>>) = {}
      BY DEF Elements
    <2> QED BY <2>2, <2>3
  <1> HIDE DEF a, b
  <1>5. net'[s] = a /\ net'[Peer(s)] = b /\ net' \in [Side -> Seq(Packet)]
    BY <1>1, <1>2, <1>3, <1>4, Both
  <1> QED BY <1>3, <1>4, <1>5

\* The parts of _got_sol_payload: the data, the acknowledgement, the channels.
LEMMA GotParts ==
    ASSUME TypeOK, NEW s \in Side, NEW i \in 1 .. Len(net[s]), NEW again \in BOOLEAN,
           GotSolPayload(s, i, again)
    PROVE  /\ net[s][i] \in Packet /\ net[s][i] \in Elements(net[s])
           /\ phase[s] \in {"open", "closed"} /\ UNCHANGED typed
           /\ TakeAck(s, net[s][i])
           /\ \E d \in Seq(Packet) :
                 /\ Took(s, net[s][i], d)
                 /\ net' \in [Side -> Seq(Packet)]
                 /\ Elements(net'[s]) \subseteq Elements(net[s])
                 /\ Elements(net'[Peer(s)]) \subseteq
                       Elements(net[Peer(s)]) \cup Elements(d)
                          \cup Elements(Answer(s, net[s][i]))
  <1> DEFINE m == net[s][i]
  <1>1. m \in Packet /\ m \in Elements(net[s]) /\ net[s] \in Seq(Packet)
    BY DEF TypeOK, Elements
  <1>2. /\ phase[s] \in {"open", "closed"} /\ UNCHANGED typed /\ TakeAck(s, m)
        /\ \/ TakeData(s, m) /\ Deliver(s, i, again, DataAck(s, m) \o Answer(s, m))
           \/ \E k \in 0 .. (Len(m.text) - 1) :
                 /\ TakePart(s, m, k)
                 /\ Deliver(s, i, FALSE, <<Ack(m.seq, k, TRUE, FALSE)>> \o Answer(s, m))
    BY DEF GotSolPayload
  <1> HIDE DEF m
  <1> DEFINE Changed ==
               \E e \in Seq(Packet) :
                 /\ Took(s, m, e)
                 /\ net' \in [Side -> Seq(Packet)]
                 /\ Elements(net'[s]) \subseteq Elements(net[s])
                 /\ Elements(net'[Peer(s)]) \subseteq
                       Elements(net[Peer(s)]) \cup Elements(e) \cup Elements(Answer(s, m))
  <1>3. Answer(s, m) \in Seq(Packet)
    BY <1>1, <1>2, AckTypes
  <1>4. m.seq \in 0 .. SeqMax /\ Len(m.text) \in Nat
    BY <1>1, PacketParts
  <1>5. ASSUME NEW d \in Seq(Packet), NEW c \in BOOLEAN, Took(s, m, d),
               Deliver(s, i, c, d \o Answer(s, m))
        PROVE  Changed
    <2>1. Elements(d \o Answer(s, m)) = Elements(d) \cup Elements(Answer(s, m))
      BY <1>3, ElementsJoined
    <2>2. d \o Answer(s, m) \in Seq(Packet)
      BY <1>3
    <2>3. /\ net' \in [Side -> Seq(Packet)]
          /\ Elements(net'[s]) \subseteq Elements(net[s])
          /\ Elements(net'[Peer(s)]) \subseteq
                Elements(net[Peer(s)]) \cup Elements(d \o Answer(s, m))
      BY <1>5, <2>2, Delivers
    <2> QED BY <1>5, <2>1, <2>3
  <1> HIDE DEF Changed
  <1>6. ASSUME TakeData(s, m), Deliver(s, i, again, DataAck(s, m) \o Answer(s, m))
        PROVE  Changed
    <2>1. CASE m.seq = 0
      <3>1. DataAck(s, m) = <<>> /\ UNCHANGED <<remseq, lastsize, shown>>
        BY <1>6, <2>1 DEF DataAck, TakeData
      <3>2. <<>> \in Seq(Packet) /\ Took(s, m, <<>>)
        BY <2>1, <3>1 DEF Took
      <3>3. Deliver(s, i, again, <<>> \o Answer(s, m))
        BY <1>6, <3>1
      <3> QED BY <1>5, <3>2, <3>3, Zenon
    <2>2. CASE m.seq # 0
      <3> DEFINE b == phase[s] = "closed"
                 d == <<Ack(m.seq, Len(m.text), b, b)>>
      <3>1. DataAck(s, m) = d /\ b \in BOOLEAN
        BY <2>2 DEF DataAck
      <3>2. d \in Seq(Packet)
        <4> HIDE DEF b
        <4>1. Ack(m.seq, Len(m.text), b, b) \in Packet
          BY <1>4, <3>1, Made
        <4> QED BY <4>1
      <3>3. Took(s, m, d)
        BY <1>6, <2>2, <3>1, Zenon DEF Took
      <3> HIDE DEF d, b
      <3>4. Deliver(s, i, again, d \o Answer(s, m))
        BY <1>6, <3>1
      <3> QED BY <1>5, <3>2, <3>3, <3>4, Zenon
    <2> QED BY <2>1, <2>2
  <1>7. ASSUME NEW k \in 0 .. (Len(m.text) - 1), TakePart(s, m, k),
               Deliver(s, i, FALSE, <<Ack(m.seq, k, TRUE, FALSE)>> \o Answer(s, m))
        PROVE  Changed
    <2> DEFINE d == <<Ack(m.seq, k, TRUE, FALSE)>>
    <2>1. d \in Seq(Packet)
      <3>1. k \in Nat
        BY <1>4
      <3>2. Ack(m.seq, k, TRUE, FALSE) \in Packet
        BY <1>4, <3>1, Made
      <3> QED BY <3>2, ElementsOne, Zenon
    <2>2. Took(s, m, d)
      <3>1. m.seq # 0
        BY <1>7 DEF TakePart
      <3>2. \E j \in 0 .. (Len(m.text) - 1) :
               TakePart(s, m, j) /\ d = <<Ack(m.seq, j, TRUE, FALSE)>>
        <4> WITNESS k \in 0 .. (Len(m.text) - 1)
        <4> QED BY <1>7
      <3> QED BY <3>1, <3>2 DEF Took
    <2>3. Deliver(s, i, FALSE, d \o Answer(s, m))
      BY <1>7
    <2> HIDE DEF d
    <2> QED BY <1>5, <2>1, <2>2, <2>3, Zenon
  <1>8. Changed
    BY <1>2, <1>6, <1>7, Zenon
  <1> QED BY <1>1, <1>2, <1>8 DEF m, Changed

\* What the data in a packet changes.
LEMMA TookTypes ==
    ASSUME TypeOK, NEW s \in Side, NEW m \in Packet, NEW d, Took(s, m, d)
    PROVE  /\ remseq' \in [Side -> 0 .. SeqMax] /\ lastsize' \in [Side -> Nat]
           /\ shown' \in [Side -> Seq(Nat)]
  <1>1. /\ remseq \in [Side -> 0 .. SeqMax] /\ lastsize \in [Side -> Nat]
        /\ shown \in [Side -> Seq(Nat)] /\ m.seq \in 0 .. SeqMax
        /\ m.text \in Seq(Nat) /\ Len(m.text) \in Nat
    BY PacketParts DEF TypeOK
  <1>2. ASSUME NEW n \in Nat, NEW t \in Seq(Nat),
               /\ remseq' = [remseq EXCEPT ![s] = m.seq]
               /\ lastsize' = [lastsize EXCEPT ![s] = n]
               /\ shown' = [shown EXCEPT ![s] = @ \o t]
        PROVE  /\ remseq' \in [Side -> 0 .. SeqMax] /\ lastsize' \in [Side -> Nat]
               /\ shown' \in [Side -> Seq(Nat)]
    <2>1. shown[s] \o t \in Seq(Nat)
      BY <1>1
    <2>2. [shown EXCEPT ![s] = @ \o t] \in [Side -> Seq(Nat)]
      BY <1>1, <2>1
    <2> QED BY <1>1, <1>2, <2>2
  <1>3. CASE m.seq # 0 /\ TakeData(s, m)
    <2>1. NewText(s, m) \in Seq(Nat)
      <3>1. Skipped(s) \in Nat
        BY DEF Skipped
      <3> DEFINE u == m.text
                 j == Skipped(s) + lastsize[s] + 1
      <3>2. u \in Seq(Nat) /\ j \in Nat \ {0}
        BY <1>1, <3>1
      <3>3. NewText(s, m) \in {u, SubSeq(u, j, Len(u)), <<>>}
        BY DEF NewText
      <3> HIDE DEF u, j
      <3>4. SubSeq(u, j, Len(u)) \in Seq(Nat) /\ <<>> \in Seq(Nat)
        BY <3>2
      <3> QED BY <3>2, <3>3, <3>4
    <2>2. /\ remseq' = [remseq EXCEPT ![s] = m.seq]
          /\ lastsize' = [lastsize EXCEPT ![s] = Len(m.text)]
          /\ shown' = [shown EXCEPT ![s] = @ \o NewText(s, m)]
      BY <1>3 DEF TakeData
    <2> QED BY <1>1, <1>2, <2>1, <2>2, Zenon
  <1>4. ASSUME NEW k \in 0 .. (Len(m.text) - 1), TakePart(s, m, k)
        PROVE  /\ remseq' \in [Side -> 0 .. SeqMax] /\ lastsize' \in [Side -> Nat]
               /\ shown' \in [Side -> Seq(Nat)]
    <2> DEFINE had == IF m.seq = remseq[s] THEN lastsize[s] ELSE 0
               u == m.text
               t == SubSeq(u, had + 1, k)
    <2>1. had \in Nat /\ k \in Nat /\ k <= Len(u) /\ u \in Seq(Nat)
      <3> DEFINE n == Len(m.text)
      <3>1. n \in Nat /\ k \in 0 .. (n - 1)
        BY <1>1
      <3>2. lastsize[s] \in Nat
        BY <1>1
      <3> HIDE DEF n
      <3>3. k \in Nat /\ k <= n
        BY <3>1
      <3> QED BY <1>1, <3>2, <3>3 DEF n
    <2>2. /\ remseq' = [remseq EXCEPT ![s] = m.seq]
          /\ lastsize' = [lastsize EXCEPT ![s] = k]
          /\ shown' = [shown EXCEPT ![s] = @ \o t]
      BY <1>4 DEF TakePart
    <2> HIDE DEF had, u
    <2>3. t \in Seq(Nat)
      BY <2>1
    <2> HIDE DEF t
    <2> QED BY <1>2, <2>1, <2>2, <2>3
  <1>5. CASE UNCHANGED <<remseq, lastsize, shown>>
    BY <1>1, <1>5
  <1> QED BY <1>3, <1>4, <1>5 DEF Took

\* Each step keeps the shape.
LEMMA TypeStep == TypeOK /\ [Next]_vars => TypeOK'
  <1> SUFFICES ASSUME TypeOK, [Next]_vars PROVE TypeOK'
    OBVIOUS
  <1> DEFINE P == {"new", "taken", "open", "closed", "broken"}
             L == [payload : Packet, retries : 1 .. Retries]
  <1>1. /\ phase \in [Side -> P] /\ typed \in [Side -> Nat]
        /\ \A s \in Side : typed[s] <= MaxInput(s)
        /\ pending \in [Side -> Seq(Item)] /\ myseq \in [Side -> 0 .. SeqMax]
        /\ awaiting \in [Side -> BOOLEAN] /\ last \in [Side -> Packet]
        /\ loops \in [Side -> SUBSET L]
        /\ remseq \in [Side -> 0 .. SeqMax] /\ lastsize \in [Side -> Nat]
        /\ shown \in [Side -> Seq(Nat)] /\ net \in [Side -> Seq(Packet)]
        /\ retried \in BOOLEAN /\ events \in 0 .. MaxEvent /\ events \in Nat
        /\ MaxEvent \in Nat
    BY SolAssumption DEF TypeOK
  <1>2. \A s \in Side : MaxInput(s) \in Nat
    BY SolAssumption DEF MaxInput
  <1>3. ASSUME events < MaxEvent, events' = events + 1 PROVE events' \in 0 .. MaxEvent
    BY <1>1, <1>3
  <1>4. ASSUME NEW s \in Side, SendData(s) PROVE TypeOK'
    <2>1. /\ typed[s] < MaxInput(s) /\ typed' = [typed EXCEPT ![s] = @ + 1]
          /\ Submit(s, Text(<<typed[s] + 1>>))
          /\ UNCHANGED <<phase, remseq, lastsize, shown, retried, events>>
      BY <1>4 DEF SendData, counters
    <2>2. typed' \in [Side -> Nat] /\ \A r \in Side : typed'[r] <= MaxInput(r)
      BY <1>1, <1>2, <2>1
    <2>3. Text(<<typed[s] + 1>>) \in Item
      <3>1. <<typed[s] + 1>> \in Seq(Nat)
        BY <1>1
      <3> QED BY <3>1, Made
    <2>4. UNCHANGED phase /\ UNCHANGED remseq /\ UNCHANGED lastsize /\ UNCHANGED shown
          /\ UNCHANGED retried /\ UNCHANGED events
      BY <2>1
    <2> QED BY <1>1, <2>1, <2>2, <2>3, <2>4, SubmitTypes DEF TypeOK
  <1>5. ASSUME SendBreak PROVE TypeOK'
    <2>1. /\ events < MaxEvent /\ events' = events + 1 /\ Submit("console", Break)
          /\ UNCHANGED <<phase, typed, remseq, lastsize, shown, retried>>
      BY <1>5 DEF SendBreak
    <2>2. "console" \in Side /\ Break \in Item
      BY Made DEF Side
    <2> QED BY <1>1, <1>3, <2>1, <2>2, SubmitTypes DEF TypeOK
  <1>6. ASSUME NEW s \in Side, NEW l \in loops[s], Tick(s, l) PROVE TypeOK'
    <2> DEFINE a == IF l.retries = 1 THEN <<>> ELSE net[s]
               b == IF awaiting[s] THEN Transmit(Peer(s), <<l.payload>>) ELSE net[Peer(s)]
               c == IF l.retries = 1 THEN {}
                    ELSE (loops[s] \ {l}) \cup
                         (IF awaiting[s] THEN {[l EXCEPT !.retries = @ - 1]} ELSE {})
    <2>1. /\ net' = [net EXCEPT ![Peer(s)] = b, ![s] = a]
          /\ loops' = [loops EXCEPT ![s] = c]
          /\ phase' = [phase EXCEPT ![s] = "broken"] \/ UNCHANGED phase
          /\ UNCHANGED <<typed, pending, myseq, awaiting, last, remseq, lastsize, shown,
                         retried, events>>
      <3>1. /\ net' = [net EXCEPT ![Peer(s)] = b,
                                  ![s] = IF l.retries = 1 THEN <<>> ELSE @]
            /\ UNCHANGED <<typed, pending, myseq, awaiting, last, remseq, lastsize, shown,
                           retried, events>>
        BY <1>6 DEF Tick, counters
      <3>2. net' = [net EXCEPT ![Peer(s)] = b, ![s] = a]
        <4> HIDE DEF b
        <4> QED BY <1>1, <3>1, Sides
      <3>3. CASE l.retries = 1
        BY <1>6, <3>1, <3>2, <3>3 DEF Tick
      <3>4. CASE l.retries # 1
        <4>1. loops' = [loops EXCEPT ![s] = (@ \ {l}) \cup
                 (IF awaiting[s] THEN {[l EXCEPT !.retries = @ - 1]} ELSE {})]
              /\ UNCHANGED phase
          BY <1>6, <3>4 DEF Tick
        <4>2. loops' = [loops EXCEPT ![s] = c]
          BY <3>4, <4>1
        <4> QED BY <3>1, <3>2, <4>1, <4>2
      <3> QED BY <3>3, <3>4
    <2>2. l \in L /\ l.payload \in Packet /\ Peer(s) \in Side
      BY <1>1, Sides
    <2>3. a \in Seq(Packet)
      BY <1>1
    <2>4. b \in Seq(Packet)
      <3>1. <<l.payload>> \in Seq(Packet)
        BY <2>2
      <3> QED BY <1>1, <2>2, <3>1, Transmitted
    <2>5. c \subseteq L
      <3>1. l.retries # 1 => [l EXCEPT !.retries = @ - 1] \in L
        BY <2>2, SolAssumption
      <3> QED BY <1>1, <3>1
    <2> HIDE DEF a, b, c
    <2>6. net' \in [Side -> Seq(Packet)]
      BY <1>1, <2>1, <2>2, <2>3, <2>4
    <2>7. loops' \in [Side -> SUBSET L] /\ phase' \in [Side -> P]
      BY <1>1, <2>1, <2>5
    <2> QED BY <1>1, <2>1, <2>6, <2>7 DEF TypeOK
  <1>7. ASSUME NEW s \in Side, NEW i \in 1 .. Len(net[s]), NEW again \in BOOLEAN,
               GotSolPayload(s, i, again)
        PROVE  TypeOK'
    <2> DEFINE m == net[s][i]
    <2>1. /\ m \in Packet /\ UNCHANGED typed /\ TakeAck(s, m)
          /\ net' \in [Side -> Seq(Packet)] /\ \E d : Took(s, m, d)
      BY <1>7, GotParts
    <2>2. events' \in 0 .. MaxEvent /\ UNCHANGED retried
      <3>1. /\ events' \in {events, events + 1} /\ events' <= MaxEvent
            /\ UNCHANGED <<typed, retried>>
        BY <1>7 DEF GotSolPayload
      <3> QED BY <1>1, <3>1
    <2> HIDE DEF m
    <2>3. /\ remseq' \in [Side -> 0 .. SeqMax] /\ lastsize' \in [Side -> Nat]
          /\ shown' \in [Side -> Seq(Nat)]
      BY <2>1, TookTypes
    <2> QED BY <1>1, <2>1, <2>2, <2>3, AckTypes DEF TypeOK
  <1>8. ASSUME Activate PROVE TypeOK'
    <2>1. /\ phase' = [s \in Side |-> "open"]
          /\ SendPendingOutput("console", pending["console"])
          /\ net' = [net EXCEPT !["bmc"] =
                       Transmit("bmc", Outgoing("console", pending["console"]))]
          /\ UNCHANGED <<typed, remseq, lastsize, shown, retried, events>>
      BY <1>8 DEF Activate, counters
    <2>2. "console" \in Side /\ "bmc" \in Side /\ pending["console"] \in Seq(Item)
      BY <1>1 DEF Side
    <2>3. Outgoing("console", pending["console"]) \in Seq(Packet)
      BY <2>2, SendTypes
    <2>4. Transmit("bmc", Outgoing("console", pending["console"])) \in Seq(Packet)
      BY <1>1, <2>2, <2>3, Transmitted
    <2>5. net' \in [Side -> Seq(Packet)] /\ phase' \in [Side -> P]
      BY <1>1, <2>1, <2>4
    <2> QED BY <1>1, <2>1, <2>2, <2>5, SendTypes DEF TypeOK
  <1>9. ASSUME Taken PROVE TypeOK'
    BY <1>1, <1>3, <1>9 DEF Taken, TypeOK
  <1>10. ASSUME AlreadyActive PROVE TypeOK'
    <2>1. phase' \in [Side -> P] /\ retried' \in BOOLEAN
          /\ UNCHANGED <<typed, pending, myseq, awaiting, last, loops, remseq, lastsize,
                         shown, net, events>>
      BY <1>1, <1>10 DEF AlreadyActive
    <2> QED BY <1>1, <2>1 DEF TypeOK
  <1>11. ASSUME Stolen PROVE TypeOK'
    BY <1>1, <1>3, <1>11 DEF Stolen, TypeOK
  <1>12. ASSUME GiveUp PROVE TypeOK'
    <2>1. /\ loops' = [loops EXCEPT !["console"] = {}]
          /\ net' = [net EXCEPT !["console"] = <<>>]
          /\ UNCHANGED <<typed, pending, myseq, awaiting, last, remseq, lastsize, shown,
                         retried>>
      BY <1>12 DEF GiveUp
    <2>2. loops' \in [Side -> SUBSET L] /\ net' \in [Side -> Seq(Packet)]
      <3> HIDE DEF L
      <3>1. [loops EXCEPT !["console"] = {}] \in [Side -> SUBSET L]
        <4>1. {} \in SUBSET L
          OBVIOUS
        <4> DEFINE M == SUBSET L
        <4>2. loops \in [Side -> M] /\ {} \in M
          BY <1>1, <4>1
        <4> HIDE DEF M
        <4>3. [loops EXCEPT !["console"] = {}] \in [Side -> M]
          BY <4>2
        <4> QED BY <4>3 DEF M
      <3>2. [net EXCEPT !["console"] = <<>>] \in [Side -> Seq(Packet)]
        <4> DEFINE M == Seq(Packet)
        <4>1. net \in [Side -> M] /\ <<>> \in M
          BY <1>1
        <4> HIDE DEF M
        <4>2. [net EXCEPT !["console"] = <<>>] \in [Side -> M]
          BY <4>1
        <4> QED BY <4>2 DEF M
      <3> QED BY <2>1, <3>1, <3>2
    <2>3. phase' \in [Side -> P] /\ events' \in 0 .. MaxEvent
      BY <1>1, <1>3, <1>12 DEF GiveUp
    <2> QED BY <1>1, <2>1, <2>2, <2>3 DEF TypeOK
  <1>13. CASE UNCHANGED vars
    BY <1>13 DEF vars, TypeOK
  <1> QED BY <1>4, <1>5, <1>6, <1>7, <1>8, <1>9, <1>10, <1>11, <1>12, <1>13 DEF Next

\* The initial state has it.
LEMMA InitTypes == Init => TypeOK
  <1> SUFFICES ASSUME Init PROVE TypeOK
    OBVIOUS
  <1>1. /\ SeqMax \in Nat /\ MaxEvent \in Nat
        /\ \A s \in Side : MaxInput(s) \in Nat
    BY SolAssumption DEF MaxInput
  <1>2. NoPayload \in Packet
    BY Made
  <1>3. /\ phase \in [Side -> {"new", "taken", "open", "closed", "broken"}]
        /\ typed \in [Side -> Nat] /\ \A s \in Side : typed[s] <= MaxInput(s)
        /\ myseq \in [Side -> 0 .. SeqMax] /\ remseq \in [Side -> 0 .. SeqMax]
        /\ awaiting \in [Side -> BOOLEAN] /\ lastsize \in [Side -> Nat]
        /\ retried \in BOOLEAN /\ events \in 0 .. MaxEvent
    <2>1. 0 \in 0 .. SeqMax /\ 0 \in 0 .. MaxEvent /\ 0 \in Nat
      BY <1>1
    <2>2. \A s \in Side : 0 <= MaxInput(s)
      BY <1>1
    <2>3. typed = [s \in Side |-> 0] /\ \A s \in Side : typed[s] <= MaxInput(s)
      BY <2>2 DEF Init
    <2> QED BY <2>1, <2>3 DEF Init
  <1>4. pending \in [Side -> Seq(Item)] /\ shown \in [Side -> Seq(Nat)]
    BY DEF Init
  <1>5. net \in [Side -> Seq(Packet)] /\ last \in [Side -> Packet]
    <2>1. net = [s \in Side |-> <<>>] /\ last = [s \in Side |-> NoPayload]
      BY DEF Init
    <2>2. <<>> \in Seq(Packet)
      OBVIOUS
    <2> QED BY <1>2, <2>1, <2>2, Zenon
  <1>6. loops \in [Side -> SUBSET [payload : Packet, retries : 1 .. Retries]]
    BY DEF Init
  <1> QED BY <1>3, <1>4, <1>5, <1>6 DEF TypeOK

\* Every variable keeps the shape of the Python value it stands for: packet
\* numbers stay in four bits, no loop has more retries than it was given and no
\* queue holds anything but texts and breaks.
THEOREM TypeCorrect == Spec => []TypeOK
  BY InitTypes, TypeStep, PTL DEF Spec

-----------------------------------------------------------------------------
(* What each step does to an end.                                            *)

\* What an end sends from is as it was.
Still(s) ==
    /\ pending'[s] = pending[s] /\ myseq'[s] = myseq[s] /\ awaiting'[s] = awaiting[s]
    /\ last'[s] = last[s] /\ loops'[s] = loops[s]

\* s sends the next packet from q: p is that packet.
SendsFrom(s, q, p) ==
    /\ pending'[s] = Rest(q) /\ awaiting'[s] /\ myseq'[s] = p.seq /\ last'[s] = p
    /\ loops'[s] = loops[s] \cup {[payload |-> p, retries |-> Retries]}

\* s has nothing to send and awaits nothing.
Rests(s) ==
    /\ pending'[s] = <<>> /\ ~awaiting'[s] /\ myseq'[s] = myseq[s]
    /\ last'[s] = last[s] /\ loops'[s] = loops[s]

\* _sendpendingoutput changes one end.
LEMMA Sent ==
    ASSUME TypeOK, NEW s \in Side, NEW q \in Seq(Item), SendPendingOutput(s, q)
    PROVE  /\ \A r \in Side : r # s => Still(r)
           /\ q = <<>> => Rests(s) /\ Outgoing(s, q) = <<>>
           /\ q # <<>> =>
                 LET p == Payload(NextSeq(myseq[s]), Chunk(q))
                 IN  SendsFrom(s, q, p) /\ Outgoing(s, q) = <<p>>
  <1>1. /\ pending \in [Side -> Seq(Item)] /\ myseq \in [Side -> 0 .. SeqMax]
        /\ awaiting \in [Side -> BOOLEAN] /\ last \in [Side -> Packet]
        /\ DOMAIN loops = Side /\ loops = [r \in Side |-> loops[r]]
    BY DEF TypeOK
  <1>2. CASE q = <<>>
    <2>1. /\ pending' = [pending EXCEPT ![s] = <<>>] /\ awaiting' = [awaiting EXCEPT ![s] = FALSE]
          /\ UNCHANGED <<myseq, last, loops>> /\ Outgoing(s, q) = <<>>
      BY <1>2 DEF SendPendingOutput, Outgoing
    <2> QED BY <1>1, <1>2, <2>1 DEF Still, Rests
  <1>3. CASE q # <<>>
    <2> DEFINE p == Payload(NextSeq(myseq[s]), Chunk(q))
               l == [payload |-> p, retries |-> Retries]
    <2>1. /\ pending' = [pending EXCEPT ![s] = Rest(q)]
          /\ awaiting' = [awaiting EXCEPT ![s] = TRUE]
          /\ myseq' = [myseq EXCEPT ![s] = p.seq]
          /\ last' = [last EXCEPT ![s] = p]
          /\ loops' = [loops EXCEPT ![s] = @ \cup {l}]
      BY <1>3 DEF SendPendingOutput
    <2>2. Outgoing(s, q) = <<p>>
      BY <1>3 DEF Outgoing
    <2> HIDE DEF p, l
    <2>3. \A r \in Side : r # s => Still(r)
      BY <1>1, <2>1 DEF Still
    <2>4. /\ pending'[s] = Rest(q) /\ awaiting'[s] /\ myseq'[s] = p.seq /\ last'[s] = p
          /\ loops'[s] = loops[s] \cup {l}
      BY <1>1, <2>1
    <2>5. SendsFrom(s, q, p)
      BY <2>4, Zenon DEF SendsFrom, l
    <2> QED BY <1>3, <2>2, <2>3, <2>5, Zenon DEF p
  <1> QED BY <1>2, <1>3

-----------------------------------------------------------------------------
(* A packet that awaits its acknowledgement has its loop.                    *)

\* An end that has not begun awaits nothing, and the loop of the last packet is
\* alive as long as that is awaited.
ArmedAt(s) ==
    /\ phase[s] \in {"new", "taken"} => ~awaiting[s]
    /\ awaiting[s] /\ phase[s] \in {"open", "closed"} =>
          \E l \in loops[s] : l.payload = last[s]
ArmedInv == TypeOK /\ \A s \in Side : ArmedAt(s)

\* It is kept where nothing is sent and nothing ends,
LEMMA StillArmed ==
    ASSUME NEW s \in Side, ArmedAt(s), Still(s),
           \/ phase'[s] = phase[s]
           \/ phase[s] \in {"new", "taken"} /\ ~awaiting[s]
           \/ phase[s] = "open" /\ phase'[s] = "closed"
           \/ phase'[s] = "broken"
    PROVE  ArmedAt(s)'
  BY DEF ArmedAt, Still

\* and where something is sent.
LEMMA SendArmed ==
    ASSUME TypeOK, NEW s \in Side, NEW q \in Seq(Item), SendPendingOutput(s, q),
           phase'[s] \notin {"new", "taken"}
    PROVE  ArmedAt(s)'
  <1>1. CASE q = <<>>
    BY <1>1, Sent DEF ArmedAt, Rests
  <1>2. CASE q # <<>>
    <2> DEFINE p == Payload(NextSeq(myseq[s]), Chunk(q))
    <2>1. SendsFrom(s, q, p)
      BY <1>2, Sent
    <2> HIDE DEF p
    <2>2. [payload |-> p, retries |-> Retries] \in loops'[s] /\ last'[s] = p
      BY <2>1 DEF SendsFrom
    <2>3. [payload |-> p, retries |-> Retries].payload = p
      OBVIOUS
    <2> QED BY <2>2, <2>3 DEF ArmedAt
  <1> QED BY <1>1, <1>2

\* Each step keeps it.
LEMMA ArmedStep == ArmedInv /\ [Next]_vars => ArmedInv'
  <1> SUFFICES ASSUME ArmedInv, [Next]_vars, NEW r \in Side PROVE ArmedAt(r)'
    BY TypeStep DEF ArmedInv
  <1>1. /\ phase \in [Side -> {"new", "taken", "open", "closed", "broken"}]
        /\ DOMAIN phase = Side /\ DOMAIN loops = Side /\ DOMAIN awaiting = Side
        /\ pending \in [Side -> Seq(Item)] /\ awaiting \in [Side -> BOOLEAN]
        /\ TypeOK /\ \A s \in Side : ArmedAt(s)
        /\ phase = [s \in Side |-> phase[s]] /\ loops = [s \in Side |-> loops[s]]
    BY DEF ArmedInv, TypeOK
  <1>2. UNCHANGED <<pending, myseq, awaiting, last, loops>> => Still(r)
    BY DEF Still
  <1>3. ASSUME NEW s \in Side, NEW e \in Item, Submit(s, e), UNCHANGED phase,
               phase[s] \in {"new", "open"}
        PROVE  ArmedAt(r)'
    <2> DEFINE q == AddPending(pending[s], e)
    <2>1. q \in Seq(Item)
      BY <1>1, QueueTypes
    <2>2. CASE phase[s] = "new" \/ awaiting[s]
      <3>1. UNCHANGED <<awaiting, last, loops>>
        BY <2>2, <1>3 DEF Submit
      <3> QED BY <1>1, <1>3, <3>1 DEF ArmedAt
    <2>3. CASE ~(phase[s] = "new" \/ awaiting[s])
      <3>1. SendPendingOutput(s, q)
        BY <2>3, <1>3 DEF Submit
      <3> HIDE DEF q
      <3>2. CASE r = s
        BY <1>1, <1>3, <2>1, <2>3, <3>1, <3>2, SendArmed
      <3>3. CASE r # s
        <4>1. Still(r)
          BY <1>1, <2>1, <3>1, <3>3, Sent
        <4> QED BY <1>1, <1>3, <4>1, StillArmed
      <3> QED BY <3>2, <3>3
    <2> QED BY <2>2, <2>3
  <1>4. ASSUME NEW s \in Side, SendData(s) PROVE ArmedAt(r)'
    <2>1. /\ Submit(s, Text(<<typed[s] + 1>>)) /\ UNCHANGED phase
          /\ phase[s] \in {"new", "open"}
      BY <1>4 DEF SendData
    <2>2. <<typed[s] + 1>> \in Seq(Nat)
      BY <1>1 DEF TypeOK
    <2> QED BY <1>3, <2>1, <2>2, Made
  <1>5. ASSUME SendBreak PROVE ArmedAt(r)'
    <2>1. Submit("console", Break) /\ UNCHANGED phase /\ phase["console"] \in {"new", "open"}
      BY <1>5 DEF SendBreak
    <2>2. "console" \in Side
      BY DEF Side
    <2> QED BY <1>3, <2>1, <2>2, Made
  <1>6. ASSUME NEW s \in Side, NEW l \in loops[s], Tick(s, l) PROVE ArmedAt(r)'
    <2>1. UNCHANGED <<pending, myseq, awaiting, last>>
      BY <1>6 DEF Tick
    <2>2. CASE l.retries = 1
      <3>1. phase' = [phase EXCEPT ![s] = "broken"] /\ loops' = [loops EXCEPT ![s] = {}]
        BY <2>2, <1>6 DEF Tick
      <3> QED BY <1>1, <2>1, <3>1 DEF ArmedAt
    <2>3. CASE l.retries # 1
      <3> DEFINE k == [l EXCEPT !.retries = @ - 1]
      <3>1. /\ UNCHANGED phase
            /\ loops' = [loops EXCEPT ![s] = (@ \ {l}) \cup
                           (IF awaiting[s] THEN {k} ELSE {})]
        BY <2>3, <1>6 DEF Tick
      <3>2. k.payload = l.payload
        BY <1>1 DEF TypeOK
      <3> HIDE DEF k
      <3>3. loops'[s] = (loops[s] \ {l}) \cup (IF awaiting[s] THEN {k} ELSE {})
            /\ \A t \in Side : t # s => loops'[t] = loops[t]
        BY <1>1, <3>1
      <3>4. CASE r = s
        BY <1>1, <2>1, <3>1, <3>2, <3>3, <3>4 DEF ArmedAt
      <3>5. CASE r # s
        BY <1>1, <2>1, <3>1, <3>3, <3>5 DEF ArmedAt
      <3> QED BY <3>4, <3>5
    <2> QED BY <2>2, <2>3
  <1>7. ASSUME NEW s \in Side, NEW i \in 1 .. Len(net[s]), NEW again \in BOOLEAN,
               GotSolPayload(s, i, again)
        PROVE  ArmedAt(r)'
    <2> DEFINE m == net[s][i]
    <2>1. m \in Packet /\ TakeAck(s, m) /\ phase[s] \in {"open", "closed"}
      BY <1>1, <1>7, GotParts
    <2> HIDE DEF m
    <2>2. CASE /\ phase' = [phase EXCEPT ![s] = "broken"]
               /\ loops' = [loops EXCEPT ![s] = {}]
               /\ awaiting' = [awaiting EXCEPT ![s] = FALSE]
               /\ UNCHANGED <<pending, myseq, last>>
      BY <1>1, <2>2 DEF ArmedAt
    <2>3. CASE SendPendingOutput(s, Requeue(s, m)) /\ UNCHANGED phase
      <3>1. Requeue(s, m) \in Seq(Item)
        BY <1>1, <2>1, RequeueTypes
      <3>2. CASE r = s
        BY <1>1, <2>1, <2>3, <3>1, <3>2, SendArmed
      <3>3. CASE r # s
        <4>1. Still(r)
          BY <1>1, <2>3, <3>1, <3>3, Sent
        <4> QED BY <1>1, <2>3, <4>1, StillArmed
      <3> QED BY <3>2, <3>3
    <2>4. CASE UNCHANGED <<phase, pending, myseq, awaiting, last, loops>>
      BY <1>1, <2>4 DEF ArmedAt
    <2> QED BY <2>1, <2>2, <2>3, <2>4, AckCases
  <1>8. ASSUME Activate PROVE ArmedAt(r)'
    <2>1. /\ phase' = [s \in Side |-> "open"] /\ phase["bmc"] = "new"
          /\ SendPendingOutput("console", pending["console"])
      BY <1>8 DEF Activate
    <2>2. "console" \in Side /\ pending["console"] \in Seq(Item)
      BY <1>1 DEF Side
    <2>3. CASE r = "console"
      BY <1>1, <2>1, <2>2, <2>3, SendArmed
    <2>4. CASE r # "console"
      <3>1. Still(r)
        BY <1>1, <2>1, <2>2, <2>4, Sent
      <3>2. r = "bmc"
        BY <2>4 DEF Side
      <3> QED BY <1>1, <2>1, <3>1, <3>2, StillArmed DEF ArmedAt
    <2> QED BY <2>3, <2>4
  <1>9. ASSUME Taken PROVE ArmedAt(r)'
    <2>1. /\ UNCHANGED <<pending, myseq, awaiting, last, loops>> /\ phase["bmc"] = "new"
          /\ phase' = [phase EXCEPT !["bmc"] = "taken"]
      BY <1>9 DEF Taken
    <2> QED BY <1>1, <2>1 DEF ArmedAt
  <1>10. ASSUME AlreadyActive PROVE ArmedAt(r)'
    <2>1. /\ UNCHANGED <<pending, myseq, awaiting, last, loops>> /\ phase["bmc"] = "taken"
          /\ phase' \in {[phase EXCEPT !["console"] = "broken"], [phase EXCEPT !["bmc"] = "new"]}
      BY <1>10 DEF AlreadyActive
    <2> QED BY <1>1, <2>1 DEF ArmedAt
  <1>11. ASSUME Stolen PROVE ArmedAt(r)'
    <2>1. /\ UNCHANGED <<pending, myseq, awaiting, last, loops>> /\ phase["bmc"] = "open"
          /\ phase' = [phase EXCEPT !["bmc"] = "closed"]
      BY <1>11 DEF Stolen
    <2> QED BY <1>1, <2>1 DEF ArmedAt
  <1>12. ASSUME GiveUp PROVE ArmedAt(r)'
    <2>1. /\ loops' = [loops EXCEPT !["console"] = {}]
          /\ UNCHANGED <<pending, myseq, awaiting, last>>
          /\ \/ phase' = [phase EXCEPT !["console"] = "broken"]
             \/ phase' = [phase EXCEPT !["console"] = "broken",
                                       !["bmc"] = IF @ = "open" THEN "closed" ELSE @]
      BY <1>12 DEF GiveUp
    <2>2. phase'["console"] = "broken" /\ loops'["bmc"] = loops["bmc"]
          /\ \/ phase'["bmc"] = phase["bmc"]
             \/ phase["bmc"] = "open" /\ phase'["bmc"] = "closed"
      BY <1>1, <2>1 DEF Side
    <2> QED BY <1>1, <2>1, <2>2 DEF ArmedAt, Side
  <1>13. CASE UNCHANGED vars
    BY <1>1, <1>13 DEF vars, ArmedAt
  <1> QED BY <1>4, <1>5, <1>6, <1>7, <1>8, <1>9, <1>10, <1>11, <1>12, <1>13 DEF Next

\* A packet that awaits its acknowledgement is never forgotten: whoever handles
\* acknowledgements, and however many loops are alive, the one that resends it
\* is.
THEOREM RetryArmedCorrect == Spec => []RetryArmed
  <1>1. Init => ArmedInv
    BY InitTypes DEF Init, ArmedInv, ArmedAt
  <1>2. ArmedInv => RetryArmed
    BY DEF ArmedInv, ArmedAt, RetryArmed
  <1> QED BY <1>1, <1>2, ArmedStep, PTL DEF Spec

-----------------------------------------------------------------------------
(* Runs of characters.                                                       *)

\* t has the characters after x up to y.
IsRun(t, x, y) == x <= y /\ t = [i \in 1 .. y - x |-> x + i]

\* A run as a list.
LEMMA RunIs ==
    ASSUME NEW x \in Nat, NEW y \in Nat, NEW t, IsRun(t, x, y)
    PROVE  /\ t \in Seq(Nat) /\ Len(t) = y - x /\ DOMAIN t = 1 .. y - x
           /\ \A i \in 1 .. y - x : t[i] = x + i
           /\ Elements(t) = x + 1 .. y
  <1>1. x <= y /\ t = [i \in 1 .. y - x |-> x + i]
    BY DEF IsRun
  <1>2. DOMAIN t = 1 .. y - x /\ \A i \in 1 .. y - x : t[i] = x + i
    BY <1>1
  <1>3. y - x \in Nat
    BY <1>1
  <1>4. t \in [1 .. y - x -> Nat]
    BY <1>1
  <1>5. t \in Seq(Nat) /\ Len(t) = y - x
    BY <1>3, <1>4
  <1>6. ASSUME NEW n \in x + 1 .. y PROVE n \in Elements(t)
    <2>1. n - x \in 1 .. y - x /\ x + (n - x) = n
      OBVIOUS
    <2>2. n - x \in DOMAIN t /\ t[n - x] = n
      BY <1>2, <2>1
    <2> QED BY <2>2 DEF Elements
  <1>7. ASSUME NEW n \in Elements(t) PROVE n \in x + 1 .. y
    <2>1. PICK i \in DOMAIN t : n = t[i]
      BY DEF Elements
    <2> QED BY <1>2, <2>1
  <1>8. Elements(t) = x + 1 .. y
    BY <1>6, <1>7
  <1> QED BY <1>2, <1>5, <1>8

\* A list that has the characters after x in order is a run.
LEMMA RunMade ==
    ASSUME NEW x \in Nat, NEW y \in Nat, x <= y, NEW t \in Seq(Nat), Len(t) = y - x,
           \A i \in 1 .. y - x : t[i] = x + i
    PROVE  IsRun(t, x, y)
  <1>1. DOMAIN t = 1 .. y - x /\ t = [i \in 1 .. Len(t) |-> t[i]]
    OBVIOUS
  <1>2. t = [i \in 1 .. y - x |-> x + i]
    BY <1>1
  <1> QED BY <1>2 DEF IsRun

\* Nothing is a run, and so is one character.
LEMMA RunsShort ==
    ASSUME NEW x \in Nat
    PROVE  IsRun(<<>>, x, x) /\ IsRun(<<x + 1>>, x, x + 1)
  <1>1. IsRun(<<>>, x, x)
    <2> DEFINE t == <<>>
               y == x
    <2>1. t \in Seq(Nat) /\ Len(t) = y - x /\ \A i \in 1 .. y - x : t[i] = x + i
      OBVIOUS
    <2>2. y \in Nat /\ x <= y
      OBVIOUS
    <2> HIDE DEF t, y
    <2>3. IsRun(t, x, y)
      BY <2>1, <2>2, RunMade
    <2> QED BY <2>3 DEF t, y
  <1>2. IsRun(<<x + 1>>, x, x + 1)
    <2> DEFINE t == <<x + 1>>
               y == x + 1
    <2>1. t \in Seq(Nat) /\ Len(t) = y - x /\ \A i \in 1 .. y - x : t[i] = x + i
      OBVIOUS
    <2>2. y \in Nat /\ x <= y
      OBVIOUS
    <2> HIDE DEF t, y
    <2>3. IsRun(t, x, y)
      BY <2>1, <2>2, RunMade
    <2> QED BY <2>3 DEF t, y
  <1> QED BY <1>1, <1>2

\* A run is cut into runs,
LEMMA RunCut ==
    ASSUME NEW x \in Nat, NEW y \in Nat, NEW t, IsRun(t, x, y),
           NEW j \in Nat, NEW k \in Nat, j <= k, k <= Len(t)
    PROVE  IsRun(SubSeq(t, j + 1, k), x + j, x + k)
  <1>1. /\ t \in Seq(Nat) /\ Len(t) = y - x /\ \A i \in 1 .. y - x : t[i] = x + i
    BY RunIs
  <1> DEFINE u == SubSeq(t, j + 1, k)
  <1>2. u \in Seq(Nat) /\ Len(u) = k - j /\ \A i \in 1 .. Len(u) : u[i] = t[i + j]
    <2>1. u \in Seq(Nat) /\ Len(u) = k - j
      BY <1>1
    <2>2. \A i \in 1 .. k - j : u[i] = t[i + j]
      BY <1>1
    <2> QED BY <2>1, <2>2
  <1> HIDE DEF u
  <1> DEFINE a == x + j
             b == x + k
  <1>3. Len(u) = b - a /\ \A i \in 1 .. b - a : u[i] = a + i
    <2>1. b - a = k - j /\ Len(u) = b - a
      BY <1>2
    <2>2. ASSUME NEW i \in 1 .. b - a PROVE u[i] = a + i
      <3>1. i \in 1 .. Len(u) /\ i + j \in 1 .. y - x
        BY <1>1, <1>2
      <3>2. u[i] = t[i + j] /\ t[i + j] = x + (i + j)
        BY <1>1, <1>2, <3>1
      <3> QED BY <3>2
    <2> QED BY <2>1, <2>2
  <1>4. a \in Nat /\ b \in Nat /\ a <= b
    OBVIOUS
  <1> HIDE DEF a, b
  <1>5. IsRun(u, a, b)
    BY <1>2, <1>3, <1>4, RunMade
  <1> QED BY <1>5 DEF u, a, b

\* and runs are joined into one.
LEMMA RunJoin ==
    ASSUME NEW x \in Nat, NEW y \in Nat, NEW z \in Nat, NEW t, NEW u,
           IsRun(t, x, y), IsRun(u, y, z)
    PROVE  IsRun(t \o u, x, z)
  <1>1. /\ t \in Seq(Nat) /\ Len(t) = y - x /\ \A i \in 1 .. y - x : t[i] = x + i
        /\ u \in Seq(Nat) /\ Len(u) = z - y /\ \A i \in 1 .. z - y : u[i] = y + i
    BY RunIs
  <1>2. x <= y /\ y <= z
    BY DEF IsRun
  <1> DEFINE v == t \o u
  <1>3. /\ v \in Seq(Nat) /\ Len(v) = Len(t) + Len(u)
        /\ \A i \in 1 .. Len(t) + Len(u) :
              v[i] = IF i <= Len(t) THEN t[i] ELSE u[i - Len(t)]
    BY <1>1
  <1> HIDE DEF v
  <1>4. Len(v) = z - x /\ \A i \in 1 .. z - x : v[i] = x + i
    <2>1. Len(v) = z - x
      BY <1>1, <1>2, <1>3
    <2>2. ASSUME NEW i \in 1 .. z - x PROVE v[i] = x + i
      <3>1. i \in 1 .. Len(t) + Len(u)
        BY <1>1, <1>2
      <3>2. CASE i <= Len(t)
        BY <1>1, <1>3, <3>1, <3>2
      <3>3. CASE ~(i <= Len(t))
        <4>1. i - Len(t) \in 1 .. z - y
          BY <1>1, <1>2, <3>3
        <4>2. v[i] = u[i - Len(t)]
          BY <1>3, <3>1, <3>3
        <4> QED BY <1>1, <1>2, <4>1, <4>2
      <3> QED BY <3>2, <3>3
    <2> QED BY <2>1, <2>2
  <1>5. IsRun(v, x, z)
    BY <1>2, <1>3, <1>4, RunMade
  <1> QED BY <1>5 DEF v

\* A set of numbers has a least one.
LEMMA Least ==
    ASSUME NEW T \in SUBSET Nat, T # {}
    PROVE  \E x \in T : \A y \in T : x <= y
  <1>1. PICK x \in T : \A y \in T : <<y, x>> \notin OpToRel(<, Nat)
    BY NatLessThanWellFounded, WFMin, Zenon
  <1>2. \A y \in T : ~(y < x)
    BY <1>1, Zenon DEF OpToRel
  <1>3. \A y \in T : x <= y
    BY <1>2
  <1> QED BY <1>3

-----------------------------------------------------------------------------
(* Runs that wait to be sent.                                                *)

\* The items of q have the characters after a up to z, one after the other.
LaidBy(q, b, a, z) ==
    /\ b \in [0 .. Len(q) -> Nat] /\ b[0] = a /\ b[Len(q)] = z
    /\ \A i \in 1 .. Len(q) : IsRun(q[i].text, b[i - 1], b[i])
Laid(q, a, z) == \E b : LaidBy(q, b, a, z)

\* Nothing waits.
LEMMA LaidNone ==
    ASSUME NEW a \in Nat, NEW z \in Nat
    PROVE  Laid(<<>>, a, z) <=> a = z
  <1>1. ASSUME Laid(<<>>, a, z) PROVE a = z
    <2>1. PICK b : LaidBy(<<>>, b, a, z)
      BY <1>1 DEF Laid
    <2> QED BY <2>1 DEF LaidBy
  <1>2. ASSUME a = z PROVE Laid(<<>>, a, z)
    <2> DEFINE b == [i \in 0 .. 0 |-> a]
    <2>1. /\ b \in [0 .. 0 -> Nat] /\ b[0] = a /\ Len(<<>>) = 0
      OBVIOUS
    <2> HIDE DEF b
    <2>2. LaidBy(<<>>, b, a, z)
      BY <1>2, <2>1 DEF LaidBy
    <2> QED BY <2>2 DEF Laid
  <1> QED BY <1>1, <1>2

\* One item after the others.
LEMMA LaidAppend ==
    ASSUME NEW q \in Seq(Item), NEW e \in Item, NEW a \in Nat, NEW y \in Nat, NEW z \in Nat,
           Laid(q, a, y), IsRun(e.text, y, z)
    PROVE  Laid(Append(q, e), a, z)
  <1>1. PICK b : LaidBy(q, b, a, y)
    BY DEF Laid
  <1> DEFINE n == Len(q)
             r == Append(q, e)
             c == [i \in 0 .. n + 1 |-> IF i <= n THEN b[i] ELSE z]
  <1>2. /\ n \in Nat /\ b \in [0 .. n -> Nat] /\ b[0] = a /\ b[n] = y
        /\ \A i \in 1 .. n : IsRun(q[i].text, b[i - 1], b[i])
    BY <1>1 DEF LaidBy
  <1>3. /\ Len(r) = n + 1 /\ r[n + 1] = e /\ \A i \in 1 .. n : r[i] = q[i]
    OBVIOUS
  <1> HIDE DEF n, r
  <1>4. /\ c \in [0 .. n + 1 -> Nat] /\ c[0] = a /\ c[n] = y /\ c[n + 1] = z
        /\ \A i \in 1 .. n : c[i] = b[i] /\ c[i - 1] = b[i - 1]
    <2>1. \A i \in 0 .. n : c[i] = b[i]
      BY <1>2
    <2>2. c \in [0 .. n + 1 -> Nat] /\ c[n + 1] = z
      BY <1>2
    <2> HIDE DEF c
    <2>3. \A i \in 1 .. n : i \in 0 .. n /\ i - 1 \in 0 .. n
      BY <1>2
    <2> QED BY <1>2, <2>1, <2>2, <2>3
  <1> HIDE DEF c
  <1>5. ASSUME NEW i \in 1 .. n + 1 PROVE IsRun(r[i].text, c[i - 1], c[i])
    <2>1. CASE i \in 1 .. n
      BY <1>2, <1>3, <1>4, <2>1
    <2>2. CASE i = n + 1
      <3>1. c[i - 1] = y /\ c[i] = z /\ r[i] = e
        BY <1>2, <1>3, <1>4, <2>2
      <3> QED BY <3>1
    <2> QED BY <1>2, <2>1, <2>2
  <1>6. LaidBy(r, c, a, z)
    BY <1>3, <1>4, <1>5 DEF LaidBy
  <1> QED BY <1>6 DEF Laid, r

\* One item before the others.
LEMMA LaidPush ==
    ASSUME NEW q \in Seq(Item), NEW e \in Item, NEW a \in Nat, NEW y \in Nat, NEW z \in Nat,
           IsRun(e.text, a, y), Laid(q, y, z)
    PROVE  Laid(<<e>> \o q, a, z)
  <1>1. PICK b : LaidBy(q, b, y, z)
    BY DEF Laid
  <1> DEFINE n == Len(q)
             r == <<e>> \o q
             c == [i \in 0 .. n + 1 |-> IF i = 0 THEN a ELSE b[i - 1]]
  <1>2. /\ n \in Nat /\ b \in [0 .. n -> Nat] /\ b[0] = y /\ b[n] = z
        /\ \A i \in 1 .. n : IsRun(q[i].text, b[i - 1], b[i])
    BY <1>1 DEF LaidBy
  <1>3. /\ Len(r) = n + 1 /\ r[1] = e /\ \A i \in 2 .. n + 1 : r[i] = q[i - 1]
    OBVIOUS
  <1> HIDE DEF n, r
  <1>4. /\ c \in [0 .. n + 1 -> Nat] /\ c[0] = a /\ c[1] = y /\ c[n + 1] = z
        /\ \A i \in 1 .. n + 1 : c[i] = b[i - 1]
    BY <1>2
  <1> HIDE DEF c
  <1>5. ASSUME NEW i \in 1 .. n + 1 PROVE IsRun(r[i].text, c[i - 1], c[i])
    <2>1. CASE i = 1
      BY <1>3, <1>4, <2>1
    <2>2. CASE i \in 2 .. n + 1
      <3>1. i - 1 \in 1 .. n /\ i - 1 \in 1 .. n + 1
        BY <1>2, <2>2
      <3>2. r[i] = q[i - 1] /\ c[i] = b[i - 1] /\ c[i - 1] = b[(i - 1) - 1]
        BY <1>3, <1>4, <2>2, <3>1
      <3> QED BY <1>2, <3>1, <3>2
    <2> QED BY <1>2, <2>1, <2>2
  <1>6. LaidBy(r, c, a, z)
    BY <1>3, <1>4, <1>5 DEF LaidBy
  <1> QED BY <1>6 DEF Laid, r

\* The first item, and those after it.
LEMMA LaidHead ==
    ASSUME NEW q \in Seq(Item), NEW a \in Nat, NEW z \in Nat, q # <<>>, Laid(q, a, z)
    PROVE  \E y \in Nat : IsRun(Head(q).text, a, y) /\ Laid(Tail(q), y, z)
  <1>1. PICK b : LaidBy(q, b, a, z)
    BY DEF Laid
  <1> DEFINE n == Len(q)
             r == Tail(q)
             c == [i \in 0 .. n - 1 |-> b[i + 1]]
  <1>2. /\ n \in Nat /\ n >= 1 /\ b \in [0 .. n -> Nat] /\ b[0] = a /\ b[n] = z
        /\ \A i \in 1 .. n : IsRun(q[i].text, b[i - 1], b[i])
    BY <1>1 DEF LaidBy
  <1>3. /\ Len(r) = n - 1 /\ Head(q) = q[1] /\ \A i \in 1 .. n - 1 : r[i] = q[i + 1]
    OBVIOUS
  <1> HIDE DEF n, r
  <1>4. /\ c \in [0 .. n - 1 -> Nat] /\ c[0] = b[1] /\ c[n - 1] = z
        /\ \A i \in 0 .. n - 1 : c[i] = b[i + 1]
    BY <1>2
  <1> HIDE DEF c
  <1>5. ASSUME NEW i \in 1 .. n - 1 PROVE IsRun(r[i].text, c[i - 1], c[i])
    <2>1. i + 1 \in 1 .. n /\ i \in 0 .. n - 1 /\ i - 1 \in 0 .. n - 1 /\ (i + 1) - 1 = i
      BY <1>2
    <2>2. r[i] = q[i + 1] /\ c[i] = b[i + 1] /\ c[i - 1] = b[i]
      BY <1>3, <1>4, <2>1
    <2> QED BY <1>2, <2>1, <2>2
  <1>6. LaidBy(r, c, b[1], z)
    BY <1>3, <1>4, <1>5 DEF LaidBy
  <1>7. b[1] \in Nat /\ IsRun(Head(q).text, a, b[1])
    BY <1>2, <1>3
  <1> QED BY <1>6, <1>7 DEF Laid, r

\* The runs go up, and leave nothing out.
LEMMA LaidUp ==
    ASSUME NEW q \in Seq(Item), NEW a \in Nat, NEW z \in Nat, Laid(q, a, z)
    PROVE  a <= z
  <1>1. PICK b : LaidBy(q, b, a, z)
    BY DEF Laid
  <1> DEFINE n == Len(q)
             T == {i \in 0 .. n : b[i] < a}
  <1>2. /\ n \in Nat /\ b \in [0 .. n -> Nat] /\ b[0] = a /\ b[n] = z
        /\ \A i \in 1 .. n : b[i - 1] <= b[i]
    <2>1. /\ n \in Nat /\ b \in [0 .. n -> Nat] /\ b[0] = a /\ b[n] = z
          /\ \A i \in 1 .. n : IsRun(q[i].text, b[i - 1], b[i])
      BY <1>1 DEF LaidBy
    <2> HIDE DEF n
    <2>2. \A i \in 1 .. n : b[i - 1] <= b[i]
      BY <2>1 DEF IsRun
    <2> QED BY <2>1, <2>2
  <1> HIDE DEF n
  <1>3. ASSUME T # {} PROVE FALSE
    <2>1. T \in SUBSET Nat
      BY <1>2
    <2>2. PICK i \in T : \A j \in T : i <= j
      <3> HIDE DEF T
      <3> QED BY <1>3, <2>1, Least
    <2>3. i \in 0 .. n /\ b[i] < a /\ i # 0
      BY <1>2, <2>2
    <2>4. i \in 1 .. n /\ i - 1 \in 0 .. n /\ i - 1 \notin T
      BY <1>2, <2>2, <2>3
    <2>5. b[i - 1] \in Nat /\ b[i] \in Nat /\ ~(b[i - 1] < a) /\ b[i - 1] <= b[i]
      BY <1>2, <2>3, <2>4
    <2> QED BY <2>3, <2>5
  <1>4. n \in 0 .. n /\ n \notin T
    <2>1. n \notin T
      <3> HIDE DEF T
      <3> QED BY <1>3
    <2> QED BY <1>2, <2>1
  <1>5. b[n] \in Nat /\ ~(b[n] < a)
    BY <1>2, <1>4
  <1> QED BY <1>2, <1>5

\* Every character between the ends of the row is in an item.
LEMMA LaidCovers ==
    ASSUME NEW q \in Seq(Item), NEW a \in Nat, NEW z \in Nat, Laid(q, a, z),
           NEW k \in a + 1 .. z
    PROVE  \E e \in Elements(q) : k \in Elements(e.text)
  <1>1. PICK b : LaidBy(q, b, a, z)
    BY DEF Laid
  <1> DEFINE n == Len(q)
             T == {i \in 0 .. n : k <= b[i]}
  <1>2. /\ n \in Nat /\ b \in [0 .. n -> Nat] /\ b[0] = a /\ b[n] = z
        /\ \A i \in 1 .. n : IsRun(q[i].text, b[i - 1], b[i])
        /\ DOMAIN q = 1 .. n
    BY <1>1 DEF LaidBy
  <1> HIDE DEF n
  <1>3. T \in SUBSET Nat /\ n \in T
    BY <1>2
  <1>4. PICK i \in T : \A j \in T : i <= j
    <2> HIDE DEF T
    <2> QED BY <1>3, Least
  <1>5. i \in 0 .. n /\ k <= b[i] /\ i # 0
    BY <1>2, <1>4
  <1>6. i \in 1 .. n /\ i - 1 \in 0 .. n /\ i - 1 \notin T
    BY <1>2, <1>4, <1>5
  <1>7. b[i - 1] \in Nat /\ b[i] \in Nat /\ b[i - 1] < k /\ k <= b[i]
    BY <1>2, <1>5, <1>6
  <1>8. Elements(q[i].text) = b[i - 1] + 1 .. b[i]
    BY <1>2, <1>6, <1>7, RunIs
  <1>9. k \in Elements(q[i].text)
    BY <1>7, <1>8
  <1>10. q[i] \in Elements(q)
    BY <1>2, <1>6 DEF Elements
  <1> QED BY <1>9, <1>10

\* What is queued is laid after the rest, joined or not.
LEMMA LaidAdd ==
    ASSUME NEW q \in Seq(Item), NEW e \in Item, NEW a \in Nat, NEW y \in Nat, NEW z \in Nat,
           Laid(q, a, y), IsRun(e.text, y, z)
    PROVE  Laid(AddPending(q, e), a, z)
  <1>1. CASE e.brk \/ q = <<>> \/ q[Len(q)].brk
    <2>1. AddPending(q, e) = Append(q, e)
      BY <1>1 DEF AddPending
    <2> QED BY <2>1, LaidAppend
  <1>2. CASE ~(e.brk \/ q = <<>> \/ q[Len(q)].brk)
    <2>1. PICK b : LaidBy(q, b, a, y)
      BY DEF Laid
    <2> DEFINE n == Len(q)
               u == [q[n] EXCEPT !.text = @ \o e.text]
               r == [q EXCEPT ![n] = u]
               c == [b EXCEPT ![n] = z]
    <2>2. /\ n \in Nat /\ n >= 1 /\ b \in [0 .. n -> Nat] /\ b[0] = a /\ b[n] = y
          /\ \A i \in 1 .. n : IsRun(q[i].text, b[i - 1], b[i])
          /\ q[n] \in Item
      BY <1>2, <2>1 DEF LaidBy
    <2>3. AddPending(q, e) = r
      BY <1>2 DEF AddPending
    <2>4. u.text = q[n].text \o e.text
      BY <2>2 DEF Item
    <2> HIDE DEF u
    <2>5. Len(r) = n /\ r[n] = u /\ \A i \in 1 .. n - 1 : r[i] = q[i]
      BY <2>2
    <2> HIDE DEF n, r
    <2>6. /\ c \in [0 .. n -> Nat] /\ c[0] = a /\ c[n] = z
          /\ \A i \in 0 .. n - 1 : c[i] = b[i]
      BY <2>2
    <2> HIDE DEF c
    <2>7. ASSUME NEW i \in 1 .. n PROVE IsRun(r[i].text, c[i - 1], c[i])
      <3>1. CASE i = n
        <4>1. b[n - 1] \in Nat /\ IsRun(q[n].text, b[n - 1], y) /\ c[n - 1] = b[n - 1]
          BY <2>2, <2>6
        <4>2. IsRun(u.text, b[n - 1], z)
          BY <2>4, <4>1, RunJoin
        <4> QED BY <2>5, <2>6, <3>1, <4>1, <4>2
      <3>2. CASE i # n
        <4>1. i \in 1 .. n - 1 /\ i \in 0 .. n - 1 /\ i - 1 \in 0 .. n - 1
          BY <2>2, <3>2
        <4>2. r[i] = q[i] /\ c[i] = b[i] /\ c[i - 1] = b[i - 1]
          BY <2>5, <2>6, <4>1
        <4> QED BY <2>2, <4>2
      <3> QED BY <3>1, <3>2
    <2>8. LaidBy(r, c, a, z)
      BY <2>5, <2>6, <2>7 DEF LaidBy
    <2> QED BY <2>3, <2>8 DEF Laid
  <1> QED BY <1>1, <1>2

\* What goes into a packet comes first, and the rest stays.
LEMMA LaidSend ==
    ASSUME NEW q \in Seq(Item), NEW a \in Nat, NEW z \in Nat, q # <<>>, Laid(q, a, z)
    PROVE  \E y \in Nat : /\ IsRun(Chunk(q).text, a, y) /\ Laid(Rest(q), y, z)
                          /\ a <= y /\ y <= z
  <1>1. PICK y \in Nat : IsRun(Head(q).text, a, y) /\ Laid(Tail(q), y, z)
    BY LaidHead
  <1> DEFINE t == Head(q).text
             n == Len(t)
  <1>2. t \in Seq(Nat) /\ n = y - a /\ a <= y /\ Tail(q) \in Seq(Item) /\ n \in Nat
    BY <1>1, RunIs DEF IsRun
  <1>3. y <= z
    BY <1>1, <1>2, LaidUp
  <1>4. CASE n > MaxOut
    <2> DEFINE e == Text(SubSeq(t, MaxOut + 1, n))
    <2>1. MaxOut \in Nat /\ MaxOut <= n
      BY <1>2, <1>4, SolAssumption
    <2>2. IsRun(t, a, y) /\ n = Len(t)
      BY <1>1
    <2> HIDE DEF t, n
    <2>3. IsRun(SubSeq(t, 1, MaxOut), a, a + MaxOut)
      <3>1. IsRun(SubSeq(t, 0 + 1, MaxOut), a + 0, a + MaxOut)
        <4> DEFINE o == 0
        <4>1. o \in Nat /\ o <= MaxOut
          BY <2>1
        <4> HIDE DEF o
        <4>2. IsRun(SubSeq(t, o + 1, MaxOut), a + o, a + MaxOut)
          BY <2>1, <2>2, <4>1, RunCut
        <4> QED BY <4>2 DEF o
      <3>2. 0 + 1 = 1 /\ a + 0 = a
        OBVIOUS
      <3> QED BY <3>1, <3>2
    <2>4. IsRun(SubSeq(t, MaxOut + 1, n), a + MaxOut, a + n)
      BY <1>2, <2>1, <2>2, RunCut
    <2>5. a + n = y /\ a + MaxOut \in Nat /\ a <= a + MaxOut /\ a + MaxOut <= z
      BY <1>2, <1>3, <2>1
    <2>6. SubSeq(t, MaxOut + 1, n) \in Seq(Nat) /\ SubSeq(t, 1, MaxOut) \in Seq(Nat)
      BY <2>3, <2>4, <2>5, RunIs
    <2>7. e \in Item /\ e.text = SubSeq(t, MaxOut + 1, n)
      BY <2>6, Made
    <2>8. /\ Chunk(q) = Text(SubSeq(t, 1, MaxOut)) /\ Rest(q) = <<e>> \o Tail(q)
      BY <1>4 DEF Chunk, Rest, t, n
    <2>9. Chunk(q).text = SubSeq(t, 1, MaxOut)
      <3> DEFINE u == SubSeq(t, 1, MaxOut)
      <3>1. u \in Seq(Nat) /\ Chunk(q) = Text(u)
        BY <2>6, <2>8
      <3> HIDE DEF u
      <3>2. Text(u).text = u
        BY <3>1, Made
      <3>3. Chunk(q).text = u
        BY <3>1, <3>2
      <3> QED BY <3>3 DEF u
    <2> HIDE DEF e
    <2>10. Laid(<<e>> \o Tail(q), a + MaxOut, z)
      <3> DEFINE w == a + MaxOut
      <3>1. w \in Nat /\ IsRun(e.text, w, y)
        BY <2>4, <2>5, <2>7
      <3> HIDE DEF w
      <3>2. Laid(<<e>> \o Tail(q), w, z)
        BY <1>1, <1>2, <2>7, <3>1, LaidPush
      <3> QED BY <3>2 DEF w
    <2>11. IsRun(Chunk(q).text, a, a + MaxOut)
      BY <2>3, <2>9
    <2> QED BY <2>5, <2>8, <2>10, <2>11
  <1>5. CASE ~(n > MaxOut)
    <2>1. Chunk(q) = Head(q) /\ Rest(q) = Tail(q)
      BY <1>5 DEF Chunk, Rest
    <2> HIDE DEF t, n
    <2> QED BY <1>1, <1>2, <1>3, <2>1
  <1> QED BY <1>4, <1>5

\* A part that is queued again comes before everything else.
LEMMA LaidAgain ==
    ASSUME NEW q \in Seq(Item), NEW t \in Seq(Nat), NEW a \in Nat, NEW y \in Nat, NEW z \in Nat,
           IsRun(t, a, y), Laid(q, y, z)
    PROVE  /\ Laid(<<Text(t)>> \o q, a, z)
           /\ q # <<>> => Laid([q EXCEPT ![1].text = t \o @], a, z)
  <1>1. Laid(<<Text(t)>> \o q, a, z)
    <2>1. Text(t) \in Item /\ Text(t).text = t
      BY Made
    <2> QED BY <2>1, LaidPush
  <1>2. ASSUME q # <<>> PROVE Laid([q EXCEPT ![1].text = t \o @], a, z)
    <2>1. PICK x \in Nat : IsRun(Head(q).text, y, x) /\ Laid(Tail(q), x, z)
      BY <1>2, LaidHead
    <2> DEFINE e == [q[1] EXCEPT !.text = t \o @]
    <2>2. q[1] = Head(q) /\ q[1] \in Item /\ Tail(q) \in Seq(Item)
      BY <1>2
    <2>3. e \in Item
      BY <2>2, TextJoined
    <2>4. e.text = t \o q[1].text
      BY <2>2 DEF Item
    <2>5. [q EXCEPT ![1].text = t \o @] = [q EXCEPT ![1] = e]
      OBVIOUS
    <2> HIDE DEF e
    <2>6. [q EXCEPT ![1] = e] = <<e>> \o Tail(q)
      BY <1>2, <2>3
    <2>7. IsRun(e.text, a, x)
      BY <2>1, <2>2, <2>4, RunJoin
    <2>8. Laid(<<e>> \o Tail(q), a, z)
      BY <2>1, <2>2, <2>3, <2>7, LaidPush
    <2> QED BY <2>5, <2>6, <2>8
  <1> QED BY <1>1, <1>2

-----------------------------------------------------------------------------
(* The order in which text is shown.                                         *)

\* No character comes before an earlier one has.
Ordered(t) == \A i \in DOMAIN t : 1 .. t[i] \subseteq Elements(SubSeq(t, 1, i))

\* The first members of a list.
LEMMA ElementsFirst ==
    ASSUME NEW t \in Seq(Nat), NEW i \in 0 .. Len(t)
    PROVE  Elements(SubSeq(t, 1, i)) = {t[k] : k \in 1 .. i}
  <1> DEFINE u == SubSeq(t, 1, i)
  <1>1. DOMAIN u = 1 .. i /\ \A k \in 1 .. i : u[k] = t[k]
    OBVIOUS
  <1> HIDE DEF u
  <1>2. Elements(u) = {t[k] : k \in 1 .. i}
    BY <1>1 DEF Elements
  <1> QED BY <1>2 DEF u

\* A run may be shown once everything before it was.
LEMMA OrderGrows ==
    ASSUME NEW t \in Seq(Nat), Ordered(t), NEW x \in Nat, NEW y \in Nat, NEW u,
           IsRun(u, x, y), 1 .. x \subseteq Elements(t)
    PROVE  Ordered(t \o u) /\ Elements(t \o u) = Elements(t) \cup x + 1 .. y
  <1>1. /\ u \in Seq(Nat) /\ Len(u) = y - x /\ \A i \in 1 .. y - x : u[i] = x + i
        /\ Elements(u) = x + 1 .. y
    BY RunIs
  <1> DEFINE v == t \o u
             n == Len(t)
  <1>2. Elements(v) = Elements(t) \cup x + 1 .. y
    BY <1>1, ElementsJoined
  <1>3. /\ n \in Nat /\ v \in Seq(Nat) /\ Len(v) = n + (y - x) /\ DOMAIN v = 1 .. Len(v)
        /\ DOMAIN t = 1 .. n
        /\ \A i \in 1 .. n : v[i] = t[i]
        /\ \A i \in 1 .. y - x : v[n + i] = u[i]
    <2>1. /\ n \in Nat /\ v \in Seq(Nat) /\ Len(v) = n + Len(u) /\ DOMAIN v = 1 .. Len(v)
          /\ DOMAIN t = 1 .. n
          /\ \A i \in 1 .. n : v[i] = t[i]
          /\ \A i \in 1 .. Len(u) : v[n + i] = u[i]
      <3>1. u \in Seq(Nat)
        BY <1>1
      <3>2. /\ n \in Nat /\ v \in Seq(Nat) /\ Len(v) = n + Len(u) /\ DOMAIN v = 1 .. Len(v)
            /\ DOMAIN t = 1 .. n
        BY <3>1
      <3>3. \A i \in 1 .. n : v[i] = t[i]
        BY <3>1
      <3>4. \A i \in 1 .. Len(u) : v[n + i] = u[i]
        BY <3>1
      <3> QED BY <3>2, <3>3, <3>4
    <2> HIDE DEF v, n
    <2> QED BY <1>1, <2>1
  <1> HIDE DEF v, n
  <1>4. ASSUME NEW i \in 1 .. n PROVE 1 .. v[i] \subseteq Elements(SubSeq(v, 1, i))
    <2>1. 1 .. t[i] \subseteq Elements(SubSeq(t, 1, i)) /\ v[i] = t[i]
      BY <1>3 DEF Ordered
    <2>2. Elements(SubSeq(t, 1, i)) = {t[k] : k \in 1 .. i}
      <3>1. i \in 0 .. n /\ n = Len(t)
        BY <1>3 DEF n
      <3> QED BY <3>1, ElementsFirst
    <2>3. i \in 0 .. Len(v)
      BY <1>1, <1>3
    <2>4. Elements(SubSeq(v, 1, i)) = {v[k] : k \in 1 .. i}
      BY <1>3, <2>3, ElementsFirst
    <2>5. {t[k] : k \in 1 .. i} = {v[k] : k \in 1 .. i}
      BY <1>3
    <2> QED BY <2>1, <2>2, <2>4, <2>5
  <1>5. ASSUME NEW i \in 1 .. y - x
        PROVE  1 .. v[n + i] \subseteq Elements(SubSeq(v, 1, n + i))
    <2>1. v[n + i] = x + i
      BY <1>1, <1>3
    <2>2. n + i \in 0 .. Len(v)
      BY <1>3
    <2>3. Elements(SubSeq(v, 1, n + i)) = {v[k] : k \in 1 .. n + i}
      BY <1>3, <2>2, ElementsFirst
    <2>4. ASSUME NEW c \in 1 .. x + i PROVE c \in {v[k] : k \in 1 .. n + i}
      <3>1. CASE c <= x
        <4>1. c \in Elements(t)
          BY <3>1
        <4>2. PICK k \in 1 .. n : c = t[k]
          BY <1>3, <4>1 DEF Elements
        <4>3. k \in 1 .. n + i /\ v[k] = c
          BY <1>3, <4>2
        <4> QED BY <4>3
      <3>2. CASE ~(c <= x)
        <4>1. c - x \in 1 .. y - x /\ n + (c - x) \in 1 .. n + i /\ x + (c - x) = c
          <5>1. i \in Nat /\ c \in Nat /\ i <= y - x /\ c <= x + i /\ x < c /\ n \in Nat
            BY <1>3, <3>2
          <5> QED BY <5>1
        <4>2. v[n + (c - x)] = c
          BY <1>1, <1>3, <4>1
        <4> QED BY <4>1, <4>2
      <3> QED BY <3>1, <3>2
    <2> QED BY <2>1, <2>3, <2>4
  <1>6. ASSUME NEW i \in DOMAIN v PROVE 1 .. v[i] \subseteq Elements(SubSeq(v, 1, i))
    <2>1. CASE i \in 1 .. n
      BY <1>4, <2>1
    <2>2. CASE i \notin 1 .. n
      <3>1. i - n \in 1 .. y - x /\ n + (i - n) = i
        <4>1. i \in 1 .. n + (y - x) /\ n \in Nat /\ i \notin 1 .. n
          BY <1>3, <2>2
        <4> QED BY <4>1
      <3>2. 1 .. v[n + (i - n)] \subseteq Elements(SubSeq(v, 1, n + (i - n)))
        BY <1>5, <3>1
      <3> QED BY <3>1, <3>2
    <2> QED BY <2>1, <2>2
  <1>7. Ordered(v)
    BY <1>6 DEF Ordered
  <1> QED BY <1>2, <1>7 DEF v

-----------------------------------------------------------------------------
(* The text of an end on its way to the other.                               *)

\* What the other end of s has shown, the packets of s that it may still get
\* and the acknowledgements that s may.
ShownAt(s) == Elements(shown[Peer(s)])
OnWire(s) == {m \in Elements(net[Peer(s)]) : m.seq # 0}
Resent(s) == {l.payload : l \in loops[s]}
Data(s) == {last[s]} \cup Resent(s) \cup OnWire(s)
AcksTo(s) == {m \in Elements(net[s]) : m.ack # 0}

\* A packet carries text or an acknowledgement.
Kinds(s) ==
    /\ last[s].ack = 0 /\ \A p \in Resent(s) : p.ack = 0
    /\ \A m \in Elements(net[s]) : m.seq = 0 \/ m.ack = 0

\* A packet carries a run, and what was typed before was shown before.
Runs(s) ==
    \A p \in Data(s) : \E x, y \in Nat :
        /\ IsRun(p.text, x, y) /\ y <= typed[s]
        /\ 1 .. x \subseteq ShownAt(s)

\* A number tells the packet.
Unique(s) == \A p, q \in Data(s) : p.seq # 0 /\ p.seq = q.seq => p = q
Current(s) == last[s].seq = myseq[s]

\* The other end has shown what it says it has of the packet it received last;
\* only firmware takes a part.
PartTaker(r) == r = "bmc" /\ Firmware
Received(s) ==
    \A p \in Data(s) : p.seq # 0 /\ p.seq = remseq[Peer(s)] =>
        /\ lastsize[Peer(s)] <= Len(p.text)
        /\ \A i \in 1 .. lastsize[Peer(s)] : p.text[i] \in ShownAt(s)
        /\ ~PartTaker(Peer(s)) => lastsize[Peer(s)] = Len(p.text)

\* What was acknowledged was shown.
Answered(s) ==
    \A m \in AcksTo(s) : m.ack = myseq[s] /\ ~(m.nack /\ m.off) =>
        /\ m.nack => m.count < Len(last[s].text)
        /\ \A i \in DOMAIN last[s].text :
              ~m.nack \/ i <= m.count => last[s].text[i] \in ShownAt(s)

\* What is on its way, and the order of what was shown.
Wire(s) ==
    /\ Runs(s) /\ Unique(s) /\ Current(s) /\ Received(s) /\ Answered(s)
    /\ Ordered(shown[Peer(s)])

\* The last packet and what waits are what was typed; what was typed before the
\* last packet was shown, and its text too unless it is awaited.
PlacedBy(s, w, x) ==
    /\ IsRun(last[s].text, w, x) /\ Laid(pending[s], x, typed[s])
    /\ 1 .. w \subseteq ShownAt(s)
    /\ ~awaiting[s] => 1 .. x \subseteq ShownAt(s)
Placed(s) == phase[s] # "broken" => \E w, x \in Nat : PlacedBy(s, w, x)

\* The text of both ends is where it should be.
TextInv == ArmedInv /\ \A s \in Side : Kinds(s) /\ Wire(s) /\ Placed(s)

\* The types of these.
LEMMA DataTypes ==
    ASSUME TypeOK, NEW s \in Side
    PROVE  /\ Data(s) \subseteq Packet /\ AcksTo(s) \subseteq Packet
           /\ last[s] \in Data(s) /\ last[s] \in Packet
           /\ typed[s] \in Nat /\ myseq[s] \in 0 .. SeqMax
           /\ shown[Peer(s)] \in Seq(Nat) /\ Peer(s) \in Side
           /\ remseq[Peer(s)] \in 0 .. SeqMax /\ lastsize[Peer(s)] \in Nat
           /\ pending[s] \in Seq(Item) /\ awaiting[s] \in BOOLEAN
  <1>1. /\ net \in [Side -> Seq(Packet)] /\ last \in [Side -> Packet]
        /\ loops \in [Side -> SUBSET [payload : Packet, retries : 1 .. Retries]]
        /\ shown \in [Side -> Seq(Nat)] /\ remseq \in [Side -> 0 .. SeqMax]
        /\ lastsize \in [Side -> Nat] /\ typed \in [Side -> Nat]
        /\ myseq \in [Side -> 0 .. SeqMax] /\ pending \in [Side -> Seq(Item)]
        /\ awaiting \in [Side -> BOOLEAN] /\ Peer(s) \in Side
    BY Sides DEF TypeOK
  <1>2. \A r \in Side : Elements(net[r]) \subseteq Packet
    <2>1. ASSUME NEW q \in Seq(Packet) PROVE Elements(q) \subseteq Packet
      BY DEF Elements
    <2> QED BY <1>1, <2>1
  <1>3. Resent(s) \subseteq Packet
    BY <1>1 DEF Resent
  <1>4. OnWire(s) \subseteq Packet /\ AcksTo(s) \subseteq Packet
    BY <1>1, <1>2 DEF OnWire, AcksTo
  <1>5. Data(s) \subseteq Packet /\ last[s] \in Data(s) /\ last[s] \in Packet
    BY <1>1, <1>3, <1>4 DEF Data
  <1> QED BY <1>1, <1>4, <1>5

\* Losses, repetitions and input do not harm what is on its way.
LEMMA WireStill ==
    ASSUME TypeOK, NEW s \in Side, Wire(s),
           Data(s)' \subseteq Data(s), AcksTo(s)' \subseteq AcksTo(s),
           last'[s] = last[s], myseq'[s] = myseq[s], shown'[Peer(s)] = shown[Peer(s)],
           remseq'[Peer(s)] = remseq[Peer(s)], lastsize'[Peer(s)] = lastsize[Peer(s)],
           typed'[s] \in Nat, typed[s] <= typed'[s]
    PROVE  Wire(s)'
  <1>1. ShownAt(s)' = ShownAt(s) /\ typed[s] \in Nat
    BY DataTypes DEF ShownAt
  <1>2. Runs(s)'
    <2>1. ASSUME NEW d \in Data(s)
          PROVE  \E u, v \in Nat : /\ IsRun(d.text, u, v) /\ v <= typed'[s]
                                   /\ 1 .. u \subseteq ShownAt(s)
      <3>1. PICK u \in Nat, v \in Nat : /\ IsRun(d.text, u, v) /\ v <= typed[s]
                                        /\ 1 .. u \subseteq ShownAt(s)
        BY DEF Wire, Runs
      <3>2. v <= typed'[s]
        BY <1>1, <3>1
      <3> QED BY <3>1, <3>2
    <2> QED BY <1>1, <2>1 DEF Runs
  <1>3. Unique(s)'
    BY DEF Wire, Unique
  <1>4. Current(s)'
    BY DEF Wire, Current
  <1>5. Received(s)'
    BY <1>1 DEF Wire, Received
  <1>6. Answered(s)'
    BY <1>1 DEF Wire, Answered
  <1> QED BY <1>2, <1>3, <1>4, <1>5, <1>6 DEF Wire

\* A new packet is a run after what was shown and has a number that is free.
LEMMA WireSend ==
    ASSUME TypeOK, NEW s \in Side, Wire(s), NEW p, p.seq # 0,
           Data(s)' \subseteq {p} \cup Resent(s) \cup OnWire(s),
           AcksTo(s)' \subseteq AcksTo(s), NumberFree(s, p.seq),
           last'[s] = p, myseq'[s] = p.seq, shown'[Peer(s)] = shown[Peer(s)],
           remseq'[Peer(s)] = remseq[Peer(s)], lastsize'[Peer(s)] = lastsize[Peer(s)],
           typed'[s] \in Nat, typed[s] <= typed'[s],
           NEW x \in Nat, NEW y \in Nat, IsRun(p.text, x, y), y <= typed'[s],
           1 .. x \subseteq ShownAt(s)
    PROVE  Wire(s)'
  <1>1. ShownAt(s)' = ShownAt(s) /\ typed[s] \in Nat
    BY DataTypes DEF ShownAt
  <1>2. \A d \in Data(s)' : d = p \/ (d \in Data(s) /\ d.seq # p.seq)
    BY DEF NumberFree, Data, Resent, OnWire
  <1>3. Runs(s)'
    <2>1. ASSUME NEW d \in Data(s)
          PROVE  \E u, v \in Nat : /\ IsRun(d.text, u, v) /\ v <= typed'[s]
                                   /\ 1 .. u \subseteq ShownAt(s)
      <3>1. PICK u \in Nat, v \in Nat : /\ IsRun(d.text, u, v) /\ v <= typed[s]
                                        /\ 1 .. u \subseteq ShownAt(s)
        BY DEF Wire, Runs
      <3>2. v <= typed'[s]
        BY <1>1, <3>1
      <3> QED BY <3>1, <3>2
    <2> QED BY <1>1, <1>2, <2>1 DEF Runs
  <1>4. Unique(s)'
    BY <1>2 DEF Wire, Unique
  <1>5. Current(s)'
    BY DEF Current
  <1>6. Received(s)'
    <2>1. remseq'[Peer(s)] # p.seq
      BY DEF NumberFree
    <2> QED BY <1>1, <1>2, <2>1 DEF Wire, Received
  <1>7. Answered(s)'
    <2>1. \A m \in AcksTo(s) : m.ack # p.seq
      BY DEF AcksTo, NumberFree
    <2> QED BY <2>1 DEF Answered
  <1> QED BY <1>3, <1>4, <1>5, <1>6, <1>7 DEF Wire

\* What the other end takes of a packet: after j characters that were shown it
\* shows the others up to k, and says so.
TakesUpTo(s, m, d, j, k) ==
    /\ j <= k /\ k <= Len(m.text)
    /\ shown' = [shown EXCEPT ![Peer(s)] = @ \o SubSeq(m.text, j + 1, k)]
    /\ remseq' = [remseq EXCEPT ![Peer(s)] = m.seq]
    /\ lastsize' = [lastsize EXCEPT ![Peer(s)] = k]
    /\ \A i \in 1 .. j : m.text[i] \in ShownAt(s)
    /\ ~PartTaker(Peer(s)) => k = Len(m.text)
    /\ \A a \in Elements(d) : a.ack = m.seq
    /\ \A a \in Elements(d) :
          a.nack => a.off \/ (a.count = k /\ k < Len(m.text))
    /\ \A a \in Elements(d) : ~a.nack => k = Len(m.text)

\* All of a packet, what exceeds a retry, or the part that firmware takes.
LEMMA TookParts ==
    ASSUME TypeOK, NEW s \in Side, Received(s), NEW m \in Data(s), m.seq # 0,
           NEW d, Took(Peer(s), m, d)
    PROVE  \E j, k \in Nat : TakesUpTo(s, m, d, j, k)
  <1> DEFINE r == Peer(s)
             t == m.text
             n == Len(t)
             h == lastsize[r]
  <1>1. /\ m \in Packet /\ t \in Seq(Nat) /\ n \in Nat /\ m.seq \in 0 .. SeqMax
        /\ r \in Side /\ h \in Nat /\ shown \in [Side -> Seq(Nat)]
    BY DataTypes, PacketParts DEF TypeOK
  <1>2. m.seq = remseq[r] => /\ h <= n /\ \A i \in 1 .. h : t[i] \in ShownAt(s)
                             /\ ~PartTaker(r) => h = n
    BY DEF Received
  <1> HIDE DEF r, t, n, h
  <1>3. SubSeq(t, n + 1, n) = <<>> /\ SubSeq(t, 1, n) = t
    BY <1>1 DEF n
  <1>4. ASSUME TakeData(r, m), NEW b \in BOOLEAN, d = <<Ack(m.seq, n, b, b)>>
        PROVE  \E j, k \in Nat : TakesUpTo(s, m, d, j, k)
    <2>1. Elements(d) = {Ack(m.seq, n, b, b)}
      BY <1>4, ElementsOne
    <2>2. /\ Ack(m.seq, n, b, b).nack = b /\ Ack(m.seq, n, b, b).off = b
          /\ Ack(m.seq, n, b, b).ack = m.seq
      BY DEF Ack
    <2>3. \A a \in Elements(d) : a.ack = m.seq /\ (a.nack => a.off)
      BY <2>1, <2>2
    <2>4. ASSUME NEW j \in Nat, j <= n, NewText(r, m) = SubSeq(t, j + 1, n),
                 \A i \in 1 .. j : t[i] \in ShownAt(s)
          PROVE  \E i, k \in Nat : TakesUpTo(s, m, d, i, k)
      <3>1. /\ remseq' = [remseq EXCEPT ![r] = m.seq]
            /\ lastsize' = [lastsize EXCEPT ![r] = n]
            /\ shown' = [shown EXCEPT ![r] = @ \o SubSeq(t, j + 1, n)]
        BY <1>4, <2>4 DEF TakeData, n, t
      <3>2. TakesUpTo(s, m, d, j, n)
        <4>1. /\ j <= n /\ n <= n /\ \A i \in 1 .. j : t[i] \in ShownAt(s)
              /\ \A a \in Elements(d) : a.ack = m.seq /\ (a.nack => a.off)
          BY <1>1, <2>3, <2>4
        <4> QED BY <3>1, <4>1 DEF TakesUpTo, r, t, n
      <3> QED BY <1>1, <3>2
    <2>5. CASE m.seq # remseq[r]
      <3>1. NewText(r, m) = t
        BY <2>5 DEF NewText, t
      <3> DEFINE j == 0
      <3>2. j \in Nat /\ j <= n /\ SubSeq(t, j + 1, n) = t /\ \A i \in 1 .. j : t[i] \in ShownAt(s)
        BY <1>1, <1>3
      <3> HIDE DEF j
      <3> QED BY <2>4, <3>1, <3>2
    <2>6. CASE m.seq = remseq[r] /\ ~(n > h)
      <3>1. NewText(r, m) = <<>> /\ h = n
        BY <1>1, <1>2, <2>6 DEF NewText, n, t, h
      <3> QED BY <1>1, <1>2, <1>3, <2>4, <2>6, <3>1
    <2>7. CASE m.seq = remseq[r] /\ n > h
      <3>1. PartTaker(r)
        BY <1>1, <1>2, <2>7
      <3>2. Skipped(r) = 0
        BY <3>1, Zenon DEF Skipped, PartTaker
      <3>3. NewText(r, m) = SubSeq(t, 0 + h + 1, n)
        <4>1. NewText(r, m) = SubSeq(t, Skipped(r) + h + 1, n)
          <5>1. m.seq = remseq[r] /\ Len(m.text) > lastsize[r]
            BY <2>7 DEF n, t, h
          <5>2. NewText(r, m) = SubSeq(m.text, Skipped(r) + lastsize[r] + 1, Len(m.text))
            BY <5>1 DEF NewText
          <5> QED BY <5>2 DEF n, t, h
        <4> QED BY <3>2, <4>1
      <3>4. 0 + h + 1 = h + 1
        BY <1>1
      <3>5. NewText(r, m) = SubSeq(t, h + 1, n)
        BY <3>3, <3>4
      <3> QED BY <1>1, <1>2, <2>4, <2>7, <3>5
    <2> QED BY <2>5, <2>6, <2>7
  <1>5. ASSUME NEW k \in 0 .. (n - 1), TakePart(r, m, k), d = <<Ack(m.seq, k, TRUE, FALSE)>>
        PROVE  \E j, i \in Nat : TakesUpTo(s, m, d, j, i)
    <2> DEFINE j == IF m.seq = remseq[r] THEN h ELSE 0
    <2>1. /\ j <= k /\ PartTaker(r)
          /\ remseq' = [remseq EXCEPT ![r] = m.seq]
          /\ lastsize' = [lastsize EXCEPT ![r] = k]
          /\ shown' = [shown EXCEPT ![r] = @ \o SubSeq(t, j + 1, k)]
      BY <1>5 DEF TakePart, PartTaker, t, h
    <2>2. j \in Nat /\ k \in Nat /\ k <= n /\ k < n
      BY <1>1
    <2>3. \A i \in 1 .. j : t[i] \in ShownAt(s)
      BY <1>2
    <2>4. Elements(d) = {Ack(m.seq, k, TRUE, FALSE)}
      BY <1>5, ElementsOne
    <2>5. /\ Ack(m.seq, k, TRUE, FALSE).nack /\ Ack(m.seq, k, TRUE, FALSE).count = k
          /\ Ack(m.seq, k, TRUE, FALSE).ack = m.seq
      BY DEF Ack
    <2> HIDE DEF j
    <2>6. TakesUpTo(s, m, d, j, k)
      BY <2>1, <2>2, <2>3, <2>4, <2>5 DEF TakesUpTo, r, t, n
    <2> QED BY <2>2, <2>6
  <1>6. CASE TakeData(r, m) /\ \E b \in BOOLEAN : d = <<Ack(m.seq, Len(m.text), b, b)>>
    BY <1>4, <1>6 DEF n, t
  <1>7. CASE \E k \in 0 .. (Len(m.text) - 1) :
                TakePart(r, m, k) /\ d = <<Ack(m.seq, k, TRUE, FALSE)>>
    BY <1>5, <1>7 DEF n, t
  <1> QED BY <1>6, <1>7 DEF Took, r

\* What the other end takes of a packet it shows in order, and acknowledges.
LEMMA WireData ==
    ASSUME TypeOK, NEW s \in Side, Wire(s), NEW m \in Data(s), m.seq # 0,
           NEW d, Took(Peer(s), m, d),
           Data(s)' \subseteq Data(s), AcksTo(s)' \subseteq AcksTo(s) \cup Elements(d),
           last'[s] = last[s], myseq'[s] = myseq[s], typed'[s] = typed[s]
    PROVE  Wire(s)' /\ ShownAt(s) \subseteq ShownAt(s)'
  <1> DEFINE r == Peer(s)
             t == m.text
             n == Len(t)
  <1>1. PICK j \in Nat, k \in Nat : TakesUpTo(s, m, d, j, k)
    BY TookParts DEF Wire
  <1>2. /\ j <= k /\ k <= n
        /\ shown' = [shown EXCEPT ![r] = @ \o SubSeq(t, j + 1, k)]
        /\ remseq' = [remseq EXCEPT ![r] = m.seq]
        /\ lastsize' = [lastsize EXCEPT ![r] = k]
        /\ \A i \in 1 .. j : t[i] \in ShownAt(s)
        /\ ~PartTaker(r) => k = n
        /\ \A a \in Elements(d) : a.ack = m.seq
        /\ \A a \in Elements(d) : a.nack => a.off \/ (a.count = k /\ k < n)
        /\ \A a \in Elements(d) : ~a.nack => k = n
    BY <1>1 DEF TakesUpTo
  <1>3. PICK x \in Nat, y \in Nat : IsRun(t, x, y) /\ 1 .. x \subseteq ShownAt(s)
    BY DEF Wire, Runs
  <1>4. /\ r \in Side /\ shown[r] \in Seq(Nat) /\ shown \in [Side -> Seq(Nat)]
        /\ remseq \in [Side -> 0 .. SeqMax] /\ lastsize \in [Side -> Nat]
    BY DataTypes DEF TypeOK
  <1>5. ShownAt(s) = Elements(shown[r]) /\ ShownAt(s)' = Elements(shown'[r])
    BY DEF ShownAt
  <1>6. /\ t \in Seq(Nat) /\ n = y - x /\ DOMAIN t = 1 .. n
        /\ \A i \in 1 .. n : t[i] = x + i
    BY <1>3, RunIs
  <1> HIDE DEF r, t, n
  <1>7. IsRun(SubSeq(t, j + 1, k), x + j, x + k)
    BY <1>2, <1>3, RunCut DEF n
  <1>8. 1 .. x + j \subseteq Elements(shown[r])
    <2>1. ASSUME NEW c \in 1 .. x + j PROVE c \in Elements(shown[r])
      <3>1. CASE c <= x
        BY <1>3, <1>5, <3>1
      <3>2. CASE ~(c <= x)
        <4>1. c - x \in 1 .. j /\ c - x \in 1 .. n /\ x + (c - x) = c
          BY <1>2, <1>6, <3>2
        <4> QED BY <1>2, <1>5, <1>6, <4>1
      <3> QED BY <3>1, <3>2
    <2> QED BY <2>1
  <1>9. /\ Ordered(shown[r] \o SubSeq(t, j + 1, k))
        /\ Elements(shown[r] \o SubSeq(t, j + 1, k)) =
              Elements(shown[r]) \cup (x + j) + 1 .. x + k
    <2> DEFINE a == x + j
               b == x + k
               u == SubSeq(t, j + 1, k)
    <2>1. a \in Nat /\ b \in Nat /\ IsRun(u, a, b) /\ 1 .. a \subseteq Elements(shown[r])
      BY <1>7, <1>8
    <2>2. Ordered(shown[r])
      BY DEF Wire, r
    <2> HIDE DEF a, b, u
    <2>3. Ordered(shown[r] \o u) /\ Elements(shown[r] \o u) = Elements(shown[r]) \cup a + 1 .. b
      BY <1>4, <2>1, <2>2, OrderGrows
    <2> QED BY <2>3 DEF a, b, u
  <1>10. /\ shown'[r] = shown[r] \o SubSeq(t, j + 1, k)
         /\ remseq'[r] = m.seq /\ lastsize'[r] = k
    BY <1>2, <1>4
  <1>11. Ordered(shown'[r]) /\ ShownAt(s) \subseteq ShownAt(s)'
    BY <1>5, <1>9, <1>10
  <1>12. \A i \in 1 .. k : t[i] \in ShownAt(s)'
    <2>1. ASSUME NEW i \in 1 .. k PROVE t[i] \in ShownAt(s)'
      <3>1. t[i] = x + i
        BY <1>2, <1>6
      <3>2. x + i \in 1 .. x + j \/ x + i \in (x + j) + 1 .. x + k
        OBVIOUS
      <3> QED BY <1>5, <1>8, <1>9, <1>10, <3>1, <3>2
    <2> QED BY <2>1
  <1>13. Runs(s)'
    BY <1>11 DEF Wire, Runs
  <1>14. Unique(s)' /\ Current(s)'
    BY DEF Wire, Unique, Current
  <1>15. Received(s)'
    <2>1. ASSUME NEW p \in Data(s)', p.seq # 0, p.seq = m.seq PROVE p = m
      BY <2>1 DEF Wire, Unique
    <2>2. \A p \in Data(s)' : p.seq # 0 /\ p.seq = remseq'[r] => p = m
      BY <1>10, <2>1
    <2>3. k <= Len(m.text) /\ (~PartTaker(r) => k = Len(m.text))
          /\ \A i \in 1 .. k : m.text[i] \in ShownAt(s)'
      BY <1>2, <1>12 DEF t, n
    <2> QED BY <1>10, <2>2, <2>3 DEF Received, r
  <1>16. Answered(s)'
    <2>1. ASSUME NEW a \in AcksTo(s)', a.ack = myseq[s], ~(a.nack /\ a.off)
          PROVE  /\ a.nack => a.count < Len(last[s].text)
                 /\ \A i \in DOMAIN last[s].text :
                       ~a.nack \/ i <= a.count => last[s].text[i] \in ShownAt(s)'
      <3>1. CASE a \in AcksTo(s)
        BY <1>11, <2>1, <3>1 DEF Wire, Answered
      <3>2. CASE a \in Elements(d)
        <4>1. a.ack = m.seq /\ last[s].seq = myseq[s] /\ last[s] \in Data(s)
          BY <1>2, <3>2 DEF Wire, Current, Data
        <4>2. last[s] = m
          BY <2>1, <4>1 DEF Wire, Unique
        <4>3. /\ a.nack => a.count = k /\ k < n
              /\ ~a.nack => k = n
          BY <1>2, <2>1, <3>2
        <4>4. \A i \in 1 .. n : i \in Nat /\ (i <= k => i \in 1 .. k)
          OBVIOUS
        <4>5. /\ a.nack => a.count < n
              /\ \A i \in 1 .. n : ~a.nack \/ i <= a.count => t[i] \in ShownAt(s)'
          BY <1>12, <4>3, <4>4
        <4> QED BY <1>6, <4>2, <4>5 DEF t, n
      <3> QED BY <2>1, <3>1, <3>2
    <2> QED BY <2>1 DEF Answered
  <1> QED BY <1>11, <1>13, <1>14, <1>15, <1>16 DEF Wire, r

\* What waits stays in its place, and input comes after it.
LEMMA PlacedStill ==
    ASSUME TypeOK, NEW s \in Side, Placed(s), ShownAt(s) \subseteq ShownAt(s)',
           pending'[s] = pending[s], last'[s] = last[s], awaiting'[s] = awaiting[s],
           typed'[s] = typed[s], phase'[s] # "broken" => phase[s] # "broken"
    PROVE  Placed(s)'
  <1> SUFFICES ASSUME phase'[s] # "broken" PROVE \E w, x \in Nat : PlacedBy(s, w, x)'
    BY DEF Placed
  <1>1. PICK w \in Nat, x \in Nat : PlacedBy(s, w, x)
    BY DEF Placed
  <1>2. PlacedBy(s, w, x)'
    BY <1>1 DEF PlacedBy
  <1> QED BY <1>2

\* Input that is queued comes after what waits.
LEMMA PlacedTyped ==
    ASSUME TypeOK, NEW s \in Side, Placed(s), phase[s] # "broken", NEW e \in Item,
           typed'[s] \in Nat, IsRun(e.text, typed[s], typed'[s]),
           pending'[s] = AddPending(pending[s], e), last'[s] = last[s],
           awaiting'[s] = awaiting[s], ShownAt(s)' = ShownAt(s)
    PROVE  Placed(s)'
  <1>1. PICK w \in Nat, x \in Nat : PlacedBy(s, w, x)
    BY DEF Placed
  <1>2. Laid(AddPending(pending[s], e), x, typed'[s])
    BY <1>1, DataTypes, LaidAdd DEF PlacedBy
  <1>3. PlacedBy(s, w, x)'
    BY <1>1, <1>2 DEF PlacedBy
  <1> QED BY <1>3 DEF Placed

\* What _sendpendingoutput may send: q goes on where what was shown ends, and if
\* it is empty the last packet was shown.
Follows(s, q, a, z) ==
    /\ Laid(q, a, z) /\ 1 .. a \subseteq ShownAt(s)
    /\ q = <<>> => \E w \in Nat : IsRun(last[s].text, w, a)

\* It sends the first of it under a free number.
LEMMA SendOut ==
    ASSUME TypeOK, NEW s \in Side, Wire(s), NEW q \in Seq(Item), SendPendingOutput(s, q),
           NEW a \in Nat, typed'[s] \in Nat, typed[s] <= typed'[s],
           Follows(s, q, a, typed'[s]),
           OnWire(s)' \subseteq OnWire(s) \cup Elements(Outgoing(s, q)),
           AcksTo(s)' \subseteq AcksTo(s), shown'[Peer(s)] = shown[Peer(s)],
           remseq'[Peer(s)] = remseq[Peer(s)], lastsize'[Peer(s)] = lastsize[Peer(s)],
           myseq'[s] # myseq[s] => NumberFree(s, myseq'[s])
    PROVE  Wire(s)' /\ Placed(s)'
  <1>1. ShownAt(s)' = ShownAt(s) /\ myseq[s] \in 0 .. SeqMax
    BY DataTypes DEF ShownAt
  <1>2. CASE q = <<>>
    <2>1. Rests(s) /\ Outgoing(s, q) = <<>>
      BY <1>2, Sent
    <2>2. Data(s)' \subseteq Data(s)
      <3>1. Elements(Outgoing(s, q)) = {}
        BY <2>1 DEF Elements
      <3> QED BY <2>1, <3>1 DEF Rests, Data, Resent
    <2>3. Wire(s)'
      BY <2>1, <2>2, WireStill DEF Rests
    <2>4. PICK w \in Nat : IsRun(last[s].text, w, a)
      BY <1>2 DEF Follows
    <2>5. a = typed'[s]
      BY <1>2, LaidNone DEF Follows
    <2>6. Laid(<<>>, a, typed'[s])
      BY <1>2 DEF Follows
    <2>7. 1 .. w \subseteq 1 .. a
      BY <2>4 DEF IsRun
    <2>8. PlacedBy(s, w, a)'
      BY <1>1, <2>1, <2>4, <2>6, <2>7 DEF PlacedBy, Rests, Follows
    <2> QED BY <2>3, <2>8 DEF Placed
  <1>3. CASE q # <<>>
    <2> DEFINE p == Payload(NextSeq(myseq[s]), Chunk(q))
    <2>1. SendsFrom(s, q, p) /\ Outgoing(s, q) = <<p>>
      BY <1>3, Sent
    <2>2. /\ NextSeq(myseq[s]) \in 1 .. SeqMax /\ NextSeq(myseq[s]) # myseq[s]
          /\ NextSeq(myseq[s]) \in 0 .. SeqMax
      BY <1>1, Numbers
    <2>3. Chunk(q) \in Item
      BY <1>3, QueueTypes
    <2>4. p.seq = NextSeq(myseq[s]) /\ p.text = Chunk(q).text /\ p \in Packet
      BY <2>2, <2>3, Made
    <2> HIDE DEF p
    <2>5. PICK y \in Nat : /\ IsRun(Chunk(q).text, a, y) /\ Laid(Rest(q), y, typed'[s])
                           /\ a <= y /\ y <= typed'[s]
      BY <1>3, LaidSend DEF Follows
    <2>6. Elements(Outgoing(s, q)) = {p}
      BY <2>1, <2>4, ElementsOne
    <2>7. Resent(s)' = Resent(s) \cup {p}
      <3>1. loops'[s] = loops[s] \cup {[payload |-> p, retries |-> Retries]}
        BY <2>1 DEF SendsFrom
      <3>2. [payload |-> p, retries |-> Retries].payload = p
        OBVIOUS
      <3>3. Resent(s)' = {l.payload : l \in loops'[s]}
        BY DEF Resent
      <3> DEFINE k == [payload |-> p, retries |-> Retries]
      <3>4. loops'[s] = loops[s] \cup {k} /\ k.payload = p
        BY <3>1, <3>2
      <3> HIDE DEF k
      <3> QED BY <3>3, <3>4 DEF Resent
    <2>8. Data(s)' \subseteq {p} \cup Resent(s) \cup OnWire(s)
      BY <2>1, <2>6, <2>7 DEF Data, SendsFrom
    <2>9. p.seq # 0 /\ NumberFree(s, p.seq) /\ last'[s] = p /\ myseq'[s] = p.seq
      BY <2>1, <2>2, <2>4 DEF SendsFrom
    <2>10. IsRun(p.text, a, y) /\ 1 .. a \subseteq ShownAt(s)
      BY <2>4, <2>5 DEF Follows
    <2>11. Wire(s)'
      BY <2>5, <2>8, <2>9, <2>10, WireSend
    <2>12. PlacedBy(s, a, y)'
      BY <1>1, <2>1, <2>5, <2>9, <2>10 DEF PlacedBy, SendsFrom
    <2> QED BY <2>5, <2>11, <2>12 DEF Placed
  <1> QED BY <1>2, <1>3

\* What an acknowledgement lets go follows what was shown.
LEMMA RequeueFollows ==
    ASSUME TypeOK, NEW s \in Side, Answered(s), Placed(s), phase[s] # "broken",
           NEW m \in AcksTo(s), m.ack = myseq[s], ~(m.nack /\ m.off)
    PROVE  \E a \in Nat : Follows(s, Requeue(s, m), a, typed[s])
  <1> DEFINE t == last[s].text
             q == pending[s]
             c == m.count
             n == Len(t)
  <1>1. PICK w \in Nat, x \in Nat : PlacedBy(s, w, x)
    BY DEF Placed
  <1>2. IsRun(t, w, x) /\ Laid(q, x, typed[s]) /\ 1 .. w \subseteq ShownAt(s)
    BY <1>1 DEF PlacedBy
  <1>3. m \in Packet /\ c \in Nat /\ q \in Seq(Item) /\ typed[s] \in Nat
        /\ m.nack \in BOOLEAN
    BY DataTypes, PacketParts
  <1>4. /\ m.nack => c < n
        /\ \A i \in DOMAIN t : ~m.nack \/ i <= c => t[i] \in ShownAt(s)
    BY DEF Answered
  <1>5. Requeue(s, m) = IF ~m.nack THEN q
                        ELSE IF q # <<>> /\ ~Head(q).brk
                             THEN [q EXCEPT ![1].text = SubSeq(t, c + 1, n) \o @]
                             ELSE <<Text(SubSeq(t, c + 1, n))>> \o q
    BY DEF Requeue
  <1>6. /\ t \in Seq(Nat) /\ n = x - w /\ DOMAIN t = 1 .. n /\ w <= x
        /\ \A i \in 1 .. n : t[i] = w + i
    BY <1>2, RunIs DEF IsRun
  <1> HIDE DEF t, q, c, n
  <1>7. ASSUME NEW k \in Nat, k <= n, ~m.nack \/ k <= c
        PROVE  1 .. w + k \subseteq ShownAt(s)
    <2>1. ASSUME NEW i \in 1 .. w + k PROVE i \in ShownAt(s)
      <3>1. CASE i <= w
        BY <1>2, <3>1
      <3>2. CASE ~(i <= w)
        <4>1. i - w \in 1 .. n /\ w + (i - w) = i /\ i - w <= k
          BY <1>6, <1>7, <3>2
        <4>2. ~m.nack \/ i - w <= c
          BY <1>3, <1>7, <4>1
        <4> QED BY <1>4, <1>6, <4>1, <4>2
      <3> QED BY <3>1, <3>2
    <2> QED BY <2>1
  <1>8. CASE ~m.nack
    <2>1. w + n = x /\ n \in Nat
      BY <1>6
    <2>2. 1 .. w + n \subseteq ShownAt(s)
      BY <1>7, <1>8, <2>1
    <2>3. Follows(s, q, x, typed[s])
      BY <1>2, <2>1, <2>2 DEF Follows, t
    <2> QED BY <1>5, <1>8, <2>3
  <1>9. CASE m.nack
    <2> DEFINE a == w + c
               u == SubSeq(t, c + 1, n)
    <2>1. 1 .. a \subseteq ShownAt(s) /\ a \in Nat
      <3>1. c \in Nat /\ c <= n /\ c <= c
        BY <1>3, <1>4, <1>6, <1>9
      <3>2. 1 .. w + c \subseteq ShownAt(s)
        BY <1>7, <3>1
      <3> QED BY <1>3, <3>2
    <2>2. IsRun(u, a, x)
      <3>1. w + n = x /\ n \in Nat /\ c <= n
        BY <1>3, <1>4, <1>6, <1>9
      <3>2. IsRun(u, w + c, w + n)
        BY <1>2, <1>3, <3>1, RunCut DEF n
      <3> QED BY <3>1, <3>2
    <2>3. u \in Seq(Nat)
      BY <2>1, <2>2, RunIs
    <2> HIDE DEF a, u
    <2>4. /\ Laid(<<Text(u)>> \o q, a, typed[s])
          /\ q # <<>> => Laid([q EXCEPT ![1].text = u \o @], a, typed[s])
      BY <1>2, <1>3, <2>1, <2>2, <2>3, LaidAgain
    <2>5. Requeue(s, m) = IF q # <<>> /\ ~Head(q).brk THEN [q EXCEPT ![1].text = u \o @]
                          ELSE <<Text(u)>> \o q
      BY <1>5, <1>9 DEF u
    <2>6. Laid(Requeue(s, m), a, typed[s])
      BY <2>4, <2>5
    <2>7. Requeue(s, m) # <<>>
      <3>1. <<Text(u)>> \o q # <<>>
        BY <1>3
      <3>2. q # <<>> => [q EXCEPT ![1].text = u \o @] # <<>>
        BY <1>3
      <3> QED BY <2>5, <3>1, <3>2
    <2>8. Follows(s, Requeue(s, m), a, typed[s])
      BY <2>1, <2>6, <2>7 DEF Follows
    <2> QED BY <2>1, <2>8
  <1> QED BY <1>3, <1>8, <1>9

-----------------------------------------------------------------------------
(* Every step is one of four that an end takes.                              *)

\* What it does to the other end: it takes packets that come and puts others on
\* their way, and no end comes back.
Alone(s) ==
    /\ Still(Peer(s)) /\ typed'[Peer(s)] = typed[Peer(s)]
    /\ Elements(net'[s]) \subseteq Elements(net[s])
    /\ \A x \in Side : phase'[x] # "broken" => phase[x] # "broken"
Puts(s, P) == Elements(net'[Peer(s)]) \subseteq Elements(net[Peer(s)]) \cup P
Unread == UNCHANGED remseq /\ UNCHANGED lastsize /\ UNCHANGED shown

\* It sends packets again, or nothing; it may be given up.
Repeats(s) ==
    /\ pending'[s] = pending[s] /\ myseq'[s] = myseq[s] /\ last'[s] = last[s]
    /\ typed'[s] = typed[s] /\ Unread
    /\ awaiting'[s] = awaiting[s] \/ phase'[s] = "broken"
    /\ Resent(s)' \subseteq Resent(s) /\ Puts(s, Resent(s) \cup {last[s]})

\* It queues input,
Input(s, e) == phase[s] # "broken" /\ typed'[s] \in Nat /\ IsRun(e.text, typed[s], typed'[s])
Queues(s) ==
    /\ \E e \in Item : Input(s, e) /\ pending'[s] = AddPending(pending[s], e)
    /\ myseq'[s] = myseq[s] /\ last'[s] = last[s] /\ awaiting'[s] = awaiting[s]
    /\ Resent(s)' = Resent(s) /\ Puts(s, {}) /\ Unread

\* sends what it has queued, what waited for the console, or what an
\* acknowledgement lets go,
MaySend(s, q) ==
    \/ \E e \in Item : Input(s, e) /\ ~awaiting[s] /\ q = AddPending(pending[s], e)
    \/ /\ ~awaiting[s] /\ phase[s] # "broken" /\ q = pending[s] /\ typed'[s] = typed[s]
    \/ /\ phase[s] # "broken" /\ typed'[s] = typed[s]
       /\ \E m \in AcksTo(s) : /\ q = Requeue(s, m) /\ m.ack = myseq[s]
                               /\ ~(m.nack /\ m.off)
Sends(s) ==
    \E q \in Seq(Item) :
        /\ MaySend(s, q) /\ SendPendingOutput(s, q) /\ Unread
        /\ Puts(s, Elements(Outgoing(s, q)))

\* or takes a packet with text.
Takes(s) ==
    /\ Still(s) /\ typed'[s] = typed[s]
    /\ \E m \in Elements(net[s]) : \E d \in Seq(Packet) :
          m.seq # 0 /\ Took(s, m, d) /\ Puts(s, Elements(d))

\* Every step is one of these.
Moves == \E s \in Side : Alone(s) /\ (Repeats(s) \/ Queues(s) \/ Sends(s) \/ Takes(s))

\* Steps that change neither text nor channels.
LEMMA PhaseMoves ==
    ASSUME TypeOK,
           UNCHANGED <<typed, pending, myseq, awaiting, last, remseq, lastsize, shown>>,
           \A x \in Side : /\ Resent(x)' \subseteq Resent(x)
                           /\ loops'[x] = loops[x] \/ x = "console"
                           /\ Elements(net'[x]) \subseteq Elements(net[x])
                           /\ phase'[x] # "broken" => phase[x] # "broken"
    PROVE  Moves
  <1> DEFINE s == "console"
  <1>1. s \in Side /\ Peer(s) = "bmc" /\ "bmc" \in Side
    BY DEF Side, Peer
  <1>2. Alone(s)
    BY <1>1 DEF Alone, Still
  <1>3. Repeats(s)
    BY <1>1 DEF Repeats, Unread, Puts
  <1> QED BY <1>1, <1>2, <1>3 DEF Moves

\* Input is queued or sent.
LEMMA SubmitMoves ==
    ASSUME TypeOK, NEW s \in Side, NEW e \in Item, Submit(s, e), Input(s, e),
           UNCHANGED phase, Unread, typed'[Peer(s)] = typed[Peer(s)]
    PROVE  Moves
  <1> DEFINE q == AddPending(pending[s], e)
             r == Peer(s)
  <1>1. /\ q \in Seq(Item) /\ r \in Side /\ r # s /\ net \in [Side -> Seq(Packet)]
        /\ pending \in [Side -> Seq(Item)]
    BY DataTypes, Sides, QueueTypes DEF TypeOK
  <1>2. CASE phase[s] = "new" \/ awaiting[s]
    <2>1. pending' = [pending EXCEPT ![s] = q] /\ UNCHANGED <<myseq, awaiting, last, loops, net>>
      BY <1>2 DEF Submit
    <2> HIDE DEF q
    <2>2. pending'[s] = q /\ pending'[r] = pending[r]
      BY <1>1, <2>1
    <2>3. Alone(s)
      BY <1>1, <2>1, <2>2 DEF Alone, Still
    <2>4. Queues(s)
      <3>1. Resent(s)' = Resent(s) /\ Puts(s, {})
        BY <2>1 DEF Resent, Puts
      <3> QED BY <2>1, <2>2, <3>1 DEF Queues, q
    <2> QED BY <2>3, <2>4 DEF Moves
  <1>3. CASE ~(phase[s] = "new" \/ awaiting[s])
    <2>1. /\ SendPendingOutput(s, q)
          /\ net' = [net EXCEPT ![r] = Transmit(r, Outgoing(s, q))]
      BY <1>3 DEF Submit
    <2>2. MaySend(s, q)
      BY <1>3 DEF MaySend
    <2> HIDE DEF q
    <2>3. Outgoing(s, q) \in Seq(Packet) /\ Still(r)
      BY <1>1, <2>1, SendTypes, Sent
    <2>4. net'[s] = net[s] /\ net'[r] = Transmit(r, Outgoing(s, q))
      BY <1>1, <2>1
    <2>5. Puts(s, Elements(Outgoing(s, q)))
      BY <1>1, <2>3, <2>4, Transmitted DEF Puts
    <2>6. Alone(s)
      BY <2>3, <2>4 DEF Alone
    <2>7. Sends(s)
      BY <1>1, <2>1, <2>2, <2>5 DEF Sends
    <2> QED BY <2>6, <2>7 DEF Moves
  <1> QED BY <1>2, <1>3

\* Each step is one of these.
LEMMA StepMoves ==
    ASSUME ArmedInv, \A s \in Side : Kinds(s), [Next]_vars
    PROVE  Moves
  <1>1. /\ phase \in [Side -> {"new", "taken", "open", "closed", "broken"}]
        /\ typed \in [Side -> Nat] /\ net \in [Side -> Seq(Packet)]
        /\ pending \in [Side -> Seq(Item)] /\ TypeOK
        /\ loops \in [Side -> SUBSET [payload : Packet, retries : 1 .. Retries]]
        /\ awaiting \in [Side -> BOOLEAN]
        /\ "console" \in Side /\ "bmc" \in Side
    BY DEF ArmedInv, TypeOK, Side
  <1>2. ASSUME NEW s \in Side, SendData(s) PROVE Moves
    <2> DEFINE e == Text(<<typed[s] + 1>>)
    <2>1. /\ phase[s] # "broken" /\ typed' = [typed EXCEPT ![s] = @ + 1]
          /\ Submit(s, e) /\ UNCHANGED <<phase, remseq, lastsize, shown>>
      BY <1>2 DEF SendData, counters
    <2>2. /\ typed[s] \in Nat /\ typed'[s] = typed[s] + 1 /\ typed'[s] \in Nat
          /\ typed'[Peer(s)] = typed[Peer(s)]
      BY <1>1, <2>1, Sides
    <2>3. <<typed[s] + 1>> \in Seq(Nat)
      BY <2>2
    <2>4. e \in Item /\ e.text = <<typed[s] + 1>>
      BY <2>3, Made
    <2> HIDE DEF e
    <2>5. Input(s, e)
      BY <2>1, <2>2, <2>4, RunsShort DEF Input
    <2> QED BY <1>1, <2>1, <2>2, <2>4, <2>5, SubmitMoves DEF Unread
  <1>3. ASSUME SendBreak PROVE Moves
    <2> DEFINE s == "console"
    <2>1. /\ phase[s] # "broken" /\ UNCHANGED typed
          /\ Submit(s, Break) /\ UNCHANGED <<phase, remseq, lastsize, shown>>
      BY <1>3 DEF SendBreak
    <2>2. typed[s] \in Nat /\ typed'[s] = typed[s]
      BY <1>1, <2>1
    <2>3. Break \in Item /\ Break.text = <<>>
      BY Made
    <2>4. Input(s, Break)
      BY <2>1, <2>2, <2>3, RunsShort DEF Input
    <2> QED BY <1>1, <2>1, <2>3, <2>4, SubmitMoves DEF Unread
  <1>4. ASSUME NEW s \in Side, NEW l \in loops[s], Tick(s, l) PROVE Moves
    <2> DEFINE r == Peer(s)
               a == IF l.retries = 1 THEN <<>> ELSE net[s]
               b == IF awaiting[s] THEN Transmit(r, <<l.payload>>) ELSE net[r]
               k == [l EXCEPT !.retries = @ - 1]
    <2>1. r \in Side /\ r # s /\ l.payload \in Packet /\ k.payload = l.payload
      BY <1>1, Sides
    <2>2. /\ UNCHANGED <<typed, pending, myseq, awaiting, last, remseq, lastsize, shown>>
          /\ net' = [net EXCEPT ![r] = b, ![s] = a]
          /\ \/ /\ phase' = [phase EXCEPT ![s] = "broken"]
                /\ loops' = [loops EXCEPT ![s] = {}]
             \/ /\ UNCHANGED phase
                /\ loops' = [loops EXCEPT ![s] = (@ \ {l}) \cup
                               (IF awaiting[s] THEN {k} ELSE {})]
      BY <1>4, Zenon DEF Tick, counters
    <2>3. net'[s] = a /\ net'[r] = b
      <3> HIDE DEF a, b
      <3> QED BY <1>1, <2>1, <2>2
    <2>4. Elements(net'[s]) \subseteq Elements(net[s])
      <3>1. Elements(<<>>) = {}
        BY DEF Elements
      <3> QED BY <2>3, <3>1
    <2>5. Puts(s, Resent(s) \cup {last[s]})
      <3>1. <<l.payload>> \in Seq(Packet) /\ Elements(<<l.payload>>) = {l.payload}
        BY <2>1, ElementsOne
      <3>2. Elements(Transmit(r, <<l.payload>>)) \subseteq Elements(net[r]) \cup {l.payload}
        BY <1>1, <2>1, <3>1, Transmitted
      <3>3. l.payload \in Resent(s)
        BY DEF Resent
      <3> QED BY <2>3, <3>2, <3>3 DEF Puts
    <2> HIDE DEF a, b, k
    <2>6. /\ loops'[r] = loops[r]
          /\ \A p \in loops'[s] : p \in loops[s] \/ p = k
          /\ \A x \in Side : phase'[x] # "broken" => phase[x] # "broken"
      BY <1>1, <2>1, <2>2
    <2>7. Alone(s)
      BY <2>1, <2>2, <2>4, <2>6 DEF Alone, Still
    <2>8. Resent(s)' \subseteq Resent(s)
      BY <2>1, <2>6 DEF Resent
    <2>9. Repeats(s)
      BY <2>2, <2>5, <2>8 DEF Repeats, Unread
    <2> QED BY <2>7, <2>9 DEF Moves
  <1>5. ASSUME NEW s \in Side, NEW i \in 1 .. Len(net[s]), NEW again \in BOOLEAN,
               GotSolPayload(s, i, again)
        PROVE  Moves
    <2> DEFINE m == net[s][i]
               r == Peer(s)
               ans == Answer(s, m)
    <2>1. /\ m \in Packet /\ m \in Elements(net[s]) /\ phase[s] \in {"open", "closed"}
          /\ UNCHANGED typed /\ TakeAck(s, m)
      BY <1>1, <1>5, GotParts
    <2>2. PICK d \in Seq(Packet) :
             /\ Took(s, m, d) /\ net' \in [Side -> Seq(Packet)]
             /\ Elements(net'[s]) \subseteq Elements(net[s])
             /\ Elements(net'[r]) \subseteq Elements(net[r]) \cup Elements(d) \cup Elements(ans)
      <3> HIDE DEF m, r, ans
      <3>1. TypeOK
        BY <1>1
      <3> QED BY <1>5, <3>1, GotParts, Zenon DEF m, r, ans
    <2> HIDE DEF m
    <2>3. /\ r \in Side /\ r # s /\ (m.seq = 0 \/ m.ack = 0)
          /\ m.seq \in 0 .. SeqMax /\ m.ack \in 0 .. SeqMax
      BY <1>1, <2>1, Sides, PacketParts DEF Kinds
    <2>4. ASSUME Still(r), \A x \in Side : phase'[x] # "broken" => phase[x] # "broken"
          PROVE  Alone(s)
      BY <2>1, <2>2, <2>4 DEF Alone
    <2>5. ASSUME m.seq # 0 PROVE Moves
      <3>1. ~Acknowledges(s, m) /\ ~Disconnects(s, m) /\ m.ack = 0
        BY <2>3, <2>5 DEF Acknowledges, Disconnects
      <3>2. UNCHANGED <<phase, pending, myseq, awaiting, last, loops>> /\ ans = <<>>
        BY <2>1, <3>1, AckCases
      <3>3. Elements(ans) = {}
        BY <3>2 DEF Elements
      <3>4. Still(s) /\ Still(r)
        BY <3>2 DEF Still
      <3>5. Takes(s)
        BY <2>1, <2>2, <2>5, <3>3, <3>4 DEF Takes, Puts
      <3> QED BY <2>4, <3>2, <3>4, <3>5 DEF Moves
    <2>6. ASSUME m.seq = 0 PROVE Moves
      <3>1. d = <<>> /\ Unread /\ Elements(d) = {}
        BY <2>2, <2>6 DEF Took, Unread, Elements
      <3>2. Puts(s, Elements(ans))
        BY <2>2, <3>1 DEF Puts
      <3>3. CASE /\ phase' = [phase EXCEPT ![s] = "broken"]
                 /\ loops' = [loops EXCEPT ![s] = {}]
                 /\ awaiting' = [awaiting EXCEPT ![s] = FALSE]
                 /\ UNCHANGED <<pending, myseq, last>> /\ ans = <<>>
        <4>1. /\ phase'[s] = "broken" /\ loops'[s] = {}
              /\ \A x \in Side : phase'[x] # "broken" => phase[x] # "broken"
              /\ loops'[r] = loops[r] /\ awaiting'[r] = awaiting[r]
          BY <1>1, <2>3, <3>3
        <4>2. Alone(s)
          BY <2>4, <3>3, <4>1 DEF Still
        <4>3. Elements(ans) = {}
          BY <3>3 DEF Elements
        <4>4. Repeats(s)
          BY <2>1, <3>1, <3>2, <3>3, <4>1, <4>3 DEF Repeats, Puts, Resent
        <4> QED BY <4>2, <4>4 DEF Moves
      <3>4. CASE /\ Acknowledges(s, m) /\ ~Disconnects(s, m) /\ UNCHANGED phase
                 /\ SendPendingOutput(s, Requeue(s, m))
                 /\ ans = Outgoing(s, Requeue(s, m))
        <4> DEFINE q == Requeue(s, m)
        <4>1. q \in Seq(Item)
          BY <1>1, <2>1, RequeueTypes
        <4>2. m.ack = myseq[s] /\ ~(m.nack /\ m.off) /\ m.ack # 0
          BY <3>4 DEF Acknowledges, Disconnects
        <4>3. m \in AcksTo(s)
          BY <2>1, <4>2 DEF AcksTo
        <4>4. MaySend(s, q)
          BY <2>1, <4>2, <4>3 DEF MaySend
        <4> HIDE DEF q
        <4>5. Still(r)
          <5>1. SendPendingOutput(s, q)
            BY <3>4 DEF q
          <5> QED BY <1>1, <2>3, <4>1, <5>1, Sent
        <4>6. Sends(s)
          BY <3>1, <3>2, <3>4, <4>1, <4>4 DEF Sends, q
        <4> QED BY <2>4, <3>4, <4>5, <4>6 DEF Moves
      <3>5. CASE /\ UNCHANGED <<phase, pending, myseq, awaiting, last, loops>>
                 /\ ans = IF m.ack # 0 /\ awaiting[s] THEN <<last[s]>> ELSE <<>>
        <4>1. last[s] \in Packet
          BY <1>1, DataTypes
        <4>2. Elements(<<last[s]>>) = {last[s]} /\ Elements(<<>>) = {}
          BY <4>1, ElementsOne DEF Elements
        <4>3. Elements(ans) \subseteq {last[s]}
          BY <3>5, <4>2
        <4>4. Repeats(s)
          BY <2>1, <3>1, <3>2, <3>5, <4>3 DEF Repeats, Puts, Resent
        <4>5. Still(r)
          BY <3>5 DEF Still
        <4>6. \A x \in Side : phase'[x] # "broken" => phase[x] # "broken"
          BY <3>5
        <4> QED BY <2>4, <4>4, <4>5, <4>6 DEF Moves
      <3> QED BY <2>1, <3>3, <3>4, <3>5, AckCases
    <2> QED BY <2>5, <2>6
  <1>6. ASSUME Activate PROVE Moves
    <2> DEFINE s == "console"
               q == pending[s]
    <2>1. /\ phase' = [x \in Side |-> "open"] /\ SendPendingOutput(s, q)
          /\ net' = [net EXCEPT !["bmc"] = Transmit("bmc", Outgoing(s, q))]
          /\ UNCHANGED <<typed, remseq, lastsize, shown>>
          /\ phase[s] = "new" /\ phase["bmc"] = "new"
      BY <1>6 DEF Activate
    <2>2. q \in Seq(Item) /\ Peer(s) = "bmc" /\ s \in Side /\ s # "bmc"
      BY <1>1 DEF Peer
    <2>3. ~awaiting[s]
      BY <1>1, <2>1 DEF ArmedInv, ArmedAt
    <2>4. MaySend(s, q)
      BY <2>1, <2>3 DEF MaySend
    <2> HIDE DEF q
    <2>5. Outgoing(s, q) \in Seq(Packet) /\ Still("bmc")
      BY <1>1, <2>1, <2>2, SendTypes, Sent
    <2>6. net'[s] = net[s] /\ net'["bmc"] = Transmit("bmc", Outgoing(s, q))
      BY <1>1, <2>1, <2>2
    <2>7. Puts(s, Elements(Outgoing(s, q)))
      BY <1>1, <2>2, <2>5, <2>6, Transmitted DEF Puts
    <2>8. \A x \in Side : phase[x] # "broken"
      BY <2>1 DEF Side
    <2>9. Alone(s)
      BY <2>1, <2>2, <2>5, <2>6, <2>8 DEF Alone
    <2>10. Sends(s)
      BY <2>1, <2>2, <2>4, <2>7 DEF Sends, Unread
    <2> QED BY <2>2, <2>9, <2>10 DEF Moves
  <1>7. ASSUME UNCHANGED <<typed, pending, myseq, awaiting, last, remseq, lastsize, shown,
                           loops, net>>,
               \A x \in Side : phase'[x] # "broken" => phase[x] # "broken"
        PROVE  Moves
    <2>1. \A x \in Side : Resent(x)' \subseteq Resent(x)
      BY <1>7 DEF Resent
    <2> QED BY <1>1, <1>7, <2>1, PhaseMoves
  <1>8. ASSUME Taken \/ AlreadyActive \/ Stolen PROVE Moves
    <2>1. UNCHANGED <<typed, pending, myseq, awaiting, last, remseq, lastsize, shown,
                      loops, net>>
      BY <1>8 DEF Taken, AlreadyActive, Stolen
    <2>2. \/ phase["bmc"] = "new" /\ phase' = [phase EXCEPT !["bmc"] = "taken"]
          \/ phase' = [phase EXCEPT !["console"] = "broken"]
          \/ phase["bmc"] = "taken" /\ phase' = [phase EXCEPT !["bmc"] = "new"]
          \/ phase["bmc"] = "open" /\ phase' = [phase EXCEPT !["bmc"] = "closed"]
      BY <1>8 DEF Taken, AlreadyActive, Stolen
    <2>3. \A x \in Side : phase'[x] # "broken" => phase[x] # "broken"
      BY <1>1, <2>2
    <2> QED BY <1>7, <2>1, <2>3
  <1>9. ASSUME GiveUp PROVE Moves
    <2>1. /\ loops' = [loops EXCEPT !["console"] = {}] /\ net' = [net EXCEPT !["console"] = <<>>]
          /\ UNCHANGED <<typed, pending, myseq, awaiting, last, remseq, lastsize, shown>>
          /\ \/ phase' = [phase EXCEPT !["console"] = "broken"]
             \/ phase' = [phase EXCEPT !["console"] = "broken",
                                       !["bmc"] = IF @ = "open" THEN "closed" ELSE @]
      BY <1>9 DEF GiveUp
    <2>2. \A x \in Side : phase'[x] # "broken" => phase[x] # "broken"
      BY <1>1, <2>1
    <2>3. \A x \in Side : loops'[x] = loops[x] \/ (x = "console" /\ loops'[x] = {})
      BY <1>1, <2>1
    <2>4. \A x \in Side : Resent(x)' \subseteq Resent(x) /\ (loops'[x] = loops[x] \/ x = "console")
      BY <2>3 DEF Resent
    <2>5. \A x \in Side : net'[x] = net[x] \/ net'[x] = <<>>
      BY <1>1, <2>1
    <2>6. \A x \in Side : Elements(net'[x]) \subseteq Elements(net[x])
      <3>1. Elements(<<>>) = {}
        BY DEF Elements
      <3> QED BY <2>5, <3>1
    <2> QED BY <1>1, <2>1, <2>2, <2>4, <2>6, PhaseMoves
  <1>10. CASE UNCHANGED vars
    <2>1. UNCHANGED <<typed, pending, myseq, awaiting, last, remseq, lastsize, shown,
                      loops, net, phase>>
      BY <1>10 DEF vars
    <2> QED BY <1>7, <2>1
  <1> QED BY <1>2, <1>3, <1>4, <1>5, <1>6, <1>8, <1>9, <1>10 DEF Next

-----------------------------------------------------------------------------
(* Each step keeps the text in its place.                                    *)

\* The numbered packets on the way to the other end, and the acknowledgements
\* that come from there.
LEMMA MovesWires ==
    ASSUME NEW s \in Side, Alone(s)
    PROVE  /\ AcksTo(s)' \subseteq AcksTo(s)
           /\ OnWire(Peer(s))' \subseteq OnWire(Peer(s))
           /\ Data(Peer(s))' \subseteq Data(Peer(s))
           /\ \A P : Puts(s, P) =>
                 /\ OnWire(s)' \subseteq OnWire(s) \cup {m \in P : m.seq # 0}
                 /\ AcksTo(Peer(s))' \subseteq AcksTo(Peer(s)) \cup {m \in P : m.ack # 0}
  <1>1. Peer(Peer(s)) = s /\ Peer(s) \in Side
    BY Sides
  <1>2. AcksTo(s)' \subseteq AcksTo(s)
    BY DEF Alone, AcksTo
  <1>3. OnWire(Peer(s))' \subseteq OnWire(Peer(s))
    BY <1>1 DEF Alone, OnWire
  <1>4. Data(Peer(s))' \subseteq Data(Peer(s))
    BY <1>3 DEF Alone, Still, Data, Resent
  <1>5. ASSUME NEW P, Puts(s, P)
        PROVE  /\ OnWire(s)' \subseteq OnWire(s) \cup {m \in P : m.seq # 0}
               /\ AcksTo(Peer(s))' \subseteq AcksTo(Peer(s)) \cup {m \in P : m.ack # 0}
    BY <1>5 DEF Puts, OnWire, AcksTo
  <1> QED BY <1>2, <1>3, <1>4, <1>5

\* What an end answers to data is not data.
LEMMA TookAcks ==
    ASSUME NEW s \in Side, NEW m \in Packet, NEW d, Took(s, m, d)
    PROVE  \A a \in Elements(d) : a.seq = 0
  <1>1. m.seq \in 0 .. SeqMax /\ Len(m.text) \in Nat
    BY PacketParts
  <1>2. ASSUME NEW c \in Nat, NEW b \in BOOLEAN, NEW o \in BOOLEAN,
               d = <<Ack(m.seq, c, b, o)>>
        PROVE  \A a \in Elements(d) : a.seq = 0
    <2> DEFINE a == Ack(m.seq, c, b, o)
    <2>1. a \in Packet /\ a.seq = 0
      BY <1>1, Made
    <2> HIDE DEF a
    <2>2. Elements(<<a>>) = {a}
      BY <2>1, ElementsOne
    <2> QED BY <1>2, <2>1, <2>2 DEF a
  <1>3. CASE d = <<>>
    BY <1>3 DEF Elements
  <1>4. CASE \E b \in BOOLEAN : d = <<Ack(m.seq, Len(m.text), b, b)>>
    BY <1>1, <1>2, <1>4
  <1>5. CASE \E k \in 0 .. (Len(m.text) - 1) : d = <<Ack(m.seq, k, TRUE, FALSE)>>
    <2>1. PICK k \in 0 .. (Len(m.text) - 1) : d = <<Ack(m.seq, k, TRUE, FALSE)>>
      BY <1>5
    <2>2. k \in Nat
      BY <1>1
    <2> QED BY <1>2, <2>1, <2>2
  <1> QED BY <1>3, <1>4, <1>5 DEF Took

\* No packet carries both.
LEMMA KindsStep ==
    ASSUME TypeOK, \A x \in Side : Kinds(x), Moves
    PROVE  \A x \in Side : Kinds(x)'
  <1> PICK s \in Side : Alone(s) /\ (Repeats(s) \/ Queues(s) \/ Sends(s) \/ Takes(s))
    BY DEF Moves
  <1> DEFINE r == Peer(s)
  <1>1. r \in Side /\ \A x \in Side : x = s \/ x = r
    BY DEF Side, Peer
  <1>2. ASSUME NEW P, Puts(s, P), \A m \in P : m.seq = 0 \/ m.ack = 0,
               last'[s].ack = 0, \A p \in Resent(s)' : p.ack = 0
        PROVE  \A x \in Side : Kinds(x)'
    <2>1. Kinds(s)'
      BY <1>2 DEF Kinds, Alone
    <2>2. Kinds(r)'
      <3>1. last'[r].ack = 0 /\ Resent(r)' = Resent(r)
        BY <1>1 DEF Kinds, Alone, Still, Resent
      <3>2. \A m \in Elements(net'[r]) : m.seq = 0 \/ m.ack = 0
        BY <1>1, <1>2 DEF Kinds, Puts
      <3> QED BY <1>1, <3>1, <3>2 DEF Kinds
    <2> QED BY <1>1, <2>1, <2>2
  <1> HIDE DEF r
  <1>3. last[s].ack = 0 /\ \A p \in Resent(s) : p.ack = 0
    BY DEF Kinds
  <1>4. ASSUME Repeats(s) PROVE \A x \in Side : Kinds(x)'
    <2> DEFINE P == Resent(s) \cup {last[s]}
    <2>1. Puts(s, P) /\ last'[s] = last[s] /\ Resent(s)' \subseteq Resent(s)
      BY <1>4 DEF Repeats
    <2>2. \A m \in P : m.seq = 0 \/ m.ack = 0
      BY <1>3
    <2> QED BY <1>2, <1>3, <2>1, <2>2
  <1>5. ASSUME Queues(s) PROVE \A x \in Side : Kinds(x)'
    <2>1. Puts(s, {}) /\ last'[s] = last[s] /\ Resent(s)' = Resent(s)
      BY <1>5 DEF Queues
    <2> QED BY <1>2, <1>3, <2>1
  <1>6. ASSUME Sends(s) PROVE \A x \in Side : Kinds(x)'
    <2>1. PICK q \in Seq(Item) : SendPendingOutput(s, q) /\ Puts(s, Elements(Outgoing(s, q)))
      BY <1>6 DEF Sends
    <2>2. CASE q = <<>>
      <3>1. Rests(s) /\ Outgoing(s, q) = <<>>
        BY <2>1, <2>2, Sent
      <3>2. Elements(Outgoing(s, q)) = {}
        BY <3>1 DEF Elements
      <3>3. last'[s] = last[s] /\ Resent(s)' = Resent(s)
        BY <3>1 DEF Rests, Resent
      <3> QED BY <1>2, <1>3, <2>1, <3>2, <3>3
    <2>3. CASE q # <<>>
      <3> DEFINE p == Payload(NextSeq(myseq[s]), Chunk(q))
                 l == [payload |-> p, retries |-> Retries]
      <3>1. SendsFrom(s, q, p) /\ Outgoing(s, q) = <<p>>
        BY <2>1, <2>3, Sent
      <3>2. Chunk(q) \in Item /\ NextSeq(myseq[s]) \in 0 .. SeqMax
        BY <2>3, QueueTypes, Numbers DEF TypeOK
      <3>3. p \in Packet /\ p.ack = 0
        BY <3>2, Made
      <3>4. loops'[s] = loops[s] \cup {l} /\ last'[s] = p
        BY <3>1 DEF SendsFrom
      <3>5. l.payload = p
        OBVIOUS
      <3> HIDE DEF p, l
      <3>6. Elements(Outgoing(s, q)) = {p}
        BY <3>1, <3>3, ElementsOne
      <3>7. \A d \in Resent(s)' : d = p \/ d \in Resent(s)
        BY <3>4, <3>5 DEF Resent
      <3> QED BY <1>2, <1>3, <2>1, <3>3, <3>4, <3>6, <3>7
    <2> QED BY <2>2, <2>3
  <1>7. ASSUME Takes(s) PROVE \A x \in Side : Kinds(x)'
    <2>1. PICK m \in Elements(net[s]), d \in Seq(Packet) : Took(s, m, d) /\ Puts(s, Elements(d))
      BY <1>7 DEF Takes
    <2>2. m \in Packet
      BY DEF TypeOK, Elements
    <2>3. \A a \in Elements(d) : a.seq = 0
      BY <2>1, <2>2, TookAcks
    <2>4. last'[s] = last[s] /\ Resent(s)' = Resent(s)
      BY <1>7 DEF Takes, Still, Resent
    <2> QED BY <1>2, <1>3, <2>1, <2>3, <2>4
  <1> QED BY <1>4, <1>5, <1>6, <1>7

\* The text of the end that did nothing, if nothing was acknowledged to it.
LEMMA OtherStill ==
    ASSUME TypeOK, NEW s \in Side, Alone(s), Unread, Wire(Peer(s)), Placed(Peer(s)),
           AcksTo(Peer(s))' \subseteq AcksTo(Peer(s))
    PROVE  Wire(Peer(s))' /\ Placed(Peer(s))'
  <1> DEFINE r == Peer(s)
  <1>1. /\ r \in Side /\ Peer(r) \in Side /\ typed[r] \in Nat /\ Data(r)' \subseteq Data(r)
        /\ AcksTo(r)' \subseteq AcksTo(r) /\ Wire(r) /\ Placed(r)
    BY Sides, DataTypes, MovesWires
  <1>2. /\ last'[r] = last[r] /\ myseq'[r] = myseq[r] /\ pending'[r] = pending[r]
        /\ awaiting'[r] = awaiting[r] /\ typed'[r] = typed[r]
        /\ phase'[r] # "broken" => phase[r] # "broken"
    BY <1>1 DEF Alone, Still
  <1> HIDE DEF r
  <1>3. /\ shown'[Peer(r)] = shown[Peer(r)] /\ remseq'[Peer(r)] = remseq[Peer(r)]
        /\ lastsize'[Peer(r)] = lastsize[Peer(r)]
    BY DEF Unread
  <1>4. typed'[r] \in Nat /\ typed[r] <= typed'[r]
    BY <1>1, <1>2
  <1>5. Wire(r)'
    BY <1>1, <1>2, <1>3, <1>4, WireStill
  <1>6. ShownAt(r) \subseteq ShownAt(r)'
    BY <1>3 DEF ShownAt
  <1>7. Placed(r)'
    BY <1>1, <1>2, <1>6, PlacedStill
  <1> QED BY <1>5, <1>7 DEF r

\* What may be sent follows what was shown.
LEMMA SendFollows ==
    ASSUME TypeOK, NEW s \in Side, Wire(s), Placed(s), NEW q \in Seq(Item), MaySend(s, q)
    PROVE  /\ typed'[s] \in Nat /\ typed[s] <= typed'[s]
           /\ \E a \in Nat : Follows(s, q, a, typed'[s])
  <1>1. typed[s] \in Nat /\ pending[s] \in Seq(Item) /\ phase[s] # "broken"
    BY DataTypes DEF MaySend, Input
  <1>2. PICK w \in Nat, x \in Nat : PlacedBy(s, w, x)
    BY <1>1 DEF Placed
  <1>3. ASSUME NEW e \in Item, Input(s, e), ~awaiting[s], q = AddPending(pending[s], e)
        PROVE  /\ typed'[s] \in Nat /\ typed[s] <= typed'[s]
               /\ \E a \in Nat : Follows(s, q, a, typed'[s])
    <2>1. /\ typed'[s] \in Nat /\ IsRun(e.text, typed[s], typed'[s])
          /\ typed[s] <= typed'[s]
      BY <1>3 DEF Input, IsRun
    <2>2. Laid(q, x, typed'[s])
      BY <1>1, <1>2, <1>3, <2>1, LaidAdd DEF PlacedBy
    <2>3. 1 .. x \subseteq ShownAt(s) /\ IsRun(last[s].text, w, x)
      BY <1>2, <1>3 DEF PlacedBy
    <2>4. Follows(s, q, x, typed'[s])
      BY <2>2, <2>3 DEF Follows
    <2> QED BY <2>1, <2>4
  <1>4. ASSUME ~awaiting[s], q = pending[s], typed'[s] = typed[s]
        PROVE  \E a \in Nat : Follows(s, q, a, typed'[s])
    <2>1. Follows(s, q, x, typed'[s])
      BY <1>2, <1>4 DEF PlacedBy, Follows
    <2> QED BY <2>1
  <1>5. ASSUME NEW m \in AcksTo(s), q = Requeue(s, m), m.ack = myseq[s],
               ~(m.nack /\ m.off), typed'[s] = typed[s]
        PROVE  \E a \in Nat : Follows(s, q, a, typed'[s])
    BY <1>1, <1>5, RequeueFollows DEF Wire
  <1>6. typed'[s] = typed[s] => typed'[s] \in Nat /\ typed[s] <= typed'[s]
    BY <1>1
  <1> QED BY <1>3, <1>4, <1>5, <1>6 DEF MaySend

\* What was sent carries no acknowledgement.
LEMMA OutgoingKind ==
    ASSUME TypeOK, NEW s \in Side, NEW q \in Seq(Item)
    PROVE  \A m \in Elements(Outgoing(s, q)) : m.ack = 0
  <1>1. CASE q = <<>>
    BY <1>1 DEF Outgoing, Elements
  <1>2. CASE q # <<>>
    <2> DEFINE p == Payload(NextSeq(myseq[s]), Chunk(q))
    <2>1. Outgoing(s, q) = <<p>>
      BY <1>2 DEF Outgoing
    <2>2. Chunk(q) \in Item /\ NextSeq(myseq[s]) \in 0 .. SeqMax
      BY <1>2, QueueTypes, Numbers DEF TypeOK
    <2>3. p \in Packet /\ p.ack = 0
      BY <2>2, Made
    <2> HIDE DEF p
    <2>4. Elements(<<p>>) = {p}
      BY <2>3, ElementsOne
    <2> QED BY <2>1, <2>3, <2>4
  <1> QED BY <1>1, <1>2

\* What an end takes is for the other one to note.
LEMMA TookHere ==
    ASSUME TypeOK, NEW s \in Side, NEW m, NEW d, Took(s, m, d)
    PROVE  /\ shown'[Peer(s)] = shown[Peer(s)] /\ remseq'[Peer(s)] = remseq[Peer(s)]
           /\ lastsize'[Peer(s)] = lastsize[Peer(s)]
  <1>1. /\ Peer(s) \in Side /\ Peer(s) # s /\ shown \in [Side -> Seq(Nat)]
        /\ remseq \in [Side -> 0 .. SeqMax] /\ lastsize \in [Side -> Nat]
    BY Sides DEF TypeOK
  <1>2. CASE UNCHANGED <<remseq, lastsize, shown>>
    BY <1>2
  <1>3. ASSUME NEW a, NEW b, NEW c, shown' = [shown EXCEPT ![s] = a],
               remseq' = [remseq EXCEPT ![s] = b], lastsize' = [lastsize EXCEPT ![s] = c]
        PROVE  /\ shown'[Peer(s)] = shown[Peer(s)] /\ remseq'[Peer(s)] = remseq[Peer(s)]
               /\ lastsize'[Peer(s)] = lastsize[Peer(s)]
    BY <1>1, <1>3
  <1>4. CASE m.seq # 0 /\ TakeData(s, m)
    BY <1>3, <1>4 DEF TakeData
  <1>5. ASSUME NEW k, TakePart(s, m, k)
        PROVE  /\ shown'[Peer(s)] = shown[Peer(s)] /\ remseq'[Peer(s)] = remseq[Peer(s)]
               /\ lastsize'[Peer(s)] = lastsize[Peer(s)]
    BY <1>3, <1>5 DEF TakePart
  <1> QED BY <1>2, <1>4, <1>5 DEF Took

\* Each step under free numbers keeps the text in its place.
LEMMA TextStep == TextInv /\ [NumberedNext]_vars => TextInv'
  <1> SUFFICES ASSUME TextInv, [NumberedNext]_vars PROVE TextInv'
    OBVIOUS
  <1>1. /\ ArmedInv /\ TypeOK /\ [Next]_vars
        /\ \A x \in Side : Kinds(x) /\ Wire(x) /\ Placed(x)
    BY DEF TextInv, ArmedInv, NumberedNext
  <1>2. \A x \in Side : myseq'[x] # myseq[x] => NumberFree(x, myseq'[x])
    BY DEF NumberedNext, vars
  <1>3. ArmedInv' /\ Moves
    BY <1>1, ArmedStep, StepMoves
  <1>4. \A x \in Side : Kinds(x)'
    BY <1>1, <1>3, KindsStep
  <1>5. PICK s \in Side : Alone(s) /\ (Repeats(s) \/ Queues(s) \/ Sends(s) \/ Takes(s))
    BY <1>3 DEF Moves
  <1> DEFINE r == Peer(s)
  <1>6. /\ r \in Side /\ Peer(r) = s /\ \A x \in Side : x = s \/ x = r
        /\ Wire(s) /\ Placed(s) /\ Wire(r) /\ Placed(r)
    BY <1>1, Sides DEF Side, Peer
  <1>7. /\ typed[s] \in Nat /\ AcksTo(s)' \subseteq AcksTo(s) /\ Data(r)' \subseteq Data(r)
        /\ \A P : Puts(s, P) =>
              /\ OnWire(s)' \subseteq OnWire(s) \cup {m \in P : m.seq # 0}
              /\ AcksTo(r)' \subseteq AcksTo(r) \cup {m \in P : m.ack # 0}
    BY <1>1, <1>5, DataTypes, MovesWires
  <1>8. ASSUME Unread, AcksTo(r)' \subseteq AcksTo(r) PROVE Wire(r)' /\ Placed(r)'
    BY <1>1, <1>5, <1>6, <1>8, OtherStill
  <1>9. Unread => /\ shown'[r] = shown[r] /\ remseq'[r] = remseq[r]
                  /\ lastsize'[r] = lastsize[r] /\ ShownAt(s)' = ShownAt(s)
    BY DEF Unread, ShownAt
  <1>10. ASSUME Repeats(s) PROVE Wire(s)' /\ Placed(s)' /\ Wire(r)' /\ Placed(r)'
    <2> DEFINE P == Resent(s) \cup {last[s]}
    <2>1. /\ pending'[s] = pending[s] /\ myseq'[s] = myseq[s] /\ last'[s] = last[s]
          /\ typed'[s] = typed[s] /\ Unread /\ Puts(s, P)
          /\ awaiting'[s] = awaiting[s] \/ phase'[s] = "broken"
          /\ Resent(s)' \subseteq Resent(s)
      BY <1>10 DEF Repeats
    <2>2. {m \in P : m.ack # 0} = {}
      BY <1>1 DEF Kinds
    <2>3. P \subseteq Data(s)
      BY DEF Data
    <2> HIDE DEF P
    <2>4. OnWire(s)' \subseteq OnWire(s) \cup P /\ AcksTo(r)' \subseteq AcksTo(r)
      BY <1>7, <2>1, <2>2
    <2>5. Data(s)' \subseteq Data(s)
      BY <2>1, <2>3, <2>4 DEF Data
    <2>6. Wire(s)'
      <3>1. typed'[s] \in Nat /\ typed[s] <= typed'[s]
        BY <1>7, <2>1
      <3> QED BY <1>1, <1>6, <1>7, <1>9, <2>1, <2>5, <3>1, WireStill
    <2>7. Placed(s)'
      <3>1. CASE phase'[s] = "broken"
        BY <3>1 DEF Placed
      <3>2. CASE phase'[s] # "broken"
        BY <1>1, <1>5, <1>6, <1>9, <2>1, <3>2, PlacedStill DEF Alone
      <3> QED BY <3>1, <3>2
    <2> QED BY <1>8, <2>1, <2>4, <2>6, <2>7
  <1>11. ASSUME Queues(s) PROVE Wire(s)' /\ Placed(s)' /\ Wire(r)' /\ Placed(r)'
    <2>1. PICK e \in Item : Input(s, e) /\ pending'[s] = AddPending(pending[s], e)
      BY <1>11 DEF Queues
    <2>2. /\ myseq'[s] = myseq[s] /\ last'[s] = last[s] /\ awaiting'[s] = awaiting[s]
          /\ Resent(s)' = Resent(s) /\ Puts(s, {}) /\ Unread
      BY <1>11 DEF Queues
    <2>3. /\ phase[s] # "broken" /\ typed'[s] \in Nat /\ typed[s] <= typed'[s]
          /\ IsRun(e.text, typed[s], typed'[s])
      BY <2>1 DEF Input, IsRun
    <2>4. OnWire(s)' \subseteq OnWire(s) /\ AcksTo(r)' \subseteq AcksTo(r)
      BY <1>7, <2>2
    <2>5. Data(s)' \subseteq Data(s)
      BY <2>2, <2>4 DEF Data
    <2>6. Wire(s)'
      BY <1>1, <1>6, <1>7, <1>9, <2>2, <2>3, <2>5, WireStill
    <2>7. Placed(s)'
      BY <1>1, <1>6, <1>9, <2>1, <2>2, <2>3, PlacedTyped
    <2> QED BY <1>8, <2>2, <2>4, <2>6, <2>7
  <1>12. ASSUME Sends(s) PROVE Wire(s)' /\ Placed(s)' /\ Wire(r)' /\ Placed(r)'
    <2>1. PICK q \in Seq(Item) : /\ MaySend(s, q) /\ SendPendingOutput(s, q) /\ Unread
                                 /\ Puts(s, Elements(Outgoing(s, q)))
      BY <1>12 DEF Sends
    <2>2. typed'[s] \in Nat /\ typed[s] <= typed'[s]
      BY <1>1, <1>6, <2>1, SendFollows
    <2>3. PICK a \in Nat : Follows(s, q, a, typed'[s])
      BY <1>1, <1>6, <2>1, SendFollows
    <2>4. {m \in Elements(Outgoing(s, q)) : m.ack # 0} = {}
      BY <1>1, OutgoingKind
    <2>5. /\ OnWire(s)' \subseteq OnWire(s) \cup Elements(Outgoing(s, q))
          /\ AcksTo(r)' \subseteq AcksTo(r)
      BY <1>7, <2>1, <2>4
    <2>6. Wire(s)' /\ Placed(s)'
      BY <1>1, <1>2, <1>6, <1>7, <1>9, <2>1, <2>2, <2>3, <2>5, SendOut
    <2> QED BY <1>8, <2>1, <2>5, <2>6
  <1>13. ASSUME Takes(s) PROVE Wire(s)' /\ Placed(s)' /\ Wire(r)' /\ Placed(r)'
    <2>1. PICK m \in Elements(net[s]), d \in Seq(Packet) :
             m.seq # 0 /\ Took(s, m, d) /\ Puts(s, Elements(d))
      BY <1>13 DEF Takes
    <2>2. Still(s) /\ typed'[s] = typed[s] /\ m \in Packet
      BY <1>1, <1>13 DEF Takes, TypeOK, Elements
    <2>3. \A e \in Elements(d) : e.seq = 0
      BY <2>1, <2>2, TookAcks
    <2>4. OnWire(s)' \subseteq OnWire(s) /\ AcksTo(r)' \subseteq AcksTo(r) \cup Elements(d)
      BY <1>7, <2>1, <2>3
    <2>5. /\ shown'[r] = shown[r] /\ remseq'[r] = remseq[r] /\ lastsize'[r] = lastsize[r]
          /\ ShownAt(s)' = ShownAt(s)
      BY <1>1, <2>1, TookHere DEF ShownAt
    <2>6. Data(s)' \subseteq Data(s)
      BY <2>2, <2>4 DEF Data, Still, Resent
    <2>7. Wire(s)'
      <3>1. typed'[s] \in Nat /\ typed[s] <= typed'[s]
        BY <1>7, <2>2
      <3> QED BY <1>1, <1>6, <1>7, <2>2, <2>5, <2>6, <3>1, WireStill DEF Still
    <2>8. Placed(s)'
      BY <1>1, <1>5, <1>6, <2>2, <2>5, PlacedStill DEF Still, Alone
    <2>9. m \in Data(r)
      BY <1>6, <2>1 DEF Data, OnWire
    <2>10. /\ last'[r] = last[r] /\ myseq'[r] = myseq[r] /\ typed'[r] = typed[r]
           /\ pending'[r] = pending[r] /\ awaiting'[r] = awaiting[r]
           /\ phase'[r] # "broken" => phase[r] # "broken"
      BY <1>5, <1>6 DEF Alone, Still
    <2> HIDE DEF r
    <2>11. Took(Peer(r), m, d)
      BY <1>6, <2>1
    <2>12. Wire(r)' /\ ShownAt(r) \subseteq ShownAt(r)'
      BY <1>1, <1>6, <1>7, <2>1, <2>4, <2>9, <2>10, <2>11, WireData
    <2>13. Placed(r)'
      BY <1>1, <1>6, <2>10, <2>12, PlacedStill
    <2> QED BY <2>7, <2>8, <2>12, <2>13
  <1>14. \A x \in Side : Wire(x)' /\ Placed(x)'
    BY <1>5, <1>6, <1>10, <1>11, <1>12, <1>13
  <1> QED BY <1>3, <1>4, <1>14 DEF TextInv

\* At first nothing was typed.
LEMMA InitText == Init => TextInv
  <1> SUFFICES ASSUME Init PROVE TextInv
    OBVIOUS
  <1>1. TypeOK /\ ArmedInv
    BY InitTypes DEF Init, ArmedInv, ArmedAt
  <1>2. ASSUME NEW s \in Side PROVE Kinds(s) /\ Wire(s) /\ Placed(s)
    <2>1. /\ typed[s] = 0 /\ pending[s] = <<>> /\ myseq[s] = 0 /\ ~awaiting[s]
          /\ last[s] = NoPayload /\ loops[s] = {} /\ net[s] = <<>> /\ net[Peer(s)] = <<>>
          /\ shown[Peer(s)] = <<>>
      BY Sides DEF Init
    <2>2. /\ Elements(net[s]) = {} /\ Elements(net[Peer(s)]) = {}
          /\ \A i \in DOMAIN shown[Peer(s)] : FALSE
      BY <2>1 DEF Elements
    <2>3. Data(s) = {NoPayload} /\ AcksTo(s) = {} /\ Resent(s) = {}
      BY <2>1, <2>2 DEF Data, AcksTo, Resent, OnWire
    <2>4. NoPayload.seq = 0 /\ NoPayload.ack = 0 /\ NoPayload.text = <<>>
      BY Made
    <2>5. IsRun(<<>>, 0, 0)
      BY RunsShort
    <2>6. 1 .. 0 \subseteq ShownAt(s)
      OBVIOUS
    <2>7. Kinds(s)
      BY <2>1, <2>2, <2>3, <2>4 DEF Kinds
    <2>8. Runs(s)
      <3>1. 0 \in Nat /\ 0 <= typed[s]
        BY <2>1
      <3> QED BY <2>3, <2>4, <2>5, <2>6, <3>1 DEF Runs
    <2>9. Unique(s) /\ Current(s) /\ Received(s) /\ Answered(s)
      BY <2>1, <2>3, <2>4 DEF Unique, Current, Received, Answered
    <2>10. Ordered(shown[Peer(s)])
      BY <2>2 DEF Ordered
    <2>11. PlacedBy(s, 0, 0)
      BY <2>1, <2>4, <2>5, <2>6, LaidNone DEF PlacedBy
    <2> QED BY <2>7, <2>8, <2>9, <2>10, <2>11 DEF Wire, Placed
  <1> QED BY <1>1, <1>2 DEF TextInv

\* What was typed waits, is awaited or was shown.
LEMMA TextKept == TextInv => NothingLost
  <1> SUFFICES ASSUME TextInv, NEW s \in Side, phase[s] \in {"new", "open", "closed"},
                      NEW n \in 1 .. typed[s]
               PROVE  n \in Queued(s) \cup Unacknowledged(s) \cup Elements(shown[Peer(s)])
    BY DEF NothingLost
  <1>1. TypeOK /\ Placed(s) /\ pending[s] \in Seq(Item) /\ typed[s] \in Nat
    BY DataTypes DEF TextInv, ArmedInv
  <1>2. PICK w \in Nat, x \in Nat : PlacedBy(s, w, x)
    BY <1>1 DEF Placed
  <1>3. /\ IsRun(last[s].text, w, x) /\ Laid(pending[s], x, typed[s])
        /\ 1 .. w \subseteq ShownAt(s)
        /\ ~awaiting[s] => 1 .. x \subseteq ShownAt(s)
    BY <1>2 DEF PlacedBy
  <1>4. CASE n <= w
    BY <1>3, <1>4 DEF ShownAt
  <1>5. CASE w < n /\ n <= x
    <2>1. n \in Elements(last[s].text)
      BY <1>3, <1>5, RunIs
    <2>2. CASE awaiting[s]
      BY <2>1, <2>2 DEF Unacknowledged
    <2>3. CASE ~awaiting[s]
      BY <1>3, <1>5, <2>3 DEF ShownAt
    <2> QED BY <2>2, <2>3
  <1>6. CASE x < n
    <2>1. n \in x + 1 .. typed[s]
      BY <1>1, <1>6
    <2>2. \E e \in Elements(pending[s]) : n \in Elements(e.text)
      BY <1>1, <1>3, <2>1, LaidCovers
    <2> QED BY <2>2 DEF Queued
  <1> QED BY <1>4, <1>5, <1>6

\* While four bits are enough, what is typed is never lost: a part that firmware
\* refuses is sent again before anything else, an acknowledgement is only taken
\* for the packet that awaits it, and what is typed before the console is open
\* waits for it.  Without the condition on numbers it may be lost: see
\* NumberedNext.
THEOREM NothingLostCorrect == NumberedSpec => []NothingLost
  BY InitText, TextStep, TextKept, PTL DEF NumberedSpec

\* While four bits are enough, no character is shown before an earlier one,
\* however packets are lost, repeated by their loops or by the network, or taken
\* in part.
THEOREM FirstInOrderCorrect == NumberedSpec => []FirstInOrder
  <1>1. TextInv => FirstInOrder
    <2> SUFFICES ASSUME TextInv, NEW s \in Side PROVE Ordered(shown[s])
      BY DEF FirstInOrder, Ordered
    <2>1. Peer(s) \in Side /\ Peer(Peer(s)) = s
      BY Sides
    <2>2. Ordered(shown[Peer(Peer(s))])
      BY <2>1 DEF TextInv, Wire
    <2> QED BY <2>1, <2>2
  <1> QED BY <1>1, InitText, TextStep, PTL DEF NumberedSpec

-----------------------------------------------------------------------------
(* Numbers that have not gone round are free.                                *)

\* No number in use is above the last one.
UpTo(s) ==
    /\ \A p \in Data(s) : p.seq <= myseq[s]
    /\ \A m \in AcksTo(s) : m.ack <= myseq[s]
    /\ remseq[Peer(s)] <= myseq[s]
Rising == \A s \in Side : myseq[s] <= myseq'[s]
RisingInv == ArmedInv /\ \A s \in Side : Kinds(s) /\ UpTo(s)

\* It stays so where no number is added,
LEMMA UpToStill ==
    ASSUME TypeOK, TypeOK', Rising, NEW s \in Side, UpTo(s), Data(s)' \subseteq Data(s),
           AcksTo(s)' \subseteq AcksTo(s), remseq'[Peer(s)] = remseq[Peer(s)]
    PROVE  UpTo(s)'
  <1>1. /\ myseq[s] \in Nat /\ myseq'[s] \in Nat /\ myseq[s] <= myseq'[s]
        /\ remseq[Peer(s)] \in Nat
    <2>1. /\ myseq \in [Side -> 0 .. SeqMax] /\ myseq' \in [Side -> 0 .. SeqMax]
          /\ remseq \in [Side -> 0 .. SeqMax] /\ Peer(s) \in Side
      BY Sides DEF TypeOK
    <2> QED BY <2>1, SolAssumption DEF Rising
  <1>2. /\ \A p \in Data(s) : p.seq \in Nat /\ p.seq <= myseq[s]
        /\ \A m \in AcksTo(s) : m.ack \in Nat /\ m.ack <= myseq[s]
        /\ remseq[Peer(s)] <= myseq[s]
    BY DataTypes, PacketParts DEF UpTo
  <1> QED BY <1>1, <1>2 DEF UpTo

\* where the last one is given to a packet,
LEMMA UpToSent ==
    ASSUME TypeOK, TypeOK', Rising, NEW s \in Side, UpTo(s), NEW p, p.seq = myseq'[s],
           Data(s)' \subseteq Data(s) \cup {p},
           AcksTo(s)' \subseteq AcksTo(s), remseq'[Peer(s)] = remseq[Peer(s)]
    PROVE  UpTo(s)'
  <1>1. /\ myseq[s] \in Nat /\ myseq'[s] \in Nat /\ myseq[s] <= myseq'[s]
        /\ remseq[Peer(s)] \in Nat
    <2>1. /\ myseq \in [Side -> 0 .. SeqMax] /\ myseq' \in [Side -> 0 .. SeqMax]
          /\ remseq \in [Side -> 0 .. SeqMax] /\ Peer(s) \in Side
      BY Sides DEF TypeOK
    <2> QED BY <2>1, SolAssumption DEF Rising
  <1>2. /\ \A d \in Data(s) : d.seq \in Nat /\ d.seq <= myseq[s]
        /\ \A m \in AcksTo(s) : m.ack \in Nat /\ m.ack <= myseq[s]
        /\ remseq[Peer(s)] <= myseq[s]
    BY DataTypes, PacketParts DEF UpTo
  <1> QED BY <1>1, <1>2 DEF UpTo

\* and where the other end takes a packet and acknowledges it.
LEMMA UpToTaken ==
    ASSUME TypeOK, TypeOK', Rising, NEW s \in Side, UpTo(s), NEW m \in Data(s), NEW d,
           Data(s)' \subseteq Data(s), AcksTo(s)' \subseteq AcksTo(s) \cup Elements(d),
           \A e \in Elements(d) : e.ack = m.seq, remseq'[Peer(s)] = m.seq
    PROVE  UpTo(s)'
  <1>1. myseq[s] \in Nat /\ myseq'[s] \in Nat /\ myseq[s] <= myseq'[s]
    BY DataTypes, SolAssumption DEF TypeOK, Rising
  <1>2. /\ \A p \in Data(s) : p.seq \in Nat /\ p.seq <= myseq[s]
        /\ \A a \in AcksTo(s) : a.ack \in Nat /\ a.ack <= myseq[s]
    BY DataTypes, PacketParts DEF UpTo
  <1> QED BY <1>1, <1>2 DEF UpTo

\* What an end notes of a packet that it takes, and answers.
LEMMA TookNumber ==
    ASSUME TypeOK, NEW s \in Side, NEW m \in Packet, m.seq # 0, NEW d, Took(s, m, d)
    PROVE  remseq'[s] = m.seq /\ \A e \in Elements(d) : e.ack = m.seq
  <1>1. m.seq \in 0 .. SeqMax /\ Len(m.text) \in Nat /\ remseq \in [Side -> 0 .. SeqMax]
    BY PacketParts DEF TypeOK
  <1>2. ASSUME NEW c \in Nat, NEW b \in BOOLEAN, NEW o \in BOOLEAN,
               d = <<Ack(m.seq, c, b, o)>>
        PROVE  \A e \in Elements(d) : e.ack = m.seq
    <2> DEFINE a == Ack(m.seq, c, b, o)
    <2>1. a \in Packet /\ a.ack = m.seq
      BY <1>1, Made
    <2> HIDE DEF a
    <2>2. Elements(<<a>>) = {a}
      BY <2>1, ElementsOne
    <2> QED BY <1>2, <2>1, <2>2 DEF a
  <1>3. ASSUME remseq' = [remseq EXCEPT ![s] = m.seq] PROVE remseq'[s] = m.seq
    BY <1>1, <1>3
  <1>4. CASE TakeData(s, m) /\ \E b \in BOOLEAN : d = <<Ack(m.seq, Len(m.text), b, b)>>
    <2>1. remseq'[s] = m.seq
      BY <1>3, <1>4 DEF TakeData
    <2> QED BY <1>1, <1>2, <1>4, <2>1
  <1>5. ASSUME NEW k \in 0 .. (Len(m.text) - 1), TakePart(s, m, k),
               d = <<Ack(m.seq, k, TRUE, FALSE)>>
        PROVE  remseq'[s] = m.seq /\ \A e \in Elements(d) : e.ack = m.seq
    <2>1. remseq'[s] = m.seq
      BY <1>3, <1>5 DEF TakePart
    <2>2. k \in Nat
      BY <1>1
    <2> QED BY <1>2, <1>5, <2>1, <2>2
  <1> QED BY <1>4, <1>5 DEF Took

\* Each step under rising numbers keeps it,
LEMMA RisingStep == RisingInv /\ [Next]_vars /\ Rising => RisingInv'
  <1> SUFFICES ASSUME RisingInv, [Next]_vars, Rising PROVE RisingInv'
    OBVIOUS
  <1>1. ArmedInv /\ TypeOK /\ \A x \in Side : Kinds(x) /\ UpTo(x)
    BY DEF RisingInv, ArmedInv
  <1>2. ArmedInv' /\ Moves
    BY <1>1, ArmedStep, StepMoves
  <1>3. TypeOK' /\ \A x \in Side : Kinds(x)'
    BY <1>1, <1>2, KindsStep DEF ArmedInv
  <1>4. PICK s \in Side : Alone(s) /\ (Repeats(s) \/ Queues(s) \/ Sends(s) \/ Takes(s))
    BY <1>2 DEF Moves
  <1> DEFINE r == Peer(s)
  <1>5. r \in Side /\ Peer(r) = s /\ UpTo(s) /\ UpTo(r) /\ \A x \in Side : x = s \/ x = r
    BY <1>1, Sides DEF Side, Peer
  <1>6. /\ AcksTo(s)' \subseteq AcksTo(s) /\ Data(r)' \subseteq Data(r)
        /\ \A P : Puts(s, P) =>
              /\ OnWire(s)' \subseteq OnWire(s) \cup {m \in P : m.seq # 0}
              /\ AcksTo(r)' \subseteq AcksTo(r) \cup {m \in P : m.ack # 0}
    BY <1>4, MovesWires
  <1>7. ASSUME Unread, AcksTo(r)' \subseteq AcksTo(r) PROVE UpTo(r)' /\ remseq'[r] = remseq[r]
    BY <1>1, <1>3, <1>5, <1>6, <1>7, UpToStill DEF Unread
  <1> HIDE DEF r
  <1>8. ASSUME Repeats(s) \/ Queues(s) PROVE UpTo(s)' /\ UpTo(r)'
    <2> DEFINE P == Resent(s) \cup {last[s]}
    <2>1. /\ last'[s] = last[s] /\ Unread /\ Puts(s, P) /\ Resent(s)' \subseteq Resent(s)
      BY <1>8 DEF Repeats, Queues, Puts
    <2>2. {m \in P : m.ack # 0} = {}
      BY <1>1 DEF Kinds
    <2>3. P \subseteq Data(s)
      BY DEF Data
    <2> HIDE DEF P
    <2>4. OnWire(s)' \subseteq OnWire(s) \cup P /\ AcksTo(r)' \subseteq AcksTo(r)
      BY <1>6, <2>1, <2>2
    <2>5. Data(s)' \subseteq Data(s)
      BY <2>1, <2>3, <2>4 DEF Data
    <2> QED BY <1>1, <1>3, <1>5, <1>6, <1>7, <2>1, <2>4, <2>5, UpToStill DEF r
  <1>9. ASSUME Sends(s) PROVE UpTo(s)' /\ UpTo(r)'
    <2>1. PICK q \in Seq(Item) : /\ SendPendingOutput(s, q) /\ Unread
                                 /\ Puts(s, Elements(Outgoing(s, q)))
      BY <1>9 DEF Sends
    <2>2. {m \in Elements(Outgoing(s, q)) : m.ack # 0} = {}
      BY <1>1, OutgoingKind
    <2>3. /\ OnWire(s)' \subseteq OnWire(s) \cup Elements(Outgoing(s, q))
          /\ AcksTo(r)' \subseteq AcksTo(r)
      BY <1>6, <2>1, <2>2
    <2>4. UpTo(r)' /\ remseq'[r] = remseq[r]
      BY <1>7, <2>1, <2>3
    <2>5. CASE q = <<>>
      <3>1. Rests(s) /\ Outgoing(s, q) = <<>>
        BY <1>1, <2>1, <2>5, Sent
      <3>2. Elements(Outgoing(s, q)) = {}
        BY <3>1 DEF Elements
      <3>3. Data(s)' \subseteq Data(s)
        BY <2>3, <3>1, <3>2 DEF Data, Rests, Resent
      <3> QED BY <1>1, <1>3, <1>5, <1>6, <2>4, <3>3, UpToStill DEF r
    <2>6. CASE q # <<>>
      <3> DEFINE p == Payload(NextSeq(myseq[s]), Chunk(q))
                 l == [payload |-> p, retries |-> Retries]
      <3>1. SendsFrom(s, q, p) /\ Outgoing(s, q) = <<p>>
        BY <1>1, <2>1, <2>6, Sent
      <3>2. Chunk(q) \in Item /\ NextSeq(myseq[s]) \in 0 .. SeqMax
        BY <1>1, <2>6, QueueTypes, Numbers DEF TypeOK
      <3>3. p \in Packet
        BY <3>2, Made
      <3>4. loops'[s] = loops[s] \cup {l} /\ last'[s] = p /\ p.seq = myseq'[s]
        BY <3>1 DEF SendsFrom
      <3>5. l.payload = p
        OBVIOUS
      <3> HIDE DEF p, l
      <3>6. Elements(Outgoing(s, q)) = {p}
        BY <3>1, <3>3, ElementsOne
      <3>7. \A d \in Resent(s)' : d = p \/ d \in Resent(s)
        BY <3>4, <3>5 DEF Resent
      <3>8. Data(s)' \subseteq Data(s) \cup {p}
        BY <2>3, <3>4, <3>6, <3>7 DEF Data
      <3> QED BY <1>1, <1>3, <1>5, <1>6, <2>4, <3>4, <3>8, UpToSent DEF r
    <2> QED BY <2>5, <2>6
  <1>10. ASSUME Takes(s) PROVE UpTo(s)' /\ UpTo(r)'
    <2>1. PICK m \in Elements(net[s]), d \in Seq(Packet) :
             m.seq # 0 /\ Took(s, m, d) /\ Puts(s, Elements(d))
      BY <1>10 DEF Takes
    <2>2. Still(s) /\ m \in Packet
      BY <1>1, <1>10 DEF Takes, TypeOK, Elements
    <2>3. \A e \in Elements(d) : e.seq = 0
      BY <2>1, <2>2, TookAcks
    <2>4. OnWire(s)' \subseteq OnWire(s) /\ AcksTo(r)' \subseteq AcksTo(r) \cup Elements(d)
      BY <1>6, <2>1, <2>3
    <2>5. remseq'[r] = remseq[r]
      BY <1>1, <2>1, TookHere DEF r
    <2>6. Data(s)' \subseteq Data(s)
      BY <2>2, <2>4 DEF Data, Still, Resent
    <2>7. UpTo(s)'
      BY <1>1, <1>3, <1>5, <1>6, <2>5, <2>6, UpToStill DEF r
    <2>8. remseq'[s] = m.seq /\ \A e \in Elements(d) : e.ack = m.seq
      BY <1>1, <2>1, <2>2, TookNumber
    <2>9. m \in Data(r)
      BY <1>5, <2>1 DEF Data, OnWire
    <2>10. UpTo(r)'
      BY <1>1, <1>3, <1>5, <1>6, <2>4, <2>8, <2>9, UpToTaken
    <2> QED BY <2>7, <2>10
  <1>11. \A x \in Side : UpTo(x)'
    BY <1>4, <1>5, <1>8, <1>9, <1>10
  <1> QED BY <1>2, <1>3, <1>11 DEF RisingInv

\* and takes no number in use.
LEMMA RisingFree == RisingInv /\ [Next]_vars /\ Rising /\ TypeOK' => [NumberedNext]_vars
  <1> SUFFICES ASSUME RisingInv, [Next]_vars, Rising, TypeOK', NEW s \in Side,
                      myseq'[s] # myseq[s]
               PROVE  NumberFree(s, myseq'[s])
    BY DEF NumberedNext
  <1> DEFINE n == myseq'[s]
  <1>1. TypeOK /\ UpTo(s) /\ Kinds(s) /\ Peer(s) \in Side
    BY Sides DEF RisingInv, ArmedInv
  <1>2. myseq[s] \in Nat /\ n \in Nat /\ myseq[s] < n
    <2>1. /\ myseq \in [Side -> 0 .. SeqMax] /\ myseq' \in [Side -> 0 .. SeqMax]
          /\ myseq[s] <= myseq'[s] /\ myseq'[s] # myseq[s]
      BY <1>1 DEF TypeOK, Rising
    <2> QED BY <2>1, SolAssumption
  <1> HIDE DEF n
  <1>3. \A p \in Data(s) : p.seq # n
    <2>1. \A p \in Data(s) : p.seq \in Nat /\ p.seq <= myseq[s]
      BY <1>1, DataTypes, PacketParts DEF UpTo
    <2> QED BY <1>2, <2>1
  <1>4. \A m \in AcksTo(s) : m.ack # n
    <2>1. \A m \in AcksTo(s) : m.ack \in Nat /\ m.ack <= myseq[s]
      BY <1>1, DataTypes, PacketParts DEF UpTo
    <2> QED BY <1>2, <2>1
  <1>5. remseq[Peer(s)] # n
    <2>1. remseq[Peer(s)] \in Nat /\ remseq[Peer(s)] <= myseq[s]
      BY <1>1, DataTypes, SolAssumption DEF UpTo
    <2> QED BY <1>2, <2>1
  <1>6. n # 0
    BY <1>2
  <1>7. \A l \in loops[s] : l.payload.seq # n
    BY <1>3 DEF Data, Resent
  <1>8. \A m \in Elements(net[Peer(s)]) : m.seq # n
    BY <1>3, <1>6 DEF Data, OnWire
  <1>9. \A m \in Elements(net[s]) : m.ack # n
    BY <1>4, <1>6 DEF AcksTo
  <1> QED BY <1>5, <1>7, <1>8, <1>9 DEF NumberFree, n

\* Until the numbers go round, which the fifteen packets that an end sends first
\* do not make them, no number is in use when it is taken: these runs are runs of
\* NumberedSpec, so nothing is lost in them nor overtaken.
THEOREM FirstRoundCorrect ==
    Spec /\ [][Rising]_vars => NumberedSpec /\ []NothingLost /\ []FirstInOrder
  <1>1. Init => RisingInv
    <2> SUFFICES ASSUME Init PROVE RisingInv
      OBVIOUS
    <2>1. TextInv /\ TypeOK
      BY InitText DEF TextInv, ArmedInv
    <2>2. ASSUME NEW s \in Side PROVE UpTo(s)
      <3>1. /\ last[s] = NoPayload /\ loops[s] = {} /\ net[s] = <<>> /\ net[Peer(s)] = <<>>
            /\ myseq[s] = 0 /\ remseq[Peer(s)] = 0
        BY Sides DEF Init
      <3>2. Data(s) = {NoPayload} /\ AcksTo(s) = {}
        BY <3>1 DEF Data, AcksTo, Resent, OnWire, Elements
      <3>3. NoPayload.seq = 0
        BY Made
      <3> QED BY <3>1, <3>2, <3>3 DEF UpTo
    <2> QED BY <2>1, <2>2 DEF TextInv, RisingInv
  <1>2. RisingInv /\ [Next]_vars /\ [Rising]_vars => RisingInv' /\ [NumberedNext]_vars
    <2> SUFFICES ASSUME RisingInv, [Next]_vars, [Rising]_vars
                 PROVE  RisingInv' /\ [NumberedNext]_vars
      OBVIOUS
    <2>1. Rising
      <3>1. CASE UNCHANGED vars
        <4>1. TypeOK
          BY DEF RisingInv, ArmedInv
        <4>2. \A s \in Side : myseq[s] \in Nat /\ myseq'[s] = myseq[s]
          BY <3>1, <4>1, SolAssumption DEF vars, TypeOK
        <4> QED BY <4>2 DEF Rising
      <3> QED BY <3>1
    <2>2. RisingInv'
      BY <2>1, RisingStep
    <2>3. TypeOK'
      BY <2>2 DEF RisingInv, ArmedInv
    <2> QED BY <2>1, <2>2, <2>3, RisingFree
  <1>3. Spec /\ [][Rising]_vars => NumberedSpec
    BY <1>1, <1>2, PTL DEF Spec, NumberedSpec
  <1> QED BY <1>3, NothingLostCorrect, FirstInOrderCorrect, PTL
=============================================================================
