---------------------------- MODULE SessionProofs ----------------------------
(***************************************************************************)
(* Theorems about Session for any levels, windows, queues and bounds, over *)
(* wires that lose and reorder: both records have their types, an impulse  *)
(* is dropped only after it was read and handed to the client's handlers,  *)
(* which are given each one once; actions arrive in order.                 *)
(***************************************************************************)
EXTENDS Session, WellFoundedInduction, TLAPS

-----------------------------------------------------------------------------
(* The inductive invariant, of f = fe and c = cl.                          *)

IsSeq(s) == s \in Seq(ToSet(s))

(* A packet that the client has read: if it left since the impulses of a   *)
(* channel were first sent, then they were in it.                          *)
WasRead(f, c, p) ==
  /\ p \in 1 .. f.sendNumber
  /\ \A l \in Levels : f.firstSent[l][Channel(l, p)] <= p =>
       ToSet(f.queue[l][Channel(l, p)]) \subseteq c.seen

FrontEndOK(f, c) ==
  /\ DOMAIN f = {"state", "sendNumber", "receiveNumber", "lastAck",
                 "lastSentSync", "drift", "sync", "probe", "added", "main",
                 "queue", "firstSent", "acked", "lastCycle", "done", "misled"}
  /\ f.state \in States \cup {"ForceSynchronize"}
  /\ f.sendNumber \in Packets
  /\ f.lastAck \in Int /\ f.lastAck <= f.sendNumber
  /\ f.receiveNumber \in Int /\ f.receiveNumber < c.sendNumber
  /\ f.lastSentSync \in 1 .. f.sendNumber + 1
  /\ f.added \in 0 .. MaxImpulses
  /\ f.acked \subseteq Impulses /\ f.acked \subseteq c.seen

QueuesOK(f) ==
  /\ f.main \in [Levels -> Seq(Impulses)]
  /\ DOMAIN f.queue = Levels /\ DOMAIN f.firstSent = Levels
  /\ \A l \in Levels :
       /\ f.queue[l] \in [Channels(l) -> Seq(Impulses)]
       /\ f.firstSent[l] \in [Channels(l) -> Packets]
       /\ \A ch \in Channels(l) : Len(f.queue[l][ch]) <= QueueSize

(* The shard was given the blocks 1 .. lastCycle.                          *)
GivenOK(g) ==
  /\ g.lastCycle \in 0 .. MaxActions
  /\ g.done \in Seq(Blocks) /\ Len(g.done) = g.lastCycle
  /\ \A i \in 1 .. g.lastCycle : g.done[i] = i

ClientOK(f, c) ==
  /\ DOMAIN c = {"state", "sendNumber", "last", "acked", "lastInLong",
                 "latestSync", "sync", "decoded", "probes", "actions",
                 "cycle", "seen", "log"}
  /\ c.state \in States \cup {"Login"}
  /\ c.sendNumber \in 1 .. MaxMessages + 1
  /\ c.last \in 0 .. f.sendNumber /\ c.acked \subseteq 1 .. c.last
  /\ c.latestSync \in 0 .. c.last
  /\ \A p \in c.acked : WasRead(f, c, p)
  /\ c.state = "Connected" => c.last \in c.acked
  /\ c.seen \subseteq Impulses /\ c.log \in Seq(Impulses)

(* The blocks that are kept are the last ones, those before were given to  *)
(* the shard, and so were those that the front end has acknowledged.       *)
Dropped(c) == c.cycle - Len(c.actions)

ActionsOK(f, c) ==
  /\ c.cycle \in 0 .. MaxActions
  /\ c.actions \in Seq([cycle : Blocks, first : 0 .. c.sendNumber - 1])
  /\ Dropped(c) \in 0 .. f.lastCycle
  /\ \A i \in 1 .. Len(c.actions) :
       /\ c.actions[i].cycle = Dropped(c) + i
       /\ c.actions[i].first # 0 => i <= BlocksPerMessage
       /\ c.actions[i].first # 0 /\ c.actions[i].first <= f.receiveNumber =>
            c.actions[i].cycle <= f.lastCycle

(* The datagrams in flight: a normal one holds what its channels still     *)
(* hold; an acknowledgement is of packets that were read; a datagram has   *)
(* all the blocks that it was the first to have, or that came before.      *)
SentToClient(f, m) ==
  /\ m.num \in 1 .. f.sendNumber
  /\ m.kind \in {"normal", "SYNC", "PROBE", "STALLED"}
  /\ m.kind = "SYNC" => m.code \in 1 .. m.num
  /\ m.kind = "normal" =>
       /\ m.ack \in Int /\ m.ack <= f.receiveNumber
       /\ m.impulses \in [Levels -> Seq(Impulses)]
       /\ \A l \in Levels : f.firstSent[l][Channel(l, m.num)] <= m.num =>
            ToSet(f.queue[l][Channel(l, m.num)]) \subseteq ToSet(m.impulses[l])

HasBlocks(f, c, m) ==
  /\ m.blocks \in Seq(Blocks)
  /\ \A i \in 1 .. Len(m.blocks) : /\ m.blocks[i] = m.blocks[1] + (i - 1)
                                   /\ m.blocks[1] <= f.lastCycle + 1
  /\ \A i \in 1 .. Len(c.actions) :
       c.actions[i].first # 0 /\ c.actions[i].first <= m.num =>
         \/ c.actions[i].cycle <= f.lastCycle
         \/ \E j \in 1 .. Len(m.blocks) : m.blocks[j] = c.actions[i].cycle

SentToFE(f, c, m) ==
  /\ m.num \in 1 .. c.sendNumber - 1
  /\ m.kind \in {"ACK_SYNC", "ACK_PROBE", "normal"}
  /\ m.kind = "ACK_SYNC" => /\ m.front \in 0 .. f.sendNumber
                            /\ m.code \in 0 .. m.front
                            /\ \A p \in m.acked : WasRead(f, c, p)
  /\ m.kind = "normal" => /\ \A p \in m.mask \cup {m.last} : WasRead(f, c, p)
                          /\ HasBlocks(f, c, m)

SInv ==
  /\ FrontEndOK(fe, cl) /\ QueuesOK(fe) /\ GivenOK(fe)
  /\ ClientOK(fe, cl) /\ ActionsOK(fe, cl)
  /\ IsSeq(toClient) /\ \A m \in ToSet(toClient) : SentToClient(fe, m)
  /\ IsSeq(toFE) /\ \A m \in ToSet(toFE) : SentToFE(fe, cl, m)
-----------------------------------------------------------------------------
(* Sequences and channels.                                                 *)

LEMMA RemoveAtFacts ==
  ASSUME NEW s, IsSeq(s), NEW i \in DOMAIN s
  PROVE  IsSeq(RemoveAt(s, i)) /\ ToSet(RemoveAt(s, i)) \subseteq ToSet(s)
<1> DEFINE S == ToSet(s)
           a == SubSeq(s, 1, i - 1)
           b == SubSeq(s, i + 1, Len(s))
<1>1. s \in Seq(S) /\ i \in 1 .. Len(s)
  BY DEF IsSeq
<1>2. a \in Seq(S) /\ b \in Seq(S)
  <2> HIDE DEF S
  <2> QED
    BY <1>1
<1>3. a \o b \in Seq(S)
  <2> HIDE DEF S, a, b
  <2> QED
    BY <1>2
<1>4. \A t : t \in Seq(S) => ToSet(t) \subseteq S /\ t \in Seq(ToSet(t))
  <2> HIDE DEF S
  <2> QED
    BY DEF ToSet
<1> QED
  BY <1>3, <1>4 DEF RemoveAt, IsSeq

LEMMA AppendFacts ==
  ASSUME NEW s, IsSeq(s), NEW x
  PROVE  IsSeq(Append(s, x)) /\ ToSet(Append(s, x)) \subseteq ToSet(s) \cup {x}
<1> DEFINE S == ToSet(s) \cup {x}
<1>1. s \in Seq(ToSet(s))
  BY DEF IsSeq
<1>2. s \in Seq(S) /\ x \in S
  <2>1. \A T : s \in Seq(T) => s \in Seq(T \cup {x})
    OBVIOUS
  <2> QED
    BY <1>1, <2>1
<1>3. Append(s, x) \in Seq(S)
  <2> HIDE DEF S
  <2> QED
    BY <1>2
<1>4. \A t : t \in Seq(S) => ToSet(t) \subseteq S /\ t \in Seq(ToSet(t))
  <2> HIDE DEF S
  <2> QED
    BY DEF ToSet
<1> QED
  BY <1>3, <1>4 DEF IsSeq

LEMMA CarriedFacts ==
  ASSUME NEW s, IsSeq(s), NEW m, NEW n, NEW t \in Carried(s, m, n)
  PROVE  IsSeq(t) /\ ToSet(t) \subseteq ToSet(s) \cup {m}
BY AppendFacts DEF Carried

(* What has arrived is on the wire.                                        *)
LEMMA ArrivingFacts ==
  ASSUME NEW s, NEW i \in Arriving(s)
  PROVE  i \in DOMAIN s /\ s[i] \in ToSet(s)
BY DEF Arriving, ToSet

LEMMA PowersOfTwo == \A l \in Levels : 2^l \in Nat \ {0}
<1>1. 2^0 = 1
  OBVIOUS
<1>2. 2^1 = 2
  OBVIOUS
<1>3. 2^2 = 4
  OBVIOUS
<1> QED
  <2> SUFFICES ASSUME NEW l \in Levels PROVE 2^l \in Nat \ {0}
    OBVIOUS
  <2>1. CASE l = 0
    BY <1>1, <2>1
  <2>2. CASE l = 1
    BY <1>2, <2>2
  <2>3. CASE l = 2
    BY <1>3, <2>3
  <2> QED
    BY NetAssumption, <2>1, <2>2, <2>3 DEF NetAssumption

LEMMA ChannelFacts ==
  ASSUME NEW l \in Levels, NEW p \in Nat
  PROVE  Channel(l, p) \in Channels(l)
<1>1. 2^l \in Nat \ {0}
  BY PowersOfTwo
<1> DEFINE n == 2^l
<1>2. p % n \in 0 .. n - 1
  <2> HIDE DEF n
  <2> QED
    BY <1>1 DEF n
<1> QED
  BY <1>2 DEF Channel, Channels, n
-----------------------------------------------------------------------------
(* Steps of the front end: what lasts when fe goes from f to g.            *)

Lasts(f, g) ==
  /\ g.sendNumber >= f.sendNumber
  /\ g.lastCycle >= f.lastCycle
  /\ g.receiveNumber >= f.receiveNumber
  /\ \A l \in Levels : \A ch \in Channels(l) :
       \/ g.queue[l][ch] = f.queue[l][ch] /\ g.firstSent[l][ch] = f.firstSent[l][ch]
       \/ g.queue[l][ch] = <<>>
       \/ g.firstSent[l][ch] > f.sendNumber

Typed(f, c) == FrontEndOK(f, c) /\ QueuesOK(f) /\ GivenOK(f)

LEMMA CycleTypes ==
  ASSUME NEW f, NEW c, ActionsOK(f, c), NEW i \in 1 .. Len(c.actions)
  PROVE  /\ c.actions[i] \in [cycle : Blocks, first : 0 .. c.sendNumber - 1]
         /\ c.actions[i].cycle \in Nat /\ c.actions[i].cycle \in Blocks
<1> DEFINE A == [cycle : Blocks, first : 0 .. c.sendNumber - 1]
<1>1. c.actions \in Seq(A)
  BY DEF ActionsOK
<1>2. c.actions[i] \in A
  <2> HIDE DEF A
  <2> QED
    BY <1>1
<1>3. c.actions[i].cycle \in Blocks
  BY <1>2
<1> QED
  BY <1>2, <1>3, ClientAssumption DEF Blocks, ClientAssumption

LEMMA ActionTypes ==
  ASSUME NEW f, NEW c, c.sendNumber \in Nat, ActionsOK(f, c),
         NEW i \in 1 .. Len(c.actions)
  PROVE  /\ c.actions[i] \in [cycle : Blocks, first : 0 .. c.sendNumber - 1]
         /\ c.actions[i].cycle \in Nat /\ c.actions[i].cycle \in Blocks
         /\ c.actions[i].first \in Nat /\ c.actions[i].first < c.sendNumber
<1>1. /\ c.actions[i] \in [cycle : Blocks, first : 0 .. c.sendNumber - 1]
      /\ c.actions[i].cycle \in Nat /\ c.actions[i].cycle \in Blocks
  BY CycleTypes
<1>2. c.actions[i].first \in 0 .. c.sendNumber - 1
  BY <1>1
<1> QED
  BY <1>1, <1>2

LEMMA NumbersLast ==
  ASSUME NEW f, NEW g, NEW c, Typed(f, c), Typed(g, c), Lasts(f, g)
  PROVE  /\ f.sendNumber \in Nat /\ g.sendNumber \in Nat
         /\ f.sendNumber <= g.sendNumber
         /\ f.lastCycle \in Nat /\ g.lastCycle \in Nat
         /\ f.lastCycle <= g.lastCycle
<1>1. f.sendNumber \in Nat /\ g.sendNumber \in Nat
  BY FrontEndAssumption DEF FrontEndAssumption, Typed, FrontEndOK, Packets
<1>2. f.lastCycle \in Nat /\ g.lastCycle \in Nat
  BY ClientAssumption DEF ClientAssumption, Typed, GivenOK
<1> QED
  BY <1>1, <1>2 DEF Lasts

LEMMA WasReadLasts ==
  ASSUME NEW f, NEW g, NEW c, Typed(f, c), Typed(g, c), Lasts(f, g),
         NEW p, WasRead(f, c, p)
  PROVE  WasRead(g, c, p)
<1>1. p \in Nat /\ p <= f.sendNumber /\ p \in 1 .. g.sendNumber
  BY NumbersLast DEF WasRead
<1>2. ASSUME NEW l \in Levels, g.firstSent[l][Channel(l, p)] <= p
      PROVE  ToSet(g.queue[l][Channel(l, p)]) \subseteq c.seen
  <2> DEFINE ch == Channel(l, p)
  <2>1. ch \in Channels(l)
    BY <1>1, ChannelFacts
  <2>2. CASE g.queue[l][ch] = f.queue[l][ch] /\ g.firstSent[l][ch] = f.firstSent[l][ch]
    BY <1>2, <2>2 DEF WasRead
  <2>3. CASE g.queue[l][ch] = <<>>
    BY <2>3 DEF ToSet
  <2>4. CASE g.firstSent[l][ch] > f.sendNumber
    <3>1. g.firstSent[l][ch] \in Nat /\ f.sendNumber \in Nat
      BY <2>1, FrontEndAssumption DEF Typed, FrontEndOK, QueuesOK, Packets, FrontEndAssumption
    <3> QED
      BY <1>1, <1>2, <2>4, <3>1
  <2> QED
    BY <2>1, <2>2, <2>3, <2>4 DEF Lasts
<1> QED
  BY <1>1, <1>2 DEF WasRead

LEMMA SentToClientLasts ==
  ASSUME NEW f, NEW g, NEW c, Typed(f, c), Typed(g, c), Lasts(f, g),
         NEW m, SentToClient(f, m)
  PROVE  SentToClient(g, m)
<1>1. m.num \in Nat /\ m.num <= f.sendNumber /\ m.num \in 1 .. g.sendNumber
  <2>1. m.num \in 1 .. f.sendNumber
    BY DEF SentToClient
  <2> QED
    BY <2>1, NumbersLast
<1>2. ASSUME m.kind = "normal",
             NEW l \in Levels, g.firstSent[l][Channel(l, m.num)] <= m.num
      PROVE  ToSet(g.queue[l][Channel(l, m.num)]) \subseteq ToSet(m.impulses[l])
  <2> DEFINE ch == Channel(l, m.num)
  <2>1. ch \in Channels(l)
    BY <1>1, ChannelFacts
  <2>2. CASE g.queue[l][ch] = f.queue[l][ch] /\ g.firstSent[l][ch] = f.firstSent[l][ch]
    BY <1>2, <2>2 DEF SentToClient
  <2>3. CASE g.queue[l][ch] = <<>>
    BY <2>3 DEF ToSet
  <2>4. CASE g.firstSent[l][ch] > f.sendNumber
    <3>1. g.firstSent[l][ch] \in Nat /\ f.sendNumber \in Nat
      BY <2>1, FrontEndAssumption DEF Typed, FrontEndOK, QueuesOK, Packets, FrontEndAssumption
    <3> QED
      BY <1>1, <1>2, <2>4, <3>1
  <2> QED
    BY <2>1, <2>2, <2>3, <2>4 DEF Lasts
<1>3. ASSUME m.kind = "normal" PROVE m.ack \in Int /\ m.ack <= g.receiveNumber
  BY <1>3 DEF SentToClient, Lasts, Typed, FrontEndOK
<1> QED
  BY <1>1, <1>2, <1>3 DEF SentToClient

LEMMA SentToFELasts ==
  ASSUME NEW f, NEW g, NEW c, Typed(f, c), Typed(g, c), Lasts(f, g),
         ActionsOK(f, c), NEW m, SentToFE(f, c, m)
  PROVE  SentToFE(g, c, m)
<1>1. \A p : WasRead(f, c, p) => WasRead(g, c, p)
  BY WasReadLasts
<1>2. m.kind = "ACK_SYNC" => m.front \in 0 .. g.sendNumber
  <2>1. m.kind = "ACK_SYNC" => m.front \in 0 .. f.sendNumber
    BY DEF SentToFE
  <2> QED
    BY <2>1, NumbersLast
<1>3. f.lastCycle \in Nat /\ g.lastCycle \in Nat /\ f.lastCycle <= g.lastCycle
  BY NumbersLast
<1>4. m.kind = "normal" => HasBlocks(g, c, m)
  <2> SUFFICES ASSUME HasBlocks(f, c, m) PROVE HasBlocks(g, c, m)
    BY DEF SentToFE
  <2>1. \A i \in 1 .. Len(m.blocks) : m.blocks[1] <= g.lastCycle + 1
    <3> SUFFICES ASSUME NEW i \in 1 .. Len(m.blocks) PROVE m.blocks[1] <= g.lastCycle + 1
      OBVIOUS
    <3>1. m.blocks[1] \in Nat /\ m.blocks[1] <= f.lastCycle + 1
      BY ClientAssumption DEF HasBlocks, Blocks, ClientAssumption
    <3> QED
      BY <1>3, <3>1
  <2>2. \A i \in 1 .. Len(c.actions) : c.actions[i].cycle \in Nat
    BY CycleTypes
  <2>3. ASSUME NEW i \in 1 .. Len(c.actions), c.actions[i].cycle <= f.lastCycle
        PROVE  c.actions[i].cycle <= g.lastCycle
    BY <1>3, <2>2, <2>3
  <2> QED
    BY <2>1, <2>3 DEF HasBlocks
<1> QED
  BY <1>1, <1>2, <1>4 DEF SentToFE

LEMMA ClientLasts ==
  ASSUME NEW f, NEW g, NEW c, Typed(f, c), Typed(g, c), Lasts(f, g), ClientOK(f, c)
  PROVE  ClientOK(g, c)
<1>1. \A p : WasRead(f, c, p) => WasRead(g, c, p)
  BY WasReadLasts
<1>2. c.last \in 0 .. g.sendNumber
  <2>1. c.last \in 0 .. f.sendNumber
    BY DEF ClientOK
  <2> QED
    BY <2>1, NumbersLast
<1> QED
  BY <1>1, <1>2 DEF ClientOK

(* The front end has read no further datagram.                             *)
LEMMA ActionsLast ==
  ASSUME NEW f, NEW g, NEW c, Typed(f, c), Typed(g, c), Lasts(f, g),
         g.receiveNumber = f.receiveNumber, ActionsOK(f, c)
  PROVE  ActionsOK(g, c)
<1>1. f.lastCycle \in Nat /\ g.lastCycle \in Nat /\ f.lastCycle <= g.lastCycle
  BY NumbersLast
<1>2. Dropped(c) \in 0 .. g.lastCycle
  BY <1>1 DEF ActionsOK
<1>3. \A i \in 1 .. Len(c.actions) : c.actions[i].cycle \in Nat
  BY CycleTypes
<1>4. ASSUME NEW i \in 1 .. Len(c.actions), c.actions[i].cycle <= f.lastCycle
      PROVE  c.actions[i].cycle <= g.lastCycle
  BY <1>1, <1>3, <1>4
<1> QED
  BY <1>2, <1>4 DEF ActionsOK

LEMMA FrontEndStep ==
  ASSUME SInv, cl' = cl, Typed(fe', cl), Lasts(fe, fe'), ActionsOK(fe', cl),
         IsSeq(toClient'), IsSeq(toFE'), ToSet(toFE') \subseteq ToSet(toFE),
         \A m \in ToSet(toClient') : m \in ToSet(toClient) \/ SentToClient(fe', m)
  PROVE  SInv'
<1>1. Typed(fe, cl) /\ ClientOK(fe, cl) /\ ActionsOK(fe, cl)
  BY DEF SInv, Typed
<1>2. \A m \in ToSet(toClient') : SentToClient(fe', m)
  <2> SUFFICES ASSUME NEW m \in ToSet(toClient), SentToClient(fe, m)
               PROVE  SentToClient(fe', m)
    BY DEF SInv
  <2> QED
    BY <1>1, SentToClientLasts
<1>3. \A m \in ToSet(toFE') : SentToFE(fe', cl, m)
  <2> SUFFICES ASSUME NEW m, SentToFE(fe, cl, m)
               PROVE  SentToFE(fe', cl, m)
    BY DEF SInv
  <2> QED
    BY <1>1, SentToFELasts
<1>4. ClientOK(fe', cl)
  BY <1>1, ClientLasts
<1> QED
  BY <1>2, <1>3, <1>4 DEF SInv, Typed

(* Most steps of the front end change what no other variable depends on.   *)
SameQueues(f, g) ==
  /\ DOMAIN g = DOMAIN f
  /\ g.main = f.main /\ g.queue = f.queue /\ g.firstSent = f.firstSent
  /\ g.acked = f.acked /\ g.lastCycle = f.lastCycle /\ g.done = f.done
  /\ g.receiveNumber = f.receiveNumber /\ g.lastAck = f.lastAck
  /\ g.lastSentSync = f.lastSentSync /\ g.added = f.added

LEMMA SameQueuesLast ==
  ASSUME NEW f, NEW g, NEW c, Typed(f, c), ActionsOK(f, c), SameQueues(f, g),
         g.state \in States \cup {"ForceSynchronize"},
         g.sendNumber \in Packets, g.sendNumber >= f.sendNumber
  PROVE  Typed(g, c) /\ Lasts(f, g) /\ ActionsOK(g, c)
<1>1. f.sendNumber \in Nat /\ g.sendNumber \in Nat
  BY FrontEndAssumption DEF Typed, FrontEndOK, Packets, FrontEndAssumption
<1>2. FrontEndOK(g, c)
  BY <1>1 DEF Typed, FrontEndOK, SameQueues
<1>3. QueuesOK(g) /\ GivenOK(g)
  BY DEF Typed, QueuesOK, GivenOK, SameQueues
<1>4. Lasts(f, g)
  <2>1. f.lastCycle \in Int /\ f.receiveNumber \in Int
    BY DEF Typed, FrontEndOK, GivenOK
  <2> QED
    BY <2>1 DEF Lasts, SameQueues
<1>5. Typed(g, c)
  BY <1>2, <1>3 DEF Typed
<1> QED
  BY <1>4, <1>5, ActionsLast DEF SameQueues

LEMMA ToProbeFacts ==
  ASSUME NEW f, NEW c, Typed(f, c)
  PROVE  /\ SameQueues(f, ToProbe(f))
         /\ ToProbe(f).state = "Probe" /\ ToProbe(f).sendNumber = f.sendNumber
BY DEF ToProbe, SameQueues, Typed, FrontEndOK

LEMMA ClientLagsStep == SInv /\ ClientLags /\ cl' = cl => SInv'
<1> SUFFICES ASSUME SInv, ClientLags, cl' = cl PROVE SInv'
  OBVIOUS
<1>1. Typed(fe, cl) /\ ActionsOK(fe, cl)
  BY DEF SInv, Typed
<1>2. SameQueues(fe, fe') /\ fe'.state = "Probe" /\ fe'.sendNumber = fe.sendNumber
  BY <1>1, ToProbeFacts DEF ClientLags
<1>3. fe.sendNumber \in Nat /\ fe.sendNumber \in Packets
  BY <1>1, FrontEndAssumption DEF Typed, FrontEndOK, Packets, FrontEndAssumption
<1>4. Typed(fe', cl) /\ Lasts(fe, fe') /\ ActionsOK(fe', cl)
  BY <1>1, <1>2, <1>3, SameQueuesLast DEF States
<1> QED
  BY <1>4, FrontEndStep DEF SInv, ClientLags, wires

LEMMA ResynchronizeStep ==
  SInv /\ setClientsToSynchronizeState /\ cl' = cl => SInv'
<1> SUFFICES ASSUME SInv, setClientsToSynchronizeState, cl' = cl PROVE SInv'
  OBVIOUS
<1>1. Typed(fe, cl) /\ ActionsOK(fe, cl)
  BY DEF SInv, Typed
<1>2. SameQueues(fe, fe') /\ fe'.state = "ForceSynchronize" /\ fe'.sendNumber = fe.sendNumber
  BY <1>1 DEF setClientsToSynchronizeState, SameQueues, Typed, FrontEndOK
<1>3. fe.sendNumber \in Nat /\ fe.sendNumber \in Packets
  BY <1>1, FrontEndAssumption DEF Typed, FrontEndOK, Packets, FrontEndAssumption
<1>4. Typed(fe', cl) /\ Lasts(fe, fe') /\ ActionsOK(fe', cl)
  BY <1>1, <1>2, <1>3, SameQueuesLast
<1> QED
  BY <1>4, FrontEndStep DEF SInv, setClientsToSynchronizeState, wires

(* A system datagram is sent.                                              *)
LEMMA SystemStep ==
  ASSUME SInv, MaySend, cl' = cl, toFE' = toFE, SameQueues(fe, fe'),
         fe'.state \in States, fe'.sendNumber = fe.sendNumber + 1,
         NEW m, ToClient(m), SentToClient(fe', m)
  PROVE  SInv'
<1>1. Typed(fe, cl) /\ ActionsOK(fe, cl)
  BY DEF SInv, Typed
<1>2. fe.sendNumber \in Nat /\ fe'.sendNumber \in Packets
  BY <1>1, FrontEndAssumption DEF Typed, FrontEndOK, Packets, FrontEndAssumption, MaySend
<1>3. Typed(fe', cl) /\ Lasts(fe, fe') /\ ActionsOK(fe', cl)
  BY <1>1, <1>2, SameQueuesLast
<1>4. IsSeq(toClient') /\ ToSet(toClient') \subseteq ToSet(toClient) \cup {m}
  BY CarriedFacts DEF SInv, ToClient
<1> QED
  BY <1>3, <1>4, FrontEndStep DEF SInv

LEMMA SendSystemSteps ==
  SInv /\ (SendSync \/ SendProbe \/ Stall) /\ cl' = cl => SInv'
<1> SUFFICES ASSUME SInv, SendSync \/ SendProbe \/ Stall, cl' = cl PROVE SInv'
  OBVIOUS
<1>1. Typed(fe, cl) /\ fe.sendNumber \in Nat
  BY FrontEndAssumption DEF SInv, Typed, FrontEndOK, Packets, FrontEndAssumption
<1>2. CASE SendSync
  <2> DEFINE f == [fe EXCEPT !.state = "Synchronize", !.sendNumber = @ + 1,
                             !.sync = fe.drift]
             m == [num |-> f.sendNumber, kind |-> "SYNC",
                  code |-> f.lastSentSync, sync |-> f.sync]
  <2>1. fe' = f /\ ToClient(m) /\ MaySend /\ toFE' = toFE
    BY <1>2 DEF SendSync
  <2>2. /\ SameQueues(fe, f) /\ f.state = "Synchronize"
        /\ f.sendNumber = fe.sendNumber + 1 /\ f.lastSentSync = fe.lastSentSync
    BY <1>1 DEF SameQueues, Typed, FrontEndOK
  <2>3. m.num = f.sendNumber /\ m.kind = "SYNC" /\ m.code = f.lastSentSync
    OBVIOUS
  <2>4. SentToClient(f, m)
    BY <1>1, <2>2, <2>3 DEF SentToClient, Typed, FrontEndOK
  <2> HIDE DEF m, f
  <2> QED
    BY <2>1, <2>2, <2>4, SystemStep DEF States
<1>3. CASE SendProbe
  <2> DEFINE f == [fe EXCEPT !.sendNumber = @ + 1, !.probe.sent = @ + 1]
             m == [num |-> f.sendNumber, kind |-> "PROBE", probe |-> f.probe.sent]
  <2>1. fe' = f /\ ToClient(m) /\ MaySend /\ toFE' = toFE /\ fe.state = "Probe"
    BY <1>3 DEF SendProbe
  <2>2. /\ SameQueues(fe, f) /\ f.state = fe.state
        /\ f.sendNumber = fe.sendNumber + 1
    BY <1>1 DEF SameQueues, Typed, FrontEndOK
  <2>3. m.num = f.sendNumber /\ m.kind = "PROBE"
    OBVIOUS
  <2>4. SentToClient(f, m)
    BY <1>1, <2>2, <2>3 DEF SentToClient
  <2> HIDE DEF m, f
  <2> QED
    BY <2>1, <2>2, <2>4, SystemStep DEF States
<1>4. CASE Stall
  <2> DEFINE f == [fe EXCEPT !.state = "Stalled", !.sendNumber = @ + 1,
                             !.drift = @ + 1]
             m == [num |-> f.sendNumber, kind |-> "STALLED"]
  <2>1. fe' = f /\ ToClient(m) /\ MaySend /\ toFE' = toFE
    BY <1>4 DEF Stall
  <2>2. /\ SameQueues(fe, f) /\ f.state = "Stalled"
        /\ f.sendNumber = fe.sendNumber + 1
    BY <1>1 DEF SameQueues, Typed, FrontEndOK
  <2>3. m.num = f.sendNumber /\ m.kind = "STALLED"
    OBVIOUS
  <2>4. SentToClient(f, m)
    BY <1>1, <2>2, <2>3 DEF SentToClient
  <2> HIDE DEF m, f
  <2> QED
    BY <2>1, <2>2, <2>4, SystemStep DEF States
<1> QED
  BY <1>2, <1>3, <1>4

LEMMA AddImpulseStep ==
  ASSUME SInv, NEW l \in Levels, AddImpulse(l), cl' = cl
  PROVE  SInv'
<1>1. Typed(fe, cl) /\ ActionsOK(fe, cl) /\ DOMAIN fe.main = Levels
  BY DEF SInv, Typed, QueuesOK
<1>2. /\ DOMAIN fe' = DOMAIN fe /\ fe'.added = fe.added + 1
      /\ fe'.main = [fe.main EXCEPT ![l] = Append(@, <<l, fe.added + 1>>)]
      /\ fe'.queue = fe.queue /\ fe'.firstSent = fe.firstSent
      /\ fe'.acked = fe.acked /\ fe'.lastCycle = fe.lastCycle /\ fe'.done = fe.done
      /\ fe'.receiveNumber = fe.receiveNumber /\ fe'.lastAck = fe.lastAck
      /\ fe'.lastSentSync = fe.lastSentSync /\ fe'.sendNumber = fe.sendNumber
      /\ fe'.state = fe.state
  BY <1>1 DEF AddImpulse, Typed, FrontEndOK
<1>3. fe'.added \in 1 .. MaxImpulses
  BY <1>1, <1>2, FrontEndAssumption
  DEF AddImpulse, Typed, FrontEndOK, FrontEndAssumption
<1>4. fe'.main \in [Levels -> Seq(Impulses)]
  <2>1. <<l, fe.added + 1>> \in Impulses
    BY <1>2, <1>3 DEF Impulses
  <2>2. fe.main[l] \in Seq(Impulses)
    BY <1>1 DEF Typed, QueuesOK
  <2>3. Append(fe.main[l], <<l, fe.added + 1>>) \in Seq(Impulses)
    BY <2>1, <2>2
  <2> QED
    BY <1>1, <1>2, <2>3 DEF Typed, QueuesOK
<1>5. FrontEndOK(fe', cl)
  BY <1>1, <1>2, <1>3 DEF Typed, FrontEndOK
<1>6. QueuesOK(fe') /\ GivenOK(fe')
  BY <1>1, <1>2, <1>4 DEF Typed, QueuesOK, GivenOK
<1>7. Lasts(fe, fe')
  <2>1. fe.sendNumber \in Int /\ fe.lastCycle \in Int /\ fe.receiveNumber \in Int
    BY <1>1 DEF Typed, FrontEndOK, GivenOK, Packets
  <2> QED
    BY <1>2, <2>1 DEF Lasts
<1>8. Typed(fe', cl)
  BY <1>5, <1>6 DEF Typed
<1>9. ActionsOK(fe', cl)
  BY <1>1, <1>2, <1>7, <1>8, ActionsLast
<1> QED
  BY <1>7, <1>8, <1>9, FrontEndStep DEF SInv, AddImpulse, wires

(* CImpulseQueue::send.                                                    *)
LEMMA FittingFacts ==
  ASSUME NEW s \in Seq(Impulses)
  PROVE  /\ Fitting(s) \in Seq(Impulses) /\ Len(Fitting(s)) <= QueueSize
         /\ SubSeq(s, Len(Fitting(s)) + 1, Len(s)) \in Seq(Impulses)
<1> DEFINE n == IF Len(s) < QueueSize THEN Len(s) ELSE QueueSize
<1>1. n \in 0 .. Len(s) /\ n <= QueueSize
  BY FrontEndAssumption DEF FrontEndAssumption
<1> HIDE DEF n
<1>2. SubSeq(s, 1, n) \in Seq(Impulses) /\ Len(SubSeq(s, 1, n)) = n
  BY <1>1
<1>3. SubSeq(s, n + 1, Len(s)) \in Seq(Impulses)
  BY <1>1
<1> QED
  BY <1>1, <1>2, <1>3 DEF Fitting, n

LEMMA RefilledFacts ==
  ASSUME NEW f, NEW c, Typed(f, c), f.sendNumber < MaxPackets
  PROVE  LET n == f.sendNumber + 1
             g == Refilled([f EXCEPT !.sendNumber = @ + 1], n)
         IN  /\ Typed(g, c) /\ Lasts(f, g)
             /\ g.receiveNumber = f.receiveNumber
             /\ g.sendNumber = n /\ n \in Packets
<1> DEFINE n == f.sendNumber + 1
           h == [f EXCEPT !.sendNumber = @ + 1]
           g == Refilled(h, n)
<1>1. /\ f.sendNumber \in Nat /\ n \in Packets /\ n \in Nat
  BY FrontEndAssumption DEF FrontEndAssumption, Typed, FrontEndOK, Packets
<1>2. /\ DOMAIN h = DOMAIN f /\ h.sendNumber = n
      /\ h.main = f.main /\ h.queue = f.queue /\ h.firstSent = f.firstSent
      /\ h.acked = f.acked /\ h.lastCycle = f.lastCycle /\ h.done = f.done
      /\ h.receiveNumber = f.receiveNumber /\ h.lastAck = f.lastAck
      /\ h.lastSentSync = f.lastSentSync /\ h.added = f.added /\ h.state = f.state
  BY DEF Typed, FrontEndOK
<1> HIDE DEF h
<1>3. /\ DOMAIN g = DOMAIN f /\ g.sendNumber = n
      /\ g.acked = f.acked /\ g.lastCycle = f.lastCycle /\ g.done = f.done
      /\ g.receiveNumber = f.receiveNumber /\ g.lastAck = f.lastAck
      /\ g.lastSentSync = f.lastSentSync /\ g.added = f.added /\ g.state = f.state
  BY <1>2 DEF Refilled, Typed, FrontEndOK
<1> DEFINE refill(l) == f.queue[l][Channel(l, n)] = <<>>
           hits(l, ch) == refill(l) /\ ch = Channel(l, n)
<1>4. /\ g.queue = [l \in Levels |-> [ch \in Channels(l) |->
                      IF hits(l, ch) THEN Fitting(f.main[l]) ELSE f.queue[l][ch]]]
      /\ g.firstSent = [l \in Levels |-> [ch \in Channels(l) |->
                      IF hits(l, ch) THEN n ELSE f.firstSent[l][ch]]]
      /\ g.main = [l \in Levels |->
                      IF refill(l)
                      THEN SubSeq(f.main[l], Len(Fitting(f.main[l])) + 1, Len(f.main[l]))
                      ELSE f.main[l]]
  BY <1>2 DEF Refilled, Typed, FrontEndOK
<1> HIDE DEF g
<1>5. \A l \in Levels : /\ f.main[l] \in Seq(Impulses)
                        /\ Fitting(f.main[l]) \in Seq(Impulses)
                        /\ Len(Fitting(f.main[l])) <= QueueSize
                        /\ SubSeq(f.main[l], Len(Fitting(f.main[l])) + 1, Len(f.main[l]))
                             \in Seq(Impulses)
  BY FittingFacts DEF Typed, QueuesOK
<1>6. g.main \in [Levels -> Seq(Impulses)]
  BY <1>4, <1>5
<1>7. \A l \in Levels : \A ch \in Channels(l) :
        /\ g.queue[l][ch] = IF hits(l, ch) THEN Fitting(f.main[l]) ELSE f.queue[l][ch]
        /\ g.firstSent[l][ch] = IF hits(l, ch) THEN n ELSE f.firstSent[l][ch]
  BY <1>4
<1>8. QueuesOK(g)
  <2>1. \A l \in Levels : \A ch \in Channels(l) :
          /\ g.queue[l][ch] \in Seq(Impulses) /\ Len(g.queue[l][ch]) <= QueueSize
          /\ g.firstSent[l][ch] \in Packets
    BY <1>1, <1>5, <1>7 DEF Typed, QueuesOK
  <2>2. \A l \in Levels : /\ g.queue[l] \in [Channels(l) -> Seq(Impulses)]
                          /\ g.firstSent[l] \in [Channels(l) -> Packets]
    BY <1>4, <2>1
  <2>3. DOMAIN g.queue = Levels /\ DOMAIN g.firstSent = Levels
    BY <1>4
  <2> QED
    BY <1>6, <2>1, <2>2, <2>3 DEF QueuesOK
<1>9. FrontEndOK(g, c) /\ GivenOK(g)
  <2>1. f.lastAck <= n /\ f.lastSentSync \in 1 .. n + 1
    BY <1>1 DEF Typed, FrontEndOK
  <2> QED
    BY <1>1, <1>3, <2>1 DEF Typed, FrontEndOK, GivenOK
<1>10. Lasts(f, g)
  <2>1. f.lastCycle \in Int /\ f.receiveNumber \in Int
    BY DEF Typed, FrontEndOK, GivenOK
  <2>2. n > f.sendNumber /\ n >= f.sendNumber
    BY <1>1
  <2> HIDE DEF hits, n
  <2> QED
    BY <1>3, <1>7, <2>1, <2>2 DEF Lasts
<1> QED
  BY <1>1, <1>3, <1>8, <1>9, <1>10 DEF Typed, g, h

LEMMA SendNormalStep == SInv /\ SendNormal /\ cl' = cl => SInv'
<1> SUFFICES ASSUME SInv, SendNormal, cl' = cl PROVE SInv'
  OBVIOUS
<1> DEFINE f == Refilled([fe EXCEPT !.sendNumber = @ + 1], fe.sendNumber + 1)
           m == [num |-> f.sendNumber, kind |-> "normal", ack |-> f.receiveNumber,
                 impulses |-> [l \in Levels |-> f.queue[l][Channel(l, f.sendNumber)]]]
<1>1. Typed(fe, cl) /\ ActionsOK(fe, cl)
  BY DEF SInv, Typed
<1>2. fe' = f /\ ToClient(m) /\ toFE' = toFE /\ fe.sendNumber < MaxPackets
  BY DEF SendNormal, MaySend
<1>3. /\ Typed(f, cl) /\ Lasts(fe, f) /\ f.receiveNumber = fe.receiveNumber
      /\ f.sendNumber = fe.sendNumber + 1
  BY <1>1, <1>2, RefilledFacts
<1> HIDE DEF f
<1>4. f.sendNumber \in Nat \ {0} /\ f.receiveNumber \in Int
  BY <1>1, <1>3, FrontEndAssumption DEF Typed, FrontEndOK, Packets, FrontEndAssumption
<1>5. \A l \in Levels : f.queue[l][Channel(l, f.sendNumber)] \in Seq(Impulses)
  BY <1>3, <1>4, ChannelFacts DEF Typed, QueuesOK
<1>6. SentToClient(f, m)
  BY <1>4, <1>5 DEF SentToClient
<1>7. IsSeq(toClient') /\ ToSet(toClient') \subseteq ToSet(toClient) \cup {m}
  <2> HIDE DEF m
  <2> QED
    BY <1>2, CarriedFacts DEF SInv, ToClient
<1>8. ActionsOK(f, cl)
  BY <1>1, <1>3, ActionsLast
<1> HIDE DEF m
<1> QED
  BY <1>2, <1>3, <1>6, <1>7, <1>8, FrontEndStep DEF SInv

(* CImpulseQueue::flush.                                                   *)
LEMMA AcknowledgedFacts ==
  ASSUME NEW f, NEW c, Typed(f, c), NEW packets, \A p \in packets : WasRead(f, c, p)
  PROVE  LET g == Acknowledged(f, packets)
         IN  /\ DOMAIN g = DOMAIN f /\ QueuesOK(g)
             /\ g.acked \subseteq Impulses /\ g.acked \subseteq c.seen
             /\ \A l \in Levels : \A ch \in Channels(l) :
                  \/ /\ g.queue[l][ch] = f.queue[l][ch]
                     /\ g.firstSent[l][ch] = f.firstSent[l][ch]
                  \/ g.queue[l][ch] = <<>>
             /\ \A x \in DOMAIN f \ {"queue", "acked"} : g[x] = f[x]
<1> DEFINE g == Acknowledged(f, packets)
           flushed(l, ch) == \E p \in packets : /\ Channel(l, p) = ch
                                                /\ p >= f.firstSent[l][ch]
<1>1. DOMAIN g = DOMAIN f /\ \A x \in DOMAIN f \ {"queue", "acked"} : g[x] = f[x]
  BY DEF Acknowledged
<1>2. /\ g.queue = [l \in Levels |-> [ch \in Channels(l) |->
                      IF flushed(l, ch) THEN <<>> ELSE f.queue[l][ch]]]
      /\ g.acked = f.acked \cup UNION {UNION {ToSet(f.queue[l][ch]) :
                      ch \in {ch \in Channels(l) : flushed(l, ch)}} : l \in Levels}
      /\ g.firstSent = f.firstSent /\ g.main = f.main
  BY DEF Acknowledged, Typed, FrontEndOK
<1>3. ASSUME NEW l \in Levels, NEW ch \in Channels(l), flushed(l, ch)
      PROVE  ToSet(f.queue[l][ch]) \subseteq c.seen
  <2>1. PICK p \in packets : Channel(l, p) = ch /\ p >= f.firstSent[l][ch]
    BY <1>3
  <2>2. WasRead(f, c, p) /\ p \in Int
    BY <2>1 DEF WasRead
  <2>3. f.firstSent[l][ch] \in Int
    BY DEF Typed, QueuesOK, Packets
  <2>4. f.firstSent[l][Channel(l, p)] <= p
    BY <2>1, <2>2, <2>3
  <2> QED
    BY <2>1, <2>2, <2>4 DEF WasRead
<1>4. \A l \in Levels : \A ch \in Channels(l) : ToSet(f.queue[l][ch]) \subseteq Impulses
  <2> SUFFICES ASSUME NEW l \in Levels, NEW ch \in Channels(l)
               PROVE  ToSet(f.queue[l][ch]) \subseteq Impulses
    OBVIOUS
  <2>1. f.queue[l][ch] \in Seq(Impulses)
    BY DEF Typed, QueuesOK
  <2> QED
    BY <2>1 DEF ToSet
<1>5. g.acked \subseteq Impulses /\ g.acked \subseteq c.seen
  <2>1. f.acked \subseteq Impulses /\ f.acked \subseteq c.seen
    BY DEF Typed, FrontEndOK
  <2> HIDE DEF flushed, g
  <2> QED
    BY <1>2, <1>3, <1>4, <2>1
<1> HIDE DEF g
<1>6. \A l \in Levels : \A ch \in Channels(l) :
        g.queue[l][ch] = IF flushed(l, ch) THEN <<>> ELSE f.queue[l][ch]
  BY <1>2
<1> HIDE DEF flushed
<1>7. QueuesOK(g)
  <2>1. \A l \in Levels : \A ch \in Channels(l) :
          g.queue[l][ch] \in Seq(Impulses) /\ Len(g.queue[l][ch]) <= QueueSize
    <3>1. <<>> \in Seq(Impulses) /\ Len(<<>>) <= QueueSize
      BY FrontEndAssumption DEF FrontEndAssumption
    <3>2. \A l \in Levels : \A ch \in Channels(l) :
            f.queue[l][ch] \in Seq(Impulses) /\ Len(f.queue[l][ch]) <= QueueSize
      BY DEF Typed, QueuesOK
    <3> QED
      BY <1>6, <3>1, <3>2
  <2>2. \A l \in Levels : g.queue[l] \in [Channels(l) -> Seq(Impulses)]
    BY <1>2, <2>1
  <2>3. DOMAIN g.queue = Levels
    BY <1>2
  <2> QED
    BY <1>2, <2>1, <2>2, <2>3 DEF Typed, QueuesOK
<1> QED
  BY <1>1, <1>2, <1>5, <1>6, <1>7 DEF g

(* The acknowledgement of a SYNC.                                          *)
LEMMA OnAckSyncFacts ==
  ASSUME NEW f, NEW c, Typed(f, c), ActionsOK(f, c),
         NEW m, SentToFE(f, c, m), m.kind = "ACK_SYNC"
  PROVE  LET g == OnAckSync(f, m)
         IN  Typed(g, c) /\ Lasts(f, g) /\ ActionsOK(g, c)
<1> DEFINE g == OnAckSync(f, m)
           a == Acknowledged(f, LongAcks(f, m))
<1>1. f.sendNumber \in Packets /\ f.sendNumber \in Nat
  BY FrontEndAssumption DEF Typed, FrontEndOK, Packets, FrontEndAssumption
<1>2. CASE f.state # "Synchronize"
  <2>1. g = f
    BY <1>2 DEF OnAckSync
  <2>2. Lasts(f, f)
    BY <1>1 DEF Lasts, Typed, FrontEndOK, GivenOK
  <2> QED
    BY <2>1, <2>2
<1>3. CASE f.state = "Synchronize" /\ m.code # f.lastSentSync
  <2>1. g = [f EXCEPT !.state = "Connected", !.misled = TRUE]
    BY <1>3 DEF OnAckSync
  <2>2. SameQueues(f, g) /\ g.state = "Connected" /\ g.sendNumber = f.sendNumber
    BY <2>1 DEF SameQueues, Typed, FrontEndOK
  <2> HIDE DEF g
  <2> QED
    BY <1>1, <2>2, SameQueuesLast DEF States, g
<1>4. CASE f.state = "Synchronize" /\ m.code = f.lastSentSync
  <2>1. \A p \in LongAcks(f, m) : WasRead(f, c, p)
    BY DEF LongAcks, SentToFE
  <2>2. /\ DOMAIN a = DOMAIN f /\ QueuesOK(a)
        /\ a.acked \subseteq Impulses /\ a.acked \subseteq c.seen
        /\ \A l \in Levels : \A ch \in Channels(l) :
             \/ /\ a.queue[l][ch] = f.queue[l][ch]
                /\ a.firstSent[l][ch] = f.firstSent[l][ch]
             \/ a.queue[l][ch] = <<>>
        /\ \A x \in DOMAIN f \ {"queue", "acked"} : a[x] = f[x]
    BY <2>1, AcknowledgedFacts
  <2> HIDE DEF a
  <2>3. g = [a EXCEPT !.state = "Connected", !.lastAck = m.front, !.lastSentSync = @ + 1,
                      !.misled = @ \/ (f.lastAck # None /\ m.back > f.lastAck + 1)]
    BY <1>4 DEF OnAckSync, a
  <2>4. /\ DOMAIN g = DOMAIN f /\ g.state = "Connected" /\ g.lastAck = m.front
        /\ g.lastSentSync = f.lastSentSync + 1
        /\ g.sendNumber = f.sendNumber /\ g.receiveNumber = f.receiveNumber
        /\ g.added = f.added /\ g.lastCycle = f.lastCycle /\ g.done = f.done
        /\ g.acked = a.acked /\ g.queue = a.queue /\ g.firstSent = a.firstSent
        /\ g.main = a.main
    BY <2>2, <2>3 DEF Typed, FrontEndOK
  <2> HIDE DEF g
  <2>5. m.front \in Int /\ m.front <= f.sendNumber /\ f.lastSentSync <= f.sendNumber
    BY <1>1, <1>4 DEF SentToFE, Typed, FrontEndOK
  <2>6. FrontEndOK(g, c)
    <3>1. f.lastSentSync + 1 \in 1 .. f.sendNumber + 1
      BY <1>1, <2>5 DEF Typed, FrontEndOK
    <3> QED
      BY <1>1, <2>2, <2>4, <2>5, <3>1 DEF Typed, FrontEndOK, States
  <2>7. QueuesOK(g) /\ GivenOK(g)
    BY <2>2, <2>4 DEF QueuesOK, GivenOK, Typed
  <2>8. Lasts(f, g)
    <3>1. f.lastCycle \in Int /\ f.receiveNumber \in Int
      BY DEF Typed, FrontEndOK, GivenOK
    <3> QED
      BY <1>1, <2>2, <2>4, <3>1 DEF Lasts
  <2>9. Typed(g, c)
    BY <2>6, <2>7 DEF Typed
  <2> QED
    BY <2>4, <2>8, <2>9, ActionsLast DEF g
<1> QED
  BY <1>2, <1>3, <1>4

LEMMA OnAckProbeFacts ==
  ASSUME NEW f, NEW c, Typed(f, c), ActionsOK(f, c), NEW m
  PROVE  LET g == OnAckProbe(f, m)
         IN  Typed(g, c) /\ Lasts(f, g) /\ ActionsOK(g, c)
<1> DEFINE g == OnAckProbe(f, m)
<1>1. f.sendNumber \in Packets /\ f.sendNumber \in Nat
  BY FrontEndAssumption DEF Typed, FrontEndOK, Packets, FrontEndAssumption
<1>2. /\ SameQueues(f, g) /\ g.state \in {f.state, "Synchronize"}
      /\ g.sendNumber = f.sendNumber
  <2> DEFINE pr == FoldLeft(CountProbe, f.probe, m.probes)
  <2>1. \/ g = f
        \/ g = [f EXCEPT !.probe = pr]
        \/ g = [f EXCEPT !.probe = pr, !.state = "Synchronize", !.sync = f.drift]
    BY DEF OnAckProbe
  <2> HIDE DEF pr, g
  <2> QED
    BY <2>1 DEF SameQueues, Typed, FrontEndOK
<1> HIDE DEF g
<1>3. g.state \in States \cup {"ForceSynchronize"}
  BY <1>2 DEF Typed, FrontEndOK, States
<1> QED
  BY <1>1, <1>2, <1>3, SameQueuesLast DEF g

(* The loop over the blocks: a function that its definition determines.    *)
IsAfter(h, start, blocks, n) ==
  h = [i \in 0 .. n |-> IF i = 0 THEN start ELSE Process(h[i - 1], blocks[i])]

LEMMA AfterExists ==
  ASSUME NEW start, NEW blocks, NEW n \in Nat
  PROVE  \E h : IsAfter(h, start, blocks, n)
<1> DEFINE After(h, k) == IsAfter(h, start, blocks, k)
           Bad == {k \in Nat : ~ \E h : After(h, k)}
<1> USE DEF IsAfter
<1>1. 0 \notin Bad
  <2> DEFINE h == [i \in 0 .. 0 |-> start]
  <2>1. After(h, 0)
    BY SMT
  <2> QED
    BY <2>1
<1>2. ASSUME NEW k \in Nat, k \notin Bad PROVE k + 1 \notin Bad
  <2>1. PICK h : After(h, k)
    BY <1>2
  <2> DEFINE e == [i \in 0 .. k + 1 |->
                     IF i <= k THEN h[i] ELSE Process(h[k], blocks[k + 1])]
  <2>2. \A i \in 0 .. k : e[i] = h[i]
    OBVIOUS
  <2>3. \A i \in 0 .. k + 1 :
          e[i] = IF i = 0 THEN start ELSE Process(e[i - 1], blocks[i])
    <3> SUFFICES ASSUME NEW i \in 0 .. k + 1
                 PROVE  e[i] = IF i = 0 THEN start ELSE Process(e[i - 1], blocks[i])
      OBVIOUS
    <3>1. CASE i = 0
      <4>1. e[0] = h[0] /\ h[0] = start
        BY <2>1, <2>2
      <4> QED
        BY <3>1, <4>1
    <3>2. CASE i \in 1 .. k
      <4>1. i - 1 \in 0 .. k /\ i \in 0 .. k /\ i # 0
        BY <3>2
      <4>2. e[i] = h[i] /\ e[i - 1] = h[i - 1]
        BY <2>2, <4>1
      <4>3. h[i] = Process(h[i - 1], blocks[i])
        BY <2>1, <4>1
      <4> QED
        BY <4>1, <4>2, <4>3
    <3>3. CASE i = k + 1
      <4>1. i - 1 = k /\ k \in 0 .. k /\ i # 0 /\ ~(i <= k)
        BY <3>3
      <4>2. e[i] = Process(h[k], blocks[i]) /\ e[k] = h[k]
        BY <2>2, <3>3, <4>1
      <4> QED
        BY <4>1, <4>2
    <3> QED
      BY <3>1, <3>2, <3>3
  <2>4. e = [i \in 0 .. k + 1 |-> e[i]]
    OBVIOUS
  <2> HIDE DEF e
  <2>5. After(e, k + 1)
    BY <2>3, <2>4, Zenon
  <2> QED
    BY <2>5
<1> HIDE DEF Bad
<1>3. Bad = {}
  <2> SUFFICES ASSUME Bad # {} PROVE FALSE
    OBVIOUS
  <2>1. Bad \subseteq Nat
    BY DEF Bad
  <2>2. PICK k \in Bad : \A j \in Bad : ~(<<j, k>> \in OpToRel(<, Nat))
    BY <2>1, NatLessThanWellFounded, WFMin
  <2>3. k \in Nat /\ \A j \in Bad : ~(j < k)
    BY <2>1, <2>2 DEF OpToRel
  <2>4. k # 0
    BY <1>1, <2>2
  <2>5. k - 1 \in Nat /\ (k - 1) + 1 = k /\ k - 1 < k
    BY <2>3, <2>4
  <2>6. k - 1 \notin Bad
    BY <2>3, <2>5
  <2> QED
    BY <1>2, <2>2, <2>5, <2>6
<1> QED
  BY <1>3 DEF Bad

(* CFeReceiveSub: one block, then all of them.                             *)
LEMMA ProcessFacts ==
  ASSUME NEW b, GivenOK(b), NEW x \in Blocks, x <= b.lastCycle + 1
  PROVE  LET d == Process(b, x)
         IN  GivenOK(d) /\ d.lastCycle >= b.lastCycle /\ x <= d.lastCycle
<1>1. x \in Nat /\ x >= 1 /\ x <= MaxActions /\ b.lastCycle \in Nat
  BY ClientAssumption DEF Blocks, GivenOK, ClientAssumption
<1>2. CASE x <= b.lastCycle
  BY <1>1, <1>2 DEF Process
<1>3. CASE ~(x <= b.lastCycle)
  <2> DEFINE d == [lastCycle |-> x, done |-> Append(b.done, x)]
  <2>1. Process(b, x) = d
    BY <1>3 DEF Process
  <2>2. x = b.lastCycle + 1
    BY <1>1, <1>3
  <2>3. d.done \in Seq(Blocks) /\ Len(d.done) = x
    BY <2>2 DEF GivenOK
  <2>4. \A i \in 1 .. x : d.done[i] = i
    <3> SUFFICES ASSUME NEW i \in 1 .. x PROVE d.done[i] = i
      OBVIOUS
    <3>1. CASE i = x
      BY <1>1, <2>2, <3>1 DEF GivenOK
    <3>2. CASE i # x
      <4>1. i \in 1 .. b.lastCycle
        BY <1>1, <2>2, <3>2
      <4> QED
        BY <4>1 DEF GivenOK
    <3> QED
      BY <3>1, <3>2
  <2>5. GivenOK(d)
    BY <1>1, <2>3, <2>4 DEF GivenOK
  <2> QED
    BY <1>1, <2>1, <2>2, <2>5
<1> QED
  BY <1>2, <1>3

LEMMA AllProcessedFacts ==
  ASSUME NEW b, GivenOK(b), NEW blocks \in Seq(Blocks),
         \A i \in 1 .. Len(blocks) : /\ blocks[i] = blocks[1] + (i - 1)
                                     /\ blocks[1] <= b.lastCycle + 1
  PROVE  LET d == AllProcessed(b, blocks)
         IN  /\ GivenOK(d) /\ d.lastCycle >= b.lastCycle
             /\ \A i \in 1 .. Len(blocks) : blocks[i] <= d.lastCycle
<1> DEFINE n == Len(blocks)
           after == CHOOSE h : IsAfter(h, b, blocks, n)
           Good(i) == /\ GivenOK(after[i]) /\ after[i].lastCycle >= b.lastCycle
                      /\ \A j \in 1 .. i : blocks[j] <= after[i].lastCycle
           Bad == {i \in 0 .. n : ~ Good(i)}
<1>1. n \in Nat /\ b.lastCycle \in Nat
  BY ClientAssumption DEF GivenOK, ClientAssumption
<1>2. \E h : IsAfter(h, b, blocks, n)
  <2> HIDE DEF n
  <2> QED
    BY <1>1, AfterExists
<1>3. IsAfter(after, b, blocks, n)
  BY <1>2
<1>4. AllProcessed(b, blocks) = after[n]
  BY DEF AllProcessed, IsAfter
<1> HIDE DEF after
<1>5. after[0] = b
  BY <1>1, <1>3 DEF IsAfter
<1>6. \A i \in 1 .. n : after[i] = Process(after[i - 1], blocks[i])
  <2> SUFFICES ASSUME NEW i \in 1 .. n PROVE after[i] = Process(after[i - 1], blocks[i])
    OBVIOUS
  <2>1. i \in 0 .. n /\ i # 0
    BY <1>1
  <2> QED
    BY <1>3, <2>1 DEF IsAfter
<1>7. Good(0)
  BY <1>1, <1>5
<1>8. ASSUME NEW i \in 1 .. n, Good(i - 1) PROVE Good(i)
  <2> DEFINE a == after[i - 1]
  <2>1. a.lastCycle \in Nat /\ GivenOK(a) /\ a.lastCycle >= b.lastCycle
    BY <1>8, ClientAssumption DEF GivenOK, ClientAssumption
  <2>2. blocks[i] \in Blocks /\ blocks[i] \in Nat
    BY ClientAssumption DEF Blocks, ClientAssumption
  <2>3. blocks[i] <= a.lastCycle + 1
    <3>1. CASE i = 1
      <4>1. blocks[1] <= b.lastCycle + 1
        OBVIOUS
      <4> QED
        BY <1>1, <2>1, <2>2, <3>1, <4>1
    <3>2. CASE i # 1
      <4>1. i - 1 \in 1 .. n /\ i - 1 \in 1 .. i - 1
        BY <1>1, <3>2
      <4>2. blocks[i - 1] <= a.lastCycle
        BY <1>8, <4>1
      <4>3. blocks[1] \in Nat /\ blocks[i - 1] = blocks[1] + ((i - 1) - 1)
        <5>1. 1 \in 1 .. n
          BY <1>1, <4>1
        <5>2. blocks[1] \in Nat
          BY <5>1, ClientAssumption DEF Blocks, ClientAssumption
        <5>3. blocks[i - 1] = blocks[1] + ((i - 1) - 1)
          BY <4>1
        <5> QED
          BY <5>2, <5>3
      <4>4. blocks[i] = blocks[1] + (i - 1)
        OBVIOUS
      <4> QED
        BY <2>1, <4>2, <4>3, <4>4
    <3> QED
      BY <3>1, <3>2
  <2>4. /\ GivenOK(after[i]) /\ after[i].lastCycle >= a.lastCycle
        /\ blocks[i] <= after[i].lastCycle
    BY <1>6, <2>1, <2>2, <2>3, ProcessFacts
  <2>5. after[i].lastCycle \in Nat
    BY <2>4, ClientAssumption DEF GivenOK, ClientAssumption
  <2>6. ASSUME NEW j \in 1 .. i PROVE blocks[j] <= after[i].lastCycle
    <3>1. CASE j = i
      BY <2>4, <3>1
    <3>2. CASE j # i
      <4>1. j \in 1 .. i - 1 /\ j \in 1 .. n
        BY <1>1, <3>2
      <4>2. blocks[j] \in Nat /\ blocks[j] <= a.lastCycle
        BY <1>8, <4>1, ClientAssumption DEF Blocks, ClientAssumption
      <4> QED
        BY <2>1, <2>4, <2>5, <4>2
    <3> QED
      BY <3>1, <3>2
  <2> QED
    BY <1>1, <2>1, <2>4, <2>5, <2>6
<1>9. Bad = {}
  <2> SUFFICES ASSUME Bad # {} PROVE FALSE
    OBVIOUS
  <2>1. Bad \subseteq Nat
    BY <1>1
  <2>2. PICK k \in Bad : \A j \in Bad : ~(<<j, k>> \in OpToRel(<, Nat))
    <3> HIDE DEF Bad
    <3> QED
      BY <2>1, NatLessThanWellFounded, WFMin
  <2>3. k \in 0 .. n /\ ~ Good(k) /\ \A j \in Bad : ~(j < k)
    <3> HIDE DEF Good
    <3> QED
      BY <2>1, <2>2 DEF OpToRel
  <2> HIDE DEF Good
  <2>4. k # 0
    BY <1>7, <2>3
  <2>5. k \in 1 .. n /\ k - 1 \in 0 .. n /\ k - 1 < k
    BY <1>1, <2>3, <2>4
  <2>6. Good(k - 1)
    BY <2>3, <2>5
  <2> QED
    BY <1>8, <2>3, <2>5, <2>6
<1>10. Good(n)
  <2> HIDE DEF Good
  <2>1. n \in 0 .. n
    BY <1>1
  <2> QED
    BY <1>9, <2>1
<1> QED
  BY <1>4, <1>10

(* A normal datagram: its acknowledgements and its blocks.                 *)
LEMMA OnNormalFacts ==
  ASSUME NEW f, NEW c, Typed(f, c), ActionsOK(f, c), c.sendNumber \in Nat,
         NEW m, SentToFE(f, c, m), m.kind = "normal", m.num > f.receiveNumber
  PROVE  LET g == OnNormal(f, m)
         IN  Typed(g, c) /\ Lasts(f, g) /\ ActionsOK(g, c)
<1> DEFINE g == OnNormal(f, m)
           acks == IF m.last = 0 THEN {} ELSE MaskAcks(f, m)
           a == Acknowledged(f, acks)
           b == [lastCycle |-> f.lastCycle, done |-> f.done]
           d == AllProcessed(b, m.blocks)
<1>1. f.sendNumber \in Packets /\ f.sendNumber \in Nat
  BY FrontEndAssumption DEF Typed, FrontEndOK, Packets, FrontEndAssumption
<1>2. CASE f.state # "Connected"
  <2>1. g = f
    BY <1>2 DEF OnNormal
  <2>2. Lasts(f, f)
    BY <1>1 DEF Lasts, Typed, FrontEndOK, GivenOK
  <2> QED
    BY <2>1, <2>2
<1>3. CASE f.state = "Connected" /\ TooManyLost(f, m)
  <2>1. g = ToProbe(f)
    BY <1>3 DEF OnNormal
  <2>2. SameQueues(f, g) /\ g.state = "Probe" /\ g.sendNumber = f.sendNumber
    BY <2>1, ToProbeFacts
  <2> HIDE DEF g
  <2> QED
    BY <1>1, <2>2, SameQueuesLast DEF States, g
<1>4. CASE f.state = "Connected" /\ ~ TooManyLost(f, m)
  <2>1. \A p \in acks : WasRead(f, c, p)
    BY DEF MaskAcks, SentToFE
  <2>2. /\ DOMAIN a = DOMAIN f /\ QueuesOK(a)
        /\ a.acked \subseteq Impulses /\ a.acked \subseteq c.seen
        /\ \A l \in Levels : \A ch \in Channels(l) :
             \/ /\ a.queue[l][ch] = f.queue[l][ch]
                /\ a.firstSent[l][ch] = f.firstSent[l][ch]
             \/ a.queue[l][ch] = <<>>
        /\ \A x \in DOMAIN f \ {"queue", "acked"} : a[x] = f[x]
    <3> HIDE DEF acks
    <3> QED
      BY <2>1, AcknowledgedFacts
  <2>3. HasBlocks(f, c, m)
    BY DEF SentToFE
  <2>4. /\ GivenOK(d) /\ d.lastCycle >= f.lastCycle
        /\ \A i \in 1 .. Len(m.blocks) : m.blocks[i] <= d.lastCycle
    <3>1. GivenOK(b) /\ b.lastCycle = f.lastCycle
      BY DEF Typed, GivenOK
    <3>2. /\ m.blocks \in Seq(Blocks)
          /\ \A i \in 1 .. Len(m.blocks) : /\ m.blocks[i] = m.blocks[1] + (i - 1)
                                           /\ m.blocks[1] <= b.lastCycle + 1
      BY <2>3, <3>1 DEF HasBlocks
    <3> HIDE DEF b
    <3> QED
      BY <3>1, <3>2, AllProcessedFacts
  <2>5. g = [a EXCEPT !.lastAck = m.last, !.receiveNumber = m.num,
                      !.lastCycle = d.lastCycle, !.done = d.done]
    BY <1>4 DEF OnNormal
  <2> HIDE DEF a, d
  <2>6. /\ DOMAIN g = DOMAIN f /\ g.lastAck = m.last /\ g.receiveNumber = m.num
        /\ g.lastCycle = d.lastCycle /\ g.done = d.done
        /\ g.state = f.state /\ g.sendNumber = f.sendNumber
        /\ g.lastSentSync = f.lastSentSync /\ g.added = f.added
        /\ g.acked = a.acked /\ g.queue = a.queue /\ g.firstSent = a.firstSent
        /\ g.main = a.main
    BY <2>2, <2>5 DEF Typed, FrontEndOK
  <2> HIDE DEF g, acks
  <2>7. /\ m.last \in Int /\ m.last <= f.sendNumber
        /\ m.num \in Int /\ m.num < c.sendNumber
    BY <1>1 DEF SentToFE, WasRead
  <2>8. FrontEndOK(g, c)
    BY <1>1, <2>2, <2>6, <2>7 DEF Typed, FrontEndOK
  <2>9. QueuesOK(g) /\ GivenOK(g)
    BY <2>2, <2>4, <2>6 DEF QueuesOK, GivenOK
  <2>10. Typed(g, c)
    BY <2>8, <2>9 DEF Typed
  <2>11. f.lastCycle \in Nat /\ d.lastCycle \in Nat /\ f.receiveNumber \in Int
    BY <2>4, ClientAssumption DEF Typed, FrontEndOK, GivenOK, ClientAssumption
  <2>12. Lasts(f, g)
    BY <1>1, <2>2, <2>4, <2>6, <2>7, <2>11 DEF Lasts
  <2>13. ASSUME NEW i \in 1 .. Len(c.actions),
                c.actions[i].first # 0, c.actions[i].first <= m.num
         PROVE  c.actions[i].cycle <= d.lastCycle
    <3>1. c.actions[i].cycle \in Nat
      BY ActionTypes
    <3>2. CASE c.actions[i].cycle <= f.lastCycle
      BY <2>4, <2>11, <3>1, <3>2
    <3>3. CASE \E j \in 1 .. Len(m.blocks) : m.blocks[j] = c.actions[i].cycle
      BY <2>4, <3>3
    <3> QED
      BY <2>3, <2>13, <3>2, <3>3 DEF HasBlocks
  <2>14. Dropped(c) \in 0 .. d.lastCycle
    BY <2>4, <2>11 DEF ActionsOK
  <2>15. ActionsOK(g, c)
    BY <2>6, <2>13, <2>14 DEF ActionsOK
  <2> QED
    BY <2>10, <2>12, <2>15 DEF g
<1> QED
  BY <1>2, <1>3, <1>4

LEMMA FEReceiveStep == SInv /\ FEReceive /\ cl' = cl => SInv'
<1> SUFFICES ASSUME SInv, FEReceive, cl' = cl PROVE SInv'
  OBVIOUS
<1>1. PICK i \in Arriving(toFE) :
        fe' = Receive(fe, toFE[i]) /\ toFE' = RemoveAt(toFE, i)
  BY DEF FEReceive
<1> DEFINE m == toFE[i]
<1>2. i \in DOMAIN toFE /\ m \in ToSet(toFE)
  BY ArrivingFacts
<1>3. Typed(fe, cl) /\ ActionsOK(fe, cl) /\ SentToFE(fe, cl, m)
  BY <1>2 DEF SInv, Typed
<1>4. IsSeq(toFE') /\ ToSet(toFE') \subseteq ToSet(toFE)
  BY <1>1, <1>2, RemoveAtFacts DEF SInv
<1>5. m.num \in Int /\ fe.receiveNumber \in Int /\ cl.sendNumber \in Nat
  BY <1>3, ClientAssumption
  DEF SentToFE, Typed, FrontEndOK, SInv, ClientOK, ClientAssumption
<1> HIDE DEF m
<1>6. Typed(fe', cl) /\ Lasts(fe, fe') /\ ActionsOK(fe', cl)
  <2>1. CASE m.num <= fe.receiveNumber
    <3>1. fe' = fe
      BY <1>1, <2>1 DEF Receive, m
    <3>2. Lasts(fe, fe)
      BY <1>3, FrontEndAssumption
      DEF Lasts, Typed, FrontEndOK, GivenOK, Packets, FrontEndAssumption
    <3> QED
      BY <1>3, <3>1, <3>2
  <2>2. CASE ~(m.num <= fe.receiveNumber) /\ m.kind = "ACK_SYNC"
    <3>1. fe' = OnAckSync(fe, m)
      BY <1>1, <2>2 DEF Receive, m
    <3> QED
      BY <1>3, <2>2, <3>1, OnAckSyncFacts
  <2>3. CASE ~(m.num <= fe.receiveNumber) /\ m.kind = "ACK_PROBE"
    <3>1. fe' = OnAckProbe(fe, m)
      BY <1>1, <2>3 DEF Receive, m
    <3> QED
      BY <1>3, <3>1, OnAckProbeFacts
  <2>4. CASE ~(m.num <= fe.receiveNumber) /\ m.kind = "normal"
    <3>1. fe' = OnNormal(fe, m)
      BY <1>1, <2>4 DEF Receive, m
    <3>2. m.num > fe.receiveNumber
      BY <1>5, <2>4
    <3> QED
      BY <1>3, <1>5, <2>4, <3>1, <3>2, OnNormalFacts
  <2> QED
    BY <1>3, <2>1, <2>2, <2>3, <2>4 DEF SentToFE
<1> QED
  BY <1>4, <1>6, FrontEndStep DEF SInv, FEReceive

LEMMA FrontEndSteps == SInv /\ FENext /\ cl' = cl => SInv'
BY AddImpulseStep, SendNormalStep, SendSystemSteps, ClientLagsStep,
   ResynchronizeStep, FEReceiveStep DEF FENext
-----------------------------------------------------------------------------
(* Steps of the client: what lasts when cl goes from c to d.  A block that *)
(* was in a datagram is one that it still had before.                      *)

Grows(c, d) ==
  /\ c.seen \subseteq d.seen
  /\ c.sendNumber <= d.sendNumber
  /\ \A i \in 1 .. Len(d.actions) :
       d.actions[i].first # 0 /\ d.actions[i].first < c.sendNumber =>
         \E j \in 1 .. Len(c.actions) : c.actions[j] = d.actions[i]

LEMMA SentToFEGrows ==
  ASSUME NEW f, NEW c, NEW d, Grows(c, d), ActionsOK(f, d),
         c.sendNumber \in Nat, d.sendNumber \in Nat,
         NEW m, SentToFE(f, c, m)
  PROVE  SentToFE(f, d, m)
<1>1. m.num \in 1 .. d.sendNumber - 1 /\ m.num \in Int /\ m.num < c.sendNumber
  BY DEF SentToFE, Grows
<1>2. \A p : WasRead(f, c, p) => WasRead(f, d, p)
  BY DEF WasRead, Grows
<1>3. m.kind = "normal" => HasBlocks(f, d, m)
  <2> SUFFICES ASSUME HasBlocks(f, c, m) PROVE HasBlocks(f, d, m)
    BY DEF SentToFE
  <2>1. ASSUME NEW i \in 1 .. Len(d.actions),
               d.actions[i].first # 0, d.actions[i].first <= m.num
        PROVE  \/ d.actions[i].cycle <= f.lastCycle
               \/ \E j \in 1 .. Len(m.blocks) : m.blocks[j] = d.actions[i].cycle
    <3>1. d.actions[i].first \in Nat
      BY ActionTypes
    <3>2. d.actions[i].first < c.sendNumber
      BY <1>1, <2>1, <3>1
    <3>3. PICK j \in 1 .. Len(c.actions) : c.actions[j] = d.actions[i]
      BY <2>1, <3>2 DEF Grows
    <3> QED
      BY <2>1, <3>3 DEF HasBlocks
  <2> QED
    BY <2>1 DEF HasBlocks
<1> QED
  BY <1>1, <1>2, <1>3 DEF SentToFE

LEMMA ClientStep ==
  ASSUME SInv, fe' = fe, ClientOK(fe, cl'), ActionsOK(fe, cl'), Grows(cl, cl'),
         IsSeq(toFE'), IsSeq(toClient'), ToSet(toClient') \subseteq ToSet(toClient),
         \A m \in ToSet(toFE') : m \in ToSet(toFE) \/ SentToFE(fe, cl', m)
  PROVE  SInv'
<1>1. cl.sendNumber \in Nat /\ cl'.sendNumber \in Nat
  BY ClientAssumption DEF SInv, ClientOK, ClientAssumption
<1>2. \A m \in ToSet(toFE') : SentToFE(fe, cl', m)
  <2> SUFFICES ASSUME NEW m, SentToFE(fe, cl, m) PROVE SentToFE(fe, cl', m)
    BY DEF SInv
  <2> QED
    BY <1>1, SentToFEGrows
<1>3. FrontEndOK(fe, cl')
  <2>1. fe.receiveNumber < cl'.sendNumber
    BY <1>1 DEF SInv, FrontEndOK, Grows
  <2>2. fe.acked \subseteq cl'.seen
    BY DEF SInv, FrontEndOK, Grows
  <2> QED
    BY <2>1, <2>2 DEF SInv, FrontEndOK
<1> QED
  BY <1>2, <1>3 DEF SInv

(* A datagram of the client, with the blocks that fit.                     *)
SameReads(c, d) ==
  /\ DOMAIN d = DOMAIN c
  /\ d.state = c.state /\ d.last = c.last /\ d.acked = c.acked
  /\ d.latestSync = c.latestSync /\ d.seen = c.seen /\ d.log = c.log

LEMMA SameReadsOK ==
  ASSUME NEW f, NEW c, NEW d, ClientOK(f, c), SameReads(c, d),
         d.sendNumber \in 1 .. MaxMessages + 1
  PROVE  ClientOK(f, d)
BY DEF ClientOK, SameReads, WasRead

LEMMA SameActions ==
  ASSUME NEW f, NEW c, NEW d, c.sendNumber \in Nat, d.sendNumber \in Nat,
         c.sendNumber <= d.sendNumber, c.seen \subseteq d.seen,
         d.actions = c.actions, d.cycle = c.cycle, ActionsOK(f, c)
  PROVE  ActionsOK(f, d) /\ Grows(c, d)
<1>1. d.actions \in Seq([cycle : Blocks, first : 0 .. d.sendNumber - 1])
  <2> DEFINE A == [cycle : Blocks, first : 0 .. c.sendNumber - 1]
             B == [cycle : Blocks, first : 0 .. d.sendNumber - 1]
  <2>1. A \subseteq B
    OBVIOUS
  <2>2. c.actions \in Seq(A)
    BY DEF ActionsOK
  <2> HIDE DEF A, B
  <2>3. c.actions \in Seq(B)
    BY <2>1, <2>2
  <2> QED
    BY <2>3 DEF B
<1>2. ActionsOK(f, d)
  BY <1>1 DEF ActionsOK, Dropped
<1> QED
  BY <1>2 DEF Grows

LEMMA GrowsFurther ==
  ASSUME NEW f, NEW c, NEW d, NEW e, Grows(c, d), Grows(d, e), ActionsOK(f, e),
         c.sendNumber \in Nat, d.sendNumber \in Nat, e.sendNumber \in Nat
  PROVE  Grows(c, e)
<1>1. c.seen \subseteq e.seen /\ c.sendNumber <= e.sendNumber
  BY DEF Grows
<1>2. ASSUME NEW i \in 1 .. Len(e.actions),
             e.actions[i].first # 0, e.actions[i].first < c.sendNumber
      PROVE  \E j \in 1 .. Len(c.actions) : c.actions[j] = e.actions[i]
  <2>1. e.actions[i].first \in Nat
    BY ActionTypes
  <2>2. e.actions[i].first < d.sendNumber
    BY <1>2, <2>1 DEF Grows
  <2>3. PICK k \in 1 .. Len(d.actions) : d.actions[k] = e.actions[i]
    BY <1>2, <2>2 DEF Grows
  <2> QED
    BY <1>2, <2>3 DEF Grows
<1> QED
  BY <1>1, <1>2 DEF Grows

LEMMA AckSyncFacts ==
  ASSUME NEW f, NEW c, f.sendNumber \in Nat, ClientOK(f, c), ActionsOK(f, c),
         MaySendToFE(c)
  PROVE  LET d == [c EXCEPT !.sendNumber = @ + 1]
             m == [num |-> c.sendNumber, kind |-> "ACK_SYNC", front |-> c.last,
                   back |-> c.lastInLong, acked |-> c.acked, code |-> c.latestSync]
         IN  ClientOK(f, d) /\ ActionsOK(f, d) /\ Grows(c, d) /\ SentToFE(f, d, m)
<1> DEFINE d == [c EXCEPT !.sendNumber = @ + 1]
           m == [num |-> c.sendNumber, kind |-> "ACK_SYNC", front |-> c.last,
                 back |-> c.lastInLong, acked |-> c.acked, code |-> c.latestSync]
<1>1. c.sendNumber \in Nat \ {0} /\ c.sendNumber + 1 \in 1 .. MaxMessages + 1
  BY ClientAssumption DEF ClientOK, MaySendToFE, ClientAssumption
<1>2. /\ SameReads(c, d) /\ d.sendNumber = c.sendNumber + 1
      /\ d.actions = c.actions /\ d.cycle = c.cycle
  BY DEF ClientOK, SameReads
<1>3. \A p : WasRead(f, c, p) => WasRead(f, d, p)
  BY <1>2 DEF WasRead, SameReads
<1> HIDE DEF d
<1>4. ClientOK(f, d)
  BY <1>1, <1>2, SameReadsOK
<1>5. ActionsOK(f, d) /\ Grows(c, d)
  <2>1. d.sendNumber \in Nat /\ c.sendNumber <= d.sendNumber /\ c.seen \subseteq d.seen
    BY <1>1, <1>2 DEF SameReads
  <2> QED
    BY <1>1, <1>2, <2>1, SameActions
<1>6. SentToFE(f, d, m)
  <2>1. m.num \in 1 .. d.sendNumber - 1
    BY <1>1, <1>2
  <2>2. m.front \in 0 .. f.sendNumber /\ m.code \in 0 .. m.front
    BY DEF ClientOK
  <2>3. \A p \in m.acked : WasRead(f, d, p)
    BY <1>3 DEF ClientOK
  <2> QED
    BY <2>1, <2>2, <2>3 DEF SentToFE
<1> QED
  BY <1>4, <1>5, <1>6 DEF d

LEMMA AckProbeFacts ==
  ASSUME NEW f, NEW c, ClientOK(f, c), ActionsOK(f, c), MaySendToFE(c)
  PROVE  LET d == [c EXCEPT !.sendNumber = @ + 1, !.probes = <<>>]
             m == [num |-> c.sendNumber, kind |-> "ACK_PROBE", probes |-> c.probes]
         IN  ClientOK(f, d) /\ ActionsOK(f, d) /\ Grows(c, d) /\ SentToFE(f, d, m)
<1> DEFINE d == [c EXCEPT !.sendNumber = @ + 1, !.probes = <<>>]
           m == [num |-> c.sendNumber, kind |-> "ACK_PROBE", probes |-> c.probes]
<1>1. c.sendNumber \in Nat \ {0} /\ c.sendNumber + 1 \in 1 .. MaxMessages + 1
  BY ClientAssumption DEF ClientOK, MaySendToFE, ClientAssumption
<1>2. /\ SameReads(c, d) /\ d.sendNumber = c.sendNumber + 1
      /\ d.actions = c.actions /\ d.cycle = c.cycle
  BY DEF ClientOK, SameReads
<1> HIDE DEF d
<1>3. ClientOK(f, d)
  BY <1>1, <1>2, SameReadsOK
<1>4. ActionsOK(f, d) /\ Grows(c, d)
  <2>1. d.sendNumber \in Nat /\ c.sendNumber <= d.sendNumber /\ c.seen \subseteq d.seen
    BY <1>1, <1>2 DEF SameReads
  <2> QED
    BY <1>1, <1>2, <2>1, SameActions
<1>5. SentToFE(f, d, m)
  BY <1>1, <1>2 DEF SentToFE
<1> QED
  BY <1>3, <1>4, <1>5 DEF d

(* sendNormalMessage: the blocks that fit are marked and sent.             *)
LEMMA NormalMessageFacts ==
  ASSUME NEW f, NEW c, f.sendNumber \in Nat, f.receiveNumber \in Int,
         f.receiveNumber < c.sendNumber, f.lastCycle \in Nat,
         ClientOK(f, c), ActionsOK(f, c), MaySendToFE(c), c.state = "Connected"
  PROVE  LET sent(i) == i <= BlocksPerMessage
             mark(i) == IF sent(i) /\ c.actions[i].first = 0
                        THEN [c.actions[i] EXCEPT !.first = c.sendNumber]
                        ELSE c.actions[i]
             blocks  == [i \in {i \in DOMAIN c.actions : sent(i)}
                             |-> c.actions[i].cycle]
             d == [c EXCEPT !.sendNumber = @ + 1,
                            !.actions = [i \in DOMAIN c.actions |-> mark(i)]]
             m == [num |-> c.sendNumber, kind |-> "normal", last |-> c.last,
                   mask |-> c.acked \cap (c.last - AckBits .. c.last - 1),
                   blocks |-> blocks]
         IN  ClientOK(f, d) /\ ActionsOK(f, d) /\ Grows(c, d) /\ SentToFE(f, d, m)
<1> DEFINE sent(i) == i <= BlocksPerMessage
           mark(i) == IF sent(i) /\ c.actions[i].first = 0
                      THEN [c.actions[i] EXCEPT !.first = c.sendNumber]
                      ELSE c.actions[i]
           blocks  == [i \in {i \in DOMAIN c.actions : sent(i)}
                           |-> c.actions[i].cycle]
           d == [c EXCEPT !.sendNumber = @ + 1,
                          !.actions = [i \in DOMAIN c.actions |-> mark(i)]]
           m == [num |-> c.sendNumber, kind |-> "normal", last |-> c.last,
                 mask |-> c.acked \cap (c.last - AckBits .. c.last - 1),
                 blocks |-> blocks]
           n == Len(c.actions)
<1>1. c.sendNumber \in Nat \ {0} /\ c.sendNumber + 1 \in 1 .. MaxMessages + 1
  BY ClientAssumption DEF ClientOK, MaySendToFE, ClientAssumption
<1>2. /\ SameReads(c, d) /\ d.sendNumber = c.sendNumber + 1 /\ d.cycle = c.cycle
      /\ d.actions = [i \in DOMAIN c.actions |-> mark(i)]
  BY DEF ClientOK, SameReads, ActionsOK
<1>3. \A p : WasRead(f, c, p) => WasRead(f, d, p)
  BY <1>2 DEF WasRead, SameReads
<1>4. DOMAIN c.actions = 1 .. n /\ n \in Nat
  BY DEF ActionsOK
<1>5. \A i \in 1 .. n : /\ c.actions[i] \in [cycle : Blocks, first : 0 .. c.sendNumber - 1]
                        /\ c.actions[i].cycle \in Nat /\ c.actions[i].cycle \in Blocks
                        /\ c.actions[i].first \in Nat
                        /\ c.actions[i].first < c.sendNumber
  BY <1>1, ActionTypes
<1> HIDE DEF d
<1>6. ClientOK(f, d)
  BY <1>1, <1>2, SameReadsOK
<1>7. \A i \in 1 .. n :
        /\ d.actions[i] \in [cycle : Blocks, first : 0 .. d.sendNumber - 1]
        /\ d.actions[i].cycle = c.actions[i].cycle
        /\ \/ d.actions[i] = c.actions[i]
           \/ d.actions[i].first = c.sendNumber /\ i <= BlocksPerMessage
  <2> SUFFICES ASSUME NEW i \in 1 .. n
               PROVE  /\ mark(i) \in [cycle : Blocks, first : 0 .. d.sendNumber - 1]
                      /\ mark(i).cycle = c.actions[i].cycle
                      /\ \/ mark(i) = c.actions[i]
                         \/ mark(i).first = c.sendNumber /\ i <= BlocksPerMessage
    BY <1>2, <1>4
  <2>1. CASE sent(i) /\ c.actions[i].first = 0
    <3>1. mark(i) = [c.actions[i] EXCEPT !.first = c.sendNumber]
      BY <2>1
    <3>2. c.sendNumber \in 0 .. d.sendNumber - 1
      BY <1>1, <1>2
    <3>3. mark(i).first = c.sendNumber /\ mark(i).cycle = c.actions[i].cycle
      BY <1>5, <3>1
    <3> HIDE DEF mark
    <3> QED
      BY <1>5, <2>1, <3>1, <3>2, <3>3
  <2>2. CASE ~(sent(i) /\ c.actions[i].first = 0)
    BY <1>1, <1>2, <1>5, <2>2
  <2> QED
    BY <2>1, <2>2
<1>8. Len(d.actions) = n /\ DOMAIN d.actions = 1 .. n
  BY <1>2, <1>4
<1>9. d.actions \in Seq([cycle : Blocks, first : 0 .. d.sendNumber - 1])
  <2> DEFINE B == [cycle : Blocks, first : 0 .. d.sendNumber - 1]
  <2>1. \A i \in 1 .. n : d.actions[i] \in B
    BY <1>7
  <2>2. d.actions = [i \in 1 .. n |-> d.actions[i]]
    BY <1>2, <1>4
  <2> HIDE DEF B
  <2>3. d.actions \in Seq(B)
    BY <1>4, <2>1, <2>2
  <2> QED
    BY <2>3 DEF B
<1>10. ActionsOK(f, d)
  <2>1. Dropped(d) = Dropped(c)
    BY <1>2, <1>8 DEF Dropped
  <2>2. ASSUME NEW i \in 1 .. n
        PROVE  /\ d.actions[i].cycle = Dropped(d) + i
               /\ d.actions[i].first # 0 => i <= BlocksPerMessage
               /\ d.actions[i].first # 0 /\ d.actions[i].first <= f.receiveNumber =>
                    d.actions[i].cycle <= f.lastCycle
    <3>1. CASE d.actions[i] = c.actions[i]
      BY <2>1, <3>1 DEF ActionsOK
    <3>2. CASE d.actions[i].first = c.sendNumber /\ i <= BlocksPerMessage
      <4>1. ~(d.actions[i].first <= f.receiveNumber)
        BY <1>1, <3>2
      <4>2. d.actions[i].cycle = Dropped(d) + i
        BY <1>7, <2>1 DEF ActionsOK
      <4> QED
        BY <3>2, <4>1, <4>2
    <3> QED
      BY <1>7, <3>1, <3>2
  <2> QED
    BY <1>2, <1>8, <1>9, <2>1, <2>2 DEF ActionsOK
<1>11. Grows(c, d)
  <2>1. ASSUME NEW i \in 1 .. n, d.actions[i].first < c.sendNumber
        PROVE  d.actions[i] = c.actions[i]
    BY <1>1, <1>7, <2>1
  <2> QED
    BY <1>1, <1>2, <1>8, <2>1 DEF Grows, SameReads
<1>12. HasBlocks(f, d, m)
  <2> DEFINE k == IF n < BlocksPerMessage THEN n ELSE BlocksPerMessage
  <2>1. k \in Nat /\ k <= n /\ {i \in DOMAIN c.actions : sent(i)} = 1 .. k
    BY <1>4, ClientAssumption DEF ClientAssumption
  <2>2. \A i \in 1 .. k : i \in 1 .. n
    BY <1>4, <2>1
  <2> HIDE DEF k
  <2>3. blocks = [i \in 1 .. k |-> c.actions[i].cycle]
    BY <2>1
  <2> HIDE DEF blocks
  <2>4. \A i \in 1 .. k : blocks[i] \in Blocks /\ blocks[i] = Dropped(c) + i
    BY <1>5, <2>2, <2>3 DEF ActionsOK
  <2>5. blocks \in Seq(Blocks) /\ Len(blocks) = k
    <3>1. \A i \in 1 .. k : c.actions[i].cycle \in Blocks
      BY <1>5, <2>2
    <3> QED
      BY <2>1, <2>3, <3>1
  <2>6. Dropped(c) \in Nat /\ Dropped(c) <= f.lastCycle
    BY DEF ActionsOK
  <2>7. ASSUME NEW i \in 1 .. k
        PROVE  blocks[i] = blocks[1] + (i - 1) /\ blocks[1] <= f.lastCycle + 1
    <3>1. 1 \in 1 .. k
      BY <2>1
    <3>2. blocks[1] = Dropped(c) + 1 /\ blocks[i] = Dropped(c) + i
      BY <2>4, <3>1
    <3> QED
      BY <2>6, <3>2
  <2>8. ASSUME NEW i \in 1 .. n, d.actions[i].first # 0
        PROVE  \E j \in 1 .. k : blocks[j] = d.actions[i].cycle
    <3>1. i <= BlocksPerMessage
      BY <1>8, <1>10, <2>8 DEF ActionsOK
    <3>2. i \in 1 .. k
      BY <1>4, <2>1, <3>1
    <3> QED
      BY <1>7, <2>3, <3>2
  <2> QED
    BY <1>8, <2>5, <2>7, <2>8 DEF HasBlocks
<1>13. SentToFE(f, d, m)
  <2> HIDE DEF blocks
  <2>1. m.num \in 1 .. d.sendNumber - 1
    BY <1>1, <1>2
  <2>2. \A p \in m.mask \cup {m.last} : WasRead(f, d, p)
    BY <1>3 DEF ClientOK
  <2> QED
    BY <1>12, <2>1, <2>2 DEF SentToFE
<1> QED
  BY <1>6, <1>10, <1>11, <1>13 DEF d

(* send: a block for the actions of the cycle.                             *)
LEMMA NewBlockFacts ==
  ASSUME NEW f, NEW c, f.lastCycle \in Nat, ClientOK(f, c), ActionsOK(f, c),
         c.cycle < MaxActions
  PROVE  LET d == [c EXCEPT !.cycle = @ + 1,
                     !.actions = Append(@, [cycle |-> c.cycle + 1, first |-> 0])]
         IN  ClientOK(f, d) /\ ActionsOK(f, d) /\ Grows(c, d)
<1> DEFINE b == [cycle |-> c.cycle + 1, first |-> 0]
           d == [c EXCEPT !.cycle = @ + 1, !.actions = Append(@, b)]
           n == Len(c.actions)
           A == [cycle : Blocks, first : 0 .. c.sendNumber - 1]
<1>1. c.sendNumber \in Nat \ {0} /\ c.sendNumber \in 1 .. MaxMessages + 1
  BY ClientAssumption DEF ClientOK, ClientAssumption
<1>2. c.cycle \in Nat /\ c.cycle + 1 \in 1 .. MaxActions
  BY ClientAssumption DEF ActionsOK, ClientAssumption
<1>3. /\ SameReads(c, d) /\ d.sendNumber = c.sendNumber
      /\ d.cycle = c.cycle + 1 /\ d.actions = Append(c.actions, b)
  BY DEF ClientOK, SameReads
<1> HIDE DEF d
<1>4. ClientOK(f, d)
  BY <1>1, <1>3, SameReadsOK
<1>5. b \in A
  BY <1>1, <1>2 DEF Blocks
<1>6. c.actions \in Seq(A)
  BY DEF ActionsOK
<1>7. d.actions \in Seq(A) /\ Len(d.actions) = n + 1 /\ n \in Nat
  <2> HIDE DEF A, b
  <2> QED
    BY <1>3, <1>5, <1>6
<1>8. /\ \A i \in 1 .. n : d.actions[i] = c.actions[i]
      /\ d.actions[n + 1] = b
  <2> HIDE DEF A, b
  <2> QED
    BY <1>3, <1>6
<1>9. ActionsOK(f, d)
  <2>1. Dropped(d) = Dropped(c) /\ Dropped(c) + (n + 1) = c.cycle + 1
    BY <1>2, <1>3, <1>7 DEF Dropped
  <2>2. ASSUME NEW i \in 1 .. n + 1
        PROVE  /\ d.actions[i].cycle = Dropped(d) + i
               /\ d.actions[i].first # 0 => i <= BlocksPerMessage
               /\ d.actions[i].first # 0 /\ d.actions[i].first <= f.receiveNumber =>
                    d.actions[i].cycle <= f.lastCycle
    <3>1. CASE i \in 1 .. n
      BY <1>8, <2>1, <3>1 DEF ActionsOK
    <3>2. CASE i = n + 1
      BY <1>8, <2>1, <3>2
    <3> QED
      BY <1>7, <3>1, <3>2
  <2> QED
    BY <1>2, <1>3, <1>7, <2>1, <2>2 DEF ActionsOK
<1>10. Grows(c, d)
  <2>1. ASSUME NEW i \in 1 .. n + 1, d.actions[i].first # 0
        PROVE  i \in 1 .. n
    BY <1>7, <1>8, <2>1
  <2> QED
    BY <1>1, <1>3, <1>7, <1>8, <2>1 DEF Grows, SameReads
<1> QED
  BY <1>4, <1>9, <1>10 DEF d

(* The blocks that receiveNormalMessage drops were given to the shard.     *)
LEMMA FirstKept ==
  ASSUME NEW s, NEW n \in Nat, s \subseteq 1 .. n
  PROVE  /\ Min(s \cup {n + 1}) \in 1 .. n + 1
         /\ \A i \in 1 .. Min(s \cup {n + 1}) - 1 : i \in 1 .. n /\ i \notin s
<1> DEFINE T == s \cup {n + 1}
<1>1. T \subseteq Nat /\ n + 1 \in T /\ T \subseteq 1 .. n + 1
  OBVIOUS
<1> HIDE DEF T
<1>2. PICK k \in T : \A j \in T : ~(<<j, k>> \in OpToRel(<, Nat))
  BY <1>1, NatLessThanWellFounded, WFMin
<1>3. \A j \in T : k <= j
  <2>1. \A j \in T : ~(j < k)
    BY <1>1, <1>2 DEF OpToRel
  <2> QED
    BY <1>1, <2>1
<1>4. Min(T) \in T /\ \A j \in T : Min(T) <= j
  BY <1>3 DEF Min
<1>5. Min(T) \in 1 .. n + 1
  BY <1>1, <1>4
<1>6. ASSUME NEW i \in 1 .. Min(T) - 1 PROVE i \in 1 .. n /\ i \notin T
  BY <1>4, <1>5
<1> QED
  BY <1>5, <1>6 DEF T

LEMMA UnackedFacts ==
  ASSUME NEW f, NEW c, NEW d, ActionsOK(f, c), c.sendNumber \in Nat,
         f.lastCycle \in Nat, f.receiveNumber \in Int,
         NEW ack \in Int, ack <= f.receiveNumber,
         d.actions = Unacked(c.actions, ack), d.cycle = c.cycle,
         d.sendNumber = c.sendNumber, c.seen \subseteq d.seen
  PROVE  ActionsOK(f, d) /\ Grows(c, d)
<1> DEFINE n == Len(c.actions)
           kept == {i \in DOMAIN c.actions : c.actions[i].first = 0 \/ c.actions[i].first > ack}
           k == Min(kept \cup {n + 1})
           A == [cycle : Blocks, first : 0 .. c.sendNumber - 1]
<1>1. c.actions \in Seq(A) /\ n \in Nat /\ DOMAIN c.actions = 1 .. n
  BY DEF ActionsOK
<1>2. k \in 1 .. n + 1 /\ \A i \in 1 .. k - 1 : i \in 1 .. n /\ i \notin kept
  <2>1. kept \subseteq 1 .. n
    BY <1>1
  <2> HIDE DEF kept, n
  <2> QED
    BY <1>1, <2>1, FirstKept
<1>3. d.actions = SubSeq(c.actions, k, n)
  BY DEF Unacked
<1>4. ASSUME NEW i \in 1 .. k - 1
      PROVE  c.actions[i].cycle <= f.lastCycle
  <2>1. i \in 1 .. n /\ c.actions[i].first # 0 /\ ~(c.actions[i].first > ack)
    BY <1>1, <1>2
  <2>2. c.actions[i].first \in Nat
    BY <2>1, ActionTypes
  <2>3. c.actions[i].first <= f.receiveNumber
    BY <2>1, <2>2
  <2> QED
    BY <2>1, <2>3 DEF ActionsOK
<1> HIDE DEF k
<1>5. /\ d.actions \in Seq(A) /\ Len(d.actions) = (n + 1) - k
      /\ \A i \in 1 .. Len(d.actions) : d.actions[i] = c.actions[k + i - 1]
  <2> HIDE DEF A
  <2> QED
    BY <1>1, <1>2, <1>3
<1>6. \A i \in 1 .. Len(d.actions) : k + i - 1 \in 1 .. n /\ i <= k + i - 1
  BY <1>1, <1>2, <1>5
<1>7. Dropped(d) = Dropped(c) + (k - 1) /\ Dropped(c) \in Nat /\ Dropped(c) <= f.lastCycle
  <2>1. c.cycle \in Int /\ Dropped(c) \in Nat /\ Dropped(c) <= f.lastCycle
    BY DEF ActionsOK
  <2>2. Dropped(c) = c.cycle - n /\ Dropped(d) = c.cycle - ((n + 1) - k)
    BY <1>5 DEF Dropped
  <2>3. n \in Nat /\ k \in Nat
    BY <1>1, <1>2
  <2> HIDE DEF n, kept, A
  <2> QED
    BY <2>1, <2>2, <2>3
<1>8. Dropped(d) \in 0 .. f.lastCycle
  <2>1. CASE k = 1
    BY <1>7, <2>1
  <2>2. CASE k # 1
    <3>1. k - 1 \in 1 .. k - 1 /\ k - 1 \in 1 .. n
      BY <1>1, <1>2, <2>2
    <3>2. c.actions[k - 1].cycle = Dropped(c) + (k - 1)
      BY <3>1 DEF ActionsOK
    <3>3. c.actions[k - 1].cycle <= f.lastCycle
      BY <1>4, <3>1
    <3> QED
      BY <1>2, <1>7, <3>2, <3>3
  <2> QED
    BY <2>1, <2>2
<1>9. ASSUME NEW i \in 1 .. Len(d.actions)
      PROVE  /\ d.actions[i].cycle = Dropped(d) + i
             /\ d.actions[i].first # 0 => i <= BlocksPerMessage
             /\ d.actions[i].first # 0 /\ d.actions[i].first <= f.receiveNumber =>
                  d.actions[i].cycle <= f.lastCycle
  <2> DEFINE j == k + i - 1
  <2>1. j \in 1 .. n /\ i <= j /\ d.actions[i] = c.actions[j] /\ i \in Nat
    <3>1. i \in Nat
      BY <1>5
    <3> HIDE DEF kept, A, n
    <3> QED
      BY <1>5, <1>6, <3>1
  <2>2. Dropped(c) + j = Dropped(d) + i
    <3> HIDE DEF kept, A, n
    <3> QED
      BY <1>2, <1>7, <2>1
  <2> HIDE DEF j
  <2>3. d.actions[i].first # 0 => i <= BlocksPerMessage
    BY <1>1, <2>1, ClientAssumption DEF ActionsOK, ClientAssumption
  <2> QED
    BY <2>1, <2>2, <2>3 DEF ActionsOK
<1>10. ActionsOK(f, d)
  BY <1>5, <1>8, <1>9 DEF ActionsOK
<1>11. Grows(c, d)
  <2>1. \A i \in 1 .. Len(d.actions) :
          \E j \in 1 .. Len(c.actions) : c.actions[j] = d.actions[i]
    BY <1>5, <1>6
  <2>2. c.sendNumber <= d.sendNumber
    OBVIOUS
  <2> QED
    BY <2>1, <2>2 DEF Grows
<1> QED
  BY <1>10, <1>11

(* A datagram is read: d is what it leaves of c.                           *)
LEMMA ReadOK ==
  ASSUME NEW f, NEW c, NEW d, NEW m, ClientOK(f, c), f.sendNumber \in Nat,
         m.num \in 1 .. f.sendNumber, m.num > c.last,
         DOMAIN d = DOMAIN c, d.state \in States \cup {"Login"}, d.last = m.num,
         d.acked \subseteq c.acked \cup {m.num},
         d.sendNumber = c.sendNumber, d.latestSync \in 0 .. m.num,
         c.seen \subseteq d.seen, d.seen \subseteq Impulses, d.log \in Seq(Impulses),
         m.num \in d.acked => WasRead(f, d, m.num),
         d.state = "Connected" => m.num \in d.acked
  PROVE  ClientOK(f, d)
<1>1. c.last \in Nat /\ c.acked \subseteq 1 .. c.last /\ m.num \in Nat
  BY DEF ClientOK
<1>2. d.acked \subseteq 1 .. d.last /\ d.last \in 0 .. f.sendNumber
  BY <1>1
<1>3. \A p \in d.acked : WasRead(f, d, p)
  <2>1. \A p \in c.acked : WasRead(f, d, p)
    BY DEF ClientOK, WasRead
  <2> QED
    BY <2>1
<1> QED
  BY <1>2, <1>3 DEF ClientOK

LEMMA ReceiveNormalFacts ==
  ASSUME NEW f, NEW b, NEW c, NEW m, ClientOK(f, b), ActionsOK(f, b),
         f.sendNumber \in Nat, f.lastCycle \in Nat, f.receiveNumber \in Int,
         SentToClient(f, m), m.kind = "normal", m.num > b.last,
         DOMAIN c = DOMAIN b, c.state = "Connected", c.last = m.num,
         c.acked \subseteq b.acked \cup {m.num}, m.num \in c.acked,
         c.sendNumber = b.sendNumber, c.latestSync = b.latestSync,
         c.seen = b.seen, c.log = b.log, c.actions = b.actions, c.cycle = b.cycle
  PROVE  LET d == receiveNormalMessage(c, m)
         IN  ClientOK(f, d) /\ ActionsOK(f, d) /\ Grows(b, d)
<1> DEFINE d == receiveNormalMessage(c, m)
           read == UNION {ToSet(m.impulses[l]) : l \in Levels}
           log == c.log \o New(c, m, 0) \o New(c, m, 1) \o New(c, m, 2)
<1>1. /\ DOMAIN d = DOMAIN c /\ d.state = c.state /\ d.last = c.last
      /\ d.acked = c.acked /\ d.sendNumber = c.sendNumber /\ d.cycle = c.cycle
      /\ d.latestSync = c.latestSync /\ d.seen = c.seen \cup read /\ d.log = log
      /\ d.actions = Unacked(c.actions, m.ack)
  BY DEF receiveNormalMessage, ClientOK
<1> HIDE DEF d
<1>2. \A l \in Levels : m.impulses[l] \in Seq(Impulses)
  BY DEF SentToClient
<1>3. d.log \in Seq(Impulses)
  <2>1. \A l : New(c, m, l) \in Seq(Impulses)
    <3>1. <<>> \in Seq(Impulses)
      OBVIOUS
    <3> QED
      BY <1>2, <3>1 DEF New
  <2>2. c.log \in Seq(Impulses)
    BY DEF ClientOK
  <2> QED
    BY <1>1, <2>1, <2>2
<1>4. \A l \in Levels : ToSet(m.impulses[l]) \subseteq Impulses
  <2> SUFFICES ASSUME NEW l \in Levels PROVE ToSet(m.impulses[l]) \subseteq Impulses
    OBVIOUS
  <2> QED
    BY <1>2 DEF ToSet
<1>5. d.seen \subseteq Impulses /\ c.seen \subseteq d.seen
  BY <1>1, <1>4 DEF ClientOK
<1>6. WasRead(f, d, m.num)
  <2>1. ASSUME NEW l \in Levels, f.firstSent[l][Channel(l, m.num)] <= m.num
        PROVE  ToSet(f.queue[l][Channel(l, m.num)]) \subseteq d.seen
    <3>1. ToSet(f.queue[l][Channel(l, m.num)]) \subseteq ToSet(m.impulses[l])
      BY <2>1 DEF SentToClient
    <3> QED
      BY <1>1, <3>1
  <2> QED
    BY <2>1 DEF WasRead, SentToClient
<1>7. ClientOK(f, d)
  <2>1. m.num \in 1 .. f.sendNumber /\ b.latestSync \in 0 .. m.num
    BY DEF SentToClient, ClientOK
  <2>2. d.state = "Connected" /\ d.state \in States \cup {"Login"}
    BY <1>1 DEF States
  <2>3. b.seen \subseteq d.seen
    BY <1>1
  <2> HIDE DEF read, log
  <2> QED
    BY <1>1, <1>3, <1>5, <1>6, <2>1, <2>2, <2>3, ReadOK
<1>8. ActionsOK(f, d) /\ Grows(b, d)
  <2>1. b.sendNumber \in Nat
    BY ClientAssumption DEF ClientOK, ClientAssumption
  <2>2. m.ack \in Int /\ m.ack <= f.receiveNumber
    BY DEF SentToClient
  <2> QED
    BY <1>1, <1>5, <2>1, <2>2, UnackedFacts
<1> QED
  BY <1>7, <1>8 DEF d

(* The other datagrams change neither what was read nor the blocks.        *)
LEMMA ReceiveOtherFacts ==
  ASSUME NEW f, NEW b, NEW c, NEW m, ClientOK(f, b), ActionsOK(f, b),
         f.sendNumber \in Nat,
         SentToClient(f, m), m.num > b.last,
         DOMAIN c = DOMAIN b, c.last = m.num,
         c.state \in (States \cup {"Login"}) \ {"Connected"},
         c.acked \subseteq b.acked, c.latestSync \in 0 .. m.num,
         c.sendNumber = b.sendNumber,
         c.seen = b.seen, c.log = b.log, c.actions = b.actions, c.cycle = b.cycle
  PROVE  ClientOK(f, c) /\ ActionsOK(f, c) /\ Grows(b, c)
<1>1. b.sendNumber \in Nat
  BY ClientAssumption DEF ClientOK, ClientAssumption
<1>2. m.num \in 1 .. f.sendNumber /\ m.num \notin c.acked
  BY DEF SentToClient, ClientOK
<1>3. b.seen \subseteq Impulses /\ b.log \in Seq(Impulses)
  BY DEF ClientOK
<1>4. ClientOK(f, c)
  BY <1>2, <1>3, ReadOK
<1>5. ActionsOK(f, c) /\ Grows(b, c)
  BY <1>1, SameActions
<1> QED
  BY <1>4, <1>5

(* A step that sends m, or nothing, after c.                               *)
LEMMA ClientSends ==
  ASSUME SInv, fe' = fe, IsSeq(toClient'), ToSet(toClient') \subseteq ToSet(toClient),
         ClientOK(fe, cl'), ActionsOK(fe, cl'), Grows(cl, cl'),
         NEW m, SentToFE(fe, cl', m), ToFE(m)
  PROVE  SInv'
<1>1. IsSeq(toFE') /\ ToSet(toFE') \subseteq ToSet(toFE) \cup {m}
  BY CarriedFacts DEF SInv, ToFE
<1> QED
  BY <1>1, ClientStep

LEMMA AckSyncStep ==
  ASSUME SInv, fe' = fe, IsSeq(toClient'), ToSet(toClient') \subseteq ToSet(toClient),
         NEW c, ClientOK(fe, c), ActionsOK(fe, c), Grows(cl, c), sendSystemAckSync(c)
  PROVE  SInv'
<1> DEFINE d == [c EXCEPT !.sendNumber = @ + 1]
           m == [num |-> c.sendNumber, kind |-> "ACK_SYNC", front |-> c.last,
                 back |-> c.lastInLong, acked |-> c.acked, code |-> c.latestSync]
<1>1. cl' = d /\ ToFE(m) /\ MaySendToFE(c)
  BY DEF sendSystemAckSync
<1>2. fe.sendNumber \in Nat
  BY FrontEndAssumption DEF SInv, FrontEndOK, Packets, FrontEndAssumption
<1>3. ClientOK(fe, d) /\ ActionsOK(fe, d) /\ Grows(c, d) /\ SentToFE(fe, d, m)
  BY <1>1, <1>2, AckSyncFacts
<1> HIDE DEF d, m
<1>4. cl.sendNumber \in Nat /\ c.sendNumber \in Nat /\ d.sendNumber \in Nat
  BY <1>3, ClientAssumption DEF SInv, ClientOK, ClientAssumption
<1>5. Grows(cl, d)
  BY <1>3, <1>4, GrowsFurther
<1> QED
  BY <1>1, <1>3, <1>5, ClientSends

LEMMA DecodedFacts ==
  ASSUME SInv, NEW m
  PROVE  LET c == Decoded(m)
         IN  /\ DOMAIN c = DOMAIN cl /\ c.last = m.num /\ c.state = cl.state
             /\ c.acked \subseteq cl.acked \cup {m.num}
             /\ Reads(m) => m.num \in c.acked
             /\ ~ Reads(m) => c.acked \subseteq cl.acked
             /\ c.sendNumber = cl.sendNumber /\ c.latestSync = cl.latestSync
             /\ c.seen = cl.seen /\ c.log = cl.log
             /\ c.actions = cl.actions /\ c.cycle = cl.cycle
BY DEF Decoded, SInv, ClientOK

LEMMA ClientReceiveStep == SInv /\ ClientReceive /\ fe' = fe => SInv'
<1> SUFFICES ASSUME SInv, ClientReceive, fe' = fe PROVE SInv'
  OBVIOUS
<1>1. PICK i \in Arriving(toClient) : LET m == toClient[i]
            c == Decoded(m)
        IN  /\ toClient' = RemoveAt(toClient, i)
            /\ \/ /\ m.num <= cl.last
                  /\ UNCHANGED <<cl, toFE>>
               \/ /\ m.num > cl.last /\ m.kind = "SYNC"
                  /\ sendSystemAckSync([c EXCEPT !.state = "Synchronize",
                                                 !.latestSync = m.code,
                                                 !.sync = m.sync])
               \/ /\ m.num > cl.last /\ m.kind = "PROBE"
                  /\ cl' = [c EXCEPT !.state = "Probe",
                                     !.probes = Append(@, m.probe)]
                  /\ UNCHANGED toFE
               \/ /\ m.num > cl.last /\ m.kind = "STALLED"
                  /\ \/ cl' = [c EXCEPT !.state = "Stalled"]
                     \/ cl.state = "Probe" /\ cl' = c
                  /\ UNCHANGED toFE
               \/ /\ m.num > cl.last /\ m.kind = "normal"
                  /\ cl' = CASE cl.state = "Connected" ->
                                  receiveNormalMessage(c, m)
                             [] cl.state = "Synchronize" ->
                                  receiveNormalMessage(
                                     [c EXCEPT !.state = "Connected",
                                               !.decoded = NothingDecoded], m)
                             [] OTHER -> c
                  /\ UNCHANGED toFE
  BY DEF ClientReceive
<1> DEFINE m == toClient[i]
           c == Decoded(m)
<1>2. i \in DOMAIN toClient /\ m \in ToSet(toClient)
  BY ArrivingFacts
<1>3. IsSeq(toClient') /\ ToSet(toClient') \subseteq ToSet(toClient)
  BY <1>1, <1>2, RemoveAtFacts DEF SInv
<1>4. SentToClient(fe, m) /\ ClientOK(fe, cl) /\ ActionsOK(fe, cl)
  BY <1>2 DEF SInv
<1>5. fe.sendNumber \in Nat /\ fe.lastCycle \in Nat /\ fe.receiveNumber \in Int
  BY FrontEndAssumption, ClientAssumption
  DEF SInv, FrontEndOK, GivenOK, Packets, FrontEndAssumption, ClientAssumption
<1>6. cl.sendNumber \in Nat
  BY <1>4, ClientAssumption DEF ClientOK, ClientAssumption
<1>7. /\ DOMAIN c = DOMAIN cl /\ c.last = m.num /\ c.state = cl.state
      /\ c.acked \subseteq cl.acked \cup {m.num}
      /\ Reads(m) => m.num \in c.acked
      /\ ~ Reads(m) => c.acked \subseteq cl.acked
      /\ c.sendNumber = cl.sendNumber /\ c.latestSync = cl.latestSync
      /\ c.seen = cl.seen /\ c.log = cl.log
      /\ c.actions = cl.actions /\ c.cycle = cl.cycle
  BY DecodedFacts
<1> DEFINE Unread(d) == /\ DOMAIN d = DOMAIN cl /\ d.last = m.num
                        /\ d.state \in (States \cup {"Login"}) \ {"Connected"}
                        /\ d.acked \subseteq cl.acked /\ d.latestSync \in 0 .. m.num
                        /\ d.sendNumber = cl.sendNumber
                        /\ d.seen = cl.seen /\ d.log = cl.log
                        /\ d.actions = cl.actions /\ d.cycle = cl.cycle
<1>8. ASSUME NEW d, m.num > cl.last, Unread(d)
      PROVE  ClientOK(fe, d) /\ ActionsOK(fe, d) /\ Grows(cl, d)
  <2> HIDE DEF m
  <2> QED
    BY <1>4, <1>5, <1>8, ReceiveOtherFacts
<1>9. m.num > cl.last => cl.latestSync \in 0 .. m.num
  BY <1>4 DEF ClientOK, SentToClient
<1> HIDE DEF c
<1>10. CASE m.num <= cl.last /\ UNCHANGED <<cl, toFE>>
  <2>1. Grows(cl, cl)
    BY <1>6 DEF Grows
  <2> QED
    BY <1>3, <1>4, <1>10, <2>1, ClientStep DEF SInv
<1>11. CASE /\ m.num > cl.last /\ m.kind = "SYNC"
            /\ sendSystemAckSync([c EXCEPT !.state = "Synchronize",
                                           !.latestSync = m.code,
                                           !.sync = m.sync])
  <2> DEFINE d == [c EXCEPT !.state = "Synchronize", !.latestSync = m.code,
                            !.sync = m.sync]
  <2>1. m.code \in 0 .. m.num /\ ~ Reads(m)
    BY <1>4, <1>11 DEF SentToClient, Reads
  <2>2. Unread(d)
    BY <1>4, <1>7, <2>1 DEF ClientOK, States
  <2> HIDE DEF d
  <2>3. ClientOK(fe, d) /\ ActionsOK(fe, d) /\ Grows(cl, d)
    BY <1>8, <1>11, <2>2
  <2> QED
    BY <1>3, <1>11, <2>3, AckSyncStep DEF d
<1>12. ASSUME \/ cl' = [c EXCEPT !.state = "Probe", !.probes = Append(@, m.probe)]
              \/ cl' = [c EXCEPT !.state = "Stalled"]
              \/ cl.state = "Probe" /\ cl' = c,
              m.num > cl.last, m.kind # "normal", UNCHANGED toFE
       PROVE  SInv'
  <2>1. ~ Reads(m)
    BY <1>12 DEF Reads
  <2>2. Unread(cl')
    BY <1>4, <1>7, <1>9, <1>12, <2>1 DEF ClientOK, States
  <2>3. ClientOK(fe, cl') /\ ActionsOK(fe, cl') /\ Grows(cl, cl')
    BY <1>8, <1>12, <2>2
  <2> QED
    BY <1>3, <1>12, <2>3, ClientStep DEF SInv
<1>13. CASE /\ m.num > cl.last /\ m.kind = "normal"
            /\ cl' = CASE cl.state = "Connected" -> receiveNormalMessage(c, m)
                       [] cl.state = "Synchronize" ->
                            receiveNormalMessage(
                               [c EXCEPT !.state = "Connected",
                                         !.decoded = NothingDecoded], m)
                       [] OTHER -> c
            /\ UNCHANGED toFE
  <2>1. CASE cl.state \in {"Connected", "Synchronize"}
    <3> DEFINE d == IF cl.state = "Connected" THEN c
                    ELSE [c EXCEPT !.state = "Connected", !.decoded = NothingDecoded]
    <3>1. Reads(m)
      BY <1>13, <2>1 DEF Reads
    <3>2. cl' = receiveNormalMessage(d, m)
      <4>1. CASE cl.state = "Connected"
        BY <1>13, <4>1
      <4>2. CASE cl.state = "Synchronize"
        BY <1>13, <4>2
      <4> QED
        BY <2>1, <4>1, <4>2
    <3>3. /\ DOMAIN d = DOMAIN cl /\ d.state = "Connected" /\ d.last = m.num
          /\ d.acked \subseteq cl.acked \cup {m.num} /\ m.num \in d.acked
          /\ d.sendNumber = cl.sendNumber /\ d.latestSync = cl.latestSync
          /\ d.seen = cl.seen /\ d.log = cl.log
          /\ d.actions = cl.actions /\ d.cycle = cl.cycle
      BY <1>4, <1>7, <3>1 DEF ClientOK
    <3> HIDE DEF d, m
    <3>4. ClientOK(fe, cl') /\ ActionsOK(fe, cl') /\ Grows(cl, cl')
      BY <1>4, <1>5, <1>13, <3>2, <3>3, ReceiveNormalFacts
    <3> QED
      BY <1>3, <1>13, <3>4, ClientStep DEF SInv
  <2>2. CASE cl.state \notin {"Connected", "Synchronize"}
    <3>1. cl' = c /\ ~ Reads(m)
      BY <1>13, <2>2 DEF Reads
    <3>2. Unread(cl')
      BY <1>4, <1>7, <1>9, <1>13, <2>2, <3>1 DEF ClientOK
    <3>3. ClientOK(fe, cl') /\ ActionsOK(fe, cl') /\ Grows(cl, cl')
      BY <1>8, <1>13, <3>2
    <3> QED
      BY <1>3, <1>13, <3>3, ClientStep DEF SInv
  <2> QED
    BY <2>1, <2>2
<1> QED
  BY <1>1, <1>10, <1>11, <1>12, <1>13 DEF c

LEMMA NormalMessageStep ==
  ASSUME SInv, fe' = fe, toClient' = toClient, NEW c, c.state = "Connected",
         ClientOK(fe, c), ActionsOK(fe, c), Grows(cl, c),
         c.sendNumber = cl.sendNumber, sendNormalMessage(c)
  PROVE  SInv'
<1> DEFINE sent(i) == i <= BlocksPerMessage
           mark(i) == IF sent(i) /\ c.actions[i].first = 0
                      THEN [c.actions[i] EXCEPT !.first = c.sendNumber]
                      ELSE c.actions[i]
           blocks  == [i \in {i \in DOMAIN c.actions : sent(i)}
                           |-> c.actions[i].cycle]
           d == [c EXCEPT !.sendNumber = @ + 1,
                          !.actions = [i \in DOMAIN c.actions |-> mark(i)]]
           m == [num |-> c.sendNumber, kind |-> "normal", last |-> c.last,
                 mask |-> c.acked \cap (c.last - AckBits .. c.last - 1),
                 blocks |-> blocks]
<1>1. cl' = d /\ ToFE(m) /\ MaySendToFE(c)
  BY DEF sendNormalMessage
<1>2. /\ fe.sendNumber \in Nat /\ fe.lastCycle \in Nat
      /\ fe.receiveNumber \in Int /\ fe.receiveNumber < c.sendNumber
  BY FrontEndAssumption, ClientAssumption
  DEF SInv, FrontEndOK, GivenOK, Packets, FrontEndAssumption, ClientAssumption
<1>3. ClientOK(fe, d) /\ ActionsOK(fe, d) /\ Grows(c, d) /\ SentToFE(fe, d, m)
  BY <1>1, <1>2, NormalMessageFacts
<1> HIDE DEF d, m
<1>4. cl.sendNumber \in Nat /\ c.sendNumber \in Nat /\ d.sendNumber \in Nat
  BY <1>3, ClientAssumption DEF SInv, ClientOK, ClientAssumption
<1>5. Grows(cl, d)
  BY <1>3, <1>4, GrowsFurther
<1> QED
  BY <1>1, <1>3, <1>5, ClientSends DEF SInv

LEMMA ClientSendStep ==
  ASSUME SInv, NEW acts \in BOOLEAN, ClientSend(acts), fe' = fe
  PROVE  SInv'
<1> DEFINE c == IF acts
                THEN [cl EXCEPT !.cycle = @ + 1,
                        !.actions = Append(@, [cycle |-> cl.cycle + 1, first |-> 0])]
                ELSE cl
<1>1. /\ acts => cl.cycle < MaxActions
      /\ \/ cl.state = "Connected" /\ sendNormalMessage(c)
         \/ cl.state # "Connected" /\ acts /\ cl' = c /\ UNCHANGED toFE
      /\ UNCHANGED toClient
  BY DEF ClientSend
<1>2. /\ ClientOK(fe, cl) /\ ActionsOK(fe, cl) /\ cl.sendNumber \in Nat
      /\ fe.lastCycle \in Nat
  BY ClientAssumption DEF SInv, GivenOK, ClientOK, ClientAssumption
<1>3. /\ ClientOK(fe, c) /\ ActionsOK(fe, c) /\ Grows(cl, c)
      /\ c.sendNumber = cl.sendNumber /\ c.state = cl.state
  <2>1. CASE acts
    <3>1. c = [cl EXCEPT !.cycle = @ + 1,
                 !.actions = Append(@, [cycle |-> cl.cycle + 1, first |-> 0])]
      BY <2>1
    <3>2. c.sendNumber = cl.sendNumber /\ c.state = cl.state
      BY <3>1, <1>2 DEF ClientOK
    <3> HIDE DEF c
    <3> QED
      BY <1>1, <1>2, <2>1, <3>1, <3>2, NewBlockFacts
  <2>2. CASE ~ acts
    <3>1. c = cl
      BY <2>2
    <3>2. Grows(cl, cl)
      BY <1>2 DEF Grows
    <3> HIDE DEF c
    <3> QED
      BY <1>2, <3>1, <3>2
  <2> QED
    BY <2>1, <2>2
<1> HIDE DEF c
<1>4. CASE cl.state = "Connected" /\ sendNormalMessage(c)
  BY <1>1, <1>3, <1>4, NormalMessageStep
<1>5. CASE cl' = c /\ UNCHANGED toFE
  BY <1>1, <1>3, <1>5, ClientStep DEF SInv
<1> QED
  BY <1>1, <1>4, <1>5

LEMMA ClientTimerStep == SInv /\ ClientTimer /\ fe' = fe => SInv'
<1> SUFFICES ASSUME SInv, ClientTimer, fe' = fe PROVE SInv'
  OBVIOUS
<1>1. /\ ClientOK(fe, cl) /\ ActionsOK(fe, cl) /\ cl.sendNumber \in Nat
      /\ toClient' = toClient /\ IsSeq(toClient)
  BY ClientAssumption DEF ClientTimer, SInv, ClientOK, ClientAssumption
<1>2. CASE sendSystemAckSync(cl)
  <2>1. Grows(cl, cl)
    BY <1>1 DEF Grows
  <2> QED
    BY <1>1, <1>2, <2>1, AckSyncStep
<1>3. CASE sendSystemAckProbe(cl)
  <2> DEFINE d == [cl EXCEPT !.sendNumber = @ + 1, !.probes = <<>>]
             m == [num |-> cl.sendNumber, kind |-> "ACK_PROBE", probes |-> cl.probes]
  <2>1. cl' = d /\ ToFE(m) /\ MaySendToFE(cl)
    BY <1>3 DEF sendSystemAckProbe
  <2>2. ClientOK(fe, d) /\ ActionsOK(fe, d) /\ Grows(cl, d) /\ SentToFE(fe, d, m)
    BY <1>1, <2>1, AckProbeFacts
  <2> HIDE DEF d, m
  <2> QED
    BY <1>1, <2>1, <2>2, ClientSends
<1> QED
  BY <1>2, <1>3 DEF ClientTimer

LEMMA ClientSteps == SInv /\ ClientNext /\ fe' = fe => SInv'
BY ClientReceiveStep, ClientSendStep, ClientTimerStep DEF ClientNext
-----------------------------------------------------------------------------
(* The theorems.                                                           *)

LEMMA SInvInit == Init => SInv
<1> SUFFICES ASSUME Init PROVE SInv
  OBVIOUS
<1> USE FrontEndAssumption, ClientAssumption
    DEF Init, NetInit, FEInit, ClientInit, FrontEndAssumption, ClientAssumption
<1>1. IsSeq(<<>>) /\ ToSet(<<>>) = {}
  BY DEF IsSeq, ToSet
<1>2. <<>> \in Seq(Impulses) /\ <<>> \in Seq(Blocks) /\ Len(<<>>) = 0
  OBVIOUS
<1>3. FrontEndOK(fe, cl)
  BY DEF FrontEndOK, States, Packets, None
<1>4. QueuesOK(fe)
  BY <1>2 DEF QueuesOK, Packets
<1>5. GivenOK(fe)
  BY <1>2 DEF GivenOK
<1>6. ClientOK(fe, cl)
  BY <1>2 DEF ClientOK
<1>7. ActionsOK(fe, cl)
  <2>1. <<>> \in Seq([cycle : Blocks, first : 0 .. cl.sendNumber - 1])
    OBVIOUS
  <2> QED
    BY <1>2, <2>1 DEF ActionsOK, Dropped
<1> QED
  BY <1>1, <1>3, <1>4, <1>5, <1>6, <1>7 DEF SInv

LEMMA SInvStep == SInv /\ [Next]_vars => SInv'
<1> SUFFICES ASSUME SInv, [Next]_vars PROVE SInv'
  OBVIOUS
<1>1. CASE UNCHANGED vars
  <2> USE <1>1 DEF vars
  <2>1. fe' = fe /\ cl' = cl /\ toClient' = toClient /\ toFE' = toFE
    OBVIOUS
  <2> QED
    BY <2>1 DEF SInv
<1> QED
  BY <1>1, FrontEndSteps, ClientSteps DEF Next

LEMMA SInvAlways == Spec => []SInv
BY SInvInit, SInvStep, PTL DEF Spec

(* The records of both sides are what the code declares: numbers of the    *)
(* other side are never ahead of it, a resynchronisation is acknowledged   *)
(* once for every SYNC at most, queues hold at most one packet's impulses. *)
THEOREM TypeCorrect == Spec => []TypeOK
<1>1. SInv => TypeOK
  <2> SUFFICES ASSUME SInv PROVE TypeOK
    OBVIOUS
  <2>1. fe.lastSentSync \in 1 .. MaxPackets + 1
    BY FrontEndAssumption DEF SInv, FrontEndOK, Packets, FrontEndAssumption
  <2>2. \A l \in Levels :
          /\ ToSet(fe.main[l]) \subseteq Impulses
          /\ \A ch \in Channels(l) : /\ ToSet(fe.queue[l][ch]) \subseteq Impulses
                                     /\ Len(fe.queue[l][ch]) <= QueueSize
                                     /\ fe.firstSent[l][ch] \in Packets
    <3>1. \A s \in Seq(Impulses) : ToSet(s) \subseteq Impulses
      BY DEF ToSet
    <3> QED
      BY <3>1 DEF SInv, QueuesOK
  <2>3. ToSet(fe.done) \subseteq Blocks
    BY DEF SInv, GivenOK, ToSet
  <2>4. ToSet(cl.log) \cup cl.seen \subseteq Impulses
    BY DEF SInv, ClientOK, ToSet
  <2>5. Len(cl.actions) <= MaxActions
    <3>1. Len(cl.actions) \in Nat
      BY DEF SInv, ActionsOK
    <3>2. cl.cycle \in 0 .. MaxActions /\ cl.cycle - Len(cl.actions) \in 0 .. fe.lastCycle
      BY DEF SInv, ActionsOK, Dropped
    <3> HIDE DEF SInv
    <3> QED
      BY <3>1, <3>2, ClientAssumption DEF ClientAssumption
  <2> QED
    BY <2>1, <2>2, <2>3, <2>4, <2>5
    DEF SInv, TypeOK, FrontEndOK, GivenOK, ClientOK, ActionsOK
<1> QED
  BY <1>1, SInvAlways, PTL

(* No acknowledgement of the client is ever taken for a packet that it did *)
(* not read: an impulse that the front end drops was read there, whatever  *)
(* the network loses or reorders and however wide the windows are.         *)
THEOREM AckedWereReadCorrect == Spec => []AckedWereRead
<1>1. SInv => AckedWereRead
  BY DEF SInv, FrontEndOK, AckedWereRead
<1> QED
  BY <1>1, SInvAlways, PTL

(* The shard is given the client's blocks of actions in order, each once,  *)
(* and the client forgets a block only when the shard has it.              *)
THEOREM ActionsArriveInOrderCorrect == Spec => []ActionsArriveInOrder
<1>1. SInv => ActionsArriveInOrder
  <2> SUFFICES ASSUME SInv PROVE ActionsArriveInOrder
    OBVIOUS
  <2>1. fe.lastCycle \in Nat /\ fe.done \in Seq(Blocks) /\ Len(fe.done) = fe.lastCycle
    BY ClientAssumption DEF SInv, GivenOK, ClientAssumption
  <2>2. \A i \in DOMAIN fe.done : fe.done[i] = i
    BY <2>1 DEF SInv, GivenOK
  <2>3. /\ DOMAIN cl.actions = 1 .. Len(cl.actions) /\ Len(cl.actions) \in Nat
        /\ cl.cycle \in Nat
    BY ClientAssumption DEF SInv, ActionsOK, ClientAssumption
  <2>4. ASSUME NEW b \in 1 .. cl.cycle, ~(b <= Len(fe.done))
        PROVE  \E i \in DOMAIN cl.actions : cl.actions[i].cycle = b
    <3> DEFINE i == b - Dropped(cl)
    <3>1. Dropped(cl) \in 0 .. fe.lastCycle
      BY DEF SInv, ActionsOK
    <3>2. i \in 1 .. Len(cl.actions) /\ Dropped(cl) + i = b
      <4>1. Dropped(cl) = cl.cycle - Len(cl.actions) /\ b > fe.lastCycle
        BY <2>1, <2>3, <2>4 DEF Dropped
      <4> DEFINE x == Dropped(cl)
                 y == Len(cl.actions)
                 z == cl.cycle
      <4>2. x \in Int /\ y \in Nat /\ z \in Nat /\ x = z - y /\ x <= fe.lastCycle
        BY <2>1, <2>3, <3>1, <4>1
      <4>3. b \in 1 .. z /\ b > fe.lastCycle /\ fe.lastCycle \in Nat
        BY <2>1, <4>1
      <4> HIDE DEF x, y, z
      <4>4. b - x \in 1 .. y /\ x + (b - x) = b
        BY <4>2, <4>3
      <4> QED
        BY <4>4 DEF x, y
    <3> HIDE DEF i
    <3>3. cl.actions[i].cycle = b
      BY <3>2 DEF SInv, ActionsOK
    <3> QED
      BY <2>3, <3>2, <3>3
  <2> QED
    BY <2>2, <2>4 DEF ActionsArriveInOrder
<1> QED
  BY <1>1, SInvAlways, PTL

-----------------------------------------------------------------------------
(* The invariant of the delivery, of f = fe and c = cl, of the datagrams T *)
(* on their way to the client and U on their way to the front end.  It is  *)
(* kept until the front end is misled.                                     *)

Held(f, l, ch) == ToSet(f.queue[l][ch])
Readable(c, T) == {m \in T : m.kind = "normal" /\ m.num > c.last}
InOrder(s) == \A i, j \in DOMAIN s : i < j => s[i][2] < s[j][2]

(* The last SYNC of the front end has reached the client, or the client    *)
(* still has the one before; then nothing is left of the time before it.   *)
EpochOK(f, c, T) ==
  /\ c.latestSync \in {f.lastSentSync - 1, f.lastSentSync}
  /\ f.lastAck >= None /\ f.lastAck <= c.last /\ f.receiveNumber >= None
  /\ f.state = "Connected" => f.lastAck # None /\ c.latestSync = f.lastSentSync - 1
  /\ f.lastAck = None => \A l \in Levels : \A ch \in Channels(l) : Held(f, l, ch) = {}
  /\ c.state = "Connected" => c.latestSync = f.lastSentSync - 1
  /\ c.latestSync = f.lastSentSync => Readable(c, T) = {}

(* What the long bit field of an ACK_SYNC has forgotten is far behind.     *)
FieldOK(c) ==
  /\ c.lastInLong \in Nat
  /\ c.lastInLong # 0 => c.lastInLong <= c.last - LongAckBits + 1

(* The SYNCs are numbered as they were sent, those of one resynchro-       *)
(* nisation between the normal datagrams of the sessions it separates.     *)
SyncsOK(f, c, T) ==
  \A m \in T : m.kind = "SYNC" =>
    /\ m.code <= f.lastSentSync
    /\ m.code = f.lastSentSync =>
         f.state # "Connected" /\ \A n \in T : n.kind = "normal" => n.num < m.num
    /\ m.code < f.lastSentSync => \A n \in Readable(c, T) : m.num < n.num
    /\ m.num > c.last => m.code >= c.latestSync
    /\ \A n \in T : n.kind = "SYNC" /\ n.num > m.num => n.code >= m.code

AcksOK(c, U) ==
  \A m \in U : /\ m.kind = "ACK_SYNC" =>
                    m.code <= c.latestSync /\ m.front <= c.last /\ m.back \in Nat
               /\ m.kind = "normal" => m.last <= c.last

(* The impulses leave the main queue in their order, for one channel each; *)
(* a channel's were all read, or none of them.                             *)
MainOK(f, c) ==
  /\ \A l \in Levels : /\ InOrder(f.main[l])
                       /\ \A x \in ToSet(f.main[l]) : x[1] = l /\ x[2] <= f.added
  /\ \A x \in c.seen : x[2] <= f.added /\ \A y \in ToSet(f.main[x[1]]) : x[2] < y[2]

HeldOK(f, c) ==
  \A l \in Levels : \A ch \in Channels(l) :
    /\ InOrder(f.queue[l][ch]) /\ f.firstSent[l][ch] <= f.sendNumber
    /\ \A x \in Held(f, l, ch) : /\ x[1] = l /\ x[2] <= f.added
                                 /\ \A y \in ToSet(f.main[l]) : x[2] < y[2]
    /\ \A d \in Channels(l) : d # ch => Held(f, l, ch) \cap Held(f, l, d) = {}
    /\ Held(f, l, ch) \subseteq c.seen \/ Held(f, l, ch) \cap c.seen = {}
    /\ l = 0 => \A x \in c.seen, y \in Held(f, l, ch) :
                  x[1] = 0 /\ y \notin c.seen => x[2] < y[2]

(* A normal datagram on its way: what it carries was read, or is what its  *)
(* channel still holds.                                                    *)
CarriedOK(f, c, T) ==
  \A m \in Readable(c, T) :
    /\ m.ack >= None
    /\ \A l \in Levels :
         \/ ToSet(m.impulses[l]) \subseteq c.seen
         \/ /\ m.num >= f.firstSent[l][Channel(l, m.num)]
            /\ m.impulses[l] = f.queue[l][Channel(l, m.num)]

(* While the client waits for the first normal datagram of a new session,  *)
(* or for the SYNC that begins it, the front end holds nothing it has read.*)
Clean(f, c, T) ==
  \/ c.state = "Synchronize" /\ c.latestSync = f.lastSentSync - 1
  \/ \E m \in T : m.kind = "SYNC" /\ m.num > c.last /\ m.code = f.lastSentSync - 1

CleanOK(f, c, T) ==
  Clean(f, c, T) =>
    /\ \A l \in Levels : \A ch \in Channels(l) : Held(f, l, ch) \cap c.seen = {}
    /\ \A m \in Readable(c, T) : \A l \in Levels : ToSet(m.impulses[l]) \cap c.seen = {}

(* A packet p that carried what a channel holds and was read: whatever     *)
(* acknowledges one that follows p acknowledges p, and comes after what    *)
(* the client's decoder waits for.                                         *)
DecoderAwaits(f, c, l, ch, p, m) ==
  /\ m.num >= c.decoded[l][ch] => p <= m.last
  /\ \A q \in m.mask \cup {m.last} :
       Channel(l, q) = ch /\ q >= f.firstSent[l][ch] => m.num >= c.decoded[l][ch]

Witness(f, c, U, l, ch, p) ==
  /\ Channel(l, p) = ch /\ f.firstSent[l][ch] <= p
  /\ f.lastAck < p /\ p <= c.last
  /\ p \in c.acked \/ p < c.lastInLong
  /\ \A m \in U : m.kind = "ACK_SYNC" =>
       /\ p <= m.front => p \in m.acked \/ p < m.back
       /\ m.code = f.lastSentSync => p <= m.front
  /\ \A m \in U : m.kind = "normal" /\ p <= m.last =>
       p \in m.mask \cup {m.last} \/ p < m.last - AckBits
  /\ c.state = "Connected" =>
       /\ f.receiveNumber < c.decoded[l][ch]
       /\ \A m \in U : m.kind = "normal" => DecoderAwaits(f, c, l, ch, p, m)

WitnessOK(f, c, U) ==
  \A l \in Levels : \A ch \in Channels(l) :
    Held(f, l, ch) # {} /\ Held(f, l, ch) \subseteq c.seen =>
      \E p \in 1 .. c.last : Witness(f, c, U, l, ch, p)

(* The decoder of a connected client takes what was not read for new, and  *)
(* nothing else.                                                           *)
DecodedOK(f, c, T) ==
  c.state = "Connected" =>
    /\ \A l \in Levels : \A ch \in Channels(l) :
         /\ c.decoded[l][ch] \in None .. c.sendNumber
         /\ Held(f, l, ch) \cap c.seen = {} => c.decoded[l][ch] <= f.receiveNumber
    /\ \A m \in Readable(c, T) : \A l \in Levels :
         m.impulses[l] # <<>> =>
           (m.ack >= c.decoded[l][Channel(l, m.num)]
              <=> ~(ToSet(m.impulses[l]) \subseteq c.seen))

LogOK(c) ==
  /\ ToSet(c.log) = c.seen /\ IsInjective(c.log)
  /\ \A i, j \in DOMAIN c.log :
       i < j /\ c.log[i][1] = 0 /\ c.log[j][1] = 0 => c.log[i][2] < c.log[j][2]

Delivers(f, c, T, U) ==
  /\ EpochOK(f, c, T) /\ FieldOK(c) /\ SyncsOK(f, c, T) /\ AcksOK(c, U)
  /\ MainOK(f, c) /\ HeldOK(f, c) /\ CarriedOK(f, c, T) /\ CleanOK(f, c, T)
  /\ WitnessOK(f, c, U) /\ DecodedOK(f, c, T) /\ LogOK(c)

Delivery == fe.misled \/ Delivers(fe, cl, ToSet(toClient), ToSet(toFE))

(* What the parts of the invariant are stated over.                        *)
Base(f, c, T, U) ==
  /\ Typed(f, c) /\ ClientOK(f, c)
  /\ \A m \in T : SentToClient(f, m)
  /\ \A m \in U : SentToFE(f, c, m)

LEMMA BaseTypes ==
  ASSUME NEW f, NEW c, NEW T, NEW U, Base(f, c, T, U)
  PROVE  /\ f.sendNumber \in Nat /\ f.lastSentSync \in Nat /\ f.added \in Nat
         /\ f.lastAck \in Int /\ f.receiveNumber \in Int
         /\ f.receiveNumber < c.sendNumber
         /\ c.last \in Nat /\ c.latestSync \in Nat /\ c.sendNumber \in Nat
         /\ \A m \in T :
              /\ m.num \in Nat /\ m.num >= 1 /\ m.num <= f.sendNumber
              /\ m.kind = "SYNC" => m.code \in Nat
              /\ m.kind = "normal" => m.ack \in Int /\ m.ack <= f.receiveNumber
         /\ \A m \in U :
              /\ m.num \in Nat /\ m.num < c.sendNumber
              /\ m.kind = "ACK_SYNC" => m.front \in Nat /\ m.code \in Nat
              /\ m.kind = "normal" => /\ \A q \in m.mask \cup {m.last} : q \in Nat
                                      /\ m.last \in Nat /\ m.last >= 1
         /\ \A l \in Levels : \A ch \in Channels(l) :
              f.firstSent[l][ch] \in Nat /\ f.queue[l][ch] \in Seq(Impulses)
<1> USE FrontEndAssumption, ClientAssumption DEF FrontEndAssumption, ClientAssumption
<1>1. /\ f.sendNumber \in Nat /\ f.lastSentSync \in Nat /\ f.added \in Nat
      /\ f.lastAck \in Int /\ f.receiveNumber \in Int
      /\ f.receiveNumber < c.sendNumber
  BY DEF Base, Typed, FrontEndOK, Packets
<1>2. c.last \in Nat /\ c.latestSync \in Nat /\ c.sendNumber \in Nat
  BY <1>1 DEF Base, ClientOK
<1>3. ASSUME NEW m \in T
      PROVE  /\ m.num \in Nat /\ m.num >= 1 /\ m.num <= f.sendNumber
             /\ m.kind = "SYNC" => m.code \in Nat
             /\ m.kind = "normal" => m.ack \in Int /\ m.ack <= f.receiveNumber
  <2>1. SentToClient(f, m)
    BY DEF Base
  <2> QED
    BY <1>1, <2>1 DEF SentToClient
<1>4. ASSUME NEW m \in U
      PROVE  /\ m.num \in Nat /\ m.num < c.sendNumber
             /\ m.kind = "ACK_SYNC" => m.front \in Nat /\ m.code \in Nat
             /\ m.kind = "normal" => /\ \A q \in m.mask \cup {m.last} : q \in Nat
                                     /\ m.last \in Nat /\ m.last >= 1
  <2>1. SentToFE(f, c, m)
    BY DEF Base
  <2>2. m.kind = "normal" => \A q \in m.mask \cup {m.last} : q \in 1 .. f.sendNumber
    BY <2>1 DEF SentToFE, WasRead
  <2> QED
    BY <1>1, <1>2, <2>1, <2>2 DEF SentToFE
<1>5. \A l \in Levels : \A ch \in Channels(l) :
        f.firstSent[l][ch] \in Nat /\ f.queue[l][ch] \in Seq(Impulses)
  BY DEF Base, Typed, QueuesOK, Packets
<1> QED
  BY <1>1, <1>2, <1>3, <1>4, <1>5

(* A datagram that neither carries impulses nor acknowledges them, or that *)
(* is no longer on its way, is of no account.                              *)
LEMMA FewerDelivers ==
  ASSUME NEW f, NEW c, NEW T, NEW U, NEW V, NEW W, Delivers(f, c, T, U),
         \A m \in V : m.kind \in {"normal", "SYNC"} => m \in T,
         \A m \in W : m.kind \in {"normal", "ACK_SYNC"} => m \in U
  PROVE  Delivers(f, c, V, W)
<1>1. Readable(c, V) \subseteq Readable(c, T)
  BY DEF Readable
<1>2. EpochOK(f, c, V) /\ CarriedOK(f, c, V) /\ DecodedOK(f, c, V)
  BY <1>1 DEF Delivers, EpochOK, CarriedOK, DecodedOK
<1>3. SyncsOK(f, c, V)
  BY <1>1 DEF Delivers, SyncsOK
<1>4. AcksOK(c, W)
  BY DEF Delivers, AcksOK
<1>5. CleanOK(f, c, V)
  BY <1>1 DEF Delivers, CleanOK, Clean
<1>6. \A l, ch, p : Witness(f, c, U, l, ch, p) => Witness(f, c, W, l, ch, p)
  BY DEF Witness
<1>7. WitnessOK(f, c, W)
  BY <1>6 DEF Delivers, WitnessOK
<1> QED
  BY <1>2, <1>3, <1>4, <1>5, <1>7 DEF Delivers

(* What the front end does that leaves its queues as they are.             *)
LEMMA FrontEndQuiet ==
  ASSUME NEW f, NEW g, NEW c, NEW T, NEW U, Typed(f, c), Delivers(f, c, T, U),
         SameQueues(f, g), g.sendNumber \in Nat, g.sendNumber >= f.sendNumber,
         g.state = "Connected" => f.state = "Connected"
  PROVE  Delivers(g, c, T, U)
<1>1. \A l, ch : Held(g, l, ch) = Held(f, l, ch)
  BY DEF Held, SameQueues
<1>2. EpochOK(g, c, T)
  BY <1>1 DEF Delivers, EpochOK, SameQueues
<1>3. SyncsOK(g, c, T)
  BY DEF Delivers, SyncsOK, SameQueues
<1>4. MainOK(g, c)
  BY DEF Delivers, MainOK, SameQueues
<1>5. HeldOK(g, c)
  <2>1. \A l \in Levels : \A ch \in Channels(l) :
          f.firstSent[l][ch] <= f.sendNumber => f.firstSent[l][ch] <= g.sendNumber
    <3>1. /\ f.sendNumber \in Nat
          /\ \A l \in Levels : \A ch \in Channels(l) : f.firstSent[l][ch] \in Nat
      BY FrontEndAssumption
      DEF Typed, FrontEndOK, QueuesOK, Packets, FrontEndAssumption
    <3> QED
      BY <3>1
  <2> QED
    BY <1>1, <2>1 DEF Delivers, HeldOK, SameQueues
<1>6. CarriedOK(g, c, T)
  BY DEF Delivers, CarriedOK, SameQueues
<1>7. CleanOK(g, c, T)
  BY <1>1 DEF Delivers, CleanOK, Clean, SameQueues
<1>8. WitnessOK(g, c, U)
  <2>1. \A l, ch, p : Witness(f, c, U, l, ch, p) => Witness(g, c, U, l, ch, p)
    BY DEF Witness, DecoderAwaits, SameQueues
  <2> QED
    BY <1>1, <2>1 DEF Delivers, WitnessOK
<1>9. DecodedOK(g, c, T)
  BY <1>1 DEF Delivers, DecodedOK, SameQueues
<1> QED
  BY <1>2, <1>3, <1>4, <1>5, <1>6, <1>7, <1>8, <1>9 DEF Delivers

(* ... and what the client does between two datagrams.                     *)
SameDecoder(c, d) ==
  /\ d.state = c.state /\ d.last = c.last /\ d.acked = c.acked
  /\ d.lastInLong = c.lastInLong /\ d.latestSync = c.latestSync
  /\ d.decoded = c.decoded /\ d.seen = c.seen /\ d.log = c.log

LEMMA ClientQuiet ==
  ASSUME NEW f, NEW c, NEW d, NEW T, NEW U, Delivers(f, c, T, U), SameDecoder(c, d),
         c.sendNumber \in Nat, d.sendNumber \in Nat, d.sendNumber >= c.sendNumber
  PROVE  Delivers(f, d, T, U)
<1>1. Readable(d, T) = Readable(c, T)
  BY DEF Readable, SameDecoder
<1>2. EpochOK(f, d, T) /\ CarriedOK(f, d, T) /\ SyncsOK(f, d, T)
  BY <1>1 DEF Delivers, EpochOK, CarriedOK, SyncsOK, SameDecoder
<1>3. FieldOK(d) /\ AcksOK(d, U) /\ MainOK(f, d) /\ HeldOK(f, d) /\ LogOK(d)
  BY DEF Delivers, FieldOK, AcksOK, MainOK, HeldOK, LogOK, SameDecoder
<1>4. CleanOK(f, d, T)
  BY <1>1 DEF Delivers, CleanOK, Clean, SameDecoder
<1>5. WitnessOK(f, d, U)
  <2>1. \A l, ch, p : Witness(f, c, U, l, ch, p) => Witness(f, d, U, l, ch, p)
    BY DEF Witness, DecoderAwaits, SameDecoder
  <2> QED
    BY <2>1 DEF Delivers, WitnessOK, SameDecoder
<1>6. DecodedOK(f, d, T)
  <2>1. \A l \in Levels : \A ch \in Channels(l) :
          c.decoded[l][ch] \in None .. c.sendNumber =>
            c.decoded[l][ch] \in None .. d.sendNumber
    BY DEF None
  <2> QED
    BY <1>1, <2>1 DEF Delivers, DecodedOK, SameDecoder
<1> QED
  BY <1>2, <1>3, <1>4, <1>5, <1>6 DEF Delivers

-----------------------------------------------------------------------------
(* Sequences of impulses; what the front end adds, and its SYNCs.          *)

(* Impulses in their order.                                                *)
LEMMA ImpulseTypes == \A x \in Impulses : x[1] \in Levels /\ x[2] \in Nat
BY FrontEndAssumption DEF Impulses, FrontEndAssumption

LEMMA ToSetFacts ==
  ASSUME NEW s \in Seq(Impulses)
  PROVE  /\ DOMAIN s = 1 .. Len(s) /\ Len(s) \in Nat
         /\ \A i \in DOMAIN s : s[i] \in ToSet(s) /\ s[i] \in Impulses
         /\ \A x \in ToSet(s) : x \in Impulses /\ \E i \in DOMAIN s : s[i] = x
         /\ s = <<>> <=> ToSet(s) = {}
<1>1. DOMAIN s = 1 .. Len(s) /\ Len(s) \in Nat /\ \A i \in DOMAIN s : s[i] \in Impulses
  OBVIOUS
<1>2. /\ \A i \in DOMAIN s : s[i] \in ToSet(s)
      /\ \A x \in ToSet(s) : \E i \in DOMAIN s : s[i] = x
  BY DEF ToSet
<1>3. s = <<>> => ToSet(s) = {}
  BY DEF ToSet
<1>4. s # <<>> => ToSet(s) # {}
  <2> SUFFICES ASSUME s # <<>> PROVE 1 \in DOMAIN s
    BY <1>2
  <2>1. Len(s) # 0
    OBVIOUS
  <2> QED
    BY <1>1, <2>1
<1> QED
  BY <1>1, <1>2, <1>3, <1>4

LEMMA AppendOrder ==
  ASSUME NEW s \in Seq(Impulses), InOrder(s), NEW x \in Impulses,
         \A y \in ToSet(s) : y[2] < x[2]
  PROVE  InOrder(Append(s, x)) /\ ToSet(Append(s, x)) = ToSet(s) \cup {x}
<1> DEFINE t == Append(s, x)
<1>1. /\ DOMAIN s = 1 .. Len(s) /\ Len(s) \in Nat
      /\ \A i \in DOMAIN s : s[i] \in ToSet(s)
  BY ToSetFacts
<1>2. /\ DOMAIN t = 1 .. Len(s) + 1 /\ t[Len(s) + 1] = x
      /\ \A i \in 1 .. Len(s) : t[i] = s[i]
  BY <1>1
<1> HIDE DEF t
<1>3. InOrder(t)
  <2> SUFFICES ASSUME NEW i \in DOMAIN t, NEW j \in DOMAIN t, i < j
               PROVE  t[i][2] < t[j][2]
    BY DEF InOrder
  <2>1. i \in 1 .. Len(s) /\ t[i] = s[i]
    BY <1>1, <1>2
  <2>2. CASE j \in 1 .. Len(s)
    BY <1>1, <1>2, <2>1, <2>2 DEF InOrder
  <2>3. CASE j = Len(s) + 1
    BY <1>1, <1>2, <2>1, <2>3
  <2> QED
    BY <1>1, <1>2, <2>2, <2>3
<1>4. ToSet(t) = ToSet(s) \cup {x}
  <2>1. ToSet(t) = {t[i] : i \in 1 .. Len(s) + 1}
    BY <1>2 DEF ToSet
  <2>2. ToSet(s) = {s[i] : i \in 1 .. Len(s)}
    BY <1>1 DEF ToSet
  <2>3. 1 .. Len(s) + 1 = 1 .. Len(s) \cup {Len(s) + 1}
    BY <1>1
  <2> QED
    BY <1>2, <2>1, <2>2, <2>3
<1> QED
  BY <1>3, <1>4 DEF t

LEMMA SplitOrder ==
  ASSUME NEW s \in Seq(Impulses), InOrder(s), NEW n \in 0 .. Len(s)
  PROVE  LET a == SubSeq(s, 1, n)
             b == SubSeq(s, n + 1, Len(s))
         IN  /\ InOrder(a) /\ InOrder(b)
             /\ ToSet(a) \subseteq ToSet(s) /\ ToSet(b) \subseteq ToSet(s)
             /\ \A x \in ToSet(a), y \in ToSet(b) : x[2] < y[2]
<1> DEFINE a == SubSeq(s, 1, n)
           b == SubSeq(s, n + 1, Len(s))
<1>1. /\ DOMAIN s = 1 .. Len(s) /\ Len(s) \in Nat
      /\ \A i \in DOMAIN s : s[i] \in ToSet(s)
  BY ToSetFacts
<1>2. /\ DOMAIN a = 1 .. n /\ \A i \in 1 .. n : a[i] = s[i] /\ i \in DOMAIN s
      /\ DOMAIN b = 1 .. Len(s) - n
      /\ \A i \in 1 .. Len(s) - n : b[i] = s[n + i] /\ n + i \in DOMAIN s
  BY <1>1
<1> HIDE DEF a, b
<1>3. InOrder(a)
  BY <1>1, <1>2 DEF InOrder
<1>4. InOrder(b)
  <2> SUFFICES ASSUME NEW i \in DOMAIN b, NEW j \in DOMAIN b, i < j
               PROVE  b[i][2] < b[j][2]
    BY DEF InOrder
  <2>1. n + i < n + j
    BY <1>1, <1>2
  <2> QED
    BY <1>2, <2>1 DEF InOrder
<1>5. \A x \in ToSet(a) : \E i \in 1 .. n : x = s[i]
  BY <1>2 DEF ToSet
<1>6. \A x \in ToSet(b) : \E i \in 1 .. Len(s) - n : x = s[n + i]
  BY <1>2 DEF ToSet
<1>7. ToSet(a) \subseteq ToSet(s) /\ ToSet(b) \subseteq ToSet(s)
  BY <1>1, <1>2, <1>5, <1>6
<1>8. ASSUME NEW x \in ToSet(a), NEW y \in ToSet(b) PROVE x[2] < y[2]
  <2>1. PICK i \in 1 .. n : x = s[i]
    BY <1>5
  <2>2. PICK j \in 1 .. Len(s) - n : y = s[n + j]
    BY <1>6
  <2>3. i < n + j /\ i \in DOMAIN s /\ n + j \in DOMAIN s
    BY <1>1, <1>2, <2>1, <2>2
  <2> QED
    BY <2>1, <2>2, <2>3 DEF InOrder
<1> QED
  BY <1>3, <1>4, <1>7, <1>8 DEF a, b

(* add.                                                                    *)
LEMMA AddDelivers ==
  ASSUME NEW f, NEW g, NEW c, NEW T, NEW U, Base(f, c, T, U), Delivers(f, c, T, U),
         NEW l \in Levels, f.added < MaxImpulses, g.added = f.added + 1,
         g.main = [f.main EXCEPT ![l] = Append(@, <<l, f.added + 1>>)],
         g.queue = f.queue, g.firstSent = f.firstSent, g.lastAck = f.lastAck,
         g.receiveNumber = f.receiveNumber, g.lastSentSync = f.lastSentSync,
         g.sendNumber = f.sendNumber, g.state = f.state
  PROVE  Delivers(g, c, T, U)
<1> DEFINE x == <<l, f.added + 1>>
<1>1. \A k, ch : Held(g, k, ch) = Held(f, k, ch)
  BY DEF Held
<1>2. f.added \in Nat /\ x \in Impulses /\ x[1] = l /\ x[2] = f.added + 1
  BY BaseTypes, FrontEndAssumption DEF Impulses, FrontEndAssumption
<1>3. /\ DOMAIN f.main = Levels
      /\ \A k \in Levels : f.main[k] \in Seq(Impulses)
      /\ \A k \in Levels : \A y \in ToSet(f.main[k]) : y \in Impulses /\ y[2] \in Nat
  <2>1. f.main \in [Levels -> Seq(Impulses)]
    BY DEF Base, Typed, QueuesOK
  <2> QED
    BY <2>1, ToSetFacts, ImpulseTypes
<1>4. /\ g.main[l] = Append(f.main[l], x)
      /\ \A k \in Levels : k # l => g.main[k] = f.main[k]
  BY <1>3
<1> HIDE DEF x
<1>5. InOrder(g.main[l]) /\ ToSet(g.main[l]) = ToSet(f.main[l]) \cup {x}
  <2>1. InOrder(f.main[l]) /\ \A y \in ToSet(f.main[l]) : y[2] <= f.added
    BY DEF Delivers, MainOK
  <2>2. InOrder(f.main[l]) /\ \A y \in ToSet(f.main[l]) : y[2] < x[2]
    BY <1>2, <1>3, <2>1
  <2> DEFINE s == f.main[l]
  <2>3. s \in Seq(Impulses) /\ x \in Impulses
    BY <1>2, <1>3
  <2>4. InOrder(s) /\ \A y \in ToSet(s) : y[2] < x[2]
    BY <2>2
  <2> HIDE DEF s
  <2>5. InOrder(Append(s, x)) /\ ToSet(Append(s, x)) = ToSet(s) \cup {x}
    BY <2>3, <2>4, AppendOrder
  <2> QED
    BY <1>4, <2>5 DEF s
<1>6. \A k \in Levels : ToSet(g.main[k]) \subseteq ToSet(f.main[k]) \cup {x}
  BY <1>4, <1>5
<1>7. MainOK(g, c)
  <2>1. ASSUME NEW k \in Levels
        PROVE  InOrder(g.main[k]) /\ \A y \in ToSet(g.main[k]) : y[1] = k /\ y[2] <= g.added
    <3>1. \A y \in ToSet(f.main[k]) : y[1] = k /\ y[2] <= f.added /\ y[2] \in Nat
      BY <1>3 DEF Delivers, MainOK
    <3>2. InOrder(f.main[k])
      BY DEF Delivers, MainOK
    <3> QED
      BY <1>2, <1>4, <1>5, <3>1, <3>2
  <2>2. ASSUME NEW y \in c.seen
        PROVE  y[2] <= g.added /\ \A z \in ToSet(g.main[y[1]]) : y[2] < z[2]
    <3>1. y \in Impulses /\ y[1] \in Levels /\ y[2] \in Nat
      BY ImpulseTypes DEF Base, ClientOK
    <3>2. y[2] <= f.added /\ \A z \in ToSet(f.main[y[1]]) : y[2] < z[2]
      BY DEF Delivers, MainOK
    <3>3. y[2] < x[2] /\ y[2] <= g.added
      BY <1>2, <3>1, <3>2
    <3> QED
      BY <1>6, <3>1, <3>2, <3>3
  <2> QED
    BY <2>1, <2>2 DEF MainOK
<1>8. HeldOK(g, c)
  <2> SUFFICES ASSUME NEW k \in Levels, NEW ch \in Channels(k), NEW y \in Held(f, k, ch)
               PROVE  y[2] <= g.added /\ \A z \in ToSet(g.main[k]) : y[2] < z[2]
    BY <1>1 DEF Delivers, HeldOK
  <2>1. y[2] \in Nat
    <3>1. y \in Impulses
      BY BaseTypes, ToSetFacts DEF Held
    <3> QED
      BY <3>1, ImpulseTypes
  <2>2. y[2] <= f.added /\ \A z \in ToSet(f.main[k]) : y[2] < z[2]
    BY DEF Delivers, HeldOK
  <2>3. y[2] < x[2] /\ y[2] <= g.added
    BY <1>2, <2>1, <2>2
  <2> QED
    BY <1>6, <2>2, <2>3
<1>9. EpochOK(g, c, T) /\ SyncsOK(g, c, T) /\ CarriedOK(g, c, T)
  BY <1>1 DEF Delivers, EpochOK, SyncsOK, CarriedOK
<1>10. CleanOK(g, c, T) /\ DecodedOK(g, c, T)
  BY <1>1 DEF Delivers, CleanOK, Clean, DecodedOK
<1>11. WitnessOK(g, c, U)
  <2>1. \A k, ch, p : Witness(f, c, U, k, ch, p) => Witness(g, c, U, k, ch, p)
    BY DEF Witness, DecoderAwaits
  <2> QED
    BY <1>1, <2>1 DEF Delivers, WitnessOK
<1> QED
  BY <1>7, <1>8, <1>9, <1>10, <1>11 DEF Delivers

(* A SYNC is sent.                                                         *)
LEMMA SyncDelivers ==
  ASSUME NEW f, NEW c, NEW T, NEW U, Base(f, c, T, U), Delivers(f, c, T, U),
         f.state # "Connected", NEW m, m.kind = "SYNC", m.num = f.sendNumber + 1,
         m.code = f.lastSentSync
  PROVE  Delivers(f, c, T \cup {m}, U)
<1> DEFINE V == T \cup {m}
<1>1. /\ f.sendNumber \in Nat /\ f.lastSentSync \in Nat /\ c.latestSync \in Nat
      /\ \A n \in T : n.num \in Nat /\ n.num < m.num
  BY BaseTypes
<1>2. Readable(c, V) = Readable(c, T)
  BY DEF Readable
<1>3. EpochOK(f, c, V) /\ CarriedOK(f, c, V) /\ DecodedOK(f, c, V)
  BY <1>2 DEF Delivers, EpochOK, CarriedOK, DecodedOK
<1>4. SyncsOK(f, c, V)
  <2> SUFFICES ASSUME NEW k \in V, k.kind = "SYNC"
               PROVE  /\ k.code <= f.lastSentSync
                      /\ k.code = f.lastSentSync =>
                           \A n \in V : n.kind = "normal" => n.num < k.num
                      /\ k.code < f.lastSentSync =>
                           \A n \in Readable(c, T) : k.num < n.num
                      /\ k.num > c.last => k.code >= c.latestSync
                      /\ \A n \in V : n.kind = "SYNC" /\ n.num > k.num =>
                           n.code >= k.code
    BY <1>2 DEF SyncsOK
  <2>1. CASE k \in T
    <3>1. k.code <= f.lastSentSync
      BY <2>1 DEF Delivers, SyncsOK
    <3>2. k.code \in Nat
      BY <2>1, BaseTypes
    <3> QED
      BY <1>1, <2>1, <3>1, <3>2 DEF Delivers, SyncsOK
  <2>2. CASE k = m
    <3>1. c.latestSync \in {f.lastSentSync - 1, f.lastSentSync}
      BY DEF Delivers, EpochOK
    <3>2. \A n \in V : ~(n.num > m.num)
      BY <1>1
    <3> QED
      BY <1>1, <2>2, <3>1, <3>2
  <2> QED
    BY <2>1, <2>2
<1>5. CleanOK(f, c, V)
  <2>1. Clean(f, c, V) => Clean(f, c, T)
    BY <1>1 DEF Clean
  <2> QED
    BY <1>2, <2>1 DEF Delivers, CleanOK
<1> QED
  BY <1>3, <1>4, <1>5 DEF Delivers

-----------------------------------------------------------------------------
(* A normal datagram is sent: a packet refills the channels it carries.    *)

(* A normal datagram is sent: a channel's queue is taken from the front of *)
(* the main queue, if it was empty.                                        *)
Takes(f, g, l, n, k) ==
  /\ k \in 0 .. Len(f.main[l])
  /\ f.queue[l][Channel(l, n)] = <<>>
  /\ g.queue[l][Channel(l, n)] = SubSeq(f.main[l], 1, k)
  /\ g.firstSent[l][Channel(l, n)] = n
  /\ g.main[l] = SubSeq(f.main[l], k + 1, Len(f.main[l]))

Refills(f, g, n) ==
  \A l \in Levels :
    /\ g.main[l] = f.main[l] \/ \E k : Takes(f, g, l, n, k)
    /\ \A ch \in Channels(l) :
         \/ g.queue[l][ch] = f.queue[l][ch] /\ g.firstSent[l][ch] = f.firstSent[l][ch]
         \/ ch = Channel(l, n) /\ \E k : Takes(f, g, l, n, k)

LEMMA RefilledForms ==
  ASSUME NEW f, NEW c, Typed(f, c)
  PROVE  LET n == f.sendNumber + 1
             g == Refilled([f EXCEPT !.sendNumber = @ + 1], n)
         IN  /\ Refills(f, g, n) /\ g.sendNumber = n
             /\ g.receiveNumber = f.receiveNumber /\ g.lastAck = f.lastAck
             /\ g.lastSentSync = f.lastSentSync /\ g.added = f.added
             /\ g.state = f.state /\ g.misled = f.misled
<1> DEFINE n == f.sendNumber + 1
           h == [f EXCEPT !.sendNumber = @ + 1]
           g == Refilled(h, n)
<1>1. n \in Nat
  BY FrontEndAssumption DEF FrontEndAssumption, Typed, FrontEndOK, Packets
<1>2. /\ DOMAIN h = DOMAIN f /\ h.sendNumber = n
      /\ h.main = f.main /\ h.queue = f.queue /\ h.firstSent = f.firstSent
      /\ h.receiveNumber = f.receiveNumber /\ h.lastAck = f.lastAck
      /\ h.lastSentSync = f.lastSentSync /\ h.added = f.added
      /\ h.state = f.state /\ h.misled = f.misled
  BY DEF Typed, FrontEndOK
<1> HIDE DEF h
<1>3. /\ g.sendNumber = n
      /\ g.receiveNumber = f.receiveNumber /\ g.lastAck = f.lastAck
      /\ g.lastSentSync = f.lastSentSync /\ g.added = f.added
      /\ g.state = f.state /\ g.misled = f.misled
  BY <1>2 DEF Refilled, Typed, FrontEndOK
<1> DEFINE refill(l) == f.queue[l][Channel(l, n)] = <<>>
           hits(l, ch) == refill(l) /\ ch = Channel(l, n)
<1>4. /\ g.queue = [l \in Levels |-> [ch \in Channels(l) |->
                      IF hits(l, ch) THEN Fitting(f.main[l]) ELSE f.queue[l][ch]]]
      /\ g.firstSent = [l \in Levels |-> [ch \in Channels(l) |->
                      IF hits(l, ch) THEN n ELSE f.firstSent[l][ch]]]
      /\ g.main = [l \in Levels |->
                      IF refill(l)
                      THEN SubSeq(f.main[l], Len(Fitting(f.main[l])) + 1, Len(f.main[l]))
                      ELSE f.main[l]]
  BY <1>2 DEF Refilled, Typed, FrontEndOK
<1> HIDE DEF g
<1>5. ASSUME NEW l \in Levels
      PROVE  \E k \in 0 .. Len(f.main[l]) :
               /\ Fitting(f.main[l]) = SubSeq(f.main[l], 1, k)
               /\ Len(Fitting(f.main[l])) = k
  <2> DEFINE s == f.main[l]
             k == IF Len(s) < QueueSize THEN Len(s) ELSE QueueSize
  <2>1. s \in Seq(Impulses)
    BY DEF Typed, QueuesOK
  <2> HIDE DEF s
  <2>2. k \in 0 .. Len(s)
    BY <2>1, FrontEndAssumption DEF FrontEndAssumption
  <2>3. Fitting(s) = SubSeq(s, 1, k)
    BY DEF Fitting
  <2> HIDE DEF k
  <2>4. Len(Fitting(s)) = k
    BY <2>1, <2>2, <2>3
  <2> QED
    BY <2>2, <2>3, <2>4 DEF s
<1>6. ASSUME NEW l \in Levels, refill(l)
      PROVE  \E k : Takes(f, g, l, n, k)
  <2>1. Channel(l, n) \in Channels(l)
    BY <1>1, ChannelFacts
  <2>2. PICK k \in 0 .. Len(f.main[l]) : /\ Fitting(f.main[l]) = SubSeq(f.main[l], 1, k)
                                         /\ Len(Fitting(f.main[l])) = k
    BY <1>5
  <2> DEFINE ch == Channel(l, n)
  <2>3. hits(l, ch)
    BY <1>6
  <2> HIDE DEF n
  <2>4. g.queue[l][ch] = Fitting(f.main[l]) /\ g.firstSent[l][ch] = n
    BY <1>4, <2>1, <2>3
  <2>5. g.main[l] = SubSeq(f.main[l], Len(Fitting(f.main[l])) + 1, Len(f.main[l]))
    BY <1>4, <1>6
  <2>6. Takes(f, g, l, n, k)
    BY <1>6, <2>2, <2>4, <2>5 DEF Takes
  <2> QED
    BY <2>6
<1>7. Refills(f, g, n)
  <2>1. ASSUME NEW l \in Levels
        PROVE  g.main[l] = f.main[l] \/ \E k : Takes(f, g, l, n, k)
    BY <1>4, <1>6
  <2>2. ASSUME NEW l \in Levels, NEW ch \in Channels(l)
        PROVE  \/ g.queue[l][ch] = f.queue[l][ch] /\ g.firstSent[l][ch] = f.firstSent[l][ch]
               \/ ch = Channel(l, n) /\ \E k : Takes(f, g, l, n, k)
    BY <1>4, <1>6
  <2> QED
    BY <2>1, <2>2 DEF Refills
<1> QED
  BY <1>3, <1>7 DEF g, h

(* What was taken was not read, and comes before what is left.             *)
LEMMA TakesFacts ==
  ASSUME NEW f, NEW g, NEW c, NEW T, NEW U, Base(f, c, T, U), Delivers(f, c, T, U),
         NEW n \in Nat, NEW l \in Levels, NEW k, Takes(f, g, l, n, k)
  PROVE  LET H == Held(g, l, Channel(l, n))
         IN  /\ InOrder(g.queue[l][Channel(l, n)])
             /\ H \subseteq ToSet(f.main[l]) /\ H \cap c.seen = {}
             /\ \A x \in H, y \in ToSet(g.main[l]) : x[2] < y[2]
             /\ Held(f, l, Channel(l, n)) = {}
             /\ InOrder(g.main[l]) /\ ToSet(g.main[l]) \subseteq ToSet(f.main[l])
<1> DEFINE s == f.main[l]
           a == SubSeq(s, 1, k)
           b == SubSeq(s, k + 1, Len(s))
<1>1. s \in Seq(Impulses) /\ InOrder(s) /\ k \in 0 .. Len(s)
  <2>1. f.main \in [Levels -> Seq(Impulses)]
    BY DEF Base, Typed, QueuesOK
  <2> QED
    BY <2>1 DEF Delivers, MainOK, Takes
<1>2. /\ g.queue[l][Channel(l, n)] = a /\ g.main[l] = b
      /\ f.queue[l][Channel(l, n)] = <<>>
  BY DEF Takes
<1>3. \A x \in ToSet(s) : x[1] = l /\ x \in Impulses /\ x[2] \in Nat
  BY <1>1, ToSetFacts, ImpulseTypes DEF Delivers, MainOK
<1>4. ToSet(s) \cap c.seen = {}
  <2> SUFFICES ASSUME NEW x \in ToSet(s), x \in c.seen PROVE FALSE
    OBVIOUS
  <2>1. \A y \in ToSet(f.main[x[1]]) : x[2] < y[2]
    BY DEF Delivers, MainOK
  <2>2. x[1] = l /\ x[2] \in Nat
    BY <1>3
  <2>3. x[2] < x[2]
    BY <2>1, <2>2
  <2> QED
    BY <2>2, <2>3
<1> HIDE DEF s
<1>5. /\ InOrder(a) /\ InOrder(b)
      /\ ToSet(a) \subseteq ToSet(s) /\ ToSet(b) \subseteq ToSet(s)
      /\ \A x \in ToSet(a), y \in ToSet(b) : x[2] < y[2]
  BY <1>1, SplitOrder
<1> HIDE DEF a, b
<1>6. Held(f, l, Channel(l, n)) = {}
  BY <1>2 DEF Held, ToSet
<1> QED
  BY <1>2, <1>4, <1>5, <1>6 DEF Held, s

LEMMA NormalDelivers ==
  ASSUME NEW f, NEW g, NEW c, NEW T, NEW U, Base(f, c, T, U), Base(g, c, T, U),
         Delivers(f, c, T, U),
         f.state = "Connected", NEW n, n = f.sendNumber + 1, Refills(f, g, n),
         g.sendNumber = n, g.receiveNumber = f.receiveNumber, g.lastAck = f.lastAck,
         g.lastSentSync = f.lastSentSync, g.added = f.added, g.state = f.state,
         NEW m, m.kind = "normal", m.num = n, m.ack = f.receiveNumber,
         \A l \in Levels : m.impulses[l] = g.queue[l][Channel(l, n)]
  PROVE  Delivers(g, c, T \cup {m}, U)
<1> DEFINE V == T \cup {m}
           same(l, ch) == /\ g.queue[l][ch] = f.queue[l][ch]
                          /\ g.firstSent[l][ch] = f.firstSent[l][ch]
                          /\ Held(g, l, ch) = Held(f, l, ch)
           taken(l, ch) == ch = Channel(l, n) /\ \E k : Takes(f, g, l, n, k)
<1>1. /\ f.sendNumber \in Nat /\ n \in Nat /\ f.receiveNumber \in Int /\ f.added \in Nat
      /\ f.lastSentSync \in Nat /\ c.last \in Nat /\ c.latestSync \in Nat
      /\ \A k \in T : k.num \in Nat /\ k.num < n
  BY BaseTypes
<1>2. \A l \in Levels : Channel(l, n) \in Channels(l)
  BY <1>1, ChannelFacts
<1>3. \A l \in Levels : \A ch \in Channels(l) : same(l, ch) \/ taken(l, ch)
  BY DEF Refills, Held
<1>4. ASSUME NEW l \in Levels, NEW ch, taken(l, ch)
      PROVE  /\ InOrder(g.queue[l][ch]) /\ g.firstSent[l][ch] = n
             /\ Held(g, l, ch) \subseteq ToSet(f.main[l])
             /\ Held(g, l, ch) \cap c.seen = {}
             /\ \A x \in Held(g, l, ch), y \in ToSet(g.main[l]) : x[2] < y[2]
             /\ Held(f, l, ch) = {}
  <2>1. PICK k : Takes(f, g, l, n, k)
    BY <1>4
  <2>2. ch = Channel(l, n) /\ g.firstSent[l][ch] = n
    BY <1>4, <2>1 DEF Takes
  <2> HIDE DEF taken
  <2> QED
    BY <1>1, <2>1, <2>2, TakesFacts
<1>5. ASSUME NEW l \in Levels
      PROVE  InOrder(g.main[l]) /\ ToSet(g.main[l]) \subseteq ToSet(f.main[l])
  <2>1. CASE g.main[l] = f.main[l]
    BY <2>1 DEF Delivers, MainOK
  <2>2. CASE \E k : Takes(f, g, l, n, k)
    BY <1>1, <2>2, TakesFacts
  <2> QED
    BY <2>1, <2>2 DEF Refills
<1> HIDE DEF taken, same
<1>6. Readable(c, V) \subseteq Readable(c, T) \cup {m}
  BY DEF Readable
<1>7. /\ f.lastAck # None /\ c.latestSync = f.lastSentSync - 1
      /\ f.receiveNumber >= None
  BY DEF Delivers, EpochOK
<1>8. EpochOK(g, c, V)
  <2>1. c.latestSync # f.lastSentSync
    BY <1>1, <1>7
  <2> QED
    BY <1>7, <2>1 DEF Delivers, EpochOK
<1>9. SyncsOK(g, c, V)
  <2> SUFFICES ASSUME NEW k \in T, k.kind = "SYNC"
               PROVE  /\ k.code <= f.lastSentSync /\ k.code # f.lastSentSync
                      /\ \A x \in Readable(c, V) : k.num < x.num
                      /\ k.num > c.last => k.code >= c.latestSync
                      /\ \A x \in T : x.kind = "SYNC" /\ x.num > k.num =>
                           x.code >= k.code
    BY DEF SyncsOK
  <2>1. k.code <= f.lastSentSync /\ k.code # f.lastSentSync /\ k.code \in Nat
    BY BaseTypes DEF Delivers, SyncsOK
  <2>2. \A x \in Readable(c, T) : k.num < x.num
    BY <1>1, <2>1 DEF Delivers, SyncsOK
  <2> QED
    BY <1>1, <1>6, <2>1, <2>2 DEF Delivers, SyncsOK
<1>10. MainOK(g, c)
  <2>1. \A x \in c.seen : x[1] \in Levels
    BY ImpulseTypes DEF Base, ClientOK
  <2> QED
    BY <1>5, <2>1 DEF Delivers, MainOK
<1>11. ASSUME NEW l \in Levels, NEW ch \in Channels(l), NEW x \in Held(g, l, ch)
       PROVE  /\ x[1] = l /\ x[2] <= f.added
              /\ \A y \in ToSet(g.main[l]) : x[2] < y[2]
  <2>1. CASE same(l, ch)
    BY <1>5, <1>11, <2>1 DEF same, Delivers, HeldOK
  <2>2. CASE taken(l, ch)
    BY <1>4, <1>11, <2>2 DEF Delivers, MainOK
  <2> QED
    BY <1>3, <2>1, <2>2
<1>12. ASSUME NEW l \in Levels, NEW ch \in Channels(l), NEW d \in Channels(l), d # ch
       PROVE  Held(g, l, ch) \cap Held(g, l, d) = {}
  <2>1. ASSUME NEW a \in Channels(l), NEW b \in Channels(l), taken(l, a), same(l, b)
        PROVE  Held(g, l, a) \cap Held(g, l, b) = {}
    <3> SUFFICES ASSUME NEW x, x \in Held(g, l, a), x \in Held(f, l, b) PROVE FALSE
      BY <2>1 DEF same
    <3>1. x \in ToSet(f.main[l])
      BY <1>4, <2>1
    <3>2. x[2] < x[2]
      BY <3>1 DEF Delivers, HeldOK
    <3>3. x \in Impulses
      BY BaseTypes, ToSetFacts DEF Held
    <3>4. x[2] \in Nat
      BY <3>3, ImpulseTypes
    <3> QED
      BY <3>2, <3>4
  <2>2. CASE same(l, ch) /\ same(l, d)
    BY <1>12, <2>2 DEF same, Delivers, HeldOK
  <2>3. CASE taken(l, ch) /\ taken(l, d)
    BY <1>12, <2>3 DEF taken
  <2> QED
    BY <1>3, <2>1, <2>2, <2>3
<1>13. ASSUME NEW l \in Levels, NEW ch \in Channels(l)
       PROVE  /\ InOrder(g.queue[l][ch]) /\ g.firstSent[l][ch] <= n
              /\ Held(g, l, ch) \subseteq c.seen \/ Held(g, l, ch) \cap c.seen = {}
              /\ l = 0 => \A x \in c.seen, y \in Held(g, l, ch) :
                            x[1] = 0 /\ y \notin c.seen => x[2] < y[2]
  <2>1. CASE same(l, ch)
    <3>1. f.firstSent[l][ch] \in Nat /\ f.firstSent[l][ch] <= f.sendNumber
      BY BaseTypes DEF Delivers, HeldOK
    <3> QED
      BY <1>1, <2>1, <3>1 DEF same, Delivers, HeldOK
  <2>2. CASE taken(l, ch)
    <3>1. \A x \in c.seen : x[1] = l => \A y \in Held(g, l, ch) : x[2] < y[2]
      BY <1>4, <2>2 DEF Delivers, MainOK
    <3> QED
      BY <1>1, <1>4, <2>2, <3>1
  <2> QED
    BY <1>3, <2>1, <2>2
<1>14. HeldOK(g, c)
  BY <1>11, <1>12, <1>13 DEF HeldOK
<1>15. CarriedOK(g, c, V)
  <2>1. ASSUME NEW k \in Readable(c, T), NEW l \in Levels
        PROVE  \/ ToSet(k.impulses[l]) \subseteq c.seen
               \/ /\ k.num >= g.firstSent[l][Channel(l, k.num)]
                  /\ k.impulses[l] = g.queue[l][Channel(l, k.num)]
    <3> DEFINE ch == Channel(l, k.num)
    <3>1. ch \in Channels(l)
      BY BaseTypes, ChannelFacts DEF Readable
    <3>2. \/ ToSet(k.impulses[l]) \subseteq c.seen
          \/ /\ k.num >= f.firstSent[l][ch]
             /\ k.impulses[l] = f.queue[l][ch]
      BY DEF Delivers, CarriedOK
    <3> HIDE DEF ch
    <3>3. CASE same(l, ch)
      BY <3>2, <3>3 DEF same, ch
    <3>4. CASE taken(l, ch)
      <4>1. Held(f, l, ch) = {}
        BY <1>4, <3>4
      <4> QED
        BY <3>2, <4>1 DEF Held
    <3> QED
      BY <1>3, <3>1, <3>3, <3>4
  <2>2. ASSUME NEW l \in Levels
        PROVE  /\ m.num >= g.firstSent[l][Channel(l, m.num)]
               /\ m.impulses[l] = g.queue[l][Channel(l, m.num)]
    BY <1>1, <1>2, <1>13, BaseTypes
  <2>3. \A k \in Readable(c, T) : k.ack >= None
    BY DEF Delivers, CarriedOK
  <2> QED
    BY <1>6, <1>7, <2>1, <2>2, <2>3 DEF CarriedOK
<1>16. CleanOK(g, c, V)
  <2> SUFFICES ASSUME Clean(g, c, V)
               PROVE  /\ \A l \in Levels : \A ch \in Channels(l) :
                           Held(g, l, ch) \cap c.seen = {}
                      /\ \A k \in Readable(c, V) : \A l \in Levels :
                           ToSet(k.impulses[l]) \cap c.seen = {}
    BY DEF CleanOK
  <2>1. Clean(f, c, T)
    BY DEF Clean
  <2>2. /\ \A l \in Levels : \A ch \in Channels(l) : Held(f, l, ch) \cap c.seen = {}
        /\ \A k \in Readable(c, T) : \A l \in Levels :
             ToSet(k.impulses[l]) \cap c.seen = {}
    BY <2>1 DEF Delivers, CleanOK
  <2>3. ASSUME NEW l \in Levels, NEW ch \in Channels(l)
        PROVE  Held(g, l, ch) \cap c.seen = {}
    BY <1>3, <1>4, <2>2 DEF same
  <2>4. \A l \in Levels : ToSet(m.impulses[l]) \cap c.seen = {}
    BY <1>2, <2>3 DEF Held
  <2> QED
    BY <1>6, <2>2, <2>3, <2>4
<1>17. WitnessOK(g, c, U)
  <2> SUFFICES ASSUME NEW l \in Levels, NEW ch \in Channels(l),
                      Held(g, l, ch) # {}, Held(g, l, ch) \subseteq c.seen
               PROVE  \E p \in 1 .. c.last : Witness(g, c, U, l, ch, p)
    BY DEF WitnessOK
  <2>1. same(l, ch)
    BY <1>3, <1>4
  <2>2. PICK p \in 1 .. c.last : Witness(f, c, U, l, ch, p)
    BY <2>1 DEF same, Delivers, WitnessOK
  <2>3. Witness(g, c, U, l, ch, p)
    BY <2>1, <2>2 DEF same, Witness, DecoderAwaits
  <2> QED
    BY <2>3
<1>18. DecodedOK(g, c, V)
  <2> SUFFICES ASSUME c.state = "Connected" PROVE DecodedOK(g, c, V)
    BY DEF DecodedOK
  <2>1. ASSUME NEW l \in Levels, NEW ch \in Channels(l)
        PROVE  /\ c.decoded[l][ch] \in None .. c.sendNumber
               /\ Held(g, l, ch) \cap c.seen = {} => c.decoded[l][ch] <= f.receiveNumber
    <3>1. /\ c.decoded[l][ch] \in None .. c.sendNumber
          /\ Held(f, l, ch) \cap c.seen = {} => c.decoded[l][ch] <= f.receiveNumber
      BY DEF Delivers, DecodedOK
    <3> QED
      BY <1>3, <1>4, <3>1 DEF same
  <2>2. ASSUME NEW l \in Levels, m.impulses[l] # <<>>
        PROVE  m.ack >= c.decoded[l][Channel(l, m.num)]
                 <=> ~(ToSet(m.impulses[l]) \subseteq c.seen)
    <3> DEFINE ch == Channel(l, n)
    <3>1. /\ ch \in Channels(l) /\ ToSet(m.impulses[l]) = Held(g, l, ch)
          /\ Held(g, l, ch) # {}
      BY <1>2, <2>2, BaseTypes, ToSetFacts DEF Held
    <3>2. c.decoded[l][ch] \in Int
      BY <2>1, <3>1, BaseTypes DEF None
    <3>3. CASE Held(g, l, ch) \subseteq c.seen
      <4>1. PICK p \in 1 .. c.last : Witness(g, c, U, l, ch, p)
        BY <1>17, <3>1, <3>3 DEF WitnessOK
      <4>2. f.receiveNumber < c.decoded[l][ch]
        BY <4>1 DEF Witness
      <4> QED
        BY <1>1, <3>1, <3>2, <3>3, <4>2
    <3>4. CASE ~(Held(g, l, ch) \subseteq c.seen)
      <4>1. Held(g, l, ch) \cap c.seen = {}
        BY <1>13, <3>1, <3>4
      <4>2. c.decoded[l][ch] <= f.receiveNumber
        BY <2>1, <3>1, <4>1
      <4> QED
        BY <1>1, <3>1, <3>2, <3>4, <4>2
    <3> QED
      BY <3>3, <3>4
  <2>3. \A k \in Readable(c, T) : \A l \in Levels :
          k.impulses[l] # <<>> =>
            (k.ack >= c.decoded[l][Channel(l, k.num)]
               <=> ~(ToSet(k.impulses[l]) \subseteq c.seen))
    BY DEF Delivers, DecodedOK
  <2> QED
    BY <1>6, <2>1, <2>2, <2>3 DEF DecodedOK
<1> QED
  BY <1>8, <1>9, <1>10, <1>14, <1>15, <1>16, <1>17, <1>18 DEF Delivers

-----------------------------------------------------------------------------
(* An acknowledgement flushes the channels of the packets it names.        *)

(* Acknowledgements: a channel is emptied by one of its packets that was   *)
(* read since its impulses were first sent.                                *)
Flushed(f, packets, l, ch) ==
  \E p \in packets : Channel(l, p) = ch /\ p >= f.firstSent[l][ch]

Flushes(f, g, packets) ==
  /\ g.firstSent = f.firstSent /\ g.main = f.main
  /\ \A l \in Levels : \A ch \in Channels(l) :
       g.queue[l][ch] = IF Flushed(f, packets, l, ch) THEN <<>> ELSE f.queue[l][ch]

LEMMA AcknowledgedForms ==
  ASSUME NEW f, NEW c, Typed(f, c), NEW packets
  PROVE  LET g == Acknowledged(f, packets)
         IN  /\ DOMAIN g = DOMAIN f /\ Flushes(f, g, packets)
             /\ \A x \in DOMAIN f \ {"queue", "acked"} : g[x] = f[x]
<1> DEFINE g == Acknowledged(f, packets)
<1>1. DOMAIN g = DOMAIN f /\ \A x \in DOMAIN f \ {"queue", "acked"} : g[x] = f[x]
  BY DEF Acknowledged
<1>2. /\ g.queue = [l \in Levels |-> [ch \in Channels(l) |->
                      IF Flushed(f, packets, l, ch) THEN <<>> ELSE f.queue[l][ch]]]
      /\ g.firstSent = f.firstSent /\ g.main = f.main
  BY DEF Acknowledged, Flushed, Typed, FrontEndOK
<1> HIDE DEF g
<1>3. Flushes(f, g, packets)
  BY <1>2 DEF Flushes
<1> QED
  BY <1>1, <1>3 DEF g

(* What an acknowledgement empties was read.                               *)
LEMMA FlushedFacts ==
  ASSUME NEW f, NEW g, NEW c, NEW packets, Typed(f, c), Flushes(f, g, packets),
         \A p \in packets : WasRead(f, c, p),
         NEW l \in Levels, NEW ch \in Channels(l)
  PROVE  /\ Flushed(f, packets, l, ch) =>
              Held(f, l, ch) \subseteq c.seen /\ Held(g, l, ch) = {}
         /\ ~ Flushed(f, packets, l, ch) =>
              g.queue[l][ch] = f.queue[l][ch] /\ Held(g, l, ch) = Held(f, l, ch)
         /\ g.queue[l][ch] \in {<<>>, f.queue[l][ch]}
         /\ Held(g, l, ch) \subseteq Held(f, l, ch)
<1>1. ASSUME Flushed(f, packets, l, ch) PROVE Held(f, l, ch) \subseteq c.seen
  <2>1. PICK p \in packets : Channel(l, p) = ch /\ p >= f.firstSent[l][ch]
    BY <1>1 DEF Flushed
  <2>2. WasRead(f, c, p) /\ p \in Int
    BY <2>1 DEF WasRead
  <2>3. f.firstSent[l][ch] \in Int
    BY DEF Typed, QueuesOK, Packets
  <2>4. f.firstSent[l][Channel(l, p)] <= p
    BY <2>1, <2>2, <2>3
  <2> QED
    BY <2>1, <2>2, <2>4 DEF WasRead, Held
<1>2. g.queue[l][ch] = IF Flushed(f, packets, l, ch) THEN <<>> ELSE f.queue[l][ch]
  BY DEF Flushes
<1>3. ToSet(<<>>) = {}
  BY DEF ToSet
<1> QED
  BY <1>1, <1>2, <1>3 DEF Held

LEMMA FlushedDelivers ==
  ASSUME NEW f, NEW g, NEW c, NEW T, NEW U, NEW packets,
         Base(f, c, T, U), Delivers(f, c, T, U), Flushes(f, g, packets),
         \A p \in packets : WasRead(f, c, p),
         g.sendNumber = f.sendNumber, g.added = f.added
  PROVE  MainOK(g, c) /\ HeldOK(g, c) /\ CarriedOK(g, c, T)
<1>1. Typed(f, c)
  BY DEF Base
<1>2. \A l \in Levels : \A ch \in Channels(l) :
        /\ Flushed(f, packets, l, ch) =>
             Held(f, l, ch) \subseteq c.seen /\ Held(g, l, ch) = {}
        /\ g.queue[l][ch] \in {<<>>, f.queue[l][ch]}
        /\ ~ Flushed(f, packets, l, ch) => g.queue[l][ch] = f.queue[l][ch]
        /\ Held(g, l, ch) \subseteq Held(f, l, ch)
  BY <1>1, FlushedFacts
<1>3. MainOK(g, c)
  BY DEF Delivers, MainOK, Flushes
<1>4. HeldOK(g, c)
  <2> SUFFICES ASSUME NEW l \in Levels, NEW ch \in Channels(l)
               PROVE  /\ InOrder(g.queue[l][ch]) /\ g.firstSent[l][ch] <= g.sendNumber
                      /\ \A x \in Held(g, l, ch) :
                           /\ x[1] = l /\ x[2] <= g.added
                           /\ \A y \in ToSet(g.main[l]) : x[2] < y[2]
                      /\ \A d \in Channels(l) : d # ch =>
                           Held(g, l, ch) \cap Held(g, l, d) = {}
                      /\ \/ Held(g, l, ch) \subseteq c.seen
                         \/ Held(g, l, ch) \cap c.seen = {}
                      /\ l = 0 => \A x \in c.seen, y \in Held(g, l, ch) :
                                    x[1] = 0 /\ y \notin c.seen => x[2] < y[2]
    BY DEF HeldOK
  <2>1. InOrder(<<>>)
    BY DEF InOrder
  <2>2. InOrder(g.queue[l][ch]) /\ g.firstSent[l][ch] <= g.sendNumber
    BY <1>2, <2>1 DEF Delivers, HeldOK, Flushes
  <2>3. \A d \in Channels(l) : d # ch => Held(f, l, ch) \cap Held(f, l, d) = {}
    BY DEF Delivers, HeldOK
  <2>4. \A d \in Channels(l) : d # ch => Held(g, l, ch) \cap Held(g, l, d) = {}
    BY <1>2, <2>3
  <2>5. \A x \in Held(g, l, ch) : /\ x[1] = l /\ x[2] <= g.added
                                  /\ \A y \in ToSet(g.main[l]) : x[2] < y[2]
    BY <1>2 DEF Delivers, HeldOK, Flushes
  <2>6. Held(g, l, ch) \subseteq c.seen \/ Held(g, l, ch) \cap c.seen = {}
    BY <1>2 DEF Delivers, HeldOK
  <2>7. l = 0 => \A x \in c.seen, y \in Held(g, l, ch) :
                   x[1] = 0 /\ y \notin c.seen => x[2] < y[2]
    BY <1>2 DEF Delivers, HeldOK
  <2> QED
    BY <2>2, <2>4, <2>5, <2>6, <2>7
<1>5. CarriedOK(g, c, T)
  <2> SUFFICES ASSUME NEW m \in Readable(c, T), NEW l \in Levels
               PROVE  \/ ToSet(m.impulses[l]) \subseteq c.seen
                      \/ /\ m.num >= g.firstSent[l][Channel(l, m.num)]
                         /\ m.impulses[l] = g.queue[l][Channel(l, m.num)]
    BY DEF CarriedOK, Delivers
  <2> DEFINE ch == Channel(l, m.num)
  <2>1. ch \in Channels(l)
    BY BaseTypes, ChannelFacts DEF Readable
  <2>2. \/ ToSet(m.impulses[l]) \subseteq c.seen
        \/ m.num >= f.firstSent[l][ch] /\ m.impulses[l] = f.queue[l][ch]
    BY DEF Delivers, CarriedOK
  <2> HIDE DEF ch
  <2> QED
    BY <1>2, <2>1, <2>2 DEF Flushes, Held, ch
<1> QED
  BY <1>3, <1>4, <1>5

(* The ACK_SYNC of the last SYNC: it acknowledges all that was read.       *)
LEMMA AckSyncDelivers ==
  ASSUME NEW f, NEW g, NEW c, NEW T, NEW U, Base(f, c, T, U), Delivers(f, c, T, U),
         NEW m \in U, m.kind = "ACK_SYNC", m.code = f.lastSentSync,
         f.lastAck = None \/ ~(m.back > f.lastAck + 1),
         Flushes(f, g, LongAcks(f, m)),
         g.state = "Connected", g.lastAck = m.front,
         g.lastSentSync = f.lastSentSync + 1,
         g.sendNumber = f.sendNumber, g.added = f.added,
         g.receiveNumber = f.receiveNumber
  PROVE  Delivers(g, c, T, U)
<1>1. /\ f.lastSentSync \in Nat /\ c.latestSync \in Nat /\ c.last \in Nat
      /\ f.lastAck \in Int /\ m.front \in Nat /\ m.code \in Nat
  BY BaseTypes
<1>2. m.code <= c.latestSync /\ m.front <= c.last /\ m.back \in Nat
  BY DEF Delivers, AcksOK
<1>3. c.latestSync = f.lastSentSync /\ Readable(c, T) = {} /\ c.state # "Connected"
  BY <1>1, <1>2 DEF Delivers, EpochOK
<1>4. \A p \in LongAcks(f, m) : WasRead(f, c, p)
  BY DEF LongAcks, Base, SentToFE
<1>5. MainOK(g, c) /\ HeldOK(g, c) /\ CarriedOK(g, c, T)
  BY <1>4, FlushedDelivers
<1>6. ASSUME NEW l \in Levels, NEW ch \in Channels(l)
      PROVE  Held(g, l, ch) \cap c.seen = {}
  <2>1. /\ Flushed(f, LongAcks(f, m), l, ch) => Held(g, l, ch) = {}
        /\ Held(g, l, ch) \subseteq Held(f, l, ch)
    BY <1>4, FlushedFacts DEF Base
  <2>2. CASE Held(f, l, ch) = {}
    BY <2>1, <2>2
  <2>3. CASE Held(f, l, ch) \cap c.seen = {}
    BY <2>1, <2>3
  <2>4. CASE Held(f, l, ch) # {} /\ Held(f, l, ch) \subseteq c.seen
    <3>1. PICK p \in 1 .. c.last : Witness(f, c, U, l, ch, p)
      BY <2>4 DEF Delivers, WitnessOK
    <3>2. f.lastAck # None
      BY <2>4 DEF Delivers, EpochOK
    <3>3. /\ Channel(l, p) = ch /\ f.firstSent[l][ch] <= p /\ f.lastAck < p
          /\ p <= m.front /\ (p \in m.acked \/ p < m.back)
      BY <3>1 DEF Witness
    <3>4. p \in Nat /\ p >= m.back /\ f.firstSent[l][ch] \in Nat
      BY <1>1, <1>2, <3>2, <3>3, BaseTypes
    <3>5. p \in m.acked /\ p \in m.back .. m.front /\ p > f.lastAck
      BY <1>1, <1>2, <3>3, <3>4
    <3>6. p \in LongAcks(f, m)
      BY <3>5 DEF LongAcks
    <3>7. p >= f.firstSent[l][ch]
      BY <3>3, <3>4
    <3>8. Flushed(f, LongAcks(f, m), l, ch)
      BY <3>3, <3>6, <3>7 DEF Flushed
    <3> QED
      BY <2>1, <3>8
  <2> QED
    BY <2>2, <2>3, <2>4 DEF Delivers, HeldOK
<1>7. EpochOK(g, c, T)
  <2>1. c.latestSync = g.lastSentSync - 1 /\ c.latestSync # g.lastSentSync
    BY <1>1, <1>3
  <2>2. m.front >= None /\ m.front # None
    BY <1>1 DEF None
  <2>3. f.receiveNumber >= None
    BY DEF Delivers, EpochOK
  <2> QED
    BY <1>2, <1>3, <2>1, <2>2, <2>3 DEF EpochOK
<1>8. SyncsOK(g, c, T)
  <2> SUFFICES ASSUME NEW k \in T, k.kind = "SYNC"
               PROVE  /\ k.code <= g.lastSentSync /\ k.code # g.lastSentSync
                      /\ k.num > c.last => k.code >= c.latestSync
                      /\ \A n \in T : n.kind = "SYNC" /\ n.num > k.num =>
                           n.code >= k.code
    BY <1>3 DEF SyncsOK
  <2>1. k.code \in Nat /\ k.code <= f.lastSentSync
    BY BaseTypes DEF Delivers, SyncsOK
  <2> QED
    BY <1>1, <2>1 DEF Delivers, SyncsOK
<1>9. CleanOK(g, c, T)
  BY <1>3, <1>6 DEF CleanOK
<1>10. WitnessOK(g, c, U)
  BY <1>6 DEF WitnessOK
<1>11. DecodedOK(g, c, T)
  BY <1>3 DEF DecodedOK
<1> QED
  BY <1>5, <1>7, <1>8, <1>9, <1>10, <1>11 DEF Delivers

(* A normal datagram of the client: what it does not acknowledge follows   *)
(* it, and the decoder awaits a later one.                                 *)
LEMMA AckDelivers ==
  ASSUME NEW f, NEW g, NEW c, NEW T, NEW U, Base(f, c, T, U), Delivers(f, c, T, U),
         f.state = "Connected", NEW m \in U, m.kind = "normal",
         m.num > f.receiveNumber, ~ TooManyLost(f, m), m.last # 0,
         Flushes(f, g, MaskAcks(f, m)),
         g.state = f.state, g.lastAck = m.last, g.receiveNumber = m.num,
         g.lastSentSync = f.lastSentSync,
         g.sendNumber = f.sendNumber, g.added = f.added
  PROVE  Delivers(g, c, T, U)
<1> DEFINE acks == MaskAcks(f, m)
<1>1. /\ f.lastAck \in Int /\ c.last \in Nat /\ m.last \in Nat /\ m.num \in Nat
      /\ f.receiveNumber \in Int /\ m.last >= 1 /\ c.sendNumber \in Nat
  BY BaseTypes
<1>2. f.lastAck # None /\ f.receiveNumber >= None
  BY DEF Delivers, EpochOK
<1>3. m.last >= f.lastAck /\ m.last <= f.lastAck + AckBits + 1 /\ AckBits \in Nat
  <2>1. m.last - f.lastAck \in 0 .. AckBits + 1 /\ AckBits \in Nat
    BY <1>2, NetAssumption DEF TooManyLost, NetAssumption
  <2> QED
    BY <1>1, <2>1
<1>4. acks = {p \in f.lastAck + 1 .. m.last : p = m.last \/ p \in m.mask}
  BY <1>2 DEF MaskAcks
<1>5. \A p \in acks : WasRead(f, c, p)
  BY <1>4 DEF Base, SentToFE
<1> HIDE DEF acks
<1>6. MainOK(g, c) /\ HeldOK(g, c) /\ CarriedOK(g, c, T)
  BY <1>5, FlushedDelivers DEF acks
<1>7. \A l \in Levels : \A ch \in Channels(l) :
        /\ Flushed(f, acks, l, ch) =>
             Held(f, l, ch) \subseteq c.seen /\ Held(g, l, ch) = {}
        /\ ~ Flushed(f, acks, l, ch) => Held(g, l, ch) = Held(f, l, ch)
        /\ Held(g, l, ch) \subseteq Held(f, l, ch)
  BY <1>5, FlushedFacts DEF acks, Base
<1>8. EpochOK(g, c, T)
  <2>1. m.last >= None /\ m.last # None /\ m.num >= None
    BY <1>1 DEF None
  <2>2. m.last <= c.last
    BY DEF Delivers, AcksOK
  <2> QED
    BY <2>1, <2>2 DEF Delivers, EpochOK
<1>9. SyncsOK(g, c, T)
  BY DEF Delivers, SyncsOK
<1>10. CleanOK(g, c, T)
  <2>1. Clean(g, c, T) => Clean(f, c, T)
    BY DEF Clean
  <2>2. \A l \in Levels : \A ch \in Channels(l) :
          Held(f, l, ch) \cap c.seen = {} => Held(g, l, ch) \cap c.seen = {}
    BY <1>7
  <2> QED
    BY <2>1, <2>2 DEF Delivers, CleanOK
<1>11. ASSUME NEW l \in Levels, NEW ch \in Channels(l), NEW p \in 1 .. c.last,
              Witness(f, c, U, l, ch, p), ~ Flushed(f, acks, l, ch)
       PROVE  Witness(g, c, U, l, ch, p)
  <2>1. /\ Channel(l, p) = ch /\ f.firstSent[l][ch] <= p /\ f.lastAck < p
        /\ p <= m.last => p \in m.mask \cup {m.last} \/ p < m.last - AckBits
    BY <1>11 DEF Witness
  <2>2. f.firstSent[l][ch] \in Nat /\ p \in Nat
    BY BaseTypes
  <2>3. m.last < p
    <3> SUFFICES ASSUME p <= m.last PROVE FALSE
      BY <1>1, <2>2
    <3>1. ~(p < m.last - AckBits) /\ p \in f.lastAck + 1 .. m.last
      BY <1>1, <1>3, <2>1, <2>2
    <3>2. p \in acks
      BY <1>4, <2>1, <3>1
    <3>3. p >= f.firstSent[l][ch]
      BY <2>1, <2>2
    <3> QED
      BY <1>11, <2>1, <3>2, <3>3 DEF Flushed
  <2>4. c.state = "Connected" => m.num < c.decoded[l][ch]
    <3> SUFFICES ASSUME c.state = "Connected" PROVE m.num < c.decoded[l][ch]
      OBVIOUS
    <3>1. c.decoded[l][ch] \in Int
      BY <1>1 DEF Delivers, DecodedOK, None
    <3>2. m.num >= c.decoded[l][ch] => p <= m.last
      BY <1>11 DEF Witness, DecoderAwaits
    <3> QED
      BY <1>1, <2>2, <2>3, <3>1, <3>2
  <2> QED
    BY <1>11, <2>3, <2>4 DEF Witness, DecoderAwaits, Flushes
<1>12. WitnessOK(g, c, U)
  <2> SUFFICES ASSUME NEW l \in Levels, NEW ch \in Channels(l),
                      Held(g, l, ch) # {}, Held(g, l, ch) \subseteq c.seen
               PROVE  \E p \in 1 .. c.last : Witness(g, c, U, l, ch, p)
    BY DEF WitnessOK
  <2>1. ~ Flushed(f, acks, l, ch) /\ Held(g, l, ch) = Held(f, l, ch)
    BY <1>7
  <2>2. PICK p \in 1 .. c.last : Witness(f, c, U, l, ch, p)
    BY <2>1 DEF Delivers, WitnessOK
  <2> QED
    BY <1>11, <2>1, <2>2
<1>13. DecodedOK(g, c, T)
  <2> SUFFICES ASSUME c.state = "Connected", NEW l \in Levels, NEW ch \in Channels(l),
                      Held(g, l, ch) \cap c.seen = {}
               PROVE  c.decoded[l][ch] <= m.num
    BY DEF Delivers, DecodedOK
  <2>1. c.decoded[l][ch] \in Int
    BY <1>1 DEF Delivers, DecodedOK, None
  <2>2. CASE Held(f, l, ch) \cap c.seen = {}
    <3>1. c.decoded[l][ch] <= f.receiveNumber
      BY <2>2 DEF Delivers, DecodedOK
    <3> QED
      BY <1>1, <2>1, <3>1
  <2>3. CASE ~(Held(f, l, ch) \cap c.seen = {})
    <3>1. Flushed(f, acks, l, ch) /\ Held(f, l, ch) # {} /\ Held(f, l, ch) \subseteq c.seen
      BY <1>7, <2>3
    <3>2. PICK p \in 1 .. c.last : Witness(f, c, U, l, ch, p)
      BY <3>1 DEF Delivers, WitnessOK
    <3>3. PICK q \in acks : Channel(l, q) = ch /\ q >= f.firstSent[l][ch]
      BY <3>1 DEF Flushed
    <3>4. q \in m.mask \cup {m.last}
      BY <1>4
    <3>5. m.num >= c.decoded[l][ch]
      BY <3>2, <3>3, <3>4 DEF Witness, DecoderAwaits
    <3> QED
      BY <1>1, <2>1, <3>5
  <2> QED
    BY <2>2, <2>3
<1> QED
  BY <1>6, <1>8, <1>9, <1>10, <1>12, <1>13 DEF Delivers

-----------------------------------------------------------------------------
(* What the client sends, and the datagrams it does not read.              *)

(* The client acknowledges what it has read.                               *)
LEMMA AckSyncSent ==
  ASSUME NEW f, NEW c, NEW T, NEW U, Base(f, c, T, U), Delivers(f, c, T, U),
         NEW m, m.kind = "ACK_SYNC", m.front = c.last, m.back = c.lastInLong,
         m.acked = c.acked, m.code = c.latestSync
  PROVE  Delivers(f, c, T, U \cup {m})
<1> DEFINE W == U \cup {m}
<1>1. c.last \in Nat /\ c.latestSync \in Nat /\ c.lastInLong \in Nat
  BY BaseTypes DEF Delivers, FieldOK
<1>2. AcksOK(c, W)
  BY <1>1 DEF Delivers, AcksOK
<1>3. \A l, ch : \A p \in 1 .. c.last : Witness(f, c, U, l, ch, p) => Witness(f, c, W, l, ch, p)
  BY <1>1 DEF Witness
<1>4. WitnessOK(f, c, W)
  BY <1>3 DEF Delivers, WitnessOK
<1> QED
  BY <1>2, <1>4 DEF Delivers

LEMMA AckSent ==
  ASSUME NEW f, NEW c, NEW T, NEW U, Base(f, c, T, U), Delivers(f, c, T, U),
         c.state = "Connected", NEW m, m.kind = "normal", m.num = c.sendNumber,
         m.last = c.last, m.mask = c.acked \cap (c.last - AckBits .. c.last - 1)
  PROVE  Delivers(f, c, T, U \cup {m})
<1> DEFINE W == U \cup {m}
<1>1. /\ c.last \in Nat /\ c.sendNumber \in Nat /\ c.lastInLong \in Nat
      /\ AckBits \in Nat /\ LongAckBits \in Nat /\ AckBits < LongAckBits
      /\ c.acked \subseteq 1 .. c.last
  BY BaseTypes, NetAssumption, ClientAssumption
  DEF Base, ClientOK, Delivers, FieldOK, NetAssumption, ClientAssumption
<1>2. AcksOK(c, W)
  BY <1>1 DEF Delivers, AcksOK
<1>3. ASSUME NEW p \in 1 .. c.last, p \in c.acked \/ p < c.lastInLong
      PROVE  p \in m.mask \cup {m.last} \/ p < m.last - AckBits
  <2>1. CASE p \in c.acked
    BY <1>1, <2>1
  <2>2. CASE p < c.lastInLong
    <3>1. c.lastInLong <= c.last - LongAckBits + 1
      BY <1>1, <2>2 DEF Delivers, FieldOK
    <3> QED
      BY <1>1, <2>2, <3>1
  <2> QED
    BY <1>3, <2>1, <2>2
<1>4. ASSUME NEW l \in Levels, NEW ch \in Channels(l), NEW p \in 1 .. c.last,
             Witness(f, c, U, l, ch, p)
      PROVE  Witness(f, c, W, l, ch, p)
  <2>1. p <= m.last /\ m.kind # "ACK_SYNC"
    OBVIOUS
  <2>2. c.decoded[l][ch] \in Int /\ c.decoded[l][ch] <= c.sendNumber
    BY <1>1 DEF Delivers, DecodedOK, None
  <2>3. DecoderAwaits(f, c, l, ch, p, m)
    BY <1>1, <2>1, <2>2 DEF DecoderAwaits
  <2>4. p \in m.mask \cup {m.last} \/ p < m.last - AckBits
    BY <1>3, <1>4 DEF Witness
  <2> HIDE DEF W
  <2>5. \A k \in W : k \in U \/ k = m
    BY DEF W
  <2> QED
    BY <1>4, <2>1, <2>3, <2>4, <2>5 DEF Witness
<1>5. WitnessOK(f, c, W)
  BY <1>4 DEF Delivers, WitnessOK
<1> QED
  BY <1>2, <1>5 DEF Delivers

(* decodeHeader: the client's two fields of acknowledgements move on.      *)
Prunes(c, d, n) ==
  /\ d.last = n
  /\ \A p \in c.acked : p > n - LongAckBits => p \in d.acked
  /\ d.lastInLong = IF c.lastInLong <= n - LongAckBits
                    THEN n - LongAckBits + 1 ELSE c.lastInLong

LEMMA PrunesFacts ==
  ASSUME NEW c, NEW d, NEW n \in Nat, FieldOK(c), c.last \in Nat, n > c.last,
         c.acked \subseteq 1 .. c.last, Prunes(c, d, n)
  PROVE  /\ FieldOK(d)
         /\ \A p \in Nat : p \in c.acked \/ p < c.lastInLong =>
              p \in d.acked \/ p < d.lastInLong
<1>1. LongAckBits \in Nat /\ c.lastInLong \in Nat
  BY ClientAssumption DEF ClientAssumption, FieldOK
<1>2. FieldOK(d)
  BY <1>1 DEF FieldOK, Prunes
<1>3. ASSUME NEW p \in Nat, p \in c.acked \/ p < c.lastInLong
      PROVE  p \in d.acked \/ p < d.lastInLong
  BY <1>1, <1>3 DEF Prunes
<1> QED
  BY <1>2, <1>3

(* A SYNC, or a datagram that does not connect the client.                 *)
LEMMA OtherDelivers ==
  ASSUME NEW f, NEW c, NEW d, NEW T, NEW U, Base(f, c, T, U), Delivers(f, c, T, U),
         NEW m \in T, m.num > c.last, Prunes(c, d, m.num),
         d.seen = c.seen, d.log = c.log, d.state # "Connected",
         \/ m.kind = "SYNC" /\ d.latestSync = m.code
         \/ d.latestSync = c.latestSync /\ d.state # "Synchronize"
  PROVE  Delivers(f, d, T, U)
<1>1. /\ c.last \in Nat /\ c.latestSync \in Nat /\ f.lastSentSync \in Nat
      /\ f.lastAck \in Int /\ m.num \in Nat /\ d.last = m.num
      /\ c.acked \subseteq 1 .. c.last
      /\ \A n \in T : n.num \in Nat /\ (n.kind = "SYNC" => n.code \in Nat)
      /\ \A n \in U : /\ n.kind = "ACK_SYNC" => n.front \in Nat /\ n.code \in Nat
                      /\ n.kind = "normal" => n.last \in Nat
  BY BaseTypes DEF Base, ClientOK, Prunes
<1>2. Readable(d, T) \subseteq Readable(c, T)
  BY <1>1 DEF Readable
<1>3. /\ FieldOK(d)
      /\ \A p \in Nat : p \in c.acked \/ p < c.lastInLong =>
           p \in d.acked \/ p < d.lastInLong
  BY <1>1, PrunesFacts DEF Delivers
<1>4. /\ d.latestSync \in {f.lastSentSync - 1, f.lastSentSync}
      /\ d.latestSync \in Nat /\ d.latestSync >= c.latestSync
      /\ f.state = "Connected" => d.latestSync = f.lastSentSync - 1
      /\ d.latestSync = f.lastSentSync => Readable(d, T) = {}
  <2>1. CASE m.kind = "SYNC" /\ d.latestSync = m.code
    <3>1. m.code \in Nat /\ m.code <= f.lastSentSync /\ m.code >= c.latestSync
      BY <1>1, <2>1 DEF Delivers, SyncsOK
    <3>2. c.latestSync >= f.lastSentSync - 1
      BY <1>1 DEF Delivers, EpochOK
    <3>3. m.code \in {f.lastSentSync - 1, f.lastSentSync}
      BY <1>1, <3>1, <3>2
    <3>4. m.code = f.lastSentSync =>
            f.state # "Connected" /\ \A n \in T : n.kind = "normal" => n.num < m.num
      BY <2>1 DEF Delivers, SyncsOK
    <3>5. m.code = f.lastSentSync => Readable(d, T) = {}
      BY <1>1, <3>4 DEF Readable
    <3> QED
      BY <2>1, <3>1, <3>3, <3>4, <3>5
  <2>2. CASE d.latestSync = c.latestSync
    BY <1>1, <1>2, <2>2 DEF Delivers, EpochOK
  <2> QED
    BY <2>1, <2>2
<1>5. EpochOK(f, d, T)
  <2>1. f.lastAck <= c.last /\ f.lastAck <= m.num
    BY <1>1 DEF Delivers, EpochOK
  <2> QED
    BY <1>1, <1>4, <2>1 DEF Delivers, EpochOK
<1>6. SyncsOK(f, d, T)
  <2> SUFFICES ASSUME NEW k \in T, k.kind = "SYNC", k.num > d.last
               PROVE  k.code >= d.latestSync
    BY <1>2 DEF Delivers, SyncsOK
  <2>1. k.num > c.last
    BY <1>1
  <2>2. CASE m.kind = "SYNC" /\ d.latestSync = m.code
    BY <1>1, <2>2 DEF Delivers, SyncsOK
  <2>3. CASE d.latestSync = c.latestSync
    BY <2>1, <2>3 DEF Delivers, SyncsOK
  <2> QED
    BY <2>2, <2>3
<1>7. AcksOK(d, U)
  <2> SUFFICES ASSUME NEW k \in U
               PROVE  /\ k.kind = "ACK_SYNC" => k.code <= d.latestSync /\ k.front <= d.last
                      /\ k.kind = "normal" => k.last <= d.last
    BY DEF Delivers, AcksOK
  <2>1. /\ k.kind = "ACK_SYNC" => k.code <= c.latestSync /\ k.front <= c.last
        /\ k.kind = "normal" => k.last <= c.last
    BY DEF Delivers, AcksOK
  <2> QED
    BY <1>1, <1>4, <2>1
<1>8. MainOK(f, d) /\ HeldOK(f, d) /\ LogOK(d)
  BY DEF Delivers, MainOK, HeldOK, LogOK
<1>9. CarriedOK(f, d, T)
  BY <1>2 DEF Delivers, CarriedOK
<1>10. CleanOK(f, d, T)
  <2>1. Clean(f, d, T) => Clean(f, c, T)
    <3>1. CASE m.kind = "SYNC" /\ d.latestSync = m.code
      BY <1>1, <3>1 DEF Clean
    <3>2. CASE d.state # "Synchronize"
      BY <1>1, <3>2 DEF Clean
    <3> QED
      BY <3>1, <3>2
  <2> QED
    BY <1>2, <2>1 DEF Delivers, CleanOK
<1>11. WitnessOK(f, d, U)
  <2> SUFFICES ASSUME NEW l \in Levels, NEW ch \in Channels(l),
                      Held(f, l, ch) # {}, Held(f, l, ch) \subseteq c.seen
               PROVE  \E p \in 1 .. d.last : Witness(f, d, U, l, ch, p)
    BY DEF WitnessOK
  <2>1. PICK p \in 1 .. c.last : Witness(f, c, U, l, ch, p)
    BY DEF Delivers, WitnessOK
  <2>2. p \in 1 .. d.last
    BY <1>1
  <2>3. Witness(f, d, U, l, ch, p)
    BY <1>1, <1>3, <2>1, <2>2 DEF Witness
  <2> QED
    BY <2>2, <2>3
<1>12. DecodedOK(f, d, T)
  BY DEF DecodedOK
<1> QED
  BY <1>3, <1>5, <1>6, <1>7, <1>8, <1>9, <1>10, <1>11, <1>12 DEF Delivers

-----------------------------------------------------------------------------
(* The client reads a normal datagram.                                     *)

(* receiveNormalMessage, of the client b that has c's decoder, or a new one. *)
Reading(c, b, m) ==
  /\ m.kind = "normal" /\ m.num > c.last
  /\ \/ c.state = "Connected" /\ b.decoded = c.decoded
     \/ c.state = "Synchronize" /\ b.decoded = NothingDecoded

HasRead(c, b, d, m) ==
  /\ d.state = "Connected" /\ d.latestSync = c.latestSync
  /\ Prunes(c, d, m.num) /\ m.num \in d.acked /\ d.sendNumber = c.sendNumber
  /\ \A l \in Levels : \A ch \in Channels(l) :
       d.decoded[l][ch] = IF ch = Channel(l, m.num) /\ Fresh(b, m, l)
                          THEN c.sendNumber ELSE b.decoded[l][ch]
  /\ d.seen = c.seen \cup UNION {ToSet(m.impulses[l]) : l \in Levels}
  /\ d.log = c.log \o New(b, m, 0) \o New(b, m, 1) \o New(b, m, 2)

(* What the decoder takes for new is what the channel holds, unread.       *)
LEMMA FreshFacts ==
  ASSUME NEW f, NEW c, NEW T, NEW U, Base(f, c, T, U), Delivers(f, c, T, U),
         NEW m \in T, NEW b, Reading(c, b, m), NEW l \in Levels
  PROVE  LET ch == Channel(l, m.num)
         IN  /\ ch \in Channels(l) /\ m.impulses[l] \in Seq(Impulses)
             /\ Fresh(b, m, l) => /\ m.impulses[l] = f.queue[l][ch]
                                  /\ Held(f, l, ch) # {} /\ Held(f, l, ch) \cap c.seen = {}
                                  /\ f.firstSent[l][ch] <= m.num
             /\ ~ Fresh(b, m, l) => ToSet(m.impulses[l]) \subseteq c.seen
<1> DEFINE ch == Channel(l, m.num)
<1>1. m.num \in Nat /\ ch \in Channels(l) /\ m \in Readable(c, T)
  BY BaseTypes, ChannelFacts DEF Reading, Readable
<1>2. m.impulses[l] \in Seq(Impulses)
  BY DEF Base, SentToClient, Reading
<1>3. /\ m.ack >= None
      /\ \/ ToSet(m.impulses[l]) \subseteq c.seen
         \/ m.num >= f.firstSent[l][ch] /\ m.impulses[l] = f.queue[l][ch]
  BY <1>1 DEF Delivers, CarriedOK
<1>4. m.impulses[l] = <<>> <=> ToSet(m.impulses[l]) = {}
  BY <1>2, ToSetFacts
<1> HIDE DEF ch
<1>5. Fresh(b, m, l) <=> m.impulses[l] # <<>> /\ ~(ToSet(m.impulses[l]) \subseteq c.seen)
  <2>1. Fresh(b, m, l) <=> m.impulses[l] # <<>> /\ m.ack >= b.decoded[l][ch]
    BY DEF Fresh, ch
  <2>2. CASE c.state = "Connected" /\ b.decoded = c.decoded
    <3>1. m.impulses[l] # <<>> =>
            (m.ack >= c.decoded[l][ch] <=> ~(ToSet(m.impulses[l]) \subseteq c.seen))
      BY <1>1, <2>2 DEF Delivers, DecodedOK, ch
    <3> QED
      BY <2>1, <2>2, <3>1
  <2>3. CASE c.state = "Synchronize" /\ b.decoded = NothingDecoded
    <3>1. b.decoded[l][ch] = None
      BY <1>1, <2>3 DEF NothingDecoded, None
    <3>2. Clean(f, c, T)
      <4>1. c.latestSync = f.lastSentSync - 1
        BY <1>1 DEF Delivers, EpochOK
      <4> QED
        BY <2>3, <4>1 DEF Clean
    <3>3. ToSet(m.impulses[l]) \cap c.seen = {}
      BY <1>1, <3>2 DEF Delivers, CleanOK
    <3> QED
      BY <1>3, <1>4, <2>1, <3>1, <3>3
  <2> QED
    BY <2>2, <2>3 DEF Reading
<1>6. ASSUME Fresh(b, m, l)
      PROVE  /\ m.impulses[l] = f.queue[l][ch]
             /\ Held(f, l, ch) # {} /\ Held(f, l, ch) \cap c.seen = {}
             /\ f.firstSent[l][ch] <= m.num
  <2>1. m.num >= f.firstSent[l][ch] /\ m.impulses[l] = f.queue[l][ch]
    BY <1>3, <1>5, <1>6
  <2>2. ~(Held(f, l, ch) \subseteq c.seen) /\ Held(f, l, ch) # {}
    BY <1>5, <1>6, <2>1 DEF Held
  <2>3. Held(f, l, ch) \cap c.seen = {}
    BY <1>1, <2>2 DEF Delivers, HeldOK
  <2>4. f.firstSent[l][ch] \in Nat
    BY <1>1, BaseTypes
  <2> QED
    BY <1>1, <2>1, <2>2, <2>3, <2>4
<1>7. ~ Fresh(b, m, l) => ToSet(m.impulses[l]) \subseteq c.seen
  BY <1>4, <1>5
<1> QED
  BY <1>1, <1>2, <1>6, <1>7 DEF ch

LEMMA SeenFacts ==
  ASSUME NEW f, NEW c, NEW T, NEW U, Base(f, c, T, U), Delivers(f, c, T, U),
         NEW m \in T, NEW b, Reading(c, b, m), NEW d, HasRead(c, b, d, m)
  PROVE  /\ c.seen \subseteq d.seen
         /\ \A x \in d.seen : x \in c.seen \/
              \E l \in Levels : Fresh(b, m, l) /\ x \in Held(f, l, Channel(l, m.num))
         /\ \A l \in Levels : Fresh(b, m, l) => Held(f, l, Channel(l, m.num)) \subseteq d.seen
         /\ \A l \in Levels : \A ch \in Channels(l) :
              \/ ch = Channel(l, m.num) /\ Fresh(b, m, l)
              \/ \A x \in Held(f, l, ch) : x \in d.seen => x \in c.seen
<1>1. d.seen = c.seen \cup UNION {ToSet(m.impulses[l]) : l \in Levels}
  BY DEF HasRead
<1>2. \A l \in Levels :
        /\ Channel(l, m.num) \in Channels(l)
        /\ Fresh(b, m, l) => ToSet(m.impulses[l]) = Held(f, l, Channel(l, m.num))
        /\ ~ Fresh(b, m, l) => ToSet(m.impulses[l]) \subseteq c.seen
  BY FreshFacts DEF Held
<1>3. ASSUME NEW x \in d.seen, x \notin c.seen
      PROVE  \E l \in Levels : Fresh(b, m, l) /\ x \in Held(f, l, Channel(l, m.num))
  <2>1. PICK l \in Levels : x \in ToSet(m.impulses[l])
    BY <1>1, <1>3
  <2> QED
    BY <1>2, <1>3, <2>1
<1>4. \A l \in Levels : Fresh(b, m, l) => Held(f, l, Channel(l, m.num)) \subseteq d.seen
  BY <1>1, <1>2
<1>5. ASSUME NEW l \in Levels, NEW ch \in Channels(l),
             ~(ch = Channel(l, m.num) /\ Fresh(b, m, l)),
             NEW x \in Held(f, l, ch), x \in d.seen
      PROVE  x \in c.seen
  <2> SUFFICES ASSUME x \notin c.seen PROVE FALSE
    OBVIOUS
  <2>1. PICK k \in Levels : Fresh(b, m, k) /\ x \in Held(f, k, Channel(k, m.num))
    BY <1>3, <1>5
  <2>2. x[1] = l /\ x[1] = k
    BY <1>2, <2>1 DEF Delivers, HeldOK
  <2>3. Held(f, l, ch) \cap Held(f, l, Channel(l, m.num)) = {}
    BY <1>2, <1>5, <2>1, <2>2 DEF Delivers, HeldOK
  <2> QED
    BY <2>1, <2>2, <2>3
<1> QED
  BY <1>1, <1>3, <1>4, <1>5

(* The log grows by impulses that it does not have yet.                    *)
OrderedLog(s) ==
  /\ IsInjective(s)
  /\ \A i, j \in DOMAIN s :
       i < j /\ s[i][1] = 0 /\ s[j][1] = 0 => s[i][2] < s[j][2]

LEMMA LogExtends ==
  ASSUME NEW s \in Seq(Impulses), NEW t \in Seq(Impulses), OrderedLog(s), InOrder(t),
         ToSet(s) \cap ToSet(t) = {},
         \A x \in ToSet(s), y \in ToSet(t) : x[1] = 0 /\ y[1] = 0 => x[2] < y[2]
  PROVE  /\ s \o t \in Seq(Impulses) /\ OrderedLog(s \o t)
         /\ ToSet(s \o t) = ToSet(s) \cup ToSet(t)
<1> DEFINE r == s \o t
           n == Len(s)
           k == Len(t)
<1>1. /\ DOMAIN s = 1 .. n /\ n \in Nat /\ DOMAIN t = 1 .. k /\ k \in Nat
      /\ \A i \in 1 .. n : s[i] \in ToSet(s) /\ s[i] \in Impulses
      /\ \A i \in 1 .. k : t[i] \in ToSet(t) /\ t[i] \in Impulses
  BY ToSetFacts
<1>2. /\ r \in Seq(Impulses) /\ DOMAIN r = 1 .. n + k
      /\ \A i \in 1 .. n : r[i] = s[i]
      /\ \A i \in n + 1 .. n + k : r[i] = t[i - n] /\ i - n \in 1 .. k
  BY <1>1
<1> HIDE DEF r, n, k
<1>3. \A i \in 1 .. n + k : i \in 1 .. n \/ i \in n + 1 .. n + k
  BY <1>1
<1>4. ToSet(r) = ToSet(s) \cup ToSet(t)
  <2>1. \A i \in 1 .. n + k : r[i] \in ToSet(s) \cup ToSet(t)
    BY <1>1, <1>2, <1>3
  <2>2. ASSUME NEW x \in ToSet(s) PROVE x \in ToSet(r)
    <3>1. PICK i \in 1 .. n : s[i] = x
      BY <1>1 DEF ToSet
    <3>2. i \in 1 .. n + k /\ r[i] = x
      BY <1>1, <1>2, <3>1
    <3> QED
      BY <1>2, <3>2 DEF ToSet
  <2>3. ASSUME NEW x \in ToSet(t) PROVE x \in ToSet(r)
    <3>1. PICK i \in 1 .. k : t[i] = x
      BY <1>1 DEF ToSet
    <3>2. n + i \in n + 1 .. n + k /\ (n + i) - n = i /\ n + i \in 1 .. n + k
      BY <1>1
    <3>3. r[n + i] = x
      BY <1>2, <3>1, <3>2
    <3> QED
      BY <1>2, <3>2, <3>3 DEF ToSet
  <2>4. ToSet(r) \subseteq ToSet(s) \cup ToSet(t)
    BY <1>2, <2>1 DEF ToSet
  <2> QED
    BY <2>2, <2>3, <2>4
<1>5. ASSUME NEW i \in 1 .. n + k, NEW j \in 1 .. n + k, i < j
      PROVE  r[i] # r[j] /\ (r[i][1] = 0 /\ r[j][1] = 0 => r[i][2] < r[j][2])
  <2>1. CASE j \in 1 .. n
    <3>1. i \in 1 .. n /\ i # j
      BY <1>1, <1>5, <2>1
    <3> QED
      BY <1>1, <1>2, <1>5, <2>1, <3>1 DEF OrderedLog, IsInjective
  <2>2. CASE i \in 1 .. n /\ j \in n + 1 .. n + k
    BY <1>1, <1>2, <2>2
  <2>3. CASE i \in n + 1 .. n + k /\ j \in n + 1 .. n + k
    <3>1. i - n \in 1 .. k /\ j - n \in 1 .. k /\ i - n < j - n
      BY <1>1, <1>2, <1>5, <2>3
    <3>2. t[i - n][2] < t[j - n][2]
      BY <1>1, <3>1 DEF InOrder
    <3>3. t[i - n][2] \in Nat /\ r[i] = t[i - n] /\ r[j] = t[j - n]
      BY <1>1, <1>2, <2>3, <3>1, ImpulseTypes
    <3> QED
      BY <3>2, <3>3
  <2> QED
    BY <1>1, <1>3, <1>5, <2>1, <2>2, <2>3
<1>6. IsInjective(r)
  <2> SUFFICES ASSUME NEW i \in 1 .. n + k, NEW j \in 1 .. n + k, r[i] = r[j]
               PROVE  i = j
    BY <1>2 DEF IsInjective
  <2>1. ~(i < j) /\ ~(j < i)
    BY <1>5
  <2> QED
    BY <1>1, <2>1
<1>7. OrderedLog(r)
  BY <1>2, <1>5, <1>6 DEF OrderedLog
<1> QED
  BY <1>2, <1>4, <1>7 DEF r

LEMMA LevelsAreSmall == \A l \in Levels : l \in {0, 1, 2} /\ l \in Nat
<1>1. Levels \subseteq 0 .. 2
  BY NetAssumption DEF NetAssumption
<1> QED
  BY <1>1

(* One level of a normal datagram is appended to the log s.                *)
LEMMA LevelExtends ==
  ASSUME NEW f, NEW c, NEW T, NEW U, Base(f, c, T, U), Delivers(f, c, T, U),
         NEW m \in T, NEW b, Reading(c, b, m), NEW l \in Nat,
         NEW s \in Seq(Impulses), OrderedLog(s), c.seen \subseteq ToSet(s),
         \A x \in ToSet(s) : x \in c.seen \/ x[1] < l
  PROVE  LET t == s \o New(b, m, l)
         IN  /\ t \in Seq(Impulses) /\ OrderedLog(t) /\ c.seen \subseteq ToSet(t)
             /\ ToSet(t) = ToSet(s) \cup ToSet(New(b, m, l))
             /\ \A x \in ToSet(t) : x \in c.seen \/ x[1] < l + 1
<1> DEFINE new == New(b, m, l)
           ch == Channel(l, m.num)
<1>1. CASE ~(l \in Levels /\ Fresh(b, m, l))
  <2>1. new = <<>>
    BY <1>1 DEF New
  <2>2. s \o <<>> = s /\ ToSet(<<>>) = {}
    BY DEF ToSet
  <2>3. \A x \in ToSet(s) : x[1] \in Nat
    <3>1. \A x \in ToSet(s) : x[1] \in Levels
      BY ToSetFacts, ImpulseTypes
    <3> QED
      BY <3>1, LevelsAreSmall
  <2>4. \A x \in ToSet(s) : x[1] < l => x[1] < l + 1
    BY <2>3
  <2> QED
    BY <2>1, <2>2, <2>4
<1>2. CASE l \in Levels /\ Fresh(b, m, l)
  <2>1. /\ new = f.queue[l][ch] /\ new \in Seq(Impulses) /\ ch \in Channels(l)
        /\ ToSet(new) = Held(f, l, ch) /\ ToSet(new) \cap c.seen = {}
    BY <1>2, FreshFacts DEF New, Held
  <2> HIDE DEF new, ch
  <2>2. InOrder(new) /\ \A x \in ToSet(new) : x[1] = l /\ x[1] \in Nat
    BY <1>2, <2>1 DEF Delivers, HeldOK
  <2>3. \A x \in ToSet(s) : x[1] \in Nat
    <3>1. \A x \in ToSet(s) : x[1] \in Levels
      BY ToSetFacts, ImpulseTypes
    <3> QED
      BY <3>1, LevelsAreSmall
  <2>4. ToSet(s) \cap ToSet(new) = {}
    BY <2>1, <2>2
  <2>5. ASSUME NEW x \in ToSet(s), NEW y \in ToSet(new), x[1] = 0, y[1] = 0
        PROVE  x[2] < y[2]
    <3>1. l = 0 /\ x \in c.seen /\ y \notin c.seen
      BY <2>1, <2>2, <2>5
    <3> QED
      BY <1>2, <2>1, <2>5, <3>1 DEF Delivers, HeldOK
  <2>6. /\ s \o new \in Seq(Impulses) /\ OrderedLog(s \o new)
        /\ ToSet(s \o new) = ToSet(s) \cup ToSet(new)
    BY <2>1, <2>2, <2>4, <2>5, LogExtends
  <2>7. \A x \in ToSet(s) : x[1] < l => x[1] < l + 1
    BY <2>3
  <2>8. \A x \in ToSet(new) : x[1] < l + 1
    BY <2>2
  <2> QED
    BY <2>6, <2>7, <2>8 DEF new
<1> QED
  BY <1>1, <1>2

LEMMA LogReads ==
  ASSUME NEW f, NEW c, NEW T, NEW U, Base(f, c, T, U), Delivers(f, c, T, U),
         NEW m \in T, NEW b, Reading(c, b, m), NEW d, HasRead(c, b, d, m)
  PROVE  LogOK(d)
<1> DEFINE s0 == c.log
           s1 == s0 \o New(b, m, 0)
           s2 == s1 \o New(b, m, 1)
           s3 == s2 \o New(b, m, 2)
           Good(s, l) == /\ s \in Seq(Impulses) /\ OrderedLog(s) /\ c.seen \subseteq ToSet(s)
                         /\ \A x \in ToSet(s) : x \in c.seen \/ x[1] < l
<1>1. Good(s0, 0) /\ ToSet(s0) = c.seen
  BY DEF Base, ClientOK, Delivers, LogOK, OrderedLog
<1> HIDE DEF s0
<1>2. Good(s1, 1) /\ ToSet(s1) = ToSet(s0) \cup ToSet(New(b, m, 0))
  <2>1. 0 + 1 = 1 /\ 0 \in Nat
    OBVIOUS
  <2> QED
    BY <1>1, <2>1, LevelExtends
<1> HIDE DEF s1
<1>3. Good(s2, 2) /\ ToSet(s2) = ToSet(s1) \cup ToSet(New(b, m, 1))
  <2>1. 1 + 1 = 2 /\ 1 \in Nat
    OBVIOUS
  <2> QED
    BY <1>2, <2>1, LevelExtends
<1> HIDE DEF s2
<1>4. OrderedLog(s3) /\ ToSet(s3) = ToSet(s2) \cup ToSet(New(b, m, 2))
  BY <1>3, LevelExtends
<1> HIDE DEF s3
<1>5. d.log = s3 /\ d.seen = c.seen \cup UNION {ToSet(m.impulses[l]) : l \in Levels}
  BY DEF HasRead, s0, s1, s2, s3
<1>6. \A l \in Levels : l \in {0, 1, 2} /\ ToSet(m.impulses[l]) \subseteq c.seen \cup ToSet(New(b, m, l))
  <2> SUFFICES ASSUME NEW l \in Levels
               PROVE  ToSet(m.impulses[l]) \subseteq c.seen \cup ToSet(New(b, m, l))
    BY LevelsAreSmall
  <2> QED
    BY FreshFacts DEF New
<1>7. \A l : \/ New(b, m, l) = <<>>
             \/ l \in Levels /\ New(b, m, l) = m.impulses[l]
  BY DEF New
<1>8. ToSet(<<>>) = {}
  BY DEF ToSet
<1>9. ToSet(s3) = c.seen \cup ToSet(New(b, m, 0)) \cup ToSet(New(b, m, 1)) \cup ToSet(New(b, m, 2))
  BY <1>1, <1>2, <1>3, <1>4
<1>10. ToSet(s3) = d.seen
  <2>1. \A l : ToSet(New(b, m, l)) \subseteq d.seen
    BY <1>5, <1>7, <1>8
  <2>2. \A l \in Levels : ToSet(m.impulses[l]) \subseteq ToSet(s3)
    BY <1>6, <1>9
  <2> QED
    BY <1>5, <1>9, <2>1, <2>2
<1> QED
  BY <1>4, <1>5, <1>10 DEF LogOK, OrderedLog

LEMMA ReadDelivers ==
  ASSUME NEW f, NEW c, NEW T, NEW U, Base(f, c, T, U), Delivers(f, c, T, U),
         NEW m \in T, NEW b, Reading(c, b, m), NEW d, HasRead(c, b, d, m)
  PROVE  Delivers(f, d, T, U)
<1> DEFINE here(l, ch) == ch = Channel(l, m.num) /\ Fresh(b, m, l)
<1>1. /\ c.last \in Nat /\ m.num \in Nat /\ m.num > c.last /\ d.last = m.num
      /\ f.lastAck \in Int /\ f.receiveNumber \in Int /\ c.sendNumber \in Nat
      /\ f.receiveNumber < c.sendNumber /\ f.lastSentSync \in Nat
      /\ c.latestSync \in Nat /\ c.acked \subseteq 1 .. c.last
      /\ \A k \in T : k.num \in Nat
      /\ d.state = "Connected" /\ d.latestSync = c.latestSync
      /\ d.sendNumber = c.sendNumber /\ m.num \in d.acked
  BY BaseTypes DEF Base, ClientOK, Reading, HasRead, Prunes
<1>2. /\ m \in Readable(c, T) /\ m \notin Readable(d, T)
      /\ Readable(d, T) \subseteq Readable(c, T)
  BY <1>1 DEF Readable, Reading
<1>3. /\ c.seen \subseteq d.seen
      /\ \A x \in d.seen : x \in c.seen \/
           \E l \in Levels : Fresh(b, m, l) /\ x \in Held(f, l, Channel(l, m.num))
      /\ \A l \in Levels : Fresh(b, m, l) => Held(f, l, Channel(l, m.num)) \subseteq d.seen
      /\ \A l \in Levels : \A ch \in Channels(l) :
           \/ ch = Channel(l, m.num) /\ Fresh(b, m, l)
           \/ \A x \in Held(f, l, ch) : x \in d.seen => x \in c.seen
  BY SeenFacts
<1>4. \A l \in Levels : \A ch \in Channels(l) :
        \/ /\ here(l, ch) /\ Held(f, l, ch) \subseteq d.seen /\ Held(f, l, ch) # {}
           /\ Held(f, l, ch) \cap c.seen = {} /\ f.firstSent[l][ch] <= m.num
           /\ d.decoded[l][ch] = c.sendNumber
        \/ /\ ~ here(l, ch) /\ \A x \in Held(f, l, ch) : x \in d.seen => x \in c.seen
           /\ d.decoded[l][ch] = b.decoded[l][ch]
  BY <1>3, FreshFacts DEF HasRead
<1>5. c.latestSync = f.lastSentSync - 1 /\ f.lastAck <= c.last /\ f.receiveNumber >= None
  BY <1>2 DEF Delivers, EpochOK
<1>6. /\ FieldOK(d)
      /\ \A p \in Nat : p \in c.acked \/ p < c.lastInLong =>
           p \in d.acked \/ p < d.lastInLong
  BY <1>1, PrunesFacts DEF Delivers, HasRead
<1>7. EpochOK(f, d, T)
  <2>1. f.lastAck <= m.num /\ c.latestSync # f.lastSentSync
    BY <1>1, <1>5
  <2> QED
    BY <1>1, <1>5, <2>1 DEF Delivers, EpochOK
<1>8. SyncsOK(f, d, T)
  <2>1. \A k \in T : k.num > d.last => k.num > c.last
    BY <1>1
  <2> QED
    BY <1>1, <1>2, <2>1 DEF Delivers, SyncsOK
<1>9. AcksOK(d, U)
  <2> SUFFICES ASSUME NEW k \in U
               PROVE  /\ k.kind = "ACK_SYNC" => k.front <= d.last
                      /\ k.kind = "normal" => k.last <= d.last
    BY <1>1 DEF Delivers, AcksOK
  <2>1. /\ k.kind = "ACK_SYNC" => k.front <= c.last /\ k.front \in Nat
        /\ k.kind = "normal" => k.last <= c.last /\ k.last \in Nat
    BY BaseTypes DEF Delivers, AcksOK
  <2> QED
    BY <1>1, <2>1
<1>10. MainOK(f, d)
  <2> SUFFICES ASSUME NEW x \in d.seen
               PROVE  x[2] <= f.added /\ \A y \in ToSet(f.main[x[1]]) : x[2] < y[2]
    BY DEF Delivers, MainOK
  <2>1. CASE x \in c.seen
    BY <2>1 DEF Delivers, MainOK
  <2>2. CASE x \notin c.seen
    <3>1. PICK l \in Levels : Fresh(b, m, l) /\ x \in Held(f, l, Channel(l, m.num))
      BY <1>3, <2>2
    <3>2. Channel(l, m.num) \in Channels(l)
      BY FreshFacts
    <3> QED
      BY <3>1, <3>2 DEF Delivers, HeldOK
  <2> QED
    BY <2>1, <2>2
<1>11. HeldOK(f, d)
  <2> SUFFICES ASSUME NEW l \in Levels, NEW ch \in Channels(l)
               PROVE  /\ \/ Held(f, l, ch) \subseteq d.seen
                         \/ Held(f, l, ch) \cap d.seen = {}
                      /\ l = 0 => \A x \in d.seen, y \in Held(f, l, ch) :
                                    x[1] = 0 /\ y \notin d.seen => x[2] < y[2]
    BY DEF Delivers, HeldOK
  <2>1. CASE here(l, ch)
    BY <1>4, <2>1
  <2>2. CASE ~ here(l, ch)
    <3>1. \A x \in Held(f, l, ch) : x \in d.seen <=> x \in c.seen
      BY <1>3, <1>4, <2>2
    <3>2. Held(f, l, ch) \subseteq c.seen \/ Held(f, l, ch) \cap c.seen = {}
      BY DEF Delivers, HeldOK
    <3>3. ASSUME l = 0, NEW x \in d.seen, NEW y \in Held(f, l, ch), x[1] = 0, y \notin d.seen
          PROVE  x[2] < y[2]
      <4>1. CASE x \in c.seen
        BY <3>1, <3>3, <4>1 DEF Delivers, HeldOK
      <4>2. CASE x \notin c.seen
        <5>1. PICK k \in Levels : Fresh(b, m, k) /\ x \in Held(f, k, Channel(k, m.num))
          BY <1>3, <4>2
        <5>2. Channel(k, m.num) \in Channels(k) /\ k = 0
          <6>1. Channel(k, m.num) \in Channels(k)
            BY FreshFacts
          <6> QED
            BY <3>3, <5>1, <6>1 DEF Delivers, HeldOK
        <5>3. ch = Channel(k, m.num)
          <6>1. Channels(0) = {0}
            <7>1. 2^0 = 1
              OBVIOUS
            <7> QED
              BY <7>1 DEF Channels
          <6> QED
            BY <3>3, <5>2, <6>1
        <5> QED
          BY <2>2, <3>3, <5>1, <5>2, <5>3
      <4> QED
        BY <4>1, <4>2
    <3> QED
      BY <3>1, <3>2, <3>3
  <2> QED
    BY <2>1, <2>2
<1>12. CarriedOK(f, d, T)
  BY <1>2, <1>3 DEF Delivers, CarriedOK
<1>13. CleanOK(f, d, T)
  <2>1. ~ Clean(f, d, T)
    <3> SUFFICES ASSUME NEW k \in T, k.kind = "SYNC", k.num > d.last,
                        k.code = f.lastSentSync - 1
                 PROVE  FALSE
      BY <1>1 DEF Clean
    <3>1. k.code < f.lastSentSync
      BY <1>1
    <3>2. k.num < m.num
      BY <1>2, <3>1 DEF Delivers, SyncsOK
    <3> QED
      BY <1>1, <3>2
  <2> QED
    BY <2>1 DEF CleanOK
<1>14. ASSUME c.state # "Connected"
       PROVE  /\ c.state = "Synchronize" /\ b.decoded = NothingDecoded
              /\ \A l \in Levels : \A ch \in Channels(l) :
                   b.decoded[l][ch] = None /\ Held(f, l, ch) \cap c.seen = {}
              /\ \A k \in Readable(c, T) : \A l \in Levels :
                   ToSet(k.impulses[l]) \cap c.seen = {}
  <2>1. c.state = "Synchronize" /\ b.decoded = NothingDecoded
    BY <1>14 DEF Reading
  <2>2. Clean(f, c, T)
    BY <1>5, <2>1 DEF Clean
  <2> QED
    BY <2>1, <2>2 DEF Delivers, CleanOK, NothingDecoded, None
<1>15. c.state = "Connected" => b.decoded = c.decoded
  BY DEF Reading
<1>16. ASSUME NEW l \in Levels, NEW ch \in Channels(l), ~ here(l, ch),
              Held(f, l, ch) # {}, Held(f, l, ch) \subseteq d.seen
       PROVE  \E p \in 1 .. d.last : Witness(f, d, U, l, ch, p)
  <2>1. Held(f, l, ch) \subseteq c.seen /\ d.decoded[l][ch] = b.decoded[l][ch]
    BY <1>4, <1>16
  <2>2. c.state = "Connected"
    BY <1>14, <1>16, <2>1
  <2>3. PICK p \in 1 .. c.last : Witness(f, c, U, l, ch, p)
    BY <1>16, <2>1 DEF Delivers, WitnessOK
  <2>4. p \in 1 .. d.last /\ p \in Nat
    BY <1>1
  <2>5. d.decoded[l][ch] = c.decoded[l][ch]
    BY <1>15, <2>1, <2>2
  <2>6. Witness(f, d, U, l, ch, p)
    BY <1>1, <1>6, <2>2, <2>3, <2>4, <2>5 DEF Witness, DecoderAwaits
  <2> QED
    BY <2>4, <2>6
<1>17. ASSUME NEW l \in Levels, NEW ch \in Channels(l), here(l, ch)
       PROVE  \E p \in 1 .. d.last : Witness(f, d, U, l, ch, p)
  <2>1. /\ Held(f, l, ch) # {} /\ Held(f, l, ch) \cap c.seen = {}
        /\ f.firstSent[l][ch] <= m.num /\ d.decoded[l][ch] = c.sendNumber
    BY <1>4, <1>17
  <2>2. ASSUME NEW k \in U, k.kind = "ACK_SYNC"
        PROVE  ~(m.num <= k.front) /\ k.code # f.lastSentSync
    <3>1. /\ k.front <= c.last /\ k.code <= c.latestSync
          /\ k.front \in Nat /\ k.code \in Nat
      BY <2>2, BaseTypes DEF Delivers, AcksOK
    <3> QED
      BY <1>1, <1>5, <3>1
  <2>3. ASSUME NEW k \in U, k.kind = "normal"
        PROVE  ~(m.num <= k.last) /\ DecoderAwaits(f, d, l, ch, m.num, k)
    <3>1. /\ k.last <= c.last /\ k.num \in Nat /\ k.num < c.sendNumber /\ k.last \in Nat
          /\ \A q \in k.mask \cup {k.last} : q \in Nat
      BY <2>3, BaseTypes DEF Delivers, AcksOK
    <3>2. ~(k.num >= d.decoded[l][ch])
      BY <1>1, <2>1, <3>1
    <3>3. ASSUME NEW q \in k.mask \cup {k.last},
                 Channel(l, q) = ch, q >= f.firstSent[l][ch]
          PROVE  FALSE
      <4>1. WasRead(f, c, q)
        BY <2>3 DEF Base, SentToFE
      <4>2. f.firstSent[l][Channel(l, q)] <= q
        <5>1. f.firstSent[l][ch] \in Nat
          BY BaseTypes
        <5> QED
          BY <3>1, <3>3, <5>1
      <4>3. Held(f, l, ch) \subseteq c.seen
        BY <3>3, <4>1, <4>2 DEF WasRead, Held
      <4> QED
        BY <2>1, <4>3
    <3> QED
      BY <1>1, <3>1, <3>2, <3>3 DEF DecoderAwaits
  <2>4. m.num \in 1 .. d.last /\ f.lastAck < m.num
    BY <1>1, <1>5
  <2>5. Witness(f, d, U, l, ch, m.num)
    BY <1>1, <1>17, <2>1, <2>2, <2>3, <2>4 DEF Witness
  <2> QED
    BY <2>4, <2>5
<1>18. WitnessOK(f, d, U)
  BY <1>16, <1>17 DEF WitnessOK
<1>19. ASSUME NEW l \in Levels, NEW ch \in Channels(l)
       PROVE  /\ d.decoded[l][ch] \in None .. d.sendNumber
              /\ Held(f, l, ch) \cap d.seen = {} => d.decoded[l][ch] <= f.receiveNumber
  <2>1. CASE here(l, ch)
    BY <1>1, <1>4, <2>1 DEF None
  <2>2. CASE ~ here(l, ch) /\ c.state = "Connected"
    <3>1. d.decoded[l][ch] = c.decoded[l][ch]
      BY <1>4, <1>15, <2>2
    <3> QED
      BY <1>1, <1>3, <2>2, <3>1 DEF Delivers, DecodedOK
  <2>3. CASE ~ here(l, ch) /\ c.state # "Connected"
    <3>1. d.decoded[l][ch] = None
      BY <1>4, <1>14, <2>3
    <3> QED
      BY <1>1, <1>5, <3>1 DEF None
  <2> QED
    BY <2>1, <2>2, <2>3
<1>20. ASSUME NEW k \in Readable(d, T), NEW l \in Levels, k.impulses[l] # <<>>
       PROVE  k.ack >= d.decoded[l][Channel(l, k.num)]
                <=> ~(ToSet(k.impulses[l]) \subseteq d.seen)
  <2> DEFINE ch == Channel(l, k.num)
             imp == k.impulses[l]
  <2>1. /\ k \in T /\ k.kind = "normal" /\ k \in Readable(c, T)
        /\ k.num \in Nat /\ k.ack \in Int /\ k.ack <= f.receiveNumber
    BY <1>2, BaseTypes DEF Readable
  <2>2. ch \in Channels(l)
    BY <2>1, ChannelFacts
  <2>3. k.ack >= None /\ (ToSet(imp) \subseteq c.seen \/ imp = f.queue[l][ch])
    BY <2>1 DEF Delivers, CarriedOK
  <2>4. imp # <<>> /\ ToSet(imp) # {}
    <3>1. imp \in Seq(Impulses)
      BY <2>1 DEF Base, SentToClient
    <3> QED
      BY <1>20, <3>1, ToSetFacts
  <2> HIDE DEF ch, imp
  <2>5. CASE here(l, ch)
    <3>1. ~(k.ack >= d.decoded[l][ch])
      BY <1>1, <1>4, <2>1, <2>2, <2>5
    <3>2. ToSet(imp) \subseteq d.seen
      BY <1>3, <1>4, <2>2, <2>3, <2>5 DEF Held
    <3> QED
      BY <3>1, <3>2 DEF ch, imp
  <2>6. CASE ~ here(l, ch)
    <3>1. ToSet(imp) \subseteq d.seen <=> ToSet(imp) \subseteq c.seen
      BY <1>3, <1>4, <2>2, <2>3, <2>6 DEF Held
    <3>2. k.ack >= d.decoded[l][ch] <=> ~(ToSet(imp) \subseteq c.seen)
      <4>1. CASE c.state = "Connected"
        <5>1. d.decoded[l][ch] = c.decoded[l][ch]
          BY <1>4, <1>15, <2>2, <2>6, <4>1
        <5> QED
          BY <2>1, <2>4, <4>1, <5>1 DEF Delivers, DecodedOK, ch, imp
      <4>2. CASE c.state # "Connected"
        <5>1. d.decoded[l][ch] = None
          BY <1>4, <1>14, <2>2, <2>6, <4>2
        <5>2. ToSet(imp) \cap c.seen = {}
          BY <1>14, <2>1, <4>2 DEF imp
        <5> QED
          BY <2>3, <2>4, <5>1, <5>2
      <4> QED
        BY <4>1, <4>2
    <3> QED
      BY <3>1, <3>2 DEF ch, imp
  <2> QED
    BY <2>5, <2>6
<1>21. DecodedOK(f, d, T)
  BY <1>19, <1>20 DEF DecodedOK
<1>22. LogOK(d)
  BY LogReads
<1> QED
  BY <1>6, <1>7, <1>8, <1>9, <1>10, <1>11, <1>12, <1>13, <1>18, <1>21, <1>22 DEF Delivers

-----------------------------------------------------------------------------
(* The steps of the front end.                                             *)

LEMMA SInvBase == SInv => Base(fe, cl, ToSet(toClient), ToSet(toFE))
BY DEF SInv, Base, Typed

LEMMA DeliveryInit == Init => Delivery
<1> SUFFICES ASSUME Init PROVE Delivery
  OBVIOUS
<1>1. /\ fe.state = "Synchronize" /\ fe.lastSentSync = 1 /\ fe.lastAck = None
      /\ fe.receiveNumber = None /\ fe.added = 0 /\ fe.sendNumber = 0
      /\ fe.main = [l \in Levels |-> <<>>]
      /\ fe.queue = [l \in Levels |-> [ch \in Channels(l) |-> <<>>]]
      /\ fe.firstSent = [l \in Levels |-> [ch \in Channels(l) |-> 0]]
  BY DEF Init, FEInit
<1>2. /\ cl.state = "Login" /\ cl.last = 0 /\ cl.latestSync = 0 /\ cl.lastInLong = 0
      /\ cl.seen = {} /\ cl.log = <<>>
  BY DEF Init, ClientInit
<1>3. /\ InOrder(<<>>) /\ IsInjective(<<>>) /\ DOMAIN <<>> = {} /\ ToSet(<<>>) = {}
  BY DEF InOrder, IsInjective, ToSet
<1>4. \A l \in Levels :
        /\ fe.main[l] = <<>>
        /\ \A ch \in Channels(l) : /\ fe.queue[l][ch] = <<>> /\ fe.firstSent[l][ch] = 0
                                   /\ Held(fe, l, ch) = {}
  BY <1>1, <1>3 DEF Held
<1>5. Readable(cl, {}) = {}
  BY DEF Readable
<1>6. EpochOK(fe, cl, {})
  BY <1>1, <1>2, <1>4, <1>5 DEF EpochOK, None
<1>7. FieldOK(cl) /\ SyncsOK(fe, cl, {}) /\ AcksOK(cl, {})
  BY <1>2, <1>5 DEF FieldOK, SyncsOK, AcksOK
<1>8. MainOK(fe, cl)
  BY <1>2, <1>3, <1>4 DEF MainOK
<1>9. HeldOK(fe, cl)
  BY <1>1, <1>2, <1>3, <1>4 DEF HeldOK
<1>10. CarriedOK(fe, cl, {}) /\ CleanOK(fe, cl, {})
  BY <1>2, <1>4, <1>5 DEF CarriedOK, CleanOK, Clean
<1>11. WitnessOK(fe, cl, {}) /\ DecodedOK(fe, cl, {})
  BY <1>2, <1>4 DEF WitnessOK, DecodedOK
<1>12. LogOK(cl)
  BY <1>2, <1>3 DEF LogOK
<1>13. Delivers(fe, cl, {}, {})
  BY <1>6, <1>7, <1>8, <1>9, <1>10, <1>11, <1>12 DEF Delivers
<1>14. toClient = <<>> /\ toFE = <<>>
  BY DEF Init, NetInit
<1> QED
  BY <1>3, <1>13, <1>14 DEF Delivery

(* What is left of the wires, and at most one datagram more.               *)
LEMMA ToClientCarries ==
  ASSUME SInv, NEW m, ToClient(m)
  PROVE  ToSet(toClient') \subseteq ToSet(toClient) \cup {m}
BY CarriedFacts DEF SInv, ToClient

LEMMA ToFECarries ==
  ASSUME SInv, NEW m, ToFE(m)
  PROVE  ToSet(toFE') \subseteq ToSet(toFE) \cup {m}
BY CarriedFacts DEF SInv, ToFE

LEMMA AddImpulseDelivers ==
  ASSUME SInv, Delivery, NEW l \in Levels, AddImpulse(l), cl' = cl
  PROVE  Delivery'
<1>1. Base(fe, cl, ToSet(toClient), ToSet(toFE))
  BY SInvBase
<1>2. toClient' = toClient /\ toFE' = toFE /\ fe.added < MaxImpulses
  BY DEF AddImpulse, wires
<1>3. /\ fe'.added = fe.added + 1
      /\ fe'.main = [fe.main EXCEPT ![l] = Append(@, <<l, fe.added + 1>>)]
      /\ fe'.queue = fe.queue /\ fe'.firstSent = fe.firstSent
      /\ fe'.lastAck = fe.lastAck /\ fe'.receiveNumber = fe.receiveNumber
      /\ fe'.lastSentSync = fe.lastSentSync /\ fe'.sendNumber = fe.sendNumber
      /\ fe'.state = fe.state /\ fe'.misled = fe.misled
  BY DEF AddImpulse, SInv, FrontEndOK
<1>4. CASE fe.misled
  BY <1>3, <1>4 DEF Delivery
<1>5. CASE Delivers(fe, cl, ToSet(toClient), ToSet(toFE))
  <2>1. Delivers(fe', cl, ToSet(toClient), ToSet(toFE))
    BY <1>1, <1>2, <1>3, <1>5, AddDelivers
  <2> QED
    BY <1>2, <2>1 DEF Delivery
<1> QED
  BY <1>4, <1>5 DEF Delivery

LEMMA SendNormalDelivers == SInv /\ Delivery /\ SendNormal /\ cl' = cl => Delivery'
<1> SUFFICES ASSUME SInv, Delivery, SendNormal, cl' = cl PROVE Delivery'
  OBVIOUS
<1> DEFINE T == ToSet(toClient)
           U == ToSet(toFE)
           n == fe.sendNumber + 1
           m == [num |-> fe'.sendNumber, kind |-> "normal", ack |-> fe'.receiveNumber,
                 impulses |-> [l \in Levels |-> fe'.queue[l][Channel(l, fe'.sendNumber)]]]
<1>1. Base(fe, cl, T, U)
  BY SInvBase
<1>2. /\ fe.state = "Connected" /\ fe.sendNumber < MaxPackets /\ toFE' = toFE
      /\ fe' = Refilled([fe EXCEPT !.sendNumber = @ + 1], fe.sendNumber + 1)
      /\ ToClient(m)
  BY DEF SendNormal, MaySend
<1>3. /\ Refills(fe, fe', n) /\ fe'.sendNumber = n
      /\ fe'.receiveNumber = fe.receiveNumber /\ fe'.lastAck = fe.lastAck
      /\ fe'.lastSentSync = fe.lastSentSync /\ fe'.added = fe.added
      /\ fe'.state = fe.state /\ fe'.misled = fe.misled
  BY <1>1, <1>2, RefilledForms DEF Base
<1>4. Typed(fe', cl) /\ Lasts(fe, fe')
  BY <1>1, <1>2, RefilledFacts DEF Base
<1>5. ToSet(toClient') \subseteq T \cup {m}
  BY <1>2, ToClientCarries
<1>6. Base(fe', cl, T, U)
  <2>1. Typed(fe, cl) /\ ActionsOK(fe, cl)
    BY <1>1 DEF Base, SInv
  <2>2. ClientOK(fe', cl)
    BY <1>1, <1>4, ClientLasts DEF Base
  <2>3. \A k \in T : SentToClient(fe', k)
    BY <1>1, <1>4, <2>1, SentToClientLasts DEF Base
  <2>4. \A k \in U : SentToFE(fe', cl, k)
    BY <1>1, <1>4, <2>1, SentToFELasts DEF Base
  <2> QED
    BY <1>4, <2>2, <2>3, <2>4 DEF Base
<1>7. CASE fe.misled
  BY <1>3, <1>7 DEF Delivery
<1>8. CASE Delivers(fe, cl, T, U)
  <2>1. /\ m.kind = "normal" /\ m.num = n /\ m.ack = fe.receiveNumber
        /\ \A l \in Levels : m.impulses[l] = fe'.queue[l][Channel(l, n)]
    BY <1>3
  <2> HIDE DEF m, n, T, U
  <2>2. Delivers(fe', cl, T \cup {m}, U)
    <3>1. n = fe.sendNumber + 1
      BY DEF n
    <3> QED
      BY <1>1, <1>2, <1>3, <1>6, <1>8, <2>1, <3>1, NormalDelivers
  <2>3. Delivers(fe', cl, ToSet(toClient'), U)
    BY <1>5, <2>2, FewerDelivers
  <2> QED
    BY <1>2, <2>3 DEF Delivery, U
<1> QED
  BY <1>7, <1>8 DEF Delivery

(* The other steps of the front end leave its queues and acknowledgements. *)
LEMMA QuietDelivers ==
  ASSUME SInv, cl' = cl, toFE' = toFE, SameQueues(fe, fe'),
         fe'.sendNumber \in Nat, fe'.sendNumber >= fe.sendNumber,
         fe'.state = "Connected" => fe.state = "Connected",
         NEW T, Delivers(fe, cl, T, ToSet(toFE)),
         \A m \in ToSet(toClient') : m.kind \in {"normal", "SYNC"} => m \in T
  PROVE  Delivery'
<1>1. Typed(fe, cl)
  BY SInvBase DEF Base
<1>2. Delivers(fe', cl, T, ToSet(toFE))
  BY <1>1, FrontEndQuiet
<1>3. Delivers(fe', cl, ToSet(toClient'), ToSet(toFE))
  BY <1>2, FewerDelivers
<1> QED
  BY <1>3 DEF Delivery

LEMMA SendSyncDelivers == SInv /\ Delivery /\ SendSync /\ cl' = cl => Delivery'
<1> SUFFICES ASSUME SInv, Delivery, SendSync, cl' = cl PROVE Delivery'
  OBVIOUS
<1> DEFINE T == ToSet(toClient)
           U == ToSet(toFE)
           m == [num |-> fe'.sendNumber, kind |-> "SYNC",
                 code |-> fe'.lastSentSync, sync |-> fe'.sync]
<1>1. Base(fe, cl, T, U) /\ fe.sendNumber \in Nat
  BY SInvBase, BaseTypes
<1>2. /\ fe.state \in {"Synchronize", "ForceSynchronize"} /\ toFE' = toFE
      /\ fe' = [fe EXCEPT !.state = "Synchronize", !.sendNumber = @ + 1,
                          !.sync = fe.drift]
      /\ ToClient(m)
  BY DEF SendSync
<1>3. /\ SameQueues(fe, fe') /\ fe'.state = "Synchronize" /\ fe'.misled = fe.misled
      /\ fe'.sendNumber = fe.sendNumber + 1
  BY <1>2 DEF SameQueues, SInv, FrontEndOK
<1>4. ToSet(toClient') \subseteq T \cup {m}
  BY <1>2, ToClientCarries
<1>5. CASE fe.misled
  BY <1>3, <1>5 DEF Delivery
<1>6. CASE Delivers(fe, cl, T, U)
  <2>1. m.kind = "SYNC" /\ m.num = fe.sendNumber + 1 /\ m.code = fe.lastSentSync
    BY <1>3 DEF SameQueues
  <2> HIDE DEF m
  <2>2. Delivers(fe, cl, T \cup {m}, U)
    BY <1>1, <1>2, <1>6, <2>1, SyncDelivers
  <2> HIDE DEF T
  <2>3. fe'.sendNumber \in Nat /\ fe'.sendNumber >= fe.sendNumber
    BY <1>1, <1>3
  <2> QED
    BY <1>2, <1>3, <1>4, <2>2, <2>3, QuietDelivers
<1> QED
  BY <1>5, <1>6 DEF Delivery

LEMMA ProbeAndStallDeliver ==
  SInv /\ Delivery /\ (SendProbe \/ Stall) /\ cl' = cl => Delivery'
<1> SUFFICES ASSUME SInv, Delivery, SendProbe \/ Stall, cl' = cl PROVE Delivery'
  OBVIOUS
<1>1. fe.sendNumber \in Nat
  BY SInvBase, BaseTypes
<1>2. PICK m : ToClient(m) /\ m.kind \in {"PROBE", "STALLED"}
  <2>1. CASE SendProbe
    BY <2>1 DEF SendProbe
  <2>2. CASE Stall
    BY <2>2 DEF Stall
  <2> QED
    BY <2>1, <2>2
<1>3. /\ SameQueues(fe, fe') /\ fe'.state # "Connected" /\ fe'.misled = fe.misled
      /\ fe'.sendNumber = fe.sendNumber + 1 /\ toFE' = toFE
  <2>1. CASE SendProbe
    BY <2>1 DEF SendProbe, SameQueues, SInv, FrontEndOK
  <2>2. CASE Stall
    BY <2>2 DEF Stall, SameQueues, SInv, FrontEndOK
  <2> QED
    BY <2>1, <2>2
<1>4. \A k \in ToSet(toClient') : k.kind \in {"normal", "SYNC"} => k \in ToSet(toClient)
  <2>1. ToSet(toClient') \subseteq ToSet(toClient) \cup {m}
    BY <1>2, ToClientCarries
  <2> QED
    BY <1>2, <2>1
<1>5. CASE fe.misled
  BY <1>3, <1>5 DEF Delivery
<1>6. CASE Delivers(fe, cl, ToSet(toClient), ToSet(toFE))
  <2>1. fe'.sendNumber \in Nat /\ fe'.sendNumber >= fe.sendNumber
    BY <1>1, <1>3
  <2> QED
    BY <1>3, <1>4, <1>6, <2>1, QuietDelivers
<1> QED
  BY <1>5, <1>6 DEF Delivery

LEMMA StatesDeliver ==
  SInv /\ Delivery /\ (ClientLags \/ setClientsToSynchronizeState) /\ cl' = cl => Delivery'
<1> SUFFICES ASSUME SInv, Delivery, ClientLags \/ setClientsToSynchronizeState, cl' = cl
             PROVE  Delivery'
  OBVIOUS
<1>1. fe.sendNumber \in Nat
  BY SInvBase, BaseTypes
<1>2. /\ SameQueues(fe, fe') /\ fe'.state # "Connected" /\ fe'.misled = fe.misled
      /\ fe'.sendNumber = fe.sendNumber /\ toFE' = toFE /\ toClient' = toClient
  <2>1. CASE ClientLags
    BY <2>1 DEF ClientLags, ToProbe, wires, SameQueues, SInv, FrontEndOK
  <2>2. CASE setClientsToSynchronizeState
    BY <2>2 DEF setClientsToSynchronizeState, wires, SameQueues, SInv, FrontEndOK
  <2> QED
    BY <2>1, <2>2
<1>3. CASE fe.misled
  BY <1>2, <1>3 DEF Delivery
<1>4. CASE Delivers(fe, cl, ToSet(toClient), ToSet(toFE))
  <2>1. fe'.sendNumber \in Nat /\ fe'.sendNumber >= fe.sendNumber
    BY <1>1, <1>2
  <2> QED
    BY <1>2, <1>4, <2>1, QuietDelivers
<1> QED
  BY <1>3, <1>4 DEF Delivery

(* What the front end receives: it was misled before, is misled now, or    *)
(* the delivery goes on.                                                   *)
LEMMA OnAckSyncDelivers ==
  ASSUME NEW f, NEW c, NEW T, NEW U, Base(f, c, T, U), NEW m \in U, m.kind = "ACK_SYNC",
         f.misled \/ Delivers(f, c, T, U)
  PROVE  OnAckSync(f, m).misled \/ Delivers(OnAckSync(f, m), c, T, U)
<1> DEFINE g == OnAckSync(f, m)
           a == Acknowledged(f, LongAcks(f, m))
<1>1. CASE f.state # "Synchronize"
  BY <1>1 DEF OnAckSync
<1>2. CASE f.state = "Synchronize" /\ m.code # f.lastSentSync
  <2>1. g = [f EXCEPT !.state = "Connected", !.misled = TRUE]
    BY <1>2 DEF OnAckSync
  <2>2. g.misled = TRUE
    BY <2>1 DEF Base, Typed, FrontEndOK
  <2> QED
    BY <2>2
<1>3. CASE f.state = "Synchronize" /\ m.code = f.lastSentSync
  <2>1. /\ DOMAIN a = DOMAIN f /\ Flushes(f, a, LongAcks(f, m))
        /\ \A x \in DOMAIN f \ {"queue", "acked"} : a[x] = f[x]
    BY AcknowledgedForms DEF Base
  <2> HIDE DEF a
  <2>2. g = [a EXCEPT !.state = "Connected", !.lastAck = m.front, !.lastSentSync = @ + 1,
                      !.misled = @ \/ (f.lastAck # None /\ m.back > f.lastAck + 1)]
    BY <1>3 DEF OnAckSync, a
  <2>3. /\ DOMAIN a = {"state", "sendNumber", "receiveNumber", "lastAck",
                 "lastSentSync", "drift", "sync", "probe", "added", "main",
                 "queue", "firstSent", "acked", "lastCycle", "done", "misled"}
        /\ a.misled = f.misled /\ a.lastSentSync = f.lastSentSync
        /\ a.sendNumber = f.sendNumber /\ a.added = f.added
        /\ a.receiveNumber = f.receiveNumber
    BY <2>1 DEF Base, Typed, FrontEndOK
  <2>4. /\ g.state = "Connected" /\ g.lastAck = m.front
        /\ g.lastSentSync = f.lastSentSync + 1
        /\ g.sendNumber = f.sendNumber /\ g.receiveNumber = f.receiveNumber
        /\ g.added = f.added
        /\ g.queue = a.queue /\ g.firstSent = a.firstSent /\ g.main = a.main
    BY <2>2, <2>3
  <2>5. g.misled = (a.misled \/ (f.lastAck # None /\ m.back > f.lastAck + 1))
    BY <2>2, <2>3
  <2> HIDE DEF g
  <2>6. Flushes(f, g, LongAcks(f, m))
    BY <2>1, <2>4 DEF Flushes
  <2>7. CASE g.misled
    BY <2>7 DEF g
  <2>8. CASE ~ g.misled
    <3>1. ~ f.misled /\ (f.lastAck = None \/ ~(m.back > f.lastAck + 1))
      BY <2>3, <2>5, <2>8
    <3>2. Delivers(f, c, T, U)
      BY <3>1
    <3>3. Delivers(g, c, T, U)
      BY <1>3, <2>4, <2>6, <3>1, <3>2, AckSyncDelivers
    <3> QED
      BY <3>3 DEF g
  <2> QED
    BY <2>7, <2>8
<1> QED
  BY <1>1, <1>2, <1>3

LEMMA OnAckProbeDelivers ==
  ASSUME NEW f, NEW c, NEW T, NEW U, Base(f, c, T, U), NEW m,
         f.misled \/ Delivers(f, c, T, U)
  PROVE  OnAckProbe(f, m).misled \/ Delivers(OnAckProbe(f, m), c, T, U)
<1> DEFINE g == OnAckProbe(f, m)
           pr == FoldLeft(CountProbe, f.probe, m.probes)
<1>1. \/ g = f
      \/ g = [f EXCEPT !.probe = pr]
      \/ g = [f EXCEPT !.probe = pr, !.state = "Synchronize", !.sync = f.drift]
  BY DEF OnAckProbe
<1> HIDE DEF pr, g
<1>2. /\ SameQueues(f, g) /\ g.state \in {f.state, "Synchronize"}
      /\ g.sendNumber = f.sendNumber /\ g.misled = f.misled
  BY <1>1 DEF SameQueues, Base, Typed, FrontEndOK
<1>3. CASE f.misled
  BY <1>2, <1>3 DEF g
<1>4. CASE Delivers(f, c, T, U)
  <2>1. g.sendNumber \in Nat /\ g.sendNumber >= f.sendNumber
    BY <1>2, BaseTypes
  <2>2. Typed(f, c) /\ (g.state = "Connected" => f.state = "Connected")
    BY <1>2 DEF Base
  <2>3. Delivers(g, c, T, U)
    BY <1>2, <1>4, <2>1, <2>2, FrontEndQuiet
  <2> QED
    BY <2>3 DEF g
<1> QED
  BY <1>3, <1>4

LEMMA OnNormalDelivers ==
  ASSUME NEW f, NEW c, NEW T, NEW U, Base(f, c, T, U), NEW m \in U, m.kind = "normal",
         m.num > f.receiveNumber, f.misled \/ Delivers(f, c, T, U)
  PROVE  OnNormal(f, m).misled \/ Delivers(OnNormal(f, m), c, T, U)
<1> DEFINE g == OnNormal(f, m)
           a == Acknowledged(f, MaskAcks(f, m))
           b == [lastCycle |-> f.lastCycle, done |-> f.done]
           d == AllProcessed(b, m.blocks)
<1>1. CASE f.state # "Connected"
  BY <1>1 DEF OnNormal
<1>2. CASE f.state = "Connected" /\ TooManyLost(f, m)
  <2>1. g = ToProbe(f)
    BY <1>2 DEF OnNormal
  <2>2. /\ SameQueues(f, g) /\ g.state = "Probe" /\ g.sendNumber = f.sendNumber
        /\ Typed(f, c)
    BY <2>1, ToProbeFacts DEF Base
  <2>3. g.misled = f.misled
    BY <2>1 DEF ToProbe, Base, Typed, FrontEndOK
  <2> HIDE DEF g
  <2>4. g.sendNumber \in Nat /\ g.sendNumber >= f.sendNumber
    BY <2>2, BaseTypes
  <2>5. CASE f.misled
    BY <2>3, <2>5 DEF g
  <2>6. CASE Delivers(f, c, T, U)
    <3>1. Delivers(g, c, T, U)
      BY <2>2, <2>4, <2>6, FrontEndQuiet
    <3> QED
      BY <3>1 DEF g
  <2> QED
    BY <2>5, <2>6
<1>3. CASE f.state = "Connected" /\ ~ TooManyLost(f, m)
  <2>1. m.last # 0
    BY BaseTypes
  <2>2. g = [a EXCEPT !.lastAck = m.last, !.receiveNumber = m.num,
                      !.lastCycle = d.lastCycle, !.done = d.done]
    BY <1>3, <2>1 DEF OnNormal
  <2>3. /\ DOMAIN a = DOMAIN f /\ Flushes(f, a, MaskAcks(f, m))
        /\ \A x \in DOMAIN f \ {"queue", "acked"} : a[x] = f[x]
    BY AcknowledgedForms DEF Base
  <2> HIDE DEF a, d
  <2>4. /\ DOMAIN a = {"state", "sendNumber", "receiveNumber", "lastAck",
                 "lastSentSync", "drift", "sync", "probe", "added", "main",
                 "queue", "firstSent", "acked", "lastCycle", "done", "misled"}
        /\ a.misled = f.misled /\ a.lastSentSync = f.lastSentSync
        /\ a.sendNumber = f.sendNumber /\ a.added = f.added /\ a.state = f.state
    BY <2>3 DEF Base, Typed, FrontEndOK
  <2>5. /\ g.lastAck = m.last /\ g.receiveNumber = m.num
        /\ g.state = f.state /\ g.sendNumber = f.sendNumber
        /\ g.lastSentSync = f.lastSentSync /\ g.added = f.added
        /\ g.queue = a.queue /\ g.firstSent = a.firstSent /\ g.main = a.main
        /\ g.misled = f.misled
    BY <2>2, <2>4
  <2> HIDE DEF g
  <2>6. Flushes(f, g, MaskAcks(f, m))
    BY <2>3, <2>5 DEF Flushes
  <2>7. CASE f.misled
    BY <2>5, <2>7 DEF g
  <2>8. CASE Delivers(f, c, T, U)
    <3>1. Delivers(g, c, T, U)
      BY <1>3, <2>1, <2>5, <2>6, <2>8, AckDelivers
    <3> QED
      BY <3>1 DEF g
  <2> QED
    BY <2>7, <2>8
<1> QED
  BY <1>1, <1>2, <1>3

LEMMA FEReceiveDelivers == SInv /\ Delivery /\ FEReceive /\ cl' = cl => Delivery'
<1> SUFFICES ASSUME SInv, Delivery, FEReceive, cl' = cl PROVE Delivery'
  OBVIOUS
<1> DEFINE T == ToSet(toClient)
           U == ToSet(toFE)
<1>1. PICK i \in Arriving(toFE) :
        fe' = Receive(fe, toFE[i]) /\ toFE' = RemoveAt(toFE, i)
  BY DEF FEReceive
<1> DEFINE m == toFE[i]
<1>2. i \in DOMAIN toFE /\ m \in U
  BY ArrivingFacts
<1>3. toClient' = toClient /\ ToSet(toFE') \subseteq U
  BY <1>1, <1>2, RemoveAtFacts DEF SInv, FEReceive
<1>4. Base(fe, cl, T, U) /\ (fe.misled \/ Delivers(fe, cl, T, U))
  BY SInvBase DEF Delivery
<1>5. m.num \in Int /\ fe.receiveNumber \in Int
  BY <1>2, <1>4, BaseTypes
<1>6. fe' = Receive(fe, m)
  BY <1>1
<1> HIDE DEF m, U
<1>7. fe'.misled \/ Delivers(fe', cl, T, U)
  <2>1. CASE m.num <= fe.receiveNumber
    BY <1>4, <1>6, <2>1 DEF Receive
  <2>2. CASE ~(m.num <= fe.receiveNumber) /\ m.kind = "ACK_SYNC"
    <3>1. fe' = OnAckSync(fe, m)
      BY <1>6, <2>2 DEF Receive
    <3> QED
      BY <1>2, <1>4, <2>2, <3>1, OnAckSyncDelivers
  <2>3. CASE ~(m.num <= fe.receiveNumber) /\ m.kind = "ACK_PROBE"
    <3>1. fe' = OnAckProbe(fe, m)
      BY <1>6, <2>3 DEF Receive
    <3> QED
      BY <1>4, <3>1, OnAckProbeDelivers
  <2>4. CASE ~(m.num <= fe.receiveNumber) /\ m.kind = "normal"
    <3>1. fe' = OnNormal(fe, m)
      BY <1>6, <2>4 DEF Receive
    <3>2. m.num > fe.receiveNumber
      BY <1>5, <2>4
    <3> QED
      BY <1>2, <1>4, <2>4, <3>1, <3>2, OnNormalDelivers
  <2> QED
    BY <1>2, <1>4, <2>1, <2>2, <2>3, <2>4 DEF Base, SentToFE
<1> HIDE DEF T
<1>8. CASE fe'.misled
  BY <1>8 DEF Delivery
<1>9. CASE Delivers(fe', cl, T, U)
  <2>1. Delivers(fe', cl, T, ToSet(toFE'))
    BY <1>3, <1>9, FewerDelivers
  <2> QED
    BY <1>3, <2>1 DEF Delivery, T
<1> QED
  BY <1>7, <1>8, <1>9

LEMMA FrontEndDelivers == SInv /\ Delivery /\ FENext /\ cl' = cl => Delivery'
BY AddImpulseDelivers, SendNormalDelivers, SendSyncDelivers, ProbeAndStallDeliver,
   StatesDeliver, FEReceiveDelivers DEF FENext

-----------------------------------------------------------------------------
(* The steps of the client.                                                *)

LEMMA BaseGrows ==
  ASSUME NEW f, NEW c, NEW d, NEW T, NEW U, Base(f, c, T, U), Grows(c, d),
         ClientOK(f, d), ActionsOK(f, d)
  PROVE  Base(f, d, T, U)
<1>1. c.sendNumber \in Nat /\ d.sendNumber \in Nat /\ f.receiveNumber \in Int
  BY ClientAssumption DEF Base, Typed, FrontEndOK, ClientOK, ClientAssumption
<1>2. \A m \in U : SentToFE(f, d, m)
  BY <1>1, SentToFEGrows DEF Base
<1>3. f.receiveNumber < d.sendNumber /\ f.acked \subseteq d.seen
  BY <1>1 DEF Base, Typed, FrontEndOK, Grows
<1>4. Typed(f, d)
  BY <1>3 DEF Base, Typed, FrontEndOK
<1> QED
  BY <1>2, <1>4 DEF Base

(* What the client sends adds at most one datagram, m, to the wire; c is   *)
(* the client before it has sent it.                                       *)
LEMMA SentDelivers ==
  ASSUME SInv, fe' = fe, ToSet(toClient') \subseteq ToSet(toClient),
         NEW c, Base(fe, c, ToSet(toClient), ToSet(toFE)), SameDecoder(c, cl'),
         cl'.sendNumber = c.sendNumber + 1, NEW m, ToFE(m),
         NEW V, Delivers(fe, c, ToSet(toClient), V),
         \A k \in ToSet(toFE) \cup {m} : k.kind \in {"normal", "ACK_SYNC"} => k \in V
  PROVE  Delivery'
<1>1. ToSet(toFE') \subseteq ToSet(toFE) \cup {m}
  BY ToFECarries
<1>2. /\ c.sendNumber \in Nat /\ cl'.sendNumber \in Nat
      /\ cl'.sendNumber >= c.sendNumber
  BY BaseTypes
<1>3. Delivers(fe, cl', ToSet(toClient), V)
  BY <1>2, ClientQuiet
<1>4. Delivers(fe, cl', ToSet(toClient'), ToSet(toFE'))
  BY <1>1, <1>3, FewerDelivers
<1> QED
  BY <1>4 DEF Delivery

LEMMA AckSyncDeliversOn ==
  ASSUME SInv, fe' = fe, ToSet(toClient') \subseteq ToSet(toClient),
         NEW c, Base(fe, c, ToSet(toClient), ToSet(toFE)),
         Delivers(fe, c, ToSet(toClient), ToSet(toFE)), sendSystemAckSync(c)
  PROVE  Delivery'
<1> DEFINE m == [num |-> c.sendNumber, kind |-> "ACK_SYNC", front |-> c.last,
                 back |-> c.lastInLong, acked |-> c.acked, code |-> c.latestSync]
<1>1. cl' = [c EXCEPT !.sendNumber = @ + 1] /\ ToFE(m)
  BY DEF sendSystemAckSync
<1>2. SameDecoder(c, cl') /\ cl'.sendNumber = c.sendNumber + 1
  BY <1>1 DEF SameDecoder, Base, ClientOK
<1>3. /\ m.kind = "ACK_SYNC" /\ m.front = c.last /\ m.back = c.lastInLong
      /\ m.acked = c.acked /\ m.code = c.latestSync
  OBVIOUS
<1> HIDE DEF m
<1>4. Delivers(fe, c, ToSet(toClient), ToSet(toFE) \cup {m})
  BY <1>3, AckSyncSent
<1> QED
  BY <1>1, <1>2, <1>4, SentDelivers

LEMMA NormalDeliversOn ==
  ASSUME SInv, fe' = fe, toClient' = toClient,
         NEW c, Base(fe, c, ToSet(toClient), ToSet(toFE)), c.state = "Connected",
         Delivers(fe, c, ToSet(toClient), ToSet(toFE)), sendNormalMessage(c)
  PROVE  Delivery'
<1> DEFINE sent(i) == i <= BlocksPerMessage
           mark(i) == IF sent(i) /\ c.actions[i].first = 0
                      THEN [c.actions[i] EXCEPT !.first = c.sendNumber]
                      ELSE c.actions[i]
           blocks  == [i \in {i \in DOMAIN c.actions : sent(i)}
                           |-> c.actions[i].cycle]
           marked  == [i \in DOMAIN c.actions |-> mark(i)]
           m == [num |-> c.sendNumber, kind |-> "normal", last |-> c.last,
                 mask |-> c.acked \cap (c.last - AckBits .. c.last - 1),
                 blocks |-> blocks]
<1>1. cl' = [c EXCEPT !.sendNumber = @ + 1, !.actions = marked] /\ ToFE(m)
  BY DEF sendNormalMessage
<1> HIDE DEF marked, blocks
<1>2. SameDecoder(c, cl') /\ cl'.sendNumber = c.sendNumber + 1
  BY <1>1 DEF SameDecoder, Base, ClientOK
<1>3. /\ m.kind = "normal" /\ m.num = c.sendNumber /\ m.last = c.last
      /\ m.mask = c.acked \cap (c.last - AckBits .. c.last - 1)
  OBVIOUS
<1> HIDE DEF m
<1>4. Delivers(fe, c, ToSet(toClient), ToSet(toFE) \cup {m})
  BY <1>3, AckSent
<1> QED
  BY <1>1, <1>2, <1>4, SentDelivers

LEMMA AckProbeDeliversOn ==
  ASSUME SInv, fe' = fe, toClient' = toClient, sendSystemAckProbe(cl),
         Delivers(fe, cl, ToSet(toClient), ToSet(toFE))
  PROVE  Delivery'
<1> DEFINE m == [num |-> cl.sendNumber, kind |-> "ACK_PROBE", probes |-> cl.probes]
<1>1. cl' = [cl EXCEPT !.sendNumber = @ + 1, !.probes = <<>>] /\ ToFE(m)
  BY DEF sendSystemAckProbe
<1>2. SameDecoder(cl, cl') /\ cl'.sendNumber = cl.sendNumber + 1
  BY <1>1 DEF SameDecoder, SInv, ClientOK
<1>3. m.kind = "ACK_PROBE" /\ Base(fe, cl, ToSet(toClient), ToSet(toFE))
  BY SInvBase
<1> HIDE DEF m
<1> QED
  BY <1>1, <1>2, <1>3, SentDelivers

LEMMA ClientSendDelivers ==
  ASSUME SInv, Delivery, NEW acts \in BOOLEAN, ClientSend(acts), fe' = fe
  PROVE  Delivery'
<1> DEFINE c == IF acts
                THEN [cl EXCEPT !.cycle = @ + 1,
                        !.actions = Append(@, [cycle |-> cl.cycle + 1, first |-> 0])]
                ELSE cl
           T == ToSet(toClient)
           U == ToSet(toFE)
<1>1. /\ acts => cl.cycle < MaxActions
      /\ \/ cl.state = "Connected" /\ sendNormalMessage(c)
         \/ cl.state # "Connected" /\ acts /\ cl' = c /\ toFE' = toFE
      /\ toClient' = toClient
  BY DEF ClientSend
<1>2. /\ ClientOK(fe, cl) /\ ActionsOK(fe, cl) /\ cl.sendNumber \in Nat
      /\ fe.lastCycle \in Nat /\ Base(fe, cl, T, U)
  BY SInvBase, ClientAssumption DEF SInv, GivenOK, ClientOK, ClientAssumption
<1>3. /\ ClientOK(fe, c) /\ ActionsOK(fe, c) /\ Grows(cl, c)
      /\ SameDecoder(cl, c) /\ c.sendNumber = cl.sendNumber
  <2>1. CASE acts
    <3>1. c = [cl EXCEPT !.cycle = @ + 1,
                 !.actions = Append(@, [cycle |-> cl.cycle + 1, first |-> 0])]
      BY <2>1
    <3> HIDE DEF c
    <3>2. SameDecoder(cl, c) /\ c.sendNumber = cl.sendNumber
      BY <3>1, <1>2 DEF ClientOK, SameDecoder
    <3> QED
      BY <1>1, <1>2, <2>1, <3>1, <3>2, NewBlockFacts
  <2>2. CASE ~ acts
    <3>1. c = cl
      BY <2>2
    <3>2. Grows(cl, cl) /\ SameDecoder(cl, cl)
      BY <1>2 DEF Grows, SameDecoder
    <3> HIDE DEF c
    <3> QED
      BY <1>2, <3>1, <3>2
  <2> QED
    BY <2>1, <2>2
<1> HIDE DEF c
<1>4. CASE fe.misled
  BY <1>4 DEF Delivery
<1>5. CASE Delivers(fe, cl, T, U)
  <2>1. Delivers(fe, c, T, U)
    <3>1. c.sendNumber \in Nat /\ c.sendNumber >= cl.sendNumber
      BY <1>2, <1>3
    <3> QED
      BY <1>2, <1>3, <1>5, <3>1, ClientQuiet
  <2>2. Base(fe, c, T, U)
    BY <1>2, <1>3, BaseGrows
  <2>3. CASE cl.state = "Connected" /\ sendNormalMessage(c)
    <3>1. c.state = "Connected"
      BY <1>3, <2>3 DEF SameDecoder
    <3> QED
      BY <1>1, <2>1, <2>2, <2>3, <3>1, NormalDeliversOn
  <2>4. CASE cl' = c /\ toFE' = toFE
    BY <1>1, <2>1, <2>4 DEF Delivery
  <2> QED
    BY <1>1, <2>3, <2>4
<1> QED
  BY <1>4, <1>5 DEF Delivery

LEMMA ClientTimerDelivers == SInv /\ Delivery /\ ClientTimer /\ fe' = fe => Delivery'
<1> SUFFICES ASSUME SInv, Delivery, ClientTimer, fe' = fe PROVE Delivery'
  OBVIOUS
<1>1. toClient' = toClient /\ (sendSystemAckSync(cl) \/ sendSystemAckProbe(cl))
  BY DEF ClientTimer
<1>2. Base(fe, cl, ToSet(toClient), ToSet(toFE))
  BY SInvBase
<1>3. CASE fe.misled
  BY <1>3 DEF Delivery
<1>4. CASE Delivers(fe, cl, ToSet(toClient), ToSet(toFE))
  <2>1. CASE sendSystemAckSync(cl)
    BY <1>1, <1>2, <1>4, <2>1, AckSyncDeliversOn
  <2>2. CASE sendSystemAckProbe(cl)
    BY <1>1, <1>4, <2>2, AckProbeDeliversOn
  <2> QED
    BY <1>1, <2>1, <2>2
<1> QED
  BY <1>3, <1>4 DEF Delivery

LEMMA DecodedPrunes ==
  ASSUME SInv, NEW m
  PROVE  /\ Prunes(cl, Decoded(m), m.num)
         /\ Decoded(m).lastInLong = IF cl.lastInLong <= m.num - LongAckBits
                                    THEN m.num - LongAckBits + 1 ELSE cl.lastInLong
         /\ Decoded(m).decoded = cl.decoded
BY DEF Decoded, Prunes, SInv, ClientOK

(* A normal datagram is read: by the decoder that was, or by a new one.    *)
LEMMA ReadsOn ==
  ASSUME SInv, NEW m, m.kind = "normal", m.num > cl.last,
         NEW b, DOMAIN b = DOMAIN cl, b.state = "Connected", b.last = m.num,
         b.acked = Decoded(m).acked, b.lastInLong = Decoded(m).lastInLong,
         b.sendNumber = cl.sendNumber, b.latestSync = cl.latestSync,
         b.seen = cl.seen, b.log = cl.log,
         \/ cl.state = "Connected" /\ b.decoded = cl.decoded
         \/ cl.state = "Synchronize" /\ b.decoded = NothingDecoded
  PROVE  Reading(cl, b, m) /\ HasRead(cl, b, receiveNormalMessage(b, m), m)
<1> DEFINE d == receiveNormalMessage(b, m)
<1>1. Prunes(cl, Decoded(m), m.num) /\ (Reads(m) => m.num \in Decoded(m).acked)
  BY DecodedFacts, DecodedPrunes
<1>2. Reading(cl, b, m) /\ Reads(m)
  BY DEF Reading, Reads
<1>3. d = [b EXCEPT
      !.decoded = [l \in Levels |-> [ch \in Channels(l) |->
                      IF ch = Channel(l, m.num) /\ Fresh(b, m, l)
                      THEN b.sendNumber ELSE b.decoded[l][ch]]],
      !.log = b.log \o New(b, m, 0) \o New(b, m, 1) \o New(b, m, 2),
      !.seen = b.seen \cup UNION {ToSet(m.impulses[l]) : l \in Levels},
      !.actions = Unacked(b.actions, m.ack)]
  BY DEF receiveNormalMessage
<1>4. /\ d.state = "Connected" /\ d.latestSync = cl.latestSync
      /\ d.last = m.num /\ d.acked = b.acked /\ d.lastInLong = b.lastInLong
      /\ d.sendNumber = cl.sendNumber
      /\ d.decoded = [l \in Levels |-> [ch \in Channels(l) |->
                        IF ch = Channel(l, m.num) /\ Fresh(b, m, l)
                        THEN b.sendNumber ELSE b.decoded[l][ch]]]
      /\ d.log = cl.log \o New(b, m, 0) \o New(b, m, 1) \o New(b, m, 2)
      /\ d.seen = cl.seen \cup UNION {ToSet(m.impulses[l]) : l \in Levels}
  BY <1>3 DEF SInv, ClientOK
<1> HIDE DEF d
<1>5. Prunes(cl, d, m.num) /\ m.num \in d.acked
  BY <1>1, <1>2, <1>4, DecodedPrunes DEF Prunes
<1>6. \A l \in Levels : \A ch \in Channels(l) :
        d.decoded[l][ch] = IF ch = Channel(l, m.num) /\ Fresh(b, m, l)
                           THEN cl.sendNumber ELSE b.decoded[l][ch]
  BY <1>4
<1>7. HasRead(cl, b, d, m)
  BY <1>4, <1>5, <1>6 DEF HasRead
<1> QED
  BY <1>2, <1>7 DEF d

LEMMA ClientReceiveDelivers == SInv /\ Delivery /\ ClientReceive /\ fe' = fe => Delivery'
<1> SUFFICES ASSUME SInv, Delivery, ClientReceive, fe' = fe PROVE Delivery'
  OBVIOUS
<1>1. PICK i \in Arriving(toClient) : LET m == toClient[i]
            c == Decoded(m)
        IN  /\ toClient' = RemoveAt(toClient, i)
            /\ \/ /\ m.num <= cl.last
                  /\ UNCHANGED <<cl, toFE>>
               \/ /\ m.num > cl.last /\ m.kind = "SYNC"
                  /\ sendSystemAckSync([c EXCEPT !.state = "Synchronize",
                                                 !.latestSync = m.code,
                                                 !.sync = m.sync])
               \/ /\ m.num > cl.last /\ m.kind = "PROBE"
                  /\ cl' = [c EXCEPT !.state = "Probe",
                                     !.probes = Append(@, m.probe)]
                  /\ UNCHANGED toFE
               \/ /\ m.num > cl.last /\ m.kind = "STALLED"
                  /\ \/ cl' = [c EXCEPT !.state = "Stalled"]
                     \/ cl.state = "Probe" /\ cl' = c
                  /\ UNCHANGED toFE
               \/ /\ m.num > cl.last /\ m.kind = "normal"
                  /\ cl' = CASE cl.state = "Connected" ->
                                  receiveNormalMessage(c, m)
                             [] cl.state = "Synchronize" ->
                                  receiveNormalMessage(
                                     [c EXCEPT !.state = "Connected",
                                               !.decoded = NothingDecoded], m)
                             [] OTHER -> c
                  /\ UNCHANGED toFE
  BY DEF ClientReceive
<1> DEFINE m == toClient[i]
           c == Decoded(m)
           T == ToSet(toClient)
           U == ToSet(toFE)
<1>2. i \in DOMAIN toClient /\ m \in T
  BY ArrivingFacts
<1>3. ToSet(toClient') \subseteq T
  BY <1>1, <1>2, RemoveAtFacts DEF SInv
<1>4. Base(fe, cl, T, U) /\ SentToClient(fe, m)
  BY <1>2, SInvBase DEF Base
<1>5. CASE fe.misled
  BY <1>5 DEF Delivery
<1>6. CASE Delivers(fe, cl, T, U)
  <2>1. /\ DOMAIN c = DOMAIN cl /\ c.last = m.num /\ c.state = cl.state
        /\ c.acked \subseteq cl.acked \cup {m.num}
        /\ ~ Reads(m) => c.acked \subseteq cl.acked
        /\ c.sendNumber = cl.sendNumber /\ c.latestSync = cl.latestSync
        /\ c.seen = cl.seen /\ c.log = cl.log
        /\ c.actions = cl.actions /\ c.cycle = cl.cycle
        /\ Prunes(cl, c, m.num) /\ c.decoded = cl.decoded
    BY DecodedFacts, DecodedPrunes
  <2>2. DOMAIN cl = {"state", "sendNumber", "last", "acked", "lastInLong",
                     "latestSync", "sync", "decoded", "probes", "actions",
                     "cycle", "seen", "log"}
    BY DEF SInv, ClientOK
  <2> HIDE DEF c, T, U, m
  <2>3. CASE m.num <= cl.last /\ UNCHANGED <<cl, toFE>>
    <3>1. Delivers(fe, cl, ToSet(toClient'), U)
      BY <1>3, <1>6, FewerDelivers
    <3> QED
      BY <2>3, <3>1 DEF Delivery, U
  <2>4. ASSUME Delivers(fe, cl', T, U), toFE' = toFE
        PROVE  Delivery'
    <3>1. Delivers(fe, cl', ToSet(toClient'), U)
      BY <1>3, <2>4, FewerDelivers
    <3> QED
      BY <2>4, <3>1 DEF Delivery, U
  <2>5. CASE /\ m.num > cl.last /\ m.kind = "SYNC"
             /\ sendSystemAckSync([c EXCEPT !.state = "Synchronize",
                                            !.latestSync = m.code,
                                            !.sync = m.sync])
    <3> DEFINE d == [c EXCEPT !.state = "Synchronize", !.latestSync = m.code,
                              !.sync = m.sync]
    <3>1. /\ DOMAIN d = DOMAIN cl /\ d.last = m.num /\ d.state = "Synchronize"
          /\ d.acked = c.acked /\ d.lastInLong = c.lastInLong
          /\ d.latestSync = m.code /\ d.sendNumber = cl.sendNumber
          /\ d.seen = cl.seen /\ d.log = cl.log
          /\ d.actions = cl.actions /\ d.cycle = cl.cycle
      BY <2>1, <2>2
    <3> HIDE DEF d
    <3>2. Prunes(cl, d, m.num)
      BY <2>1, <3>1 DEF Prunes
    <3>3. Delivers(fe, d, T, U)
      BY <1>2, <1>4, <1>6, <2>5, <3>1, <3>2, OtherDelivers
    <3>4. ClientOK(fe, d) /\ ActionsOK(fe, d) /\ Grows(cl, d)
      <4>1. m.code \in 0 .. m.num /\ ~ Reads(m)
        BY <1>4, <2>5 DEF SentToClient, Reads
      <4>2. /\ d.state \in (States \cup {"Login"}) \ {"Connected"}
            /\ d.acked \subseteq cl.acked /\ d.latestSync \in 0 .. m.num
        BY <2>1, <3>1, <4>1 DEF States
      <4>3. ClientOK(fe, cl) /\ ActionsOK(fe, cl) /\ fe.sendNumber \in Nat
        BY <1>4, BaseTypes DEF SInv
      <4> QED
        BY <1>4, <2>5, <3>1, <4>2, <4>3, ReceiveOtherFacts
    <3>5. Base(fe, d, T, U)
      BY <1>4, <3>4, BaseGrows
    <3>6. sendSystemAckSync(d)
      BY <2>5 DEF d
    <3> QED
      BY <1>3, <3>3, <3>5, <3>6, AckSyncDeliversOn DEF T, U
  <2>6. ASSUME \/ cl' = [c EXCEPT !.state = "Probe", !.probes = Append(@, m.probe)]
               \/ cl' = [c EXCEPT !.state = "Stalled"]
               \/ cl.state = "Probe" /\ cl' = c,
               m.num > cl.last, UNCHANGED toFE
        PROVE  Delivery'
    <3>1. /\ cl'.last = m.num /\ cl'.state \in {"Probe", "Stalled"}
          /\ cl'.acked = c.acked /\ cl'.lastInLong = c.lastInLong
          /\ cl'.latestSync = cl.latestSync
          /\ cl'.seen = cl.seen /\ cl'.log = cl.log
      BY <2>1, <2>2, <2>6
    <3>2. Prunes(cl, cl', m.num)
      BY <2>1, <3>1 DEF Prunes
    <3>3. Delivers(fe, cl', T, U)
      BY <1>2, <1>4, <1>6, <2>6, <3>1, <3>2, OtherDelivers
    <3> QED
      BY <2>4, <2>6, <3>3
  <2>7. CASE /\ m.num > cl.last /\ m.kind = "normal"
             /\ cl' = CASE cl.state = "Connected" -> receiveNormalMessage(c, m)
                        [] cl.state = "Synchronize" ->
                             receiveNormalMessage(
                                [c EXCEPT !.state = "Connected",
                                          !.decoded = NothingDecoded], m)
                        [] OTHER -> c
             /\ UNCHANGED toFE
    <3>1. CASE cl.state \in {"Connected", "Synchronize"}
      <4> DEFINE d == IF cl.state = "Connected" THEN c
                      ELSE [c EXCEPT !.state = "Connected", !.decoded = NothingDecoded]
      <4>1. cl' = receiveNormalMessage(d, m)
        <5>1. CASE cl.state = "Connected"
          BY <2>7, <5>1
        <5>2. CASE cl.state = "Synchronize"
          BY <2>7, <5>2
        <5> QED
          BY <3>1, <5>1, <5>2
      <4>2. /\ DOMAIN d = DOMAIN cl /\ d.state = "Connected" /\ d.last = m.num
            /\ d.acked = c.acked /\ d.lastInLong = c.lastInLong
            /\ d.sendNumber = cl.sendNumber /\ d.latestSync = cl.latestSync
            /\ d.seen = cl.seen /\ d.log = cl.log
            /\ \/ cl.state = "Connected" /\ d.decoded = cl.decoded
               \/ cl.state = "Synchronize" /\ d.decoded = NothingDecoded
        <5>1. CASE cl.state = "Connected"
          BY <2>1, <5>1
        <5>2. CASE cl.state = "Synchronize"
          BY <2>1, <2>2, <5>2
        <5> QED
          BY <3>1, <5>1, <5>2
      <4> HIDE DEF d
      <4>3. Reading(cl, d, m) /\ HasRead(cl, d, cl', m)
        <5>1. d.acked = Decoded(m).acked /\ d.lastInLong = Decoded(m).lastInLong
          BY <4>2 DEF c
        <5> QED
          BY <2>7, <4>1, <4>2, <5>1, ReadsOn
      <4>4. Delivers(fe, cl', T, U)
        BY <1>2, <1>4, <1>6, <4>3, ReadDelivers
      <4> QED
        BY <2>4, <2>7, <4>4
    <3>2. CASE cl.state \notin {"Connected", "Synchronize"}
      <4>1. cl' = c
        BY <2>7, <3>2
      <4>2. Delivers(fe, c, T, U)
        BY <1>2, <1>4, <1>6, <2>1, <2>7, <3>2, OtherDelivers
      <4> QED
        BY <2>4, <2>7, <4>1, <4>2
    <3> QED
      BY <3>1, <3>2
  <2> QED
    BY <1>1, <2>3, <2>5, <2>6, <2>7 DEF c, m
<1> QED
  BY <1>5, <1>6 DEF Delivery

LEMMA ClientDelivers == SInv /\ Delivery /\ ClientNext /\ fe' = fe => Delivery'
BY ClientReceiveDelivers, ClientSendDelivers, ClientTimerDelivers DEF ClientNext

LEMMA DeliveryStep == SInv /\ Delivery /\ [Next]_vars => Delivery'
<1> SUFFICES ASSUME SInv, Delivery, [Next]_vars PROVE Delivery'
  OBVIOUS
<1>1. CASE FENext /\ UNCHANGED cl
  BY <1>1, FrontEndDelivers
<1>2. CASE ClientNext /\ UNCHANGED fe
  BY <1>2, ClientDelivers
<1>3. CASE UNCHANGED vars
  BY <1>3 DEF Delivery, vars
<1> QED
  BY <1>1, <1>2, <1>3 DEF Next

LEMMA DeliveryAlways == Spec => []Delivery
BY DeliveryInit, DeliveryStep, SInvAlways, PTL DEF Spec

(* Whatever is lost, overtaken, sent again or resynchronised, the client's *)
(* handlers are given an impulse once, and those of level 0 in the order   *)
(* in which the shard added them; unless the front end was misled.         *)
THEOREM ImpulsesArriveOnceCorrect == Spec => []ImpulsesArriveOnce
<1>1. Delivery => ImpulsesArriveOnce
  BY DEF Delivery, Delivers, LogOK, ImpulsesArriveOnce
<1> QED
  BY <1>1, DeliveryAlways, PTL

(* No impulse is lost: what the front end drops from its queues was handed *)
(* to the client's handlers, not only carried by a packet that came; un-   *)
(* less the front end was misled.                                          *)
THEOREM AckedWereDeliveredCorrect == Spec => []AckedWereDelivered
<1>1. SInv /\ Delivery => AckedWereDelivered
  BY DEF SInv, FrontEndOK, Delivery, Delivers, LogOK, AckedWereDelivered
<1> QED
  BY <1>1, SInvAlways, DeliveryAlways, PTL
=============================================================================
