--------------------------- MODULE FrontEndSession ---------------------------
(***************************************************************************)
(* The front end's side of a client session: CClientHost and its           *)
(* CImpulseEncoder, driven by CFeReceiveSub (a datagram of the client) and *)
(* CFeSendSub (one datagram to the client at every tick).                  *)
(*                                                                         *)
(* An impulse of level l is sent in the packets of its channel, packet     *)
(* number modulo 2^l, again and again until one of them is acknowledged.   *)
(* The session is Connected when both sides exchange normal datagrams; it  *)
(* falls to Probe when the client lags or too many acknowledgements are    *)
(* missing, to Stalled when the ticks stop, and goes back to Connected     *)
(* through Synchronize, by a SYNC and its ACK_SYNC.                        *)
(***************************************************************************)
EXTENDS SessionNet

CONSTANTS QueueSize,        \* impulses a channel sends at a time
          ProbesNeeded,     \* consecutive probes that end a Probe state (5)
          MayStall,         \* may the ticks stop?
          MaxImpulses,      \* bound: impulses the shard sends
          MaxPackets,       \* bound: datagrams the front end sends
          MaxUpsets         \* bound: lags and stalls

ASSUME FrontEndAssumption ==
    /\ {QueueSize, ProbesNeeded} \subseteq Nat \ {0}
    /\ MayStall \in BOOLEAN
    /\ {MaxImpulses, MaxPackets, MaxUpsets} \subseteq Nat

VARIABLE fe

None == -1                  \* 0xFFFFFFFF, the number before the first

\* addClient, at the client's LOGIN. "drift" counts how often the ticks and
\* the packet numbers came apart, which they do in a stall and while probing;
\* "sync", which is getSync(), is what it was at the last SYNC. "acked" are
\* the impulses whose acknowledge callback was called, "done" the blocks of
\* actions handed to the shard. "misled" is history: the state once became
\* Connected on the acknowledgement of another SYNC than the last, or on one
\* whose bit field does not reach back to the last acknowledged packet.
FEInit ==
    fe = [state         |-> "Synchronize",
          sendNumber    |-> 0,
          receiveNumber |-> None,
          lastAck       |-> None,
          lastSentSync  |-> 1,
          drift         |-> 0,
          sync          |-> 0,
          probe         |-> [sent |-> 0, received |-> 0, consecutive |-> 0],
          added         |-> 0,
          main          |-> [l \in Levels |-> <<>>],
          queue         |-> [l \in Levels |-> [c \in Channels(l) |-> <<>>]],
          firstSent     |-> [l \in Levels |-> [c \in Channels(l) |-> 0]],
          acked         |-> {},
          lastCycle     |-> 0,
          done          |-> <<>>,
          misled        |-> FALSE]

-----------------------------------------------------------------------------
(* CImpulseEncoder.                                                        *)

\* add: an impulse of the shard, a pair of its level and its number, joins
\* the main queue of its level.
AddImpulse(l) ==
    /\ fe.added < MaxImpulses
    /\ fe' = [fe EXCEPT !.added = @ + 1, !.main[l] = Append(@, <<l, fe.added + 1>>)]
    /\ UNCHANGED wires

AllMutant(impulses) == impulses
Fitting(impulses) ==
    SubSeq(impulses, 1, IF Len(impulses) < QueueSize THEN Len(impulses) ELSE QueueSize)

\* CImpulseQueue::send, for every level: the packet's channel is refilled
\* from the main queue if all it had was acknowledged.
Refilled(f, packet) ==
    LET refill(l)   == f.queue[l][Channel(l, packet)] = <<>>
        taken(l)    == Fitting(f.main[l])
        left(l)     == SubSeq(f.main[l], Len(taken(l)) + 1, Len(f.main[l]))
        hits(l, c)  == refill(l) /\ c = Channel(l, packet)
    IN  [f EXCEPT
          !.queue = [l \in Levels |-> [c \in Channels(l) |->
                        IF hits(l, c) THEN taken(l) ELSE @[l][c]]],
          !.firstSent = [l \in Levels |-> [c \in Channels(l) |->
                        IF hits(l, c) THEN packet ELSE @[l][c]]],
          !.main = [l \in Levels |-> IF refill(l) THEN left(l) ELSE @[l]]]

\* ack, for every packet of a set: a channel is flushed if one of its
\* packets since its impulses were first sent is acknowledged.
Acknowledged(f, packets) ==
    LET flushed(l, c) == \E p \in packets : /\ Channel(l, p) = c
                                            /\ p >= f.firstSent[l][c]
    IN  [f EXCEPT
          !.queue = [l \in Levels |-> [c \in Channels(l) |->
                        IF flushed(l, c) THEN <<>> ELSE @[l][c]]],
          !.acked = @ \cup UNION {UNION {ToSet(f.queue[l][c]) :
                        c \in {c \in Channels(l) : flushed(l, c)}} : l \in Levels}]

-----------------------------------------------------------------------------
(* CFeSendSub: at every tick the client is sent what its state calls for.  *)

MaySend == fe.sendNumber < MaxPackets

SendNormal ==
    LET f == Refilled([fe EXCEPT !.sendNumber = @ + 1], fe.sendNumber + 1)
    IN  /\ fe.state = "Connected" /\ MaySend
        /\ fe' = f
        /\ ToClient(
             [num |-> f.sendNumber, kind |-> "normal", ack |-> f.receiveNumber,
              impulses |-> [l \in Levels |-> f.queue[l][Channel(l, f.sendNumber)]]])
        /\ UNCHANGED toFE

\* A SYNC carries the number of the next resynchronisation, and the game
\* cycle the packet numbers count from.
SendSync ==
    LET f == [fe EXCEPT !.state = "Synchronize", !.sendNumber = @ + 1,
                        !.sync = fe.drift]
    IN  /\ fe.state \in {"Synchronize", "ForceSynchronize"} /\ MaySend
        /\ fe' = f
        /\ ToClient([num |-> f.sendNumber, kind |-> "SYNC",
                     code |-> f.lastSentSync, sync |-> f.sync])
        /\ UNCHANGED toFE

SendProbe ==
    LET f == [fe EXCEPT !.sendNumber = @ + 1, !.probe.sent = @ + 1]
    IN  /\ fe.state = "Probe" /\ MaySend
        /\ fe' = f
        /\ ToClient([num |-> f.sendNumber, kind |-> "PROBE",
                     probe |-> f.probe.sent])
        /\ UNCHANGED toFE

-----------------------------------------------------------------------------
(* The states a client is put in: Probe by the receive timer               *)
(* (updateClientsStates), Stalled when no tick comes                       *)
(* (sendServerProblemStateToClients), ForceSynchronize at the next tick.   *)

ToProbe(f) ==
    [f EXCEPT !.state = "Probe",
              !.drift = @ + 1,
              !.probe = [sent |-> 0, received |-> 0, consecutive |-> 0]]

ClientLags ==
    /\ fe.state \in {"Connected", "Synchronize", "ForceSynchronize"}
    /\ fe.drift < MaxUpsets
    /\ fe' = ToProbe(fe)
    /\ UNCHANGED wires

Stall ==
    LET f == [fe EXCEPT !.state = "Stalled", !.sendNumber = @ + 1,
                        !.drift = @ + 1]
    IN  /\ MayStall /\ MaySend /\ fe.drift < MaxUpsets
        /\ fe' = f
        /\ ToClient([num |-> f.sendNumber, kind |-> "STALLED"])
        /\ UNCHANGED toFE

setClientsToSynchronizeState ==
    /\ fe.state = "Stalled"
    /\ fe' = [fe EXCEPT !.state = "ForceSynchronize"]
    /\ UNCHANGED wires

-----------------------------------------------------------------------------
(* CFeReceiveSub::handleReceivedMsg, datagram by datagram. Only a normal   *)
(* one that is processed moves the receive number.                         *)

\* The packets an ACK_SYNC acknowledges, from its long bit field.
NoneMutant(f, m) == {}
LongAcks(f, m) ==
    {p \in m.acked : p \in m.back .. m.front /\ p > f.lastAck}

\* The state is changed before the number of the SYNC is looked at.
OnAckSync(f, m) ==
    IF f.state # "Synchronize" THEN f
    ELSE IF m.code # f.lastSentSync
         THEN [f EXCEPT !.state = "Connected", !.misled = TRUE]
         ELSE [Acknowledged(f, LongAcks(f, m)) EXCEPT
                  !.state = "Connected",
                  !.lastAck = m.front,
                  !.lastSentSync = @ + 1,
                  !.misled = @ \/ (f.lastAck # None /\ m.back > f.lastAck + 1)]

\* One probe number of an ACK_PROBE; a run of consecutive ones is needed.
CountProbe(pr, n) ==
    [pr EXCEPT !.consecutive = IF n = pr.received + 1 THEN @ + 1 ELSE 1,
               !.received = n]

OnAckProbe(f, m) ==
    IF f.state # "Probe" THEN f
    ELSE LET pr == FoldLeft(CountProbe, f.probe, m.probes) IN
         IF pr.consecutive < ProbesNeeded
         THEN [f EXCEPT !.probe = pr]
         ELSE [f EXCEPT !.probe = pr, !.state = "Synchronize", !.sync = f.drift]

\* The packets a normal datagram acknowledges, since the last one did: the
\* last the client received, and those of its mask.
UnmaskedMutant(f, m) == f.lastAck + 1 .. m.last
MaskAcks(f, m) ==
    LET news == IF f.lastAck = None THEN {m.last} ELSE f.lastAck + 1 .. m.last
    IN  {p \in news : p = m.last \/ p \in m.mask}

\* More acknowledgements are missing than the mask holds. (The difference
\* is unsigned: one that goes back is a very large one.)
TooManyLost(f, m) ==
    /\ m.last # 0 /\ f.lastAck # None
    /\ m.last - f.lastAck \notin 0 .. AckBits + 1

\* Blocks of actions come again until they are acknowledged.
AgainMutant(b, block) == [lastCycle |-> block, done |-> Append(b.done, block)]
Process(b, block) ==
    IF block <= b.lastCycle THEN b
    ELSE [lastCycle |-> block, done |-> Append(b.done, block)]

\* The blocks of a datagram, one after the other.
AllProcessed(start, blocks) ==
    LET after[i \in 0 .. Len(blocks)] ==
            IF i = 0 THEN start ELSE Process(after[i - 1], blocks[i])
    IN  after[Len(blocks)]

OnNormal(f, m) ==
    IF f.state # "Connected" THEN f
    ELSE IF TooManyLost(f, m) THEN ToProbe(f)
    ELSE LET acks == IF m.last = 0 THEN {} ELSE MaskAcks(f, m)
             b    == AllProcessed([lastCycle |-> f.lastCycle, done |-> f.done],
                                  m.blocks)
         IN  [Acknowledged(f, acks) EXCEPT !.lastAck = m.last,
                                           !.receiveNumber = m.num,
                                           !.lastCycle = b.lastCycle,
                                           !.done = b.done]

Receive(f, m) ==
    IF m.num <= f.receiveNumber THEN f
    ELSE CASE m.kind = "ACK_SYNC"  -> OnAckSync(f, m)
           [] m.kind = "ACK_PROBE" -> OnAckProbe(f, m)
           [] m.kind = "normal"    -> OnNormal(f, m)

\* Datagrams are read at a tick, so never while the ticks are stalled.
FEReceive ==
    /\ fe.state # "Stalled"
    /\ \E i \in Arriving(toFE) : /\ fe' = Receive(fe, toFE[i])
                                 /\ toFE' = RemoveAt(toFE, i)
    /\ UNCHANGED toClient

FENext ==
    \/ \E l \in Levels : AddImpulse(l)
    \/ SendNormal \/ SendSync \/ SendProbe
    \/ ClientLags \/ Stall \/ setClientsToSynchronizeState
    \/ FEReceive
=============================================================================
