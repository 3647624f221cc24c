---------------------------- MODULE ClientSession ----------------------------
(***************************************************************************)
(* The game client's side of a session: CNetworkConnection and its         *)
(* CImpulseDecoder, from the LOGIN it has just sent.                       *)
(*                                                                         *)
(* The client acknowledges the normal packets it received in the mask of   *)
(* its own normal datagrams, and those of a longer past in the bit field   *)
(* of an ACK_SYNC. Both are kept as the set of the acknowledged numbers.   *)
(***************************************************************************)
EXTENDS SessionNet

CONSTANTS LongAckBits,      \* width of the field of an ACK_SYNC (1024)
          BlocksPerMessage, \* blocks of actions that fit in a datagram
          MaxActions,       \* bound: blocks of actions the player makes
          MaxMessages       \* bound: datagrams the client sends

ASSUME ClientAssumption ==
    /\ {LongAckBits, BlocksPerMessage} \subseteq Nat \ {0}
    /\ AckBits < LongAckBits
    /\ {MaxActions, MaxMessages} \subseteq Nat

VARIABLE cl

NothingDecoded == [l \in Levels |-> [c \in Channels(l) |-> -1]]

ClientInit ==
    cl = [state       |-> "Login",
          sendNumber  |-> 1,
          last        |-> 0,
          acked       |-> {},
          lastInLong  |-> 0,
          latestSync  |-> 0,
          sync        |-> 0,
          decoded     |-> NothingDecoded,
          probes      |-> <<>>,
          actions     |-> <<>>,
          cycle       |-> 0,
          seen        |-> {},
          log         |-> <<>>]

MaySendToFE(c) == c.sendNumber <= MaxMessages

-----------------------------------------------------------------------------
(* Datagrams to the front end.                                             *)

sendSystemAckSync(c) ==
    /\ MaySendToFE(c)
    /\ cl' = [c EXCEPT !.sendNumber = @ + 1]
    /\ ToFE([num |-> c.sendNumber, kind |-> "ACK_SYNC", front |-> c.last,
             back |-> c.lastInLong, acked |-> c.acked, code |-> c.latestSync])

sendSystemAckProbe(c) ==
    /\ MaySendToFE(c)
    /\ cl' = [c EXCEPT !.sendNumber = @ + 1, !.probes = <<>>]
    /\ ToFE([num |-> c.sendNumber, kind |-> "ACK_PROBE", probes |-> c.probes])

\* As many stamped blocks as fit, from the oldest; each remembers the first
\* packet it was in.
sendNormalMessage(c) ==
    LET sent(i) == i <= BlocksPerMessage
        mark(i) == IF sent(i) /\ c.actions[i].first = 0
                   THEN [c.actions[i] EXCEPT !.first = c.sendNumber]
                   ELSE c.actions[i]
        blocks  == [i \in {i \in DOMAIN c.actions : sent(i)}
                        |-> c.actions[i].cycle]
    IN  /\ MaySendToFE(c)
        /\ cl' = [c EXCEPT !.sendNumber = @ + 1,
                           !.actions = [i \in DOMAIN c.actions |-> mark(i)]]
        /\ ToFE([num |-> c.sendNumber, kind |-> "normal", last |-> c.last,
                 mask |-> c.acked \cap (c.last - AckBits .. c.last - 1),
                 blocks |-> blocks])

-----------------------------------------------------------------------------
(* Datagrams of the front end.                                             *)

\* decodeHeader: the normal packets are acknowledged, if they come in a
\* state that reads them.
Reads(m) == m.kind = "normal" /\ cl.state \in {"Connected", "Synchronize"}

Decoded(m) ==
    LET lost == m.num - LongAckBits
    IN  [cl EXCEPT !.last = m.num,
                   !.acked = {p \in @ : p > lost} \cup
                                 (IF Reads(m) THEN {m.num} ELSE {}),
                   !.lastInLong = IF @ <= lost THEN lost + 1 ELSE @]

\* CImpulseDecoder::decode: the impulses of a channel are new if the front
\* end has received what acknowledged the ones before.
LaterMutant(c, m, l) ==
    m.impulses[l] # <<>> /\ m.ack > c.decoded[l][Channel(l, m.num)]
Fresh(c, m, l) ==
    m.impulses[l] # <<>> /\ m.ack >= c.decoded[l][Channel(l, m.num)]

New(c, m, l) == IF l \in Levels /\ Fresh(c, m, l) THEN m.impulses[l] ELSE <<>>

\* The blocks at the front are dropped whose first packet is acknowledged.
Unacked(actions, ack) ==
    LET kept == {i \in DOMAIN actions : actions[i].first = 0 \/ actions[i].first > ack}
    IN  SubSeq(actions, Min(kept \cup {Len(actions) + 1}), Len(actions))

\* The levels are decoded in their order.
receiveNormalMessage(c, m) ==
    [c EXCEPT
      !.decoded = [l \in Levels |-> [ch \in Channels(l) |->
                      IF ch = Channel(l, m.num) /\ Fresh(c, m, l)
                      THEN c.sendNumber ELSE @[l][ch]]],
      !.log = @ \o New(c, m, 0) \o New(c, m, 1) \o New(c, m, 2),
      !.seen = @ \cup UNION {ToSet(m.impulses[l]) : l \in Levels},
      !.actions = Unacked(@, m.ack)]

\* One disjunct per kind of datagram. A PROBE, a SYNC or a STALLED puts the
\* client in its state from any other; a normal one connects a synchronized
\* client, whose decoder starts anew, and is ignored in the other states.
\* stateStalled sets the state Probe but does not leave its loop, where a
\* STALLED changes no state: the model lets any client in Probe stay there.
ClientReceive ==
    \E i \in Arriving(toClient) :
        LET m == toClient[i]
            c == Decoded(m)
        IN  /\ toClient' = RemoveAt(toClient, i)
            /\ \/ /\ m.num <= cl.last
                  /\ UNCHANGED <<cl, toFE>>
               \/ /\ m.num > cl.last /\ m.kind = "SYNC"
                  /\ sendSystemAckSync([c EXCEPT !.state = "Synchronize",
                                                 !.latestSync = m.code,
                                                 !.sync = m.sync])
               \/ /\ m.num > cl.last /\ m.kind = "PROBE"
                  /\ cl' = [c EXCEPT !.state = "Probe",
                                     !.probes = Append(@, m.probe)]
                  /\ UNCHANGED toFE
               \/ /\ m.num > cl.last /\ m.kind = "STALLED"
                  /\ \/ cl' = [c EXCEPT !.state = "Stalled"]
                     \/ cl.state = "Probe" /\ cl' = c
                  /\ UNCHANGED toFE
               \/ /\ m.num > cl.last /\ m.kind = "normal"
                  /\ cl' = CASE cl.state = "Connected" ->
                                  receiveNormalMessage(c, m)
                             [] cl.state = "Synchronize" ->
                                  receiveNormalMessage(
                                     [c EXCEPT !.state = "Connected",
                                               !.decoded = NothingDecoded], m)
                             [] OTHER -> c
                  /\ UNCHANGED toFE

-----------------------------------------------------------------------------
(* What the client does of its own.                                        *)

\* send(cycle): the actions of the cycle become a block; a connected client
\* sends. (send() is the same without a block.)
ClientSend(acts) ==
    LET c == IF acts THEN [cl EXCEPT !.cycle = @ + 1,
                             !.actions = Append(@, [cycle |-> cl.cycle + 1,
                                                    first |-> 0])]
                     ELSE cl
    IN  /\ acts => cl.cycle < MaxActions
        /\ \/ cl.state = "Connected" /\ sendNormalMessage(c)
           \/ cl.state # "Connected" /\ acts /\ cl' = c /\ UNCHANGED toFE
        /\ UNCHANGED toClient

\* The timers of stateSynchronize and of stateProbe.
ClientTimer ==
    /\ \/ cl.state = "Synchronize" /\ sendSystemAckSync(cl)
       \/ cl.state = "Probe" /\ sendSystemAckProbe(cl)
    /\ UNCHANGED toClient

ClientNext ==
    \/ ClientReceive
    \/ \E acts \in BOOLEAN : ClientSend(acts)
    \/ ClientTimer
=============================================================================
