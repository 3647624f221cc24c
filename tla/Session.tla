------------------------------- MODULE Session -------------------------------
(***************************************************************************)
(* A client session: a front end, a client and the network between them.   *)
(***************************************************************************)
EXTENDS FrontEndSession, ClientSession

vars == <<fe, cl, toClient, toFE>>

Init == NetInit /\ FEInit /\ ClientInit

Next ==
    \/ FENext /\ UNCHANGED cl
    \/ ClientNext /\ UNCHANGED fe

Spec == Init /\ [][Next]_vars

-----------------------------------------------------------------------------
Impulses == Levels \X (1 .. MaxImpulses)
Blocks == 1 .. MaxActions
Packets == 0 .. MaxPackets
Messages == 0 .. MaxMessages
States == {"Synchronize", "Connected", "Probe", "Stalled"}

(* The records of both sides are what the code declares; a queue is never  *)
(* longer than a packet carries, and neither side believes that the other  *)
(* has sent a datagram that it has not (CClientHost, CNetworkConnection).  *)
TypeOK ==
    /\ fe.state \in States \cup {"ForceSynchronize"}
    /\ fe.sendNumber \in Packets
    /\ fe.lastAck \in Int /\ fe.lastAck <= fe.sendNumber
    /\ fe.receiveNumber \in Int /\ fe.receiveNumber < cl.sendNumber
    /\ fe.lastSentSync \in 1 .. MaxPackets + 1
    /\ fe.added \in 0 .. MaxImpulses /\ fe.acked \subseteq Impulses
    /\ \A l \in Levels : /\ ToSet(fe.main[l]) \subseteq Impulses
                         /\ \A c \in Channels(l) :
                               /\ ToSet(fe.queue[l][c]) \subseteq Impulses
                               /\ Len(fe.queue[l][c]) <= QueueSize
                               /\ fe.firstSent[l][c] \in Packets
    /\ fe.lastCycle \in 0 .. MaxActions /\ ToSet(fe.done) \subseteq Blocks
    /\ cl.state \in States \cup {"Login"}
    /\ cl.sendNumber \in 1 .. MaxMessages + 1
    /\ cl.last \in 0 .. fe.sendNumber /\ cl.acked \subseteq 1 .. cl.last
    /\ cl.cycle \in 0 .. MaxActions /\ Len(cl.actions) <= MaxActions
    /\ ToSet(cl.log) \cup cl.seen \subseteq Impulses

(* An impulse reaches the client's handlers once, and those of level 0,    *)
(* which has one channel, in the order they were added, whatever is lost,  *)
(* overtaken, sent again or resynchronised; unless the front end was       *)
(* misled by a late ACK_SYNC, or by one whose bit field does not reach     *)
(* back to the last acknowledged packet (CImpulseDecoder, CImpulseQueue).  *)
ImpulsesArriveOnce ==
    fe.misled \/ /\ IsInjective(cl.log)
                 /\ \A i, j \in DOMAIN cl.log :
                       i < j /\ cl.log[i][1] = 0 /\ cl.log[j][1] = 0
                       => cl.log[i][2] < cl.log[j][2]

(* An impulse that the front end drops as acknowledged was in a packet the *)
(* client has read: the 32 bits of a normal datagram, the long field of an *)
(* ACK_SYNC and the last number itself are never taken for a packet that   *)
(* was lost, or ignored because of the client's state.                     *)
AckedWereRead == fe.acked \subseteq cl.seen

(* ... and it was not discarded there as a repetition of an earlier one,   *)
(* unless the front end was misled: no impulse is lost.                    *)
AckedWereDelivered == fe.misled \/ fe.acked \subseteq ToSet(cl.log)

(* The shard is given the blocks of actions in order, each once; and the   *)
(* client drops a block only when the shard was given it (the list         *)
(* _Actions, its FirstPacket, and LastReceivedGameCycle).                  *)
ActionsArriveInOrder ==
    /\ \A i \in DOMAIN fe.done : fe.done[i] = i
    /\ \A b \in 1 .. cl.cycle :
          b <= Len(fe.done) \/ \E i \in DOMAIN cl.actions : cl.actions[i].cycle = b

(* While both sides are Connected the client computes the game cycle of a  *)
(* packet with the offset that the front end counts with: whatever sets    *)
(* them apart is followed by a SYNC that the client has received           *)
(* ("the FS *must* resynchronize the clients when exiting from stalled     *)
(* mode", frontend_service.cpp:1647).  It does not hold.                   *)
TicksAgree ==
    fe.state = "Connected" /\ cl.state = "Connected" => cl.sync = fe.sync
=============================================================================
