----------------------------- MODULE SessionNet -----------------------------
(***************************************************************************)
(* The UDP traffic between a front-end service (FE) and one game client:   *)
(* a wire each way, on which datagrams are lost and, where MayReorder      *)
(* says so, overtake one another.                                          *)
(*                                                                         *)
(* A datagram is numbered by its sender and is a system message (SYNC,     *)
(* PROBE, STALLED; ACK_SYNC, ACK_PROBE) or a normal one.                   *)
(***************************************************************************)
EXTENDS Integers, Sequences, TLC, SequencesExt

CONSTANTS Levels,           \* levels of priority of the impulses
          AckBits,          \* width of the acknowledgement mask (32)
          MayReorder,       \* does the network deliver out of order?
          ClientCapacity,   \* bound: datagrams in flight to the client
          FECapacity        \* bound: ... and to the front end

ASSUME NetAssumption ==
    /\ Levels \subseteq 0..2
    /\ MayReorder \in BOOLEAN
    /\ {AckBits, ClientCapacity, FECapacity} \subseteq Nat \ {0}

\* Level l has 2^l channels; a packet carries one channel of every level.
Channels(l) == 0 .. 2^l - 1
Channel(l, packet) == packet % 2^l

VARIABLES toClient,         \* datagrams from the front end to the client
          toFE              \* datagrams from the client to the front end

wires == <<toClient, toFE>>

NetInit == toClient = <<>> /\ toFE = <<>>

\* The datagrams that may come out of a wire next.
Arriving(wire) == IF MayReorder THEN DOMAIN wire ELSE {1} \cap DOMAIN wire

\* A datagram just sent is on the wire, or lost.
Carried(wire, m, capacity) ==
    {wire} \cup (IF Len(wire) < capacity THEN {Append(wire, m)} ELSE {})

ToClient(m) == toClient' \in Carried(toClient, m, ClientCapacity)
ToFE(m) == toFE' \in Carried(toFE, m, FECapacity)
=============================================================================
