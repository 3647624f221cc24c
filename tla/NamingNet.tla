------------------------------ MODULE NamingNet ------------------------------
(***************************************************************************)
(* What the naming service (nelns/naming_service/naming_service.cpp) and   *)
(* its clients (nel/src/net/naming_client.cpp, linked into every service)  *)
(* share: the shard's service processes, the TCP connection of each to the *)
(* naming service, and the messages in flight on it.                       *)
(*                                                                         *)
(* A member of Services is one process from start to end: a service that   *)
(* is launched again after it died is another member with the same name.   *)
(* The process stands for the data a registration carries about it (its    *)
(* name, its addresses, its socket); NameOf, NetsOf and MachineOf give     *)
(* what the code derives from them.                                        *)
(***************************************************************************)
EXTENDS Naturals, Sequences, FiniteSets

CONSTANTS
  Services,      \* service processes
  NoService,     \* the NULL socket / empty name
  NameOf,        \* [Services -> names]: short name ("WS", "EGS", ...)
  NetsOf,        \* [Services -> SUBSET subnets]: internalNetAddress of each address
  MachineOf,     \* [Services -> machines]: internalIPAddress of its first address
  ReqSId,        \* [Services -> Nat]: SId of its config file, 0 = to be allocated
  BaseSId,       \* allocated SIds begin here
  MaxSId         \* largest TServiceId (a uint16)

SIds == 1 .. MaxSId
NoSId == 0

ASSUME NetAssumption ==
  /\ IsFiniteSet(Services)
  /\ NoService \notin Services
  /\ BaseSId \in Nat /\ MaxSId \in Nat /\ 0 < BaseSId /\ BaseSId <= MaxSId
  /\ ReqSId \in [Services -> 0 .. MaxSId]

VARIABLES
  toNS,     \* [Services -> Seq(message)]: sent by the service, not yet read by the NS
  toSvc,    \* [Services -> Seq(message)]: sent by the NS, not yet read by the service
  conn,     \* [Services -> BOOLEAN]: connectedState() of the service's end
  sock      \* [Services -> BOOLEAN]: the NS holds a socket for the service

netVars == <<toNS, toSvc, conn, sock>>

(* Messages to the NS.  [DISC] is the disconnection event that follows the  *)
(* last message in the receive queue of the other end.                     *)
RegMsg(i) == [type |-> "RG", sid |-> i]
ReregMsg(i) == [type |-> "RRG", sid |-> i]
AckMsg(i) == [type |-> "ACK_UNI", sid |-> i]
DiscMsg == [type |-> "DISC"]

(* Messages to a service.  A list of services (RegisteredServices on both   *)
(* sides, and the list of an RG answer) is a set of records in the order   *)
(* of their field pos; pos is the stamp of the registration, so that the   *)
(* order is the order of push_back.  UNB carries the name of the service;  *)
(* svc stands for it.                                                      *)
GrantMsg(i, list) == [type |-> "RG", ok |-> TRUE, sid |-> i, list |-> list]
DenyMsg == [type |-> "RG", ok |-> FALSE]
UpMsg(e) == [type |-> "RGB", entry |-> e]
DownMsg(i, s) == [type |-> "UNB", sid |-> i, svc |-> s]

Listed == [pos : Nat, sid : SIds, svc : Services]

NSMessages ==
  [type : {"RG"}, sid : 0 .. MaxSId] \cup [type : {"RRG"}, sid : SIds]
    \cup [type : {"ACK_UNI"}, sid : SIds] \cup [type : {"DISC"}]
SvcMessages ==
  [type : {"RG"}, ok : {TRUE}, sid : SIds, list : SUBSET Listed]
    \cup [type : {"RG"}, ok : {FALSE}]
    \cup [type : {"RGB"}, entry : Listed]
    \cup [type : {"UNB"}, sid : SIds, svc : Services] \cup [type : {"DISC"}]

NetInit ==
  /\ toNS = [s \in Services |-> <<>>]
  /\ toSvc = [s \in Services |-> <<>>]
  /\ conn = [s \in Services |-> FALSE]
  /\ sock = [s \in Services |-> FALSE]

(* The head of a queue, when there is one, has a given type.               *)
NSReads(s, type) == toNS[s] # <<>> /\ Head(toNS[s]).type = type
SvcReads(s, type) == toSvc[s] # <<>> /\ Head(toSvc[s]).type = type

(* The service's queue to the NS after it sent m: a message on a           *)
(* connection whose NS end is gone is lost.                                *)
Sent(s, m) == IF sock[s] THEN Append(toNS[s], m) ELSE toNS[s]

(* The queues to the services after the NS sent m to every service of R    *)
(* whose end is still open.                                                *)
Broadcast(R, m) ==
  [s \in Services |-> IF s \in R /\ conn[s] /\ sock[s] THEN Append(toSvc[s], m)
                                                       ELSE toSvc[s]]
=============================================================================
