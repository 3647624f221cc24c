------------------------------ MODULE LoginNet ------------------------------
(***************************************************************************)
(* What the services of the login chain share: the login service (LS), the *)
(* welcome service (WS) of one shard, the front ends (FES) of that shard,  *)
(* and the messages in flight between them.                                *)
(*                                                                         *)
(*   client --VLP, CS--> LS --CS, DC--> WS --CS, DC, FS_ACCEPT--> FES      *)
(*   client <--VLP, SCS-- LS <--SCS, CC, WS_IDENT-- WS                     *)
(*                        WS <--SCS, CC, RPC, NBPLAYERS2-- FES             *)
(*                                                                         *)
(* A member of Clients is one attempt to log in, by one client process.    *)
(* A member of Addrs is a TSockId of the client server of the LS: the      *)
(* address of a socket object, which the LS writes in the cookie and which *)
(* another connection may have once the first is deleted.                  *)
(***************************************************************************)
EXTENDS Naturals, Sequences, FiniteSets

CONSTANTS
  Users,       \* accounts of the database
  Clients,     \* attempts to log in
  Addrs,       \* TSockId values of the client server of the LS
  FESs,        \* front end processes of the shard
  None,        \* empty cookie, NULL socket, no front end
  MayCrash,    \* the services that may crash: a subset of {"LS", "WS", "FES"}
  MaxFaults    \* bound: number of crashes

(* CLoginCookie.  The key is a rand() of the LS, taken anew at each login: *)
(* the attempt stands for it.                                              *)
Cookies == [addr : Addrs, key : Clients, user : Users]

ASSUME LoginAssumption ==
  /\ IsFiniteSet(Clients) /\ IsFiniteSet(Users)
  /\ None \notin Users \cup Clients \cup Addrs \cup FESs \cup Cookies
  /\ MaxFaults \in Nat

(* The connections of the WS to the LS, in the order it opened them.       *)
Links == 1 .. (MaxFaults + 1)

VARIABLES
  link,      \* the last connection the WS opened to the LS, 0 at first
  linked,    \* both ends of that connection are alive
  lsToWS,    \* Seq(message): sent on that connection, not yet read by the WS
  wsToLS,    \* Seq(message, with its connection): received and not yet read by the LS
  broken,    \* connections the LS does not know yet to be dead
  sees,      \* [FESs -> BOOLEAN]: the front end is connected to the live WS
  wsToFES,   \* [FESs -> Seq(message)]
  fesToWS    \* [FESs -> Seq(message)]

netVars == <<link, linked, lsToWS, wsToLS, broken, sees, wsToFES, fesToWS>>

ChooseMsg(k) == [type |-> "CS", cookie |-> k]
KickMsg(u) == [type |-> "DC", user |-> u]
AcceptMsg == [type |-> "FS_ACCEPT"]
IdentMsg == [type |-> "WS_IDENT"]
ChosenMsg(k, f, n) == [type |-> "SCS", ok |-> TRUE, cookie |-> k, fes |-> f, nb |-> n]
RefusedMsg(k) == [type |-> "SCS", ok |-> FALSE, cookie |-> k]
ClientMsg(u, con) == [type |-> "CC", user |-> u, con |-> con]
RemovedMsg(k) == [type |-> "RPC", cookie |-> k]
CountsMsg(n, p) == [type |-> "NBPLAYERS2", users |-> n, pending |-> p]
UpMsg == [type |-> "up"]        \* the service up callback
DownMsg == [type |-> "down"]    \* the service down callback, after the last message

Reads(q, type) == q # <<>> /\ Head(q).type = type

(* CUnifiedNetwork::send of the WS to the LS: a warning when not connected. *)
(* The server of the LS has one receive queue for all its connections.     *)
From(l, m) == [link |-> l, msg |-> m]
SendLS(m) == IF linked THEN Append(wsToLS, From(link, m)) ELSE wsToLS

(* What the other end still reads of a connection whose writer crashed.    *)
Cut(q) == {SubSeq(q, 1, n) : n \in 0 .. Len(q)}

NetInit ==
  /\ link = 0 /\ linked = FALSE
  /\ lsToWS = <<>> /\ wsToLS = <<>> /\ broken = {}
  /\ sees = [f \in FESs |-> FALSE]
  /\ wsToFES = [f \in FESs |-> <<>>] /\ fesToWS = [f \in FESs |-> <<>>]
=============================================================================
