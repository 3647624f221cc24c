---------------------------- MODULE LoginService ----------------------------
(***************************************************************************)
(* The login service: nelns/login_service/connection_client.cpp and        *)
(* connection_ws.cpp.  Its state is the user table of the database, the    *)
(* list Shards, the sockets of its clients and what they asked for.        *)
(*                                                                         *)
(* The database answers every query; passwords are right.  The code serves *)
(* several shards; the shard id is modelled by the flag onShard (ShardId   *)
(* other than -1), as there is one shard.                                  *)
(***************************************************************************)
EXTENDS LoginNet, Integers

VARIABLES
  lsUp,        \* the LS process runs
  users,       \* [Users -> [state, cookie, onShard]]: table user
  shardSId,    \* SId of the entry of Shards, 0 if the shard is not listed
  nbPlayers,   \* NbPlayers of that entry (uint32: -1 stands for 2^32 - 1)
  conn,        \* [Addrs -> connection]: the sockets of the clients
  inbox        \* [Clients -> Seq(message)]: sent by the LS, not yet read

lsVars == <<lsUp, users, shardSId, nbPlayers, conn, inbox>>

States == {"Offline", "Authorized", "Waiting", "Online"}
Offline == [state |-> "Offline", cookie |-> None, onShard |-> FALSE]

(* A socket: its client, the account it logs in to, the request that is    *)
(* not handled yet ("none", "VLP" or "CS": authorizeOnly accepts no other  *)
(* order), and whether the client's end is still open.                     *)
Free == [client |-> None, user |-> None, request |-> "none", open |-> FALSE]
Connected(c, u) == [client |-> c, user |-> u, request |-> "VLP", open |-> TRUE]

LSInit ==
  /\ lsUp = TRUE
  /\ users = [u \in Users |-> Offline]
  /\ shardSId = 0 /\ nbPlayers = 0
  /\ conn = [a \in Addrs |-> Free]
  /\ inbox = [c \in Clients |-> <<>>]

-----------------------------------------------------------------------------
(* CBufServer::send: to the client that has the address now, if any.       *)
SendClient(a, m) ==
  IF conn[a].open THEN [inbox EXCEPT ![conn[a].client] = Append(@, m)] ELSE inbox

Answer(ok) == [type |-> "VLP", ok |-> ok]
TicketMsg(k, f) == [type |-> "SCS", ok |-> TRUE, cookie |-> k, fes |-> f]
NoTicketMsg == [type |-> "SCS", ok |-> FALSE]

(* send("WS", ...): to the welcome service while it is connected.          *)
SendWS(m) == IF linked THEN Append(lsToWS, m) ELSE lsToWS

Done(a) == [conn EXCEPT ![a].request = "none"]

(* The rows a select finds by the address of their cookie; in which order  *)
(* the database returns them is not specified.                             *)
RowsAt(a, states) ==
  {u \in Users : users[u].state \in states /\ users[u].cookie # None
                 /\ users[u].cookie.addr = a}

(* cbClientVerifyLoginPassword: an account that is not Offline is refused, *)
(* and whoever uses it is to be disconnected.                              *)
OnlineMutant(u) == users[u].state = "Online"
NotOffline(u) == users[u].state # "Offline"

NewCookie(a) == [addr |-> a, key |-> conn[a].client, user |-> conn[a].user]

LSVerify(a) ==
  LET u == conn[a].user IN
  /\ lsUp /\ conn[a].request = "VLP"
  /\ conn' = Done(a)
  /\ IF NotOffline(u)
     THEN /\ lsToWS' = SendWS(KickMsg(u))
          /\ inbox' = SendClient(a, Answer(FALSE))
          /\ UNCHANGED users
     ELSE /\ users' = [users EXCEPT ![u].state = "Authorized",
                                    ![u].cookie = NewCookie(a)]
          /\ inbox' = SendClient(a, Answer(TRUE))
          /\ UNCHANGED lsToWS
  /\ UNCHANGED <<lsUp, shardSId, nbPlayers>>

(* cbClientChooseShard: the account is found again by the address of the   *)
(* socket in its cookie.  The message goes to the connection Shards names. *)
Waits(u) == [users EXCEPT ![u].state = "Waiting", ![u].onShard = TRUE]

LSChooseShard(a) ==
  /\ lsUp /\ conn[a].request = "CS"
  /\ conn' = Done(a)
  /\ LET rows == RowsAt(a, {"Authorized"}) IN
     \/ /\ rows = {} \/ shardSId = 0
        /\ inbox' = SendClient(a, NoTicketMsg)
        /\ UNCHANGED <<users, lsToWS>>
     \/ /\ shardSId # 0
        /\ \E u \in rows :
             /\ users' = Waits(u)
             /\ lsToWS' = IF shardSId = link THEN SendWS(ChooseMsg(users[u].cookie))
                          ELSE lsToWS
        /\ UNCHANGED inbox
  /\ UNCHANGED <<lsUp, shardSId, nbPlayers>>

(* cbClientDisconnection: the first row with the address, whatever its     *)
(* state, decides.                                                         *)
AnyStateMutant(u) == TRUE
NotOnlineMutant(u) == users[u].state # "Online"
Resettable(u) == users[u].state = "Authorized"

LSClientGone(a) ==
  /\ lsUp /\ conn[a].client # None /\ ~conn[a].open /\ conn[a].request = "none"
  /\ conn' = [conn EXCEPT ![a] = Free]
  /\ LET rows == RowsAt(a, States \ {"Offline"}) IN
     \/ rows = {} /\ UNCHANGED users
     \/ \E u \in rows :
          users' = IF Resettable(u) THEN [users EXCEPT ![u] = Offline] ELSE users
  /\ UNCHANGED <<lsUp, shardSId, nbPlayers, inbox, lsToWS>>

-----------------------------------------------------------------------------
(* Messages of the WS; the connection they came on tells its SId.          *)
LSReads(type) ==
  /\ lsUp /\ wsToLS # <<>> /\ Head(wsToLS).msg.type = type
  /\ wsToLS' = Tail(wsToLS)
Msg == Head(wsToLS).msg
IsListed == Head(wsToLS).link = shardSId     \* findShardWithSId(sid) is not -1

(* cbWSIdentification: the shard is in the database, at the right address. *)
(* A WS that is replaced is sent FAILED; its connection is dead already.   *)
LSIdentify ==
  /\ LSReads("WS_IDENT")
  /\ shardSId' = Head(wsToLS).link
  /\ UNCHANGED <<lsUp, users, nbPlayers, conn, inbox, lsToWS>>

(* cbWSShardChooseShard.                                                   *)
WithCookie(k) == {u \in Users : users[u].cookie = k}

LSShardChosen ==
  /\ LSReads("SCS")
  /\ LET m == Msg
         rows == WithCookie(m.cookie) IN
     IF m.ok
     THEN /\ inbox' = SendClient(m.cookie.addr,
                        IF Cardinality(rows) = 1 THEN TicketMsg(m.cookie, m.fes)
                        ELSE NoTicketMsg)
          /\ UNCHANGED users
     ELSE /\ users' = [u \in Users |-> IF u \in rows THEN Offline ELSE users[u]]
          /\ inbox' = SendClient(m.cookie.addr, NoTicketMsg)
  /\ UNCHANGED <<lsUp, shardSId, nbPlayers, conn, lsToWS>>

(* cbWSClientConnected.  When the WS that sends it is not in Shards the  *)
(* code reads Shards[-1], and the row gets the shard id it finds there.    *)
WaitingMutant(m) == users[m.user].state = "Waiting"
AuthorizedMutant(m) == users[m.user].state = IF m.con THEN "Authorized" ELSE "Online"
Expects(m) == users[m.user].state = IF m.con THEN "Waiting" ELSE "Online"
SetOnline(u, here) == [users EXCEPT ![u].state = "Online", ![u].onShard = here]
SetOffline(u) == [users EXCEPT ![u].state = "Offline", ![u].onShard = FALSE]

LSClientConnected ==
  /\ LSReads("CC")
  /\ LET m == Msg IN
     \/ ~Expects(m) /\ UNCHANGED <<users, nbPlayers>>
     \/ /\ Expects(m) /\ m.con
        /\ \E here \in IF IsListed THEN {TRUE} ELSE BOOLEAN : users' = SetOnline(m.user, here)
        /\ nbPlayers' = IF IsListed THEN nbPlayers + 1 ELSE nbPlayers
     \/ /\ Expects(m) /\ ~m.con
        /\ users' = SetOffline(m.user)
        /\ nbPlayers' = IF IsListed THEN nbPlayers - 1 ELSE nbPlayers
  /\ UNCHANGED <<lsUp, shardSId, conn, inbox, lsToWS>>

(* cbWSDisconnection: the users of the shard are put offline.              *)
LSLosesWS ==
  /\ LSReads("down")
  /\ IF IsListed
     THEN /\ shardSId' = 0 /\ nbPlayers' = 0
          /\ users' = [u \in Users |-> IF users[u].onShard
                         THEN [users[u] EXCEPT !.state = "Offline", !.onShard = FALSE]
                         ELSE users[u]]
     ELSE UNCHANGED <<shardSId, nbPlayers, users>>
  /\ UNCHANGED <<lsUp, conn, inbox, lsToWS>>

(* The LS dies with its connections; resetDatabase when it starts again.   *)
LSDies ==
  /\ lsUp /\ lsUp' = FALSE
  /\ shardSId' = 0 /\ nbPlayers' = 0
  /\ conn' = [a \in Addrs |-> Free]
  /\ inbox' = [c \in Clients |-> <<>>]
  /\ UNCHANGED users

LSStarts ==
  /\ ~lsUp /\ lsUp' = TRUE
  /\ users' = [u \in Users |-> IF NotOffline(u) THEN Offline ELSE users[u]]
  /\ UNCHANGED <<shardSId, nbPlayers, conn, inbox>>
=============================================================================
