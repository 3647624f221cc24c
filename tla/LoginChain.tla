----------------------------- MODULE LoginChain -----------------------------
(***************************************************************************)
(* The login chain: clients (nel/src/net/login_client.cpp), the login      *)
(* service, the welcome service of a shard and its front ends.  Each of    *)
(* these processes handles one message at a time.                          *)
(***************************************************************************)
EXTENDS LoginService, WelcomeService, LoginServer

VARIABLES
  client,    \* [Clients -> [stage, addr, ticket, fes]]: the client processes
  faults     \* history: the crashes so far, in their order

vars == <<lsVars, wsVars, fesVars, netVars, client, faults>>

(* Stages of a client: authenticateBegin, authenticateUpdate until VLP is  *)
(* answered, confirmConnection until SCS is answered, then the front end.  *)
Stages == {"idle", "verifying", "authorized", "choosing", "ticketed", "playing", "gone"}
NewClient == [stage |-> "idle", addr |-> None, ticket |-> None, fes |-> None]
Gone == [NewClient EXCEPT !.stage = "gone"]

Init ==
  /\ LSInit /\ WSInit /\ FESInit /\ NetInit
  /\ client = [c \in Clients |-> NewClient]
  /\ faults = <<>>

-----------------------------------------------------------------------------
(* The client's end of its socket is closed; what it sent is still read.   *)
Closed(a) == [conn EXCEPT ![a].open = FALSE]
Becomes(c, r) == client' = [client EXCEPT ![c] = r]
ClientReads(c, type) ==
  Reads(inbox[c], type) /\ inbox' = [inbox EXCEPT ![c] = Tail(@)]

(* authenticateBegin: connect and send VLP.                                *)
Connect(c, u, a) ==
  /\ lsUp /\ client[c].stage = "idle" /\ conn[a] = Free
  /\ conn' = [conn EXCEPT ![a] = Connected(c, u)]
  /\ Becomes(c, [NewClient EXCEPT !.stage = "verifying", !.addr = a])
  /\ UNCHANGED <<lsUp, users, shardSId, nbPlayers, inbox, wsVars, fesVars, netVars, faults>>

(* authenticateUpdate; a refused client disconnects.                       *)
Authenticated(c) ==
  /\ client[c].stage = "verifying" /\ ClientReads(c, "VLP")
  /\ IF Head(inbox[c]).ok
     THEN /\ Becomes(c, [client[c] EXCEPT !.stage = "authorized"])
          /\ UNCHANGED conn
     ELSE /\ Becomes(c, Gone)
          /\ conn' = Closed(client[c].addr)
  /\ UNCHANGED <<lsUp, users, shardSId, nbPlayers, wsVars, fesVars, netVars, faults>>

(* An SCS that comes before CS is sent is overwritten by the reset of the  *)
(* flag, if it is read that early.                                         *)
Ignores(c) ==
  /\ client[c].stage = "verifying" /\ ClientReads(c, "SCS")
  /\ UNCHANGED <<lsUp, users, shardSId, nbPlayers, conn, client, wsVars, fesVars, netVars, faults>>

(* confirmConnection: CS, for the shard the player wants.                  *)
Choose(c) ==
  /\ client[c].stage = "authorized"
  /\ conn' = [conn EXCEPT ![client[c].addr].request = "CS"]
  /\ Becomes(c, [client[c] EXCEPT !.stage = "choosing"])
  /\ UNCHANGED <<lsUp, users, shardSId, nbPlayers, inbox, wsVars, fesVars, netVars, faults>>

(* The first SCS ends confirmConnection, and the client leaves the LS.     *)
Confirmed(c) ==
  /\ client[c].stage = "choosing" /\ ClientReads(c, "SCS")
  /\ LET m == Head(inbox[c]) IN
     Becomes(c, IF m.ok THEN [NewClient EXCEPT !.stage = "ticketed",
                                !.ticket = m.cookie, !.fes = m.fes]
                ELSE Gone)
  /\ conn' = Closed(client[c].addr)
  /\ UNCHANGED <<lsUp, users, shardSId, nbPlayers, wsVars, fesVars, netVars, faults>>

(* The player gives up, or the client crashes, before it plays.            *)
Quit(c) ==
  /\ client[c].stage \in {"verifying", "authorized", "choosing", "ticketed"}
  /\ conn' = IF client[c].stage = "ticketed" THEN conn ELSE Closed(client[c].addr)
  /\ inbox' = [inbox EXCEPT ![c] = <<>>]
  /\ Becomes(c, Gone)
  /\ UNCHANGED <<lsUp, users, shardSId, nbPlayers, wsVars, fesVars, netVars, faults>>

(* The front end answers the LOGIN packets of a client: it plays, or it is *)
(* rejected (also when the cookie was valid and it was not added).         *)
Enter(c) ==
  LET f == client[c].fes
      k == client[c].ticket IN
  /\ client[c].stage = "ticketed"
  /\ FESLogin(f, c, k)
  /\ Becomes(c, IF acceptUserIdConnection(f, k.user)
                THEN [client[c] EXCEPT !.stage = "playing"] ELSE Gone)
  /\ UNCHANGED <<lsVars, wsVars, link, linked, broken, lsToWS, wsToLS, faults>>

Rejected(c) ==
  LET f == client[c].fes IN
  /\ client[c].stage = "ticketed" /\ phase[f] = "up" /\ ~Valid(f, client[c].ticket)
  /\ Becomes(c, Gone)
  /\ UNCHANGED <<lsVars, wsVars, fesVars, netVars, faults>>

(* A client of a front end disconnects, is removed because it is silent,   *)
(* or because it is on the remove list.                                    *)
Leave(f, p) ==
  /\ FESRemoves(f, p)
  /\ Becomes(p[1], Gone)
  /\ UNCHANGED <<lsVars, wsVars, link, linked, broken, lsToWS, wsToLS, faults>>

-----------------------------------------------------------------------------
(* The steps of each process, with what they leave alone.                  *)
LSClient(a) ==
  /\ LSVerify(a) \/ LSChooseShard(a) \/ LSClientGone(a)
  /\ UNCHANGED <<wsVars, fesVars, link, linked, broken, wsToLS, sees, wsToFES, fesToWS, client, faults>>

LSShard ==
  /\ LSIdentify \/ LSShardChosen \/ LSClientConnected \/ LSLosesWS
  /\ UNCHANGED <<wsVars, fesVars, link, linked, broken, sees, wsToFES, fesToWS, client, faults>>

WSLogin ==
  /\ WSChooseShard \/ WSDisconnectClient
  /\ UNCHANGED <<lsVars, fesVars, link, linked, broken, sees, client, faults>>

WSFrontEnd(f) ==
  /\ \/ WSFrontEndUp(f) \/ WSCounts(f) \/ WSShardChosen(f)
     \/ WSClientConnected(f) \/ WSCookieRemoved(f) \/ WSFrontEndDown(f)
  /\ UNCHANGED <<lsVars, fesVars, link, linked, broken, sees, client, faults>>

(* The LS learns that a connection is dead, perhaps after the WS has come  *)
(* back on another one.                                                    *)
Notice(l) ==
  /\ lsUp
  /\ broken' = broken \ {l} /\ wsToLS' = Append(wsToLS, From(l, DownMsg))
  /\ UNCHANGED <<lsVars, wsVars, fesVars, link, linked, lsToWS, sees, wsToFES, fesToWS, client, faults>>

WSConnect == WSConnectsLS /\ lsUp /\ UNCHANGED <<lsVars, fesVars, client, faults>>
WSRestart == WSStarts /\ UNCHANGED <<lsVars, fesVars, client, faults>>

FESLaunch(f) ==
  /\ FESStart(f)
  /\ UNCHANGED <<lsVars, wsVars, link, linked, broken, lsToWS, wsToLS, client, faults>>

FESConnect(f) ==
  /\ FESMeetsWS(f) /\ wsUp
  /\ UNCHANGED <<lsVars, wsVars, link, linked, broken, lsToWS, wsToLS, client, faults>>

FESMessage(f) ==
  /\ FESAccepts(f) \/ FESChooseShard(f) \/ FESDisconnectClient(f)
  /\ UNCHANGED <<lsVars, wsVars, link, linked, broken, lsToWS, wsToLS, client, faults>>

Erase(f) ==
  /\ FESErasesCookie(f)
  /\ UNCHANGED <<lsVars, wsVars, link, linked, broken, lsToWS, wsToLS, client, faults>>

-----------------------------------------------------------------------------
(* Crashes.  A client that loses its process gives up.                     *)
Fault(who) == who \in MayCrash /\ Len(faults) < MaxFaults /\ faults' = Append(faults, who)
Lost(Without(_)) ==
  client' = [c \in Clients |-> IF Without(c) THEN Gone ELSE client[c]]

WSCrash == Fault("WS") /\ WSDies /\ UNCHANGED <<lsVars, fesVars, client>>

FESCrash(f) ==
  /\ Fault("FES") /\ FESDies(f)
  /\ Lost(LAMBDA c : client[c].stage = "playing" /\ client[c].fes = f)
  /\ UNCHANGED <<lsVars, wsVars, link, linked, broken, lsToWS, wsToLS>>

(* With the LS its connections go, in both directions.                     *)
LSCrash ==
  /\ Fault("LS") /\ LSDies
  /\ linked' = FALSE /\ lsToWS' = <<>>
  /\ wsToLS' = <<>> /\ broken' = {}
  /\ Lost(LAMBDA c : client[c].stage \in {"verifying", "authorized", "choosing"})
  /\ UNCHANGED <<wsVars, fesVars, link, sees, wsToFES, fesToWS>>

LSRestart == LSStarts /\ UNCHANGED <<wsVars, fesVars, netVars, client, faults>>

Next ==
  \/ \E c \in Clients :
       \/ \E u \in Users, a \in Addrs : Connect(c, u, a)
       \/ Authenticated(c) \/ Ignores(c) \/ Choose(c) \/ Confirmed(c)
       \/ Quit(c) \/ Enter(c) \/ Rejected(c)
  \/ \E a \in Addrs : LSClient(a)
  \/ LSShard \/ \E l \in broken : Notice(l)
  \/ WSLogin \/ WSConnect \/ WSCrash \/ WSRestart
  \/ \E f \in FESs :
       \/ WSFrontEnd(f) \/ FESLaunch(f) \/ FESConnect(f) \/ FESMessage(f)
       \/ Erase(f) \/ FESCrash(f)
       \/ \E p \in playing[f] : Leave(f, p)
  \/ LSCrash \/ LSRestart

Spec == Init /\ [][Next]_vars

(* Every process handles the messages it has received, the services that   *)
(* run find each other, a client reads its answers and uses its ticket,    *)
(* and a client on the remove list is removed.  Nobody has to log in, to   *)
(* choose, to quit or to crash, and no cookie has to grow old.             *)
Fairness ==
  /\ \A a \in Addrs : WF_vars(LSClient(a))
  /\ WF_vars(LSShard) /\ WF_vars(\E l \in broken : Notice(l))
  /\ WF_vars(WSLogin) /\ WF_vars(WSConnect) /\ WF_vars(WSRestart) /\ WF_vars(LSRestart)
  /\ \A f \in FESs :
       /\ WF_vars(WSFrontEnd(f)) /\ WF_vars(FESConnect(f)) /\ WF_vars(FESMessage(f))
       /\ WF_vars(\E p \in removing[f] : Leave(f, p))
  /\ \A c \in Clients : WF_vars(Authenticated(c) \/ Ignores(c) \/ Confirmed(c))

FairSpec == Spec /\ Fairness

-----------------------------------------------------------------------------
Null(S) == S \cup {None}

TypeOK ==
  /\ lsUp \in BOOLEAN /\ wsUp \in BOOLEAN /\ linked \in BOOLEAN
  /\ link \in 0 .. MaxFaults + 1 /\ shardSId \in 0 .. MaxFaults + 1
  /\ users \in [Users -> [state : States, cookie : Null(Cookies), onShard : BOOLEAN]]
  /\ nbPlayers \in Int
  /\ conn \in [Addrs -> [client : Null(Clients), user : Null(Users),
                         request : {"none", "VLP", "CS"}, open : BOOLEAN]]
  /\ assoc \in [Users -> Null(FESs)]
  /\ phase \in [FESs -> {"off", "up", "dead"}] /\ accepts \in [FESs -> BOOLEAN]
  /\ pending \in [FESs -> SUBSET Cookies] /\ sees \in [FESs -> BOOLEAN]
  /\ playing \in [FESs -> SUBSET (Clients \X Users)]
  /\ \A f \in FESs : removing[f] \subseteq playing[f]
  /\ client \in [Clients -> [stage : Stages, addr : Null(Addrs),
                             ticket : Null(Cookies), fes : Null(FESs)]]
  /\ faults \in Seq(MayCrash) /\ Len(faults) <= MaxFaults

Sessions(u) == UNION {SessionsOf(f, u) : f \in FESs}

(* Safety: "2 players are trying to play with the same id, disconnect all" *)
(* (connection_client.cpp:139): an account plays in one client at a time.  *)
OneSession == \A u \in Users : Cardinality(Sessions(u)) <= 1

(* Safety: the counter the LS keeps for the shard is the number of its     *)
(* accounts that are Online.                                               *)
PlayersAreCounted ==
  shardSId # 0 => nbPlayers = Cardinality({u \in Users : users[u].state = "Online"})

(* Nothing is in flight between the services.                              *)
Quiet ==
  /\ wsUp /\ lsUp /\ linked /\ lsToWS = <<>>
  /\ wsToLS = <<>> /\ broken = {}
  /\ \A f \in FESs : wsToFES[f] = <<>> /\ fesToWS[f] = <<>> /\ (phase[f] = "up" => sees[f])

(* Safety: when nothing is in flight, the WS knows for each front end how  *)
(* many cookies it holds.                                                  *)
PendingAgree ==
  Quiet => \A i \in DOMAIN FESList :
    FESList[i].NbPendingUsers = Cardinality(pending[FESList[i].SId])

(* Safety: after a restart of the LS the WS may count an arrival that      *)
(* addClient turned away, but it never misses a player.                    *)
NobodyIsUncounted ==
  Quiet => \A i \in DOMAIN FESList :
    FESList[i].NbUser >= Cardinality(playing[FESList[i].SId])

(* Safety: after a restart the WS does not know all players, but what it   *)
(* knows is right.                                                         *)
AssociatedPlay ==
  Quiet => \A u \in Users : Known(u) => SessionsOf(assoc[u], u) # {}

(* Safety: when nothing is in flight, the accounts the LS has Online are   *)
(* those that play.                                                        *)
OnlineArePlaying ==
  Quiet => \A u \in Users : users[u].state = "Online" <=> Sessions(u) # {}

(* Safety: a cookie that a front end accepts belongs to an account that    *)
(* waits with this very cookie.                                            *)
CookiesAreAwaited ==
  \A f \in FESs : \A k \in pending[f] :
    users[k.user].state = "Waiting" /\ users[k.user].cookie = k

(* Safety: an account the LS has Online still plays when nothing is in     *)
(* flight, although a new LS knows neither the cookies nor the players of  *)
(* the old one, a front end reports arrivals that addClient turns away,    *)
(* and one that dies takes its last reports with it.  A WS that dies takes *)
(* departures with it: after that, an account may stay Online for ever.    *)
OnlineStillPlay ==
  Quiet /\ "WS" \notin ToSet(faults) =>
    \A u \in Users : users[u].state = "Online" => Sessions(u) # {}

(* Safety: "You are already connected." (connection_client.cpp:148).  When *)
(* nothing is in flight, an account that is refused for this plays, has a  *)
(* cookie on a front end, or is logging in.                                *)
InUse(u) ==
  \/ Sessions(u) # {}
  \/ \E f \in FESs : \E k \in pending[f] : k.user = u
  \/ \E c \in Clients : client[c].stage = "ticketed" /\ client[c].ticket.user = u
  \/ \E a \in Addrs : conn[a].user = u /\ users[u].cookie.key = conn[a].client
RefusedAreInUse ==
  Quiet => \A a \in Addrs :
    conn[a].request = "VLP" /\ NotOffline(conn[a].user) => InUse(conn[a].user)

(* Safety: "_UserAddr is the ipv4 address of the client" (login_cookie.h): *)
(* the address in a cookie leads to the client it was made for, so that a  *)
(* client only gets its own.                                               *)
TicketsAreOwn ==
  \A c \in Clients : client[c].ticket # None => client[c].ticket.key = c

(* Liveness: confirmConnection returns; "LS disconnects me" and a front    *)
(* end that dies with the request are the exceptions.                      *)
ChoicesAreAnswered ==
  \A c \in Clients :
    (client[c].stage = "choosing") ~> (client[c].stage # "choosing" \/ faults # <<>>)

(* Liveness: once the LS asked to disconnect an account and the WS knows   *)
(* where it plays, its client leaves.                                      *)
KickedPlayersLeave ==
  \A u \in Users, f \in FESs :
    (lsToWS # <<>> /\ Head(lsToWS) = KickMsg(u) /\ assoc[u] = f)
      ~> (SessionsOf(f, u) = {})

(* Liveness: an account that plays becomes Online, and one that left may   *)
(* log in again.                                                           *)
ArrivalsAreOnline ==
  \A u \in Users :
    (Sessions(u) # {}) ~> (users[u].state = "Online" \/ Sessions(u) = {})
LeaversAreForgotten ==
  \A u \in Users :
    (users[u].state = "Online" /\ Sessions(u) = {}) ~> (users[u].state # "Online")
=============================================================================
