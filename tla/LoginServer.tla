---------------------------- MODULE LoginServer ----------------------------
(***************************************************************************)
(* The login side of the front ends: CLoginServer (nel/src/net/            *)
(* login_server.cpp), which holds the cookies of awaited players, and the  *)
(* client map of the front end (ryzom/server/src/frontend_service).  The   *)
(* front end listens on UDP; AcceptInvalidCookie is off.                   *)
(***************************************************************************)
EXTENDS LoginNet

CONSTANT OldCookies   \* TimeBeforeEraseCookie may elapse before a player comes

VARIABLES
  phase,      \* [FESs -> {"off", "up", "dead"}]
  accepts,    \* [FESs -> BOOLEAN]: AcceptClients
  pending,    \* [FESs -> SUBSET Cookies]: PendingUsers
  playing,    \* [FESs -> SUBSET (Clients \X Users)]: _ClientMap, client and its Uid
  removing    \* [FESs -> SUBSET (Clients \X Users)]: _ClientsToRemove

fesVars == <<phase, accepts, pending, playing, removing>>

FESInit ==
  /\ phase = [f \in FESs |-> "off"]
  /\ accepts = [f \in FESs |-> FALSE]
  /\ pending = [f \in FESs |-> {}]
  /\ playing = [f \in FESs |-> {}]
  /\ removing = [f \in FESs |-> {}]

SessionsOf(f, u) == {p \in playing[f] : p[2] = u}

-----------------------------------------------------------------------------
(* CUnifiedNetwork::send("WS", ...) of a front end.                        *)
Tell(f, m) == IF sees[f] THEN [fesToWS EXCEPT ![f] = Append(@, m)] ELSE fesToWS

FESStart(f) ==
  /\ phase[f] = "off" /\ phase' = [phase EXCEPT ![f] = "up"]
  /\ UNCHANGED <<accepts, pending, playing, removing, sees, wsToFES, fesToWS>>

(* The front end and the WS find each other; cbServiceUp of the front end  *)
(* reports its players and the cookies it holds.                           *)
NoPendingMutant(f) == CountsMsg(Cardinality(playing[f]), 0)
NoUsersMutant(f) == CountsMsg(0, Cardinality(pending[f]))
Report(f) == CountsMsg(Cardinality(playing[f]), Cardinality(pending[f]))

FESMeetsWS(f) ==
  /\ phase[f] = "up" /\ ~sees[f]
  /\ sees' = [sees EXCEPT ![f] = TRUE]
  /\ fesToWS' = [fesToWS EXCEPT ![f] = <<UpMsg, Report(f)>>]
  /\ UNCHANGED <<fesVars, wsToFES>>

FESReads(f, type) == phase[f] = "up" /\ Reads(wsToFES[f], type)
FESPops(f) == wsToFES' = [wsToFES EXCEPT ![f] = Tail(@)]

FESAccepts(f) ==
  /\ FESReads(f, "FS_ACCEPT") /\ FESPops(f)
  /\ accepts' = [accepts EXCEPT ![f] = TRUE]
  /\ UNCHANGED <<phase, pending, playing, removing, sees, fesToWS>>

(* cbWSChooseShard: an older cookie of the user is replaced.  A cookie     *)
(* that is there already is erased and inserted again.                     *)
Inserted(f, k) == {j \in pending[f] : j.user # k.user} \cup {k}

FESChooseShard(f) ==
  /\ FESReads(f, "CS") /\ FESPops(f)
  /\ LET k == Head(wsToFES[f]).cookie IN
     /\ pending' = [pending EXCEPT ![f] = Inserted(f, k)]
     /\ fesToWS' = Tell(f, ChosenMsg(k, f, Cardinality(Inserted(f, k))))
  /\ UNCHANGED <<phase, accepts, playing, removing, sees>>

(* cbDisconnectClient: the client is put on the list of those to remove.   *)
IgnoredMutant(f, u) == removing
Listed(f, u) == [removing EXCEPT ![f] = @ \cup SessionsOf(f, u)]

FESDisconnectClient(f) ==
  /\ FESReads(f, "DC") /\ FESPops(f)
  /\ removing' = Listed(f, Head(wsToFES[f]).user)
  /\ UNCHANGED <<phase, accepts, pending, playing, sees, fesToWS>>

(* refreshPendingList erases an old cookie.                                *)
FESErasesCookie(f) ==
  /\ OldCookies /\ phase[f] = "up"
  /\ \E k \in pending[f] :
       /\ pending' = [pending EXCEPT ![f] = @ \ {k}]
       /\ fesToWS' = Tell(f, RemovedMsg(k))
  /\ UNCHANGED <<phase, accepts, playing, removing, sees, wsToFES>>

(* isValidCookie, then addClient: the cookie is used up and the WS told,   *)
(* before the front end looks whether the user is there already; then the  *)
(* one who is there is removed and the new client is not added.            *)
Valid(f, k) == accepts[f] /\ k \in pending[f]

acceptUserIdConnection(f, u) == SessionsOf(f, u) = {}

FESLogin(f, c, k) ==
  /\ phase[f] = "up" /\ Valid(f, k)
  /\ pending' = [pending EXCEPT ![f] = @ \ {k}]
  /\ fesToWS' = Tell(f, ClientMsg(k.user, TRUE))
  /\ IF acceptUserIdConnection(f, k.user)
     THEN /\ playing' = [playing EXCEPT ![f] = @ \cup {<<c, k.user>>}]
          /\ UNCHANGED removing
     ELSE /\ removing' = Listed(f, k.user)
          /\ UNCHANGED playing
  /\ UNCHANGED <<phase, accepts, sees, wsToFES>>

(* doRemoveClient, with removeFromRemoveList and                           *)
(* CLoginServer::clientDisconnected.                                       *)
StillListedMutant(f, p) == removing
Unlisted(f, p) == [removing EXCEPT ![f] = @ \ {p}]

FESRemoves(f, p) ==
  /\ phase[f] = "up" /\ p \in playing[f]
  /\ playing' = [playing EXCEPT ![f] = @ \ {p}]
  /\ removing' = Unlisted(f, p)
  /\ fesToWS' = Tell(f, ClientMsg(p[2], FALSE))
  /\ UNCHANGED <<phase, accepts, pending, sees, wsToFES>>

FESDies(f) ==
  /\ phase[f] = "up" /\ phase' = [phase EXCEPT ![f] = "dead"]
  /\ pending' = [pending EXCEPT ![f] = {}]
  /\ playing' = [playing EXCEPT ![f] = {}]
  /\ removing' = [removing EXCEPT ![f] = {}]
  /\ sees' = [sees EXCEPT ![f] = FALSE]
  /\ wsToFES' = [wsToFES EXCEPT ![f] = <<>>]
  /\ IF sees[f] THEN \E q \in Cut(fesToWS[f]) :
                       fesToWS' = [fesToWS EXCEPT ![f] = Append(q, DownMsg)]
     ELSE UNCHANGED fesToWS
  /\ UNCHANGED accepts
=============================================================================
