--------------------------- MODULE WelcomeService ---------------------------
(***************************************************************************)
(* The welcome service of a shard (nelns/welcome_service/                  *)
(* welcome_service.cpp): it chooses a front end for each player the LS     *)
(* sends, opens front ends that still distribute patches, counts pending   *)
(* and connected players and knows on which front end each player is.      *)
(*                                                                         *)
(* The shard is open for all players and none is privileged; the module    *)
(* interface (welcome_service_mod), which only watches, is left out.       *)
(***************************************************************************)
EXTENDS LoginNet, Integers, FiniteSetsExt, SequencesExt

CONSTANTS
  OpenFrontEndThreshold,  \* players of the best front end before another is opened
  PlayerLimit,            \* limit of connected players, -1 = none
  UsePatchMode            \* a new front end first distributes patches

VARIABLES
  wsUp,       \* the WS process runs
  FESList,    \* Seq of CFES records, in the order they connected
  assoc       \* UserIdSockAssociations: [Users -> FESs or None]

wsVars == <<wsUp, FESList, assoc>>

CFES(f) == [SId |-> f, NbPendingUsers |-> 0, NbUser |-> 0, accepts |-> FALSE]

WSInit ==
  /\ wsUp = TRUE /\ FESList = <<>>
  /\ assoc = [u \in Users |-> None]

-----------------------------------------------------------------------------
Heuristic(e) == e.NbUser + e.NbPendingUsers

Accepting(list) == {i \in DOMAIN list : list[i].accepts}
Patching(list) == DOMAIN list \ Accepting(list)

(* findBestFES: the first of those with the fewest users; its total counts *)
(* the connected users, not the pending ones.                              *)
BestFES(list) ==
  CHOOSE i \in Accepting(list) : \A j \in Accepting(list) :
    \/ Heuristic(list[i]) < Heuristic(list[j])
    \/ Heuristic(list[i]) = Heuristic(list[j]) /\ i <= j
TotalUsers(list) == MapThenSumSet(LAMBDA i : list[i].NbUser, Accepting(list))

(* lsChooseShard opens a front end when there is none, or all are loaded.  *)
NeedsAnother(list) ==
  \/ Accepting(list) = {}
  \/ Heuristic(list[BestFES(list)]) >= OpenFrontEndThreshold
Opens == IF NeedsAnother(FESList) /\ Patching(FESList) # {}
         THEN {Min(Patching(FESList))} ELSE {}
Opened == [i \in DOMAIN FESList |->
             IF i \in Opens THEN [FESList[i] EXCEPT !.accepts = TRUE] ELSE FESList[i]]

Full(list) == PlayerLimit # -1 /\ TotalUsers(list) >= PlayerLimit

(* CFES::setToAcceptClients, as a message.                                 *)
Sent(f, ms) == [wsToFES EXCEPT ![f] = @ \o ms]
OpenMsgs == IF Opens = {} THEN wsToFES
            ELSE Sent(FESList[CHOOSE i \in Opens : TRUE].SId, <<AcceptMsg>>)

(* cbLSChooseShard, with lsChooseShard.                                    *)
SilentMutant(k) == wsToLS
Refuse(k) == SendLS(RefusedMsg(k))

WSChooseShard ==
  /\ wsUp /\ Reads(lsToWS, "CS") /\ lsToWS' = Tail(lsToWS)
  /\ LET k == Head(lsToWS).cookie
         list == Opened IN
     IF Accepting(list) = {} \/ Full(list)
     THEN /\ wsToLS' = Refuse(k)
          /\ FESList' = list /\ wsToFES' = OpenMsgs
     ELSE LET b == BestFES(list)
              f == list[b].SId IN
          /\ wsToFES' = [OpenMsgs EXCEPT ![f] = Append(@, ChooseMsg(k))]
          /\ FESList' = [list EXCEPT ![b].NbPendingUsers = @ + 1]
          /\ UNCHANGED wsToLS
  /\ UNCHANGED <<wsUp, assoc, fesToWS>>

(* cbLSDisconnectClient: ignored unless the user is known to be connected. *)
Known(u) == assoc[u] # None

WSDisconnectClient ==
  /\ wsUp /\ Reads(lsToWS, "DC") /\ lsToWS' = Tail(lsToWS)
  /\ LET u == Head(lsToWS).user IN
     wsToFES' = IF Known(u) THEN Sent(assoc[u], <<KickMsg(u)>>) ELSE wsToFES
  /\ UNCHANGED <<wsUp, FESList, assoc, wsToLS, fesToWS>>

-----------------------------------------------------------------------------
(* Messages of a front end.                                                *)
WSReads(f, type) == wsUp /\ Reads(fesToWS[f], type)
WSPops(f) == fesToWS' = [fesToWS EXCEPT ![f] = Tail(@)]

Less(n) == IF n > 0 THEN n - 1 ELSE n

(* FESList with the entry of f replaced by New of it.                      *)
Updated(f, New(_)) ==
  [i \in DOMAIN FESList |-> IF FESList[i].SId = f THEN New(FESList[i]) ELSE FESList[i]]

(* cbFESConnection.                                                        *)
WSFrontEndUp(f) ==
  /\ WSReads(f, "up") /\ WSPops(f)
  /\ FESList' = Append(FESList, [CFES(f) EXCEPT !.accepts = ~UsePatchMode])
  /\ wsToFES' = IF UsePatchMode THEN wsToFES ELSE Sent(f, <<AcceptMsg>>)
  /\ UNCHANGED <<wsUp, assoc, wsToLS, lsToWS>>

(* cbFESNbPlayers2: a front end that was there before the WS.              *)
WSCounts(f) ==
  /\ WSReads(f, "NBPLAYERS2") /\ WSPops(f)
  /\ LET m == Head(fesToWS[f]) IN
     /\ FESList' = Updated(f, LAMBDA e : [e EXCEPT !.NbUser = m.users,
                                            !.NbPendingUsers = m.pending,
                                            !.accepts = @ \/ m.users # 0])
     /\ wsToFES' = IF m.users # 0 /\ \E i \in Patching(FESList) : FESList[i].SId = f
                   THEN Sent(f, <<AcceptMsg>>) ELSE wsToFES
  /\ UNCHANGED <<wsUp, assoc, wsToLS, lsToWS>>

(* cbFESShardChooseShard: the front end's own count replaces the WS's.     *)
Pending(e, n) == [e EXCEPT !.NbPendingUsers = n]

WSShardChosen(f) ==
  /\ WSReads(f, "SCS") /\ WSPops(f)
  /\ LET m == Head(fesToWS[f]) IN
     /\ FESList' = Updated(f, LAMBDA e : Pending(e, m.nb))
     /\ wsToLS' = SendLS(m)
  /\ UNCHANGED <<wsUp, assoc, lsToWS, wsToFES>>

(* cbFESClientConnected: passed to the LS; map::insert keeps an old entry. *)
Arrives(e) == [e EXCEPT !.NbUser = @ + 1, !.NbPendingUsers = Less(@)]
Leaves(e) == [e EXCEPT !.NbUser = Less(@)]
Associated(u, f) == [assoc EXCEPT ![u] = IF @ = None THEN f ELSE @]
KeptMutant(u) == assoc
Dissociated(u) == [assoc EXCEPT ![u] = None]

WSClientConnected(f) ==
  /\ WSReads(f, "CC") /\ WSPops(f)
  /\ LET m == Head(fesToWS[f]) IN
     /\ wsToLS' = SendLS(m)
     /\ FESList' = Updated(f, LAMBDA e : IF m.con THEN Arrives(e) ELSE Leaves(e))
     /\ assoc' = IF m.con THEN Associated(m.user, f) ELSE Dissociated(m.user)
  /\ UNCHANGED <<wsUp, lsToWS, wsToFES>>

(* cbFESRemovedPendingCookie.                                              *)
WSCookieRemoved(f) ==
  /\ WSReads(f, "RPC") /\ WSPops(f)
  /\ FESList' = Updated(f, LAMBDA e : Pending(e, Less(e.NbPendingUsers)))
  /\ UNCHANGED <<wsUp, assoc, lsToWS, wsToLS, wsToFES>>

(* cbFESDisconnection: its players are reported to the LS as gone, in the  *)
(* order of the map, which is any order of the accounts here, and the      *)
(* first entry with its SId is erased.                                     *)
PlayersOf(f) == {u \in Users : assoc[u] = f}
NoFarewellsMutant(us) == {<<>>}
Farewells(us) == SetToSeqs({ClientMsg(u, FALSE) : u \in us})

WSFrontEndDown(f) ==
  /\ WSReads(f, "down") /\ WSPops(f)
  /\ FESList' = RemoveFirstMatch(FESList, LAMBDA e : e.SId = f)
  /\ assoc' = [u \in Users |-> IF assoc[u] = f THEN None ELSE assoc[u]]
  /\ \/ ~linked /\ UNCHANGED wsToLS
     \/ linked /\ \E ms \in Farewells(PlayersOf(f)) :
                    wsToLS' = wsToLS \o [i \in DOMAIN ms |-> From(link, ms[i])]
  /\ UNCHANGED <<wsUp, lsToWS, wsToFES>>

(* cbLSConnection: the WS, started or reconnected, identifies its shard.   *)
WSConnectsLS ==
  /\ wsUp /\ ~linked /\ link < MaxFaults + 1
  /\ link' = link + 1 /\ linked' = TRUE
  /\ wsToLS' = Append(wsToLS, From(link + 1, IdentMsg))
  /\ lsToWS' = <<>>
  /\ UNCHANGED <<wsVars, broken, sees, wsToFES, fesToWS>>

(* The WS process dies: what it sent may be cut short, what was sent to it *)
(* is lost.  A new process knows nothing.                                  *)
CutLink ==
  {q \in Cut(wsToLS) : \A i \in Len(q) + 1 .. Len(wsToLS) : wsToLS[i].link = link}

WSDies ==
  /\ wsUp /\ wsUp' = FALSE
  /\ FESList' = <<>> /\ assoc' = [u \in Users |-> None]
  /\ linked' = FALSE /\ lsToWS' = <<>>
  /\ \/ linked /\ wsToLS' \in CutLink /\ broken' = broken \cup {link}
     \/ ~linked /\ UNCHANGED <<wsToLS, broken>>
  /\ sees' = [f \in FESs |-> FALSE]
  /\ fesToWS' = [f \in FESs |-> <<>>]
  /\ UNCHANGED <<link, wsToFES>>

WSStarts == ~wsUp /\ wsUp' = TRUE /\ UNCHANGED <<FESList, assoc, netVars>>
=============================================================================
