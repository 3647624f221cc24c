---------------------------- MODULE NamingService ----------------------------
(***************************************************************************)
(* The naming service: nelns/naming_service/naming_service.cpp.            *)
(*                                                                         *)
(* One action per entry of the callback array (RG, RRG, ACK_UNI), one for  *)
(* the disconnection callback, one for checkWaitingUnregistrationServices  *)
(* as update() calls it and one for the console command kill.  The port    *)
(* allocation (QP) touches none of this state: see PortAllocator.  The     *)
(* wall clock appears as the field late of an entry that waits: 10 s have  *)
(* passed since doRemove stamped it.                                       *)
(***************************************************************************)
EXTENDS NamingNet

CONSTANTS
  ShardUnique,     \* names of the config variable UniqueOnShardServices
  MachineUnique    \* names of the config variable UniqueByMachineServices

VARIABLES
  nsUp,         \* the NS process runs
  registered,   \* RegisteredServices, a list: a set ordered by pos
  online,       \* _OnlineServices of the service instance manager
  appId,        \* [Services -> SIds \cup {NoSId}]: from->appId() of the socket
  nextPos       \* stamp of the next push_back

nsVars == <<nsUp, registered, online, appId, nextPos>>

NoAcks == [i \in SIds |-> 0]

(* WaitingUnregistrationServices is a list in which only the number of     *)
(* occurrences of each SId matters: acks counts them.  SockId is svc, or   *)
(* NULL once the entry waits.                                              *)
CServiceEntry ==
  [pos : Nat, sid : SIds, svc : Services, waiting : BOOLEAN, late : BOOLEAN,
   acks : [SIds -> Nat]]

NSTypeOK ==
  /\ nsUp \in BOOLEAN
  /\ registered \in SUBSET CServiceEntry
  /\ online \in SUBSET SIds
  /\ appId \in [Services -> SIds \cup {NoSId}]
  /\ nextPos \in Nat

NSInit ==
  /\ nsUp = TRUE
  /\ registered = {}
  /\ online = {}
  /\ appId = [s \in Services |-> NoSId]
  /\ nextPos = 0

-----------------------------------------------------------------------------
(* canAccess: addresses are compared by subnet.  (Definitions whose name   *)
(* ends in Mutant are wrong on purpose; the properties must notice them.)  *)
SameNet(s, t) == NetsOf[s] \cap NetsOf[t] # {}

AlsoWaitingMutant(s, e) == SameNet(s, e.svc)
canAccess(s, e) == ~e.waiting /\ SameNet(s, e.svc)

(* The first entry with an SId: getServiceName, getHostAddress and the     *)
(* search loop of doUnregisterService all stop there.                      *)
IsFirst(e, i) ==
  /\ e.sid = i
  /\ \A f \in registered : f.sid = i => e.pos <= f.pos

(* queryStartService: a restricted name that the manager knows as online   *)
(* on the shard, or on the machine, is denied.                             *)
ByMachineMutant(s) ==
  \A i \in online : \A e \in registered :
    IsFirst(e, i) /\ NameOf[e.svc] = NameOf[s]
      => (NameOf[s] \in MachineUnique => MachineOf[e.svc] # MachineOf[s])
MayStart(s) ==
  \A i \in online : \A e \in registered :
    IsFirst(e, i) /\ NameOf[e.svc] = NameOf[s]
      => /\ NameOf[s] \notin ShardUnique
         /\ NameOf[s] \in MachineUnique => MachineOf[e.svc] # MachineOf[s]

NoneUsedMutant == {}
LiveOnlyMutant == {e.sid : e \in {f \in registered : ~f.waiting}}
UsedSIds == {e.sid : e \in registered}

(* The SId doRegister settles on: the least free one from BaseSId on, or   *)
(* the requested one, whether or not it is in use.                         *)
IfFreeMutant(requested, i) ==
  /\ i \notin UsedSIds
  /\ \/ i = requested
     \/ /\ requested = NoSId /\ i >= BaseSId
        /\ \A j \in BaseSId .. (i - 1) : j \in UsedSIds
ChosenSId(requested, i) ==
  \/ requested # NoSId /\ i = requested
  \/ /\ requested = NoSId
     /\ i \in BaseSId .. MaxSId
     /\ i \notin UsedSIds
     /\ \A j \in BaseSId .. (i - 1) : j \in UsedSIds

AsListed(e) == [pos |-> e.pos, sid |-> e.sid, svc |-> e.svc]

NewEntry(s, i) ==
  [pos |-> nextPos, sid |-> i, svc |-> s, waiting |-> FALSE, late |-> FALSE,
   acks |-> NoAcks]

(* Queues to the services after a successful doRegister: RGB to the other  *)
(* services that can access the new one, then RG to the new one with all   *)
(* the services it can access, itself last.  A reconnection sends neither. *)
OthersOnlyMutant(s, i) ==
  Broadcast({f.svc : f \in {g \in registered : g.sid # i /\ canAccess(s, g)}},
            UpMsg(AsListed(NewEntry(s, i))))
AfterGrant(s, i) ==
  LET e == NewEntry(s, i)
      others == {f.svc : f \in {g \in registered : g.sid # i /\ canAccess(s, g)}}
      list == {AsListed(f) : f \in {g \in registered \cup {e} : canAccess(s, g)}}
      told == Broadcast(others, UpMsg(AsListed(e)))
  IN  IF conn[s] /\ sock[s]
      THEN [told EXCEPT ![s] = Append(@, GrantMsg(i, list))]
      ELSE told

NoAppIdMutant(s, i) ==
  /\ online' = online \cup {i}
  /\ registered' = registered \cup {NewEntry(s, i)}
  /\ nextPos' = nextPos + 1
  /\ UNCHANGED appId
Grant(s, i) ==
  /\ online' = online \cup {i}
  /\ registered' = registered \cup {NewEntry(s, i)}
  /\ nextPos' = nextPos + 1
  /\ appId' = [appId EXCEPT ![s] = i]

(* doRegister finds an SId for the service, and it may start with it.      *)
Granted(s, requested, i) == ChosenSId(requested, i) /\ MayStart(s)

Denied(s, requested) == \A i \in SIds : ~Granted(s, requested, i)

AfterDenial(s) == Broadcast({s}, DenyMsg)

(* cbRegister: a service asks for its first registration.                  *)
NSRegister(s) ==
  /\ nsUp /\ NSReads(s, "RG")
  /\ toNS' = [toNS EXCEPT ![s] = Tail(@)]
  /\ LET requested == Head(toNS[s]).sid
     IN  \/ \E i \in SIds : /\ Granted(s, requested, i)
                            /\ Grant(s, i)
                            /\ toSvc' = AfterGrant(s, i)
         \/ /\ Denied(s, requested)
            /\ toSvc' = AfterDenial(s)
            /\ UNCHANGED <<online, registered, nextPos, appId>>
  /\ UNCHANGED <<nsUp, conn, sock>>

(* cbResendRegisteration: a service that lost the NS registers again with  *)
(* the SId it has; no broadcast, and no answer even when it is denied.     *)
NSReregister(s) ==
  /\ nsUp /\ NSReads(s, "RRG")
  /\ toNS' = [toNS EXCEPT ![s] = Tail(@)]
  /\ LET requested == Head(toNS[s]).sid
     IN  \/ \E i \in SIds : Granted(s, requested, i) /\ Grant(s, i)
         \/ /\ Denied(s, requested)
            /\ UNCHANGED <<online, registered, nextPos, appId>>
  /\ UNCHANGED <<nsUp, toSvc, conn, sock>>

-----------------------------------------------------------------------------
AlwaysMutant(e) == TRUE
Acked(e) == e.acks = NoAcks

(* doRemove: tell every service that can access it (itself included while  *)
(* it does not wait yet), expect no acknowledgement from it any more, and  *)
(* wait for one from every service that is not itself being removed.       *)
StillUp(e, i) == Cardinality({f \in registered : f # e /\ f.sid = i /\ ~f.waiting})

AcksAwaited(e) ==
  [i \in SIds |-> StillUp(e, i) + (IF i = e.sid THEN 0 ELSE e.acks[i])]

doRemove(e) ==
  LET removed == [e EXCEPT !.waiting = TRUE, !.late = FALSE, !.acks = AcksAwaited(e)]
      others == {[f EXCEPT !.acks[e.sid] = 0] : f \in registered \ {e}}
  IN  registered' = IF Acked(removed) THEN others ELSE others \cup {removed}

Told(e) == {f.svc : f \in {g \in registered : canAccess(e.svc, g)}}

(* cbDisconnect: every entry of the socket is removed; entries that wait   *)
(* have no socket any more.                                                *)
NSDisconnect(s) ==
  /\ nsUp /\ NSReads(s, "DISC")
  /\ toNS' = [toNS EXCEPT ![s] = <<>>]
  /\ sock' = [sock EXCEPT ![s] = FALSE]
  /\ \/ \E e \in registered :
          /\ e.svc = s /\ ~e.waiting
          /\ doRemove(e)
          /\ toSvc' = Broadcast(Told(e), DownMsg(e.sid, s))
     \/ /\ \A e \in registered : e.svc = s => e.waiting
        /\ UNCHANGED <<registered, toSvc>>
  /\ UNCHANGED <<nsUp, online, appId, nextPos, conn>>

(* The console command kill (and killAllServices, and message UNI, which   *)
(* no service of the repository sends): doUnregisterService by SId.        *)
NSKill(e) ==
  /\ nsUp /\ e \in registered /\ IsFirst(e, e.sid)
  /\ doRemove(e)
  /\ toSvc' = Broadcast(Told(e), DownMsg(e.sid, e.svc))
  /\ UNCHANGED <<nsUp, online, appId, nextPos, toNS, conn, sock>>

(* checkWaitingUnregistrationServices, applied to a list.                  *)
NoTimeoutMutant(e) == e.waiting /\ Acked(e)
Removable(e) == e.waiting /\ (Acked(e) \/ e.late)

CheckWaiting(list) == {e \in list : ~Removable(e)}

(* cbACKUnregistration: the first waiting entry with that SId that awaits  *)
(* the sender loses one occurrence of it, then the waiting entries are     *)
(* checked.                                                                *)
AwaitsMutant(e, s) == e.waiting /\ appId[s] # NoSId
Awaits(e, s) == e.waiting /\ appId[s] # NoSId /\ e.acks[appId[s]] > 0

NSAck(s) ==
  /\ nsUp /\ NSReads(s, "ACK_UNI")
  /\ toNS' = [toNS EXCEPT ![s] = Tail(@)]
  /\ LET i == Head(toNS[s]).sid
         awaiting == {e \in registered : e.sid = i /\ Awaits(e, s)}
     IN  \/ \E e \in awaiting :
              /\ \A f \in awaiting : e.pos <= f.pos
              /\ registered' =
                   CheckWaiting((registered \ {e})
                     \cup {[e EXCEPT !.acks[appId[s]] = @ - 1]})
         \/ awaiting = {} /\ registered' = registered
  /\ UNCHANGED <<nsUp, online, appId, nextPos, toSvc, conn, sock>>

(* The same check at the start of update().                                *)
NSUpdate ==
  /\ nsUp
  /\ \E e \in registered : Removable(e)
  /\ registered' = CheckWaiting(registered)
  /\ UNCHANGED <<nsUp, online, appId, nextPos, netVars>>

(* UnregisterTimeout elapses for an entry that waits.                      *)
NSTimeout(e) ==
  /\ nsUp /\ e \in registered /\ e.waiting /\ ~e.late
  /\ registered' = (registered \ {e}) \cup {[e EXCEPT !.late = TRUE]}
  /\ UNCHANGED <<nsUp, online, appId, nextPos, netVars>>

-----------------------------------------------------------------------------
(* The NS process dies: its lists are lost, its sockets close, and every   *)
(* service reads the disconnection after what was already sent to it.      *)
NSCrash ==
  /\ nsUp
  /\ nsUp' = FALSE
  /\ registered' = {} /\ online' = {}
  /\ appId' = [s \in Services |-> NoSId]
  /\ toSvc' = Broadcast(Services, DiscMsg)
  /\ toNS' = [s \in Services |-> <<>>]
  /\ sock' = [s \in Services |-> FALSE]
  /\ UNCHANGED <<nextPos, conn>>

NSRestart ==
  /\ ~nsUp
  /\ nsUp' = TRUE
  /\ UNCHANGED <<registered, online, appId, nextPos, netVars>>

(* cbConnect: a new connection has no application id yet.                  *)
NSAccept(s) ==
  /\ nsUp
  /\ sock' = [sock EXCEPT ![s] = TRUE]
  /\ appId' = [appId EXCEPT ![s] = NoSId]
  /\ UNCHANGED <<nsUp, registered, online, nextPos>>
=============================================================================
