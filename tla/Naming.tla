------------------------------- MODULE Naming -------------------------------
(***************************************************************************)
(* A shard: one naming service and the services that register with it.     *)
(*                                                                         *)
(* MaxKills, MaxCrashes, MaxFaults, MaxNSCrashes and Timeouts bound what   *)
(* the environment does: kill commands, crashes of services, both          *)
(* together, crashes of the NS, and whether acknowledgements may be later  *)
(* than UnregisterTimeout.                                                 *)
(***************************************************************************)
EXTENDS NamingService, NamingClient

CONSTANTS MaxKills, MaxCrashes, MaxFaults, MaxNSCrashes, Timeouts

ASSUME BoundsAssumption ==
  /\ MaxKills \in Nat /\ MaxCrashes \in Nat /\ MaxFaults \in Nat
  /\ MaxNSCrashes \in Nat /\ Timeouts \in BOOLEAN

VARIABLES
  killed,      \* services an operator asked the NS to stop
  kills,       \* number of kill commands so far
  crashes,     \* number of service crashes so far
  nsCrashes    \* number of NS crashes so far

envVars == <<killed, kills, crashes, nsCrashes>>
vars == <<netVars, nsVars, clientVars, envVars>>

Init ==
  /\ NetInit /\ NSInit /\ ClientInit
  /\ killed = {} /\ kills = 0 /\ crashes = 0 /\ nsCrashes = 0

-----------------------------------------------------------------------------
Start(s) == NSAccept(s) /\ ClientStart(s) /\ UNCHANGED envVars

Reconnect(s) == NSAccept(s) /\ ClientReconnect(s) /\ UNCHANGED envVars

(* Steps of the NS.                                                        *)
Register(s) == NSRegister(s) /\ UNCHANGED <<clientVars, envVars>>
Reregister(s) == NSReregister(s) /\ UNCHANGED <<clientVars, envVars>>
Disconnect(s) == NSDisconnect(s) /\ UNCHANGED <<clientVars, envVars>>
Ack(s) == NSAck(s) /\ UNCHANGED <<clientVars, envVars>>
Update == NSUpdate /\ UNCHANGED <<clientVars, envVars>>
Timeout == /\ Timeouts
           /\ \E e \in registered : NSTimeout(e)
           /\ UNCHANGED <<clientVars, envVars>>

Kill == /\ kills < MaxKills /\ kills + crashes < MaxFaults
        /\ kills' = kills + 1
        /\ \E e \in registered :
             NSKill(e) /\ killed' = killed \cup {e.svc}
        /\ UNCHANGED <<clientVars, crashes, nsCrashes>>

LoseNS == /\ nsCrashes < MaxNSCrashes
          /\ NSCrash
          /\ nsCrashes' = nsCrashes + 1
          /\ UNCHANGED <<clientVars, killed, kills, crashes>>
RestartNS == NSRestart /\ UNCHANGED <<clientVars, envVars>>

(* Steps of the services.                                                  *)
Registered(s) == ClientRegistered(s) /\ UNCHANGED <<sock, nsVars, envVars>>
Connect(s) == ClientConnect(s) /\ UNCHANGED <<nsVars, envVars>>
ServiceUp(s) == ClientServiceUp(s) /\ UNCHANGED <<nsVars, envVars>>
ServiceDown(s) == ClientServiceDown(s) /\ UNCHANGED <<nsVars, envVars>>
LosesNS(s) == ClientLosesNS(s) /\ UNCHANGED <<nsVars, envVars>>
Exit(s) == ClientExit(s) /\ UNCHANGED <<nsVars, envVars>>
Crash(s) == /\ crashes < MaxCrashes /\ kills + crashes < MaxFaults
            /\ ClientCrash(s)
            /\ crashes' = crashes + 1
            /\ UNCHANGED <<nsVars, killed, kills, nsCrashes>>

ServiceStep(s) ==
  \/ Registered(s) \/ Connect(s) \/ ServiceUp(s) \/ ServiceDown(s)
  \/ LosesNS(s) \/ Reconnect(s) \/ Exit(s)
NSStep(s) == Register(s) \/ Reregister(s) \/ Disconnect(s) \/ Ack(s)

Next ==
  \/ \E s \in Services : Start(s) \/ ServiceStep(s) \/ NSStep(s) \/ Crash(s)
  \/ Update \/ Timeout \/ Kill \/ LoseNS \/ RestartNS

Spec == Init /\ [][Next]_vars

(* Both main loops run for ever and read their queues; a launched NS comes *)
(* back; 10 s always pass.  Nobody promises a start, a kill or a crash.    *)
Fairness ==
  /\ \A s \in Services : WF_vars(ServiceStep(s)) /\ WF_vars(NSStep(s))
  /\ WF_vars(Update) /\ WF_vars(Timeout) /\ WF_vars(RestartNS)

FairSpec == Spec /\ Fairness

-----------------------------------------------------------------------------
(* The type invariant: what every variable of the two programs and of the  *)
(* connections between them may hold.                                      *)
NetTypeOK ==
  /\ toNS \in [Services -> Seq(NSMessages)]
  /\ toSvc \in [Services -> Seq(SvcMessages)]
  /\ conn \in [Services -> BOOLEAN]
  /\ sock \in [Services -> BOOLEAN]

TypeOK ==
  /\ NetTypeOK /\ NSTypeOK /\ ClientTypeOK
  /\ killed \in SUBSET Services /\ kills \in Nat /\ crashes \in Nat /\ nsCrashes \in Nat

-----------------------------------------------------------------------------
(* A service that owns its SId: registered, not asked to leave.            *)
Owner(s) == phase[s] \in {"registered", "running"} /\ s \notin killed

(* Safety: no two entries of the NS, those that wait for acknowledgements  *)
(* included, have the same SId (doRegister, naming_service.cpp).           *)
EntriesHaveDistinctSIds ==
  \A e, f \in registered : e.sid = f.sid => e = f

(* Safety: a broadcast at the head of a client's queue agrees with its     *)
(* list: UNB names the service it lists under the SId (the nlassertex of   *)
(* cbUnregisterBroadcast), RGB never overwrites one (the "update" branch   *)
(* of cbRegisterBroadcast, which calls no callback).                       *)
BroadcastsMatchList ==
  \A s \in Services : phase[s] = "running" =>
    \A e \in known[s] :
      /\ SvcReads(s, "UNB") /\ Head(toSvc[s]).sid = e.sid
           => Head(toSvc[s]).svc = e.svc
      /\ SvcReads(s, "RGB") => Head(toSvc[s]).entry.sid # e.sid

(* Safety: at most one live service of a name that must be unique on the   *)
(* shard, or of one that must be unique on its machine.                    *)
RestrictedNamesAreUnique ==
  \A s, t \in Services :
    s # t /\ Owner(s) /\ Owner(t) /\ NameOf[s] = NameOf[t]
      => /\ NameOf[s] \notin ShardUnique
         /\ NameOf[s] \in MachineUnique => MachineOf[s] # MachineOf[t]

Reach(s, t) == NetsOf[s] \cap NetsOf[t] # {}

(* Safety: of two live services that can reach each other exactly one has  *)
(* opened the connection between them (CUnifiedNetwork::connect dials the  *)
(* services listed before oneself and leaves the others to dial).          *)
OneOfTwoDials ==
  \A s, t \in Services :
    s # t /\ Reach(s, t) /\ Owner(s) /\ Owner(t)
    /\ phase[s] = "running" /\ phase[t] = "running"
      => (s \in dialed[t]) # (t \in dialed[s])

(* Nothing is in flight between the NS and the services.                   *)
Quiet ==
  /\ nsUp
  /\ \A s \in Services :
       /\ toNS[s] = <<>> /\ toSvc[s] = <<>>
       /\ phase[s] \in {"off", "running", "dead"}
       /\ phase[s] = "running" => conn[s]

(* Safety: when nothing is in flight, a running service lists exactly the  *)
(* services the NS has as registered and accessible to it.                 *)
QuietListsAgree ==
  Quiet => \A s \in Services : Owner(s) =>
    {e.svc : e \in known[s]} = {e.svc : e \in {f \in registered : ~f.waiting /\ Reach(s, f.svc)}}

(* Safety: an entry that does not wait stands for an open connection whose *)
(* application id is the entry's SId, so that the acknowledgements the     *)
(* service sends are counted for the entries that await them.              *)
LiveEntriesAreConnected ==
  \A e \in registered : ~e.waiting => sock[e.svc] /\ appId[e.svc] = e.sid

(* Refinement: with respect to each SId the shard implements SIdLease.     *)
(* The users of an SId are the live services that list it.                 *)
EntryOf(i) == {e \in registered : e.sid = i}
HolderOf(i) == IF EntryOf(i) = {} THEN NoService
               ELSE (CHOOSE e \in EntryOf(i) : TRUE).svc
UsesOf(i) == {u \in Services \X Services :
                Owner(u[1]) /\ \E e \in known[u[1]] : e.sid = i /\ e.svc = u[2]}

Lease == INSTANCE SIdLease WITH
  holder <- [i \in SIds |-> HolderOf(i)],
  retiring <- [i \in SIds |-> \E e \in EntryOf(i) : e.waiting],
  uses <- [i \in SIds |-> UsesOf(i)]

(* Property: the life of every SId follows the abstract lease; in          *)
(* particular it is granted again only when nobody lists its last holder.  *)
EverySIdIsLeased == Lease!Spec

(* Liveness: an entry that waits for acknowledgements does not wait for    *)
(* ever (acknowledgements, disconnections and the timeout see to it).      *)
RemovalsEnd ==
  \A s \in Services :
    (\E e \in registered : e.svc = s /\ e.waiting)
      ~> ~(\E e \in registered : e.svc = s)

(* Liveness: every live service eventually drops a dead one.               *)
DeadAreForgotten ==
  \A t \in Services :
    (phase[t] = "dead")
      ~> \A s \in Services : Owner(s) => \A e \in known[s] : e.svc # t

(* Liveness: "Returns false if the registration failed" (registerService, *)
(* naming_client.h:80): a service that asked to register is registered,    *)
(* denied or dead in the end.                                              *)
RegistrationReturns ==
  \A s \in Services : (phase[s] = "registering") ~> (phase[s] # "registering")

(* Liveness: what can keep registerService waiting, whatever crashes, is   *)
(* the death of the very NS it asked, of which it has read the             *)
(* disconnection: neither a request to the NS that came after, nor one     *)
(* that is denied, nor an answer sent before the NS died is lost.          *)
OnlyLostNSBlocksStart ==
  \A s \in Services :
    (phase[s] = "registering") ~> (phase[s] # "registering" \/ ~conn[s])

(* Liveness: a service that runs, unrestricted and not killed, is in the   *)
(* NS's list again after an NS crash.                                      *)
RunningAreRegistered ==
  \A s \in Services :
    (phase[s] = "running" /\ NameOf[s] \notin (ShardUnique \cup MachineUnique))
      ~> \/ phase[s] = "dead"
         \/ \E e \in registered : e.svc = s /\ e.sid = mySId[s]
         \/ exiting[s]
=============================================================================
