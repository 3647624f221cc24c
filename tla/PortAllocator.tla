---------------------------- MODULE PortAllocator ----------------------------
(***************************************************************************)
(* The choice of listening ports: doAllocatePort and cbQueryPort of        *)
(* naming_service.cpp, asked by CNamingClient::queryServicePort from       *)
(* CUnifiedNetwork::init, which then binds the port and registers with it. *)
(*                                                                         *)
(* Only what the allocation reads is kept of RegisteredServices: which     *)
(* port each registered service has.  A process is started at most once.   *)
(***************************************************************************)
EXTENDS Naturals, FiniteSets

CONSTANTS
  Services,      \* service processes
  FixedPort,     \* [Services -> Nat]: ListeningPort of its config, 0 = ask the NS
  MinBasePort,   \* ports begin here
  MaxBasePort,   \* and the search starts again here
  MaxPort,       \* largest uint16
  MaxNSCrashes   \* bound: crashes of the NS

ASSUME PortAssumption ==
  /\ MinBasePort \in Nat /\ MaxBasePort \in Nat /\ MaxPort \in Nat
  /\ 0 < MinBasePort /\ MinBasePort < MaxBasePort /\ MaxBasePort <= MaxPort
  /\ FixedPort \in [Services -> 0 .. MaxPort] /\ MaxNSCrashes \in Nat

NoPort == 0             \* as a config, ask the NS; as an answer, do not listen
Ports == 0 .. MaxPort
NoEntry == MaxPort + 1

VARIABLES
  nextAvailablePort,   \* static variable of doAllocatePort
  registered,          \* [Services -> Ports]: Addr[0].port() of its entry, or NoEntry
  stage,               \* [Services -> stages of CUnifiedNetwork::init]
  port,                \* [Services -> Ports]: _ServerPort
  round,               \* history: how often the cursor went back, or was lost
  nsCrashes

vars == <<nextAvailablePort, registered, stage, port, round, nsCrashes>>

Stages == {"off", "asked", "listening", "registered", "dead"}

TypeOK ==
  /\ nextAvailablePort \in Ports
  /\ registered \in [Services -> Ports \cup {NoEntry}]
  /\ stage \in [Services -> Stages]
  /\ port \in [Services -> Ports]
  /\ round \in Nat
  /\ nsCrashes \in Nat

Init ==
  /\ nextAvailablePort = MinBasePort
  /\ registered = [s \in Services |-> NoEntry]
  /\ stage = [s \in Services |-> "off"]
  /\ port = [s \in Services |-> NoPort]
  /\ round = 0
  /\ nsCrashes = 0

Taken(p) == \E s \in Services : registered[s] = p

(* doAllocatePort: start again at MinBasePort when the cursor has passed   *)
(* the end, then take the first port no entry has; the cursor is a uint16. *)
BeginsAgain == nextAvailablePort >= MaxBasePort
FirstPort == IF BeginsAgain THEN MinBasePort ELSE nextAvailablePort

Distance(p) == (p + (MaxPort + 1) - FirstPort) % (MaxPort + 1)

Allocated(p) ==
  /\ p \in Ports /\ ~Taken(p)
  /\ \A q \in Ports : Distance(q) < Distance(p) => Taken(q)

NoAdvanceMutant(p) == p
NoWrapMutant(p) == p + 1
Advanced(p) == (p + 1) % (MaxPort + 1)

(* The cursor goes back, and with it over ports that it answered before.   *)
GoesBack(p) == BeginsAgain \/ p < nextAvailablePort \/ p = MaxPort

(* cbQueryPort, for a service whose config gives it no port.               *)
QueryPort(s) ==
  /\ stage[s] = "off" /\ FixedPort[s] = NoPort
  /\ \E p \in Ports : /\ Allocated(p)
                      /\ nextAvailablePort' = Advanced(p)
                      /\ port' = [port EXCEPT ![s] = p]
                      /\ round' = IF GoesBack(p) THEN round + 1 ELSE round
  /\ stage' = [stage EXCEPT ![s] = "asked"]
  /\ UNCHANGED <<registered, nsCrashes>>

Configured(s) ==
  /\ stage[s] = "off" /\ FixedPort[s] # NoPort
  /\ port' = [port EXCEPT ![s] = FixedPort[s]]
  /\ stage' = [stage EXCEPT ![s] = "asked"]
  /\ UNCHANGED <<nextAvailablePort, registered, round, nsCrashes>>

Bound(p) == \E t \in Services : stage[t] \in {"listening", "registered"} /\ port[t] = p

(* CCallbackServer::init, tried again every 5 s until the port is free; a  *)
(* service without a port does not listen and goes on.                     *)
Listen(s) ==
  /\ stage[s] = "asked" /\ (port[s] = NoPort \/ ~Bound(port[s]))
  /\ stage' = [stage EXCEPT ![s] = "listening"]
  /\ UNCHANGED <<nextAvailablePort, registered, port, round, nsCrashes>>

(* The service registers, or after an NS crash registers again.            *)
Register(s) ==
  /\ \/ stage[s] = "listening"
     \/ stage[s] = "registered" /\ registered[s] = NoEntry
  /\ stage' = [stage EXCEPT ![s] = "registered"]
  /\ registered' = [registered EXCEPT ![s] = port[s]]
  /\ UNCHANGED <<nextAvailablePort, port, round, nsCrashes>>

(* The process dies; the NS drops its entry once the removal is            *)
(* acknowledged.                                                           *)
Die(s) ==
  /\ stage[s] \in {"asked", "listening", "registered"}
  /\ stage' = [stage EXCEPT ![s] = "dead"]
  /\ UNCHANGED <<nextAvailablePort, registered, port, round, nsCrashes>>

Removed(s) ==
  /\ stage[s] = "dead" /\ registered[s] # NoEntry
  /\ registered' = [registered EXCEPT ![s] = NoEntry]
  /\ UNCHANGED <<nextAvailablePort, stage, port, round, nsCrashes>>

NSCrash ==
  /\ nsCrashes < MaxNSCrashes
  /\ nsCrashes' = nsCrashes + 1
  /\ nextAvailablePort' = MinBasePort
  /\ registered' = [s \in Services |-> NoEntry]
  /\ round' = round + 1
  /\ UNCHANGED <<stage, port>>

ServiceStep(s) == Listen(s) \/ Register(s) \/ Removed(s)

Next ==
  \/ \E s \in Services : QueryPort(s) \/ Configured(s) \/ ServiceStep(s) \/ Die(s)
  \/ NSCrash

Spec == Init /\ [][Next]_vars
FairSpec == Spec /\ \A s \in Services : WF_vars(ServiceStep(s))

-----------------------------------------------------------------------------
(* Liveness: until the cursor goes back, a service that got a port from *)
(* the NS does not try in vain to bind it.                                 *)
EveryServiceListens ==
  \A s \in Services :
    (stage[s] = "asked" /\ FixedPort[s] = NoPort) ~> (stage[s] # "asked" \/ round > 0)
=============================================================================
