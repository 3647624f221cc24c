---------------------------- MODULE NamingClient ----------------------------
(***************************************************************************)
(* The naming client linked into every service: CNamingClient              *)
(* (nel/src/net/naming_client.cpp) driven by the start-up sequence and the *)
(* main loop of a service (CUnifiedNetwork::init, connect and update in    *)
(* nel/src/net/unified_network.cpp, IService::main in service.cpp).        *)
(*                                                                         *)
(* Phases of a process: off, registering (blocked in registerService),     *)
(* registered (init is done, the user's init() runs), running (the main    *)
(* loop, from connect() on), dead.                                         *)
(***************************************************************************)
EXTENDS NamingNet

VARIABLES
  phase,       \* [Services -> phases]
  exiting,     \* [Services -> BOOLEAN]: IService::exit() was called
  mySId,       \* [Services -> SIds \cup {NoSId}]: _MySId
  known,       \* [Services -> SUBSET Listed]: CNamingClient::RegisteredServices
  dialed       \* [Services -> SUBSET Services]: services it opened a connection to

clientVars == <<phase, exiting, mySId, known, dialed>>

ClientTypeOK ==
  /\ phase \in [Services -> {"off", "registering", "registered", "running", "dead"}]
  /\ exiting \in [Services -> BOOLEAN]
  /\ mySId \in [Services -> SIds \cup {NoSId}]
  /\ known \in [Services -> SUBSET Listed]
  /\ dialed \in [Services -> SUBSET Services]

ClientInit ==
  /\ phase = [s \in Services |-> "off"]
  /\ exiting = [s \in Services |-> FALSE]
  /\ mySId = [s \in Services |-> NoSId]
  /\ known = [s \in Services |-> {}]
  /\ dialed = [s \in Services |-> {}]

Alive(s) == phase[s] \in {"registering", "registered", "running"}

-----------------------------------------------------------------------------
(* CNamingClient::connect and the request of registerService or            *)
(* registerServiceWithSId.  The service listens from before this point on. *)
ClientStart(s) ==
  /\ phase[s] = "off"
  /\ phase' = [phase EXCEPT ![s] = "registering"]
  /\ conn' = [conn EXCEPT ![s] = TRUE]
  /\ toNS' = [toNS EXCEPT ![s] = Append(@, RegMsg(ReqSId[s]))]
  /\ UNCHANGED <<toSvc, exiting, mySId, known, dialed>>

(* The process ends: its socket closes after what it sent.                 *)
Dies(s) ==
  /\ phase' = [phase EXCEPT ![s] = "dead"]
  /\ conn' = [conn EXCEPT ![s] = FALSE]
  /\ toNS' = [toNS EXCEPT ![s] = Sent(s, DiscMsg)]
  /\ toSvc' = [toSvc EXCEPT ![s] = <<>>]

(* cbRegisterBroadcast: an entry is appended when its SId is not listed,   *)
(* and overwritten in place when it is (two services with one address      *)
(* each: otherwise the code stops the process).                            *)
Insert(list, e) ==
  IF \E f \in list : f.sid = e.sid
  THEN {IF f.sid = e.sid THEN [f EXCEPT !.svc = e.svc] ELSE f : f \in list}
  ELSE list \cup {e}

(* The same for the list of an RG answer, read into an empty list: an SId  *)
(* keeps its first position and its last service.                          *)
InsertAll(list) ==
  LET First(e) == \A f \in list : f.sid = e.sid => e.pos <= f.pos
      Last(e) == \A f \in list : f.sid = e.sid => f.pos <= e.pos
      ends == {u \in list \X list : u[1].sid = u[2].sid /\ First(u[1]) /\ Last(u[2])}
  IN  {[u[1] EXCEPT !.svc = u[2].svc] : u \in ends}

(* cbRegister, then the end of registerService and of CUnifiedNetwork::init *)
(* ("Registration denied": the service exits).                             *)
ClientRegistered(s) ==
  /\ phase[s] = "registering" /\ SvcReads(s, "RG")
  /\ LET m == Head(toSvc[s])
     IN  \/ /\ m.ok
            /\ mySId' = [mySId EXCEPT ![s] = m.sid]
            /\ known' = [known EXCEPT ![s] = InsertAll(m.list)]
            /\ phase' = [phase EXCEPT ![s] = "registered"]
            /\ toSvc' = [toSvc EXCEPT ![s] = Tail(@)]
            /\ UNCHANGED <<conn, toNS>>
         \/ ~m.ok /\ Dies(s) /\ UNCHANGED <<mySId, known>>
  /\ UNCHANGED <<exiting, dialed>>

(* CUnifiedNetwork::connect: dial the services listed before oneself; the  *)
(* connection succeeds when the process is there.  Its test connected()    *)
(* holds: nothing was read from the NS since the answer.                   *)
AfterMutant(s) ==
  {e \in known[s] : \A f \in known[s] : f.sid = mySId[s] => f.pos < e.pos}
ListedBefore(s) ==
  {e \in known[s] : \A f \in known[s] : f.sid = mySId[s] => e.pos < f.pos}

ClientConnect(s) ==
  /\ phase[s] = "registered"
  /\ phase' = [phase EXCEPT ![s] = "running"]
  /\ dialed' = [dialed EXCEPT
       ![s] = {e.svc : e \in {f \in ListedBefore(s) : Alive(f.svc)}}]
  /\ UNCHANGED <<netVars, exiting, mySId, known>>

(* cbRegisterBroadcast, message RGB.                                       *)
ClientServiceUp(s) ==
  /\ phase[s] = "running" /\ SvcReads(s, "RGB")
  /\ known' = [known EXCEPT ![s] = Insert(@, Head(toSvc[s]).entry)]
  /\ toSvc' = [toSvc EXCEPT ![s] = Tail(@)]
  /\ UNCHANGED <<toNS, conn, sock, phase, exiting, mySId, dialed>>

(* cbUnregisterBroadcast, message UNB: forget the first entry with that    *)
(* SId, acknowledge, and leave when the SId is one's own.                  *)
ClientServiceDown(s) ==
  /\ phase[s] = "running" /\ SvcReads(s, "UNB")
  /\ LET i == Head(toSvc[s]).sid
         with == {e \in known[s] : e.sid = i}
     IN  /\ known' = [known EXCEPT
              ![s] = {e \in @ : e.sid = i => \E f \in with : f.pos < e.pos}]
         /\ toNS' = [toNS EXCEPT ![s] = Sent(s, AckMsg(i))]
         /\ exiting' = [exiting EXCEPT ![s] = @ \/ mySId[s] = i]
  /\ toSvc' = [toSvc EXCEPT ![s] = Tail(@)]
  /\ UNCHANGED <<conn, sock, phase, mySId, dialed>>

(* The disconnection event of a lost NS: connected() becomes false.  While *)
(* registering the client goes on waiting for an answer.                   *)
ClientLosesNS(s) ==
  /\ phase[s] \in {"registering", "running"} /\ SvcReads(s, "DISC")
  /\ conn' = [conn EXCEPT ![s] = FALSE]
  /\ toSvc' = [toSvc EXCEPT ![s] = <<>>]
  /\ UNCHANGED <<toNS, sock, clientVars>>

(* CUnifiedNetwork::update every 5 s while disconnected: reconnect and     *)
(* resendRegisteration; its list of services is kept as it is.             *)
ClientReconnect(s) ==
  /\ phase[s] = "running" /\ ~conn[s]
  /\ conn' = [conn EXCEPT ![s] = TRUE]
  /\ toNS' = [toNS EXCEPT ![s] = Append(@, ReregMsg(mySId[s]))]
  /\ UNCHANGED <<toSvc, clientVars>>

(* The process stops: asked to (immediately, or once its closure clearance *)
(* is given), or by a crash.                                               *)
ClientExit(s) ==
  /\ exiting[s] /\ phase[s] = "running"
  /\ Dies(s)
  /\ UNCHANGED <<sock, exiting, mySId, known, dialed>>

ClientCrash(s) ==
  /\ Alive(s)
  /\ Dies(s)
  /\ UNCHANGED <<sock, exiting, mySId, known, dialed>>
=============================================================================
