------------------------ MODULE PortAllocatorProofs ------------------------
(***************************************************************************)
(* Theorems about PortAllocator, for every number of services, range of    *)
(* ports and number of crashes of the NS.                                  *)
(***************************************************************************)
EXTENDS PortAllocator, TLAPS

(* The cursor is a uint16 that wraps around.                               *)
LEMMA AdvancedIsAPort == ASSUME NEW p \in Ports PROVE Advanced(p) \in Ports
BY PortAssumption DEF Advanced, Ports

(* Safety: every port the NS answers, counts with or registers is one of   *)
(* 0 .. 65535, also after the cursor of doAllocatePort has passed the end. *)
THEOREM TypeCorrect == Spec => []TypeOK
<1>1. Init => TypeOK
  BY PortAssumption DEF Init, TypeOK, Ports, NoPort, NoEntry, Stages
<1>2. TypeOK /\ [Next]_vars => TypeOK'
  <2> SUFFICES ASSUME TypeOK, [Next]_vars PROVE TypeOK'
    OBVIOUS
  <2> USE DEF TypeOK, Stages
  <2>1. ASSUME NEW s \in Services, QueryPort(s) PROVE TypeOK'
    BY <2>1, AdvancedIsAPort DEF QueryPort
  <2>2. ASSUME NEW s \in Services, Configured(s) PROVE TypeOK'
    BY <2>2, PortAssumption DEF Configured, Ports
  <2>3. ASSUME NEW s \in Services, Listen(s) PROVE TypeOK'
    BY <2>3 DEF Listen
  <2>4. ASSUME NEW s \in Services, Register(s) PROVE TypeOK'
    BY <2>4 DEF Register
  <2>5. ASSUME NEW s \in Services, Removed(s) PROVE TypeOK'
    BY <2>5, PortAssumption DEF Removed, NoEntry, Ports
  <2>6. ASSUME NEW s \in Services, Die(s) PROVE TypeOK'
    BY <2>6 DEF Die
  <2>7. CASE NSCrash
    BY <2>7, PortAssumption DEF NSCrash, NoEntry, Ports
  <2>8. CASE UNCHANGED vars
    BY <2>8 DEF vars
  <2> QED
    BY <2>1, <2>2, <2>3, <2>4, <2>5, <2>6, <2>7, <2>8 DEF Next, ServiceStep
<1> QED
  BY <1>1, <1>2, PTL DEF Spec

(* Until the cursor goes back, it is past every port it answered.          *)
Asking == {s \in Services : FixedPort[s] = NoPort /\ stage[s] # "off"}

PortsDiffer ==
  \A s, t \in Asking : s # t => port[s] # port[t]

CursorIsAhead ==
  round = 0 => /\ PortsDiffer
               /\ \A s \in Asking : port[s] < nextAvailablePort

(* An answered port is below the cursor afterwards, and above the others.  *)
LEMMA AnswerKeepsAhead ==
  ASSUME TypeOK, CursorIsAhead, NEW s \in Services, QueryPort(s)
  PROVE  CursorIsAhead'
<1> SUFFICES ASSUME round' = 0
             PROVE  PortsDiffer' /\ \A t \in Asking' : port'[t] < nextAvailablePort'
  BY DEF CursorIsAhead
<1>1. PICK p \in Ports : /\ nextAvailablePort' = Advanced(p)
                         /\ port' = [port EXCEPT ![s] = p]
                         /\ round' = IF GoesBack(p) THEN round + 1 ELSE round
  BY DEF QueryPort
<1>2. round = 0 /\ ~GoesBack(p)
  BY <1>1 DEF TypeOK
<1>3. /\ nextAvailablePort <= p /\ nextAvailablePort' = p + 1
      /\ nextAvailablePort \in Nat /\ p \in Nat
  BY <1>1, <1>2, PortAssumption DEF GoesBack, Advanced, Ports, TypeOK
<1>4. \A t \in Services : t # s => port'[t] = port[t] /\ (t \in Asking' => t \in Asking)
  BY <1>1 DEF QueryPort, TypeOK, Asking
<1>5. port'[s] = p
  BY <1>1 DEF TypeOK
<1>6. \A t \in Asking' : t # s => port'[t] < nextAvailablePort
  BY <1>2, <1>4 DEF CursorIsAhead, Asking
<1>7. \A t \in Services : port'[t] \in Nat
  BY <1>1, PortAssumption DEF TypeOK, Ports
<1>8. \A t \in Asking' : t # s => port'[t] # p /\ port'[t] < p + 1
  BY <1>3, <1>6, <1>7 DEF Asking
<1>9. \A t, u \in Asking' : t # s /\ u # s /\ t # u => port'[t] # port'[u]
  BY <1>2, <1>4 DEF CursorIsAhead, PortsDiffer, Asking
<1>10. PortsDiffer'
  BY <1>5, <1>8, <1>9 DEF PortsDiffer
<1> QED
  BY <1>3, <1>5, <1>8, <1>10

(* Safety: "QueryPort + Registration is not atomic so more than one        *)
(* service could ask a port before register" (naming_service.cpp:767).  It *)
(* is the cursor that keeps their ports apart, not the list of registered  *)
(* services: until it goes back no two services are answered one port,     *)
(* registered or not.                                                      *)
THEOREM AnsweredPortsDiffer == Spec => [](round = 0 => PortsDiffer)
<1>1. Init => CursorIsAhead
  BY DEF Init, CursorIsAhead, PortsDiffer, Asking
<1>2. TypeOK /\ CursorIsAhead /\ [Next]_vars => CursorIsAhead'
  <2> SUFFICES ASSUME TypeOK, CursorIsAhead, [Next]_vars PROVE CursorIsAhead'
    OBVIOUS
  <2>1. ASSUME NEW s \in Services, QueryPort(s) PROVE CursorIsAhead'
    BY <2>1, AnswerKeepsAhead
  <2>2. ASSUME NEW s \in Services, Configured(s) PROVE CursorIsAhead'
    BY <2>2 DEF Configured, TypeOK, CursorIsAhead, PortsDiffer, Asking
  <2>3. ASSUME NEW s \in Services, Listen(s) \/ Register(s) \/ Removed(s) \/ Die(s)
        PROVE  CursorIsAhead'
    BY <2>3 DEF Listen, Register, Removed, Die, TypeOK, CursorIsAhead, PortsDiffer, Asking
  <2>4. CASE NSCrash
    BY <2>4 DEF NSCrash, TypeOK, CursorIsAhead
  <2>5. CASE UNCHANGED vars
    BY <2>5 DEF vars, CursorIsAhead, PortsDiffer, Asking
  <2> QED
    BY <2>1, <2>2, <2>3, <2>4, <2>5 DEF Next, ServiceStep
<1>3. CursorIsAhead => (round = 0 => PortsDiffer)
  BY DEF CursorIsAhead
<1> QED
  BY <1>1, <1>2, <1>3, TypeCorrect, PTL DEF Spec
=============================================================================
