---------------------------- MODULE NamingProofs ----------------------------
(***************************************************************************)
(* Theorems about Naming for every value of its constants.                 *)
(***************************************************************************)
EXTENDS Naming, FiniteSetTheorems, TLAPS

-----------------------------------------------------------------------------
(* Lemmas about the operators the steps are built from.                    *)

(* What a message to the NS carries depends on its type.                   *)
LEMMA NSMessageFields ==
  ASSUME NEW m \in NSMessages
  PROVE  /\ m.type = "RG" => m.sid \in 0 .. MaxSId
         /\ m.type \in {"RRG", "ACK_UNI"} => m.sid \in SIds
  BY DEF NSMessages

(* What a message to a service carries depends on its type.                *)
LEMMA SvcMessageFields ==
  ASSUME NEW m \in SvcMessages
  PROVE  /\ m.type = "RG" /\ m.ok => m.sid \in SIds /\ m.list \in SUBSET Listed
         /\ m.type = "RGB" => m.entry \in Listed
         /\ m.type = "UNB" => m.sid \in SIds
  BY DEF SvcMessages

(* Taking the head of one queue of a family of queues.                     *)
LEMMA Taking ==
  ASSUME NEW M, NEW q \in [Services -> Seq(M)], NEW s \in Services, q[s] # <<>>
  PROVE  /\ Head(q[s]) \in M
         /\ [q EXCEPT ![s] = Tail(@)] \in [Services -> Seq(M)]
  OBVIOUS

(* Sending on one connection, or on many, keeps the queues well-formed.    *)
LEMMA Sending ==
  ASSUME NEW M, NEW s \in Services, NEW m \in M, toNS \in [Services -> Seq(M)]
  PROVE  Sent(s, m) \in Seq(M)
  BY DEF Sent

LEMMA Broadcasting ==
  ASSUME NEW M, NEW R, NEW m \in M, toSvc \in [Services -> Seq(M)]
  PROVE  Broadcast(R, m) \in [Services -> Seq(M)]
  BY DEF Broadcast

(* An entry as it is sent, and the list of an RG answer as it is read.     *)
LEMMA ListedType == \A e \in CServiceEntry : AsListed(e) \in Listed
  BY DEF AsListed, CServiceEntry, Listed

LEMMA InsertType ==
  ASSUME NEW list \in SUBSET Listed, NEW e \in Listed
  PROVE  Insert(list, e) \in SUBSET Listed /\ InsertAll(list) \in SUBSET Listed
  BY DEF Insert, InsertAll, Listed

-----------------------------------------------------------------------------
(* Type correctness.  The list of the NS must be finite for the number of  *)
(* acknowledgements to be one; a service that can send an RRG has an SId.  *)

RegisteredHaveSId ==
  \A s \in Services : phase[s] \in {"registered", "running"} => mySId[s] \in SIds

TypeInv == TypeOK /\ IsFiniteSet(registered) /\ RegisteredHaveSId

LEMMA NewEntryType ==
  ASSUME TypeInv, NEW s \in Services, NEW i \in SIds
  PROVE  NewEntry(s, i) \in CServiceEntry
  BY DEF TypeInv, TypeOK, NSTypeOK, NewEntry, CServiceEntry, NoAcks

(* Granting keeps the types of the NS's state and of what it sends.        *)
LEMMA GrantType ==
  ASSUME TypeInv, NetAssumption, NEW s \in Services, NEW i \in SIds
  PROVE  /\ Grant(s, i) => /\ online' \in SUBSET SIds
                           /\ registered' \in SUBSET CServiceEntry
                           /\ IsFiniteSet(registered')
                           /\ appId' \in [Services -> SIds \cup {NoSId}]
                           /\ nextPos' \in Nat
         /\ AfterGrant(s, i) \in [Services -> Seq(SvcMessages)]
<1>1. NewEntry(s, i) \in CServiceEntry
  BY NewEntryType
<1>2. Grant(s, i) => IsFiniteSet(registered')
  BY FS_AddElement DEF Grant, TypeInv
<1>3. Grant(s, i) => /\ online' \in SUBSET SIds
                     /\ registered' \in SUBSET CServiceEntry
                     /\ appId' \in [Services -> SIds \cup {NoSId}]
                     /\ nextPos' \in Nat
  BY <1>1 DEF Grant, TypeInv, TypeOK, NSTypeOK
<1>4. AfterGrant(s, i) \in [Services -> Seq(SvcMessages)]
  <2> DEFINE e == NewEntry(s, i)
             others == {f.svc : f \in {g \in registered : g.sid # i /\ canAccess(s, g)}}
             list == {AsListed(f) : f \in {g \in registered \cup {e} : canAccess(s, g)}}
             told == Broadcast(others, UpMsg(AsListed(e)))
  <2>1. list \in SUBSET Listed
    BY <1>1, ListedType DEF TypeInv, TypeOK, NSTypeOK
  <2>2. GrantMsg(i, list) \in SvcMessages
    BY <2>1 DEF GrantMsg, SvcMessages
  <2>3. UpMsg(AsListed(e)) \in SvcMessages
    BY <1>1, ListedType DEF UpMsg, SvcMessages
  <2>4. told \in [Services -> Seq(SvcMessages)]
    BY <2>3, Broadcasting DEF TypeInv, TypeOK, NetTypeOK
  <2>5. AfterGrant(s, i) = IF conn[s] /\ sock[s]
                           THEN [told EXCEPT ![s] = Append(@, GrantMsg(i, list))]
                           ELSE told
    BY DEF AfterGrant
  <2> HIDE DEF told, list
  <2> QED
    BY <2>2, <2>4, <2>5
<1> QED
  BY <1>2, <1>3, <1>4

(* Numbers of acknowledgements are numbers.                                *)
LEMMA AwaitedType ==
  ASSUME TypeInv, NEW e \in registered
  PROVE  AcksAwaited(e) \in [SIds -> Nat]
<1>1. \A i \in SIds : StillUp(e, i) \in Nat
  <2> TAKE i \in SIds
  <2>1. IsFiniteSet({f \in registered : f # e /\ f.sid = i /\ ~f.waiting})
    BY FS_Subset DEF TypeInv
  <2> QED
    BY <2>1, FS_CardinalityType DEF StillUp
<1> QED
  BY <1>1 DEF AcksAwaited, TypeInv, TypeOK, NSTypeOK, CServiceEntry

(* doRemove keeps the list a finite set of entries.                        *)
LEMMA RemoveType ==
  ASSUME TypeInv, NEW e \in registered, doRemove(e)
  PROVE  registered' \in SUBSET CServiceEntry /\ IsFiniteSet(registered')
<1> DEFINE removed == [e EXCEPT !.waiting = TRUE, !.late = FALSE, !.acks = AcksAwaited(e)]
           others == {[f EXCEPT !.acks[e.sid] = 0] : f \in registered \ {e}}
<1>1. registered \in SUBSET CServiceEntry /\ IsFiniteSet(registered)
  BY DEF TypeInv, TypeOK, NSTypeOK
<1>2. removed \in CServiceEntry
  BY <1>1, AwaitedType DEF CServiceEntry
<1>3. others \in SUBSET CServiceEntry
  BY <1>1 DEF CServiceEntry
<1>4. IsFiniteSet(registered \ {e})
  BY <1>1, FS_Subset
<1>5. IsFiniteSet(others)
  <2> DEFINE g == [f \in registered \ {e} |-> [f EXCEPT !.acks[e.sid] = 0]]
  <2>1. g \in Surjection(registered \ {e}, others)
    BY DEF Surjection
  <2> HIDE DEF g, others
  <2> QED
    BY <1>4, <2>1, FS_Surjection
<1>6. IsFiniteSet(others \cup {removed})
  BY <1>5, FS_AddElement
<1> QED
  BY <1>2, <1>3, <1>5, <1>6 DEF doRemove
(* Told services read UNB.                                                 *)
LEMMA RemoveSends ==
  ASSUME TypeInv, NEW e \in registered, NEW s \in Services, NEW R
  PROVE  Broadcast(R, DownMsg(e.sid, s)) \in [Services -> Seq(SvcMessages)]
<1>1. e.sid \in SIds
  BY DEF TypeInv, TypeOK, NSTypeOK, CServiceEntry
<1>2. DownMsg(e.sid, s) \in SvcMessages
  BY <1>1 DEF DownMsg, SvcMessages
<1> QED
  BY <1>2, Broadcasting DEF TypeInv, TypeOK, NetTypeOK

LEMMA CheckedType ==
  ASSUME NEW list \in SUBSET CServiceEntry, IsFiniteSet(list)
  PROVE  CheckWaiting(list) \in SUBSET CServiceEntry /\ IsFiniteSet(CheckWaiting(list))
  BY FS_Subset DEF CheckWaiting

(* What a process that ends does to its connection.                        *)
LEMMA DiesType ==
  ASSUME TypeInv, NEW s \in Services, Dies(s)
  PROVE  /\ phase' \in [Services -> {"off", "registering", "registered", "running", "dead"}]
         /\ conn' \in [Services -> BOOLEAN]
         /\ toNS' \in [Services -> Seq(NSMessages)]
         /\ toSvc' \in [Services -> Seq(SvcMessages)]
         /\ \A t \in Services :
              phase'[t] \in {"registered", "running"} => phase'[t] = phase[t]
<1>1. Sent(s, DiscMsg) \in Seq(NSMessages)
  BY Sending DEF DiscMsg, NSMessages, TypeInv, TypeOK, NetTypeOK
<1> QED
  BY <1>1 DEF Dies, TypeInv, TypeOK, NetTypeOK, ClientTypeOK

LEMMA TypeInit == NetAssumption /\ Init => TypeInv
<1> SUFFICES ASSUME NetAssumption, Init PROVE TypeInv
  OBVIOUS
<1>1. TypeOK
  BY DEF Init, NetInit, NSInit, ClientInit, TypeOK, NetTypeOK, NSTypeOK, ClientTypeOK, NoSId
<1>2. IsFiniteSet(registered)
  BY FS_EmptySet DEF Init, NSInit
<1>3. RegisteredHaveSId
  BY DEF Init, ClientInit, RegisteredHaveSId
<1> QED
  BY <1>1, <1>2, <1>3 DEF TypeInv

LEMMA TypeStep == NetAssumption /\ TypeInv /\ [Next]_vars => TypeInv'
<1> SUFFICES ASSUME NetAssumption, TypeInv, [Next]_vars PROVE TypeInv'
  OBVIOUS
<1> USE DEF NoSId
<1>0. /\ toNS \in [Services -> Seq(NSMessages)] /\ toSvc \in [Services -> Seq(SvcMessages)]
      /\ conn \in [Services -> BOOLEAN] /\ sock \in [Services -> BOOLEAN]
      /\ NSTypeOK /\ ClientTypeOK /\ IsFiniteSet(registered) /\ RegisteredHaveSId
      /\ killed \in SUBSET Services /\ kills \in Nat /\ crashes \in Nat /\ nsCrashes \in Nat
  BY DEF TypeInv, TypeOK, NetTypeOK
<1>1. ASSUME NEW s \in Services, Start(s) PROVE TypeInv'
  <2>1. RegMsg(ReqSId[s]) \in NSMessages
    BY DEF RegMsg, NSMessages, NetAssumption
  <2>2. NetTypeOK' /\ NSTypeOK' /\ ClientTypeOK' /\ RegisteredHaveSId'
    BY <1>0, <1>1, <2>1 DEF Start, NSAccept, ClientStart, NetTypeOK, NSTypeOK, ClientTypeOK,
       RegisteredHaveSId
  <2> QED
    BY <1>0, <1>1, <2>2 DEF Start, NSAccept, envVars, TypeInv, TypeOK
<1>2. ASSUME NEW s \in Services, Reconnect(s) PROVE TypeInv'
  <2>1. ReregMsg(mySId[s]) \in NSMessages
    BY <1>0, <1>2 DEF Reconnect, ClientReconnect, ReregMsg, NSMessages, RegisteredHaveSId
  <2>2. NetTypeOK' /\ NSTypeOK' /\ ClientTypeOK' /\ RegisteredHaveSId'
    BY <1>0, <1>2, <2>1 DEF Reconnect, NSAccept, ClientReconnect, clientVars, NetTypeOK,
       NSTypeOK, ClientTypeOK, RegisteredHaveSId
  <2> QED
    BY <1>0, <1>2, <2>2 DEF Reconnect, NSAccept, envVars, TypeInv, TypeOK
<1>3. ASSUME NEW s \in Services, Register(s) PROVE TypeInv'
  <2> USE <1>3 DEF Register, NSRegister
  <2>1. toNS' \in [Services -> Seq(NSMessages)]
    BY <1>0, Taking DEF NSReads
  <2>2. CASE \E i \in SIds : Grant(s, i) /\ toSvc' = AfterGrant(s, i)
    <3>1. /\ NSTypeOK' /\ IsFiniteSet(registered')
          /\ toSvc' \in [Services -> Seq(SvcMessages)]
      BY <1>0, <2>2, GrantType DEF NSTypeOK
    <3> QED
      BY <1>0, <2>1, <3>1 DEF clientVars, envVars, TypeInv, TypeOK, NetTypeOK, ClientTypeOK,
         RegisteredHaveSId
  <2>3. CASE toSvc' = AfterDenial(s) /\ UNCHANGED <<online, registered, nextPos, appId>>
    <3>1. DenyMsg \in SvcMessages
      BY DEF DenyMsg, SvcMessages
    <3>2. toSvc' \in [Services -> Seq(SvcMessages)]
      BY <1>0, <2>3, <3>1, Broadcasting DEF AfterDenial
    <3> QED
      BY <1>0, <2>1, <2>3, <3>2 DEF clientVars, envVars, TypeInv, TypeOK, NetTypeOK, NSTypeOK,
         ClientTypeOK, RegisteredHaveSId
  <2> QED
    BY <2>2, <2>3
<1>4. ASSUME NEW s \in Services, Reregister(s) PROVE TypeInv'
  <2> USE <1>4 DEF Reregister, NSReregister
  <2>1. toNS' \in [Services -> Seq(NSMessages)]
    BY <1>0, Taking DEF NSReads
  <2>2. NSTypeOK' /\ IsFiniteSet(registered')
    BY <1>0, GrantType DEF NSTypeOK
  <2> QED
    BY <1>0, <2>1, <2>2 DEF clientVars, envVars, TypeInv, TypeOK, NetTypeOK, ClientTypeOK,
       RegisteredHaveSId
<1>5. ASSUME NEW s \in Services, Disconnect(s) PROVE TypeInv'
  <2> USE <1>5 DEF Disconnect, NSDisconnect
  <2>1. toNS' \in [Services -> Seq(NSMessages)] /\ sock' \in [Services -> BOOLEAN]
    BY <1>0
  <2>2. /\ registered' \in SUBSET CServiceEntry /\ IsFiniteSet(registered')
        /\ toSvc' \in [Services -> Seq(SvcMessages)]
    <3>1. ASSUME NEW e \in registered, doRemove(e),
                 toSvc' = Broadcast(Told(e), DownMsg(e.sid, s))
          PROVE  /\ registered' \in SUBSET CServiceEntry /\ IsFiniteSet(registered')
                 /\ toSvc' \in [Services -> Seq(SvcMessages)]
      BY <3>1, RemoveType, RemoveSends
    <3>2. CASE UNCHANGED <<registered, toSvc>>
      BY <1>0, <3>2 DEF NSTypeOK
    <3> QED
      BY <3>1, <3>2
  <2> QED
    BY <1>0, <2>1, <2>2 DEF clientVars, envVars, TypeInv, TypeOK, NetTypeOK, NSTypeOK,
       ClientTypeOK, RegisteredHaveSId
<1>6. ASSUME NEW s \in Services, Ack(s) PROVE TypeInv'
  <2> USE <1>6 DEF Ack, NSAck
  <2>1. toNS' \in [Services -> Seq(NSMessages)]
    BY <1>0, Taking DEF NSReads
  <2>2. registered' \in SUBSET CServiceEntry /\ IsFiniteSet(registered')
    <3>1. CASE registered' = registered
      BY <1>0, <3>1 DEF NSTypeOK
    <3>2. ASSUME NEW e \in registered, Awaits(e, s),
                 registered' = CheckWaiting((registered \ {e})
                                 \cup {[e EXCEPT !.acks[appId[s]] = @ - 1]})
          PROVE  registered' \in SUBSET CServiceEntry /\ IsFiniteSet(registered')
      <4> DEFINE acked == [e EXCEPT !.acks[appId[s]] = @ - 1]
      <4>1. acked \in CServiceEntry
        <5>1. e \in CServiceEntry /\ appId[s] \in SIds /\ e.acks[appId[s]] > 0
          BY <1>0, <3>2 DEF Awaits, NSTypeOK
        <5>2. [e.acks EXCEPT ![appId[s]] = @ - 1] \in [SIds -> Nat]
          BY <5>1 DEF CServiceEntry
        <5> QED
          BY <5>1, <5>2 DEF CServiceEntry
      <4>2. IsFiniteSet((registered \ {e}) \cup {acked})
        BY <1>0, FS_Subset, FS_AddElement
      <4> QED
        BY <1>0, <3>2, <4>1, <4>2, CheckedType DEF NSTypeOK
    <3> QED
      BY <3>1, <3>2
  <2> QED
    BY <1>0, <2>1, <2>2 DEF clientVars, envVars, TypeInv, TypeOK, NetTypeOK, NSTypeOK,
       ClientTypeOK, RegisteredHaveSId
<1>7. CASE Update
  <2>1. registered' \in SUBSET CServiceEntry /\ IsFiniteSet(registered')
    BY <1>0, <1>7, CheckedType DEF Update, NSUpdate, NSTypeOK
  <2> QED
    BY <1>0, <1>7, <2>1 DEF Update, NSUpdate, netVars, clientVars, envVars, TypeInv, TypeOK,
       NetTypeOK, NSTypeOK, ClientTypeOK, RegisteredHaveSId
<1>8. CASE Timeout
  <2>1. PICK e \in registered : NSTimeout(e)
    BY <1>8 DEF Timeout
  <2>2. [e EXCEPT !.late = TRUE] \in CServiceEntry
    <3>1. e \in CServiceEntry
      BY <1>0 DEF NSTypeOK
    <3> QED
      BY <3>1 DEF CServiceEntry
  <2>3. registered' \in SUBSET CServiceEntry /\ IsFiniteSet(registered')
    BY <1>0, <2>1, <2>2, FS_Subset, FS_AddElement DEF NSTimeout, NSTypeOK
  <2> QED
    BY <1>0, <1>8, <2>1, <2>3 DEF Timeout, NSTimeout, netVars, clientVars, envVars, TypeInv,
       TypeOK, NetTypeOK, NSTypeOK, ClientTypeOK, RegisteredHaveSId
<1>9. CASE Kill
  <2>1. PICK e \in registered : NSKill(e) /\ killed' = killed \cup {e.svc}
    BY <1>9 DEF Kill
  <2>2. e.svc \in Services
    BY <1>0 DEF NSTypeOK, CServiceEntry
  <2>3. /\ registered' \in SUBSET CServiceEntry /\ IsFiniteSet(registered')
        /\ toSvc' \in [Services -> Seq(SvcMessages)]
    BY <2>1, <2>2, RemoveType, RemoveSends DEF NSKill
  <2> QED
    BY <1>0, <1>9, <2>1, <2>2, <2>3 DEF Kill, NSKill, clientVars, TypeInv, TypeOK, NetTypeOK,
       NSTypeOK, ClientTypeOK, RegisteredHaveSId
<1>10. CASE LoseNS
  <2>1. DiscMsg \in SvcMessages
    BY DEF DiscMsg, SvcMessages
  <2>2. toSvc' \in [Services -> Seq(SvcMessages)]
    BY <1>0, <1>10, <2>1, Broadcasting DEF LoseNS, NSCrash
  <2>3. NetTypeOK'
    <3>1. toNS' \in [Services -> Seq(NSMessages)]
      BY <1>10 DEF LoseNS, NSCrash
    <3>2. sock' \in [Services -> BOOLEAN] /\ conn' \in [Services -> BOOLEAN]
      BY <1>0, <1>10 DEF LoseNS, NSCrash
    <3> QED
      BY <2>2, <3>1, <3>2 DEF NetTypeOK
  <2>4. NSTypeOK'
    BY <1>0, <1>10 DEF LoseNS, NSCrash, NSTypeOK
  <2>5. IsFiniteSet(registered')
    BY <1>10, FS_EmptySet DEF LoseNS, NSCrash
  <2>6. ClientTypeOK' /\ RegisteredHaveSId'
    BY <1>0, <1>10 DEF LoseNS, clientVars, ClientTypeOK, RegisteredHaveSId
  <2> QED
    BY <1>0, <1>10, <2>3, <2>4, <2>5, <2>6 DEF LoseNS, TypeInv, TypeOK
<1>11. CASE RestartNS
  BY <1>0, <1>11 DEF RestartNS, NSRestart, netVars, clientVars, envVars, TypeInv, TypeOK,
     NetTypeOK, NSTypeOK, ClientTypeOK, RegisteredHaveSId
<1>12. ASSUME NEW s \in Services, Registered(s) PROVE TypeInv'
  <2> USE <1>12 DEF Registered, ClientRegistered
  <2> DEFINE m == Head(toSvc[s])
  <2>1. /\ m \in SvcMessages
        /\ [toSvc EXCEPT ![s] = Tail(@)] \in [Services -> Seq(SvcMessages)]
    BY <1>0, Taking DEF SvcReads
  <2>2. CASE /\ m.ok
             /\ mySId' = [mySId EXCEPT ![s] = m.sid]
             /\ known' = [known EXCEPT ![s] = InsertAll(m.list)]
             /\ phase' = [phase EXCEPT ![s] = "registered"]
             /\ toSvc' = [toSvc EXCEPT ![s] = Tail(@)]
             /\ UNCHANGED <<conn, toNS>>
    <3>1. m.sid \in SIds /\ m.list \in SUBSET Listed
      BY <2>1, <2>2, SvcMessageFields DEF SvcReads
    <3>2. InsertAll(m.list) \in SUBSET Listed
      BY <3>1 DEF InsertAll, Listed
    <3>3. NetTypeOK' /\ ClientTypeOK' /\ RegisteredHaveSId'
      BY <1>0, <2>1, <2>2, <3>1, <3>2 DEF NetTypeOK, ClientTypeOK, RegisteredHaveSId
    <3> QED
      BY <1>0, <3>3 DEF nsVars, envVars, TypeInv, TypeOK, NSTypeOK
  <2>3. CASE ~m.ok /\ Dies(s) /\ UNCHANGED <<mySId, known>>
    BY <1>0, <2>3, DiesType DEF nsVars, envVars, TypeInv, TypeOK, NetTypeOK, NSTypeOK,
       ClientTypeOK, RegisteredHaveSId
  <2> QED
    BY <2>2, <2>3
<1>13. ASSUME NEW s \in Services, Connect(s) PROVE TypeInv'
  <2>1. dialed' \in [Services -> SUBSET Services]
    BY <1>0, <1>13 DEF Connect, ClientConnect, ListedBefore, ClientTypeOK, Listed
  <2> QED
    BY <1>0, <1>13, <2>1 DEF Connect, ClientConnect, netVars, nsVars, envVars, TypeInv, TypeOK,
       NetTypeOK, NSTypeOK, ClientTypeOK, RegisteredHaveSId
<1>14. ASSUME NEW s \in Services, ServiceUp(s) PROVE TypeInv'
  <2> USE <1>14 DEF ServiceUp, ClientServiceUp
  <2>1. /\ Head(toSvc[s]) \in SvcMessages
        /\ toSvc' \in [Services -> Seq(SvcMessages)]
    BY <1>0, Taking DEF SvcReads
  <2>2. known' \in [Services -> SUBSET Listed]
    BY <1>0, <2>1, SvcMessageFields, InsertType DEF SvcReads, ClientTypeOK
  <2> QED
    BY <1>0, <2>1, <2>2 DEF nsVars, envVars, TypeInv, TypeOK, NetTypeOK, NSTypeOK, ClientTypeOK,
       RegisteredHaveSId
<1>15. ASSUME NEW s \in Services, ServiceDown(s) PROVE TypeInv'
  <2> USE <1>15 DEF ServiceDown, ClientServiceDown
  <2>1. /\ Head(toSvc[s]) \in SvcMessages
        /\ toSvc' \in [Services -> Seq(SvcMessages)]
    BY <1>0, Taking DEF SvcReads
  <2>2. AckMsg(Head(toSvc[s]).sid) \in NSMessages
    BY <2>1, SvcMessageFields DEF SvcReads, AckMsg, NSMessages
  <2>3. toNS' \in [Services -> Seq(NSMessages)]
    BY <1>0, <2>2, Sending
  <2>4. ClientTypeOK'
    BY <1>0 DEF ClientTypeOK
  <2> QED
    BY <1>0, <2>1, <2>3, <2>4 DEF nsVars, envVars, TypeInv, TypeOK, NetTypeOK, NSTypeOK,
       RegisteredHaveSId
<1>16. ASSUME NEW s \in Services, LosesNS(s) PROVE TypeInv'
  BY <1>0, <1>16 DEF LosesNS, ClientLosesNS, clientVars, nsVars, envVars, TypeInv, TypeOK,
     NetTypeOK, NSTypeOK, ClientTypeOK, RegisteredHaveSId
<1>17. ASSUME NEW s \in Services, Exit(s) PROVE TypeInv'
  BY <1>0, <1>17, DiesType DEF Exit, ClientExit, nsVars, envVars, TypeInv, TypeOK, NetTypeOK,
     NSTypeOK, ClientTypeOK, RegisteredHaveSId
<1>18. ASSUME NEW s \in Services, Crash(s) PROVE TypeInv'
  BY <1>0, <1>18, DiesType DEF Crash, ClientCrash, nsVars, TypeInv, TypeOK, NetTypeOK,
     NSTypeOK, ClientTypeOK, RegisteredHaveSId
<1>19. CASE UNCHANGED vars
  BY <1>0, <1>19 DEF vars, netVars, nsVars, clientVars, envVars, TypeInv, TypeOK, NetTypeOK,
     NSTypeOK, ClientTypeOK, RegisteredHaveSId
<1> QED
  BY <1>1, <1>2, <1>3, <1>4, <1>5, <1>6, <1>7, <1>8, <1>9, <1>10, <1>11, <1>12, <1>13, <1>14,
     <1>15, <1>16, <1>17, <1>18, <1>19 DEF Next, ServiceStep, NSStep

(* The type invariant, for any services, SIds, subnets and bounds: in      *)
(* particular no count of awaited acknowledgements of the NS becomes       *)
(* negative, and a service that registers again has an SId to send.        *)
THEOREM TypeCorrect == Spec => []TypeOK
<1>1. Init => TypeInv
  BY TypeInit, NetAssumption
<1>2. TypeInv /\ [Next]_vars => TypeInv'
  BY TypeStep, NetAssumption
<1>3. TypeInv => TypeOK
  BY DEF TypeInv
<1> QED
  BY <1>1, <1>2, <1>3, PTL DEF Spec

-----------------------------------------------------------------------------
(* Connections and entries.                                                *)

NoEntryOf(s) == \A e \in registered : e.svc # s

(* The NS and a service agree on the connection between them, and a        *)
(* service that asks to be registered has no entry yet.                    *)
UnreadIsOpen == \A s \in Services : ~sock[s] => toNS[s] = <<>>
UnsentIsOpen == \A s \in Services : ~conn[s] => toSvc[s] = <<>>
OffIsUnknown == \A s \in Services : phase[s] = "off" => ~sock[s] /\ ~conn[s] /\ NoEntryOf(s)
LostIsUnknown == \A s \in Services : Alive(s) /\ ~conn[s] => ~sock[s] /\ NoEntryOf(s)
LossIsTrue ==
  \A s \in Services : \A n \in 1 .. Len(toSvc[s]) :
    toSvc[s][n].type = "DISC" => ~sock[s] /\ NoEntryOf(s)
RequestIsFirst ==
  \A s \in Services : \A n \in 1 .. Len(toNS[s]) :
    toNS[s][n].type \in {"RG", "RRG"} => n = 1 /\ NoEntryOf(s)
OneEntryEach == \A e, f \in registered : e.svc = f.svc => e = f

ConnInv ==
  /\ UnreadIsOpen /\ UnsentIsOpen /\ OffIsUnknown /\ LostIsUnknown
  /\ LossIsTrue /\ RequestIsFirst /\ OneEntryEach /\ LiveEntriesAreConnected

(* Positions in a queue after its head was taken, after a service sent a   *)
(* message and after the NS sent one to many services.                     *)
LEMMA TailAt ==
  ASSUME NEW M, NEW q \in Seq(M), q # <<>>
  PROVE  \A n \in 1 .. Len(Tail(q)) : n + 1 \in 1 .. Len(q) /\ Tail(q)[n] = q[n + 1]
  OBVIOUS

LEMMA HeadAt ==
  ASSUME NEW M, NEW q \in Seq(M), q # <<>>
  PROVE  1 \in 1 .. Len(q) /\ Head(q) = q[1]
  OBVIOUS

LEMMA SentAt ==
  ASSUME TypeInv, NEW s \in Services, NEW m
  PROVE  /\ \A n \in 1 .. Len(Sent(s, m)) :
              \/ n \in 1 .. Len(toNS[s]) /\ Sent(s, m)[n] = toNS[s][n]
              \/ Sent(s, m)[n] = m
         /\ ~sock[s] => Sent(s, m) = toNS[s]
  BY DEF Sent, TypeInv, TypeOK, NetTypeOK

LEMMA BroadcastAt ==
  ASSUME TypeInv, NEW R, NEW m, NEW s \in Services
  PROVE  /\ \A n \in 1 .. Len(Broadcast(R, m)[s]) :
              \/ n \in 1 .. Len(toSvc[s]) /\ Broadcast(R, m)[s][n] = toSvc[s][n]
              \/ Broadcast(R, m)[s][n] = m
         /\ ~conn[s] => Broadcast(R, m)[s] = toSvc[s]
  BY DEF Broadcast, TypeInv, TypeOK, NetTypeOK

(* A step of the NS that only rewrites or drops entries: each keeps its    *)
(* service and its SId, and one that waits goes on waiting.                *)
Rewritten ==
  \E new \in [registered -> CServiceEntry] :
    /\ registered' \subseteq {new[e] : e \in registered}
    /\ \A e \in registered :
         /\ new[e].svc = e.svc /\ new[e].sid = e.sid
         /\ e.waiting => new[e].waiting

LEMMA RewrittenEntries ==
  ASSUME Rewritten
  PROVE  /\ \A s \in Services : NoEntryOf(s) => NoEntryOf(s)'
         /\ OneEntryEach => OneEntryEach'
         /\ EntriesHaveDistinctSIds => EntriesHaveDistinctSIds'
         /\ \A e \in registered' : ~e.waiting =>
              \E f \in registered : ~f.waiting /\ f.svc = e.svc /\ f.sid = e.sid
<1>1. PICK new \in [registered -> CServiceEntry] :
        /\ registered' \subseteq {new[e] : e \in registered}
        /\ \A e \in registered :
             /\ new[e].svc = e.svc /\ new[e].sid = e.sid
             /\ e.waiting => new[e].waiting
  BY DEF Rewritten
<1>2. \A g \in registered' : \E e \in registered : g = new[e]
  BY <1>1
<1>3. \A s \in Services : NoEntryOf(s) => NoEntryOf(s)'
  BY <1>1, <1>2 DEF NoEntryOf
<1>4. OneEntryEach => OneEntryEach'
  BY <1>1, <1>2 DEF OneEntryEach
<1>5. EntriesHaveDistinctSIds => EntriesHaveDistinctSIds'
  BY <1>1, <1>2 DEF EntriesHaveDistinctSIds
<1>6. \A e \in registered' : ~e.waiting =>
        \E f \in registered : ~f.waiting /\ f.svc = e.svc /\ f.sid = e.sid
  BY <1>1, <1>2
<1> QED
  BY <1>3, <1>4, <1>5, <1>6

(* The steps of the NS that rewrite entries.                               *)
LEMMA RemoveRewrites ==
  ASSUME TypeInv, NEW e \in registered, doRemove(e)
  PROVE  Rewritten /\ \A g \in registered' : OneEntryEach /\ g.svc = e.svc => g.waiting
<1> DEFINE removed == [e EXCEPT !.waiting = TRUE, !.late = FALSE, !.acks = AcksAwaited(e)]
           new == [f \in registered |-> IF f = e THEN removed ELSE [f EXCEPT !.acks[e.sid] = 0]]
<1>1. registered \in SUBSET CServiceEntry
  BY DEF TypeInv, TypeOK, NSTypeOK
<1>2. \A f \in registered :
        /\ new[f].svc = f.svc /\ new[f].sid = f.sid
        /\ f.waiting => new[f].waiting
        /\ f = e => new[f].waiting
  BY <1>1 DEF CServiceEntry
<1>3. registered' \subseteq {new[f] : f \in registered}
  BY DEF doRemove
<1>4. new \in [registered -> CServiceEntry]
  <2>1. removed \in CServiceEntry
    BY <1>1, AwaitedType DEF CServiceEntry
  <2>2. \A f \in registered : [f EXCEPT !.acks[e.sid] = 0] \in CServiceEntry
    BY <1>1 DEF CServiceEntry
  <2> QED
    BY <2>1, <2>2
<1> HIDE DEF new
<1>5. Rewritten
  BY <1>2, <1>3, <1>4 DEF Rewritten
<1>6. \A g \in registered' : OneEntryEach /\ g.svc = e.svc => g.waiting
  BY <1>2, <1>3 DEF OneEntryEach
<1> QED
  BY <1>5, <1>6

LEMMA ChangeRewrites ==
  ASSUME TypeInv, NEW e \in registered, NEW d \in CServiceEntry,
         d.svc = e.svc, d.sid = e.sid, e.waiting, d.waiting,
         registered' \subseteq (registered \ {e}) \cup {d}
  PROVE  Rewritten
<1> DEFINE new == [f \in registered |-> IF f = e THEN d ELSE f]
<1>1. new \in [registered -> CServiceEntry]
  BY DEF TypeInv, TypeOK, NSTypeOK
<1>2. registered' \subseteq {new[f] : f \in registered}
  OBVIOUS
<1>3. \A f \in registered : /\ new[f].svc = f.svc /\ new[f].sid = f.sid
                            /\ f.waiting => new[f].waiting
  OBVIOUS
<1> HIDE DEF new
<1> QED
  BY <1>1, <1>2, <1>3 DEF Rewritten

LEMMA CheckRewrites ==
  ASSUME TypeInv, registered' \subseteq registered
  PROVE  Rewritten
<1> DEFINE new == [f \in registered |-> f]
<1>1. new \in [registered -> CServiceEntry]
  BY DEF TypeInv, TypeOK, NSTypeOK
<1>2. registered' \subseteq {new[f] : f \in registered}
  OBVIOUS
<1>3. \A f \in registered : /\ new[f].svc = f.svc /\ new[f].sid = f.sid
                            /\ f.waiting => new[f].waiting
  OBVIOUS
<1> HIDE DEF new
<1> QED
  BY <1>1, <1>2, <1>3 DEF Rewritten

LEMMA AckRewrites ==
  ASSUME TypeInv, NEW s \in Services, NSAck(s)
  PROVE  Rewritten
<1>1. CASE registered' = registered
  BY <1>1, CheckRewrites
<1>2. ASSUME NEW e \in registered, Awaits(e, s),
             registered' = CheckWaiting((registered \ {e})
                             \cup {[e EXCEPT !.acks[appId[s]] = @ - 1]})
      PROVE  Rewritten
  <2> DEFINE d == [e EXCEPT !.acks[appId[s]] = @ - 1]
  <2>1. e \in CServiceEntry /\ appId[s] \in SIds /\ e.acks[appId[s]] > 0 /\ e.waiting
    BY <1>2 DEF Awaits, TypeInv, TypeOK, NSTypeOK, NoSId
  <2>2. [e.acks EXCEPT ![appId[s]] = @ - 1] \in [SIds -> Nat]
    BY <2>1 DEF CServiceEntry
  <2>3. d \in CServiceEntry /\ d.svc = e.svc /\ d.sid = e.sid /\ d.waiting
    BY <2>1, <2>2 DEF CServiceEntry
  <2>4. registered' \subseteq (registered \ {e}) \cup {d}
    BY <1>2 DEF CheckWaiting
  <2> HIDE DEF d
  <2> QED
    BY <2>1, <2>3, <2>4, ChangeRewrites
<1> QED
  BY <1>1, <1>2 DEF NSAck

LEMMA TimeoutRewrites ==
  ASSUME TypeInv, NEW e \in registered, NSTimeout(e)
  PROVE  Rewritten
<1> DEFINE d == [e EXCEPT !.late = TRUE]
<1>1. e \in CServiceEntry
  BY DEF TypeInv, TypeOK, NSTypeOK
<1>2. d \in CServiceEntry /\ d.svc = e.svc /\ d.sid = e.sid /\ d.waiting
  BY <1>1 DEF CServiceEntry, NSTimeout
<1>3. registered' \subseteq (registered \ {e}) \cup {d}
  BY DEF NSTimeout
<1> HIDE DEF d
<1> QED
  BY <1>2, <1>3, ChangeRewrites DEF NSTimeout

(* An RG or RRG that is granted adds the service's only entry, and sends   *)
(* no disconnection.                                                       *)
LEMMA GrantEntries ==
  ASSUME TypeInv, ConnInv, NEW s \in Services, NEW i \in SIds, Grant(s, i),
         NoEntryOf(s), sock[s], UNCHANGED sock
  PROVE  /\ OneEntryEach' /\ LiveEntriesAreConnected'
         /\ \A t \in Services : t # s /\ NoEntryOf(t) => NoEntryOf(t)'
<1>1. NewEntry(s, i).svc = s /\ NewEntry(s, i).sid = i
  BY DEF NewEntry
<1>2. registered' = registered \cup {NewEntry(s, i)}
  BY DEF Grant
<1>3. \A e \in registered : e \in CServiceEntry /\ e.svc # s
  BY DEF NoEntryOf, TypeInv, TypeOK, NSTypeOK
<1>4. OneEntryEach'
  BY <1>1, <1>2, <1>3 DEF ConnInv, OneEntryEach
<1>5. LiveEntriesAreConnected'
  BY <1>1, <1>2, <1>3 DEF ConnInv, LiveEntriesAreConnected, Grant, CServiceEntry, TypeInv,
     TypeOK, NSTypeOK
<1>6. \A t \in Services : t # s /\ NoEntryOf(t) => NoEntryOf(t)'
  BY <1>1, <1>2 DEF NoEntryOf
<1> QED
  BY <1>4, <1>5, <1>6

LEMMA AfterGrantAt ==
  ASSUME TypeInv, NEW s \in Services, NEW i \in SIds, NEW t \in Services
  PROVE  /\ \A n \in 1 .. Len(AfterGrant(s, i)[t]) :
              \/ n \in 1 .. Len(toSvc[t]) /\ AfterGrant(s, i)[t][n] = toSvc[t][n]
              \/ AfterGrant(s, i)[t][n].type # "DISC"
         /\ ~conn[t] => AfterGrant(s, i)[t] = toSvc[t]
<1> DEFINE e == NewEntry(s, i)
           others == {f.svc : f \in {g \in registered : g.sid # i /\ canAccess(s, g)}}
           list == {AsListed(f) : f \in {g \in registered \cup {e} : canAccess(s, g)}}
           told == Broadcast(others, UpMsg(AsListed(e)))
<1>1. UpMsg(AsListed(e)).type # "DISC" /\ GrantMsg(i, list).type # "DISC"
  BY DEF UpMsg, GrantMsg
<1>2. /\ \A n \in 1 .. Len(told[t]) :
           \/ n \in 1 .. Len(toSvc[t]) /\ told[t][n] = toSvc[t][n]
           \/ told[t][n].type # "DISC"
      /\ ~conn[t] => told[t] = toSvc[t]
  <2> HIDE DEF e, others
  <2> QED
    BY <1>1, BroadcastAt
<1>3. \E M : told \in [Services -> Seq(M)]
  <2>1. NewEntry(s, i) \in CServiceEntry
    BY NewEntryType
  <2>2. UpMsg(AsListed(e)) \in SvcMessages
    BY <2>1, ListedType DEF UpMsg, SvcMessages
  <2> QED
    BY <2>2, Broadcasting DEF TypeInv, TypeOK, NetTypeOK
<1>4. AfterGrant(s, i) = IF conn[s] /\ sock[s]
                         THEN [told EXCEPT ![s] = Append(@, GrantMsg(i, list))]
                         ELSE told
  BY DEF AfterGrant
<1> HIDE DEF told, list
<1> QED
  BY <1>1, <1>2, <1>3, <1>4

LEMMA ConnInit == Init => ConnInv
  BY DEF Init, NetInit, NSInit, ClientInit, ConnInv, UnreadIsOpen, UnsentIsOpen, OffIsUnknown,
     LostIsUnknown, LossIsTrue, RequestIsFirst, OneEntryEach, LiveEntriesAreConnected, NoEntryOf,
     Alive

(* Steps that leave the NS and its sockets alone.                          *)
LEMMA ClientKeepsEntries ==
  ASSUME UNCHANGED <<registered, appId, sock>>
  PROVE  /\ OneEntryEach => OneEntryEach'
         /\ LiveEntriesAreConnected => LiveEntriesAreConnected'
         /\ \A s \in Services : NoEntryOf(s) <=> NoEntryOf(s)'
  BY DEF OneEntryEach, LiveEntriesAreConnected, NoEntryOf

(* What a step of the NS other than its crash does to the queues.          *)
HeadsTaken ==
  \A t \in Services : \/ toNS'[t] = toNS[t]
                      \/ toNS[t] # <<>> /\ toNS'[t] = Tail(toNS[t])
NoLossSent ==
  \A t \in Services :
    /\ \A n \in 1 .. Len(toSvc'[t]) :
         \/ n \in 1 .. Len(toSvc[t]) /\ toSvc'[t][n] = toSvc[t][n]
         \/ toSvc'[t][n].type # "DISC"
    /\ ~conn[t] => toSvc'[t] = toSvc[t]

LEMMA BroadcastsNoLoss ==
  ASSUME TypeInv, NEW R, NEW m, m.type # "DISC", toSvc' = Broadcast(R, m)
  PROVE  NoLossSent
  BY BroadcastAt DEF NoLossSent

(* A step of the NS that rewrites entries, takes the head of a queue and   *)
(* sends no disconnection.                                                 *)
LEMMA RewritingKeepsConn ==
  ASSUME TypeInv, ConnInv, Rewritten, UNCHANGED <<appId, sock, clientVars, conn>>,
         HeadsTaken, NoLossSent
  PROVE  ConnInv'
<1>1. /\ toNS \in [Services -> Seq(NSMessages)] /\ toSvc \in [Services -> Seq(SvcMessages)]
      /\ registered \in SUBSET CServiceEntry
  BY DEF TypeInv, TypeOK, NetTypeOK, NSTypeOK
<1>2. /\ \A s \in Services : NoEntryOf(s) => NoEntryOf(s)'
      /\ OneEntryEach'
      /\ \A e \in registered' : ~e.waiting =>
           \E f \in registered : ~f.waiting /\ f.svc = e.svc /\ f.sid = e.sid
  BY RewrittenEntries DEF ConnInv
<1>3. UnreadIsOpen' /\ UnsentIsOpen'
  BY <1>1 DEF ConnInv, UnreadIsOpen, UnsentIsOpen, HeadsTaken, NoLossSent
<1>4. OffIsUnknown' /\ LostIsUnknown'
  BY <1>2 DEF ConnInv, OffIsUnknown, LostIsUnknown, Alive, clientVars
<1>5. LossIsTrue'
  BY <1>2 DEF ConnInv, LossIsTrue, NoLossSent
<1>6. RequestIsFirst'
  <2> SUFFICES ASSUME NEW t \in Services, NEW n \in 1 .. Len(toNS'[t]),
                      toNS'[t][n].type \in {"RG", "RRG"}
               PROVE  n = 1 /\ NoEntryOf(t)'
    BY DEF RequestIsFirst
  <2>1. CASE toNS'[t] = toNS[t]
    BY <1>2, <2>1 DEF ConnInv, RequestIsFirst
  <2>2. CASE toNS[t] # <<>> /\ toNS'[t] = Tail(toNS[t])
    <3>1. n + 1 \in 1 .. Len(toNS[t]) /\ toNS'[t][n] = toNS[t][n + 1]
      BY <1>1, <2>2, TailAt
    <3> QED
      BY <3>1 DEF ConnInv, RequestIsFirst
  <2> QED
    BY <2>1, <2>2 DEF HeadsTaken
<1>7. LiveEntriesAreConnected'
  BY <1>2 DEF ConnInv, LiveEntriesAreConnected
<1> QED
  BY <1>2, <1>3, <1>4, <1>5, <1>6, <1>7 DEF ConnInv

(* A process that ends.                                                    *)
LEMMA DyingKeepsConn ==
  ASSUME TypeInv, ConnInv, NEW s \in Services, Dies(s), Alive(s),
         UNCHANGED <<registered, appId, sock>>
  PROVE  ConnInv'
<1>1. /\ toNS \in [Services -> Seq(NSMessages)] /\ toSvc \in [Services -> Seq(SvcMessages)]
      /\ phase \in [Services -> {"off", "registering", "registered", "running", "dead"}]
      /\ conn \in [Services -> BOOLEAN]
  BY DEF TypeInv, TypeOK, NetTypeOK, ClientTypeOK
<1>2. /\ OneEntryEach' /\ LiveEntriesAreConnected'
      /\ \A t \in Services : NoEntryOf(t) <=> NoEntryOf(t)'
  BY ClientKeepsEntries DEF ConnInv
<1>3. /\ \A t \in Services : t # s =>
           /\ phase'[t] = phase[t] /\ conn'[t] = conn[t]
           /\ toNS'[t] = toNS[t] /\ toSvc'[t] = toSvc[t]
      /\ phase'[s] = "dead" /\ ~conn'[s]
      /\ toNS'[s] = Sent(s, DiscMsg) /\ toSvc'[s] = <<>>
  BY <1>1 DEF Dies
<1>4. UnreadIsOpen' /\ UnsentIsOpen'
  BY <1>3, SentAt DEF ConnInv, UnreadIsOpen, UnsentIsOpen
<1>5. OffIsUnknown' /\ LostIsUnknown'
  BY <1>2, <1>3 DEF ConnInv, OffIsUnknown, LostIsUnknown, Alive
<1>6. LossIsTrue'
  BY <1>2, <1>3 DEF ConnInv, LossIsTrue
<1>7. RequestIsFirst'
  BY <1>2, <1>3, SentAt DEF ConnInv, RequestIsFirst, DiscMsg
<1> QED
  BY <1>2, <1>4, <1>5, <1>6, <1>7 DEF ConnInv

(* A service that opens a connection nobody has and sends its request.     *)
LEMMA OpeningKeepsConn ==
  ASSUME TypeInv, ConnInv, NEW s \in Services, NEW m, ~sock[s], ~conn[s], NoEntryOf(s),
         NSAccept(s), conn' = [conn EXCEPT ![s] = TRUE],
         toNS' = [toNS EXCEPT ![s] = Append(@, m)], UNCHANGED toSvc,
         phase'[s] # "off", \A t \in Services : t # s => phase'[t] = phase[t]
  PROVE  ConnInv'
<1>1. /\ toNS \in [Services -> Seq(NSMessages)] /\ toSvc \in [Services -> Seq(SvcMessages)]
      /\ conn \in [Services -> BOOLEAN] /\ sock \in [Services -> BOOLEAN]
      /\ appId \in [Services -> SIds \cup {NoSId}] /\ registered \in SUBSET CServiceEntry
  BY DEF TypeInv, TypeOK, NetTypeOK, NSTypeOK
<1>2. UNCHANGED registered /\ \A t \in Services : NoEntryOf(t) <=> NoEntryOf(t)'
  BY DEF NSAccept, NoEntryOf
<1>3. toNS[s] = <<>> /\ toSvc[s] = <<>>
  BY DEF ConnInv, UnreadIsOpen, UnsentIsOpen
<1>4. /\ \A t \in Services : t # s =>
           /\ phase'[t] = phase[t] /\ conn'[t] = conn[t] /\ sock'[t] = sock[t]
           /\ appId'[t] = appId[t] /\ toNS'[t] = toNS[t]
      /\ conn'[s] /\ sock'[s] /\ Len(toNS'[s]) = 1
  BY <1>1, <1>3 DEF NSAccept
<1>5. UnreadIsOpen' /\ UnsentIsOpen'
  BY <1>4 DEF ConnInv, UnreadIsOpen, UnsentIsOpen
<1>6. OffIsUnknown' /\ LostIsUnknown'
  BY <1>2, <1>4 DEF ConnInv, OffIsUnknown, LostIsUnknown, Alive
<1>7. LossIsTrue'
  BY <1>2, <1>3, <1>4 DEF ConnInv, LossIsTrue
<1>8. RequestIsFirst'
  BY <1>2, <1>4 DEF ConnInv, RequestIsFirst
<1>9. OneEntryEach' /\ LiveEntriesAreConnected'
  <2>1. \A e \in registered : e.svc \in Services /\ e.svc # s
    BY <1>1 DEF NoEntryOf, CServiceEntry
  <2>2. LiveEntriesAreConnected'
    BY <1>2, <1>4, <2>1 DEF ConnInv, LiveEntriesAreConnected
  <2> QED
    BY <1>2, <2>2 DEF ConnInv, OneEntryEach
<1> QED
  BY <1>2, <1>5, <1>6, <1>7, <1>8, <1>9 DEF ConnInv

(* A grant, to a service whose request is at the head of its queue.        *)
LEMMA GrantKeepsConn ==
  ASSUME TypeInv, ConnInv, NEW s \in Services, NEW i \in SIds, Grant(s, i),
         toNS[s] # <<>>, Head(toNS[s]).type \in {"RG", "RRG"},
         toNS' = [toNS EXCEPT ![s] = Tail(@)],
         toSvc' = AfterGrant(s, i) \/ UNCHANGED toSvc,
         UNCHANGED <<conn, sock, clientVars>>
  PROVE  ConnInv'
<1>1. /\ toNS \in [Services -> Seq(NSMessages)] /\ toSvc \in [Services -> Seq(SvcMessages)]
  BY DEF TypeInv, TypeOK, NetTypeOK
<1>2. sock[s] /\ NoEntryOf(s)
  BY <1>1, HeadAt DEF ConnInv, UnreadIsOpen, RequestIsFirst
<1>3. /\ OneEntryEach' /\ LiveEntriesAreConnected'
      /\ \A t \in Services : t # s /\ NoEntryOf(t) => NoEntryOf(t)'
  BY <1>2, GrantEntries
<1>4. NoLossSent
  BY AfterGrantAt DEF NoLossSent
<1>5. /\ \A t \in Services : t # s => toNS'[t] = toNS[t]
      /\ toNS'[s] = Tail(toNS[s])
  BY <1>1
<1>6. UnreadIsOpen' /\ UnsentIsOpen'
  BY <1>2, <1>4, <1>5 DEF ConnInv, UnreadIsOpen, UnsentIsOpen, NoLossSent
<1>7. OffIsUnknown' /\ LostIsUnknown'
  BY <1>2, <1>3 DEF ConnInv, OffIsUnknown, LostIsUnknown, Alive, clientVars
<1>8. LossIsTrue'
  BY <1>2, <1>3, <1>4 DEF ConnInv, LossIsTrue, NoLossSent
<1>9. RequestIsFirst'
  <2>1. \A n \in 1 .. Len(toNS'[s]) : toNS'[s][n].type \notin {"RG", "RRG"}
    <3> TAKE n \in 1 .. Len(toNS'[s])
    <3>1. n + 1 \in 1 .. Len(toNS[s]) /\ toNS'[s][n] = toNS[s][n + 1] /\ n + 1 # 1
      BY <1>1, <1>5, TailAt
    <3> QED
      BY <3>1 DEF ConnInv, RequestIsFirst
  <2> QED
    BY <1>3, <1>5, <2>1 DEF ConnInv, RequestIsFirst
<1> QED
  BY <1>3, <1>6, <1>7, <1>8, <1>9 DEF ConnInv

(* A denial.                                                               *)
LEMMA DenialKeepsConn ==
  ASSUME TypeInv, ConnInv, NEW s \in Services, toNS[s] # <<>>,
         toNS' = [toNS EXCEPT ![s] = Tail(@)],
         toSvc' = AfterDenial(s) \/ UNCHANGED toSvc,
         UNCHANGED <<registered, appId, conn, sock, clientVars>>
  PROVE  ConnInv'
<1>1. Rewritten
  BY CheckRewrites
<1>2. HeadsTaken
  BY DEF HeadsTaken, TypeInv, TypeOK, NetTypeOK
<1>3. NoLossSent
  BY BroadcastsNoLoss DEF AfterDenial, DenyMsg, NoLossSent
<1> QED
  BY <1>1, <1>2, <1>3, RewritingKeepsConn

(* A service that reads a message of the NS, and may answer it.            *)
LEMMA ReadingKeepsConn ==
  ASSUME TypeInv, ConnInv, NEW s \in Services, toSvc[s] # <<>>,
         toSvc' = [toSvc EXCEPT ![s] = Tail(@)],
         UNCHANGED <<registered, appId, sock, conn>>,
         \/ phase' = phase
         \/ phase[s] = "registering" /\ phase' = [phase EXCEPT ![s] = "registered"],
         \/ toNS' = toNS
         \/ \E m : m.type = "ACK_UNI" /\ toNS' = [toNS EXCEPT ![s] = Sent(s, m)]
  PROVE  ConnInv'
<1>1. /\ toNS \in [Services -> Seq(NSMessages)] /\ toSvc \in [Services -> Seq(SvcMessages)]
      /\ phase \in [Services -> {"off", "registering", "registered", "running", "dead"}]
  BY DEF TypeInv, TypeOK, NetTypeOK, ClientTypeOK
<1>2. /\ OneEntryEach' /\ LiveEntriesAreConnected'
      /\ \A t \in Services : NoEntryOf(t) <=> NoEntryOf(t)'
  BY ClientKeepsEntries DEF ConnInv
<1>3. /\ \A t \in Services : t # s => toSvc'[t] = toSvc[t]
      /\ toSvc'[s] = Tail(toSvc[s])
  BY <1>1
<1>4. \A t \in Services :
        /\ \A n \in 1 .. Len(toNS'[t]) :
             \/ n \in 1 .. Len(toNS[t]) /\ toNS'[t][n] = toNS[t][n]
             \/ toNS'[t][n].type = "ACK_UNI"
        /\ ~sock[t] => toNS'[t] = toNS[t]
  BY <1>1, SentAt
<1>5. \A t \in Services : \/ phase'[t] = phase[t]
                          \/ phase[t] = "registering" /\ phase'[t] = "registered"
  BY <1>1
<1>6. UnreadIsOpen' /\ UnsentIsOpen'
  BY <1>3, <1>4 DEF ConnInv, UnreadIsOpen, UnsentIsOpen
<1>7. OffIsUnknown' /\ LostIsUnknown'
  BY <1>2, <1>5 DEF ConnInv, OffIsUnknown, LostIsUnknown, Alive
<1>8. LossIsTrue'
  <2>1. \A n \in 1 .. Len(toSvc'[s]) : toSvc'[s][n].type = "DISC" => ~sock[s] /\ NoEntryOf(s)
    BY <1>1, <1>3, TailAt DEF ConnInv, LossIsTrue
  <2> QED
    BY <1>2, <1>3, <2>1 DEF ConnInv, LossIsTrue
<1>9. RequestIsFirst'
  BY <1>2, <1>4 DEF ConnInv, RequestIsFirst
<1> QED
  BY <1>2, <1>6, <1>7, <1>8, <1>9 DEF ConnInv

LEMMA ConnStep == TypeInv /\ ConnInv /\ [Next]_vars => ConnInv'
<1> SUFFICES ASSUME TypeInv, ConnInv, [Next]_vars PROVE ConnInv'
  OBVIOUS
<1>0. /\ toNS \in [Services -> Seq(NSMessages)] /\ toSvc \in [Services -> Seq(SvcMessages)]
      /\ conn \in [Services -> BOOLEAN] /\ sock \in [Services -> BOOLEAN]
      /\ phase \in [Services -> {"off", "registering", "registered", "running", "dead"}]
      /\ registered \in SUBSET CServiceEntry
  BY DEF TypeInv, TypeOK, NetTypeOK, NSTypeOK, ClientTypeOK
<1>1. ASSUME NEW s \in Services, Start(s) PROVE ConnInv'
  <2>1. ~sock[s] /\ ~conn[s] /\ NoEntryOf(s)
    BY <1>1 DEF Start, ClientStart, ConnInv, OffIsUnknown
  <2>2. phase'[s] # "off" /\ \A t \in Services : t # s => phase'[t] = phase[t]
    BY <1>0, <1>1 DEF Start, ClientStart
  <2> QED
    BY <1>1, <2>1, <2>2, OpeningKeepsConn DEF Start, ClientStart
<1>2. ASSUME NEW s \in Services, Reconnect(s) PROVE ConnInv'
  <2>1. ~sock[s] /\ ~conn[s] /\ NoEntryOf(s)
    BY <1>2 DEF Reconnect, ClientReconnect, ConnInv, LostIsUnknown, Alive
  <2>2. phase'[s] # "off" /\ \A t \in Services : t # s => phase'[t] = phase[t]
    BY <1>2 DEF Reconnect, ClientReconnect, clientVars
  <2> QED
    BY <1>2, <2>1, <2>2, OpeningKeepsConn DEF Reconnect, ClientReconnect
<1>3. ASSUME NEW s \in Services, Register(s) PROVE ConnInv'
  <2> USE <1>3 DEF Register, NSRegister, NSReads
  <2>1. CASE \E i \in SIds : Grant(s, i) /\ toSvc' = AfterGrant(s, i)
    BY <2>1, GrantKeepsConn
  <2>2. CASE toSvc' = AfterDenial(s) /\ UNCHANGED <<online, registered, nextPos, appId>>
    BY <2>2, DenialKeepsConn
  <2> QED
    BY <2>1, <2>2
<1>4. ASSUME NEW s \in Services, Reregister(s) PROVE ConnInv'
  <2> USE <1>4 DEF Reregister, NSReregister, NSReads
  <2>1. CASE \E i \in SIds : Grant(s, i)
    BY <2>1, GrantKeepsConn
  <2>2. CASE UNCHANGED <<online, registered, nextPos, appId>>
    BY <2>2, DenialKeepsConn
  <2> QED
    BY <2>1, <2>2
<1>5. ASSUME NEW s \in Services, Disconnect(s) PROVE ConnInv'
  <2> USE <1>5 DEF Disconnect, NSDisconnect
  <2>1. /\ \A t \in Services : t # s => toNS'[t] = toNS[t] /\ sock'[t] = sock[t]
        /\ toNS'[s] = <<>> /\ ~sock'[s]
    BY <1>0
  <2>2. Rewritten /\ \A e \in registered' : e.svc = s => e.waiting
    <3>1. ASSUME NEW e \in registered, e.svc = s, doRemove(e)
          PROVE  Rewritten /\ \A g \in registered' : g.svc = s => g.waiting
      BY <3>1, RemoveRewrites DEF ConnInv
    <3>2. CASE registered' = registered /\ \A e \in registered : e.svc = s => e.waiting
      BY <3>2, CheckRewrites
    <3> QED
      BY <3>1, <3>2
  <2>3. /\ \A t \in Services : NoEntryOf(t) => NoEntryOf(t)'
        /\ OneEntryEach'
        /\ \A e \in registered' : ~e.waiting =>
             \E f \in registered : ~f.waiting /\ f.svc = e.svc /\ f.sid = e.sid
    BY <2>2, RewrittenEntries DEF ConnInv
  <2>4. NoLossSent
    <3>1. ASSUME NEW e \in registered, toSvc' = Broadcast(Told(e), DownMsg(e.sid, s))
          PROVE  NoLossSent
      BY <3>1, BroadcastsNoLoss DEF DownMsg
    <3>2. CASE UNCHANGED toSvc
      BY <3>2 DEF NoLossSent
    <3> QED
      BY <3>1, <3>2
  <2>5. UnreadIsOpen' /\ UnsentIsOpen'
    BY <2>1, <2>4 DEF ConnInv, UnreadIsOpen, UnsentIsOpen, NoLossSent
  <2>6. OffIsUnknown' /\ LostIsUnknown'
    BY <2>1, <2>3 DEF ConnInv, OffIsUnknown, LostIsUnknown, Alive, clientVars
  <2>7. LossIsTrue'
    BY <2>1, <2>3, <2>4 DEF ConnInv, LossIsTrue, NoLossSent
  <2>8. RequestIsFirst'
    BY <2>1, <2>3 DEF ConnInv, RequestIsFirst
  <2>9. LiveEntriesAreConnected'
    <3>1. \A e \in registered : e.svc \in Services
      BY <1>0 DEF CServiceEntry
    <3> QED
      BY <2>1, <2>2, <2>3, <3>1 DEF ConnInv, LiveEntriesAreConnected
  <2> QED
    BY <2>3, <2>5, <2>6, <2>7, <2>8, <2>9 DEF ConnInv
<1>6. ASSUME NEW s \in Services, Ack(s) PROVE ConnInv'
  <2>1. HeadsTaken
    BY <1>0, <1>6 DEF Ack, NSAck, NSReads, HeadsTaken
  <2> QED
    BY <1>6, <2>1, AckRewrites, RewritingKeepsConn DEF Ack, NSAck, NoLossSent
<1>7. CASE Update
  <2>1. Rewritten
    BY <1>7, CheckRewrites DEF Update, NSUpdate, CheckWaiting
  <2> QED
    BY <1>7, <2>1, RewritingKeepsConn DEF Update, NSUpdate, netVars, HeadsTaken, NoLossSent
<1>8. CASE Timeout
  <2>1. PICK e \in registered : NSTimeout(e)
    BY <1>8 DEF Timeout
  <2> QED
    BY <1>8, <2>1, TimeoutRewrites, RewritingKeepsConn
    DEF Timeout, NSTimeout, netVars, HeadsTaken, NoLossSent
<1>9. CASE Kill
  <2>1. PICK e \in registered : NSKill(e)
    BY <1>9 DEF Kill
  <2>2. NoLossSent
    BY <2>1, BroadcastsNoLoss DEF NSKill, DownMsg
  <2> QED
    BY <1>9, <2>1, <2>2, RemoveRewrites, RewritingKeepsConn DEF Kill, NSKill, HeadsTaken
<1>10. CASE LoseNS
  <2> USE <1>10 DEF LoseNS, NSCrash
  <2>1. \A t \in Services : ~sock'[t] /\ toNS'[t] = <<>> /\ NoEntryOf(t)'
    BY DEF NoEntryOf
  <2>2. UnreadIsOpen' /\ RequestIsFirst' /\ LossIsTrue'
    BY <2>1 DEF UnreadIsOpen, RequestIsFirst, LossIsTrue
  <2>3. UnsentIsOpen'
    BY BroadcastAt DEF ConnInv, UnsentIsOpen
  <2>4. OffIsUnknown' /\ LostIsUnknown'
    BY <2>1 DEF ConnInv, OffIsUnknown, LostIsUnknown, clientVars
  <2>5. OneEntryEach' /\ LiveEntriesAreConnected'
    BY DEF OneEntryEach, LiveEntriesAreConnected
  <2> QED
    BY <2>2, <2>3, <2>4, <2>5 DEF ConnInv
<1>11. CASE RestartNS
  <2>1. Rewritten
    BY <1>11, CheckRewrites DEF RestartNS, NSRestart
  <2> QED
    BY <1>11, <2>1, RewritingKeepsConn DEF RestartNS, NSRestart, netVars, HeadsTaken, NoLossSent
<1>12. ASSUME NEW s \in Services, Registered(s) PROVE ConnInv'
  <2> USE <1>12 DEF Registered, ClientRegistered
  <2> DEFINE m == Head(toSvc[s])
  <2>1. CASE m.ok /\ phase' = [phase EXCEPT ![s] = "registered"]
             /\ toSvc' = [toSvc EXCEPT ![s] = Tail(@)] /\ UNCHANGED <<conn, toNS>>
    BY <2>1, ReadingKeepsConn DEF nsVars, SvcReads
  <2>2. CASE Dies(s)
    BY <2>2, DyingKeepsConn DEF nsVars, Alive
  <2> QED
    BY <2>1, <2>2
<1>13. ASSUME NEW s \in Services, Connect(s) PROVE ConnInv'
  <2> USE <1>13 DEF Connect, ClientConnect, netVars, nsVars
  <2>1. /\ OneEntryEach' /\ LiveEntriesAreConnected'
        /\ \A t \in Services : NoEntryOf(t) <=> NoEntryOf(t)'
    BY ClientKeepsEntries DEF ConnInv
  <2>2. \A t \in Services : phase'[t] = phase[t] \/ (Alive(t) /\ phase'[t] = "running")
    BY <1>0 DEF Alive
  <2>3. OffIsUnknown' /\ LostIsUnknown'
    BY <2>1, <2>2 DEF ConnInv, OffIsUnknown, LostIsUnknown, Alive
  <2>4. UnreadIsOpen' /\ UnsentIsOpen' /\ LossIsTrue' /\ RequestIsFirst'
    BY <2>1 DEF ConnInv, UnreadIsOpen, UnsentIsOpen, LossIsTrue, RequestIsFirst
  <2> QED
    BY <2>1, <2>3, <2>4 DEF ConnInv
<1>14. ASSUME NEW s \in Services, ServiceUp(s) PROVE ConnInv'
  BY <1>14, ReadingKeepsConn DEF ServiceUp, ClientServiceUp, SvcReads, nsVars
<1>15. ASSUME NEW s \in Services, ServiceDown(s) PROVE ConnInv'
  BY <1>15, ReadingKeepsConn, SentAt DEF ServiceDown, ClientServiceDown, SvcReads, nsVars, AckMsg
<1>16. ASSUME NEW s \in Services, LosesNS(s) PROVE ConnInv'
  <2> USE <1>16 DEF LosesNS, ClientLosesNS, nsVars, clientVars
  <2>1. /\ OneEntryEach' /\ LiveEntriesAreConnected'
        /\ \A t \in Services : NoEntryOf(t) <=> NoEntryOf(t)'
    BY ClientKeepsEntries DEF ConnInv
  <2>2. ~sock[s] /\ NoEntryOf(s)
    BY <1>0, HeadAt DEF SvcReads, ConnInv, LossIsTrue
  <2>3. /\ \A t \in Services : t # s => toSvc'[t] = toSvc[t] /\ conn'[t] = conn[t]
        /\ toSvc'[s] = <<>> /\ ~conn'[s]
    BY <1>0
  <2>4. UnreadIsOpen' /\ UnsentIsOpen'
    BY <2>3 DEF ConnInv, UnreadIsOpen, UnsentIsOpen
  <2>5. OffIsUnknown' /\ LostIsUnknown'
    BY <2>1, <2>2, <2>3 DEF ConnInv, OffIsUnknown, LostIsUnknown, Alive
  <2>6. LossIsTrue' /\ RequestIsFirst'
    BY <2>1, <2>3 DEF ConnInv, LossIsTrue, RequestIsFirst
  <2> QED
    BY <2>1, <2>4, <2>5, <2>6 DEF ConnInv
<1>17. ASSUME NEW s \in Services, Exit(s) PROVE ConnInv'
  BY <1>17, DyingKeepsConn DEF Exit, ClientExit, nsVars, Alive
<1>18. ASSUME NEW s \in Services, Crash(s) PROVE ConnInv'
  BY <1>18, DyingKeepsConn DEF Crash, ClientCrash, nsVars
<1>19. CASE UNCHANGED vars
  <2>1. Rewritten
    BY <1>19, CheckRewrites DEF vars, nsVars
  <2> QED
    BY <1>19, <2>1, RewritingKeepsConn DEF vars, nsVars, netVars, HeadsTaken, NoLossSent
<1> QED
  BY <1>1, <1>2, <1>3, <1>4, <1>5, <1>6, <1>7, <1>8, <1>9, <1>10, <1>11, <1>12, <1>13, <1>14,
     <1>15, <1>16, <1>17, <1>18, <1>19 DEF Next, ServiceStep, NSStep

(* An entry of the NS that does not wait for acknowledgements stands for   *)
(* an open connection that carries the entry's SId, for any services and   *)
(* any number of crashes of services and of the NS: the acknowledgements   *)
(* that a removal awaits are counted for the service that sends them.      *)
THEOREM ConnectedCorrect == Spec => []LiveEntriesAreConnected
<1>1. Init => TypeInv /\ ConnInv
  BY TypeInit, ConnInit, NetAssumption
<1>2. TypeInv /\ ConnInv /\ [Next]_vars => (TypeInv /\ ConnInv)'
  BY TypeStep, ConnStep, NetAssumption
<1>3. TypeInv /\ ConnInv => LiveEntriesAreConnected
  BY DEF ConnInv
<1> QED
  BY <1>1, <1>2, <1>3, PTL DEF Spec

-----------------------------------------------------------------------------
(* Distinct SIds.  Two things can give an SId twice: a config file that    *)
(* names it (NamingFixedSIds.cfg shows it) and a service that registers    *)
(* again after an NS crash.  Without them every request leaves the choice  *)
(* to the NS.                                                              *)
DynamicSIds == \A s \in Services : ReqSId[s] = NoSId

AliveIsConnected == \A s \in Services : Alive(s) => conn[s]
NoLossRead ==
  \A s \in Services : \A n \in 1 .. Len(toSvc[s]) : toSvc[s][n].type # "DISC"
RequestIsOpen ==
  \A s \in Services : \A n \in 1 .. Len(toNS[s]) :
    /\ toNS[s][n].type # "RRG"
    /\ toNS[s][n].type = "RG" => toNS[s][n].sid = NoSId

SIdInv ==
  /\ nsCrashes = 0
  /\ AliveIsConnected /\ NoLossRead /\ RequestIsOpen /\ EntriesHaveDistinctSIds

LEMMA SIdInit == Init => SIdInv
  BY DEF Init, NetInit, NSInit, ClientInit, SIdInv, AliveIsConnected, NoLossRead, RequestIsOpen,
     EntriesHaveDistinctSIds, Alive

(* The SId that the NS chooses is in no entry, waiting ones included.      *)
LEMMA ChosenIsNew ==
  ASSUME TypeInv, EntriesHaveDistinctSIds, NEW s \in Services, NEW i \in SIds,
         ChosenSId(NoSId, i), Grant(s, i)
  PROVE  EntriesHaveDistinctSIds'
<1>1. NewEntry(s, i).sid = i
  BY DEF NewEntry
<1>2. \A e \in registered : e.sid # i
  BY DEF ChosenSId, UsedSIds
<1> QED
  BY <1>1, <1>2 DEF Grant, EntriesHaveDistinctSIds

(* A step of the NS: it takes heads and sends no loss.                     *)
LEMMA NSKeepsSIdInv ==
  ASSUME TypeInv, SIdInv, EntriesHaveDistinctSIds', HeadsTaken, NoLossSent,
         UNCHANGED <<phase, conn, nsCrashes>>
  PROVE  SIdInv'
<1>1. AliveIsConnected' /\ NoLossRead'
  BY DEF SIdInv, AliveIsConnected, NoLossRead, Alive, NoLossSent
<1>2. RequestIsOpen'
  <2> SUFFICES ASSUME NEW t \in Services, NEW n \in 1 .. Len(toNS'[t])
               PROVE  /\ toNS'[t][n].type # "RRG"
                      /\ toNS'[t][n].type = "RG" => toNS'[t][n].sid = NoSId
    BY DEF RequestIsOpen
  <2>1. \E k \in 1 .. Len(toNS[t]) : toNS'[t][n] = toNS[t][k]
    <3>1. toNS[t] \in Seq(NSMessages)
      BY DEF TypeInv, TypeOK, NetTypeOK
    <3>2. CASE toNS'[t] = toNS[t]
      BY <3>2
    <3>3. CASE toNS[t] # <<>> /\ toNS'[t] = Tail(toNS[t])
      BY <3>1, <3>3, TailAt
    <3> QED
      BY <3>2, <3>3 DEF HeadsTaken
  <2> QED
    BY <2>1 DEF SIdInv, RequestIsOpen
<1> QED
  BY <1>1, <1>2 DEF SIdInv

(* A step of a service: what it sends is neither a request with an SId nor *)
(* a second registration; it may take the head of its queue or empty it.   *)
LEMMA ClientKeepsSIdInv ==
  ASSUME TypeInv, SIdInv, UNCHANGED <<registered, nsCrashes>>, AliveIsConnected', NEW m,
         m.type # "RRG", m.type = "RG" => m.sid = NoSId,
         \A t \in Services : \/ toNS'[t] = toNS[t]
                             \/ toNS'[t] = Append(toNS[t], m),
         \A t \in Services : \/ toSvc'[t] \in {toSvc[t], <<>>}
                             \/ toSvc[t] # <<>> /\ toSvc'[t] = Tail(toSvc[t])
  PROVE  SIdInv'
<1>1. /\ toNS \in [Services -> Seq(NSMessages)] /\ toSvc \in [Services -> Seq(SvcMessages)]
  BY DEF TypeInv, TypeOK, NetTypeOK
<1>2. EntriesHaveDistinctSIds'
  BY DEF SIdInv, EntriesHaveDistinctSIds
<1>3. RequestIsOpen'
  <2>1. ASSUME NEW t \in Services, NEW n \in 1 .. Len(toNS'[t])
        PROVE  toNS'[t][n] = m \/ \E k \in 1 .. Len(toNS[t]) : toNS'[t][n] = toNS[t][k]
    <3>1. CASE toNS'[t] = toNS[t]
      BY <3>1
    <3>2. CASE toNS'[t] = Append(toNS[t], m)
      <4>1. n = Len(toNS[t]) + 1 \/ n \in 1 .. Len(toNS[t])
        BY <1>1, <3>2
      <4> QED
        BY <1>1, <3>2, <4>1
    <3> QED
      BY <3>1, <3>2
  <2> QED
    BY <2>1 DEF SIdInv, RequestIsOpen
<1>4. NoLossRead'
  <2>1. ASSUME NEW t \in Services, NEW n \in 1 .. Len(toSvc'[t])
        PROVE  \E k \in 1 .. Len(toSvc[t]) : toSvc'[t][n] = toSvc[t][k]
    <3>1. CASE toSvc'[t] \in {toSvc[t], <<>>}
      BY <3>1
    <3>2. CASE toSvc[t] # <<>> /\ toSvc'[t] = Tail(toSvc[t])
      BY <1>1, <3>2, TailAt
    <3> QED
      BY <3>1, <3>2
  <2> QED
    BY <2>1 DEF SIdInv, NoLossRead
<1> QED
  BY <1>2, <1>3, <1>4 DEF SIdInv

LEMMA DyingKeepsSIdInv ==
  ASSUME TypeInv, SIdInv, NEW s \in Services, Dies(s), UNCHANGED <<registered, nsCrashes>>
  PROVE  SIdInv'
<1>1. /\ toNS \in [Services -> Seq(NSMessages)] /\ toSvc \in [Services -> Seq(SvcMessages)]
      /\ phase \in [Services -> {"off", "registering", "registered", "running", "dead"}]
      /\ conn \in [Services -> BOOLEAN]
  BY DEF TypeInv, TypeOK, NetTypeOK, ClientTypeOK
<1>2. AliveIsConnected'
  BY <1>1 DEF Dies, SIdInv, AliveIsConnected, Alive
<1>3. \A t \in Services : toNS'[t] = toNS[t] \/ toNS'[t] = Append(toNS[t], DiscMsg)
  BY <1>1 DEF Dies, Sent
<1>4. \A t \in Services : toSvc'[t] \in {toSvc[t], <<>>}
  BY <1>1 DEF Dies
<1>5. DiscMsg.type # "RRG" /\ DiscMsg.type # "RG"
  BY DEF DiscMsg
<1> QED
  BY <1>2, <1>3, <1>4, <1>5, ClientKeepsSIdInv

(* A service that reads a message of the NS, and may acknowledge it.       *)
LEMMA ReadingKeepsSIdInv ==
  ASSUME TypeInv, SIdInv, NEW s \in Services, UNCHANGED <<registered, nsCrashes>>,
         AliveIsConnected', toSvc[s] # <<>>, toSvc' = [toSvc EXCEPT ![s] = Tail(@)],
         \/ toNS' = toNS
         \/ \E m : m.type = "ACK_UNI" /\ toNS' = [toNS EXCEPT ![s] = Append(@, m)]
  PROVE  SIdInv'
<1>1. /\ toNS \in [Services -> Seq(NSMessages)] /\ toSvc \in [Services -> Seq(SvcMessages)]
  BY DEF TypeInv, TypeOK, NetTypeOK
<1>2. PICK m : /\ m.type \notin {"RG", "RRG"}
               /\ toNS' = toNS \/ toNS' = [toNS EXCEPT ![s] = Append(@, m)]
  <2>1. DiscMsg.type \notin {"RG", "RRG"}
    BY DEF DiscMsg
  <2> QED
    BY <2>1
<1>3. \A t \in Services : toNS'[t] = toNS[t] \/ toNS'[t] = Append(toNS[t], m)
  BY <1>1, <1>2
<1>4. \A t \in Services : \/ toSvc'[t] \in {toSvc[t], <<>>}
                          \/ toSvc[t] # <<>> /\ toSvc'[t] = Tail(toSvc[t])
  BY <1>1
<1> QED
  BY <1>2, <1>3, <1>4, ClientKeepsSIdInv

LEMMA SIdStep ==
  MaxNSCrashes = 0 /\ DynamicSIds /\ TypeInv /\ SIdInv /\ [Next]_vars => SIdInv'
<1> SUFFICES ASSUME MaxNSCrashes = 0, DynamicSIds, TypeInv, SIdInv, [Next]_vars
             PROVE  SIdInv'
  OBVIOUS
<1>0. /\ toNS \in [Services -> Seq(NSMessages)] /\ toSvc \in [Services -> Seq(SvcMessages)]
      /\ conn \in [Services -> BOOLEAN] /\ sock \in [Services -> BOOLEAN]
      /\ phase \in [Services -> {"off", "registering", "registered", "running", "dead"}]
      /\ registered \in SUBSET CServiceEntry
  BY DEF TypeInv, TypeOK, NetTypeOK, NSTypeOK, ClientTypeOK
<1>1. ASSUME NEW s \in Services, Start(s) PROVE SIdInv'
  <2> USE <1>1 DEF Start, ClientStart, NSAccept, envVars
  <2>1. AliveIsConnected'
    BY <1>0 DEF SIdInv, AliveIsConnected, Alive
  <2>2. RegMsg(ReqSId[s]).type = "RG" /\ RegMsg(ReqSId[s]).sid = NoSId
    BY DEF DynamicSIds, RegMsg
  <2>3. \A t \in Services : toNS'[t] = toNS[t] \/ toNS'[t] = Append(toNS[t], RegMsg(ReqSId[s]))
    BY <1>0
  <2> QED
    BY <2>1, <2>2, <2>3, ClientKeepsSIdInv
<1>2. ASSUME NEW s \in Services, Reconnect(s) PROVE SIdInv'
  BY <1>2 DEF Reconnect, ClientReconnect, SIdInv, AliveIsConnected, Alive
<1>3. ASSUME NEW s \in Services, Register(s) PROVE SIdInv'
  <2> USE <1>3 DEF Register, NSRegister, clientVars, envVars
  <2>1. HeadsTaken /\ toNS[s] # <<>>
    BY <1>0 DEF HeadsTaken, NSReads
  <2>2. Head(toNS[s]).sid = NoSId
    BY <1>0, HeadAt DEF NSReads, SIdInv, RequestIsOpen
  <2>3. ASSUME NEW i \in SIds, ChosenSId(NoSId, i), Grant(s, i), toSvc' = AfterGrant(s, i)
        PROVE  SIdInv'
    <3>1. EntriesHaveDistinctSIds'
      BY <2>3, ChosenIsNew DEF SIdInv
    <3>2. NoLossSent
      BY <2>3, AfterGrantAt DEF NoLossSent
    <3> QED
      BY <2>1, <3>1, <3>2, NSKeepsSIdInv
  <2>4. CASE toSvc' = AfterDenial(s) /\ UNCHANGED <<online, registered, nextPos, appId>>
    <3>1. EntriesHaveDistinctSIds'
      BY <2>4 DEF SIdInv, EntriesHaveDistinctSIds
    <3>2. NoLossSent
      BY <2>4, BroadcastsNoLoss DEF AfterDenial, DenyMsg
    <3> QED
      BY <2>1, <3>1, <3>2, NSKeepsSIdInv
  <2> QED
    BY <2>2, <2>3, <2>4 DEF Granted
<1>4. ASSUME NEW s \in Services, Reregister(s) PROVE SIdInv'
  BY <1>0, <1>4, HeadAt DEF Reregister, NSReregister, NSReads, SIdInv, RequestIsOpen
<1>5. ASSUME NEW s \in Services, Disconnect(s) PROVE SIdInv'
  <2> USE <1>5 DEF Disconnect, NSDisconnect, clientVars, envVars
  <2>1. Rewritten
    BY RemoveRewrites, CheckRewrites
  <2>2. EntriesHaveDistinctSIds'
    BY <2>1, RewrittenEntries DEF SIdInv
  <2>3. NoLossSent
    <3>1. CASE UNCHANGED toSvc
      BY <3>1 DEF NoLossSent
    <3>2. ASSUME NEW e \in registered, toSvc' = Broadcast(Told(e), DownMsg(e.sid, s))
          PROVE  NoLossSent
      BY <3>2, BroadcastsNoLoss DEF DownMsg
    <3> QED
      BY <3>1, <3>2
  <2>4. AliveIsConnected' /\ NoLossRead'
    BY <2>3 DEF SIdInv, AliveIsConnected, NoLossRead, Alive, NoLossSent
  <2>5. RequestIsOpen'
    <3>1. \A t \in Services : toNS'[t] \in {toNS[t], <<>>}
      BY <1>0
    <3> QED
      BY <3>1 DEF SIdInv, RequestIsOpen
  <2> QED
    BY <2>2, <2>4, <2>5 DEF SIdInv
<1>6. ASSUME NEW s \in Services, Ack(s) PROVE SIdInv'
  <2> USE <1>6 DEF Ack, NSAck, clientVars, envVars
  <2>1. EntriesHaveDistinctSIds'
    BY AckRewrites, RewrittenEntries DEF SIdInv
  <2>2. HeadsTaken /\ NoLossSent
    BY <1>0 DEF HeadsTaken, NoLossSent, NSReads
  <2> QED
    BY <2>1, <2>2, NSKeepsSIdInv
<1>7. CASE Update
  <2> USE <1>7 DEF Update, NSUpdate, netVars, clientVars, envVars
  <2>1. EntriesHaveDistinctSIds'
    BY CheckRewrites, RewrittenEntries DEF SIdInv, CheckWaiting
  <2>2. HeadsTaken /\ NoLossSent
    BY DEF HeadsTaken, NoLossSent
  <2> QED
    BY <2>1, <2>2, NSKeepsSIdInv
<1>8. CASE Timeout
  <2> USE <1>8 DEF Timeout, clientVars, envVars
  <2>1. PICK e \in registered : NSTimeout(e)
    OBVIOUS
  <2>2. EntriesHaveDistinctSIds'
    BY <2>1, TimeoutRewrites, RewrittenEntries DEF SIdInv
  <2>3. HeadsTaken /\ NoLossSent
    BY <2>1 DEF NSTimeout, netVars, HeadsTaken, NoLossSent
  <2> QED
    BY <2>1, <2>2, <2>3, NSKeepsSIdInv DEF NSTimeout, netVars
<1>9. CASE Kill
  <2> USE <1>9 DEF Kill, clientVars
  <2>1. PICK e \in registered : NSKill(e)
    OBVIOUS
  <2>2. EntriesHaveDistinctSIds'
    BY <2>1, RemoveRewrites, RewrittenEntries DEF SIdInv, NSKill
  <2>3. HeadsTaken /\ NoLossSent
    BY <2>1, BroadcastsNoLoss DEF NSKill, HeadsTaken, DownMsg
  <2> QED
    BY <2>1, <2>2, <2>3, NSKeepsSIdInv DEF NSKill
<1>10. CASE LoseNS
  BY <1>10 DEF LoseNS, SIdInv
<1>11. CASE RestartNS
  <2> USE <1>11 DEF RestartNS, NSRestart, netVars, clientVars, envVars
  <2>1. EntriesHaveDistinctSIds' /\ HeadsTaken /\ NoLossSent
    BY DEF SIdInv, EntriesHaveDistinctSIds, HeadsTaken, NoLossSent
  <2> QED
    BY <2>1, NSKeepsSIdInv
<1>12. ASSUME NEW s \in Services, Registered(s) PROVE SIdInv'
  <2> USE <1>12 DEF Registered, ClientRegistered, nsVars, envVars
  <2>1. CASE /\ phase' = [phase EXCEPT ![s] = "registered"]
             /\ toSvc' = [toSvc EXCEPT ![s] = Tail(@)] /\ UNCHANGED <<conn, toNS>>
    <3>1. AliveIsConnected'
      BY <1>0, <2>1 DEF SIdInv, AliveIsConnected, Alive
    <3> QED
      BY <1>0, <2>1, <3>1, ReadingKeepsSIdInv DEF SvcReads
  <2>2. CASE Dies(s)
    BY <2>2, DyingKeepsSIdInv
  <2> QED
    BY <2>1, <2>2
<1>13. ASSUME NEW s \in Services, Connect(s) PROVE SIdInv'
  <2> USE <1>13 DEF Connect, ClientConnect, netVars, nsVars, envVars
  <2>1. AliveIsConnected'
    BY <1>0 DEF SIdInv, AliveIsConnected, Alive
  <2> QED
    BY <2>1 DEF SIdInv, NoLossRead, RequestIsOpen, EntriesHaveDistinctSIds
<1>14. ASSUME NEW s \in Services, ServiceUp(s) PROVE SIdInv'
  <2> USE <1>14 DEF ServiceUp, ClientServiceUp, nsVars, envVars
  <2>1. AliveIsConnected'
    BY DEF SIdInv, AliveIsConnected, Alive
  <2> QED
    BY <2>1, ReadingKeepsSIdInv DEF SvcReads
<1>15. ASSUME NEW s \in Services, ServiceDown(s) PROVE SIdInv'
  <2> USE <1>15 DEF ServiceDown, ClientServiceDown, nsVars, envVars
  <2>1. AliveIsConnected'
    BY DEF SIdInv, AliveIsConnected, Alive
  <2>2. toNS' = toNS \/ toNS' = [toNS EXCEPT ![s] = Append(@, AckMsg(Head(toSvc[s]).sid))]
    BY <1>0 DEF Sent
  <2> QED
    BY <2>1, <2>2, ReadingKeepsSIdInv DEF SvcReads, AckMsg
<1>16. ASSUME NEW s \in Services, LosesNS(s) PROVE SIdInv'
  BY <1>0, <1>16, HeadAt DEF LosesNS, ClientLosesNS, SvcReads, SIdInv, NoLossRead
<1>17. ASSUME NEW s \in Services, Exit(s) PROVE SIdInv'
  BY <1>17, DyingKeepsSIdInv DEF Exit, ClientExit, nsVars, envVars
<1>18. ASSUME NEW s \in Services, Crash(s) PROVE SIdInv'
  BY <1>18, DyingKeepsSIdInv DEF Crash, ClientCrash, nsVars
<1>19. CASE UNCHANGED vars
  BY <1>19 DEF vars, netVars, nsVars, clientVars, envVars, SIdInv, AliveIsConnected, Alive,
     NoLossRead, RequestIsOpen, EntriesHaveDistinctSIds
<1> QED
  BY <1>1, <1>2, <1>3, <1>4, <1>5, <1>6, <1>7, <1>8, <1>9, <1>10, <1>11, <1>12, <1>13, <1>14,
     <1>15, <1>16, <1>17, <1>18, <1>19 DEF Next, ServiceStep, NSStep

(* No two entries of the NS have the same SId, whatever the services,      *)
(* their starts, kills and crashes, and however late acknowledgements are, *)
(* when the NS does not restart and no config file names an SId.           *)
THEOREM DistinctSIdsCorrect ==
  ASSUME MaxNSCrashes = 0, DynamicSIds
  PROVE  Spec => []EntriesHaveDistinctSIds
<1>1. Init => TypeInv /\ SIdInv
  BY TypeInit, SIdInit, NetAssumption
<1>2. TypeInv /\ SIdInv /\ [Next]_vars => (TypeInv /\ SIdInv)'
  BY TypeStep, SIdStep, NetAssumption
<1>3. TypeInv /\ SIdInv => EntriesHaveDistinctSIds
  BY DEF SIdInv
<1> QED
  BY <1>1, <1>2, <1>3, PTL DEF Spec
=============================================================================
