--------------------------- MODULE BackupInterface ---------------------------
(***************************************************************************)
(* The client's side of the backup services, in the EGS: the singleton and *)
(* its implementation over the unified network                             *)
(* (common/src/game_share/backup_service_interface.cpp,                    *)
(* _backup_service_interface_singleton.cpp and                             *)
(* _backup_service_interface_non_module.cpp), and the relay of STALL_MODE  *)
(* to the tick service (common_shard_callbacks.cpp).                       *)
(*                                                                         *)
(* One thread issues requests, reads messages and sends the pings.  A      *)
(* request while no service is connected ends the process (exit(0)), so    *)
(* that none is issued then.                                               *)
(***************************************************************************)
EXTENDS BackupNet

VARIABLES
  counter,      \* _Counter
  requestIds,   \* Seq(RequestIds): CGenericRequestIdRegister::_RequestIds
  responses,    \* Seq(RequestIds): _GenericResponses, those with a callback
  loads,        \* SUBSET RequestIds: _FileResponses
  pingPongs,    \* [BSs -> a set of at most one record]: PingPongs
  ticksHalted,  \* the tick service has been told to halt
  acked,        \* history, Seq(RequestIds): calls of acknowledgement callbacks
  ackedBy,      \* history, [RequestIds -> SUBSET BSs]: whose pong removed the
                \* request from the register
  sent,         \* history, [Files -> Seq(RequestIds)]: the files as written
  expected      \* history, [RequestIds -> Seq(RequestIds)]: the file as it
                \* was written when the load was requested

egsVars == <<counter, requestIds, responses, loads, pingPongs, ticksHalted,
             acked, ackedBy, sent, expected>>

PingPong == [ready : BOOLEAN, last : {0} \cup RequestIds]

EGSTypeOK ==
  /\ counter \in 0 .. MaxRequests
  /\ requestIds \in Seq(RequestIds) /\ responses \in Seq(RequestIds)
  /\ loads \subseteq RequestIds
  /\ pingPongs \in [BSs -> SUBSET PingPong]
  /\ ticksHalted \in BOOLEAN
  /\ acked \in Seq(RequestIds)
  /\ ackedBy \in [RequestIds -> SUBSET BSs]

EGSInit ==
  /\ counter = 0
  /\ requestIds = <<>> /\ responses = <<>> /\ loads = {}
  /\ pingPongs = [b \in BSs |-> {}]
  /\ ticksHalted = FALSE
  /\ acked = <<>> /\ ackedBy = [i \in RequestIds |-> {}]
  /\ sent = [f \in Files |-> NoFile]
  /\ expected = [i \in RequestIds |-> NoFile]

Connected == {b \in BSs : pingPongs[b] # {}}

-----------------------------------------------------------------------------
(* sendFile, append and deleteFile, with a callback or without:            *)
(* pushGenericAckCallback, then the dispatch, to every service named "BS". *)
EGSWrite(t, f, withCallback) ==
  /\ Connected # {} /\ counter < MaxRequests
  /\ LET m == Request(t, counter, f) IN
       /\ SendBSs(Connected, m)
       /\ sent' = [sent EXCEPT ![f] = Written(m, @)]
  /\ counter' = counter + 1
  /\ requestIds' = Append(requestIds, counter)
  /\ responses' = IF withCallback THEN Append(responses, counter) ELSE responses
  /\ UNCHANGED <<link, toEGS, loads, pingPongs, ticksHalted, acked, ackedBy, expected>>

(* requestFile.                                                            *)
EGSRequestFile(f) ==
  /\ Connected # {} /\ counter < MaxRequests
  /\ SendBSs(Connected, Request("load", counter, f))
  /\ counter' = counter + 1
  /\ loads' = loads \cup {counter}
  /\ expected' = [expected EXCEPT ![counter] = sent[f]]
  /\ UNCHANGED <<link, toEGS, requestIds, responses, pingPongs, ticksHalted, acked, ackedBy, sent>>

(* CBSIINonModule::serviceUpdate.                                          *)
EGSServiceUpdate ==
  LET ready == {b \in BSs : \E p \in pingPongs[b] : p.ready} IN
    /\ ready # {}
    /\ SendBSs(ready, PingMsg)
    /\ pingPongs' = [b \in BSs |-> {[p EXCEPT !.ready = FALSE] : p \in pingPongs[b]}]
    /\ UNCHANGED <<link, toEGS, counter, requestIds, responses, loads, ticksHalted,
                   acked, ackedBy, sent, expected>>

-----------------------------------------------------------------------------
EGSReads(b, type) ==
  /\ toEGS[b] # <<>> /\ Head(toEGS[b]).type = type
  /\ toEGS' = [toEGS EXCEPT ![b] = Tail(@)]
  /\ UNCHANGED <<link, toBS>>

NotReadyMutant == [ready |-> FALSE, last |-> 0]
NewPingPong == [ready |-> TRUE, last |-> 0]

cbBSConnection(b) ==
  /\ EGSReads(b, "UP")
  /\ pingPongs' = [pingPongs EXCEPT ![b] = {NewPingPong}]
  /\ UNCHANGED <<counter, requestIds, responses, loads, ticksHalted, acked, ackedBy, sent, expected>>

cbBSDisconnection(b) ==
  /\ EGSReads(b, "DOWN")
  /\ pingPongs' = [pingPongs EXCEPT ![b] = {}]
  /\ UNCHANGED <<counter, requestIds, responses, loads, ticksHalted, acked, ackedBy, sent, expected>>

(* How many ids at the front of a list are not later than last.            *)
UpTo(ids, last) ==
  CHOOSE n \in 0 .. Len(ids) :
    /\ \A i \in 1 .. n : ids[i] <= last
    /\ n < Len(ids) => ids[n + 1] > last

Leading(ids, last) == SubSeq(ids, 1, UpTo(ids, last))
Trailing(ids, last) == SubSeq(ids, UpTo(ids, last) + 1, Len(ids))

OnePastMutant(ids) == IF ids = <<>> THEN 0 ELSE ids[Len(ids)] + 1
getLastRequestId(ids) == IF ids = <<>> THEN 0 ELSE ids[Len(ids)]

(* processCallbacks removes the requests up to last from the register and  *)
(* popGenericCallback the callbacks up to each of them: one that is not of *)
(* a request just removed is skipped, without a call.                      *)
BeforeMutant(done) ==
  IF done = <<>> THEN <<>> ELSE Leading(responses, getLastRequestId(done) - 1)

Popped(done) ==
  IF done = <<>> THEN <<>> ELSE Leading(responses, getLastRequestId(done))

Called(popped, done) ==
  LET called[n \in 0 .. Len(popped)] ==
        IF n = 0 THEN <<>>
        ELSE IF popped[n] \in ToSet(done) THEN Append(called[n - 1], popped[n])
             ELSE called[n - 1]
  IN called[Len(popped)]

processCallbacks(b, last) ==
  LET done == Leading(requestIds, last)
      popped == Popped(done)
  IN /\ requestIds' = Trailing(requestIds, last)
     /\ responses' = SubSeq(responses, Len(popped) + 1, Len(responses))
     /\ acked' = acked \o Called(popped, done)
     /\ ackedBy' = [i \in RequestIds |->
                      IF i \in ToSet(done) THEN ackedBy[i] \cup {b} ELSE ackedBy[i]]

(* What a pong acknowledges: what there was when its ping was prepared.     *)
LatestMutant(p) == getLastRequestId(requestIds)
Acknowledges(p) == p.last

cbBSPingPong(b) ==
  /\ EGSReads(b, "BS_PONG")
  /\ \E p \in pingPongs[b] : processCallbacks(b, Acknowledges(p))
  /\ pingPongs' = [pingPongs EXCEPT ![b] =
                     {[ready |-> TRUE, last |-> getLastRequestId(requestIds')]}]
  /\ UNCHANGED <<counter, loads, ticksHalted, sent, expected>>

(* cbFile; an answer without a request, such as the second of two, is      *)
(* reported and dropped.                                                   *)
cbFile(b) ==
  /\ EGSReads(b, "bs_file")
  /\ loads' = loads \ {Head(toEGS[b]).id}
  /\ UNCHANGED <<counter, requestIds, responses, pingPongs, ticksHalted,
                 acked, ackedBy, sent, expected>>

(* cbStallMode: HALT_TICK or RESUME_TICK to the tick service.              *)
cbStallMode(b) ==
  /\ EGSReads(b, "STALL_MODE")
  /\ ticksHalted' = Head(toEGS[b]).stalled
  /\ UNCHANGED <<counter, requestIds, responses, loads, pingPongs, acked, ackedBy, sent, expected>>
=============================================================================
