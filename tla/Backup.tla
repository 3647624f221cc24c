-------------------------------- MODULE Backup --------------------------------
(***************************************************************************)
(* The backup services with their client.  A step is one step of one of    *)
(* the two programs, a command given to a service, a connection that       *)
(* breaks, or the death or the launch of a service.                        *)
(*                                                                         *)
(* Bounds: the MaxRequests requests of the EGS, and MaxUpsets of what does *)
(* not happen by itself: a connection that breaks, a death, a load, a      *)
(* write or a deletion that the disk refuses, a stall or a removal by an   *)
(* operator.  Kinds and MayHappen narrow both down for one instance.       *)
(***************************************************************************)
EXTENDS BackupService, BackupInterface

CONSTANTS
  MaxUpsets,
  Kinds,       \* SUBSET (Writes \cup {"load"}): requests the EGS issues
  MayHappen    \* SUBSET {"disk", "operator", "crash", "break"}: upsets

VARIABLES
  upsets,    \* counter of the bound
  losses,    \* history, [BSs -> Nat]: accesses given up, all at once in a crash
  missed     \* history, SUBSET BSs: those a write or load has not been sent to,
             \* or has been lost on the way to

countVars == <<upsets, losses, missed>>
vars == <<netVars, bsVars, egsVars, countVars>>

Init ==
  /\ NetInit /\ BSInit /\ EGSInit
  /\ upsets = 0
  /\ losses = [b \in BSs |-> 0]
  /\ missed = {}

-----------------------------------------------------------------------------
(* The EGS.                                                                *)
Misses == missed' = missed \cup {b \in BSs : b \notin Connected \/ ~Reaches(b)}

Write(t, f, withCallback) ==
  /\ t \in Kinds /\ EGSWrite(t, f, withCallback) /\ Misses
  /\ UNCHANGED <<bsVars, upsets, losses>>
RequestFile(f) ==
  /\ "load" \in Kinds /\ EGSRequestFile(f) /\ Misses
  /\ UNCHANGED <<bsVars, upsets, losses>>
ServiceUpdate == EGSServiceUpdate /\ UNCHANGED <<bsVars, countVars>>
Connection(b) == cbBSConnection(b) /\ UNCHANGED <<bsVars, countVars>>
Disconnection(b) == cbBSDisconnection(b) /\ UNCHANGED <<bsVars, countVars>>
PingPongs(b) == cbBSPingPong(b) /\ UNCHANGED <<bsVars, countVars>>
File(b) == cbFile(b) /\ UNCHANGED <<bsVars, countVars>>
StallMode(b) == cbStallMode(b) /\ UNCHANGED <<bsVars, countVars>>

EGSStep(b) == Connection(b) \/ Disconnection(b) \/ PingPongs(b) \/ File(b) \/ StallMode(b)

-----------------------------------------------------------------------------
(* A backup service.                                                       *)
Local == UNCHANGED <<egsVars, countVars>>

WriteFile(b) == BSWriteFile(b) /\ Local
LoadFile(b) == BSLoadFile(b) /\ Local
Ping(b) == BSPing(b) /\ Local
MasterDown(b) == BSMasterDown(b) /\ Local
Connect(b) == BSConnection(b) /\ Local
Load(b) == ExecuteLoad(b) /\ Local
Delete(b) == ExecuteDelete(b) /\ Local
OpenAndWrite(b) == ExecuteWrite(b) /\ Local
CloseDelete(b) == CloseDeletes(b) /\ Local
CloseMove(b) == CloseMoves(b) /\ Local

NetworkStep(b) == WriteFile(b) \/ LoadFile(b) \/ Ping(b) \/ MasterDown(b)
UpdateStep(b) ==
  \/ Load(b) \/ Delete(b) \/ OpenAndWrite(b) \/ CloseDelete(b) \/ CloseMove(b)

Upset(kind) == kind \in MayHappen /\ upsets < MaxUpsets /\ upsets' = upsets + 1
Loss(b) == losses' = [losses EXCEPT ![b] = @ + 1]

LoadFails(b) == Upset("disk") /\ FailLoad(b) /\ Loss(b) /\ UNCHANGED <<egsVars, missed>>
DeleteFails(b) == Upset("disk") /\ FailDelete(b) /\ Loss(b) /\ UNCHANGED <<egsVars, missed>>
WriteFails(b) == Upset("disk") /\ FailWrite(b) /\ UNCHANGED <<egsVars, losses, missed>>

StallShard(b) == Upset("operator") /\ BSSetMode(b, "Stalled") /\ UNCHANGED <<egsVars, losses, missed>>
ResumeShard(b) == BSSetMode(b, "Normal") /\ Local
RemoveFileAccess(b) ==
  Upset("operator") /\ BSRemoveFileAccess(b) /\ Loss(b) /\ UNCHANGED <<egsVars, missed>>

Crash(b) ==
  /\ Upset("crash") /\ BSCrash(b) /\ Loss(b)
  /\ missed' = missed \cup {b}
  /\ UNCHANGED egsVars
Restart(b) == BSRestart(b) /\ Local
Break(b) ==
  /\ Upset("break") /\ running[b] /\ link[b] /\ BreakLink(b)
  /\ missed' = missed \cup {b}
  /\ UNCHANGED <<bsVars, egsVars, losses>>

MasterBreak(b) == Upset("break") /\ BSLosesMaster(b) /\ UNCHANGED <<egsVars, losses, missed>>

Next ==
  \/ \E f \in Files, t \in Writes, cb \in BOOLEAN : Write(t, f, cb)
  \/ \E f \in Files : RequestFile(f)
  \/ ServiceUpdate
  \/ \E b \in BSs :
       \/ EGSStep(b) \/ NetworkStep(b) \/ Connect(b) \/ UpdateStep(b)
       \/ LoadFails(b) \/ DeleteFails(b) \/ WriteFails(b)
       \/ StallShard(b) \/ ResumeShard(b) \/ RemoveFileAccess(b)
       \/ Crash(b) \/ Restart(b) \/ Break(b) \/ MasterBreak(b)

Spec == Init /\ [][Next]_vars

(* Both loops run, connections are tried again until they are made and a   *)
(* service that died is launched again; nobody promises a request or a     *)
(* command.                                                                *)
Fairness ==
  /\ WF_vars(ServiceUpdate)
  /\ \A b \in BSs :
       /\ WF_vars(EGSStep(b)) /\ WF_vars(NetworkStep(b)) /\ WF_vars(UpdateStep(b))
       /\ WF_vars(Connect(b)) /\ WF_vars(Restart(b))

FairSpec == Spec /\ Fairness

TypeOK == BSTypeOK /\ EGSTypeOK /\ link \in [BSs -> BOOLEAN]

-----------------------------------------------------------------------------
Ascending(s) == \A i, j \in DOMAIN s : i < j => s[i] < s[j]

(* Safety: acknowledgement callbacks are called in the order of the        *)
(* requests, each once, and none is skipped: every callback that waits is  *)
(* of a request that the register still holds (the STOP branch of          *)
(* popGenericCallback and the nlassert of pushGenericAckCallback).         *)
AcksInOrder ==
  /\ Ascending(acked \o responses) /\ Ascending(requestIds)
  /\ ToSet(responses) \subseteq ToSet(requestIds)

(* Safety: a pong never overtakes a write: it acknowledges none that is    *)
(* still on its way to the service that sent the pong, however the pongs   *)
(* of several services interleave (processCallbacks with                   *)
(* LastGenericRequestId); while no connection of a service has broken, it  *)
(* has read what its pongs acknowledged.  A write lost with a connection   *)
(* is acknowledged by the pongs on the next one, unread: the register      *)
(* outlives the connection.  Not of the first request of the process: its  *)
(* id is the initial value of LastGenericRequestId.                        *)
AcksDoNotOvertake ==
  \A b \in BSs : \A m \in ToSet(toBS[b]) :
    IsWrite(m) /\ b \in ackedBy[m.id] => m.id = 0

(* The files of a service as they will be when its queue is empty.         *)
Logical(b) ==
  IF phase[b] = "deleted"
  THEN Replay([disk[b] EXCEPT ![Head(accesses[b]).file] = temp[b]], Tail(accesses[b]))
  ELSE Replay(disk[b], accesses[b])

Store == INSTANCE FileStore WITH
  content <- [b \in BSs |-> Logical(b)],
  losses <- losses

(* Refinement: stalls, retries, and everything update() does in however    *)
(* many steps leave the accepted writes made once and in order.            *)
ImplementsFileStore == Store!Spec

(* Nothing has kept the files of b from being those the EGS wrote.         *)
Faithful(b) == b \notin missed /\ losses[b] = 0

(* Safety: the answer to a load is the file as it was written when the     *)
(* load was requested, with the writes that were still queued then and     *)
(* without those that followed.                                            *)
LoadsReadOwnWrites ==
  \A b \in BSs : Faithful(b) =>
    \A m \in ToSet(toEGS[b]) : m.type = "bs_file" => m.content = expected[m.id]

(* Safety: master and slaves that have been connected since the first      *)
(* write hold the same files, those the EGS wrote, once they have caught   *)
(* up.                                                                     *)
ReplicasAgree ==
  \A b \in BSs : Faithful(b) /\ toBS[b] = <<>> /\ accesses[b] = <<>> => disk[b] = sent

(* Safety: a file is always the work of writes that reached the disk as    *)
(* a whole: "file is kept untouched" when a write fails (CWriteFile).      *)
FilesAreWhole ==
  \A b \in BSs : \A f \in Files : MaxRequests \notin ToSet(disk[b][f])

-----------------------------------------------------------------------------
(* Liveness: a request whose callback waits is acknowledged, although      *)
(* nothing is sent again: the pongs of another service, or of the next     *)
(* process of this one, acknowledge it.                                    *)
AcksArrive ==
  \A i \in RequestIds : (i \in ToSet(responses)) ~> (i \in ToSet(acked))

(* Liveness: a service that stalls halts the shard, unless it is resumed   *)
(* or dies, or another one resumes the shard.                              *)
StallsHaltTicks ==
  \A b \in BSs : (mode[b] = "Stalled") ~> (ticksHalted \/ mode[b] = "Normal")
=============================================================================
