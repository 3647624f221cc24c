---------------------------- MODULE BackupService ----------------------------
(***************************************************************************)
(* The backup service: backup_service.cpp and the file access manager of   *)
(* backup_file_access.cpp, with the temporary files of COFile              *)
(* (nel/src/misc/file.cpp).  It is one thread, whose loop (IService::main) *)
(* alternates update(), which executes the queued accesses, and the reading *)
(* of messages; "phase" tells where the loop is, and within an access of   *)
(* update() which of its changes to the disk have been made, for a crash   *)
(* may come between them.                                                  *)
(***************************************************************************)
EXTENDS BackupNet

CONSTANTS
  Slaves,        \* services with a MasterBSHost
  MayTear        \* the disk may fill up while fclose writes the buffer out

VARIABLES
  running,    \* [BSs -> BOOLEAN]
  phase,      \* [BSs -> phases of the loop]
  mode,       \* [BSs -> {"Normal", "Stalled"}]: _Mode
  accesses,   \* [BSs -> Seq(request)]: _Accesses
  disk,       \* [BSs -> [Files -> Seq(RequestIds)]]: the files
  temp,       \* [BSs -> Seq(RequestIds)]: the temporary file of the access
  stale,      \* [BSs -> SUBSET RequestIds]: loads in _Accesses whose ServiceId
              \* is that of a connection that is gone
  readState,  \* [BSs -> BOOLEAN]: BSReadState
  masterLost  \* [BSs -> BOOLEAN]: the unified network has to report the
              \* disconnection of the master

bsVars == <<running, phase, mode, accesses, disk, temp, stale, readState, masterLost>>

Phases == {"network", "update", "written", "deleted"}

FileContents == Seq(RequestIds) \cup {Torn}

BSTypeOK ==
  /\ running \in [BSs -> BOOLEAN]
  /\ phase \in [BSs -> Phases]
  /\ mode \in [BSs -> {"Normal", "Stalled"}]
  /\ accesses \in [BSs -> Seq([type : Writes \cup {"load"}, id : RequestIds, file : Files])]
  /\ DOMAIN disk = BSs /\ \A b \in BSs : DOMAIN disk[b] = Files
  /\ DOMAIN temp = BSs
  /\ stale \in [BSs -> SUBSET RequestIds]
  /\ readState \in [BSs -> BOOLEAN]
  /\ masterLost \in [BSs -> BOOLEAN]

BSInit ==
  /\ running = [b \in BSs |-> TRUE]
  /\ phase = [b \in BSs |-> "network"]
  /\ mode = [b \in BSs |-> "Normal"]
  /\ accesses = [b \in BSs |-> <<>>]
  /\ disk = [b \in BSs |-> [f \in Files |-> NoFile]]
  /\ temp = [b \in BSs |-> NoFile]
  /\ stale = [b \in BSs |-> {}]
  /\ readState = [b \in BSs |-> b \notin Slaves]
  /\ masterLost = [b \in BSs |-> FALSE]

-----------------------------------------------------------------------------
(* Messages.                                                               *)
BSReads(b, types) ==
  /\ running[b] /\ phase[b] = "network"
  /\ toBS[b] # <<>> /\ Head(toBS[b]).type \in types
  /\ toBS' = [toBS EXCEPT ![b] = Tail(@)]
  /\ UNCHANGED link

PushFrontMutant(b, a) == accesses' = [accesses EXCEPT ![b] = <<a>> \o @]
stackFileAccess(b, a) == accesses' = [accesses EXCEPT ![b] = Append(@, a)]

BSWriteFile(b) ==
  /\ BSReads(b, Writes)
  /\ stackFileAccess(b, Head(toBS[b]))
  /\ UNCHANGED <<toEGS, running, phase, mode, disk, temp, stale, readState, masterLost>>

BSLoadFile(b) ==
  /\ BSReads(b, {"load"})
  /\ IF readState[b] THEN stackFileAccess(b, Head(toBS[b])) ELSE UNCHANGED accesses
  /\ UNCHANGED <<toEGS, running, phase, mode, disk, temp, stale, readState, masterLost>>

BSPing(b) ==
  /\ BSReads(b, {"BS_PING"})
  /\ SendEGS(b, PongMsg)
  /\ UNCHANGED bsVars

(* cbConnection with notifyServiceConnection: the EGS and the service are   *)
(* connected, and the EGS learns that the service is stalled.  The EGS has *)
(* a new ServiceId: what answers to the old one has nowhere to go.         *)
UpOnlyMutant(b) == <<UpMsg>>
Greeting(b) == IF mode[b] = "Stalled" THEN <<UpMsg, StallMsg(TRUE)>> ELSE <<UpMsg>>

QueuedLoads(b) ==
  {i \in RequestIds : \E n \in DOMAIN accesses[b] :
                        accesses[b][n].type = "load" /\ accesses[b][n].id = i}

BSConnection(b) ==
  /\ running[b] /\ phase[b] = "network" /\ ~link[b]
  /\ link' = [link EXCEPT ![b] = TRUE]
  /\ toEGS' = [toEGS EXCEPT ![b] = @ \o Greeting(b)]
  /\ stale' = [stale EXCEPT ![b] = QueuedLoads(b)]
  /\ UNCHANGED <<toBS, running, phase, mode, accesses, disk, temp, readState, masterLost>>

(* cbDisconnection: a slave that loses its master reads files itself.      *)
BSMasterDown(b) ==
  /\ running[b] /\ phase[b] = "network" /\ masterLost[b]
  /\ masterLost' = [masterLost EXCEPT ![b] = FALSE]
  /\ readState' = [readState EXCEPT ![b] = TRUE]
  /\ UNCHANGED <<netVars, running, phase, mode, accesses, disk, temp, stale>>

(* The connection between a slave and its master breaks.                   *)
BSLosesMaster(b) ==
  /\ running[b] /\ b \in Slaves /\ ~masterLost[b]
  /\ \E master \in BSs \ Slaves : running[master]
  /\ masterLost' = [masterLost EXCEPT ![b] = TRUE]
  /\ UNCHANGED <<netVars, running, phase, mode, accesses, disk, temp, stale, readState>>

-----------------------------------------------------------------------------
(* The commands stallShard, resumeShard and removeFileAccess.              *)
setMode(b, m) ==
  IF mode[b] = m THEN UNCHANGED <<mode, toEGS>>
  ELSE /\ mode' = [mode EXCEPT ![b] = m]
       /\ SendEGS(b, StallMsg(m # "Normal"))

BSSetMode(b, m) ==
  /\ running[b] /\ phase[b] = "network"
  /\ setMode(b, m)
  /\ UNCHANGED <<link, toBS, running, phase, accesses, disk, temp, stale, readState, masterLost>>

BSRemoveFileAccess(b) ==
  /\ running[b] /\ phase[b] = "network"
  /\ \E i \in DOMAIN accesses[b] : accesses' = [accesses EXCEPT ![b] = RemoveAt(@, i)]
  /\ UNCHANGED <<netVars, running, phase, mode, disk, temp, stale, readState, masterLost>>

-----------------------------------------------------------------------------
(* update(): the accesses in order while the mode is Normal, none of which *)
(* leaves time for a message before the queue is empty or stalled.         *)
Executes(b, types) ==
  /\ running[b] /\ phase[b] \in {"network", "update"}
  /\ mode[b] = "Normal" /\ accesses[b] # <<>>
  /\ Head(accesses[b]).type \in types

NotPoppedMutant(b) ==
  /\ UNCHANGED accesses
  /\ phase' = [phase EXCEPT ![b] = "network"]

Pop(b) ==
  /\ accesses' = [accesses EXCEPT ![b] = Tail(@)]
  /\ phase' = [phase EXCEPT ![b] = IF Tail(accesses[b]) = <<>> THEN "network" ELSE "update"]

(* CLoadFile::execute answers with the contents, none when there is no     *)
(* file; none either when the file fails to open, a minor failure.  The    *)
(* answer goes to the ServiceId the request came with.                     *)
Reply(b, m) ==
  toEGS' = [toEGS EXCEPT ![b] =
              IF link[b] /\ Head(accesses[b]).id \notin stale[b] THEN Append(@, m) ELSE @]

Answer(b, content) ==
  /\ Executes(b, {"load"})
  /\ Reply(b, FileMsg(Head(accesses[b]).id, content))
  /\ Pop(b)
  /\ UNCHANGED <<link, toBS, running, mode, disk, temp, stale, readState, masterLost>>

HeadFile(b) == disk[b][Head(accesses[b]).file]

ExecuteLoad(b) == accesses[b] # <<>> /\ Answer(b, HeadFile(b))

FailLoad(b) == accesses[b] # <<>> /\ HeadFile(b) # NoFile /\ Answer(b, NoFile)

(* CDeleteFile::execute; a file that cannot be deleted, or moved to its    *)
(* backup, is a minor failure: the access is dropped.                      *)
ExecuteDelete(b) ==
  /\ Executes(b, {"delete"})
  /\ disk' = [disk EXCEPT ![b][Head(accesses[b]).file] = NoFile]
  /\ Pop(b)
  /\ UNCHANGED <<netVars, running, mode, temp, stale, readState, masterLost>>

FailDelete(b) ==
  /\ Executes(b, {"delete"})
  /\ HeadFile(b) # NoFile
  /\ Pop(b)
  /\ UNCHANGED <<netVars, running, mode, disk, temp, stale, readState, masterLost>>

DroppedMutant(b) ==
  /\ Executes(b, {"save", "append"})
  /\ Pop(b)
  /\ UNCHANGED <<netVars, running, mode, disk, temp, stale, readState, masterLost>>

(* CWriteFile::execute: the directory, the temporary file or the writing   *)
(* to it fails, a major failure: the access stays at the head.             *)
FailWrite(b) ==
  /\ Executes(b, {"save", "append"})
  /\ setMode(b, "Stalled")
  /\ phase' = [phase EXCEPT ![b] = "network"]
  /\ UNCHANGED <<link, toBS, running, accesses, disk, temp, stale, readState, masterLost>>

(* COFile::open and serialBuffer: a temporary file, with the contents of   *)
(* the file first when appending.                                          *)
ExecuteWrite(b) ==
  /\ Executes(b, {"save", "append"})
  /\ LET a == Head(accesses[b]) IN
       temp' = [temp EXCEPT ![b] = Written(a, disk[b][a.file])]
  /\ phase' = [phase EXCEPT ![b] = "written"]
  /\ UNCHANGED <<netVars, running, mode, accesses, disk, stale, readState, masterLost>>

(* COFile::internalClose: fclose, whose failure shows nowhere; the old     *)
(* file is deleted, then the temporary one is given its name.              *)
CloseDeletes(b) ==
  /\ running[b] /\ phase[b] = "written"
  /\ \E c \in {temp[b]} \cup (IF MayTear THEN {Torn} ELSE {}) : temp' = [temp EXCEPT ![b] = c]
  /\ disk' = [disk EXCEPT ![b][Head(accesses[b]).file] = NoFile]
  /\ phase' = [phase EXCEPT ![b] = "deleted"]
  /\ UNCHANGED <<netVars, running, mode, accesses, stale, readState, masterLost>>

CloseMoves(b) ==
  /\ running[b] /\ phase[b] = "deleted"
  /\ disk' = [disk EXCEPT ![b][Head(accesses[b]).file] = temp[b]]
  /\ temp' = [temp EXCEPT ![b] = NoFile]
  /\ Pop(b)
  /\ UNCHANGED <<netVars, running, mode, stale, readState, masterLost>>

-----------------------------------------------------------------------------
(* The process dies, and leaves its temporary file behind under a name that *)
(* is never used again; an exception that leaves execute (ERenameError     *)
(* when the temporary file cannot be renamed) ends it too.  A service that *)
(* is stopped calls FileManager.release(), one more update(), and what is  *)
(* still queued is lost: the steps of update() and then this one.  A slave *)
(* that runs will be told of its master.                                   *)
BSCrash(b) ==
  /\ running[b]
  /\ running' = [running EXCEPT ![b] = FALSE]
  /\ phase' = [phase EXCEPT ![b] = "network"]
  /\ mode' = [mode EXCEPT ![b] = "Normal"]
  /\ accesses' = [accesses EXCEPT ![b] = <<>>]
  /\ temp' = [temp EXCEPT ![b] = NoFile]
  /\ stale' = [stale EXCEPT ![b] = {}]
  /\ readState' = [readState EXCEPT ![b] = b \notin Slaves]
  /\ masterLost' = [s \in BSs |->
       CASE s = b -> FALSE
         [] s \in Slaves /\ b \notin Slaves /\ running[s] -> TRUE
         [] OTHER -> masterLost[s]]
  /\ BreakLink(b)
  /\ UNCHANGED disk

BSRestart(b) ==
  /\ ~running[b]
  /\ running' = [running EXCEPT ![b] = TRUE]
  /\ UNCHANGED <<netVars, phase, mode, accesses, disk, temp, stale, readState, masterLost>>
=============================================================================
