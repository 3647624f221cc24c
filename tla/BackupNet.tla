------------------------------ MODULE BackupNet ------------------------------
(***************************************************************************)
(* What the backup services (ryzom/server/src/backup_service) and the      *)
(* entities game service, their client, share: the connections of the      *)
(* unified network between them and the messages in flight.                *)
(*                                                                         *)
(* The data of a request is the request: a file holds the sequence of the  *)
(* ids of the writes that made it, and no write has made a file that does  *)
(* not exist.  A connection that breaks shows at both ends; messages on    *)
(* their way to the end that failed are lost, and of those to the EGS any  *)
(* number of the latest.                                                   *)
(***************************************************************************)
EXTENDS Naturals, Sequences, SequencesExt

CONSTANTS
  BSs,           \* backup services: a master and its slaves
  Files,         \* file names
  MaxRequests    \* bound: requests the EGS issues

ASSUME NetAssumption == MaxRequests \in Nat

RequestIds == 0 .. MaxRequests - 1

(* The contents of a file that a failed write left incomplete.             *)
Torn == <<MaxRequests>>
NoFile == <<>>

VARIABLES
  link,     \* [BSs -> BOOLEAN]: the connection with the EGS is open
  toBS,     \* [BSs -> Seq(message)]: sent by the EGS, not yet read
  toEGS     \* [BSs -> Seq(message)]: sent by the service, not yet read

netVars == <<link, toBS, toEGS>>

(* save_file and SAVE_CHECK_FILE; append_file, append_file_check, APPEND;  *)
(* DELETE_FILE and DELETE_FILE_NO_BACKUP; load_file; BS_PING.              *)
Writes == {"save", "append", "delete"}
Request(t, i, f) == [type |-> t, id |-> i, file |-> f]
PingMsg == [type |-> "BS_PING"]

(* UP and DOWN are the events of the unified network, after which and      *)
(* before which no message of that connection is read.                     *)
UpMsg == [type |-> "UP"]
DownMsg == [type |-> "DOWN"]
PongMsg == [type |-> "BS_PONG"]
FileMsg(i, c) == [type |-> "bs_file", id |-> i, content |-> c]
StallMsg(s) == [type |-> "STALL_MODE", stalled |-> s]

IsWrite(m) == m.type \in Writes

(* What a write makes of the contents of its file.                         *)
Written(m, c) == CASE m.type = "save" -> <<m.id>>
                   [] m.type = "append" -> Append(c, m.id)
                   [] m.type = "delete" -> NoFile

(* What a message makes of a set of files, and the sets of files that a    *)
(* sequence of messages makes of it, one after the other.                  *)
Access(d, m) == IF IsWrite(m) THEN [d EXCEPT ![m.file] = Written(m, @)] ELSE d

Replays(d, messages) ==
  LET after[n \in 0 .. Len(messages)] ==
        IF n = 0 THEN d ELSE Access(after[n - 1], messages[n])
  IN after

Replay(d, messages) == Replays(d, messages)[Len(messages)]

NetInit ==
  /\ link = [b \in BSs |-> FALSE]
  /\ toBS = [b \in BSs |-> <<>>]
  /\ toEGS = [b \in BSs |-> <<>>]

SendEGS(b, m) == toEGS' = [toEGS EXCEPT ![b] = IF link[b] THEN Append(@, m) ELSE @]

(* The EGS sends on a connection it has; one that broke since takes the    *)
(* message and loses it.                                                   *)
Reaches(b) == link[b] /\ DownMsg \notin ToSet(toEGS[b])

SendBSs(up, m) ==
  toBS' = [b \in BSs |-> IF b \in up /\ Reaches(b) THEN Append(toBS[b], m) ELSE toBS[b]]

BreakLink(b) ==
  /\ link' = [link EXCEPT ![b] = FALSE]
  /\ toBS' = [toBS EXCEPT ![b] = <<>>]
  /\ IF link[b]
     THEN \E n \in 0 .. Len(toEGS[b]) :
            /\ \A i \in n + 1 .. Len(toEGS[b]) : toEGS[b][i].type \notin {"UP", "DOWN"}
            /\ toEGS' = [toEGS EXCEPT ![b] = Append(SubSeq(@, 1, n), DownMsg)]
     ELSE toEGS' = toEGS
=============================================================================
