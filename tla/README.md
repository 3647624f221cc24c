# Verification of Ryzom Core's shard services

This directory models the network services that hold a Ryzom shard together,
checks the models with TLC and proves theorems about them with TLAPS. All paths
below are relative to `src/code/`.

## 1. The system and its components

The repository is a complete MMORPG: engine, client, servers, tools. What a
checker has to say something about is its distributed part: a *shard* is some
twenty server processes ("services") on a few machines, and the processes find
each other, reconnect, log players in and exchange the state of the world by
messages.

| component | state | operations | interacts with |
|---|---|---|---|
| **Naming service** `nelns/naming_service/naming_service.cpp` | `RegisteredServices` (socket, addresses, name, SId, removal state), the instance manager's `_OnlineServices`, the static port cursor | register, re-register, acknowledge a removal, disconnect, kill, time out, allocate a port | every service, by messages RG, RRG, QP, RGB, UNB, ACK_UNI |
| **Naming client** `nel/src/net/naming_client.cpp` | its SId, its list of services, the connection to the NS | blocking registration and port query, the two broadcasts | the NS; callbacks into layer 5 |
| **Unified network** (layer 5) `nel/src/net/unified_network.cpp` | the table of services with their connections, named callbacks, the listening server | init, connect, addService, identification, disconnection, reconnection, routing by name or SId | naming client (callbacks), layer 3 |
| **Service framework** `nel/src/net/service.cpp` | exit signal, closure clearance, status | start-up sequence, main loop, exit | layer 5, naming client |
| **Layers 1-3** `nel/src/net/{buf_sock,buf_client,buf_server,callback_*}.cpp` | per-connection send and receive FIFOs, connection flags, receive and listen threads | send, flush (time and size triggers), receive, update, connection and disconnection events | TCP below, all services above |
| **Login service** `nelns/login_service` | account states Offline, Authorized, Waiting, Online with a cookie (a database), the shards that are connected | verify password, choose shard, answers of the welcome services, connection reports, disconnections | client, welcome services |
| **Welcome service** `nelns/welcome_service` | front-ends with counters of pending and connected users, the open state of the shard | choose a front-end, forward the cookie and its answer, report connections | login service, front-ends |
| **Front-end login** `nel/src/net/login_server.cpp` | the pending cookies with their time, the connected users | accept a cookie, expire it after 15 minutes, validate it, report connection and disconnection | welcome service, client |
| **Front-end sessions** `ryzom/server/src/frontend_service`, `ryzom/client/src/network_connection.cpp` | per client: connection state, packet numbers, acknowledgement windows, impulse queues; the client's copy of each | send and receive a datagram in each state, synchronize, probe, stall, disconnect | client (UDP), game services, tick service |
| **Tick service, mirror** `ryzom/server/src/tick_service`, `mirror_service` | tick progress of every service, halt reasons, the range of entities of each | tick, tock, synchronise, allocate ranges | all mirrored services |
| **Backup service** `ryzom/server/src/backup_service`, `ryzom/common/src/game_share/*backup_service_interface*` | queue of file operations, the mode (stalled or not), the files; the client's lists of unacknowledged requests and callbacks | save, append, delete, load, stall and retry, acknowledge by pings, fail over to another service | the services that persist characters; the tick service |
| **Task manager** `nel/src/misc/task_manager.cpp` | queue of tasks, running flags of its thread | add, delete, run, stop | client and servers |
| **Module layer** `nel/src/net/module_*.cpp`; **administration** `nelns/admin_*`; **game services** | gateways and proxies; service launches; game data | | layer 3 to 5 |

What is hard, and what makes each part correct:

- *Naming*: every service has its own queue from and to the NS; registrations,
  removals, kills and crashes interleave; the NS may restart. Correct means: SIds
  are distinct and reused only when nobody has the old holder under them, lists
  converge, of two services exactly one dials, restricted names are unique,
  every wait ends.
- *Layer 5*: a service may be removed by the NS before, while and after its
  connections break; identification messages race with the NS's broadcasts.
  Correct means: up and down callbacks alternate, a message goes to the service
  that was named, a broken connection is either re-established or removed.
- *Layers 1-3*: two threads and two FIFOs per connection. Correct means: order
  preserved, the disconnection event comes last and once, no send after it.
- *Login chain*: an account's state is moved by three different parties and the
  front-end's cookie by a fourth, each may die at any step. Correct means: one
  session per account, an account can log in again after any failure, a cookie
  is used once, counters agree with the sessions.
- *Front-end sessions*: UDP packets are lost and reordered, both sides repeat what
  is not acknowledged, and both fall back to probes and resynchronization. Correct
  means: an impulse is delivered once and in order, nothing is dropped as
  acknowledged that was not delivered, both sides count ticks alike.
- *Backup service*: a full disk, a crash within the replacement of a file, a stall
  that keeps the queue, two services that do the same work. Correct means: an
  accepted write is made once and in order or its loss is known, a load sees the
  writes before it, an acknowledgement does not overtake the write, a stalled
  service stops the shard.
- *Tick service, task manager*: a barrier that one dead service could block for
  ever; a stop handshake.

`PROJECT.json` lists under `hazards` what in this code a test would hardly
reach, each at its line.

## 2. Plan

Order of work; the most important behaviour first.

1. **Naming (built)**: `NamingNet`, `NamingService`, `NamingClient`, composed in
   `Naming`; the abstract specification `SIdLease`; `PortAllocator`;
   `NamingProofs`, `NamingListsProofs`, `PortAllocatorProofs`.
2. **Login chain (built)**: `LoginNet`, `LoginService`, `WelcomeService`,
   `LoginServer`, composed in `LoginChain`; `LoginProofs`, `LoginAccountsProofs`. Left: an abstract
   specification of an account's life (offline, awaited, playing) that the chain
   implements while the LS and the WS do not crash.
3. **Backup service (built)**: `BackupNet`, `BackupService`, `BackupInterface`,
   composed in `Backup`; the abstract specification `FileStore`; `BackupProofs`,
   `BackupFilesProofs`.
4. **Client sessions (built)**: `SessionNet`, `FrontEndSession`, `ClientSession`,
   composed in `Session`; `SessionProofs`. Left: quit, time-out, limbo and the down server; the
   entity properties, whose history rests on the same acknowledgements.
5. **`UnifiedNetwork`**: the connection table of two or three services over the
   broadcasts of `Naming` and the sockets of layer 3, with the abstract
   specification of the up/down callbacks of one pair. Runs: one disconnection
   and one NS crash.
6. **`BufferedConnection`**: receive thread, FIFO and main thread of one
   connection; abstract specification: a FIFO channel with a final event. It
   justifies the queues `NamingNet`, `LoginNet` and `BackupNet` use.
7. **`TickBarrier`**, **`TaskManager`**.

Theorems. Done: type correctness of every composition; for `Naming` connection,
distinctness of SIds, `RestrictedNamesAreUnique`, `OneOfTwoDials`, `BroadcastsMatchList`,
`QuietListsAgree`, and the refinement of `SIdLease` as long as nothing is killed; for `PortAllocator` that answered ports differ; for `LoginChain`
`AssociatedPlay`, `PendingAgree` and `NobodyIsUncounted`, and until the
first crash `OneSession`, `PlayersAreCounted`, `OnlineArePlaying` and `CookiesAreAwaited`; for `Backup` every safety
property of its runs and the refinement of `FileStore`; for `Session` every invariant of its
run. So every safety invariant of the passing runs but `OnlineStillPlay` is a theorem. Left: that one,
the refinement of `SIdLease` when services are killed, and the liveness properties, which stay with TLC.

No module that is proved about has a RECURSIVE operator; parameters are
constants with named assumptions; every operation is one action.

## 3. The naming models

### Modules

| module | models |
|---|---|
| `NamingNet` | processes, connections to the NS, messages in flight |
| `NamingService` | `naming_service.cpp`: one action per entry of its callback array, per network callback, for the timeout check and for the console command `kill` |
| `NamingClient` | `naming_client.cpp` with the part of `CUnifiedNetwork` and `IService` that drives it |
| `Naming` | composition, fairness, all properties |
| `SIdLease` | abstract specification: what the NS promises about one SId |
| `NamingProofs` | theorems about types, connections and SIds |
| `NamingListsProofs` | theorems about the lists of services |
| `MCNaming` | small instances for TLC |
| `PortAllocator`, `MCPortAllocator` | the choice of listening ports |
| `PortAllocatorProofs` | theorems about it |

### Correspondence

A member of `Services` is one *process* from launch to death; a service launched
again is another member with the same `NameOf`. Because the process determines
the name, the addresses and the socket of its registration, an entry of
`RegisteredServices` is a record with `svc`, `sid`, the removal state and `pos`,
the stamp that gives its place in the list. `WaitingUnregistrationServices` is
the bag `acks`. Messages keep their types; UNB carries the name in the code and
the process in the model.

| action | code |
|---|---|
| `Start` / `NSAccept` | `CNamingClient::connect`, `registerService[WithSId]`; `cbConnect` |
| `Register`, `Reregister` | `cbRegister`, `cbResendRegisteration`: both `doRegister`, with the choice of the SId, `queryStartService`, broadcast and answer |
| `Disconnect`, `Kill` | the two `doUnregisterService`, each with `doRemove` |
| `Ack` | `cbACKUnregistration` with the check at its end |
| `Update`, `Timeout` | `checkWaitingUnregistrationServices` in `update()`; 10 s passing |
| `LoseNS`, `RestartNS` | the NS process dies and starts with empty lists |
| `Registered` | `cbRegister` of the client, the end of `registerService` and `CUnifiedNetwork::init`; a denial ends the process |
| `Connect` | `CUnifiedNetwork::connect`: dials those listed before itself |
| `ServiceUp`, `ServiceDown` | `cbRegisterBroadcast`, `cbUnregisterBroadcast` with the acknowledgement and the exit |
| `LosesNS`, `Reconnect` | the disconnection event; `CUnifiedNetwork::update` every 5 s with `resendRegisteration` |
| `Exit`, `Crash` | the end of the process |

Decisions that matter:

- During registration the client handles one message per `update(-1)` and the
  main loop has not begun, so broadcasts are read from `Connect` on.
- The assertion of `cbUnregisterBroadcast` is compiled out in release builds; the
  model goes on after it.
- A killed service is not awaited by its own removal, so its SId may be given
  away while it still runs. `Owner` leaves it out, as the NS does.
- `appId` is `~0` after `cbConnect`; no SId is `~0`, the model writes `NoSId`.
- A message sent to a closed connection is lost, one in flight before the close
  is read, and the disconnection event is read last (layers 1-3).
- Local time is the field `late` of an entry that waits: the step that sets it may
  come at any time when `Timeouts` holds.
- Not modelled: the obsolete lookups, display commands, and message UNI, which
  nothing sends (its handler is the body of `Kill`).

### Runs

| run | instance | shows |
|---|---|---|
| `naming_core` | 3 services, 2 of one restricted name, 3 SIds, 2 kills, 2 crashes, no timeout | the safety properties and the refinement of `SIdLease` |
| `naming_live` | 3 services, one of them on both subnets between two that cannot reach each other, no restricted name, one kill or crash, timeouts, fair | removals end, the dead are forgotten, and broadcasts fit in spite of late acknowledgements |
| `naming_ns_crash` | 3 services, 1 crash, 1 NS crash, fair | connection of entries; services come back; what can keep `registerService` waiting |
| `ports` | 3 services that ask, 1 with a configured port, ports 2..4, 1 NS crash, fair | until the cursor goes back, for an NS restart or at the end of the range, every service listens on the port it was given |

The configured port of `ports` is outside the range of the allocator. One in the range
(`MCInRange`, to be put into `Ports.cfg` by hand) violates `EveryServiceListens`: the NS may answer it to another
service until its owner has registered.

Four more configurations of `MCNaming` are kept for running by hand:

- `NamingStart.cfg` violates `RegistrationReturns`: `registerService` waits in a loop that tests
  neither the connection nor the time (naming_client.cpp:306), although it "Returns false if
  the registration failed" (naming_client.h:80). If the NS dies before it answers, the service
  stays in its start-up for ever; `CUnifiedNetwork::update`, which would reconnect it, only
  runs afterwards. `naming_ns_crash` shows that this is the only way: `OnlyLostNSBlocksStart`
  says that a service that waits for ever has read the disconnection of the very NS it asked.
  An NS that comes back, a denial, and crashes of the other services keep nobody waiting.
- `NamingTwoNets.cfg`: four services on two subnets, three SIds, unique by machine,
  one kill; the invariants of `naming_core` hold with limited reachability and
  exhausted SIds too.
- `NamingFixedSIds.cfg` violates `EntriesHaveDistinctSIds`: two services whose config
  files name the same SId are both registered with it. `doRegister` sets `ok = false`
  when the search finds the SId in use and then, because the search stopped before
  the end, `ok = true` (naming_service.cpp:541-556), although "we have to check that
  the user provided sid is available" and the function "Returns false in case of
  failure of sid allocation or bad sid provided" (473).

- `NamingStaleAck.cfg` (four services, two SIds, one kill, two crashes; no timeout)
  violates `EverySIdIsLeased` in 20 steps. A service that the NS was told to kill goes
  on reading until it leaves, and its socket keeps the SId as its application id after
  the SId was given to another service; an acknowledgement of it is then counted for the new holder
  (`cbACKUnregistration`, naming_service.cpp:684-705, goes by `from->appId()`), and an
  SId is free while a service still lists its former holder. The comment of `doRemove`
  says that a removed service "is down so it'll never ACK" (381), which a crash makes
  true and a kill does not. It takes a fourth service; in `naming_core` the lease holds.

Other limits of the code the models show, none of which is a run of its own:

- After an NS restart (`MaxNSCrashes = 1` in `NamingCore.cfg`) `QuietListsAgree`
  and `RestrictedNamesAreUnique` fail: a re-registration is not broadcast, so a
  service that registered with the new NS in between never learns of it, and a
  second service of a unique name is granted before the first is back.
- `releaseService` at the end of `doRemove` is unreachable: both branches before it
  return. The instance manager keeps the SIds of removed services for ever;
  `MayStart` shows why this does no harm: it looks at an SId only while it is
  listed.
- The port cursor is a static variable: after an NS restart it begins again and may
  give a port whose owner has not registered again yet. The end of the range is
  only tested when the search begins, so it may pass it by one round of taken
  ports; `PortAllocator` has both, and `TypeOK` bounds the second.

*Bounds.* Three services are the least with one removed, one that acknowledges
and one that arrives; two kills and two crashes let two removals overlap and let
one of them hit a service that is awaited. SIds 2..4 leave SIds below `BaseSId`
for the configured ones, and the search for a free one begins at `BaseSId`, so that an SId
that is freed is the next to be given. `MaxKills`,
`MaxCrashes`, `MaxFaults` (kills and crashes together), `MaxNSCrashes` and
`Timeouts` are the only bounds, all in guards of `Naming`; a process starts once,
so `Services` bounds the starts. Deadlock is not checked: a shard in which
everything has been said and every process has run is at rest.

*What holds only without late acknowledgements.* With `Timeouts` the removal of
an SId may end before a service has read of it; then the lease does not hold,
which is what a timeout means; the code logs it as a warning. The run `naming_live` shows what holds nevertheless.

*Fairness.* Both programs are loops that read one message after the other and
never stop reading, so each service's steps and the NS's steps for each
connection are weakly fair; `Update` is called by every turn of the NS's loop; a
launched NS is restarted by its administration service; 10 s always pass. Starts,
kills and crashes are not fair. A kill leads to an exit because `exit()` ends the
main loop.

### Proofs

`NamingProofs` proves, for every set of services, every configuration and every
bound:

- `TypeCorrect`: `Spec => []TypeOK`. The invariant `TypeInv` adds that the list of
  the NS is finite (the number of acknowledgements of `doRemove` is a
  cardinality) and that a service past its registration has an SId (or it could
  not register again with it).
- `ConnectedCorrect`: `Spec => []LiveEntriesAreConnected`, with NS crashes and
  timeouts. The property is not inductive: a step that accepts a connection
  resets an application id, which is harmless only if no live entry of that
  service exists. `ConnInv` says why there is none: an end that is closed has its
  disconnection event still queued or already handled; a service that has not
  asked yet is unknown to the NS; a request is the first thing on its connection,
  so a service has at most one live entry.
- `DistinctSIdsCorrect`: `Spec => []EntriesHaveDistinctSIds`, assuming
  `DynamicSIds` (no SId in a config file) and `MaxNSCrashes = 0`. Both are
  needed: `NamingFixedSIds.cfg` violates it without the first, and after an NS crash
  a service registers again with an SId that may have been allocated anew. The
  invariant says that no re-registration is ever in flight and every request asks
  for an allocated SId; then a grant takes an SId outside of the list.

Assumed are only `NetAssumption` and `BoundsAssumption` (types of the constants,
finitely many services). The lemmas reduce the steps to three kinds: a grant adds
one entry, a removal rewrites entries without making one live, and everything
else keeps them.

`PortAllocatorProofs` proves `TypeCorrect` and `AnsweredPortsDiffer`: as long as the cursor
has not gone back (`round = 0`), no two services are answered one port. The code relies on
the list of registered services, which does not have those that asked and have yet to
register; what keeps their ports apart is that every answered port lies below the cursor
(`CursorIsAhead`), which is inductive. `round` counts the restarts of the NS and the times
the cursor wraps (`GoesBack`): after either the property is false.

`NamingListsProofs` proves, with kills, crashes and late acknowledgements, that broadcasts
fit the lists they reach (`BroadcastsMatchList`), that lists agree at rest (`QuietListsAgree`),
that restricted names are unique (`RestrictedNamesAreUnique`) and that one of two services
dials (`OneOfTwoDials`), assuming `MaxNSCrashes = 0` and `DynamicSIds`; after a restart
of the NS the first three are false, see above. The four properties look at a moment and none
is inductive; one invariant, `ListsInv`, implies them all:

- `ListOK`: what a service *will* list once it has read its queue (`Lists`) is what the
  NS would send it now (`Current`), and every message in the queue fits the list it will find
  there (`Fits`): an answer finds none, a service that comes up none under its SId, one that goes
  down the one that is listed. This is where SIds that are used again could do harm: a
  grant takes an SId no entry has, so no service will list it.
- `RegistryOK`: entries have different stamps, belong to services that asked, and two of them
  never share a restricted name; those that wait count, as in `queryStartService`.
- `StartOK` and `EnrolledOK`: a service asks once, and until it dies or is killed it has an
  entry under the SId it was told.
- `MentionsOK` and `DialOK`: whoever is listed or on his way to a list is the one entry that
  service has (`Genuine`), so that the order of the list is the order of registration
  and, of two services, the later one was offered the earlier one and dials it.

The proofs reduce the steps of the shard to a few kinds: a queue grows by a message that fits
(`ListsAppend`), a queue loses its head (`ListsTail`), an entry comes, an entry stops being
live, or nothing of this changes.

It also proves that the shard implements `SIdLease` (`LeaseCorrect`), under `Calm`: no NS
restart, no kill, no acknowledgement later than the timeout, and `DynamicSIds`; services
come, crash and leave in any number, and SIds are used again. Late acknowledgements are
excluded because the timeout of `doRemove` gives up on purpose on what the lease promises, and
kills because the property is false with them (`NamingStaleAck.cfg`, above). The argument is
that acknowledgements are neither lost nor counted twice, `AcksInv`: every notice (UNB) that
a service has not read and every acknowledgement that the NS has not read stands for one
entry that waits and still awaits one from this service (`NoticesOK`, `ReceiptsOK`), and of
one service there is at most one of the two per SId (`OnceEach`). With `ListsInv`, what the
owner of an SId lists is in the list of the NS or has its notice still in the queue, so the
entry it names has not been dropped (`UsesAreHeld`). From there the steps of the lease follow one SId at
a time: the users of a free SId are none, and the holder of a used one does not change.

Model-checked only: the refinement of `SIdLease` with kills (it holds for the instance of
`naming_core` and not for every one); liveness, which is out of reach of this prover because
of ENABLED under fairness.

## 4. The login chain models

### Modules

| module | models |
|---|---|
| `LoginNet` | the four kinds of processes, their connections and the messages in flight |
| `LoginService` | `nelns/login_service`: `connection_client.cpp`, `connection_ws.cpp` and the user table |
| `WelcomeService` | `nelns/welcome_service/welcome_service.cpp` |
| `LoginServer` | `nel/src/net/login_server.cpp` with the client map of the front end (`fe_receive_sub.cpp`) |
| `LoginChain` | the clients (`login_client.cpp`), composition, crashes, fairness, all properties |
| `LoginProofs`, `LoginAccountsProofs` | theorems; those about the accounts until the first crash and the WS's counters |
| `MCLogin` | small instances for TLC |

### Correspondence

One login is: VLP to the LS, which makes the account Authorized and writes a
cookie; CS to the LS, which makes it Waiting and passes the cookie to the WS; the
WS chooses a front end and passes the cookie on; the front end keeps it and
answers SCS, which goes back through WS and LS to the client; the client shows the
cookie to the front end, which reports CC(1), and the LS makes the account Online;
when it leaves, CC(0) makes it Offline.

| state | code |
|---|---|
| `users` | the columns State, Cookie and ShardId of the table user |
| `shardSId`, `nbPlayers` | the entry of `Shards`; 0 when the shard is not listed |
| `conn`, `inbox` | the sockets of the LS's client server, with the request that waits; what the LS sent to each client |
| `FESList`, `assoc` | `FESList`, `UserIdSockAssociations` of the WS |
| `pending`, `playing`, `removing`, `accepts` | `PendingUsers`; `_ClientMap`, `_ClientsToRemove`, `AcceptClients` of the front end |
| `link`, `linked`, `broken` | the connection of the WS to the LS: its number, whether it lives, and dead ones the LS has not noticed |
| `lsToWS`, `wsToLS`, `wsToFES`, `fesToWS` | messages sent and not yet read |

| action | code |
|---|---|
| `Connect`, `Authenticated`, `Choose`, `Confirmed`, `Ignores` | `authenticateBegin`, `authenticateUpdate`, `confirmConnection` and an SCS that comes before CS is sent |
| `LSVerify`, `LSChooseShard`, `LSClientGone` | `cbClientVerifyLoginPassword`, `cbClientChooseShard`, `cbClientDisconnection` |
| `LSIdentify`, `LSShardChosen`, `LSClientConnected`, `LSLosesWS` | `cbWSIdentification`, `cbWSShardChooseShard`, `cbWSClientConnected`, `cbWSDisconnection` |
| `WSChooseShard`, `WSDisconnectClient` | `cbLSChooseShard` with `lsChooseShard`, `findBestFES`, `openNewFES`; `cbLSDisconnectClient` |
| `WSFrontEndUp`, `WSCounts`, `WSShardChosen`, `WSClientConnected`, `WSCookieRemoved`, `WSFrontEndDown` | `cbFESConnection`, `cbFESNbPlayers2`, `cbFESShardChooseShard`, `cbFESClientConnected`, `cbFESRemovedPendingCookie`, `cbFESDisconnection` |
| `WSConnectsLS`, `FESMeetsWS` | `cbLSConnection`; `cbServiceUp` of the front end |
| `FESAccepts`, `FESChooseShard`, `FESDisconnectClient`, `FESErasesCookie` | `cbAcceptClients`, `cbWSChooseShard`, `cbWSDisconnectClient` with `cbDisconnectClient`, `refreshPendingList` |
| `Enter`, `Rejected`, `Leave` | a LOGIN packet: `isValidCookie` and `addClient`, or `rejectReceivedMessage`; `removeClientById` with `doRemoveClient` |
| `Quit` | the player gives up or its client crashes before it plays |
| `LSCrash`, `WSCrash`, `FESCrash` and the restarts | the process dies; `resetDatabase` when the LS starts |

Decisions that matter:

- A member of `Clients` is one attempt to log in; it stands for the `rand()` key of
  its cookie as well. Two equal keys are left out, and with them the branches for a
  cookie that is already there.
- A member of `Addrs` is a `TSockId`, the address of a socket object of the LS. A
  cookie carries it, the LS finds the account again by it, and it may be another
  client's once the first is gone. Where several rows of the table have the address
  the model takes any: the order of a `select` is not specified.
- The LS has one receive queue for all connections, and its handler knows the
  connection a message came on: the queue holds pairs. A dead connection is noticed
  some time later (`Notice`), even after the WS has come back on another one.
- `cbWSClientConnected` reads `Shards[-1]` when the connection is not listed; the
  model writes either value of the shard flag.
- A front end that crashes and comes back is another member of `FESs`.
- When a front end with the account already in its client map gets a valid cookie
  it has used up the cookie and reported the arrival before it refuses: `FESLogin`
  does both in that order.
- Abstracted: one shard, so the shard id is a flag; passwords are right and queries
  succeed; the shard is open for everybody and nobody is privileged; a front end has
  room. Left out: the module interface of the WS (`PendingFeResponse` is empty), the
  reports to the LS of open states and of patching
  front ends, `AcceptInvalidCookie`, the TCP mode of `CLoginServer`; and FEPA: with
  `UseWebPatchServer` a front end reports its patch address and `AcceptClients` when it
  meets the WS (frontend_service.cpp:949-963), and the WS sets its state to patching or accepting
  by it (`cbFESPatchAddress`, welcome_service.cpp:576-610). In the model that state
  only changes by the WS's own decisions, as it does without a web patch server.
- The messages of a connection are read in the order they were sent, and those of an
  old connection of the WS before the LS takes it off its list. So `LSClientConnected`
  never meets a connection that is not listed; the branch is in the model, its
  consequences are not claimed.

### Runs

| run | instance | shows |
|---|---|---|
| `login` | 3 attempts, 2 accounts, 2 addresses, 2 front ends, limit of 1 player, patch mode, cookies grow old, nobody crashes, symmetric | one session per account; a cookie that is accepted is awaited; the LS's counter is the number of Online accounts; when nothing is in flight the Online accounts are those that play |
| `login_live` | 2 attempts, 2 accounts, 2 addresses, 1 front end that may crash, fair | every choice is answered, a player to be disconnected leaves, arrivals and departures reach the LS |
| `login_restart` | 2 attempts, 1 address, 2 front ends, one crash of LS, WS or front end at any step, no limit, no patch mode, cookies grow old, symmetric | what still holds: the WS relearns its counters, counts the cookies the front ends hold, also when they expire on the way, never counts too few players, knows no false association; an account that is Online still plays (`OnlineStillPlay`) |

Three configurations of `MCLogin` are kept for running by hand; each violates one
invariant, which a comment of the code claims:

- `LoginOneSession.cfg`, `OneSession`: "2 players are trying to play with the same id,
  disconnect all" (connection_client.cpp:139) rests on the state of the account and on
  the WS knowing where it plays. When the WS is lost its accounts are put Offline
  although their players play on (connection_ws.cpp:132), and a new WS learns only how
  many players a front end has, not which: the account logs in and plays twice.
- `LoginRefused.cfg`, `RefusedAreInUse`: a second login is refused with "You are
  already connected." (connection_client.cpp:137). An account whose player never comes
  to the front end stays Waiting: its cookie expires there, message RPC ends at the WS,
  the WS ignores DC for a user it does not know, and nothing else resets the state.
- `LoginTicket.cfg`, `TicketsAreOwn`: "_UserAddr is the ipv4 address of the client"
  (login_cookie.h:32), but the code stores the address of the socket object and sends
  the answer of the WS to whoever has it (connection_client.cpp:153, 398): a client that
  is accepted at the address of one that left gets its cookie and front end.

*Bounds.* Three attempts are the least for one that plays, one that is refused and
has it disconnected, and one that comes back; two addresses let two clients of one
account be connected at once, and fewer addresses than attempts make one used again.
Two front ends with a threshold of one player make the WS open the second; a limit
of one player is reached. `MaxFaults` bounds the crashes and with them the
connections of the WS to the LS; the member sets bound everything else. Deadlock is
not checked: all attempts may be over.

*What does not hold after a restart.* With a crash of the LS or the WS the other
invariants of `login` fail. A lost WS puts its accounts Offline while they play; a new WS
learns numbers only, so departures and requests to disconnect concern accounts it
does not know; a new LS has forgotten the players, lets them log in again, and when
the front end refuses the second client the arrival already reported is never taken
back, so the WS counts one player too many until the front end or the WS restarts.
`login_restart` shows what is left, `LoginOneSession.cfg` the consequence for the
accounts. One direction survives crashes of the LS and of front ends, `OnlineStillPlay`: a new LS
ignores arrivals of accounts that do not wait, and the farewells of the WS for a front end that
died reach it. It does not survive a crash of the WS, which takes the departures it has not
passed on with it: such an account is Online for ever. The invariant therefore says
"unless the WS has crashed"; the history `faults` is the sequence of the crashes.

*Fairness.* Each process reads its queues for ever, the services find each other
again through the naming service, dead connections are noticed, crashed services
are restarted, a client reads its answers (`confirmConnection` polls without a
timeout), and a client on the remove list is removed after three cycles. Nobody has
to log in, to choose, to quit or to crash, and no cookie has to grow old. `Quit`
is not fair, so `ChoicesAreAnswered` is not satisfied by giving up.

### Proofs

`TypeCorrect` proves `Spec => []TypeOK` for all constants, whatever crashes. `TypeInv` adds the messages
in every queue, that a client which waits for an answer has an address, that one which was given a
ticket has a cookie and a front end, and that a socket with a request knows its account. `LoginAssumption` says of the values of the constants only that
they are of different kinds and that there are finitely many accounts and attempts.

`AssociatedPlayCorrect` proves `Spec => []AssociatedPlay`, with crashes. `KnownInv` follows
the arrivals and the departures through the queue of a front end: an account that the WS
knows there, or whose arrival is in the queue, plays or has a departure further behind; the
last message of a front end that died is that it is down. So reading the queue to its end
leaves only accounts that play.

Four theorems of `LoginAccountsProofs` have the form `Spec => [](faults = <<>> => P)`: `P`
holds in every state before the first crash or broken connection, for any number of accounts,
attempts, addresses and front ends, and with cookies that grow old at any time. The
hypothesis is no convenience: `LoginOneSession.cfg` shows a session that exists twice after
a restart, and the run `login`, which checks the same properties, has no faults either.
None of the properties is inductive. `Trips` says of each account where it is on one way
through the system: its cookie is with the LS, asked of the WS, refused by it, sent to a front
end, held there, or used there; then the report of the arrival is on its first or second queue
or read; and the report of the departure likewise. For each place `Trip` says which queue has
exactly one message about the account (`Once`), which have none (`Never`), what its row says
and who plays. A step moves at most one account (`TripsMoved`); the lemmas on `Keeps` say that
reading or writing a message leaves what is known of the others. `Books` adds the counter of the LS.

`PendingAgreeCorrect` and `NobodyIsUncountedCorrect` prove, whatever crashes, that when
nothing is in flight the WS counts for each front end the cookies the front end holds and at
least its players. Three kinds of numbers meet in one entry of `FESList`: the WS's own
changes, the changes the front end reports, and the front end's absolute numbers, which
overwrite both and were taken before messages still in the queue. `Effect` says what one
message makes of a count, and `LeadsTo(what, q, n, p)` that reading the queue `q` turns the
count `n` into `p`. `CountsInv` says (`Agrees`) that the count of every entry, read through
the queue, ends at what the front end has (`Has`): equal for cookies, at least that for
players, because `addClient` may turn away an arrival that was reported. While a cookie is
on its way to the front end (`Asked`) nothing is said of the cookies: the answer to it
carries an absolute count, so what the WS has guessed in between is overwritten. An entry
that is not made yet may begin with any count, because the absolute numbers follow the
message that the service is up. `EntryOK` adds that a front end has one entry, none before
the WS reads that it is up, and that an entry which outlives its connection has the message
about it in the queue. A queue without messages leaves the count, which gives the two
properties.

Model-checked only: `OnlineStillPlay`, and liveness, out of reach as above.

## 5. The backup models

### Modules

| module | models |
|---|---|
| `BackupNet` | the connections between the EGS and the backup services, the messages in flight, what a write makes of a file |
| `BackupService` | `backup_service.cpp`, `backup_file_access.cpp`, the commands of `commands.cpp` and the temporary files of `COFile` (`nel/src/misc/file.cpp`) |
| `BackupInterface` | the client: `backup_service_interface.cpp` with its singleton and its implementation over layer 5 (`ryzom/common/src/game_share`), `cbStallMode` of the EGS |
| `Backup` | composition, upsets, fairness, all properties |
| `FileStore` | abstract specification: what a service promises about the writes it accepted |
| `BackupProofs`, `BackupFilesProofs` | theorems; those about the files |
| `MCBackup` | small instances for TLC |

### Correspondence

The EGS sends every request to all services named "BS", a master and its slaves; a
service queues it, executes the queue in its `update()` and answers loads. Writes are
acknowledged implicitly: the EGS pings each service, and the pong acknowledges the
requests that had been sent when the ping was prepared. When an access fails for
a major reason the service stalls: it keeps the queue, tells the EGS, and the EGS has
the tick service halt the shard until an operator resumes the service.

| state | code |
|---|---|
| `mode`, `accesses`, `readState` | `_Mode`, `_Accesses`, `BSReadState` |
| `disk`, `temp` | the files; the temporary file of the access that is executed |
| `phase` | where the loop is: between messages, in `update()`, and within `COFile::internalClose` |
| `counter`, `loads`, `responses` | `_Counter`, `_FileResponses`, `_GenericResponses` of the singleton |
| `requestIds`, `pingPongs` | `CGenericRequestIdRegister`, `PingPongs` |
| `ticksHalted` | what the tick service was last told |
| `acked`, `ackedBy`, `sent`, `expected`, `losses`, `missed` | history: the calls of acknowledgement callbacks, the services whose pongs they are owed to, the files as the EGS wrote them, now and when a load was requested, the accesses each service gave up, and the services that were not sent everything |

| action | code |
|---|---|
| `Write`, `RequestFile` | `sendFile`, `append`, `deleteFile`; `requestFile` |
| `ServiceUpdate`, `PingPongs`, `File`, `StallMode`, `Connection`, `Disconnection` | `serviceUpdate`; `cbBSPingPong` with `processCallbacks` and `popGenericCallback`; `cbFile`; `cbStallMode`; `cbBSConnection`; `cbBSDisconnection` |
| `WriteFile`, `LoadFile`, `Ping`, `Connect`, `MasterDown` | the callbacks of the service that stack an access; `cbBSPing`; `cbConnection` with `notifyServiceConnection`; `cbDisconnection` |
| `Load`, `Delete`, `LoadFails`, `DeleteFails` | `CLoadFile::execute`, `CDeleteFile::execute` and their minor failures |
| `OpenAndWrite`, `CloseDelete`, `CloseMove`, `WriteFails` | `CWriteFile::execute`: the temporary file; `fclose` and the deletion of the old file; the renaming; a major failure |
| `StallShard`, `ResumeShard`, `RemoveFileAccess` | the commands of the operator |
| `Crash`, `Restart`, `Break` | the process dies and is launched again; a connection breaks |

Decisions that matter:

- The data of a write is the request's id, a file holds the ids it is made of. So a
  property can tell which writes a file has seen, and in which order.
- A request while no service is connected ends the EGS (`exit(0)`): none is issued then.
- What the EGS sends on a connection that has broken is lost; messages to the EGS are lost
  from the end; UP and DOWN are the events of layer 5 and stand in the same queue.
- The first request has id 0, which is also the initial `LastGenericRequestId`: the first
  pong acknowledges it in any case. `AcksDoNotOvertake` leaves this request out.
- A load is answered to the ServiceId it came with. An EGS that connects again has a new
  one (unified_network.cpp:271-276), so the answers to loads queued before are lost: `stale`.
- `Crash` is the loss of the process with its queue. A service that is stopped in order
  executes what it has queued first (`CFileAccessManager::release`,
  backup_file_access.cpp:107-117); in the model these are steps of `update()` before the crash.
- `MasterBreak` breaks the connection of a slave to a master that runs on: the slave then
  answers loads as well.
- A failure that the default configuration calls minor drops the access; it is counted in
  `losses`, as are the removal of an access by an operator and a crash.
- Not modelled: synchronous loads and the lists of files (they only read), the module and
  layer-3 interfaces (the same manager behind another transport), backup copies, the
  failure modes that are off by default, the wrap of the 32-bit request id.

### Runs

| run | instance | shows |
|---|---|---|
| `backup` | 1 service, 1 file, 3 requests of any kind, 1 upset of any kind at any step, fair | loads see the writes before them and no others; the files are those the EGS wrote unless a loss is counted; the service implements `FileStore`; a stall halts the ticks, also of a service that had no connection when it stalled |
| `backup_live` | master and slave, 1 file, 2 deletions, 1 crash or broken connection at any step, fair | acknowledgements in the order of the requests, none twice, none skipped, however the pongs of the two interleave; no pong overtakes a write; every request is acknowledged, by the other service or over the next connection of the same one |
| `backup_torn` | 1 service, 2 requests, the disk may fill up in `fclose` | violation: a truncated file replaces a good one |

*Bounds.* Three requests are a load between two writes, or a write that is being made, one
that waits and one on the way. One
service is enough where its own queue and files matter (`backup`). Where the client's register
is shared there are a master and a slave (`backup_live`). An acknowledgement does not depend
on what a request asks for, so deletions do; the second of two is the one that shows
something, because the first has id 0. That master and slave agree, for all kinds of
requests and upsets, is proved (`ReplicasAgreeCorrect`), as is everything else that `backup_live`
says of safety. `MaxUpsets` bounds what does not happen by itself; one upset is a crash, a
stall with its retries, or a connection that breaks and is made again, each at every step.

*What an acknowledgement means.* Less than that the service has the request. The pings and the
pongs of a connection are in order with its requests, so a pong does not overtake a write on its
connection (`AcksDoNotOvertake`). But a connection that breaks takes unread writes with
it, and `cbBSDisconnection` only erases the record of the pings
(_backup_service_interface_non_module.cpp:166-177): the register of the requests stays, and
the next pong of any service, or of the same one on its next connection, acknowledges the
lost writes too (278-281). That is what makes `AcksArrive` true, and it makes
"acknowledged" mean "no longer on the way". The models count such writes in `missed`,
and what they say of files they say of services that have missed nothing.

*Why a refinement.* `update()` makes a write in four steps with a crash possible between any
two, retries it after a stall and leaves messages unread meanwhile. `FileStore` says
in two actions what must remain of it: a write is accepted and made once, on the file that
all writes accepted before it left; anything else is a loss, and losses are counted. The
mapping replays the queue on the disk, and on the temporary file while the old one is gone.

*Fairness.* Both loops run for ever, connections are tried again until they are made
(layer 5) and a service that died is launched again. Nobody promises a request or an
operator's command, and no upset has to happen. `StallsHaltTicks` needs no fairness of
the operator.

*Limits of the code the models show.* `fclose` is not tested (`backup_torn`, a finding).
A crash between the deletion of the old file and the renaming leaves no file, and the temporary
one under a name nobody looks for. A load that was lost with its service is never answered,
nor requested again. With two services, the STALL_MODE of one that resumes lets the
shard run while the other is stalled. `forbidStall` sets a flag that nothing reads
(backup_file_access.h:160).

### Proofs

`AcksDoNotOvertakeCorrect` proves `Spec => []AcksDoNotOvertake` for any number of services,
files, requests and upsets; assumed is only `NetAssumption`. A write that is on its way to a service
must not have been acknowledged by that service; for that to be inductive, `AckInv` has to follow a ping
through both queues of a connection:

- `OneConnection`: requests, pings and pongs only exist between the UP and the DOWN that
  the EGS has read last. A DOWN is found before the next UP (`Closed`), and behind either
  there is no pong of another connection. So a new record starts with nothing on its way.
- `OnePing`: a record that is ready has no ping and no pong on its way, another one at most one.
- `PongCovers`: a write behind the ping, or unread when the pong is sent, has an id later than
  the one the record remembers, or is the first of all.
- `Known`, `IdsInv`: ids come from the counter and nothing is acknowledged before it exists.

The lemmas on `ChannelInv` are about one connection as four values, without a state: one for each
way it is read, written, opened and broken. `OneService` lifts them to steps, where the other
services only need that the history of acknowledgements grows by one service. `UpTo`
chooses a number, which exists by the well-foundedness of < (`UpToExists`).

`AcksInOrderCorrect` proves `Spec => []AcksInOrder`, with the same assumption. `Register` says
that the ids in the register, the callbacks that wait and the calls made are ascending, every id
comes from the counter, and every callback that waits belongs to a registered id. So the
callbacks `popGenericCallback` takes off are those of requests just removed, none is skipped
(`NothingSkipped`), and what is left is later than what was called.

`TypeCorrect` proves `Spec => []TypeOK`. `TypesInv` adds the messages in flight, that a pong
finds a record, and that a service between the deletion of a file and its renaming has a
write at the head of its queue.

`BackupFilesProofs` proves of the files, for any number of services, files and requests:

- `ImplementsFileStoreCorrect`: every step of `Backup` is, for each service, a step of
  `FileStore` or a stutter, under the mapping that replays the queue on the disk
  (`Contents`, `StoreStep`). What makes it work is that a write that is accepted is
  replayed last and one that is made is replayed first (`ReplayAppend`, `ReplayTail`), and that
  what is missing on the disk is in the temporary file.
- `ReplicasAgreeCorrect` and `LoadsReadOwnWritesCorrect`, from `FilesInv`: for a
  service that has lost and missed nothing, the files, with the queue and then the messages on
  their way replayed on them, are those the EGS wrote; and with those replayed that
  are before a load, they are those written when it was requested.

All three are proved for `~MayTear`, that is unless `fclose` fails unnoticed. Without
this they are false, as `backup_torn` shows; the runs of `Backup` that check them have
`MayTear = FALSE` for the same reason.

`Replays` and `Called` are recursive functions over the places of a sequence. The provers
cannot use the library's induction theorems, whose parameter is an operator, but a least
counterexample in the naturals exists by the well-foundedness of <, a theorem without
one: the lemma `UpToN` turns it into induction up to a number, on sets instead of
predicates. That such a function exists (`ReplaysExists`) is proved in the same way.
Liveness remains model-checked only.

## 6. The client session models

### Modules

| module | models |
|---|---|
| `SessionNet` | the two wires, on which datagrams are lost and overtaken |
| `FrontEndSession` | `CClientHost` and `CImpulseEncoder`, as driven by `fe_receive_sub.cpp`, `fe_send_sub.cpp` and `frontend_service.cpp` |
| `ClientSession` | `CNetworkConnection` and `CImpulseDecoder` of the client |
| `Session` | composition, all properties |
| `SessionProofs` | theorems |

### Correspondence

Each side is a record, `fe` and `cl`, with the fields of the class. The front end sends one
datagram per tick: a SYNC, a PROBE or a normal one. An impulse of level l travels in every
packet of its channel (packet number modulo 2^l) until one of those is acknowledged; then
the channel takes the next ones. The client acknowledges normal packets in the mask of its
own normal datagrams, and over a longer past in the bit field of an ACK_SYNC; it sends its
blocks of actions until the front end acknowledges the first datagram they were in.

| field | code |
|---|---|
| `state` | `ConnectionState`, `_ConnectionState` |
| `sendNumber`, `receiveNumber`, `lastAck` | `_SendNumber`, `_ReceiveNumber`, `LastReceivedAck`; `None` is 0xFFFFFFFF |
| `main`, `queue`, `firstSent` | `_MainQueues`; `Queue` and `FirstSent` of each `CImpulseQueue` |
| `lastSentSync`, `drift`, `sync`, `probe` | `LastSentSync`; how often ticks and packet numbers came apart; `getSync()`; the four probe counters |
| `lastCycle`, `done` | `LastReceivedGameCycle`; history: the blocks handed to the shard |
| `last`, `acked`, `lastInLong` | `_LastReceivedNumber`; `_AckBitMask`, `_LastAckBit` and `_LongAckBitField` as one set; `_LastAckInLongAck` |
| `decoded`, `actions`, `probes` | `_LastAck0..2`; `_Actions` with `FirstPacket`; `_LatestProbes` |
| `acked` of `fe`, `seen`, `log`, `misled` | history: impulses dropped as acknowledged, read by the client, passed on to its handlers; whether an ACK_SYNC misled the front end (see below) |

| action | code |
|---|---|
| `AddImpulse`; `SendNormal`, `SendSync`, `SendProbe` | `addImpulseToClient`; the three cases of `prepareHeadersAndFillImpulses` |
| `FEReceive` | `handleReceivedMsg` from the test of the number on: ACK_SYNC, ACK_PROBE, normal |
| `ClientLags`, `Stall`, `setClientsToSynchronizeState` | `updateClientsStates`; no tick for 2 s; the next tick |
| `ClientReceive` | `decodeHeader` and the five `state...` functions |
| `ClientSend`, `ClientTimer` | `send(cycle)` and `send()`; the timers of `stateSynchronize` and `stateProbe` |

Decisions that matter:

- The widths are constants: `AckBits` (32), `LongAckBits` (1024), `ProbesNeeded` (5), and
  `QueueSize` stands for the bits of an impulse queue. The run has a mask of one bit,
  so that three packets without an acknowledgement already exceed it.
- `TooManyLost` has the unsigned difference: an acknowledgement that goes back exceeds any
  window.
- The front end changes the state to Connected before it compares the number of an ACK_SYNC;
  the model does both in this order and keeps the fact in `misled`.
- So is the fact that an accepted ACK_SYNC does not reach back: its bit field covers the last
  `LongAckBits` packets, and what is older (`back`) counts as not received
  (`fe_receive_sub.cpp:1058`), also where the front end has no acknowledgement of it yet.
- A client that is stalled is read from no more: datagrams are read at a tick.
- Duplicated datagrams are left out: both sides drop a normal one by its number, and of
  system messages only those that are late matter, which reordering provides.
- A PROBE read in state Stalled sets the state Probe without leaving the loop of
  `stateStalled` (network_connection.cpp:2360-2369), where a STALLED that is read next changes no state. The
  model does not know in which loop the client is and lets a STALLED leave any client
  that is in Probe there, or stall it.
- The assertion of `receiveNormalMessage` that the server tick advances
  (network_connection.cpp:1341-1344) is compiled out of release builds; the model goes on after it.
- A block of actions fits in a datagram: `send(cycle)` keeps what exceeds one
  (network_connection.cpp:2671-2701) for the block of the next cycle.
- Datagrams are lost or overtaken but not malformed: the paths of
  `rejectReceivedMessage` for those that cannot be read are not in the model.
- Not modelled: LOGIN itself (`LoginChain`), quit, disconnection and limbo, the time-out of a
  silent client, the down server, entity properties, impulses in several parts, the wrap of
  packet numbers.

### Runs

| run | instance | shows |
|---|---|---|
| `session` | levels 0 and 1, 2 impulses, 2 blocks of actions, 5 packets, 3 messages, one lag or stall, reordering | impulses are delivered once, those of level 0 in order; what is dropped as acknowledged was read by the client and delivered; actions reach the shard in order, once, and are kept until then |
| `session_ticks` | no traffic, one stall, 5 packets, 4 messages | violation: both sides are Connected with different offsets of the game cycle |

*Bounds.* Five packets are a SYNC, a normal one, an upset, a second SYNC and a normal one, which is
what it takes to repeat an impulse after the decoder has begun anew. The field of an ACK_SYNC has
three bits, as many as the packets between the first acknowledgement and the second. Two datagrams may be on
the way to the front end, which accepts late system messages; to the client one at a
time, because a client drops every datagram that was overtaken: reordering is a loss there.

*What does not hold.* `session_ticks` is a finding: the number of a SYNC only advances when
one is acknowledged, so the ACK_SYNC of the one before a stall passes for that of the one
after it. An ACK_SYNC with a wrong number is rejected, but the session is Connected
already (`misled`): the client may be in Probe then, each side ignores the other's datagrams
and neither times out, or its decoder begins anew and takes repeated impulses for new ones.
The attempt to prove the two properties found a second way to the same end: when more than
1024 packets lie between the last one the front end knows to be received and the end of a
resynchronisation (a probe that lasts that many ticks), it never learns of the normal packets before them, sends their
impulses again, and a decoder that has begun anew passes them on a second time. TLC shows it
with `LongAckBits` 2 when that cause is left out of `misled`.
`ImpulsesArriveOnce` and `AckedWereDelivered` therefore say "unless misled"; `AckedWereRead`
and `ActionsArriveInOrder` hold without. No liveness is claimed of sessions: it would
need a network that delivers in the end, and the deadlock above contradicts it.

### Proofs

`SessionProofs` proves for any levels, windows, queue sizes and bounds (`NetAssumption`,
`FrontEndAssumption`, `ClientAssumption`: that they are numbers of the right kind):

- `TypeCorrect`: `Spec => []TypeOK`;
- `AckedWereReadCorrect`: `Spec => []AckedWereRead`;
- `ActionsArriveInOrderCorrect`: `Spec => []ActionsArriveInOrder`.

The three follow from one invariant, `SInv`, which says of the datagrams in flight what makes
them safe to believe at any later time, in any order:

- a packet that the client acknowledges was read by it: every impulse of a channel that
  left in it, and has not been replaced since, is in `seen` (`WasRead`). It is about the impulses
  of the channel *now* if the packet was sent after they first were (`FirstSent`), and says
  nothing otherwise, which is the test of `CImpulseQueue::flush`. `Lasts` states which
  changes of the front end it survives;
- the blocks of a normal datagram are consecutive and begin no later than the one
  the shard is to be given next; a block that has left once and is not among them has been given
  to the shard (`HasBlocks`). So the client may drop a block when the front end has
  received the first datagram it was in (`ActionsOK`).

The processing of the blocks is a recursive function; that it exists, and that it takes each
block once, is proved by a least counterexample (see the backup proofs).

- `ImpulsesArriveOnceCorrect`: `Spec => []ImpulsesArriveOnce`;
- `AckedWereDeliveredCorrect`: `Spec => []AckedWereDelivered`.

These two rest on a second invariant, `Delivery`, relative to `SInv`: the front end is misled,
or `Delivers` holds of both sides and the two sets of datagrams in flight. Its parts:

- the numbers of the SYNCs divide the normal datagrams into sessions, and the client is in the
  front end's or one behind (`EpochOK`, `SyncsOK`, `AcksOK`);
- of what a channel holds the client has read everything or nothing (`HeldOK`), and a
  datagram that it may still read carries exactly that, or only what it has read (`CarriedOK`);
- if it has read it, there is a packet p, read and not acknowledged yet, that every later
  acknowledgement of a packet after p covers too, in the mask or in the field of an
  ACK_SYNC (`WitnessOK`, `FieldOK`): the front end therefore learns of p before the channel takes
  new impulses;
- hence the decoder, which compares the acknowledged number in a packet with its own number
  when the channel last brought something new, takes a packet's impulses for new exactly if
  they were not read (`DecodedOK`);
- before the first packet of a new session, with the decoder reset, nothing held was read
  (`CleanOK`): the ACK_SYNC that opened it named every p. This is where `misled` ends the proof;
- impulses leave the main queue in order (`MainOK`), and the log has what was read,
  each once, level 0 in order (`LogOK`).

There is one lemma for each way the two records can change (`AddDelivers`, `NormalDelivers`,
`SyncDelivers`, `AckSyncDelivers`, `AckDelivers`, `AckSyncSent`, `AckSent`, `OtherDelivers`,
`ReadDelivers`, and `FrontEndQuiet`, `ClientQuiet` and `FewerDelivers` for what disturbs
nothing); every action is a composition of them.

## 7. Not modelled

The components with status `not_modelled` in `PROJECT.json` give their reasons.
Of the modelled part: encoding of messages, logging, the recorder, several
addresses within one subnet (accessibility is a set of subnets), and
`ryzom/server/src/ryzom_naming_service`, which is a near copy of the NS.

Most of the 2.3 million lines are out of reach on principle rather than for want of time:
the 3D engine with its drivers, the sound, the GUI, the editors and exporters, generated
database code (`database_plr.h`, `database_mapping.cpp`) and headers of third parties have no
protocol state, and the game services are rules over large data with one thread each. What
the models cover is the part where processes interleave and fail; the plan lists what is
left of it.
