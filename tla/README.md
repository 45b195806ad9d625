# TLA+ specifications of the New Phoenix server

New Phoenix is a TrinityCore-based World of Warcraft 3.3.5a server (C++). This
directory holds TLA+ modules that model the server's concurrent and
failure-prone core, TLC configurations that model-check them on small
instances, and TLAPS proofs of the results that matter most. All source paths
below are relative to `src/src/server` of the repository.

## The system

Two processes share three MySQL databases (login, characters, world). The
*authserver* authenticates clients (SRP6) and lists realms. The *worldserver*
runs the game; its threads are

| thread | code | does |
|---|---|---|
| main | `worldserver/Master.cpp` | starts the others, joins them, closes the databases |
| world | `worldserver/WorldThread/WorldRunnable.cpp`, `game/World/World.cpp` | the world loop: sessions, maps, battlegrounds, timers |
| network | `game/Server/WorldSocketMgr.cpp`, `WorldSocket.cpp` | reactor threads that authenticate clients and fill the sessions' receive queues |
| map update | `game/Maps/MapUpdater.cpp`, `shared/Threading/DelayExecutor.cpp` | optional threads that update maps within a tick |
| database workers | `shared/Database/DatabaseWorker.cpp` | execute delayed SQL operations |
| consoles | `worldserver/CommandLine`, `RemoteAccess`, `TCSoap` | queue commands for the world thread; each remote access socket has a thread of its own |

### Inventory

| component | state | operations | interacts with | hard behaviour | what makes it correct |
|---|---|---|---|---|---|
| Session admission (`World.cpp`) | `addSessQueue`, `m_sessions`, `m_QueuedPlayer`, `m_disconnects`, the limit | `AddSession`, `AddSession_`, `RemoveSession`, `UpdateSessions`, `RemoveQueuedPlayer`, `KickAll` | network threads through a locked queue; sockets closing at any time | raw pointers in a queue, reconnection of an account, removal in the middle of the queue | no dangling entry, exact positions, fair order, no idle slot, limit respected |
| MySQL connection (`MySQLConnection.cpp`, `Transaction.cpp`) | handle, prepared statements, error code; the server's session | `Execute`, `ExecuteTransaction`, `_HandleMySQLErrno`, `TransactionTask::Execute` | the MySQL server | failures and deadlocks of statements and of COMMIT, lost connections and lost replies, refused reconnections | transactions all or nothing, reported result true, order kept |
| Database pool (`DatabaseWorkerPool.h`, `DatabaseWorker.cpp`) | operation queue, connections and their mutexes | `Enqueue`, `DirectExecute`/`Query`, `KeepAlive`, `Close`, worker `svc` | every core thread | blocking at the queue's limit, a handle read without its mutex, joining workers, deletion of connections while threads that nobody joins still run | one thread sends commands on a handle, no joined thread uses a deleted one, each operation executed, `Close` returns |
| Map updates (`MapManager.cpp`, `MapInstanced.cpp`, `MapUpdater.cpp`, `DelayExecutor.cpp`) | base maps, instances, request queue, `pending_requests` | `MapManager::Update`, `schedule_update`, `wait`, `update_finished`, `DestroyInstance`, `UnloadAll` | world thread and map threads, condition variable | updates that schedule updates, lost wake-ups, a full queue, unlocked shared state | the world thread is alone between ticks, each map updated once by one thread, `wait` returns |
| Instance ids (`MapManager.cpp`) | a `vector<bool>` and `_nextInstanceId` | `InitInstanceIds`, `RegisterInstanceId`, `GenerateInstanceId`, `FreeInstanceId` | map threads free ids without a lock | word-level races, vector sizes at a boundary | an id in use is never handed out |
| Session receive loop (`WorldSession.cpp`, `CharacterHandler.cpp`) | receive queue, `_player`, login query, logout timer, `m_playerRecentlyLogout` | `Update` under two filters, login, `LogoutPlayer`, `KickPlayer` | network thread fills, world and map threads drain | packets put back at the end of the queue, two drains per tick, packets that outlive a login | order of packets, handlers in the right thread and for the right character, every packet read |
| Sockets (`WorldSocket.cpp`) | `closing_`, `m_Session`, output buffer | `ProcessIncoming`, `CloseSocket`, `handle_close`, `SendPacket` | reactor threads, session | a raw pointer to a session that the world thread deletes | no use of a deleted session |
| Shutdown (`WorldRunnable.cpp`, `World.cpp`, `Master.cpp`) | stop event, exit code, timer and mask | `ShutdownServ`, `ShutdownCancel`, `StopNow`, `KickAll`, joins of `Master::Run` | all threads | requests that replace each other, join order | the request in force is honoured, everybody is logged out, the process ends |
| Consoles (`CliRunnable.cpp`, `RASocket.cpp`, `TCSoap.cpp`) | command queue, `_commandExecuting` and message queue of a remote access socket, semaphore of a SOAP command | reading commands, `ProcessCliCommands`, `commandFinished` | world thread calls back into sockets | flag reset after the answer, a full queue, commands queued after the loop | no freed socket used, the tick ends |
| Trade, auctions, mail (`TradeHandler.cpp`, `AuctionHouseHandler.cpp`, `AuctionHouseMgr.cpp`, `MailHandler.cpp`, `Mail.cpp`, `ObjectMgr.cpp`) | windows, auctions, mails, inventories and gold in memory; the tables of the character database; queued transactions | the handlers, expiry, saving and loading | the database, behind a queue | a crash between memory and database, reads ahead of queued writes, full bags, gold at the maximum and at the width of its type | conservation of items and gold, memory and database agree, an acceptance binds |
| Instance saves, battleground queues, dungeon finder, groups | tables of saves, queued groups, proposals, members | handlers and periodic updates | players, timers, database | timeouts racing late answers | consistent membership |
| Event processor, linked references, motion master, grids | intrusive lists and timer queues | update loops with callbacks | callbacks that change what is being walked | re-entrancy | no element visited after removal |
| Authserver | handshake state per socket | challenge, proof, realm list | database | states skipped or repeated | proof only after challenge |

`PROJECT.json` lists every component, the ones not modelled too, with the
reason, and under `hazards` the places where the code is hard to test.

## Modules

An operator whose name ends in `_Something` placed before the operator it is
named after (`MayPass_NotQueued` before `MayPass`) is a *mutant*: a plausible
bug that breaks a property, recorded in `PROJECT.json`. Specifications never
use them.

### LoginQueue — admission of sessions

One variable per member of `World` that takes part, and one per field of
`WorldSession` that matters. `Sessions` are heap addresses that are reused, so
an entry of `m_QueuedPlayer` that outlives its session is a dangling pointer
(`NoDanglingSession`). Actions: a network thread allocates a session and hands
it over (`AddSession`); a socket closes at any time; the world thread runs
`UpdateSessions` in the steps drain (`AddSession_`, one session at a time),
walk (`UpdateSession`/`RemoveDeadSession`, one account at a time) and end; the
limit is set from the console between updates; `KickAll`, a last
`UpdateSessions` and the destructor at shutdown. `RemoveQueuedPlayer` is one
operator over a record of queue, flags and positions because the code calls it
twice in a row for a removed session; both calls are modelled.

### AtomicStore, DbTransaction — transactions on a connection

`DbTransaction` has one step per command sent to the server or reconnection
attempted. The server side is external: a session is in autocommit mode or in
a transaction that is lost with the session. `Faults` and `Reconnects` choose
what can go wrong. Any command may be refused (`QueryFails`), START
TRANSACTION, ROLLBACK and COMMIT too, and a COMMIT may be answered with a
deadlock (`QueryDeadlocks`): `BeginTransaction`, `RollbackTransaction` and
`CommitTransaction` drop `Execute`'s result, so the code goes on as if they had
succeeded. A COMMIT or ROLLBACK that is refused ends the server's transaction
without effect. `Execute`'s tail recursion after a reconnection is `Resend`;
the rerun of a deadlocked transaction is `TransactionFailed`/`Rerun`.
`AtomicStore` is the abstract specification: the database receives whole
transactions (`Apply`), in queue order, at most once each; only a transaction
that was torn before anything of it took effect (`Tear`) may take effect
statement by statement (`ApplyPiece`), in order and before every later
transaction. A transaction is `Torn` when its session was replaced between
START TRANSACTION and the last statement, or its START TRANSACTION was refused:
the code then runs the rest in autocommit mode. With the mapping
`torn <- {t \in Transactions : Torn(t)}`, `DbTransaction` implements
`AtomicStore` (property `AllOrNothing`); `OrderRespected` and
`AppliedTwiceOnlyIfReplyLost` say the rest about the torn ones.

`ReportedDoneIsDone` excepts a transaction whose own COMMIT was refused, or that
lost its session after START TRANSACTION (`Intact`): the code reports both as
done (`MySQLConnection.cpp:408`). What the property rules out is that anything
else, a failed statement or the failure of an earlier transaction, has this
effect.

### DbPool — the worker pool

Core threads enqueue delayed operations (blocking at `QueueLimit`) or search
the synchronous connections round-robin for one they can lock; `EscapeString`
looks at the handle of the first one without locking it; the world thread also
runs `KeepAlive`. Worker `i` owns asynchronous connection `i`. `Close` starts
when the core threads that `Master::Run` joins have exited: it closes the queue
(which also flushes it), joins the workers one by one, deletes the connections.
The threads in `Unjoined` (remote access sockets, and the command line, which is
joined after `_StopDB`) may be anywhere in a call meanwhile, and may call the
pool after its deletion (`UseDeletedPool`, undefined). The comment in `Close`
says it "should only be called after any other thread tasks in the core have
exited" (`DatabaseWorkerPool.h:129`); nothing makes it so for these threads.

`OneThreadPerConnection` is about commands on a handle, which take its mutex.
That `EscapeString` may read the character set and status of a handle while
another thread executes or pings on it is in the model and is a data race of the
code. `NoUseAfterClose` is about the workers and the threads that are joined.

### InstanceIds, MapUpdate — the tick over the maps

`InstanceIds` is the allocator: `size` and `capacity` of the vector, the set
`marked` of bits that are set, `_nextInstanceId`, and the set `inUse` of ids
that instances have. A store at or beyond `size` is undefined in C++; the
outcome modelled is that the bit is not part of the vector.

`MapUpdate` extends it with the tick: the world thread schedules each base map
and waits; a worker (or, without threads, the world thread) updates a base map
and visits its instances one by one, scheduling an update for each, giving up
its destruction when it still has players, or destroying it and freeing its id.
`FreeInstanceId` takes no lock, so it is split where another thread can
interfere: the test of `_nextInstanceId`, its store, the read and the write of
the word that holds the bit. `MapUpdater`'s methods hold its mutex throughout
and are one step each. A base map without instances is a battleground map
before its first instance.

### ItemCustody — trades, auctions and mail

The handlers run one at a time on the world thread, so each is one action; it
changes the memory (`m_items`, `money`, `m_trade`, `auctions`, `m_mail`) and
appends its transaction to `queue`. `DbExecute` carries out the head of the
queue, whole (what `AtomicStore` says) and in order (one worker, the default);
login queries wait in the same queue, while `_LoadMail` and the queries for
expired mails and auctions read the tables at once, ahead of it. `Crash` loses
memory and queue; then expired auctions are settled
(`DeleteExpiredAuctionsAtStartup`) and the rest is loaded. Tables are keyed the
way the code keys them, so an item may be in several, which is what `OnePlace`
excludes. `discarded` records items given up with their mail on purpose. A
transaction is a sequence of statements, which `RunAll` carries out one by one;
the statements of a loop over items or mails change distinct rows and are one
record with a set.

Five steps leave memory and database apart. Each is an action like the others,
is reached in `item_custody`, and sets `astray`, with which a behaviour of the
model ends; the properties hold up to and including that step:

| case | code | what the code does after it |
|---|---|---|
| the mail timer reads a mail about which a statement is queued (`Pending`) | `ObjectMgr.cpp:5251` | returns or deletes the mail although it is being returned, taken from or deleted: the item can be in a mail and elsewhere |
| a player opens the mailbox ahead of what the timer has queued for one of its mails (`Overtaken`) | `Player.cpp:18101` | the opened mail goes back to its sender, or is deleted, while its receiver may still take the item: it is in two places |
| startup reads back an auction whose deletion is queued (`Revived`) | `World.cpp:1606` | the auction is in memory without a row, and can be bid on and pay out again |
| `HandleMailTakeItem` takes an item through a mail that does not list it | `MailHandler.cpp:446` | the item stays listed in its own mail; the cash on delivery charged is the other mail's |
| a change of money above `MAX_MONEY_AMOUNT` (`PassesMaximum`) | `Player.cpp:22370` | `uint32(MAX_MONEY_AMOUNT - amount)` wraps, and the purse passes the maximum |

A sum of money is an `uint32` and a change of it an `int32`; `Uint32` scales
2^32 as `MaxMoney` scales `MAX_MONEY_AMOUNT`, which is `0x7FFFFFFF - 1`: one int32
lies above it. `HandleSendMail` adds the postage in `uint32`, where the sum wraps
(`MailHandler.cpp:106`), lets a game master through who has not the money (line
108), and subtracts `int32(reqmoney)`, which for a sum above the largest int32
adds (line 243). `GoldNotMade` excepts the money of mails that went unpaid for
one of these reasons (`Unpaid`) and nothing else about mail.

Restrictions: one item per mail and per stack; delivery and expiry times have
passed whenever an action needs it; the sale that clones a stack
(`AuctionHouseHandler.cpp:288-358`), the notice of a pending sale and spells cast
on a traded item are left out.

### SessionReceive, Consoles, WorldLoop — the tick around one client, and its end

`SessionReceive` follows the packets of one client: `ReceivePacket` and
`QueuePacket` are the two halves of `ProcessIncoming` (before and under
`m_SessionLock`), `CloseSocket` and the two critical sections of `handle_close`
end a socket, and each step of `WorldSession::Update` handles, ignores or puts
back one packet. `updater` says which thread is in `Update`. Ten opcodes stand
for the combinations of status and processing in `opcodeTable`; `GUILD_QUERY`
for those that need no character and that a client sends in the game all the
same (`Opcodes.cpp:113`, 551, 552, 732, 1008, 1062), `WARDEN_DATA` is the one of
them that is thread-safe (`Opcodes.cpp:772`). A session that was handed over is
in `addSessQueue` (`queued`) until the next `UpdateSessions`. Times are left
out: a logout timer may have run out, a connection have been idle too long, at
any call. The client is well-behaved: it sends what its screen allows. `call`,
`handled`, `handledGame` and `passed` are history.

`SessionPointer` is about the value of `m_Session`, which both threads write
under `m_SessionLock`. `ProcessIncoming` also reads it without the lock to log
the packet (`WorldSocket.cpp:676-677`, only with trace logging); that read, the
race that the note at `World.cpp:230` speaks of, is not a step of the model.

`Consoles` has the command queue and the threads that fill it: the command line,
one remote access socket, the SOAP thread. `ProcessCliCommands` is split where
the other threads can interfere: printing, the end mark, the reset of
`_commandExecuting`. Output is counted in lines, `HighWater` of them fill the
socket's queue. The socket's thread takes a line from the queue (`RaGetq`) and is
then in a blocking `send` without a timeout (`RASocket.cpp:69-78`) until the peer
has read it (`RaSent`, a step of the peer that need not happen). `ShutdownServ`, `ShutdownCancel`
and the timer, which counts down by the seconds that passed between two ticks, change `stopVars`.

`WorldLoop` composes them: the world thread goes through time, sessions, maps
and commands, then, once stopped, `KickAll`, a last `UpdateSessions` and the
network's end; the main thread joins world, remote access and SOAP threads and
closes the databases. That the world thread and a map thread are never in
`Update` at once is what `BarrierHolds` (below) gives. Each behaviour has a
scenario, which bounds what client and operators do.

Some properties name what the code does not do, as exceptions. All of them
happen in the model, and the property says that nothing else does:

* `ShutdownCompletes`, `WorldTickEnds`: `RaStuck`, the world thread waits for
  room in the queue of a remote access socket whose peer does not read or whose
  thread has left; `SoapStuck`, a SOAP command came after the last
  `ProcessCliCommands`. `WorldSession::Update` has no limit of packets in a call
  (line 275): that a tick ends also needs the client to pause, which
  `MaxPackets` makes it do; what the property is about is that the loop does
  not read again the packets it put back itself.
* `PacketsServed`: `LoginGivenUp`, packets wait for ever behind a login that
  `HandlePlayerLoginOpcode` gave up without an answer. A packet that is deleted
  with its session counts as read. The exception is meant for good (`<>[]`), so
  that a `PLAYER_LOGIN` still on its way does not make it true.
* `InOrder`: a packet that arrives while others are put back gets in front of
  those still to come (`passed`); an AUTHED packet does not wait for the login
  that those before it wait for.
* `EveryoneLoggedOut`: a session in `addSessQueue` is not seen by `KickAll`; the
  last `UpdateSessions` adds it, and it outlives the world thread. It has no
  player. Whether the logouts reach the database is the matter of `DbPool`
  (finding 3).
* `NoFreedSocket`: `_commandExecuting` is reset late (`overlapped`).

## Runs

| run | shows |
|---|---|
| `login_fixed_limit` | limit 1, three accounts (one privileged), four logins: pointers, flags, positions, order, no overtaking, no idle slot, limit |
| `login_limit_changes` | the limit switched on and off while sessions wait; every closed session eventually leaves |
| `login_tolerance` (violation) | the disconnect tolerance never expires |
| `db_transactions` | four transactions of 0 to 2 statements, commands of every kind refused, deadlocked or lost, and every outcome of a reconnection: all or nothing, done means done unless the COMMIT was refused, order kept, nothing applied twice unless a reply was lost |
| `db_deadlock_rerun` (violation) | a deadlocked transaction is never rerun |
| `db_pool` | two workers, two synchronous connections, three core threads one of which is not joined, up to three operations: exclusive handles, no use after close by joined threads, every operation executed; `Close` returns |
| `db_pool_shutdown` (violation) | queued saves are discarded by `Close` |
| `map_update` | two threads or none, two battleground maps, up to three instances, a queue of two requests: barrier, each map once, one thread per map, ids safe, ticks and unloading end |
| `instance_ids_boundary` (violation) | an id at a word boundary is handed out twice |
| `item_custody` | three players over an auction, two over mail, two over a trade, a game master who mails sums at the limits; two queued transactions, one crash: an item in one place, memory saved, no gold made, acceptances bind, trades whole |
| `item_custody_startup` (violation) | auctions that end while the server is down lose their item |
| `world_loop` | one client and three consoles in six scenarios: session pointer, own character, right thread, order, packets served, ticks end, everybody logged out, shutdown requests honoured, the process ends |

Deadlock is checked in every run except those of `item_custody`, where a
behaviour ends when its bounds are used up or a step has gone astray, and `world_loop`, where the server
really stops.

### Bounds

`MaxLogins`, `MaxClock`, `MaxFaults`, `MaxOps`, `LastId`, `MaxMails`,
`MaxQueue`, `MaxCrashes`, `MaxPackets` and `MaxElapsed` cap counters that grow
for ever; the other constants are sizes. Three accounts are needed for a queue of two behind one
slot, a fourth login for a reconnection while both wait; four faults allow a deadlock, its failed
rerun and a lost connection with a failed reconnection in one behaviour. Two map threads and three
ids make two threads free ids of the same word at once with a third id alive, and let a leaked bit
be met later; `QueueLimit = 2` makes refusals happen. `Chunk` and `Word` are 32 and 64 in the code;
the boundary run scales them to 2 and 4, which keeps their ratio.

In `item_custody` three players make an owner, a bidder and one who outbids;
four transactions let an auction be opened, bid on twice and end, or a mail be
sent, opened, taken from and returned; one inventory slot makes bags full, and
gold of 2 below a maximum of 4 makes it overflow; a queue of two has writes
behind which a read can get ahead. With `MaxMoney = 4` and `Uint32 = 12` (int32
from -6 to 5) the sums 5, 9 and 11 are the int32 above the maximum, a payment
that turns into a gain, and a sum that wraps to zero with the postage. One crash is enough for what is in the
database: a second one starts from a state the first could leave.

In `world_loop` three packets after a login are a logout and a second login;
four in a row are put back behind each other and overtaken; timers and elapsed
times of up to 2 count down, run out exactly and are overshot; `HighWater = 1` and two
lines fill the queue of the remote access socket; two commands are a shutdown
and the one that replaces or cancels it.

### Fairness

`LoginQueue`: weak fairness of the world thread, which loops until shutdown.
`DbPool`: weak fairness of each worker (its loop ends only when the queue is
deactivated), of the main thread inside `Close`, and of a core thread that
holds a connection (it finishes its call); none for starting calls. `MapUpdate`:
weak fairness of the world thread's tick and of each map thread; none for
creating battlegrounds or unloading. `WorldLoop`: weak fairness of each thread
that can go on (world, main, network between two events, the database worker of
the login query, consoles) and of `soap_accept`'s timeout; nothing is asked of
the client, of the operators or of their connections: a remote access peer need
not read (`RaSent` is in no fairness condition), and its socket's thread then
stays in `send`.

## Proofs

Every safety invariant and action property of the runs is a theorem, for any
value of the constants, except what is listed at the end of this section.

`LoginQueueProofs` (any accounts, sessions, limits):

* `LoginQueueSafe`: `Spec => [](TypeOK /\ NoDanglingSession)`. The inductive
  invariant adds `WalkOK`, what the walk of `UpdateSessions` relies on between
  two of its steps; without it a session could be deleted behind the walk.
* `PositionsTold`, `FlagsMatchQueue`, `OrderOfArrival`: `PositionsAccurate`,
  `QueueFlag` and `FirstComeFirstServed` for any limits, changing ones too. All
  rest on one description (`Removed`) of what `RemoveQueuedPlayer`, called once
  or twice, leaves of queue, flags and positions. `QueueFlag` is not inductive:
  `AddSession_` sets the flag only when it queues a session, so `FlagsOK` adds
  that sessions not yet taken from `addSessQueue` have it clear.
* `NoIdleSlot`, `NobodyOvertakes`, `LimitHolds`: `WorkConserving`,
  `NoOvertaking` and `LimitRespected`, with a limit that is not changed. A limit
  lowered or raised from the console neither removes nor admits anyone at once,
  so none of the three is meant for that case. `LimitHolds` counts: the session
  that leaves and the one accepted from the queue are exchanged (`Exchange`), and
  the second call of `RemoveQueuedPlayer` admits nobody
  (`SecondCallAdmitsNobody`).

`DbPoolProofs` (any workers, connections, core threads, queue size):

* `PoolTypes` (`TypeOK`), `HandlesExclusive` (`OneThreadPerConnection`) and `DeletedUnused`
  (`NoUseAfterClose`), for any set of threads that are not joined. The invariant adds that a thread
  inside a connection holds its mutex (`UserLocks`), that `KeepAlive` has one caller whose loops
  stay in their arrays (`PingerOK`), and how far `Close` has come: connections below its index
  belong to workers that were joined (`CloseOK`).

`DbTransactionProofs` (any transactions, faults, reconnections):

* `StatementsInOrder`, `ResendSafe`, `DoneIsDone`: `OrderRespected`,
  `AppliedTwiceOnlyIfReplyLost` and `ReportedDoneIsDone`. `ControlOK` ties what
  the server holds to the command being sent: at statement `pos` the open
  transaction has exactly the statements before `pos`, or there is none and the
  transaction is torn, by a new session or a refused START TRANSACTION; what a
  refused COMMIT or ROLLBACK leaves open is nothing; `LogOK` says nothing of a later task is in the log.
* `ConnectionTypes`: `TypeOK`, of the connection, the session and the log.
* `NeverReruns`: `attempt` stays 0, so the rerun after a deadlock is dead code
  (finding 2).
* `ImplementsAtomicStore`: `Spec => AllOrNothing`, the refinement. A commit is
  `Apply`, a statement in autocommit mode `ApplyPiece`, the first reconnection
  inside a transaction or a refused START TRANSACTION `Tear`, everything else a stutter.

`MapUpdateProofs` (any threads, maps, instances, queue size):

* `BarrierHolds`: `Spec => [](TypeOK /\ PendingExact /\ WorldAlone)`. The
  inductive invariant `Inv` adds that nothing is pending unless the world thread
  is scheduling or waiting and the threads run, and that the world thread is
  busy with a map only when there are no threads. `PendingExact` is needed
  because `wait` looks only at the counter: a request scheduled from inside an
  update is counted before the update that scheduled it is subtracted. Lemmas on
  the allocator (`FirstFreeFound`: the search for a free id ends;
  `GenerateIdsOK`: the vector never shrinks) give its types.
* `MapsUnshared` (`OneThreadPerMap`) and `TickUpdatesOnce` (`EachMapOnce`).
  `Apart` says a map is at one place only: still to be scheduled, in the queue,
  in the hands of a thread, or among the instances a base map's loop has not
  visited. `Counted` makes the tick's counts exact at every moment: 1 for a map
  the tick has passed, 0 for one that still awaits it or was passed over.

* `CoveredIdsNotReused`: `Spec /\ []Covered => []NextIsAvailable`, where
  `Covered` says that every id in use has a bit in the vector. It is what the
  code gets wrong at a boundary (finding 4), and the only thing: `IdsSafe` says
  that the bits of ids in use are set, also in the words that threads are about
  to write back, so freeing ids without a lock may leave bits set but clears none
  of them.

`ConsoleProofs` (any commands, scenarios, high-water mark):

* `SocketOutlivesCommand` (`NoFreedSocket`): unless two commands overlapped,
  `_commandExecuting` covers a command from its start to the reset and the
  message that ends its output is the last in the socket's queue (`RaOK`), so the
  socket's thread cannot leave before `commandFinished` is done with it.
* `StopsAsAsked` (`StopHonoursRequest`): a timer that runs belongs to the request
  in force (`StopOK`).

`WorldLoopProofs` (any scenario, packets, logins):

* `WorldTypes`, `PointerGoesFirst` (`SessionPointer`), `NoPlayerLeft`
  (`EveryoneLoggedOut`), `ThreadsKeptApart` (`HandlersInTheirThread`): from
  `SocketOK` (a socket gives up its pointer before the session is deleted) and
  `WorldOK` (who is inside `Update`, and how far the shutdown has come).
* `CharactersNotMixed` (`OwnCharacter`) and `HandledAsSent` (`InOrder`) need
  `FlowOK`, which relates the client's screen, the packets in flight and the
  session's player: packets about the character that was left come before those
  from the character list and these before those about the next one
  (`FlightOrder`); `m_playerRecentlyLogout` stands as long as old packets are
  left (`OldMeansRecent`); `LoginOK` lists the states of a login. The order of
  the queue is increasing, or rotated at `firstDelayed` while `Update` puts
  packets back (`OrderOK`). It is claimed while the socket is not closing:
  afterwards the session does not handle another packet.

`ItemCustodyProofs` (the invariant `Inv` and what keeps it) and `ItemGoldProofs`
(gold and the theorems), for any players, items, trade slots, bags, amounts,
mails, queue length, scenarios, crashes:

* `AcceptedAsOffered` (`AcceptanceBinds`): `Paired` says the two `TradeData` of a
  trade exist together and name each other, so every step that changes an offer
  clears both acceptances.
* `CustodyInvariant`: `Spec => [](~astray => Inv)`, and from it `CustodyTypes`
  (`TypeOK`), `ItemsInOnePlace` (`OnePlace`), `QueueSavesMemory`
  (`MemoryIsSaved`) and `TradesAreWhole` (`TradeIsWhole`), with no hypothesis on
  when the timers read. A step that goes astray changes no table (`StrayKeeps`),
  so what is said of the database holds after it too. `OnePlace` speaks of the
  database only and `MemoryIsSaved` of the end of the queue only, so neither is
  inductive. `Inv` adds:
  `Stages`, that the tables are well-formed not just now but after every prefix
  of the queue, with one row for an item (`OneRow`), none lost (`Found`), mail ids
  not used twice (`Numbered`) and gold below the maximum (`Rich`) — so `DbExecute`
  keeps it and a crash, which cuts the queue anywhere, does too;
  `Frozen`, that nothing queued touches the mails of a player who has still to
  load them, but for those the timer has dealt with (`expired`), nor the goods of
  one whose login query waits in the queue — so what is read ahead of the queue
  is what the queue leaves, unless the read is `Overtaken`;
  `Logins`, that a login query waits once, for a player who is not online;
  `Trades`, that an item is in one slot of a window; and `Memory`.
* `GoldIsNotMade` (`GoldNotMade`). A step of the
  database is the execution of a transaction that was built from memory some time
  ago, so the property needs `Balanced`: every queued transaction is fair
  (`Fair`) to the tables that the ones before it will leave. A handler looks only
  at the memory; by `MemoryIsSaved` the tables at the end of the queue have the
  same auctions and opened mails and no less gold, so what it takes from purse,
  mail or auction covers what it puts elsewhere; a mail that is not paid is new
  when its transaction is executed and counts as such (`UnpaidBalanced`).
  `CommitBalanced` says so once for every handler. Startup is different: it
  settles auctions from the database while
  its own transactions are queued, and `Restart` says that those change no auction
  it has still to visit. Gold is a sum over players, mails and auctions: `SumType`,
  `SumLess` and `SumChange` come from `SubsetInduction`, and `MailedWorth` adds up
  what the mails of a handler carry.
* The lemmas follow the transactions. `RunAllDef` and `RunAllConcat` unfold the
  execution of a transaction, `Run...` say what a statement does, `Yields` joins
  them, and `PostInv`, `DealInv` and `MailDealInv` say once what a transaction has
  to do to keep `Inv`, whichever handler built it; each handler has a lemma that
  its transaction does so. `MoveItemsIs` is the exchange of the goods: with bags
  of any size `moveItems`, slot by slot, gives each side exactly what the other
  offered, because `CanStoreItems` was asked about the bags without what is given
  away. `SetInduction`, induction over the naturals with a set in place of a
  predicate, stands behind the statements about sequences and loops.

They rest on the named assumptions `ConstantsAssumption`, `PoolAssumption`,
`DbAssumption`, `InstanceIdsAssumption`, `MapUpdateAssumption`,
`ConsoleAssumption`, `LoopAssumption`, `ScenarioAssumption`, `CustodyAssumption` and
`NullAssumption` only: finite sets of accounts, players, items and threads,
null pointers that are no object, the world thread not a map thread, sizes of
arrays, queues, chunks and words that are naturals (positive where the code
divides by them or loops over them), stored ids within range, scenarios and
faults of the kinds the modules name. TLC evaluates all of them.

Model-checked only: the liveness properties `ClosedSessionsLeave`, `OpsExecuted`, `CloseReturns`,
`TickEnds`, `ShutdownCompletes`, `WorldTickEnds`, `PacketsServed` (fairness is
outside the prover).

`NextIsAvailable` is a theorem under `Covered` only, because it fails at the word
boundary (finding 4); `map_update` stays below it.

## Findings

1. `World.cpp:304` swaps the operands of `difftime`: with a disconnect
   tolerance configured, an account that was once in the world passes the
   player limit for ever. `worldserver.conf.dist:181` documents a maximum.
2. `Transaction.cpp:80` tests for a deadlock after `ROLLBACK` has cleared the
   error code, so the rerun it implements never happens.
3. `DatabaseWorkerPool.h:112`: closing the queue flushes it, so operations
   enqueued by `KickAll` ("save and kick all players") may be lost.
4. `MapManager.cpp:432`: a new id that is a multiple of 32 and equal to the
   vector's size and capacity is stored out of bounds and later handed out
   again.
5. `World.cpp:1600`: `DeleteExpiredAuctionsAtStartup` runs before the items of
   auctions are loaded, so an auction that ended while the server was down is
   deleted and its item sent to nobody.

Other behaviour that surprised us is in the models, and the properties are
stated around it: after a reconnection in the middle of a transaction its
statements run in autocommit mode (`MySQLConnection.cpp:220`); the result of
COMMIT is ignored (`MySQLConnection.cpp:359`); one refused
reconnection leaves a null handle for good (`MySQLConnection.cpp:504`); packets
put back can be overtaken (`WorldSession.cpp:309`); a session handed over after
the last tick survives the world thread (`World.cpp:2635`); `commandFinished` resets
`_commandExecuting` after the peer may have sent the next command
(`RASocket.cpp:423`) and waits for room without a timeout although its comment
says it "shouldn't block" (`RASocket.cpp:417`); a SOAP command after the last
`ProcessCliCommands` is never answered (`TCSoap.cpp:122`); threads of remote
access sockets are not joined (`Master.cpp:301`), so that they may meet the
deleted pool; the mail timer, mailboxes and the start read ahead of queued
statements; a mailed item is taken through any mail (`MailHandler.cpp:446`); the
sum of money and postage wraps (`MailHandler.cpp:106`).

## Not modelled

Result sets, packet contents, log and configuration text are data that no
property is about. `_Query` and prepared statements follow the control of
`Execute`. What a map does inside `Map::Update` is one step. Instances of
dungeons, whose ids belong to `InstanceSaveMgr`, are not in `MapUpdate` yet.
`WorldLoop` has one client, one remote access socket and one SOAP thread;
authentication, encryption and the output buffer of `WorldSocket`, the freeze
detector and the start of the server are left out. A teleport inside
`LogoutPlayer` and `ShutdownServ` are one step each. Several database workers
(which may reorder transactions about the same item) are in `DbPool`, not in
`ItemCustody`.
Spells, entities, AI, loot, quests and the scripts are content rules over large
static tables; collision is floating-point geometry; SRP6 and the ciphers are
arithmetic out of TLC's reach; `dep/`, `sql/` and `contrib/` are third-party
code or data.

## Plan

1. Done: `LoginQueue`, `AtomicStore` and `DbTransaction`, `DbPool`,
   `InstanceIds` and `MapUpdate`, `ItemCustody`, `SessionReceive`, `Consoles`
   and `WorldLoop`, with the theorems above.
2. `InstanceSaves`: saves, binds and the reset queue on top of `InstanceIds`.
3. `BattlegroundQueue`, `LfgProposal`: invitations and proposals whose timeouts
   race late answers.
4. `EventProcessor` and `MotionMaster`: lists changed while they are walked.
5. Proofs: the inductive invariants of the modules of items 2 to 4.
