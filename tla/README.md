# TLA+ models of PikiwiDB (Pika)

PikiwiDB is a Redis-compatible server on RocksDB. These modules model how a write gets
from a client of a master into the database of a slave: execution under locks, alone or in
a transaction, the binlog, its incremental replication, its execution on the slave, and
full synchronisation where the binlog does not reach back far enough. Beside it they model
the commands that wait for each other, BLPOP and its relatives, and the cache in front of
the database. Paths below are relative to
the repository; line numbers of every definition are in `PROJECT.json`.

## 1. Inventory

| Component | State | Operations | What is hard | What makes it correct |
|---|---|---|---|---|
| Command execution (`src/pika_command.cc`, `pika_client_conn.cc`, `pika_kv.cc`, `pika_admin.cc`) | database, record locks (`pstd/src/lock_mgr.cc`), database lock, `binlog_io_error_` | `InternalProcessCommand`: lock, execute, log, unlock | concurrent clients, multi-key locks, failures between database and binlog | the binlog orders the changes of a key as the database saw them; commands finish |
| Send window (`src/pika_slave_node.cc`) | `win_`, `total_size_` | `Push`, `Update`, `Remaining`, `Reset` | overlapping and reordered acknowledgements, unsigned size | exactly the unacknowledged records |
| Master replication (`src/pika_rm.cc`, `pika_repl_server*.cc`, `pika_consensus.cc`, `pika_auxiliary_thread.cc`) | `SlaveNode` per slave, sessions, write queues, connection map | TrySync, BinlogSync, `ReadBinlogFileToWq`, `ConsumeWriteQueue`, keepalive, timeouts | pool threads, state looked up twice, batches sent after the lock | no record lost, repeated, reordered, or taken for acknowledged too early |
| Slave replication (`src/pika_repl_client*.cc`, `pika_repl_bgworker.cc`, `pika_rm.cc`) | `ReplState`, master session, own binlog | MetaSync, TrySync, append, acknowledge, retry | late replies, reconnection, timeouts | its binlog is a prefix of the master's and catches up |
| Replica execution (`src/pika_consensus.cc`, `pika_repl_client.cc`, `net/src/bg_thread.cc`) | worker queues, `async_write_db_task_counts_`, database | `ProcessLeaderLog`, `ScheduleWriteDBTask`, `WriteDBInSyncWay`, `Stop` | asynchronous workers, FLUSHDB barrier, full queues, shutdown | execution in binlog order per key |
| Binlog files (`src/pika_binlog.cc`, `pika_binlog_reader.cc`, `pika_stable_log.cc`) | files, producer and consumer offsets | append, seek, roll, purge | purge against slaves that are about to read, unsigned file numbers | no needed file is purged |
| Full synchronisation (`src/rsync_*.cc`, `pika_db.cc`, `pika_rm.cc`, `pika_server.cc`) | dump and its uuid, files of the copy, `kTryDBSync`/`kWaitDBSync` | BgSave, DBSync, copy, replace | retries, a dump replaced while it is copied, a crash in the middle of replacing | the new database matches the offset that goes with it, and the slave gets there |
| Transactions (`src/pika_transaction.cc`, `pika_client_conn.cc`) | watched keys, `txn_state_`, queued commands, locks | WATCH, UNWATCH, MULTI, EXEC, DISCARD | invalidation against execution, lock order, SELECT and FLUSHDB in a transaction | EXEC only when no watched key changed, isolated, and logged as executed |
| Blocking lists (`src/pika_list.cc`, `net/src/dispatch_thread.cc`, `net/src/worker_thread.cc`) | `key_to_blocked_conns_`, `blocked_conn_to_keys_` | BLPOP, BRPOP, push, serve, expire, close | timeout and closing against wake-up, descriptors used again | nobody waits beside an element, is answered twice or waits on when closed |
| Cache (`src/pika_cache.cc`, `pika_cache_load_thread.cc`, `pika_command.cc`, `pika_server.cc`) | Redis cache, `cache_status_`, `tmp_cache_disable_flag_`, load queue | read, fill, update, load, clear | reads without lock, asynchronous loading and clearing, FLUSHDB | what is cached is what the storage holds; no stale read; the cache is enabled again |
| Slot migration, pub/sub, ACL, statistics, network library, storage engine, codis | | | | see `PROJECT.json` |

How they interact: client threads change the database and append to the binlog
(`ProposeLog`), which signals the auxiliary thread. That thread reads the binlog file into
write queues and sends them; server pool threads handle the requests of slaves and fill the
same queues. On the slave one binlog worker per database appends the records and hands
them to the write-DB workers. Shared state is guarded by `slave_mu` of a node,
`write_queue_mu_`, the lock of the slave list and `db_mu_` of a slave database, each
taken for a part of a handler only; that is where most hazards in `PROJECT.json` are. When
the binlog no longer holds what the slave asks for, the server pool starts a save, the
slave's auxiliary thread drives the rsync client, and the slave's database and binlog
offset are replaced. Client commands meet in the locks, in `key_conns_map_` (who watches a
key) and in the two maps of blocked connections, which the network workers also change when
they close connections.

## 2. Modules

```
SyncWindow      <- BinlogSync -> ReplicatedLog (refined)     MCBinlogSync
CommandLog      <- WritePath, ReplicaApply <- WriteReplication  MCWriteReplication
Transactions                                                    MCTransactions
BlockingLists                                                   MCBlockingLists
FullSync                                                        MCFullSync
Cache                                                           MCCache
BinlogSync_proofs <- BinlogSyncSafety_proofs <- BinlogSyncLog_proofs
WriteReplication_proofs, Cache_proofs, Transactions_proofs, BlockingLists_proofs, FullSync_proofs
```

**SyncWindow** is class `SyncWindow` as operators on a record `[items, total]`. An item is
the offset after a record and its acknowledged flag. `total` counts modulo `SizeRange`, so
a double subtraction would wrap as `size_t` does.

**BinlogSync** is incremental replication of one database from a master to one slave. A
binlog offset is a number of records; `slog` lists the records the slave holds, so a
lost, repeated or reordered record is visible. Its actors are

- the server pool (`srv`): a request is taken (`DealMessage`) and handled in the pieces
  between which the code holds no lock. TrySync: offset check and `CheckSlaveNodeExist`,
  then either branch of `TrySyncUpdateSlaveNode`. BinlogSync: `CheckSessionId`, then
  `ActivateSlaveBinlogSync` or `UpdateSyncBinlogStatus`, then `SyncBinlogToWq`, each
  looking the node up again;
- the auxiliary thread: `WakeUpSlaveBinlogSync`, the three parts of `ConsumeWriteQueue`
  (take batches under the lock, send them, erase the queue if one failed), keepalives and
  `CheckSyncTimeout`;
- the slave's binlog worker, record by record, and its retry state machine;
- the connection, which fails with any part of what it carries, and the handlers both
  sides run when they notice.

`overlap` is a history variable: it records that a TrySync was given the session in use
("reuse"), that a request was applied to a node of another session than the one checked
("toctou"), that a TrySync gave a new session to a node which another thread had just added
("race"), or that a failed read left records in the window unsent ("lostread"). After
one of these the code does not promise a prefix, and the properties say so; the run
`sync_reuse` shows what then happens.

**ReplicatedLog** is the promise: a copy that grows by the next record, one at a time, and
in the end holds every record. `BinlogSync` implements it with the length of the
master's binlog as `log` and `slog` as `copy`.

**CommandLog** is the binlog as commands on keys: a record sets one key or is a FLUSHDB.
`IsValue(log, k, v)` says what executing a log leaves at a key.

**WritePath** is `Cmd::InternalProcessCommand` for SET, MSET, DEL and FLUSHDB: lock the
keys one by one in sorted order, take the shared lock, execute, append one record per key,
release. FLUSHDB is a suspend command: no shared lock, but inside `Do` the lock of the replica
manager (`RmLock`) and then, holding it, the exclusive lock of the database. Other commands need
the lock of the replica manager to look up the database they log to: all of them when they
arrive (`DoCmd`), and MSET once more for each record, under its shared lock
(`LooksUpDB`); `FlushDeadlock` is the circle this makes. `DoFails` and the second disjunct of `DoBinlog` are the failures of storage and
binlog. `diverged` is a history variable naming the ways in which the code lets binlog
and database part: a record was not written, a failed change was logged, or a record
overtook that of a FLUSHDB.

**ReplicaApply** is the slave: `ProcessLeaderLog` appends and counts a record,
`ScheduleWriteDBTask` waits for room in the queue of the key's worker, the worker takes,
executes and finishes it in three steps, FLUSHDB waits for the count to be zero, is appended
and then executed, and `PikaReplClient::Stop` stops the binlog workers, drains the queues and
joins the workers. `Restart` ends the process, in any state, and starts it again: binlog and
database survive, what was handed out does not, and nothing executes the end of the binlog
(the function that would, `ConsensusCoordinator::Init`, is never called). `lost` is a history
variable, the keys whose last record went that way; the properties say that no other key is
affected, and that the next record on such a key makes it right again.

**WriteReplication** composes the two over the binlog. That the slave receives a prefix of
the master's binlog is assumed here and checked in BinlogSync.

**Transactions** is a set of connections that send WATCH, MULTI, queued commands, EXEC,
DISCARD and plain commands on several databases. A plain command looks for the watchers of
its keys, marks them one by one, takes its locks, changes the database, logs and releases
(`DoCmd`, `SetTxnWatchFailState`, `TakeLock`, `Do`, `DoBinlog`). `Exec` checks the mark,
collects the locks as `SetCmdsVec` does (by the database current when the commands are
collected, so a queued SELECT shifts them, while each command works on the database it was
parsed for), takes them in the order of `ExecCmd::Lock`, and executes and logs the commands.
A lock is a record, the shared or exclusive lock of a database, or that of the replica
manager. `changed`, `seen`, `late` and `diverged` are history: which watched keys changed
and through what, which watched keys a command under way found (forgotten when the watcher
stops watching), which mark came after its watcher had stopped watching, and how binlog
and database came to differ ("execflush": FLUSHDB inside EXEC writes no record;
"overtaken": as in WritePath; "mislocked": EXEC worked on a database it had not locked).

**BlockingLists** has the two maps of the dispatch thread as `waiting` (nodes per key) and
`keysOf` (keys per descriptor). A command takes the locks of its keys in sorted order
(`RecordLocks`). BLPOP either pops or enters itself (`PopDo`), a push looks
for a waiting list and schedules a task (`TryToServe`; after the release of the locks when
it is in an EXEC), the task of a key takes the record lock and `block_mtx_` and serves node
by node (`ServeOne`), the timer answers expired commands, and connections are closed by the
event loop at once or by `DoCronTask` in the three stages its comment lists. A connection's
descriptor may be given to another one later. `owed` is history, the blocked commands not
yet answered, and what the maps are compared with; `pipelined` and `late` record
connections that blocked twice or after they had been taken through the closing check.
`dangling` says that a loop is about to use an erased node; nothing follows it.

**FullSync** is the slave's state machine `kTryConnect`, `kTryDBSync`, `kWaitDBSync`,
`kConnected` against the master's DBSync handler, the save (`DoBgSave` in six steps:
directory, offset, backup, info file opened, uuid set, info file written), the rsync server
and client, and the purging of binlog files. The rsync client is a thread with `Parallel`
workers; a worker asks for the uuid with a file and takes the file when the uuid is that of
its round; an error or a Stop lets all of them end, and `ThreadEnd` deletes what was
copied. `TryUpdateMasterOffset` is split where a crash makes a difference: info file removed
and old database renamed away, new one renamed into place, offset stored, state set. Faults
are bounded and named in `Faults`. `broken` is history: a save over the dump being copied
("stale"), a Stop taken for the end of the copy ("stopped"), a crash between `ChangeDb` and
`SetProducerStatus` ("crash"), a needed file purged, or gone when
`TryDBSync` sends a slave to a save that already runs ("purge").

**Cache** has the storage and the cache of one database as functions from keys to
sequences (one element for a string, those of the list for a list, none for an absent key).
A client's command goes through the steps of `Cmd::InternalProcessCommand` and `DoCommand`:
lock, look at the flag, look at the status, read the cache, lock a key that was missed,
execute, change or fill the cache, release; a GET is first looked up by the network thread
(`DoReadCommandInCache`). Beside the clients run the load thread (`LoadKey`,
`WriteListToCache`) and the clear task of the background thread in its four steps, and keys
are evicted and the database replaced (`ChangeDb`). `fresh` is history, what a read may
return: the contents of its key while the command is under way. `stale` is history as well,
for each cached key the ways in which the code lets it differ from the storage: "setvx" (SET
VX sets the cache although it did not match), "lpop" (the count is ignored), "nomem" (an
update that finds no memory is dropped), "bypass" (a write or FLUSHDB that decided not to
use the cache, while another command filled it), "unlink" (UNLINK is registered without the
cache flags of DEL), "skipped" (FLUSHDB schedules no clear
while one runs), "unset" (the flag of a second FLUSHDB is reset by the task of the first),
"late" (the load thread writes what it read before a FLUSHDB or `ChangeDb`), "flushed" (a
write that executes between the unlocking of a FLUSHDB and its setting of the flag works on a
cached list that the FLUSHDB has removed), "execflush"
(FLUSHDB in EXEC does not clear the cache), "changedb" (nor does `ChangeDb`).

## 3. Runs

| Run | Checks | Instance |
|---|---|---|
| `sync_safety` | types; the window is exact; its size is exact; acknowledged means held; the slave's log is a prefix | 2 pool threads, 3 records, window of 2, 2 sessions, one failure of any kind; 1.4 million states |
| `sync_liveness` | `ImplementsReplicatedLog`; `EveryRecordReplicated` | 1 pool thread, 3 records, window of 4, size limit and batches of 2, 5 sessions, one failure; 238 thousand states |
| `sync_reuse` | `LogPrefixAlways` is violated | a slave timeout while the master keeps the node |
| `write_order` | types; the binlog matches the database; records applied in order; Stop loses nothing | 2 clients, 2 keys, 3 commands of up to 2 keys, 3 records, 1 failure of storage or binlog, 1 restart of the slave, 2 workers with queues of 1; 2.0 million states |
| `write_liveness` | every command finishes, unless an MSET and a FLUSHDB wait for each other; the slave's database becomes the master's | 2 commands of up to 2 keys, 1 worker, 1 restart of the slave; 476 thousand states |
| `write_flush` | `LogMatchesDatabaseAlways` is violated | a SET between a FLUSHDB and its record |
| `txn_isolation` | types; a plain change of a watched key stops EXEC; nothing carries over into the next transaction; isolation; binlog and database; no deadlock | 2 connections, 2 databases, 1 name, 4 commands each, 2 queued; 2.2 million states |
| `txn_watch` | `WatchedUnchanged` is violated | a watched key is changed by the EXEC of another connection |
| `blocking_safety` | types; no lost wake-up; waiting lists exact; no unchecked lookup fails; no loop on an erased node; binlog and list; no deadlock; first blocked, first served | 3 connections that block, one closed and its descriptor reused, 1 that pushes, 2 keys, 4 commands, 2 elements, 1 failure; 1.2 million states |
| `blocking_liveness` | elements are served, timeouts answered, killed connections closed | 2 connections that block, one of them closed, 1 key, 3 commands; 61 thousand states |
| `full_sync` | types; database and offset match; needed files are kept; the synchronisation completes | 1 record, 2 saves, 2 workers, 2 faults out of failed save, failed backup, both timeouts, lost link, crash, manual purge; 982 thousand states |
| `cache_coherence` | types; cached is what is stored; reads return what the key held; the cache is not left disabled | 2 clients, 1 string, 1 list, 15 kinds of command, 4 commands, 1 replacement of the database or update without memory; 1.7 million states |

**Why the bounds are enough.** Every property of the replication protocol is about two rounds
that meet: two sessions, two threads, one failure to end a round and one record before and
one after it. Three records let the window (2) and a batch be full with one record left.
The same instance with two packets per pass was also explored (5.6 million
states) without a violation. Deadlocks of two commands need two keys, and a FLUSHDB
barrier a record queued, running and finished on two workers; with queues of one the
binlog worker is blocked as soon as a third record for a worker arrives, which `MaxRecords` of
3 allows; it bounds the records of the commands that have started, so that a command of two
keys and another of one, or one of each kind, are in play together. `MaxSession` is
modelled as `GenSessionId` failing; the liveness run has enough sessions that this is not
reached before a failure-free round. In Transactions four commands are WATCH, MULTI, a write
and EXEC, on both sides; two queued commands are a SELECT or FLUSHDB and a write. In
BlockingLists four commands and passes are two connections blocked on two keys, or one that
is closed and its successor on the same descriptor, beside two pushes. In FullSync, the
first save stands for the empty database of a new slave, so `MaxSaves` of 3 is one dump and
another over it; `Remain` 1 and a small `NumRange` let the subtraction wrap in the first file
and not in the second, as 10 and 2^32 do. It was also explored for safety with 2 records and 2
faults (4.5 million states), and with 2 records and 1 fault for liveness, without a
violation. In Cache four commands are one that stores, one that fills, and two that meet,
or two FLUSHDBs beside a read and a write; strings alone and lists alone were also explored
with 5 commands. Every way of `stale` but "flushed" occurs within these bounds; that one
needs a third client, and an instance with 3 clients was explored once (4.8 million states).
In Transactions,
BlockingLists, Cache and the runs of WriteReplication the clients
stop after their commands, so states without a next step are legitimate and deadlock
checking is off; that nobody hangs is `EveryCommandFinishes`, `NoDeadlock` and the liveness
properties of BlockingLists.

**Symmetry** is used for pool threads, clients (also those of Cache) and connections of
Transactions in the safety runs, never with liveness.

**Fairness.** Each thread of the servers is weakly fair for each of its jobs: the pool
threads loop over their queues, `PikaAuxiliaryThread::ThreadMain` does all of its jobs in
every pass, workers empty their queues, and the network threads notice closed
connections. A timeout that nothing in transit would prevent fires, because the code
compares clocks in every pass. Clients issuing commands, failures, restarts and the call of
Stop are not fair. `LockMgr` is not FIFO; with finitely many commands weak fairness of a
waiting client suffices, and starvation by an endless stream of commands is outside
the property. In BlockingLists the threads of the pool, the timer (which scans every 250 ms
and finds every expired command) and the closing steps of the workers are weakly fair. In
FullSync every thread is weakly fair; the slave's timeout is strongly fair, because the state
in which it applies is left and entered again by retries while the thread compares the
clock in every round. A link that one side has closed is found out by the other. Writes,
saves by command, purging, the master's timeout and crashes are not fair.

## 4. What the runs found

- **Session reuse** (`sync_reuse`). When the slave times out while the master still has
  its node, `TrySyncUpdateSlaveNode` answers with the session in use. The binlog is read
  again from the slave's offset; batches of the earlier round that are still on their way
  carry the same session and are appended, and then come once more. The comment
  above `ProcessLeaderLog` promises that an existing log is dropped, but the offset it is
  compared with is only set by functions that nobody calls.
- **FLUSHDB overtaken** (`write_flush`). FLUSHDB releases its exclusive lock before its
  record is written; a command in between is logged before the FLUSHDB.
- **MSET and FLUSHDB wait for each other** (`FlushDeadlock`, which `write_liveness` reaches and
  its two properties name). `FlushdbCmd::Do` takes the lock of the replica manager and then
  waits for the database (`pika_admin.cc:647`); `MsetCmd::DoBinlog` holds the database and
  initialises a SET per key, which takes the lock of the replica manager (`pika_kv.cc:1152`,
  `pika_command.cc:844`, `pika_rm.cc:967`). The change of the MSET is then never logged, and
  no later command gets past its own lookup. `CHANGELOG.MD:480` has "Fix the potential
  deadlocks in `Flushall` and `FlushDB`".
- **Watched keys and EXEC** (`txn_watch`). EXEC reports the keys it changed in another
  spelling than WATCH registers them, so it marks no watcher.

Met on the way, and kept as history in the models (the properties say that there is nothing
else): FLUSHDB in EXEC is not logged; a SELECT in a transaction makes EXEC lock other
databases than it changes; EXEC with FLUSHDB and a write waits for itself, and takes the
locks FLUSHDB takes in the other order; `AllConn` and `DoCronTask` take two locks in opposite
orders; a BLPOP that is still in the pool when its connection is closed blocks after the
closing check, and a later element is popped for nobody; a slave that crashes between append and execution never executes the record; a save
over a dump that is being copied, a Stop at the wrong moment and a crash
before the offset is stored spoil a full synchronisation; a failed backup keeps the uuid
of the dump it removed, and a slave then asks for a file for ever; the newest binlog files
may be purged while there are fewer than ten; reads on the network thread look at the
status of the cache and not at the flag that FLUSHDB sets, so that a GET sent after the answer
to a FLUSHDB may return a flushed value until the clear task has started; and the ways in
which the cached content of a key may differ from the storage, listed with Cache above
(LRANGE after LPOP with a count, on a cached list, returns elements that were popped).

All of this stays in the models as the code has it; the properties of the passing runs
hold outside these cases, which each of them names.

## 5. Theorems

All theorems hold for every value of the constants that the named assumptions of the modules
allow: non-empty thread set, positive limits and a `total_size_` able to hold one window
(BinlogSync); keys and values that are numbers, a worker for each key, positive queue sizes
(WriteReplication); disjoint sets of keys, finitely many lists (Cache); finitely many
connections, and key names that are numbers (Transactions); a sequence of different keys, at
least one of them in a command, and different names for connections, keys and locks
(BlockingLists); a list of different files that ends with the info file, at least one worker,
save and file that purging leaves (FullSync; the code leaves 10). The number of clients,
threads, keys, files and workers is not bounded, and the bounds of the models (`MaxLog`,
`MaxSession`, `MaxFaults`, `MaxCommands`...) are any natural numbers.

**Incremental replication**

- `TypeCorrect` (BinlogSync_proofs): `Spec => []TypeOK`. One lemma per group of actions;
  it starts with the lemmas on what the operators of SyncWindow return.
- `WindowAlwaysExact` (BinlogSyncSafety_proofs): `Spec => []WindowExact`. `NodeSteps`
  reduces all actions to six ways of changing the node (emptied, renamed to another
  session, activated, activation failed, acknowledged, extended by a read); the invariant
  is inductive together with TypeOK, because whatever session a request belongs to,
  each of the six keeps window, offsets and reader in step.
- `AckedAlwaysHeld` (BinlogSyncSafety_proofs): `Spec => []AckedBySlave`. It is not
  inductive. The strengthening `AckedInv` adds that every request on its way acknowledges
  or starts from at most what the slave holds (`HonestRequests`: the slave's log never
  shrinks, and requests carry its length), and that window offsets are ordered
  (`Ordered`: so that what lies before the end of an acknowledged range is held as well,
  also in the window a failed activation leaves behind).
- `SlaveLogIsPrefix` and `ImplementsLog` (BinlogSyncLog_proofs): `Spec => []LogPrefix`, and
  the refinement `Spec => ImplementsReplicatedLog`. Both come from the inductive `PrefixInv`,
  which says, as long as nothing has overlapped:
  - a session passes its stages once (`SessionInv`). It is offered by at most one TrySync
    reply and asked for by at most one first BinlogSync request, in that order, and nothing
    is read for it before (`OfferInv`, `AskInv`); an active session is neither offered nor
    asked for again (`StartInv`); the master loses a connection only together with the node,
    or before the slave has heard of it (`ConnInv`); what travels together is of one session
    (`ShapeInv`), and every session number around was generated (`NumberInv`);
  - what a connected slave has asked for starts behind its binlog (`ConnectedInv`);
  - what is on its way to it is one run of records: the messages at the slave follow its
    binlog (`Arrives`), the batches of the auxiliary thread and the write queue follow the
    messages and end at the reader (`Leaves`). The exception is `Stalled`: a batch of an
    earlier session fails, and `EraseWriteQueue` then drops the first records of the new one.
    The slave waits for them and acknowledges nothing, so nothing is read on and the
    node stays until it times out. That this is the only loss is `LateInv`: while the
    failure is remembered, nothing of the new session has left the queue.

  The next record at the slave is then the one that follows its binlog, which is the
  `Copy` step of ReplicatedLog.
- `WindowSizeAlwaysExact` (BinlogSyncLog_proofs): `Spec => []WindowSizeExact`. `Update` subtracts
  the length of the acknowledged range from `total_size_` without looking whether a record of it
  was acknowledged before, so the theorem is that, without overlap, every record is acknowledged
  once. `CountInv` adds to `PrefixInv`, as long as nothing has overlapped:
  - `RangeInv`, the heart of it: the acknowledgements of the node's session that are not carried
    out, on the connection or with a thread of the server, cover disjoint ranges, none of which
    holds a record that is marked in the window; those of earlier sessions end before the window;
    and the message the slave may still acknowledge begins behind all of them;
  - what keeps earlier sessions apart: the node has the newest session and offers arrive in their
    order (`LastInv`, `OrderInv`), a session that was asked for is the only one the slave knows
    (`BegunInv`), it is asked for from the end of the slave's binlog (`PlaceInv`), nothing was
    read for it before (`ChipInv`), and acknowledgements, due or on their way, are of a session
    that is active or over (`DueInv`, `OutInv`);
  - that only the first message at the slave is ever half done (`HeadInv`);
  - `SizeInv`: the count itself, and that the window never has more than `WindowSize` records, so
    that the unsigned size does not wrap.

**Write path and replica** (WriteReplication_proofs). `Invariant` proves
`WriteInv /\ ReplicaInv` inductive.

- `MasterLogMatches`: `Spec => []LogMatchesDatabase`. The proof needs who holds which lock at
  which step (`LocksHeld`), what a command still has to log (`CommandInv`), and that the
  value a key has got and the record to come are the same (`UnloggedInv`).
- `SlaveAppliesInOrder`: `Spec => []AppliedInOrder`. The unfinished records of a key lie with
  one worker, in the order of the binlog, the last of them being what the binlog
  leaves there (`WorkersInv`, `OrderInv`), and the counter that FLUSHDB waits for is their
  number (`CountInv`), so a FLUSHDB finds no task.
- `StopIsClean`: `Spec => []StopLosesNothing`. Stop only looks at the queues; `StopInv`
  says what is true of the workers at each of its stages.
- `TypeCorrect`: `Spec => []TypeOK`.

**Cache** (Cache_proofs). `Invariant` proves `CacheInv` inductive: who holds a record lock at
which step (`LockInv`), which clear tasks are to come and what they have done (`TasksInv`,
`StatusInv`), and for each key that cached and stored content agree unless one of the named
reasons applies (`DataInv`), together with what a client that is about to fill, update or read
(`FillOK`, `UpdateOK`, `ReadOK`) and the load thread (`LoaderOK`) carry.

- `CacheStaysCoherent`: `Spec => []CacheCoherent`.
- `CachedReadsAreFresh`: `Spec => CachedReadsFresh`, an action property.
- `CacheComesBack`: `Spec => []FlagWillBeReset`.
- `TypeCorrect`: `Spec => []TypeOK`.

**Transactions** (Transactions_proofs). `Invariant` proves `Inv` inductive, which is TypeOK and
three parts. `LockInv`: a command holds, or has still to take, the locks it needs
(`PlainLocked`, `ExecLocked`; an EXEC from its first command to its last those of everything
that was queued, unless it is mislocked), it holds none while it marks (`PlanInv`), no two
connections hold conflicting locks (`Exclusion`), and the locks held come before the locks
planned in the order of `Before` (`Ordered`). `WatchInv`: whoever a command has found is
marked or about to be (`FoundInv`), and a change that counts has marked its watcher
(`HonouredInv`). `LogInv`: binlog and database differ only where a record is to come, and a
change whose record is to come is still there, except that a write may have followed a
FLUSHDB.

- `WatchIsHonoured`, `TransactionsStartFresh`: `Spec => []WatchHonoured`,
  `Spec => []FreshTransaction`, from `WatchInv`.
- `BinlogGivesDatabase`: `Spec => []TxnLogMatchesDatabase`. Two commands that hold the locks
  they need change different keys (`DisjointChanges`).
- `ExecIsIsolated`: `Spec => ExecIsolated`, an action property, from the same lemma.
- `DeadlockFree`: `Spec => []NoDeadlock`. In a set of connections that wait for each other
  nobody waits for a database, because whoever holds it waits for nothing; hence nobody waits
  for the replica manager; and of those who wait for records, the one that waits for the
  greatest name waits for a holder that waits for a greater one.
- `TypeCorrect`: `Spec => []TypeOK`.

The lemmas before them say what the operators of EXEC compute for every queue: the sorted
sequence of a finite set of names exists and is increasing (`SortedExists`, `SortedNames`),
flattening keeps the elements (`FlattenElements`), the locks of an EXEC contain those of all
its commands (`ExecLocksFacts`) and are in order when it writes to one database
(`ExecLocksInOrder`). Induction is by least counterexample (`LeastNatural`).

**Blocking lists** (BlockingLists_proofs). `Invariance` proves `Inv` inductive. Beside TypeOK,
`NoLostWakeup`, `KeysHaveNodes` and `LoopKeepsItsNode` it says that an actor holds the locks its
program has come to and no lock has two owners (`LockInv`), which actor is at which step
(`RunInv`), that a change is logged by a holder of its record lock (`OpsInv`), that the open
connections have different descriptors (`LifeInv`), and two things more. `LogInv`: executing the
records a holder of a key has still to log takes the list the binlog gives to the list in the
database. `MapInv`: of a descriptor that did not block twice or too late nothing is known
(`NoEntry`), or it is entered with the keys of its one blocked command, each with exactly
one node (`Entered`); with `IdInv` (a waiting list is in the order of blocking) this is what the
two maps are to each other.

- `WakeupsAreNotLost`: `Spec => []NoLostWakeup`. It is inductive given the locks: a BLPOP
  enters itself only where it found the lists empty and holds their record locks, so no push
  is between its change and its look at the waiting list.
- `EntriesHaveNodes`: `Spec => []KeysHaveNodes`. For every descriptor, the irregular ones
  included: what erases nodes of a descriptor also erases its entry, or leaves another node.
- `WaitInfoIsExact`, `LoopsKeepTheirNodes`: `Spec => []WaitInfoExact`,
  `Spec => []LoopKeepsItsNode`, from `MapInv`. A loop loses its next node only if the command it
  answers has two nodes in that list; the duplicates of a command were removed, and two commands
  of one descriptor are what `pipelined` and `late` record.
- `BinlogGivesLists`: `Spec => []LogMatchesList`, from `LogInv`.
- `OnlyAdminsDeadlock`: `Spec => []NoDeadlock`. Of a set that waits in a circle, whoever holds
  `block_mtx_` and waits is `AllConn`, and whoever holds the lock of the worker's connections and
  waits is `DoCronTask`. Otherwise all wait for record locks, and the one that waits for the greatest
  key waits for a holder that waits for a greater one.
- `FirstBlockedIsServed`: `Spec => FirstBlockedFirstServed`, an action property, from `IdInv`
  and `MapInv`.
- `TypeCorrect`: `Spec => []TypeOK`.

**Full synchronisation** (FullSync_proofs). `Invariant` proves `Inv` inductive, TypeOK and seven
parts. Neither property is inductive: the one needs to know what is copied while it is copied, the
other what will be offered to a slave before it is.

- `DatabaseIsOneDump`: `Spec => []DatabaseMatchesOffset`. `DumpInv` ties the files of the dump,
  its uuid and its offset to the steps of the save: the uuid lags behind from the offset to the
  info file, and a written info file means that all files are those of the uuid
  (`DumpComplete`). `ThreadInv` says what Stop, the thread and `all_worker_exited_` can be
  together, and that the uuid of a round is never ahead of the master's. `CopyInv` follows the
  copy: a list that was taken from an offered dump is complete, and a dump that the round has
  lost is never offered to it again (`OfferedBack`); every listed file is copied or with a worker
  (`Progress`); so a copy that ends without an error and without a Stop is one dump, or has no
  info file and is not installed (`CopyEnd`). `InfoInv` is what an info file can name.
- `FilesAreKept`: `Spec => []NeededFilesKept`. The binlog files reach from some number to the
  newest and a purge takes the oldest (`FilesInv`); the slave waits while its request or the
  reply is on its way (`ExchangeInv`), so that the dump `TryDBSync` checked is still the one
  offered when the slave asks for the list (`KeptInv`).
- `TypeCorrect`: `Spec => []TypeOK`.

**What the proofs found.** Three properties that passed their runs were false beyond the bounds
of the runs, and the models now name the case or are corrected. In BinlogSync two pool threads
handle two TrySync requests and both find no node; the second then gives its session to the node
of the first, which may be active already, so that records read for the first round are sent
under a session the slave was offered meanwhile ("race"). In Cache a FLUSHDB, a write on a list
and a read, each of another client, make the read return a list that never existed ("flushed").
In Transactions a connection that stops watching and watches again while a command that had
found it is under way looked as if that command had to mark it; `seen` now forgets. The proof of
Transactions also met a command that waited for ever to mark a connection which had closed
meanwhile, because the model left "mark" with the last mark only.

`LockOrder` of WritePath is defined by counting smaller keys rather than by a sorting operator,
`Sorted` of Transactions by what it returns, `Ascending` of BlockingLists (the order of locks and
of the keys left by `removeDuplicates`) by counting again, and the files a worker of FullSync has left and a
purge goes through are sets of which the first is taken, so that they can be reasoned about.

**Only model-checked:** the properties of runs that expect a violation, which do not hold,
and liveness (`EveryRecordReplicated`, `EveryCommandFinishes`, `Converges`, `FullSyncCompletes` and
those of BlockingLists), which is out of the prover's reach (fairness, ENABLED).

## 6. Abstractions

BinlogSync: one slave and one database; records of one size, file numbers, rolling
and purging left out; the MetaSync exchange is one step on a new connection; `GetSlaveNode`
and the lock of the node it returns are one step, so a task that works on a node already
removed is not modelled; `GenSessionId` and `AddSlaveNode` are one step, and so are the
removal of a node and of its queue in `CheckSyncTimeout` and `DeleteSlave`; what is
written to a connection the other side has closed is lost; descriptor numbers are not
reused; one keepalive exchange at a time; a batch is cut by number, not by size. Full
synchronisation is in FullSync; RemoveSlaveNode and SLAVEOF NO ONE are not modelled, and
`kError` is left only by a new connection.

WritePath: SET, MSET and DEL stand for commands on keys; commands that log
something else than themselves (expiry times, SPOP) and reads are left out, and the cache is
in Cache; of the commands that initialise another command in order to log it, all of which look
up the database under their shared lock, only MSET is modelled (MSETNX, BITOP, PFMERGE, SPOP,
SMOVE, the ...STORE commands, RPOPLPUSH and BLPOP have the same shape); `Release` frees all locks
in one step; FLUSHDB takes the exclusive lock of the database, empties it and releases both locks
in one step, and waits for that lock holding the other; who waits for a lock does not hold up
later ones that could have it shared;
`binlog_io_error_` is not relieved again.

ReplicaApply: the slave's record and database locks are left out, since one key is always
executed by one worker and FLUSHDB runs alone; failed appends and failed
database writes of the slave are not modelled; what the slave's binlog and database hold when
it crashes survives (the process ends, not the machine).

Transactions: the two maps of watched keys are one; writes are SET and DEL of one key, which
look nothing up under their locks (MSET does, which is in WritePath);
FLUSHALL, the server's own lock, reads in EXEC and a queued UNWATCH are left out;
`Unlock` and `ExitTxn` are one step, and a plain command releases its locks with its
record; the pushes of an EXEC are in BlockingLists.

BlockingLists: a connection does not send a second BLPOP for a key it already waits for
(one for other keys it may send); lists are never of another type; BLPOP inside EXEC, which
does not block, and the shared lock of the database are left out, and with it that a save or
a FLUSHDB may come between a served pop and its record, since the serving task takes no
database lock; so is the lock of the replica manager, which BLPOP and the serving task take for
a moment when they initialise the pop they log; `BLPopCmd::Do` meets no error of the storage
(`pika_list.cc:388-394`: it answers the error, and `DoBinlog` then runs with arguments that were not
set); the queue of the thread pool has no limit, whereas `ThreadPool::Schedule` waits when it is
full, and the push that schedules a serving task then waits with its record locks; when a
command expires is not determined, and a scan answers one.

FullSync: one slave; one record per binlog file; the uuid of a dump is that of its save, whereas
the code hashes duration, host, port and offset, so that two saves may have the same, which a
slave that copies one of them takes as in the "stale" case; a file is copied in one piece; a dump is
always saved in the directory of the same day; failures to clean up after a save,
`kMaxRsyncInitReTryTimes` and `kError`, removal of old dumps, replies that arrive over a
closed connection, two Stops at once, a restart of the master and the automatic caller of
purging are left out (manual and automatic purging share `PurgeFiles`).

Cache: one database, so that the flag, which all databases share, is set and reset by this
one only; the cache is on for strings and lists (CONFIG SET of its mode, types and number,
and `Reset`, which they lead to, are left out); no expiry times, other data types or limits
on sizes and on the load queue; a pop that `ServeAndUnblockConns` makes for a blocked connection is
not distinguished from a client's LPOP, although that task takes no database lock, looks at
neither flag nor status, and pops from the cached list also when the pop from the storage failed
(`pika_list.cc:222-236`, `259`), which are further ways for the cache to differ; GET stands for the reads of the network thread, LRANGE for
those of lists, and it returns the whole list; FLUSHDB does not fail; an EXEC executes one
command, and no read; SLAVEOF is CLEARCACHE; the cache is emptied in one step; each key of a
replaced database holds one element.

**Not modelled:** publish and subscribe, slot migration, the storage engine,
access control, statistics, codis, a failed append of the slave during incremental
replication; `PROJECT.json` gives the reasons.

## 7. Plan

1. *Done:* SyncWindow, BinlogSync, ReplicatedLog; CommandLog, WritePath, ReplicaApply,
   WriteReplication; Transactions; BlockingLists; FullSync with purging; Cache. Proved: the
   safety of BinlogSync with its refinement of ReplicatedLog, of WriteReplication, of Cache,
   of Transactions, of BlockingLists and of FullSync.
2. *More of the system:* a failed append of the slave in ReplicaApply;
   AddSlaveNode in two steps and RemoveSlaveNode in BinlogSync; slot migration; `Reset` of
   the cache by CONFIG SET beside commands that use it.
