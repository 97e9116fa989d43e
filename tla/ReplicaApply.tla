---------------------------- MODULE ReplicaApply ----------------------------
(***************************************************************************)
(* A slave executing the binlog it receives.  The binlog worker of the     *)
(* database appends a record to the slave's own binlog and hands it, by    *)
(* the hash of its key, to one of the write-DB workers, which execute the  *)
(* records concurrently.  A FLUSHDB waits until no handed-out record is    *)
(* unfinished and is executed by the binlog worker itself.  The slave may  *)
(* be stopped, or crash, and is started again: its binlog and its database *)
(* survive, what was handed out does not.                                  *)
(*                                                                         *)
(* What BinlogSync shows of the slave's binlog is assumed here: it is a    *)
(* prefix of the master's, so its length says what it holds.               *)
(***************************************************************************)
EXTENDS CommandLog

CONSTANTS
  Workers,    \* write-DB workers (conf sync-thread-num)
  WorkerOf,   \* GetHashIndexByKey
  QueueFull,  \* PIKA_SYNC_BUFFER_SIZE
  MaxCrashes  \* bound: crashes and restarts of the slave

ASSUME ReplicaAssumption ==
  /\ WorkerOf \in [Keys -> Workers]
  /\ QueueFull \in Nat \ {0} /\ MaxCrashes \in Nat

VARIABLES
  slen,      \* length of the slave's binlog
  handed,    \* binlog worker: the record it is handing out, or none
  queue,     \* write-DB workers: BGThread::queue_
  running,   \* write-DB workers: the record each one is executing, or none
  taskCount, \* async_write_db_task_counts_
  sdb,       \* the slave's database
  stopping,  \* how far PikaReplClient::Stop has come
  crashes,
  lost       \* history: keys whose last records a crash has taken

faultVars == <<crashes, lost>>
replicaVars == <<slen, handed, queue, running, taskCount, sdb, stopping, faultVars>>

-----------------------------------------------------------------------------

(* At most one record, with whether it has been executed. *)
Executing == {<<>>} \cup [rec: Record, done: BOOLEAN]

ReplicaTypeOK ==
  /\ slen \in 0..Len(mlog)
  /\ handed \in {<<>>} \cup Record
  /\ queue \in [Workers -> Seq(Record)]
  /\ \A w \in Workers : Len(queue[w]) <= QueueFull
  /\ running \in [Workers -> Executing]
  /\ taskCount \in Nat
  /\ sdb \in Database
  /\ stopping \in {"no", "drain", "join", "stopped"}
  /\ crashes \in 0..MaxCrashes /\ lost \subseteq Keys

ReplicaInit ==
  /\ slen = 0 /\ handed = <<>>
  /\ queue = [w \in Workers |-> <<>>]
  /\ running = [w \in Workers |-> <<>>]
  /\ taskCount = 0
  /\ sdb = EmptyDatabase
  /\ stopping = "no"
  /\ crashes = 0 /\ lost = {}

-----------------------------------------------------------------------------

(* The next record of the master has arrived at an idle binlog worker. *)
NextRecord(type) ==
  /\ stopping = "no" /\ handed = <<>>
  /\ slen < Len(mlog) /\ mlog[slen + 1].type = type

(* Mutant of ProcessLeaderLog: the record is appended and not handed out. *)
ProcessLeaderLogUnapplied ==
  /\ NextRecord("set")
  /\ slen' = slen + 1
  /\ UNCHANGED <<mlog, handed, queue, running, taskCount, sdb, stopping, faultVars>>

(* ProcessLeaderLog and ScheduleWriteDBTask up to BGThread::Schedule: the     *)
(* record is in the slave's binlog and counted as unfinished.                 *)
ProcessLeaderLog ==
  /\ NextRecord("set")
  /\ slen' = slen + 1
  /\ handed' = mlog[slen + 1]
  /\ taskCount' = taskCount + 1
  /\ UNCHANGED <<mlog, queue, running, sdb, stopping, faultVars>>

WorkerFor(rec) == WorkerOf[rec.key]

(* Mutant of HasRoom: one task too many. *)
HasRoomForOneMore(w) == Len(queue[w]) <= QueueFull

HasRoom(w) == Len(queue[w]) < QueueFull

(* BGThread::Schedule waits while the queue is full. *)
ScheduleWriteDBTask ==
  /\ handed # <<>> /\ handed.type = "set"
  /\ LET w == WorkerFor(handed) IN
       /\ HasRoom(w)
       /\ queue' = [queue EXCEPT ![w] = Append(@, handed)]
  /\ handed' = <<>>
  /\ UNCHANGED <<mlog, slen, running, taskCount, sdb, stopping, faultVars>>

(* BGThread::ThreadMain takes a task off the queue ... *)
TakeTask(w) ==
  /\ running[w] = <<>> /\ queue[w] # <<>>
  /\ running' = [running EXCEPT ![w] = [rec |-> Head(queue[w]), done |-> FALSE]]
  /\ queue' = [queue EXCEPT ![w] = Tail(@)]
  /\ UNCHANGED <<mlog, slen, handed, taskCount, sdb, stopping, faultVars>>

(* ... WriteDBInSyncWay executes it ... *)
WriteDBInSyncWay(w) ==
  /\ running[w] # <<>> /\ ~running[w].done
  /\ sdb' = [sdb EXCEPT ![running[w].rec.key] = running[w].rec.val]
  /\ running' = [running EXCEPT ![w].done = TRUE]
  /\ lost' = lost \ {running[w].rec.key}
  /\ UNCHANGED <<mlog, slen, handed, queue, taskCount, stopping, crashes>>

(* ... and the destructor of the task counts it as finished. *)
TaskFinished(w) ==
  /\ running[w] # <<>> /\ running[w].done
  /\ running' = [running EXCEPT ![w] = <<>>]
  /\ taskCount' = taskCount - 1
  /\ UNCHANGED <<mlog, slen, handed, queue, sdb, stopping, faultVars>>

(* Mutant of Unfinished: only the queues are looked at. *)
UnfinishedQueued == \E w \in Workers : queue[w] # <<>>

(* GetUnfinishedAsyncWriteDBTaskCount. *)
Unfinished == taskCount > 0

(* ProcessLeaderLog for a FLUSHDB: after the wait it is appended ... *)
ProcessFlushdb ==
  /\ NextRecord("flushdb")
  /\ ~Unfinished
  /\ slen' = slen + 1
  /\ handed' = mlog[slen + 1]
  /\ UNCHANGED <<mlog, queue, running, taskCount, sdb, stopping, faultVars>>

(* ... and executed by the binlog worker. *)
ExecuteFlushdb ==
  /\ handed # <<>> /\ handed.type = "flushdb"
  /\ sdb' = EmptyDatabase
  /\ handed' = <<>>
  /\ lost' = {}
  /\ UNCHANGED <<mlog, slen, queue, running, taskCount, stopping, crashes>>

(* PikaReplClient::Stop: the binlog workers are stopped first, ... *)
StopBinlogWorkers ==
  /\ stopping = "no" /\ handed = <<>>
  /\ stopping' = "drain"
  /\ UNCHANGED <<mlog, slen, handed, queue, running, taskCount, sdb, faultVars>>

(* ... then the queues of the write-DB workers have to be empty, ... *)
QueuesDrained ==
  /\ stopping = "drain"
  /\ \A w \in Workers : queue[w] = <<>>
  /\ stopping' = "join"
  /\ UNCHANGED <<mlog, slen, handed, queue, running, taskCount, sdb, faultVars>>

(* Mutant of Joined: the threads are stopped without waiting for their task. *)
JoinedAtOnce == stopping = "join"

Joined == stopping = "join" /\ \A w \in Workers : running[w] = <<>>

(* ... and the threads are joined. *)
WorkersJoined ==
  /\ Joined
  /\ stopping' = "stopped"
  /\ UNCHANGED <<mlog, slen, handed, queue, running, taskCount, sdb, faultVars>>

(* A record on key k was handed out and is not executed. *)
Pending(k) ==
  \/ handed # <<>> /\ Touches(handed, k)
  \/ \E w \in Workers : \E i \in DOMAIN queue[w] : queue[w][i].key = k
  \/ \E w \in Workers : running[w] # <<>> /\ ~running[w].done /\ running[w].rec.key = k

(* The slave's process ends, by a crash or after a Stop, and is started       *)
(* again.  The constructor of the coordinator executes nothing: replication   *)
(* goes on behind the end of the slave's binlog.                              *)
Restart ==
  /\ crashes < MaxCrashes
  /\ crashes' = crashes + 1
  /\ lost' = lost \cup {k \in Keys : Pending(k)}
  /\ handed' = <<>> /\ taskCount' = 0
  /\ queue' = [w \in Workers |-> <<>>] /\ running' = [w \in Workers |-> <<>>]
  /\ stopping' = "no"
  /\ UNCHANGED <<mlog, slen, sdb>>

WriteDBWorker(w) == TakeTask(w) \/ WriteDBInSyncWay(w) \/ TaskFinished(w)
BinlogWorker == ProcessLeaderLog \/ ScheduleWriteDBTask \/ ProcessFlushdb \/ ExecuteFlushdb
Stop == StopBinlogWorkers \/ QueuesDrained \/ WorkersJoined

(* The workers keep running; Stop is called or not, and goes on once called. *)
ReplicaFairness ==
  /\ \A w \in Workers : WF_<<mlog, replicaVars>>(WriteDBWorker(w))
  /\ WF_<<mlog, replicaVars>>(BinlogWorker)
  /\ WF_<<mlog, replicaVars>>(QueuesDrained \/ WorkersJoined)

-----------------------------------------------------------------------------

slog == SubSeq(mlog, 1, slen)

(* ScheduleWriteDBTask and the wait of ProcessLeaderLog: however the workers  *)
(* interleave, a key with no unfinished record holds what executing the       *)
(* slave's binlog in order leaves there, FLUSHDBs included.  A crash takes no *)
(* more than the records that were unfinished then, and a key is right again  *)
(* with the next record on it.                                                *)
AppliedInOrder == \A k \in Keys : ~Pending(k) /\ k \notin lost => IsValue(slog, k, sdb[k])

(* PikaReplClient::Stop, "we must wait all writeDB task done and then to      *)
(* exit": a stopped slave has executed every record of its binlog, but those  *)
(* that an earlier crash took.                                                *)
StopLosesNothing == stopping = "stopped" => \A k \in Keys \ lost : IsValue(slog, k, sdb[k])

=============================================================================
