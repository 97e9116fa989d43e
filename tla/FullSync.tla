------------------------------ MODULE FullSync ------------------------------
(***************************************************************************)
(* Full synchronisation of a slave: the master saves a dump, the slave     *)
(* copies its files with parallel threads, puts them in the place of its   *)
(* database and goes on incrementally from the binlog offset of the dump,  *)
(* while the master writes, purges binlog files and may save another dump  *)
(* over the first.                                                         *)
(*                                                                         *)
(* Every record begins a binlog file, so an offset is the number of its    *)
(* file.  The content of a copied file is the number of the save it comes  *)
(* from; offsets[n] is the binlog offset of save n, and save 1 stands for  *)
(* the empty database a slave starts with.                                 *)
(***************************************************************************)
EXTENDS Integers, Sequences, FiniteSets, SequencesExt

CONSTANTS
  FileOrder,    \* files of a dump, as std::set orders them; the last is "info"
  Parallel,     \* max_rsync_parallel_num
  Remain,       \* binlog files that purging leaves: 10
  MaxGap,       \* kDBSyncMaxGap
  NumRange,     \* values of uint32_t
  MaxLog,       \* bound: records
  MaxSaves,     \* bound: saves
  Faults,       \* failures and administrative commands that may happen
  MaxFaults     \* bound: number of them

Files == ToSet(FileOrder)
Data == Files \ {"info"}
Workers == 0..(Parallel - 1)

ASSUME FullSyncAssumption ==
  /\ FileOrder \in Seq(Files) /\ \A i, j \in DOMAIN FileOrder : FileOrder[i] = FileOrder[j] => i = j
  /\ Last(FileOrder) = "info" /\ Data # {}
  /\ {Parallel, Remain, NumRange, MaxSaves} \subseteq Nat \ {0}
  /\ {MaxGap, MaxLog, MaxFaults} \subseteq Nat

VARIABLES
  pro, files,           \* master: producer offset, binlog files
  purge,                \* master: StableLog::PurgeFiles
  offsets,              \* history: binlog offset of every save
  saver,                \* master: how far DB::DoBgSave is; "idle": not bgsaving
  dump, dir,            \* master: files in bgsave_info_.path; it exists
  dumpOffset, uuid,     \* master: bgsave_info_.offset, snapshot_uuid_
  node, acked,          \* master: state of the SlaveNode, acked_offset
  srv,                  \* master: the DBSync request being handled
  link, msg,            \* the connection and the message on it
  repl, attached,       \* slave: repl_state_; m_info_ names the master
  metaDone, force,      \* slave: MetaSyncDone, force_full_sync_
  aux, listing, found,  \* slave: where the state machine is; file_set_; info read
  rsync, thread,        \* slave: RsyncClient::state_, its thread
  exited, errorStopped, \* slave: all_worker_exited_, error_stopped_
  round,                \* slave: RsyncClient::snapshot_uuid_
  todo, got,            \* slave: files of each worker; uuid of the answer on its way
  stopper,              \* slave: who is in RsyncClient::Stop
  local,                \* slave: files in dbsync_path_
  base, from, soff,     \* slave: files of the database, where it began, its offset
  faults,
  broken                \* history: ways in which the copy may be spoilt

masterLog == <<pro, files, purge>>
dumpVars == <<offsets, saver, dump, dir, dumpOffset, uuid>>
nodeVars == <<node, acked, srv>>
net == <<link, msg>>
state == <<repl, attached, metaDone, force>>
client == <<rsync, thread, exited, errorStopped, round, todo, got, stopper>>
machine == <<aux, listing, found>>
database == <<base, from, soff>>
ghost == <<faults, broken>>

vars == <<masterLog, dumpVars, nodeVars, net, state, client, machine, local, database, ghost>>

-----------------------------------------------------------------------------

Absent == 0
Empty == MaxSaves + 1       \* "info" when it is opened and not yet written
Content == 0..(MaxSaves + 1)
Offset == 0..MaxLog

ReplState == {"kNoConnect", "kTryConnect", "kTryDBSync", "kWaitDBSync", "kWaitReply", "kConnected"}
SlaveState == {"none", "kSlaveNotSync", "kSlaveDbSync", "kSlaveBinlogSync"}
Message == [type: {"none", "TrySync", "DBSync", "BinlogSync", "kOk", "kSyncPointBePurged", "DBSyncOk"}, off: Offset]
Purge == [pc: {"idle", "check", "delete"}, rest: SUBSET Offset, to: Offset \cup {-1}]

Msg(t, n) == [type |-> t, off |-> n]
NoMsg == Msg("none", 0)
NoPurge == [pc |-> "idle", rest |-> {}, to |-> -1]
NoFiles == [f \in Files |-> Absent]
NoRequest == -1

TypeOK ==
  /\ pro \in Offset /\ files \subseteq Offset /\ purge \in Purge
  /\ offsets \in Seq(Offset) /\ Len(offsets) \in 1..MaxSaves
  /\ saver \in {"idle", "env", "engine", "backup", "info", "uuid", "finish"}
  /\ dump \in [Files -> Content] /\ dir \in BOOLEAN
  /\ dumpOffset \in Offset /\ uuid \in 0..MaxSaves
  /\ node \in SlaveState /\ acked \in Offset /\ srv \in Message
  /\ link \in BOOLEAN /\ msg \in Message
  /\ repl \in ReplState /\ {attached, metaDone, force} \subseteq BOOLEAN
  /\ aux \in {"idle", "waiting", "meta", "list", "check", "install", "rename", "offset", "mark"}
  /\ listing \subseteq Files /\ found \in Content
  /\ rsync \in {"IDLE", "RUNNING", "STOP"} /\ thread \in {"none", "started", "main"}
  /\ {exited, errorStopped} \subseteq BOOLEAN
  /\ round \in 0..MaxSaves
  /\ todo \in [Workers -> SUBSET Files] /\ got \in [Workers -> 0..MaxSaves \cup {NoRequest}]
  /\ stopper \in {"none", "Deactivate", "HandleDBSyncResponse"}
  /\ local \in [Files -> Content] /\ base \in [Data -> Content]
  /\ from \in Offset /\ soff \in Offset
  /\ faults \in 0..MaxFaults /\ broken \subseteq {"stale", "stopped", "crash", "purge"}

Init ==
  /\ pro = 0 /\ files = {0} /\ purge = NoPurge
  /\ offsets = <<0>> /\ saver = "idle" /\ dump = NoFiles /\ dir = FALSE
  /\ dumpOffset = 0 /\ uuid = 0
  /\ node = "none" /\ acked = 0 /\ srv = NoMsg
  /\ link = FALSE /\ msg = NoMsg
  /\ repl = "kNoConnect" /\ attached = FALSE /\ metaDone = FALSE /\ force = TRUE
  /\ aux = "idle" /\ listing = {} /\ found = Absent
  /\ rsync = "IDLE" /\ thread = "none" /\ exited = TRUE /\ errorStopped = FALSE
  /\ round = 0 /\ todo = [w \in Workers |-> {}] /\ got = [w \in Workers |-> NoRequest]
  /\ stopper = "none"
  /\ local = NoFiles /\ base = [f \in Data |-> 1] /\ from = 0 /\ soff = 0
  /\ faults = 0 /\ broken = {}

Fault(kind) ==
  /\ kind \in Faults /\ faults < MaxFaults
  /\ faults' = faults + 1

-----------------------------------------------------------------------------
(* Master: the binlog and its files *)

Write ==
  /\ pro < MaxLog
  /\ pro' = pro + 1
  /\ files' = files \cup {pro + 1}
  /\ UNCHANGED <<purge, dumpVars, nodeVars, net, state, client, machine, local, database, ghost>>

(* Mutant of BinlogCloudPurge: a slave in full synchronisation is forgotten. *)
BinlogCloudPurgeForgets(index) ==
  /\ ~(index > (pro - Remain) % NumRange)
  /\ node = "kSlaveBinlogSync" => index < acked

(* filenum - 10 is unsigned. *)
BinlogCloudPurge(index) ==
  /\ ~(index > (pro - Remain) % NumRange)
  /\ node # "kSlaveDbSync"
  /\ node = "kSlaveBinlogSync" => index < acked

(* PurgeStableLogs: PURGELOGSTO, or (to = -1) the timer. *)
PurgeStableLogs ==
  /\ purge.pc = "idle" /\ files # {}
  /\ \E to \in files \cup {-1} :
       /\ IF to = -1 THEN UNCHANGED faults ELSE Fault("purgelogsto")
       /\ purge' = [pc |-> "check", rest |-> files, to |-> to]
  /\ UNCHANGED <<pro, files, dumpVars, nodeVars, net, state, client, machine, local, database, broken>>

(* PurgeFiles, the oldest of the files found: by order of PURGELOGSTO, or    *)
(* for its age or the number of files, which never leaves fewer than Remain. *)
PurgeCheck ==
  LET oldest == Min(purge.rest) IN
  /\ purge.pc = "check"
  /\ \/ /\ purge.rest # {}
        /\ oldest <= purge.to \/ Cardinality(purge.rest) > Remain
        /\ BinlogCloudPurge(oldest)
        /\ purge' = [purge EXCEPT !.pc = "delete"]
        /\ broken' = IF oldest <= pro - Remain THEN broken ELSE broken \cup {"purge"}
     \/ /\ purge.rest # {} => oldest > purge.to \/ ~BinlogCloudPurge(oldest)
        /\ purge' = NoPurge /\ UNCHANGED broken
  /\ UNCHANGED <<pro, files, dumpVars, nodeVars, net, state, client, machine, local, database, faults>>

(* "We check this every time to avoid lock when we do file deletion." *)
PurgeDelete ==
  LET oldest == Min(purge.rest) IN
  /\ purge.pc = "delete"
  /\ files' = files \ {oldest}
  /\ purge' = [purge EXCEPT !.pc = "check", !.rest = @ \ {oldest}]
  /\ broken' = IF BinlogCloudPurge(oldest) THEN broken ELSE broken \cup {"purge"}
  /\ UNCHANGED <<pro, dumpVars, nodeVars, net, state, client, machine, local, database, faults>>

-----------------------------------------------------------------------------
(* Master: saving a dump *)

Bgsaving == saver # "idle"

(* The order of file names. *)
Precedes(f, g) == \E i, j \in DOMAIN FileOrder : i < j /\ FileOrder[i] = f /\ FileOrder[j] = g

First(fs) == CHOOSE f \in fs : \A g \in fs \ {f} : Precedes(f, g)

(* DB::BgSaveDB. *)
BgSaveDB ==
  IF Bgsaving THEN UNCHANGED saver ELSE Len(offsets) < MaxSaves /\ saver' = "env"

(* BGSAVE, whatever is copied at the time. *)
BgsaveCommand ==
  /\ Fault("bgsave")
  /\ ~Bgsaving
  /\ BgSaveDB
  /\ UNCHANGED <<masterLog, offsets, dump, dir, dumpOffset, uuid, nodeVars, net, state, client,
                 machine, local, database, broken>>

(* The directory has the date in its name: the dump of the day is deleted. *)
InitBgsaveEnv ==
  /\ saver = "env"
  /\ dump' = NoFiles /\ dir' = TRUE
  /\ saver' = "engine"
  /\ UNCHANGED <<masterLog, offsets, dumpOffset, uuid, nodeVars, net, state, client, machine,
                 local, database, ghost>>

(* Under the exclusive lock of the database: offset and snapshot belong      *)
(* together.                                                                 *)
InitBgsaveEngine ==
  /\ saver = "engine"
  /\ dumpOffset' = pro
  /\ offsets' = Append(offsets, pro)
  /\ saver' = "backup"
  /\ UNCHANGED <<masterLog, dump, dir, uuid, nodeVars, net, state, client, machine, local,
                 database, ghost>>

(* CreateNewBackup: file after file; it may fail. *)
CreateNewBackup ==
  LET left == {f \in Data : dump[f] = Absent} IN
  /\ saver = "backup"
  /\ \/ /\ left # {}
        /\ dump' = [dump EXCEPT ![First(left)] = Len(offsets)]
        /\ saver' = IF left = {First(left)} THEN "info" ELSE "backup"
        /\ UNCHANGED faults
     \/ /\ Fault("backup")
        /\ saver' = "info"
        /\ UNCHANGED dump
  /\ UNCHANGED <<masterLog, offsets, dir, dumpOffset, uuid, nodeVars, net, state, client,
                 machine, local, database, broken>>

(* DoBgSave opens the info file, sets snapshot_uuid_, and writes the file. *)
OpenInfo ==
  /\ saver = "info"
  /\ dump' = [dump EXCEPT !["info"] = Empty]
  /\ saver' = "uuid"
  /\ UNCHANGED <<masterLog, offsets, dir, dumpOffset, uuid, nodeVars, net, state, client,
                 machine, local, database, ghost>>

(* The uuid is that of this save.  The code hashes duration, host, port and  *)
(* offset, so that two saves may also share one.                             *)
SetUuid ==
  /\ saver = "uuid"
  /\ uuid' = Len(offsets)
  /\ saver' = "finish"
  /\ UNCHANGED <<masterLog, offsets, dump, dir, dumpOffset, nodeVars, net, state, client,
                 machine, local, database, ghost>>

(* The directory of a failed backup is renamed; FinishBgsave. *)
FinishBgsave ==
  /\ saver = "finish"
  /\ IF \E f \in Data : dump[f] = Absent
     THEN dump' = NoFiles /\ dir' = FALSE
     ELSE dump' = [dump EXCEPT !["info"] = Len(offsets)] /\ UNCHANGED dir
  /\ saver' = "idle"
  /\ UNCHANGED <<masterLog, offsets, dumpOffset, uuid, nodeVars, net, state, client, machine,
                 local, database, ghost>>

-----------------------------------------------------------------------------
(* Master: requests of the slave *)

Send(m) == msg' = IF link THEN m ELSE NoMsg

(* HandleTrySyncRequest: the slave's file must exist. *)
HandleTrySync ==
  /\ msg.type = "TrySync"
  /\ IF msg.off \in files
     THEN /\ node' = IF node = "none" THEN "kSlaveNotSync" ELSE node
          /\ Send(Msg("kOk", 0))
     ELSE Send(Msg("kSyncPointBePurged", 0)) /\ UNCHANGED node
  /\ UNCHANGED <<masterLog, dumpVars, acked, srv, link, state, client, machine, local, database, ghost>>

(* HandleDBSyncRequest: "Change slave node's state to kSlaveDbSync so that   *)
(* the binlog will perserved."                                               *)
HandleDBSync ==
  /\ msg.type = "DBSync" /\ srv = NoMsg
  /\ node' = "kSlaveDbSync"
  /\ srv' = msg
  /\ msg' = NoMsg
  /\ UNCHANGED <<masterLog, dumpVars, acked, link, state, client, machine, local, database, ghost>>

(* TryDBSync: the dump is gone, its binlog file is gone, or it is too old. *)
NeedBgsave(top) == ~dir \/ dumpOffset \notin files \/ top - dumpOffset > MaxGap

(* TryDBSync, and the reply. *)
TryDBSync ==
  /\ srv # NoMsg
  /\ IF NeedBgsave(srv.off) THEN BgSaveDB ELSE UNCHANGED saver
  /\ srv' = NoMsg
  /\ Send(Msg("DBSyncOk", 0))
  /\ broken' = IF saver \notin {"idle", "env", "engine"} /\ dumpOffset \notin files
               THEN broken \cup {"purge"} ELSE broken
  /\ UNCHANGED <<masterLog, offsets, dump, dir, dumpOffset, uuid, node, acked, link, state,
                 client, machine, local, database, faults>>

(* HandleBinlogSyncRequest, the first of a session: the connection is closed *)
(* when the file cannot be opened.                                           *)
ActivateSlaveBinlogSync ==
  /\ msg.type = "BinlogSync"
  /\ msg' = NoMsg
  /\ IF node = "none" THEN UNCHANGED <<node, acked, link>>
     ELSE /\ node' = "kSlaveBinlogSync" /\ acked' = msg.off
          /\ link' = (msg.off \in files)
  /\ UNCHANGED <<masterLog, dumpVars, srv, state, client, machine, local, database, ghost>>

(* SyncMasterDB::CheckSyncTimeout. *)
MasterTimeout ==
  /\ Fault("masterTimeout")
  /\ node # "none"
  /\ node' = "none"
  /\ UNCHANGED <<masterLog, dumpVars, acked, srv, net, state, client, machine, local, database, broken>>

(* PikaServer::DeleteSlave. *)
MasterFdClosed ==
  /\ ~link /\ node # "none" /\ srv = NoMsg
  /\ node' = "none"
  /\ UNCHANGED <<masterLog, dumpVars, acked, srv, net, state, client, machine, local, database, ghost>>

-----------------------------------------------------------------------------
(* The connection *)

(* A slave whose request was lost is idle until the connection times out. *)
LinkDown ==
  /\ link
  /\ \/ Fault("link")
     \/ /\ repl = "kWaitReply" /\ msg = NoMsg /\ srv = NoMsg /\ stopper = "none"
        /\ UNCHANGED faults
  /\ link' = FALSE /\ msg' = NoMsg
  /\ UNCHANGED <<masterLog, dumpVars, nodeVars, state, client, machine, local, database, broken>>

(* The MetaSync exchange on a new connection: PrepareDBTrySync activates a   *)
(* database that is not connected; the first time with kTryDBSync.           *)
MetaSync ==
  /\ ~link /\ ~metaDone /\ stopper = "none" /\ node = "none" /\ srv = NoMsg
  /\ link' = TRUE /\ metaDone' = TRUE
  /\ IF repl = "kNoConnect"
     THEN attached' = TRUE /\ repl' = IF force THEN "kTryDBSync" ELSE "kTryConnect"
     ELSE UNCHANGED <<attached, repl>>
  /\ force' = FALSE
  /\ UNCHANGED <<masterLog, dumpVars, nodeVars, msg, client, machine, local, database, ghost>>

-----------------------------------------------------------------------------
(* Slave: connection and requests *)

(* ResetMetaSyncStatus and SyncSlaveDB::Deactivate, which stops the copying  *)
(* with db_mu_ held.                                                         *)
SlaveFdClosed ==
  /\ ~link /\ metaDone /\ stopper = "none"
  /\ metaDone' = FALSE /\ repl' = "kNoConnect" /\ attached' = FALSE
  /\ IF rsync = "IDLE" THEN UNCHANGED <<rsync, stopper>>
     ELSE rsync' = "STOP" /\ stopper' = "Deactivate"
  /\ UNCHANGED <<masterLog, dumpVars, nodeVars, net, force, thread, exited, errorStopped, round,
                 todo, got, machine, local, database, ghost>>

(* db_mu_, which State and SetReplState take. *)
Unlocked == stopper # "Deactivate"

(* SendTrySyncRequest. *)
SendTrySync ==
  /\ aux = "idle" /\ metaDone /\ Unlocked
  /\ repl = "kTryConnect"
  /\ repl' = "kWaitReply"
  /\ IF attached /\ msg = NoMsg THEN Send(Msg("TrySync", soff)) ELSE UNCHANGED msg
  /\ UNCHANGED <<masterLog, dumpVars, nodeVars, link, attached, metaDone, force, client, machine,
                 local, database, ghost>>

(* SendDBSyncRequest, after PrepareRsync. *)
SendDBSync ==
  /\ aux = "idle" /\ metaDone /\ Unlocked
  /\ repl = "kTryDBSync"
  /\ repl' = "kWaitReply"
  /\ local' = NoFiles
  /\ IF attached /\ msg = NoMsg THEN Send(Msg("DBSync", soff)) ELSE UNCHANGED msg
  /\ UNCHANGED <<masterLog, dumpVars, nodeVars, link, attached, metaDone, force, client, machine,
                 database, ghost>>

(* HandleTrySyncResponse. *)
HandleTrySyncResponse ==
  /\ msg.type \in {"kOk", "kSyncPointBePurged"} /\ Unlocked
  /\ IF msg.type = "kOk"
     THEN repl' = "kConnected" /\ msg' = Msg("BinlogSync", soff)
     ELSE repl' = "kTryDBSync" /\ msg' = NoMsg
  /\ UNCHANGED <<masterLog, dumpVars, nodeVars, link, attached, metaDone, force, client, machine,
                 local, database, ghost>>

(* Mutant of HandleDBSyncResponse: nothing to stop, nothing done. *)
HandleDBSyncResponseIdle ==
  /\ msg.type = "DBSyncOk" /\ stopper = "none"
  /\ msg' = NoMsg
  /\ IF rsync = "IDLE" THEN UNCHANGED <<repl, rsync, stopper>>
     ELSE rsync' = "STOP" /\ stopper' = "HandleDBSyncResponse" /\ UNCHANGED repl
  /\ UNCHANGED <<masterLog, dumpVars, nodeVars, link, attached, metaDone, force, thread, exited,
                 errorStopped, round, todo, got, machine, local, database, ghost>>

(* HandleDBSyncResponse: StopRsync, then kWaitDBSync. *)
HandleDBSyncResponse ==
  /\ msg.type = "DBSyncOk" /\ stopper = "none"
  /\ msg' = NoMsg
  /\ IF rsync = "IDLE" THEN repl' = "kWaitDBSync" /\ UNCHANGED <<rsync, stopper>>
     ELSE rsync' = "STOP" /\ stopper' = "HandleDBSyncResponse" /\ UNCHANGED repl
  /\ UNCHANGED <<masterLog, dumpVars, nodeVars, link, attached, metaDone, force, thread, exited,
                 errorStopped, round, todo, got, machine, local, database, ghost>>

(* RsyncClient::Stop, after the threads are joined. *)
StopEnd ==
  /\ stopper # "none" /\ thread = "none"
  /\ rsync' = "IDLE" /\ stopper' = "none"
  /\ repl' = IF stopper = "HandleDBSyncResponse" THEN "kWaitDBSync" ELSE repl
  /\ UNCHANGED <<masterLog, dumpVars, nodeVars, net, attached, metaDone, force, thread, exited,
                 errorStopped, round, todo, got, machine, local, database, ghost>>

(* SyncSlaveDB::CheckSyncTimeout, by the thread of the state machine: by     *)
(* mischance, or because the master knows nothing of the slave.              *)
SlaveTimeout ==
  /\ aux = "idle" /\ Unlocked
  /\ repl \in {"kWaitDBSync", "kConnected"}
  /\ \/ Fault("slaveTimeout")
     \/ /\ node \notin {"kSlaveDbSync", "kSlaveBinlogSync"} /\ msg = NoMsg /\ srv = NoMsg
        /\ UNCHANGED faults
  /\ repl' = "kTryConnect"
  /\ UNCHANGED <<masterLog, dumpVars, nodeVars, net, attached, metaDone, force, client, machine,
                 local, database, broken>>

(* Mutant of Replicate: the end of the binlog is not seen. *)
ReplicateAhead ==
  /\ link /\ node = "kSlaveBinlogSync" /\ repl = "kConnected" /\ msg = NoMsg
  /\ soff' = soff + 1 /\ acked' = soff + 1
  /\ UNCHANGED <<masterLog, dumpVars, node, srv, net, state, client, machine, local, base, from, ghost>>

(* Incremental replication of the next record. *)
Replicate ==
  /\ link /\ node = "kSlaveBinlogSync" /\ repl = "kConnected" /\ msg = NoMsg
  /\ soff + 1 \in files
  /\ soff' = soff + 1 /\ acked' = soff + 1
  /\ UNCHANGED <<masterLog, dumpVars, node, srv, net, state, client, machine, local, base, from, ghost>>

-----------------------------------------------------------------------------
(* Slave: copying the dump *)

(* RunSyncSlaveDBStateMachine has read State. *)
WaitDBSync ==
  /\ aux = "idle" /\ metaDone /\ Unlocked
  /\ repl = "kWaitDBSync"
  /\ aux' = "waiting"
  /\ UNCHANGED <<masterLog, dumpVars, nodeVars, net, state, client, listing, found, local, database, ghost>>

(* ActivateRsync; HandleMetaRsyncRequest refuses while a dump is saved. *)
ActivateRsync ==
  /\ aux = "waiting"
  /\ aux' = IF rsync # "IDLE" THEN "check" ELSE IF Bgsaving THEN "idle" ELSE "meta"
  /\ UNCHANGED <<masterLog, dumpVars, nodeVars, net, state, client, listing, found, local, database, ghost>>

FilesThere == {f \in Data : dump[f] # Absent} \cup {"info"}

(* GetBgSaveMetaData: the files that are there, and "info". *)
GetBgSaveMetaData ==
  /\ aux = "meta"
  /\ listing' = FilesThere
  /\ aux' = "list"
  /\ UNCHANGED <<masterLog, dumpVars, nodeVars, net, state, client, found, local, database, ghost>>

(* The files of worker w: index++ % GetParallelNum(). *)
FilesOf(w, fs) ==
  {f \in fs : Cardinality({g \in fs : Precedes(g, f)}) % Parallel = w}

(* The rest of ComparisonUpdate, and Start.  DUMP_META_DATA never holds a    *)
(* snapshot-uuid line (UpdateLocalMeta), so that the directory is reset.     *)
ComparisonUpdate ==
  /\ aux = "list"
  /\ round' = uuid
  /\ local' = NoFiles
  /\ todo' = [w \in Workers |-> FilesOf(w, listing)]
  /\ rsync' = "RUNNING" /\ errorStopped' = FALSE /\ thread' = "started"
  /\ aux' = "check"
  /\ broken' = IF listing # FilesThere THEN broken \cup {"stale"} ELSE broken
  /\ UNCHANGED <<masterLog, dumpVars, nodeVars, net, state, exited, got, stopper, listing, found,
                 database, faults>>

(* ThreadMain starts the workers. *)
ThreadMain ==
  /\ thread = "started"
  /\ exited' = FALSE /\ thread' = "main"
  /\ UNCHANGED <<masterLog, dumpVars, nodeVars, net, state, rsync, errorStopped, round, todo, got,
                 stopper, machine, local, database, ghost>>

(* Copy and CopyRemoteFile: the file is created; HandleFileRsyncRequest      *)
(* reads the uuid...                                                         *)
FileUuid(w) ==
  /\ thread = "main" /\ todo[w] # {} /\ got[w] = NoRequest
  /\ rsync = "RUNNING"
  /\ got' = [got EXCEPT ![w] = uuid]
  /\ local' = [local EXCEPT ![First(todo[w])] = Empty]
  /\ UNCHANGED <<masterLog, dumpVars, nodeVars, net, state, rsync, thread, exited, errorStopped,
                 round, todo, stopper, machine, database, ghost>>

(* resp->snapshot_uuid() != snapshot_uuid_ *)
SameDump(w) == got[w] = round

(* ... and then the file, which may be gone or that of another dump.         *)
CopyFile(w) ==
  LET f == First(todo[w]) IN
  /\ got[w] # NoRequest
  /\ got' = [got EXCEPT ![w] = NoRequest]
  /\ \/ /\ dump[f] = Absent
        /\ UNCHANGED <<rsync, errorStopped, todo, local, broken>>
     \/ /\ dump[f] # Absent /\ ~SameDump(w)
        /\ rsync' = "STOP" /\ errorStopped' = TRUE
        /\ UNCHANGED <<todo, local, broken>>
     \/ /\ dump[f] # Absent /\ SameDump(w)
        /\ local' = [local EXCEPT ![f] = dump[f]]
        /\ todo' = [todo EXCEPT ![w] = @ \ {f}]
        /\ broken' = IF got[w] = round /\ dump[f] # round THEN broken \cup {"stale"} ELSE broken
        /\ UNCHANGED <<rsync, errorStopped>>
  /\ UNCHANGED <<masterLog, dumpVars, nodeVars, net, state, thread, exited, round, stopper, machine,
                 database, faults>>

Finished(w) == got[w] = NoRequest /\ (todo[w] = {} \/ rsync # "RUNNING")

(* Mutant of CleanUp: what was copied before the error stays. *)
CleanUpNot == UNCHANGED local

(* The directory of a copy that stopped with errors is deleted. *)
CleanUp == local' = IF errorStopped THEN NoFiles ELSE local

(* The end of ThreadMain, the workers joined. *)
ThreadEnd ==
  /\ thread = "main" /\ \A w \in Workers : Finished(w)
  /\ CleanUp
  /\ rsync' = "STOP" /\ exited' = TRUE /\ thread' = "none"
  /\ UNCHANGED <<masterLog, dumpVars, nodeVars, net, state, errorStopped, round, todo, got, stopper,
                 machine, database, ghost>>

-----------------------------------------------------------------------------
(* Slave: the copied dump becomes the database *)

(* IsRsyncExited; Stop passes through the state of a finished copy. *)
RsyncExited ==
  /\ aux = "check"
  /\ aux' = IF rsync = "STOP" /\ exited THEN "install" ELSE "idle"
  /\ broken' = IF rsync = "STOP" /\ exited /\ stopper # "none" THEN broken \cup {"stopped"} ELSE broken
  /\ UNCHANGED <<masterLog, dumpVars, nodeVars, net, state, client, listing, found, local, database, faults>>

(* TryUpdateMasterOffset: the info file is read and removed, and ChangeDb    *)
(* renames the database.                                                     *)
TryUpdateMasterOffset ==
  /\ aux = "install"
  /\ IF local["info"] = Absent THEN aux' = "mark" /\ UNCHANGED <<found, local, base>>
     ELSE /\ found' = local["info"]
          /\ local' = [local EXCEPT !["info"] = Absent]
          /\ base' = [f \in Data |-> Absent]
          /\ aux' = "rename"
  /\ UNCHANGED <<masterLog, dumpVars, nodeVars, net, state, client, listing, from, soff, ghost>>

(* ChangeDb, the second RenameFile and Open. *)
ChangeDb ==
  /\ aux = "rename"
  /\ base' = [f \in Data |-> local[f]]
  /\ local' = NoFiles
  /\ aux' = "offset"
  /\ UNCHANGED <<masterLog, dumpVars, nodeVars, net, state, client, listing, found, from, soff, ghost>>

(* The offset an info file names: 0 when it is empty. *)
InfoOffset(content) == IF content = Empty THEN 0 ELSE offsets[content]

(* SetProducerStatus. *)
SetProducerStatus ==
  /\ aux = "offset"
  /\ from' = InfoOffset(found) /\ soff' = InfoOffset(found)
  /\ aux' = "mark"
  /\ UNCHANGED <<masterLog, dumpVars, nodeVars, net, state, client, listing, found, local, base, ghost>>

(* SetReplState(kTryConnect), whatever the state has become. *)
MarkTryConnect ==
  /\ aux = "mark" /\ Unlocked
  /\ repl' = "kTryConnect"
  /\ aux' = "idle"
  /\ UNCHANGED <<masterLog, dumpVars, nodeVars, net, attached, metaDone, force, client, listing,
                 found, local, database, ghost>>

(* The slave crashes and is started again: the files and the binlog stay. *)
Crash ==
  /\ Fault("crash")
  /\ link' = FALSE /\ msg' = NoMsg
  /\ repl' = "kNoConnect" /\ attached' = FALSE /\ metaDone' = FALSE
  /\ aux' = "idle" /\ listing' = {} /\ found' = Absent
  /\ rsync' = "IDLE" /\ thread' = "none" /\ exited' = TRUE /\ errorStopped' = FALSE
  /\ round' = 0 /\ todo' = [w \in Workers |-> {}] /\ got' = [w \in Workers |-> NoRequest]
  /\ stopper' = "none"
  /\ broken' = IF aux \in {"rename", "offset"} THEN broken \cup {"crash"} ELSE broken
  /\ UNCHANGED <<masterLog, dumpVars, nodeVars, force, local, database>>

-----------------------------------------------------------------------------

Saver == InitBgsaveEnv \/ InitBgsaveEngine \/ CreateNewBackup \/ OpenInfo \/ SetUuid \/ FinishBgsave

Master ==
  \/ HandleTrySync \/ HandleDBSync \/ TryDBSync \/ ActivateSlaveBinlogSync
  \/ MasterTimeout \/ MasterFdClosed

Purging == PurgeStableLogs \/ PurgeCheck \/ PurgeDelete

Slave ==
  \/ SlaveFdClosed \/ HandleTrySyncResponse \/ HandleDBSyncResponse \/ StopEnd \/ Replicate

Auxiliary ==
  \/ SendTrySync \/ SendDBSync \/ SlaveTimeout \/ WaitDBSync \/ ActivateRsync
  \/ GetBgSaveMetaData \/ ComparisonUpdate \/ RsyncExited
  \/ TryUpdateMasterOffset \/ ChangeDb \/ SetProducerStatus \/ MarkTryConnect

Copying == ThreadMain \/ ThreadEnd \/ \E w \in Workers : FileUuid(w) \/ CopyFile(w)

Next ==
  \/ Write \/ Purging \/ BgsaveCommand \/ Saver \/ Master
  \/ LinkDown \/ MetaSync \/ Slave \/ Auxiliary \/ Copying \/ Crash

Spec == Init /\ [][Next]_vars

(* Every thread goes on running; a connection or a session that is dead is   *)
(* found out by its timeout, which the thread of the state machine checks in *)
(* every round.                                                              *)
Fairness ==
  /\ WF_vars(Saver) /\ WF_vars(HandleTrySync \/ HandleDBSync \/ TryDBSync \/ ActivateSlaveBinlogSync)
  /\ WF_vars(MasterFdClosed) /\ WF_vars(LinkDown) /\ WF_vars(MetaSync)
  /\ WF_vars(SlaveFdClosed) /\ WF_vars(HandleTrySyncResponse \/ HandleDBSyncResponse)
  /\ WF_vars(StopEnd) /\ WF_vars(Replicate)
  /\ WF_vars(Auxiliary) /\ SF_vars(SlaveTimeout)
  /\ WF_vars(ThreadMain \/ ThreadEnd)
  /\ \A w \in Workers : WF_vars(FileUuid(w) \/ CopyFile(w))

FairSpec == Spec /\ Fairness

-----------------------------------------------------------------------------
(* Properties *)

(* The database of the slave is one dump of the master, complete, and the    *)
(* slave goes on from the offset of that very dump: no record is skipped or  *)
(* executed twice.  RsyncClient and TryUpdateMasterOffset secure it with the *)
(* uuid of the dump, by deleting what an error left, and by joining the      *)
(* threads.  "stale", "stopped" and "crash" are the windows the code leaves  *)
(* open: a save over the dump being copied, a Stop taken for the end of the  *)
(* copy, a crash between ChangeDb and SetProducerStatus.                     *)
DatabaseMatchesOffset ==
  broken \subseteq {"purge"} /\ aux \notin {"rename", "offset"} =>
    \E n \in DOMAIN offsets : offsets[n] = from /\ \A f \in Data : base[f] = n

(* The master keeps the binlog files that a slave still needs: from the      *)
(* offset of the dump it copies, and from what it has acknowledged.          *)
(* BinlogCloudPurge secures it by the state of the SlaveNode; "purge" are    *)
(* the windows left open: the check is done before the deletion, filenum -   *)
(* 10 wraps, and TryDBSync sends a slave to a save that already runs, whose  *)
(* binlog file may be gone.                                                  *)
NeededFilesKept ==
  "purge" \notin broken /\ link =>
    /\ node = "kSlaveDbSync" /\ repl = "kWaitDBSync" /\ rsync # "IDLE" => offsets[round]..pro \subseteq files
    /\ node = "kSlaveBinlogSync" => acked..pro \subseteq files

(* The dump that a failed CreateNewBackup leaves is the last one: its uuid   *)
(* is given out and its files are not there.                                 *)
NoDump == uuid # 0 /\ ~dir /\ ~Bgsaving

(* A slave that was told to copy the database is in the end connected and    *)
(* has every record, whatever connection, timeout, dump or process failed on *)
(* the way.  Not after a failed backup, which the copying threads wait for   *)
(* without end, nor after "purge".  A request that no save is left for       *)
(* (MaxSaves) is not counted.                                                *)
FullSyncCompletes ==
  <>[](\/ repl = "kConnected" /\ link /\ soff = pro
       \/ NoDump \/ "purge" \in broken \/ srv # NoMsg)

=============================================================================
