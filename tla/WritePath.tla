----------------------------- MODULE WritePath -----------------------------
(***************************************************************************)
(* Write commands on the master (Cmd::InternalProcessCommand): a client    *)
(* thread locks the command's keys in LockMgr, takes the shared lock of    *)
(* the database, changes the database, appends the records to the binlog   *)
(* and releases the locks.  FLUSHDB is a suspend command: it takes no      *)
(* shared lock, but the exclusive one, while it changes the database, and  *)
(* before it the exclusive lock of the replica manager                     *)
(* (PikaReplicaManager::dbs_rw_), under which commands look up the         *)
(* database they log to.                                                   *)
(*                                                                         *)
(* SET, MSET and DEL stand for all commands on keys; MSET and DEL log one  *)
(* record per key.                                                         *)
(***************************************************************************)
EXTENDS CommandLog, SequencesExt

CONSTANTS
  Clients,      \* client threads
  MaxArgs,      \* bound: keys of a command
  MaxCommands,  \* bound: commands the clients issue
  MaxRecords,   \* bound: records they write
  MaxErrors     \* bound: failures of the storage or of the binlog

ASSUME WriteAssumption ==
  Clients # {} /\ MaxArgs \in Nat \ {0} /\ {MaxCommands, MaxRecords, MaxErrors} \subseteq Nat

VARIABLES
  mdb,       \* the database
  locked,    \* keys locked in LockMgr
  shared,    \* clients that hold the shared lock of the database
  client,    \* the command each client is executing
  issued,    \* number of commands issued
  ioError,   \* DB::binlog_io_error_
  errors,    \* number of failures
  diverged   \* history: how the binlog came to differ from the database

clientVars == <<mdb, locked, shared, client, issued, ioError, errors, diverged>>

-----------------------------------------------------------------------------

KeySeqs == UNION {[1..n -> Keys] : n \in 1..MaxArgs}

Command ==
  [type: {"set"}, keys: [1..1 -> Keys], val: Values]
    \cup [type: {"mset"}, keys: KeySeqs, val: Values]
    \cup [type: {"del"}, keys: KeySeqs, val: {NoValue}]
    \cup [type: {"flushdb"}, keys: {<<NoKey>>}, val: {NoValue}]

FlushDb == [type |-> "flushdb", keys |-> <<NoKey>>, val |-> NoValue]

(* pc: where InternalProcessCommand stands.  left: in "lock" the keys still  *)
(* to be locked, in "binlog" the keys still to be logged.                    *)
ClientState ==
  [pc: {"idle", "lock", "share", "rm", "do", "binlog", "release"},
   cmd: Command, left: Seq(Keys \cup {NoKey})]
IdleClient == [pc |-> "idle", cmd |-> FlushDb, left |-> <<>>]

IsSuspend(cmd) == cmd.type = "flushdb"

(* FlushdbCmd::Do holds the lock of the replica manager while it waits for   *)
(* the database.                                                             *)
HoldsRm(c) == client[c].pc = "do" /\ IsSuspend(client[c].cmd)
RmFree == \A c \in Clients : ~HoldsRm(c)

WriteTypeOK ==
  /\ mlog \in Seq(Record)
  /\ mdb \in Database
  /\ locked \subseteq Keys \cup {NoKey}
  /\ shared \subseteq Clients
  /\ client \in [Clients -> ClientState]
  /\ issued \in Nat
  /\ ioError \in BOOLEAN
  /\ errors \in Nat
  /\ diverged \subseteq {"overtaken", "unlogged", "failed"}

WriteInit ==
  /\ mlog = <<>>
  /\ mdb = EmptyDatabase
  /\ locked = {} /\ shared = {}
  /\ client = [c \in Clients |-> IdleClient]
  /\ issued = 0
  /\ ioError = FALSE /\ errors = 0
  /\ diverged = {}

-----------------------------------------------------------------------------

Goto(c, pc, left) == client' = [client EXCEPT ![c].pc = pc, ![c].left = left]

(* Mutant of LockOrder: the keys are locked as the command lists them. *)
LockOrderAsGiven(keys) == keys

(* MultiRecordLock::Lock sorts the keys and skips repetitions. *)
LockOrder(keys) ==
  LET S == ToSet(keys) IN
  [i \in 1..Cardinality(S) |-> CHOOSE k \in S : Cardinality({j \in S : j < k}) = i - 1]

(* Keys of the commands under way, for the bound on records. *)
UnderWay == FoldFunction(+, 0, [c \in Clients |-> IF client[c].pc = "idle" THEN 0 ELSE Len(client[c].cmd.keys)])

(* PikaClientConn::DoCmd: Initial looks up the database, and a write is       *)
(* refused after a binlog I/O error.                                          *)
DoCmd(c) ==
  /\ client[c].pc = "idle"
  /\ issued < MaxCommands
  /\ RmFree
  /\ ~ioError
  /\ issued' = issued + 1
  /\ \E cmd \in Command :
       /\ Len(mlog) + UnderWay + Len(cmd.keys) <= MaxRecords
       /\ client' = [client EXCEPT ![c] = [pc |-> "lock", cmd |-> cmd, left |-> LockOrder(cmd.keys)]]
  /\ UNCHANGED <<mlog, mdb, locked, shared, ioError, errors, diverged>>

(* LockMgr::TryLock: waits until the next key is free. *)
TryLock(c) ==
  /\ client[c].pc = "lock"
  /\ LET left == client[c].left IN
       /\ Head(left) \notin locked
       /\ locked' = locked \cup {Head(left)}
       /\ IF Tail(left) # <<>> THEN Goto(c, "lock", Tail(left))
          ELSE Goto(c, IF IsSuspend(client[c].cmd) THEN "rm" ELSE "share", <<>>)
  /\ UNCHANGED <<mlog, mdb, shared, issued, ioError, errors, diverged>>

(* DBLockShared; the exclusive lock is only held inside FlushdbCmd::Do. *)
DBLockShared(c) ==
  /\ client[c].pc = "share"
  /\ shared' = shared \cup {c}
  /\ Goto(c, "do", <<>>)
  /\ UNCHANGED <<mlog, mdb, locked, issued, ioError, errors, diverged>>

(* Cmd::DoBinlog and FlushdbCmd::DoBinlog log nothing after a failure. *)
SkipBinlog(c) == Goto(c, "release", <<>>)

(* FlushdbCmd::Do is refused during a scan of the keys, or waits for the lock *)
(* of the replica manager.                                                    *)
RmLock(c) ==
  /\ client[c].pc = "rm"
  /\ \/ RmFree /\ Goto(c, "do", <<>>)
     \/ SkipBinlog(c)
  /\ UNCHANGED <<mlog, mdb, locked, shared, issued, ioError, errors, diverged>>

(* Mutant of CanDo: FLUSHDB does not wait for the commands under way. *)
CanDoAnyTime(cmd) == cmd \in Command

(* FlushdbCmd::Do, which holds the lock of the replica manager by now, takes *)
(* the exclusive lock of the database.  Both end with Do.                    *)
CanDo(cmd) == cmd.type = "flushdb" => shared = {}

Assign(db, keys, v) == [k \in Keys |-> IF k \in keys THEN v ELSE db[k]]
Affected(cmd) == IF cmd.type = "flushdb" THEN Keys ELSE ToSet(cmd.keys)

(* Cmd::DoCommand. *)
Do(c) ==
  LET cmd == client[c].cmd IN
  /\ client[c].pc = "do"
  /\ CanDo(cmd)
  /\ mdb' = Assign(mdb, Affected(cmd), cmd.val)
  /\ Goto(c, "binlog", cmd.keys)
  /\ UNCHANGED <<mlog, locked, shared, issued, ioError, errors, diverged>>

(* Cmd::DoCommand when the storage fails.  Storage::MSet stops at the first  *)
(* key that fails and Storage::Del skips it; either command is still logged  *)
(* in full.  A failed SET or FLUSHDB changes nothing and is not logged.      *)
DoFails(c) ==
  LET cmd == client[c].cmd IN
  /\ client[c].pc = "do"
  /\ CanDo(cmd)
  /\ errors < MaxErrors
  /\ errors' = errors + 1
  /\ \/ /\ cmd.type \in {"set", "flushdb"}
        /\ SkipBinlog(c)
        /\ UNCHANGED <<mdb, diverged>>
     \/ /\ cmd.type = "mset"
        /\ \E n \in 1..Len(cmd.keys) :
             mdb' = Assign(mdb, ToSet(SubSeq(cmd.keys, 1, n - 1)), cmd.val)
        /\ Goto(c, "binlog", cmd.keys)
        /\ diverged' = diverged \cup {"failed"}
     \/ /\ cmd.type = "del"
        /\ \E k \in ToSet(cmd.keys) :
             mdb' = Assign(mdb, ToSet(cmd.keys) \ {k}, cmd.val)
        /\ Goto(c, "binlog", cmd.keys)
        /\ diverged' = diverged \cup {"failed"}
  /\ UNCHANGED <<mlog, locked, shared, issued, ioError>>

Logged(cmd, k) == IF cmd.type = "flushdb" THEN FlushRecord ELSE SetRecord(k, cmd.val)

(* Another client has flushed the database and not yet logged it. *)
FlushUnlogged(c) ==
  \E d \in Clients \ {c} : client[d].pc = "binlog" /\ client[d].cmd.type = "flushdb"

(* MsetCmd::DoBinlog initialises a SET for every key, which looks up the       *)
(* database; the other commands log themselves.                               *)
LooksUpDB(cmd) == cmd.type = "mset"

(* DoBinlog, one record.  After a failure the result of a DEL is an error and *)
(* it logs no more; an MSET logs through a command of its own and goes on.    *)
DoBinlog(c) ==
  LET cmd == client[c].cmd
      left == client[c].left
      Rest(keys) == Goto(c, IF keys = <<>> THEN "release" ELSE "binlog", keys)
  IN
  /\ client[c].pc = "binlog"
  /\ LooksUpDB(cmd) => RmFree
  /\ \/ /\ mlog' = Append(mlog, Logged(cmd, Head(left)))
        /\ diverged' = diverged \cup (IF FlushUnlogged(c) THEN {"overtaken"} ELSE {})
        /\ Rest(Tail(left))
        /\ UNCHANGED <<ioError, errors>>
     \/ /\ errors < MaxErrors
        /\ errors' = errors + 1
        /\ ioError' = TRUE
        /\ diverged' = diverged \cup {"unlogged"}
        /\ Rest(IF cmd.type = "del" THEN <<>> ELSE Tail(left))
        /\ UNCHANGED mlog
  /\ UNCHANGED <<mdb, locked, shared, issued>>

(* DBUnlockShared and MultiRecordLock::Unlock. *)
Release(c) ==
  /\ client[c].pc = "release"
  /\ shared' = shared \ {c}
  /\ locked' = locked \ ToSet(client[c].cmd.keys)
  /\ client' = [client EXCEPT ![c] = IdleClient]
  /\ UNCHANGED <<mlog, mdb, issued, ioError, errors, diverged>>

ClientThread(c) ==
  \/ DoCmd(c) \/ TryLock(c) \/ DBLockShared(c) \/ RmLock(c)
  \/ Do(c) \/ DoFails(c) \/ DoBinlog(c) \/ Release(c)

(* A command that was issued goes on; clients need not issue any. *)
ClientFairness ==
  \A c \in Clients : WF_<<mlog, clientVars>>(client[c].pc # "idle" /\ ClientThread(c))

-----------------------------------------------------------------------------

(* Keys a client has changed, or all of them, and not yet logged. *)
Unlogged(k) ==
  \E c \in Clients : /\ client[c].pc = "binlog"
                     /\ client[c].cmd.type = "flushdb" \/ k \in ToSet(client[c].left)

(* Cmd::InternalProcessCommand: a command keeps its keys locked from the      *)
(* change of the database to its record, so the binlog orders the changes of  *)
(* a key as the database saw them: executing it again gives the database,     *)
(* until a record could not be written, a record was written for a change     *)
(* that failed, or a record overtook the one of a FLUSHDB.                    *)
LogMatchesDatabase ==
  diverged = {} =>
    \A k \in Keys : ~Unlogged(k) => IsValue(mlog, k, mdb[k])

(* docs/design/lock.md:10, while a suspend command executes the write lock     *)
(* ensures that no other command executes, and :27, records are added to keep  *)
(* the databases of master and slave the same: with no command under way and   *)
(* no failed write, executing the binlog gives the database.                   *)
LogMatchesDatabaseAlways ==
  errors = 0 /\ (\A c \in Clients : client[c].pc = "idle") => Agrees(mdb, mlog)

(* MsetCmd::DoBinlog and FlushdbCmd::Do wait for each other: the MSET has     *)
(* changed the database and keeps its shared lock while it waits for the      *)
(* replica manager, whose lock the FLUSHDB keeps that waits for the database. *)
FlushDeadlock ==
  \E c, d \in Clients :
    client[c].pc = "binlog" /\ LooksUpDB(client[c].cmd) /\ c \in shared /\ HoldsRm(d)

(* MultiRecordLock, the database lock and the lock of the replica manager:    *)
(* every command that was issued finishes, whatever keys it names and however *)
(* they overlap, unless an MSET and a FLUSHDB wait for each other; no other   *)
(* commands ever do.                                                          *)
EveryCommandFinishes ==
  \A c \in Clients : client[c].pc # "idle" ~> client[c].pc = "idle" \/ FlushDeadlock

=============================================================================
