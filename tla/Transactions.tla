---------------------------- MODULE Transactions ----------------------------
(***************************************************************************)
(* WATCH, MULTI, EXEC and DISCARD beside plain write commands.  A command  *)
(* marks the connections that watch one of its keys, takes its locks one   *)
(* by one, changes the database and writes its binlog record; an EXEC      *)
(* checks its mark, takes the locks of all queued commands and executes    *)
(* them.                                                                   *)
(*                                                                         *)
(* A write stands for SET and DEL.  logdb is what executing the binlog     *)
(* written so far gives, the database of a slave that has caught up.       *)
(***************************************************************************)
EXTENDS Naturals, Sequences, FiniteSets, SequencesExt

CONSTANTS
  Conns,        \* client connections
  DBs,          \* databases
  DefaultDB,    \* database of a new connection
  Names,        \* names of keys, ordered as std::sort orders them
  MaxQueue,     \* bound: commands queued in one transaction
  MaxCommands   \* bound: commands a connection sends

NoName == 0     \* "", the key Cmd::current_key gives for FLUSHDB

ASSUME TxnAssumption ==
  /\ Conns # {} /\ IsFiniteSet(Conns) /\ DefaultDB \in DBs /\ "rm" \notin DBs
  /\ Names \subseteq Nat \ {NoName}
  /\ {MaxQueue, MaxCommands} \subseteq Nat

VARIABLES
  db,           \* value of every key; 0: it does not exist
  logdb,        \* what executing the binlog gives
  cur,          \* current_db_
  watched,      \* watched keys (key_conns_map_, watched_db_keys_)
  start, initFailed, watchFailed,   \* txn_state_
  que,          \* txn_cmd_que_
  pc,           \* where the command of the connection stands
  todo,         \* commands still to be executed, with their CmdInfo::db_
  involved,     \* connections found by GetInvolvedTxn and not yet marked
  plan,         \* locks still to be taken
  held,         \* locks taken
  sent,         \* number of commands sent
  seen,         \* history: <<t, k>> the command found when it looked for watchers
  changed,      \* history: watched keys that have changed, and how
  late,         \* history: connections marked when they watched nothing
  diverged      \* history: how binlog and database came to differ

vars == <<db, logdb, cur, watched, start, initFailed, watchFailed, que, pc, todo, involved,
          plan, held, sent, seen, changed, late, diverged>>

-----------------------------------------------------------------------------

Keys == DBs \X Names
Val == {0, 1}

Command ==
  [type: {"write"}, db: DBs, name: Names, val: Val, at: DBs]
    \cup [type: {"flushdb", "select"}, db: DBs, name: {NoName}, val: {0}, at: DBs]

Write(d, n, v) == [type |-> "write", db |-> d, name |-> n, val |-> v, at |-> d]
Flush(d) == [type |-> "flushdb", db |-> d, name |-> NoName, val |-> 0, at |-> d]
Select(d) == [type |-> "select", db |-> d, name |-> NoName, val |-> 0, at |-> d]

(* The write commands of a connection whose database is d. *)
Writes(d) == {Write(d, p[1], p[2]) : p \in Names \X Val} \cup {Flush(d)}

Affected(cmd) ==
  IF cmd.type = "flushdb" THEN {cmd.db} \X Names ELSE {<<cmd.db, cmd.name>>}

Record(d, n) == [kind |-> "record", db |-> d, name |-> n]
Shared(d) == [kind |-> "shared", db |-> d, name |-> NoName]
Exclusive(d) == [kind |-> "exclusive", db |-> d, name |-> NoName]
RmLock == Exclusive("rm")       \* PikaReplicaManager::dbs_rw_

Lock == [kind: {"record", "shared", "exclusive"}, db: DBs \cup {"rm"}, name: Names \cup {NoName}]

TypeOK ==
  /\ db \in [Keys -> Val] /\ logdb \in [Keys -> Val]
  /\ cur \in [Conns -> DBs]
  /\ watched \in [Conns -> SUBSET Keys]
  /\ {start, initFailed, watchFailed} \subseteq [Conns -> BOOLEAN]
  /\ que \in [Conns -> Seq(Command)] /\ todo \in [Conns -> Seq(Command)]
  /\ pc \in [Conns -> {"idle", "mark", "lock", "do", "binlog", "exit"}]
  /\ involved \in [Conns -> SUBSET Conns]
  /\ plan \in [Conns -> Seq(Lock)] /\ held \in [Conns -> SUBSET Lock]
  /\ sent \in [Conns -> 0..MaxCommands]
  /\ seen \in [Conns -> SUBSET (Conns \X Keys)]
  /\ changed \in [Conns -> SUBSET (Keys \X {"command", "overlap", "exec"})]
  /\ late \subseteq Conns
  /\ diverged \subseteq {"overtaken", "mislocked", "execflush"}

Init ==
  /\ db = [k \in Keys |-> 0] /\ logdb = [k \in Keys |-> 0]
  /\ cur = [c \in Conns |-> DefaultDB]
  /\ watched = [c \in Conns |-> {}]
  /\ start = [c \in Conns |-> FALSE]
  /\ initFailed = [c \in Conns |-> FALSE] /\ watchFailed = [c \in Conns |-> FALSE]
  /\ que = [c \in Conns |-> <<>>] /\ todo = [c \in Conns |-> <<>>]
  /\ pc = [c \in Conns |-> "idle"]
  /\ involved = [c \in Conns |-> {}]
  /\ plan = [c \in Conns |-> <<>>] /\ held = [c \in Conns |-> {}]
  /\ sent = [c \in Conns |-> 0]
  /\ seen = [c \in Conns |-> {}] /\ changed = [c \in Conns |-> {}]
  /\ late = {} /\ diverged = {}

-----------------------------------------------------------------------------

store == <<db, logdb, diverged>>
txnState == <<watched, start, initFailed, watchFailed, que, changed, late>>
locking == <<todo, involved, plan, held>>
running == <<locking, seen>>

(* A connection sends its commands one after the other. *)
Send(c) ==
  /\ pc[c] = "idle"
  /\ sent[c] < MaxCommands
  /\ sent' = [sent EXCEPT ![c] = @ + 1]

(* Mutant of WatchDo: the spelt name is kept instead of the key. *)
WatchDoSpelt(c, k) ==
  /\ Send(c)
  /\ ~start[c] /\ k[1] = cur[c]
  /\ watched' = [watched EXCEPT ![c] = @ \cup {<<k[1], "_", k[2]>>}]
  /\ UNCHANGED <<store, cur, start, initFailed, watchFailed, que, changed, late, pc, running>>

(* WatchCmd::Do takes no lock; inside a transaction it is an error. *)
WatchDo(c, k) ==
  /\ Send(c)
  /\ ~start[c] /\ k[1] = cur[c]
  /\ watched' = [watched EXCEPT ![c] = @ \cup {k}]
  /\ UNCHANGED <<store, cur, start, initFailed, watchFailed, que, changed, late, pc, running>>

(* PikaClientConn::RemoveWatchedKeys.  A command under way that had found c   *)
(* does not concern what c watches from now on.                              *)
RemoveWatchedKeys(c) ==
  /\ watched' = [watched EXCEPT ![c] = {}]
  /\ changed' = [changed EXCEPT ![c] = {}]
  /\ seen' = [d \in Conns |-> {p \in seen[d] : p[1] # c}]

(* UnwatchCmd::Do outside a transaction; inside it is queued. *)
UnwatchDo(c) ==
  /\ Send(c)
  /\ ~start[c]
  /\ RemoveWatchedKeys(c)
  /\ watchFailed' = [watchFailed EXCEPT ![c] = FALSE]
  /\ late' = late \ {c}
  /\ UNCHANGED <<store, cur, start, initFailed, que, pc, locking>>

(* MultiCmd::Do; a nested MULTI is an error. *)
MultiDo(c) ==
  /\ Send(c)
  /\ ~start[c]
  /\ start' = [start EXCEPT ![c] = TRUE]
  /\ UNCHANGED <<store, cur, watched, initFailed, watchFailed, que, changed, late, pc, running>>

(* PikaClientConn::DoCmd inside a transaction: the command is bound to the   *)
(* current database and queued.                                              *)
PushCmdToQue(c) ==
  /\ Send(c)
  /\ start[c]
  /\ Len(que[c]) < MaxQueue
  /\ \E cmd \in Writes(cur[c]) \cup {Select(d) : d \in DBs \ {cur[c]}} :
       que' = [que EXCEPT ![c] = Append(@, cmd)]
  /\ UNCHANGED <<store, cur, watched, start, initFailed, watchFailed, changed, late, pc, running>>

(* PikaClientConn::DoCmd inside a transaction: an unknown command, wrong     *)
(* arguments or a write to a read-only server.                               *)
InitCmdFails(c) ==
  /\ Send(c)
  /\ start[c]
  /\ initFailed' = [initFailed EXCEPT ![c] = TRUE]
  /\ UNCHANGED <<store, cur, watched, start, watchFailed, que, changed, late, pc, running>>

(* Mutant of ResetTxn: only the start flag and the queue are reset. *)
ResetTxnFlagsKept(c) ==
  /\ start' = [start EXCEPT ![c] = FALSE]
  /\ que' = [que EXCEPT ![c] = <<>>]
  /\ UNCHANGED <<initFailed, watchFailed, late>>

ResetTxn(c) ==
  /\ start' = [start EXCEPT ![c] = FALSE]
  /\ initFailed' = [initFailed EXCEPT ![c] = FALSE]
  /\ watchFailed' = [watchFailed EXCEPT ![c] = FALSE]
  /\ que' = [que EXCEPT ![c] = <<>>]
  /\ late' = late \ {c}

(* PikaClientConn::ExitTxn. *)
ExitTxn(c) == RemoveWatchedKeys(c) /\ ResetTxn(c)

DiscardDo(c) ==
  /\ Send(c)
  /\ start[c]
  /\ ExitTxn(c)
  /\ UNCHANGED <<store, cur, pc, locking>>

(* WorkerThread::CloseFd; the next connection starts afresh. *)
CloseFd(c) ==
  /\ Send(c)
  /\ ExitTxn(c)
  /\ involved' = [d \in Conns |-> involved[d] \ {c}]
  /\ cur' = [cur EXCEPT ![c] = DefaultDB]
  /\ UNCHANGED <<store, pc, todo, plan, held>>

(* SelectCmd::Do outside a transaction. *)
SelectDo(c) ==
  /\ Send(c)
  /\ ~start[c]
  /\ \E d \in DBs \ {cur[c]} : cur' = [cur EXCEPT ![c] = d]
  /\ UNCHANGED <<store, txnState, pc, running>>

-----------------------------------------------------------------------------

(* WatchCmd::DoInitial, and DoCmd for a plain command: db_name + "_" + key.  *)
WatchKey(k) == <<k[1], "_", k[2]>>

(* ExecCmd::Do: db_name + key. *)
ExecKey(k) == <<k[1], k[2]>>

(* Mutant of Watchers: a key is looked up as EXEC spells it. *)
WatchersUnseparated(cmd) ==
  {t \in Conns : \E k \in watched[t] : WatchKey(k) \in {ExecKey(x) : x \in Affected(cmd)}}

(* GetInvolvedTxn: connections that watch a key of the command.  For FLUSHDB *)
(* SetTxnFailedIfKeyExists("all"): those that watch a key that exists, in    *)
(* whatever database.                                                        *)
Watchers(cmd) ==
  {t \in Conns : \E k \in watched[t] :
     IF cmd.type = "flushdb" THEN db[k] # 0
     ELSE WatchKey(k) \in {WatchKey(x) : x \in Affected(cmd)}}

(* The watched keys a command is going to change, as they are now. *)
Endangered(cmd) ==
  {p \in Conns \X Keys : /\ p[2] \in watched[p[1]] \cap Affected(cmd)
                         /\ cmd.type = "flushdb" => db[p[2]] # 0}

(* Mutant of CommandLocks: the replica manager is asked for the database of  *)
(* the binlog under the lock of the database, as MSET does (see WritePath).  *)
CommandLocksLookup(cmd) ==
  IF cmd.type = "flushdb"
  THEN <<Record(cmd.db, NoName), RmLock, Exclusive(cmd.db)>>
  ELSE <<Record(cmd.db, cmd.name), Shared(cmd.db), Shared("rm")>>

(* A plain write locks its record and then the database; FLUSHDB locks the   *)
(* record "" and, inside FlushdbCmd::Do, the replica manager and then the    *)
(* database.                                                                 *)
CommandLocks(cmd) ==
  IF cmd.type = "flushdb"
  THEN <<Record(cmd.db, NoName), RmLock, Exclusive(cmd.db)>>
  ELSE <<Record(cmd.db, cmd.name), Shared(cmd.db)>>

(* PikaClientConn::DoCmd, a plain write: it looks for watchers first. *)
DoCmd(c) ==
  /\ Send(c)
  /\ ~start[c]
  /\ \E cmd \in Writes(cur[c]) :
       /\ todo' = [todo EXCEPT ![c] = <<cmd>>]
       /\ seen' = [seen EXCEPT ![c] = Endangered(cmd)]
       /\ involved' = [involved EXCEPT ![c] = Watchers(cmd)]
       /\ plan' = [plan EXCEPT ![c] = CommandLocks(cmd)]
  /\ pc' = [pc EXCEPT ![c] = "mark"]
  /\ UNCHANGED <<store, cur, txnState, held>>

(* SetTxnWatchFailState on the connections that were found, one by one. *)
SetTxnWatchFailState(c) ==
  /\ pc[c] = "mark"
  /\ \/ /\ \E t \in involved[c] :
             /\ watchFailed' = [watchFailed EXCEPT ![t] = TRUE]
             /\ late' = IF watched[t] = {} THEN late \cup {t} ELSE late
             /\ involved' = [involved EXCEPT ![c] = @ \ {t}]
        /\ UNCHANGED pc
     \/ /\ involved[c] = {}
        /\ pc' = [pc EXCEPT ![c] = "lock"]
        /\ UNCHANGED <<watchFailed, late, involved>>
  /\ UNCHANGED <<store, cur, watched, start, initFailed, que, changed, todo, plan, held, sent, seen>>

(* SetCmdsVec: the database that is current at entry i, after the SELECTs    *)
(* before it.  The command itself stays bound to the database of its field.  *)
CurrentAt(q, d, i) ==
  LET selects == {j \in 1..(i - 1) : q[j].type = "select"}
  IN IF selects = {} THEN d ELSE q[CHOOSE j \in selects : \A h \in selects : h <= j].db

CmdInfos(q, d) == [i \in DOMAIN q |-> [q[i] EXCEPT !.at = CurrentAt(q, d, i)]]

(* std::sort. *)
Sorted(names) == CHOOSE s \in SetToSeqs(names) : \A i, j \in DOMAIN s : i < j => s[i] < s[j]

(* Mutant of RecordsOf: reads and writes of an EXEC lock no record. *)
RecordsOfNone(infos, d) == <<>>

(* MultiRecordLock::Lock on the keys of one database, sorted. *)
RecordsOf(infos, d) ==
  LET names == {infos[i].name : i \in {j \in DOMAIN infos : infos[j].type = "write" /\ infos[j].at = d}}
      sorted == Sorted(names)
  IN [i \in DOMAIN sorted |-> Record(d, sorted[i])]

DBsOf(infos, type) == {infos[i].at : i \in {j \in DOMAIN infos : infos[j].type = type}}

(* ExecCmd::Lock: the databases to be flushed, the replica manager, and then *)
(* for every other database its records and its shared lock.  The databases  *)
(* are in unordered sets.                                                    *)
ExecLocks(infos, flushes, others) ==
  [i \in DOMAIN flushes |-> Exclusive(flushes[i])]
    \o (IF flushes = <<>> THEN <<>> ELSE <<RmLock>>)
    \o FlattenSeq([i \in DOMAIN others |-> Append(RecordsOf(infos, others[i]), Shared(others[i]))])

(* ExecCmd::Execute up to Lock. *)
Exec(c) ==
  /\ Send(c)
  /\ start[c]
  /\ \/ /\ initFailed[c] \/ watchFailed[c]
        /\ ExitTxn(c)
        /\ UNCHANGED <<cur, pc, todo, plan>>
     \/ /\ ~initFailed[c] /\ ~watchFailed[c]
        /\ LET infos == CmdInfos(que[c], cur[c]) IN
             /\ todo' = [todo EXCEPT ![c] = infos]
             /\ cur' = [cur EXCEPT ![c] = CurrentAt(que[c], cur[c], Len(infos) + 1)]
             /\ \E flushes \in SetToSeqs(DBsOf(infos, "flushdb")),
                   others \in SetToSeqs(DBsOf(infos, "write")) :
                  plan' = [plan EXCEPT ![c] = ExecLocks(infos, flushes, others)]
        /\ pc' = [pc EXCEPT ![c] = "lock"]
        /\ UNCHANGED <<txnState, seen>>
  /\ UNCHANGED <<store, involved, held>>

Conflict(l, m) ==
  /\ l.db = m.db
  /\ \/ l.kind = "record" /\ m = l
     \/ l.kind = "exclusive" /\ m.kind # "record"
     \/ l.kind = "shared" /\ m.kind = "exclusive"

HoldersAgainst(l) == {d \in Conns : \E m \in held[d] : Conflict(l, m)}

(* One lock.  A connection that holds the exclusive lock of a database waits *)
(* for itself when it asks for the shared one.                               *)
TakeLock(c) ==
  /\ pc[c] = "lock" /\ plan[c] # <<>>
  /\ HoldersAgainst(Head(plan[c])) = {}
  /\ held' = [held EXCEPT ![c] = @ \cup {Head(plan[c])}]
  /\ plan' = [plan EXCEPT ![c] = Tail(@)]
  /\ UNCHANGED <<store, cur, txnState, pc, todo, involved, sent, seen>>

(* An EXEC has locked another database than the one a command works on. *)
Mislocked(c) == start[c] /\ \E i \in DOMAIN todo[c] : todo[c][i].type # "select" /\ todo[c][i].at # todo[c][i].db

(* The locks are taken.  An EXEC without commands has nothing to do. *)
Locked(c) ==
  /\ pc[c] = "lock" /\ plan[c] = <<>>
  /\ pc' = [pc EXCEPT ![c] = IF todo[c] = <<>> THEN "exit" ELSE "do"]
  /\ diverged' = IF Mislocked(c) THEN diverged \cup {"mislocked"} ELSE diverged
  /\ UNCHANGED <<db, logdb, cur, txnState, running, sent>>

(* How a change of key k by c counts for a connection t that watches it. *)
HowChanged(c, t, k) ==
  IF pc[t] # "idle" THEN "overlap"
  ELSE IF start[c] THEN "exec"
  ELSE IF <<t, k>> \in seen[c] THEN "command"
  ELSE "overlap"

(* The transaction of t is being executed: later changes do not concern it. *)
Executing(t) == start[t] /\ pc[t] \in {"do", "binlog", "exit"}

ChangedBy(c, cmd) ==
  [t \in Conns |->
     IF (t = c /\ start[c]) \/ Executing(t) THEN changed[t]
     ELSE changed[t] \cup {<<k, HowChanged(c, t, k)>> :
            k \in {x \in Affected(cmd) \cap watched[t] : cmd.type = "flushdb" => db[x] # 0}}]

(* Mutant of DoneLocks: a plain write gives its record back when the         *)
(* database has changed.                                                     *)
DoneLocksEarly(c, cmd) == {}

(* FlushdbCmd::Do releases its exclusive locks when it returns. *)
DoneLocks(c, cmd) ==
  IF cmd.type = "flushdb" /\ ~start[c] THEN {l \in held[c] : l.kind = "record"} ELSE held[c]

(* Cmd::Do of a plain command, or of the next command of an EXEC.  A FLUSHDB *)
(* in an EXEC looks for watched keys that exist when they are gone, and is   *)
(* not logged.                                                               *)
Do(c) ==
  LET cmd == Head(todo[c])
      next == Tail(todo[c])
  IN
  /\ pc[c] = "do"
  /\ IF cmd.type = "select"
     THEN UNCHANGED <<db, changed, watchFailed, held, diverged>>
     ELSE /\ db' = [k \in Keys |-> IF k \in Affected(cmd) THEN cmd.val ELSE db[k]]
          /\ changed' = ChangedBy(c, cmd)
          /\ watchFailed' = [t \in Conns |->
               \/ watchFailed[t]
               \/ /\ start[c] /\ cmd.type = "flushdb"
                  /\ \E k \in watched[t] : k[1] = cmd.at /\ db'[k] # 0]
          /\ held' = [held EXCEPT ![c] = DoneLocks(c, cmd)]
          /\ diverged' = diverged \cup (IF cmd.type = "flushdb" /\ start[c] THEN {"execflush"} ELSE {})
  /\ IF cmd.type = "write" \/ ~start[c]
     THEN pc' = [pc EXCEPT ![c] = "binlog"] /\ UNCHANGED todo
     ELSE /\ pc' = [pc EXCEPT ![c] = IF next = <<>> THEN "exit" ELSE "do"]
          /\ todo' = [todo EXCEPT ![c] = next]
  /\ UNCHANGED <<logdb, cur, watched, start, initFailed, que, late, involved, plan, sent, seen>>

(* A FLUSHDB has emptied the database of d and its record is not written. *)
FlushUnlogged(c, d) ==
  \E e \in Conns \ {c} : pc[e] = "binlog" /\ Head(todo[e]).type = "flushdb" /\ Head(todo[e]).db = d

(* DoBinlog.  An EXEC then reports its keys, spelt without the separator; a  *)
(* plain command releases its locks.                                         *)
DoBinlog(c) ==
  LET cmd == Head(todo[c])
      next == Tail(todo[c])
  IN
  /\ pc[c] = "binlog"
  /\ logdb' = [k \in Keys |-> IF k \in Affected(cmd) THEN cmd.val ELSE logdb[k]]
  /\ diverged' = diverged \cup (IF FlushUnlogged(c, cmd.db) THEN {"overtaken"} ELSE {})
  /\ todo' = [todo EXCEPT ![c] = next]
  /\ IF start[c]
     THEN /\ watchFailed' = [t \in Conns |->
               \/ watchFailed[t]
               \/ \E k \in watched[t] : WatchKey(k) \in {ExecKey(x) : x \in Affected(cmd)}]
          /\ pc' = [pc EXCEPT ![c] = IF next = <<>> THEN "exit" ELSE "do"]
          /\ UNCHANGED <<held, seen>>
     ELSE /\ pc' = [pc EXCEPT ![c] = "idle"]
          /\ held' = [held EXCEPT ![c] = {}]
          /\ seen' = [seen EXCEPT ![c] = {}]
          /\ UNCHANGED watchFailed
  /\ UNCHANGED <<db, cur, watched, start, initFailed, que, changed, late, involved, plan, sent>>

(* ExecCmd::Unlock and ExitTxn. *)
ExecDone(c) ==
  /\ pc[c] = "exit"
  /\ held' = [held EXCEPT ![c] = {}]
  /\ pc' = [pc EXCEPT ![c] = "idle"]
  /\ ExitTxn(c)
  /\ UNCHANGED <<store, cur, todo, involved, plan, sent>>

Connection(c) ==
  \/ \E k \in Keys : WatchDo(c, k)
  \/ UnwatchDo(c) \/ MultiDo(c) \/ PushCmdToQue(c) \/ InitCmdFails(c) \/ DiscardDo(c)
  \/ CloseFd(c) \/ SelectDo(c) \/ DoCmd(c) \/ SetTxnWatchFailState(c) \/ Exec(c)
  \/ TakeLock(c) \/ Locked(c) \/ Do(c) \/ DoBinlog(c) \/ ExecDone(c)

Next == \E c \in Conns : Connection(c)

Spec == Init /\ [][Next]_vars

-----------------------------------------------------------------------------

(* PikaClientConn::DoCmd, SetTxnFailedFromKeys, ExecCmd::Execute: an EXEC     *)
(* does not run when a watched key was changed by a plain command that was    *)
(* sent after the WATCH and had changed it before the EXEC was sent, whatever *)
(* else happened in between.                                                  *)
WatchHonoured ==
  \A t \in Conns : Executing(t) => \A k \in Keys : <<k, "command">> \notin changed[t]

(* tests/unit/multi.tcl:107, "EXEC fail on WATCHed key modified": an EXEC     *)
(* does not run when a watched key had changed before the EXEC was sent,      *)
(* whoever changed it.                                                        *)
WatchedUnchanged ==
  \A t \in Conns : Executing(t) => changed[t] \cap (Keys \X {"command", "exec"}) = {}

(* ExitTxn, UnwatchCmd::Do, "After failed EXEC key is no longer watched"      *)
(* (tests/unit/multi.tcl:211): a connection that is in no transaction and     *)
(* watches nothing carries nothing over into its next transaction, except     *)
(* the mark of a command that had found it before it stopped watching.        *)
FreshTransaction ==
  \A t \in Conns :
    ~start[t] /\ watched[t] = {} =>
      que[t] = <<>> /\ ~initFailed[t] /\ (watchFailed[t] => t \in late)

TxnKeys(t) == UNION {Affected(que[t][i]) : i \in {j \in DOMAIN que[t] : que[t][j].type # "select"}}

(* ExecCmd::Lock, MultiRecordLock: the keys a transaction changes are changed *)
(* by nobody else from its first command to its last, unless an EXEC works on *)
(* a database other than the one it locked.                                   *)
ExecIsolated ==
  [][\A t \in Conns : Executing(t) /\ "mislocked" \notin diverged /\ pc'[t] = pc[t] /\ todo'[t] = todo[t] =>
       \A k \in TxnKeys(t) : db'[k] = db[k]]_vars

(* Cmd::InternalProcessCommand and ExecCmd::Do: the record of a change is     *)
(* written under the lock the change was made under, so the binlog gives the  *)
(* database, until a FLUSHDB of an EXEC left no record, a record overtook     *)
(* that of a FLUSHDB, or an EXEC ran on a database it had not locked.         *)
TxnLogMatchesDatabase ==
  diverged = {} =>
    \A k \in Keys :
      \/ db[k] = logdb[k]
      \/ \E c \in Conns : pc[c] = "binlog" /\ k \in Affected(Head(todo[c]))

WaitsFor(c) == IF pc[c] = "lock" /\ plan[c] # <<>> THEN HoldersAgainst(Head(plan[c])) ELSE {}

Deadlocked == \E S \in (SUBSET Conns) \ {{}} : \A c \in S : WaitsFor(c) \cap S # {}

(* A transaction under way that flushes a database or uses two of them. *)
Unordered(c) ==
  start[c] /\ \E i \in DOMAIN todo[c] : todo[c][i].type # "write"

(* Cmd::InternalProcessCommand and ExecCmd::Lock: records before the database *)
(* and sorted, the replica manager before the database to be flushed: no set  *)
(* of commands waits for itself, except through an EXEC that flushes (it      *)
(* locks the database before the replica manager and before records) or that  *)
(* selects (it locks the databases in no fixed order).                        *)
NoDeadlock == (\A c \in Conns : ~Unordered(c)) => ~Deadlocked

=============================================================================
