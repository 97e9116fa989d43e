---------------------------- MODULE BlockingLists ----------------------------
(***************************************************************************)
(* BLPOP and BRPOP beside the commands that push.  A BLPOP that finds its  *)
(* lists empty leaves a node in the waiting list of each of its keys; a    *)
(* push that finds a waiting list schedules a task, which pops for the     *)
(* connections in it; a timer answers the commands that have expired; and  *)
(* connections are closed meanwhile and their descriptors used again.      *)
(*                                                                         *)
(* An element is the number of its push.  logged is what executing the     *)
(* binlog written so far gives.                                            *)
(***************************************************************************)
EXTENDS Naturals, Sequences, FiniteSets, SequencesExt

CONSTANTS
  Poppers,      \* client connections that send blocking commands
  Pushers,      \* client connections that push
  Closing,      \* bound: connections that are closed
  FdOf,         \* file descriptor of a connection
  KeyOrder,     \* the keys, as std::sort orders them
  KeyArgs,      \* keys that a blocking command names, and that RPOPLPUSH names
  Timeouts,     \* whether a blocking command has a timeout
  Sides,        \* ends of a list the commands work on
  MaxCommands,  \* bound: commands sent and administrative passes
  MaxPush,      \* bound: elements pushed
  MaxErrors     \* bound: failures of the storage engine

Conns == Poppers \cup Pushers
Keys == ToSet(KeyOrder)
Fds == {FdOf[c] : c \in Conns}
Admins == {"cron", "acl"}     \* WorkerThread::DoCronTask, ACL DELUSER
Actors == Conns \cup Keys \cup Admins   \* a key stands for the task that serves it
Locks == Keys \cup {"block", "rw"}      \* record locks, block_mtx_, rwlock_ of the worker

ASSUME BlockingAssumption ==
  /\ Poppers \cap Pushers = {} /\ DOMAIN FdOf = Conns /\ Closing \subseteq Conns
  /\ Keys # {} /\ KeyOrder \in Seq(Keys) /\ \A i, j \in DOMAIN KeyOrder : KeyOrder[i] = KeyOrder[j] => i = j
  /\ KeyArgs \subseteq Seq(Keys) \ {<<>>}
  /\ Conns \cap Keys = {} /\ Admins \cap (Conns \cup Keys) = {} /\ {"block", "rw"} \cap Keys = {}
  /\ Sides \subseteq {"left", "right"} /\ Timeouts \subseteq BOOLEAN
  /\ {MaxCommands, MaxPush, MaxErrors} \subseteq Nat

VARIABLES
  list,         \* elements of every list
  logged,       \* what executing the binlog gives
  waiting,      \* key_to_blocked_conns_; <<>>: no entry
  keysOf,       \* blocked_conn_to_keys_, by descriptor; <<>>: no entry
  pending,      \* ServeAndUnblockConns tasks in the pool
  life,         \* how far a connection has come
  killed,       \* connections closed by DoCronTask, not by the event loop
  cmd,          \* command of the connection in the pool
  pc, plan, held,   \* where an actor stands, locks to be taken, locks taken
  ops,          \* changes whose binlog records are still to be written
  sent, pushed, errors,
  owed,         \* history: blocked commands that are not answered
  serial,       \* history: number of commands that have blocked
  pipelined,    \* history: connections that blocked twice
  late,         \* history: connections that blocked after they were checked
  dangling      \* a loop over a waiting list holds an erased node

vars == <<list, logged, waiting, keysOf, pending, life, killed, cmd, pc, plan, held, ops,
          sent, pushed, errors, owed, serial, pipelined, late, dangling>>

-----------------------------------------------------------------------------

Elems == Nat \ {0}

Pops == [op: {"pop"}, keys: KeyArgs, side: Sides, timed: Timeouts]
Pushes == [op: {"push", "exec"}, keys: {<<k>> : k \in Keys}, side: Sides, timed: {FALSE}]
Moves == [op: {"move"}, keys: KeyArgs \cap (Keys \X Keys), side: {"left"}, timed: {FALSE}]
Command == Pops \cup Pushes \cup Moves
NoCommand == [op |-> "none", keys |-> <<>>, side |-> "left", timed |-> FALSE]

Node == [id: Nat, conn: Conns, keys: SUBSET Keys, side: Sides, timed: BOOLEAN]
Op == [key: Keys, kind: {"push"}, side: {"left", "right"}, elem: Elems]
        \cup [key: Keys, kind: {"pop"}, side: {"left", "right"}, elem: {0}]

TypeOK ==
  /\ list \in [Keys -> Seq(Elems)] /\ logged \in [Keys -> Seq(Elems)]
  /\ waiting \in [Keys -> Seq(Node)] /\ keysOf \in [Fds -> Seq(Keys)]
  /\ pending \in [Keys -> Nat]
  /\ life \in [Conns -> {"none", "open", "check", "clean", "waiting", "ready", "closed"}]
  /\ killed \subseteq Conns
  /\ cmd \in [Conns -> Command \cup {NoCommand}]
  /\ pc \in [Actors -> {"idle", "lock", "do", "log", "serve"}]
  /\ plan \in [Actors -> Seq(Locks)] /\ held \in [Actors -> SUBSET Locks]
  /\ ops \in [Actors -> Seq(Op)]
  /\ sent \in 0..MaxCommands /\ pushed \in Nat /\ errors \in 0..MaxErrors
  /\ owed \subseteq Node /\ serial \in Nat
  /\ pipelined \subseteq Conns /\ late \subseteq Conns
  /\ dangling \in BOOLEAN

Init ==
  /\ list = [k \in Keys |-> <<>>] /\ logged = [k \in Keys |-> <<>>]
  /\ waiting = [k \in Keys |-> <<>>] /\ keysOf = [f \in Fds |-> <<>>]
  /\ pending = [k \in Keys |-> 0]
  /\ life = [c \in Conns |-> "none"] /\ killed = {}
  /\ cmd = [c \in Conns |-> NoCommand]
  /\ pc = [a \in Actors |-> "idle"]
  /\ plan = [a \in Actors |-> <<>>] /\ held = [a \in Actors |-> {}]
  /\ ops = [a \in Actors |-> <<>>]
  /\ sent = 0 /\ pushed = 0 /\ errors = 0
  /\ owed = {} /\ serial = 0
  /\ pipelined = {} /\ late = {} /\ dangling = FALSE

lists == <<list, logged, pushed, errors>>
maps == <<waiting, keysOf, owed, serial, pipelined, late, dangling>>
conn == <<life, killed>>
run == <<pc, plan, held, cmd>>

-----------------------------------------------------------------------------
(* Locks. *)

Free(l) == \A a \in Actors : l \notin held[a]

(* The mutex of the two maps, where it is taken and released in one step. *)
BlockMtx == Free("block")

(* Some numbers in ascending order. *)
Ascending(P) == [i \in 1..Cardinality(P) |-> CHOOSE p \in P : Cardinality({q \in P : q < p}) = i - 1]

(* MultiRecordLock::Lock sorts the keys and skips repetitions. *)
RecordLocks(ks) ==
  LET at == Ascending({p \in DOMAIN KeyOrder : Contains(ks, KeyOrder[p])})
  IN [i \in DOMAIN at |-> KeyOrder[at[i]]]

TakeLock(a) ==
  /\ pc[a] = "lock"
  /\ Free(Head(plan[a]))
  /\ held' = [held EXCEPT ![a] = @ \cup {Head(plan[a])}]
  /\ plan' = [plan EXCEPT ![a] = Tail(@)]
  /\ pc' = [pc EXCEPT ![a] = IF Len(plan[a]) = 1 THEN "do" ELSE "lock"]
  /\ UNCHANGED <<lists, maps, conn, pending, cmd, ops, sent>>

Start(a, locks) ==
  /\ pc[a] = "idle"
  /\ plan' = [plan EXCEPT ![a] = locks]
  /\ pc' = [pc EXCEPT ![a] = "lock"]
  /\ UNCHANGED held

Finish(a, locks, next) ==
  /\ held' = [held EXCEPT ![a] = @ \ locks]
  /\ pc' = [pc EXCEPT ![a] = next]
  /\ cmd' = IF a \in Conns /\ next = "idle" THEN [cmd EXCEPT ![a] = NoCommand] ELSE cmd
  /\ UNCHANGED plan

-----------------------------------------------------------------------------
(* The two maps. *)

NodesOf(w, k, c) == {i \in DOMAIN w[k] : w[k][i].conn = c}

EraseFirst(s, f) == RemoveFirstMatch(s, LAMBDA n : FdOf[n.conn] = f)

(* CleanWaitNodeOfUnBlockedBlrConn: of every key of the descriptor's entry   *)
(* the first node with this descriptor is erased.                            *)
CleanWaitNode(w, f) ==
  [k \in Keys |-> IF Contains(keysOf[f], k) THEN EraseFirst(w[k], f) ELSE w[k]]

(* Mutant of Unblock: the entry of the descriptor is kept. *)
UnblockKept(k, i) ==
  LET n == waiting[k][i]
      rest == [waiting EXCEPT ![k] = RemoveAt(@, i)]
  IN /\ waiting' = CleanWaitNode(rest, FdOf[n.conn])
     /\ owed' = owed \ {n}
     /\ UNCHANGED <<keysOf, dangling, serial, pipelined, late>>

(* A node is answered and erased, and with it all that is known of its       *)
(* connection; the loop goes on with the node behind it.                     *)
Unblock(k, i) ==
  LET n == waiting[k][i]
      f == FdOf[n.conn]
      rest == [waiting EXCEPT ![k] = RemoveAt(@, i)]
  IN /\ waiting' = CleanWaitNode(rest, f)
     /\ keysOf' = [keysOf EXCEPT ![f] = <<>>]
     /\ owed' = owed \ {n}
     /\ dangling' = /\ Contains(keysOf[f], k)
                    /\ i \in DOMAIN rest[k]
                    /\ SelectInSeq(rest[k], LAMBDA m : FdOf[m.conn] = f) = i
     /\ UNCHANGED <<serial, pipelined, late>>

(* Mutant of removeDuplicates: the keys are kept as they were sent. *)
removeDuplicatesNot(ks) == ks

removeDuplicates(ks) ==
  LET first == {i \in DOMAIN ks : \A j \in 1..(i - 1) : ks[j] # ks[i]}
      at == Ascending(first)
  IN [i \in DOMAIN at |-> ks[at[i]]]

(* Mutant of Queue: a new node is put before the others. *)
QueueFront(k, ks, n) == [j \in 1..Cardinality({i \in DOMAIN ks : ks[i] = k}) |-> n] \o waiting[k]

(* emplace_back of the node, once for every time the key is named. *)
Queue(k, ks, n) == waiting[k] \o [j \in 1..Cardinality({i \in DOMAIN ks : ks[i] = k}) |-> n]

(* BlockThisClientToWaitLRPush; emplace does not replace an entry. *)
BlockThisClient(c) ==
  LET ks == removeDuplicates(cmd[c].keys)
      f == FdOf[c]
      n == [id |-> serial + 1, conn |-> c, keys |-> ToSet(ks), side |-> cmd[c].side, timed |-> cmd[c].timed]
  IN /\ BlockMtx
     /\ waiting' = [k \in Keys |-> Queue(k, ks, n)]
     /\ keysOf' = [keysOf EXCEPT ![f] = IF @ = <<>> THEN ks ELSE @]
     /\ serial' = serial + 1
     /\ owed' = IF life[c] \in {"open", "check", "clean"} THEN owed \cup {n} ELSE owed
     /\ pipelined' = IF \E k \in Keys : NodesOf(waiting, k, c) # {} THEN pipelined \cup {c} ELSE pipelined
     /\ late' = IF life[c] \in {"waiting", "ready", "closed"} THEN late \cup {c} ELSE late
     /\ UNCHANGED dangling

(* TryToServeBLrPopWithThisKey. *)
TryToServe(k) ==
  /\ BlockMtx
  /\ pending' = IF waiting[k] # <<>> THEN [pending EXCEPT ![k] = @ + 1] ELSE pending

-----------------------------------------------------------------------------
(* Lists. *)

Put(s, side, e) == IF side = "left" THEN <<e>> \o s ELSE Append(s, e)
Rest(s, side) == IF side = "left" THEN Tail(s) ELSE Front(s)

Effect(s, op) ==
  IF op.kind = "push" THEN Put(s, op.side, op.elem)
  ELSE IF s = <<>> THEN s
  ELSE Rest(s, op.side)

Apply(l, op) == [l EXCEPT ![op.key] = Effect(@, op)]

PushOp(k, side, e) == [key |-> k, kind |-> "push", side |-> side, elem |-> e]
PopOp(k, side) == [key |-> k, kind |-> "pop", side |-> side, elem |-> 0]

-----------------------------------------------------------------------------
(* Commands. *)

(* A new connection gets a descriptor that is closed. *)
Accepted(c) ==
  \/ life[c] = "open"
  \/ /\ life[c] = "none"
     /\ \A d \in Conns \ {c} : FdOf[d] = FdOf[c] => life[d] \in {"none", "closed"}

(* A request is read and given to the pool; a connection that is blocked     *)
(* stays readable.  The records are locked in the order of their names.  A   *)
(* second blocking command for a key the connection waits for is left out.   *)
Send(c) ==
  /\ Accepted(c)
  /\ life' = [life EXCEPT ![c] = "open"]
  /\ sent < MaxCommands
  /\ \E m \in (IF c \in Poppers THEN Pops ELSE Pushes \cup Moves) :
       /\ m \in Pops => \A k \in ToSet(m.keys) : NodesOf(waiting, k, c) = {}
       /\ m \in Pushes => pushed + Cardinality({d \in Pushers : cmd[d] \in Pushes}) < MaxPush
       /\ cmd' = [cmd EXCEPT ![c] = m]
       /\ Start(c, RecordLocks(m.keys))
  /\ sent' = sent + 1
  /\ UNCHANGED <<lists, maps, killed, pending, ops>>

PopKey(c) ==
  LET ks == cmd[c].keys IN ks[SelectInSeq(ks, LAMBDA k : list[k] # <<>>)]

(* BLPopCmd::Do and BRPopCmd::Do. *)
PopDo(c) ==
  /\ cmd[c].op = "pop"
  /\ IF \E k \in ToSet(cmd[c].keys) : list[k] # <<>>
     THEN /\ list' = [list EXCEPT ![PopKey(c)] = Rest(@, cmd[c].side)]
          /\ ops' = [ops EXCEPT ![c] = <<PopOp(PopKey(c), cmd[c].side)>>]
          /\ Finish(c, {}, "log")
          /\ UNCHANGED maps
     ELSE /\ BlockThisClient(c)
          /\ Finish(c, Keys, "idle")
          /\ UNCHANGED <<list, ops>>
  /\ UNCHANGED <<pending, pushed>>

(* LPushCmd::Do and RPushCmd::Do; in an EXEC they do not look for waiting    *)
(* connections.                                                              *)
PushDo(c) ==
  LET k == cmd[c].keys[1] IN
  /\ cmd[c].op \in {"push", "exec"}
  /\ pushed' = pushed + 1
  /\ list' = [list EXCEPT ![k] = Put(@, cmd[c].side, pushed + 1)]
  /\ ops' = [ops EXCEPT ![c] = <<PushOp(k, cmd[c].side, pushed + 1)>>]
  /\ IF cmd[c].op = "push" THEN TryToServe(k) ELSE UNCHANGED pending
  /\ Finish(c, {}, "log")
  /\ UNCHANGED maps

(* RPopLPushCmd::Do. *)
MoveDo(c) ==
  LET from == cmd[c].keys[1]
      to == cmd[c].keys[2]
      e == Last(list[from])
      moved == <<PopOp(from, "right"), PushOp(to, "left", e)>>
  IN
  /\ cmd[c].op = "move"
  /\ IF list[from] = <<>>
     THEN Finish(c, Keys, "idle") /\ UNCHANGED <<list, ops, pending>>
     ELSE /\ list' = Apply(Apply(list, moved[1]), moved[2])
          /\ ops' = [ops EXCEPT ![c] = moved]
          /\ TryToServe(to)
          /\ Finish(c, {}, "log")
  /\ UNCHANGED <<pushed, maps>>

Do(c) ==
  /\ pc[c] = "do"
  /\ PopDo(c) \/ PushDo(c) \/ MoveDo(c)
  /\ UNCHANGED <<logged, errors, conn, sent>>

(* DoBinlog, record by record; the locks are released after the last one.    *)
DoBinlog(a) ==
  /\ pc[a] = "log"
  /\ logged' = Apply(logged, Head(ops[a]))
  /\ ops' = [ops EXCEPT ![a] = Tail(@)]
  /\ IF Len(ops[a]) > 1 THEN UNCHANGED run
     ELSE Finish(a, Locks, IF a \in Conns /\ cmd[a].op = "exec" THEN "serve" ELSE "idle")
  /\ UNCHANGED <<list, pushed, errors, maps, conn, pending, sent>>

(* Mutant of ServeToBLrPopWithKeys: the lists an EXEC pushed to are         *)
(* forgotten.                                                                *)
ServeToBLrPopWithKeysNot(c) ==
  /\ pc[c] = "serve"
  /\ Finish(c, {}, "idle")
  /\ UNCHANGED <<lists, maps, conn, ops, sent, pending>>

(* ExecCmd::ServeToBLrPopWithKeys, when the locks are released. *)
ServeToBLrPopWithKeys(c) ==
  /\ pc[c] = "serve"
  /\ TryToServe(cmd[c].keys[1])
  /\ Finish(c, {}, "idle")
  /\ UNCHANGED <<lists, maps, conn, ops, sent>>

-----------------------------------------------------------------------------
(* ServeAndUnblockConns. *)

(* Mutant of ServeLocks: the mutex of the maps before the record. *)
ServeLocksSwapped(k) == <<"block", k>>

ServeLocks(k) == <<k, "block">>

(* Mutant of ServeStart: a task starts that nobody has scheduled. *)
ServeStartUnscheduled(k) ==
  /\ pending' = [pending EXCEPT ![k] = @ - 1]
  /\ Start(k, ServeLocks(k))
  /\ UNCHANGED <<lists, maps, conn, cmd, ops, sent>>

ServeStart(k) ==
  /\ pending[k] > 0
  /\ pending' = [pending EXCEPT ![k] = @ - 1]
  /\ Start(k, ServeLocks(k))
  /\ UNCHANGED <<lists, maps, conn, cmd, ops, sent>>

(* Mutant of ServeOne: the element that was handed out is not logged. *)
ServeOneUnlogged(k) ==
  /\ pc[k] = "do" /\ waiting[k] # <<>> /\ list[k] # <<>>
  /\ list' = [list EXCEPT ![k] = Rest(@, waiting[k][1].side)]
  /\ Unblock(k, 1)
  /\ UNCHANGED <<logged, ops, pushed, errors, conn, run, pending, sent>>

(* One turn of the loop: the first connection gets an element, or an error;  *)
(* a pop is logged in either case.                                           *)
ServeOne(k) ==
  /\ pc[k] = "do" /\ waiting[k] # <<>> /\ list[k] # <<>>
  /\ \/ /\ list' = [list EXCEPT ![k] = Rest(@, waiting[k][1].side)]
        /\ UNCHANGED errors
     \/ /\ errors < MaxErrors
        /\ errors' = errors + 1
        /\ UNCHANGED list
  /\ ops' = [ops EXCEPT ![k] = Append(@, PopOp(k, waiting[k][1].side))]
  /\ Unblock(k, 1)
  /\ UNCHANGED <<logged, pushed, conn, run, pending, sent>>

(* No connection waits, or the list has no more elements. *)
ServeEnd(k) ==
  /\ pc[k] = "do" /\ (waiting[k] = <<>> \/ list[k] = <<>>)
  /\ IF ops[k] = <<>> THEN Finish(k, Locks, "idle") ELSE Finish(k, {"block"}, "log")
  /\ UNCHANGED <<lists, maps, conn, pending, ops, sent>>

-----------------------------------------------------------------------------
(* Timer, workers and administration. *)

(* Mutant of ScanExpired: the scan of a list ends at its first node. *)
ScanExpiredFirst ==
  /\ BlockMtx
  /\ \E k \in Keys : waiting[k] # <<>> /\ waiting[k][1].timed /\ Unblock(k, 1)
  /\ UNCHANGED <<lists, conn, run, pending, ops, sent>>

(* ScanExpiredBlockedConnsOfBlrpop, for one command that has expired. *)
ScanExpired ==
  /\ BlockMtx
  /\ \E k \in Keys : \E i \in DOMAIN waiting[k] : waiting[k][i].timed /\ Unblock(k, i)
  /\ UNCHANGED <<lists, conn, run, pending, ops, sent>>

(* The event loop of the worker closes a connection (CloseFd), whatever its  *)
(* command is doing; or DoCronTask carries out CLIENT KILL.                  *)
StartClose(c) ==
  /\ c \in Closing /\ life[c] = "open"
  /\ life' = [life EXCEPT ![c] = "check"]
  /\ \/ UNCHANGED killed
     \/ Free("rw") /\ killed' = killed \cup {c}
  /\ UNCHANGED <<lists, maps, run, pending, ops, sent>>

AfterClean(c) == IF c \in killed THEN "waiting" ELSE "closed"

(* Mutant of ClosingConnCheck: only the event loop clears the maps. *)
ClosingConnCheckUnkilled(c) ==
  /\ life[c] = "check"
  /\ BlockMtx
  /\ life' = [life EXCEPT ![c] = IF keysOf[FdOf[c]] = <<>> \/ c \in killed THEN AfterClean(c) ELSE "clean"]
  /\ owed' = IF keysOf[FdOf[c]] = <<>> \/ c \in killed THEN {n \in owed : n.conn # c} ELSE owed
  /\ UNCHANGED <<lists, waiting, keysOf, serial, pipelined, late, dangling, killed, run, pending, ops, sent>>

(* ClosingConnCheckForBlrPop: under the shared lock. *)
ClosingConnCheck(c) ==
  /\ life[c] = "check"
  /\ BlockMtx
  /\ life' = [life EXCEPT ![c] = IF keysOf[FdOf[c]] = <<>> THEN AfterClean(c) ELSE "clean"]
  /\ owed' = IF keysOf[FdOf[c]] = <<>> THEN {n \in owed : n.conn # c} ELSE owed
  /\ UNCHANGED <<lists, waiting, keysOf, serial, pipelined, late, dangling, killed, run, pending, ops, sent>>

(* Mutant of ClosingConnClean: only the first key's node is erased. *)
ClosingConnCleanFirst(c) ==
  LET f == FdOf[c] IN
  /\ life[c] = "clean"
  /\ BlockMtx
  /\ waiting' = [k \in Keys |-> IF keysOf[f] # <<>> /\ k = Head(keysOf[f])
                                THEN EraseFirst(waiting[k], f)
                                ELSE waiting[k]]
  /\ keysOf' = [keysOf EXCEPT ![f] = <<>>]
  /\ owed' = {n \in owed : n.conn # c}
  /\ life' = [life EXCEPT ![c] = AfterClean(c)]
  /\ UNCHANGED <<lists, serial, pipelined, late, dangling, killed, run, pending, ops, sent>>

(* ClosingConnCheckForBlrPop: under the exclusive lock. *)
ClosingConnClean(c) ==
  /\ life[c] = "clean"
  /\ BlockMtx
  /\ waiting' = CleanWaitNode(waiting, FdOf[c])
  /\ keysOf' = [keysOf EXCEPT ![FdOf[c]] = <<>>]
  /\ owed' = {n \in owed : n.conn # c}
  /\ life' = [life EXCEPT ![c] = AfterClean(c)]
  /\ UNCHANGED <<lists, serial, pipelined, late, dangling, killed, run, pending, ops, sent>>

(* A shared_ptr to the connection exists beside wait_to_close_conns_. *)
Referenced(c) == pc[c] # "idle" \/ \E k \in Keys : NodesOf(waiting, k, c) # {}

(* DoCronTask: wait_to_close_conns_, then ready_to_close_conns_. *)
CronClose(c) ==
  /\ \/ life[c] = "waiting" /\ ~Referenced(c) /\ life' = [life EXCEPT ![c] = "ready"]
     \/ life[c] = "ready" /\ life' = [life EXCEPT ![c] = "closed"]
  /\ UNCHANGED <<lists, maps, killed, run, pending, ops, sent>>

(* DoCronTask looks at a connection that has been quiet for long: with the   *)
(* lock of the worker's connections it takes the mutex of the maps.          *)
KeepaliveStart ==
  /\ sent < MaxCommands
  /\ \E c \in Closing : life[c] = "open"
  /\ Start("cron", <<"rw", "block">>)
  /\ sent' = sent + 1
  /\ UNCHANGED <<lists, maps, conn, pending, cmd, ops>>

(* A blocked connection lives on. *)
KeepaliveCheck ==
  /\ pc["cron"] = "do"
  /\ \/ \E c \in Closing : /\ life[c] = "open" /\ keysOf[FdOf[c]] = <<>>
                        /\ life' = [life EXCEPT ![c] = "check"]
                        /\ killed' = killed \cup {c}
     \/ UNCHANGED conn
  /\ Finish("cron", Locks, "idle")
  /\ UNCHANGED <<lists, maps, pending, ops, sent>>

(* DispatchThread::AllConn: the two locks in the other order. *)
AllConnStart ==
  /\ sent < MaxCommands
  /\ Start("acl", <<"block", "rw">>)
  /\ sent' = sent + 1
  /\ UNCHANGED <<lists, maps, conn, pending, cmd, ops>>

AllConnEnd ==
  /\ pc["acl"] = "do"
  /\ Finish("acl", Locks, "idle")
  /\ UNCHANGED <<lists, maps, conn, pending, ops, sent>>

-----------------------------------------------------------------------------

ConnRuns(c) == TakeLock(c) \/ Do(c) \/ DoBinlog(c) \/ ServeToBLrPopWithKeys(c)
TaskRuns(k) == ServeStart(k) \/ TakeLock(k) \/ ServeOne(k) \/ ServeEnd(k) \/ DoBinlog(k)
Closes(c) == ClosingConnCheck(c) \/ ClosingConnClean(c) \/ CronClose(c)
AdminRuns == (\E a \in Admins : TakeLock(a)) \/ KeepaliveCheck \/ AllConnEnd
Begins == (\E c \in Conns : Send(c) \/ StartClose(c)) \/ KeepaliveStart \/ AllConnStart

(* Nothing is said of what follows the use of an erased node. *)
Next ==
  /\ ~dangling
  /\ \/ Begins
     \/ \E c \in Conns : ConnRuns(c) \/ Closes(c)
     \/ \E k \in Keys : TaskRuns(k)
     \/ ScanExpired
     \/ AdminRuns

Spec == Init /\ [][Next]_vars

(* Threads of the pool, the timer (every 250 ms) and the workers go on. *)
Fairness ==
  /\ \A c \in Conns : WF_vars(~dangling /\ ConnRuns(c)) /\ WF_vars(~dangling /\ Closes(c))
  /\ \A k \in Keys : WF_vars(~dangling /\ TaskRuns(k))
  /\ WF_vars(~dangling /\ ScanExpired)
  /\ \A a \in Admins : WF_vars(~dangling /\ TakeLock(a))
  /\ WF_vars(~dangling /\ KeepaliveCheck)
  /\ WF_vars(~dangling /\ AllConnEnd)

LiveSpec == Spec /\ Fairness

-----------------------------------------------------------------------------

(* No connection of this descriptor has blocked twice or too late. *)
Regular(c) == \A d \in pipelined \cup late : FdOf[d] # FdOf[c]

(* TryToServeBLrPopWithThisKey, ServeToBLrPopWithKeys: whenever a list has an *)
(* element and a connection waits for it, a task that will serve it is        *)
(* pending, or waits for its locks or is serving, or the EXEC that pushed is   *)
(* about to schedule one.  A push never misses a BLPOP that blocks beside it. *)
NoLostWakeup ==
  \A k \in Keys :
    list[k] # <<>> /\ waiting[k] # <<>> =>
      \/ pending[k] > 0
      \/ pc[k] \in {"lock", "do"}
      \/ \E c \in Conns : /\ pc[c] \in {"log", "serve"}
                          /\ cmd[c].op = "exec" /\ cmd[c].keys = <<k>>

(* BlockThisClientToWaitLRPush, CleanWaitNodeOfUnBlockedBlrConn: a connection *)
(* waits exactly for the keys of its blocked commands that are not answered,  *)
(* through serving, expiry and closing in any order: none is forgotten, none  *)
(* is answered twice, and none waits on when it is closed.                    *)
WaitInfoExact ==
  \A c \in Conns : Regular(c) =>
    \A k \in Keys : {waiting[k][i] : i \in NodesOf(waiting, k, c)} = {n \in owed : n.conn = c /\ k \in n.keys}

(* CleanWaitNodeOfUnBlockedBlrConn uses find(key)->second unchecked: every    *)
(* key a descriptor is entered with has a waiting list with a node of it.     *)
KeysHaveNodes ==
  \A f \in Fds : \A k \in ToSet(keysOf[f]) : \E i \in DOMAIN waiting[k] : FdOf[waiting[k][i].conn] = f

(* ServeAndUnblockConns, ScanExpiredBlockedConnsOfBlrpop: the loop's next     *)
(* node is erased under it only for a descriptor with more than one blocked   *)
(* command.                                                                   *)
LoopKeepsItsNode == dangling => pipelined \cup late # {}

(* ServeAndUnblockConns holds the record from the pop to its record in the    *)
(* binlog: the binlog gives the list, unless somebody who works on the list   *)
(* holds its lock, and until a pop has failed and was logged.                 *)
LogMatchesList ==
  errors = 0 => \A k \in Keys : logged[k] = list[k] \/ ~Free(k)

(* "first blocked, first get served" (pika_list.cc:207): of the connections   *)
(* that wait for a list, none is served before one that blocked earlier.      *)
FirstBlockedFirstServed ==
  [][\A k \in Keys : Len(list'[k]) < Len(list[k]) =>
       \A n \in owed \ owed', m \in owed \cap owed' :
         (\A d \in Conns : Regular(d)) /\ k \in m.keys => n.id < m.id]_vars

WaitsFor(a) ==
  LET wanted == IF pc[a] = "lock" THEN {Head(plan[a])}
                ELSE IF a \in Conns /\ pc[a] \in {"do", "serve"} THEN {"block"} ELSE {}
  IN {b \in Actors \ {a} : held[b] \cap wanted # {}}

Waiters == {a \in Actors : WaitsFor(a) # {}}
Deadlocked == \E S \in (SUBSET Waiters) \ {{}} : \A a \in S : WaitsFor(a) \cap S # {}

(* "do not change the sequence of these 3 locks, or deadlock will happen"     *)
(* (pika_list.cc:197): commands and tasks never wait for each other in a      *)
(* circle; only DoCronTask and AllConn do, which take their locks in          *)
(* opposite orders.                                                           *)
NoDeadlock == Deadlocked => "cron" \in WaitsFor("acl") /\ "acl" \in WaitsFor("cron")

Stuck == dangling \/ Deadlocked

(* A connection that waits for a list that has an element is served, or the   *)
(* element is taken by another command.                                       *)
ElementsAreServed ==
  \A k \in Keys : list[k] # <<>> /\ waiting[k] # <<>> ~> list[k] = <<>> \/ waiting[k] = <<>> \/ Stuck

(* BLPopCmd::DoInitial: a blocking command with a timeout is answered.        *)
TimedAreAnswered ==
  \A c \in Conns : (\E n \in owed : n.conn = c /\ n.timed)
    ~> (~\E n \in owed : n.conn = c /\ n.timed) \/ ~Regular(c) \/ Stuck

(* DoCronTask, stages 1 to 3: a connection that is killed is closed in the    *)
(* end, which takes that no map refers to it.                                 *)
KilledAreClosed ==
  \A c \in Conns : c \in killed ~> life[c] = "closed" \/ ~Regular(c) \/ Stuck

=============================================================================
