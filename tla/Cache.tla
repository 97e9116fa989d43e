-------------------------------- MODULE Cache --------------------------------
(***************************************************************************)
(* The cache that a database keeps in memory beside its storage.  A write  *)
(* changes the storage and then the cache, under the record lock of its    *)
(* key; a read looks into the cache without that lock and, when it finds   *)
(* nothing, takes the lock, reads the storage and fills the cache (GET) or *)
(* leaves that to the load thread (LRANGE).  FLUSHDB empties the storage   *)
(* and has the cache cleared by a background thread, and until then the    *)
(* cache is to be left alone.                                              *)
(*                                                                         *)
(* The content of a key is a sequence of elements: one for a string, those *)
(* of the list for a list; <<>> is an absent key.                          *)
(***************************************************************************)
EXTENDS Naturals, Sequences, FiniteSets

CONSTANTS
  Clients,      \* connections, and the write-DB workers of a slave
  StringKeys, ListKeys,
  Values,
  Commands,     \* commands that clients send
  RtcRead,      \* conf rtc-cache-read
  MaxLen,       \* bound: elements of a list that clients push
  MaxCommands,  \* bound: commands sent
  MaxFaults     \* bound: databases replaced, updates of a cache without memory

Keys == StringKeys \cup ListKeys

(* FLUSHDB, CLEARCACHE and SLAVEOF name no key: Cmd::current_key. *)
AllKeys == ""

(* arg is the value SET ... VX compares with, or the count of LPOP; exec says *)
(* that the command is executed in an EXEC.                                   *)
Command ==
  [op: {"get", "set", "setvx", "del", "unlink"},
   key: StringKeys, val: Values, arg: Values, exec: BOOLEAN]
    \cup [op: {"lrange", "lpush", "lpop", "del", "unlink"},
          key: ListKeys, val: Values, arg: 1..2, exec: BOOLEAN]
    \cup [op: {"flushdb", "clear"}, key: {AllKeys}, val: Values, arg: Values, exec: BOOLEAN]

ASSUME CacheAssumption ==
  /\ StringKeys \cap ListKeys = {} /\ AllKeys \notin Keys /\ IsFiniteSet(ListKeys)
  /\ Commands \subseteq Command /\ RtcRead \in BOOLEAN
  /\ \A cmd \in Commands : cmd.exec => cmd.op \notin {"get", "lrange", "clear"}
  /\ {MaxLen, MaxCommands, MaxFaults} \subseteq Nat

VARIABLES
  db,        \* storage_
  cache,     \* caches_; <<>>: not cached
  status,    \* cache_status_
  disabled,  \* tmp_cache_disable_flag_
  locked,    \* record locks
  client,    \* where each client stands
  loading,   \* loadkeys_queue_
  loader,    \* what the load thread is about to write, or none; flushed is history
  tasks,     \* clear tasks queued for common_bg_thread_
  bg,        \* where the clear task of common_bg_thread_ stands
  sent, faults,
  stale      \* history: how the cached content of a key came to be wrong

vars == <<db, cache, status, disabled, locked, client, loading, loader, tasks, bg, sent, faults, stale>>
clearVars == <<status, disabled, tasks, bg>>
loadVars == <<loading, loader>>
boundVars == <<sent, faults>>

Content == Seq(Values)
Ways == {"setvx", "lpop", "nomem", "bypass", "unlink", "skipped", "late", "execflush", "changedb", "unset",
         "flushed"}

(* through: the command changes the cache; missed: the network thread has looked *)
(* there already; content: what a read found; fresh (history): what it may    *)
(* find.                                                                      *)
Client == [pc: {"idle", "rtc", "rtcread", "queued", "locked", "readcache", "miss", "do",
                "update", "schedule", "release"},
           cmd: Command \cup {<<>>}, through: BOOLEAN, missed: BOOLEAN,
           content: Content, fresh: SUBSET Content]

NoClient == [pc |-> "idle", cmd |-> <<>>, through |-> FALSE, missed |-> FALSE,
             content |-> <<>>, fresh |-> {}]

TypeOK ==
  /\ db \in [Keys -> Content] /\ cache \in [Keys -> Content]
  /\ status \in {"ok", "clear"} /\ disabled \in BOOLEAN
  /\ locked \subseteq Keys \cup {AllKeys}
  /\ client \in [Clients -> Client]
  /\ loading \in Seq(ListKeys) /\ Len(loading) <= Cardinality(ListKeys)
  /\ loader \in {<<>>} \cup [key: ListKeys, content: Content, flushed: BOOLEAN]
  /\ tasks \in 0..MaxCommands /\ bg \in {"idle", "flush", "ok", "unset"}
  /\ sent \in 0..MaxCommands /\ faults \in 0..MaxFaults
  /\ stale \in [Keys -> SUBSET Ways]

Init ==
  /\ db = [k \in Keys |-> <<>>] /\ cache = [k \in Keys |-> <<>>]
  /\ status = "ok" /\ disabled = FALSE /\ locked = {}
  /\ client = [c \in Clients |-> NoClient]
  /\ loading = <<>> /\ loader = <<>> /\ tasks = 0 /\ bg = "idle"
  /\ sent = 0 /\ faults = 0
  /\ stale = [k \in Keys |-> {}]

-----------------------------------------------------------------------------

IsRead(cmd) == cmd.op \in {"get", "lrange"}
IsWrite(cmd) == cmd.op \in {"set", "setvx", "del", "unlink", "lpush", "lpop"}

(* UNLINK is in the command table without the flags of the cache that DEL has. *)
UsesCache(cmd) == cmd.op # "unlink"

(* DBLockShared; FLUSHDB and EXEC of a FLUSHDB take the lock exclusively. *)
HoldsShared(c) ==
  /\ client[c].pc \in {"rtcread", "locked", "readcache", "miss", "do", "update", "release"}
  /\ client[c].cmd.op \notin {"flushdb", "clear"}

NoneHoldsShared == \A c \in Clients : ~HoldsShared(c)

(* The storage changes key k to what cmd makes of it. *)
Stored(cmd, old) ==
  CASE cmd.op = "set" -> <<cmd.val>>
    [] cmd.op = "setvx" -> IF old = <<cmd.arg>> THEN <<cmd.val>> ELSE old
    [] cmd.op \in {"del", "unlink"} -> <<>>
    [] cmd.op = "lpush" -> <<cmd.val>> \o old
    [] cmd.op = "lpop" -> SubSeq(old, cmd.arg + 1, Len(old))

(* ... and DoUpdateCache the cached content, if there is any: SetxxWithoutTTL *)
(* whatever VX compared, LPushIfKeyExist, and LPop of one element.            *)
Cached(cmd, old) ==
  CASE old = <<>> -> <<>>
    [] old # <<>> /\ cmd.op \in {"set", "setvx"} -> <<cmd.val>>
    [] old # <<>> /\ cmd.op \in {"del", "unlink"} -> <<>>
    [] old # <<>> /\ cmd.op = "lpush" -> <<cmd.val>> \o old
    [] old # <<>> /\ cmd.op = "lpop" -> Tail(old)

(* RcFreeMemoryIfNeeded is called, and may fail, before content is added. *)
NeedsMemory(cmd) == cmd.op \in {"set", "setvx", "lpush"}

(* The cache will be cleared ... *)
FlushToCome == tasks > 0 \/ bg = "flush"

(* ... before a command that arrives now looks into it. *)
CacheUnused == FlushToCome /\ (disabled \/ bg = "flush")

(* A write that has changed k in the storage and is to change the cache. *)
Updating(k) ==
  \E c \in Clients : client[c].pc = "update" /\ client[c].cmd.key = k /\ IsWrite(client[c].cmd)

(* A FLUSHDB that has emptied the storage and has no clear task yet. *)
Flushing(pcs) == \E c \in Clients : client[c].pc \in pcs /\ client[c].cmd.op = "flushdb"

Changing(k) == Updating(k) \/ Flushing({"update", "schedule"})

FlushUnderWay == FlushToCome \/ Flushing({"update", "schedule"})

(* History: the cached content of these keys is wrong from now on. *)
Mark(keys, way) ==
  [k \in Keys |-> CASE cache'[k] = <<>> -> {}
                    [] k \in keys /\ cache'[k] # <<>> -> stale[k] \cup {way}
                    [] OTHER -> stale[k]]

Unmarked == [k \in Keys |-> IF cache'[k] = <<>> THEN {} ELSE stale[k]]

(* History: readers may find what the storage holds now. *)
Observed(cl) ==
  [c \in Clients |-> IF cl[c].pc # "idle" /\ IsRead(cl[c].cmd)
                       THEN [cl[c] EXCEPT !.fresh = @ \cup {db'[cl[c].cmd.key]}]
                       ELSE cl[c]]

(* History: the storage that the load thread has read from was replaced. *)
Overtaken == IF loader = <<>> THEN loader ELSE [loader EXCEPT !.flushed = TRUE]

Goto(c, pc) == [client EXCEPT ![c].pc = pc]

(* MultiRecordLock of a write, MultiScopeRecordLock of a read that missed. *)
LocksOf(c) ==
  LET cmd == client[c].cmd IN
  IF \/ IsWrite(cmd) \/ (IsRead(cmd) /\ client[c].through) \/ (cmd.op = "flushdb" /\ ~cmd.exec)
    THEN {cmd.key} ELSE {}

-----------------------------------------------------------------------------
(* Clients *)

(* A command arrives.  PikaClientConn::ProcessRedisCmds lets the network      *)
(* thread look into the cache for a GET, and gives all others to the pool.    *)
ProcessRedisCmds(c) ==
  /\ client[c].pc = "idle" /\ sent < MaxCommands
  /\ \E cmd \in Commands :
       /\ cmd.op = "lpush" => Len(db[cmd.key]) + Cardinality(Clients) <= MaxLen
       /\ client' = [client EXCEPT ![c] =
            [NoClient EXCEPT
               !.pc = IF RtcRead /\ cmd.op = "get" THEN "rtc" ELSE "queued",
               !.cmd = cmd,
               !.fresh = IF ~IsRead(cmd) THEN {}
                         ELSE {db[cmd.key]} \cup (IF Changing(cmd.key) THEN {cache[cmd.key]} ELSE {})]]
  /\ sent' = sent + 1
  /\ UNCHANGED <<db, cache, locked, clearVars, loadVars, faults, stale>>

(* Cmd::DoReadCommandInCache, on the network thread: the flag is not looked at. *)
DoReadCommandInCache(c) ==
  /\ client[c].pc = "rtc"
  /\ client' = IF status = "ok" THEN Goto(c, "rtcread")
               ELSE [client EXCEPT ![c].pc = "queued", ![c].missed = TRUE]
  /\ UNCHANGED <<db, cache, locked, clearVars, loadVars, boundVars, stale>>

(* GetCmd::ReadCache there: a hit is the answer. *)
RtcReadCache(c) ==
  /\ client[c].pc = "rtcread"
  /\ LET found == cache[client[c].cmd.key] IN
       client' = [client EXCEPT ![c].pc = IF found # <<>> THEN "release" ELSE "queued",
                                ![c].missed = (found = <<>>), ![c].content = found]
  /\ UNCHANGED <<db, cache, locked, clearVars, loadVars, boundVars, stale>>

(* Cmd::InternalProcessCommand takes the locks, and DoCommand looks at the    *)
(* flags; EXEC looks at those of the command alone.  CLEARCACHE and SLAVEOF go to                 *)
(* ClearCacheDbAsync at once.                                                 *)
InternalProcessCommand(c) ==
  LET cmd == client[c].cmd IN
  /\ client[c].pc = "queued"
  /\ IF cmd.op = "clear"
       THEN /\ disabled' = TRUE
            /\ client' = Goto(c, "schedule")
            /\ UNCHANGED locked
       ELSE /\ IF IsRead(cmd) \/ (cmd.op = "flushdb" /\ cmd.exec) THEN UNCHANGED locked
               ELSE cmd.key \notin locked /\ locked' = locked \cup {cmd.key}
            /\ client' = [client EXCEPT ![c].pc = IF cmd.exec THEN "do" ELSE "locked",
                                        ![c].through = /\ UsesCache(cmd)
                                                       /\ IF cmd.exec THEN IsWrite(cmd) ELSE ~disabled]
            /\ UNCHANGED disabled
  /\ UNCHANGED <<db, cache, status, tasks, bg, loadVars, boundVars, stale>>

(* Cmd::DoCommand and WriteDBInSyncWay: the status decides the rest. *)
DoCommand(c) ==
  LET through == client[c].through /\ status = "ok" IN
  /\ client[c].pc = "locked"
  /\ client' = [client EXCEPT ![c].through = through,
                  ![c].pc = IF ~(through /\ IsRead(client[c].cmd)) THEN "do"
                            ELSE IF client[c].missed THEN "miss" ELSE "readcache"]
  /\ UNCHANGED <<db, cache, locked, clearVars, loadVars, boundVars, stale>>

(* ReadCache of GET and LRANGE. *)
ReadCache(c) ==
  /\ client[c].pc = "readcache"
  /\ LET found == cache[client[c].cmd.key] IN
       client' = [client EXCEPT ![c].pc = IF found # <<>> THEN "release" ELSE "miss",
                                ![c].through = (found = <<>>), ![c].content = found]
  /\ UNCHANGED <<db, cache, locked, clearVars, loadVars, boundVars, stale>>

(* A read that missed takes the record lock. *)
LockMissed(c) ==
  /\ client[c].pc = "miss"
  /\ client[c].cmd.key \notin locked
  /\ locked' = locked \cup {client[c].cmd.key}
  /\ client' = Goto(c, "do")
  /\ UNCHANGED <<db, cache, clearVars, loadVars, boundVars, stale>>

(* Do of a read. *)
DoRead(c) ==
  LET found == db[client[c].cmd.key] IN
  /\ client[c].pc = "do" /\ IsRead(client[c].cmd)
  /\ client' = [client EXCEPT ![c].content = found,
                  ![c].pc = IF client[c].through /\ found # <<>> THEN "update" ELSE "release"]
  /\ UNCHANGED <<db, cache, locked, clearVars, loadVars, boundVars, stale>>

(* Do of a write.  One that does not use the cache leaves there what it finds. *)
DoWrite(c) ==
  LET cmd == client[c].cmd
      ok == cmd.op = "lpop" => db[cmd.key] # <<>> IN
  /\ client[c].pc = "do" /\ IsWrite(cmd)
  /\ db' = [db EXCEPT ![cmd.key] = Stored(cmd, @)]
  /\ client' = Observed(Goto(c, IF client[c].through /\ ok THEN "update" ELSE "release"))
  /\ stale' = IF client[c].through \/ CacheUnused \/ db' = db THEN stale
              ELSE [stale EXCEPT ![cmd.key] = IF cache[cmd.key] = <<>> THEN @
                                              ELSE @ \cup {IF UsesCache(cmd) THEN "bypass" ELSE "unlink"}]
  /\ UNCHANGED <<cache, locked, clearVars, loadVars, boundVars>>

(* Do of FLUSHDB, alone or in an EXEC, which does not clear the cache. *)
DoFlush(c) ==
  LET cmd == client[c].cmd IN
  /\ client[c].pc = "do" /\ cmd.op = "flushdb"
  /\ NoneHoldsShared
  /\ db' = [k \in Keys |-> <<>>]
  /\ client' = Observed(Goto(c, IF client[c].through THEN "update" ELSE "release"))
  /\ UNCHANGED cache
  /\ stale' = IF client[c].through \/ CacheUnused THEN stale
              ELSE Mark(Keys, IF cmd.exec THEN "execflush" ELSE "bypass")
  /\ loader' = Overtaken
  /\ UNCHANGED <<locked, clearVars, loading, boundVars>>

(* DoUpdateCache of GET: WriteKVToCache sets the key if it is not there. *)
FillCache(c) ==
  LET k == client[c].cmd.key IN
  /\ client[c].pc = "update" /\ client[c].cmd.op = "get"
  /\ cache' = [cache EXCEPT ![k] = IF @ = <<>> THEN client[c].content ELSE @]
  /\ client' = Goto(c, "release")
  /\ UNCHANGED <<db, locked, clearVars, loadVars, boundVars, stale>>

(* Mutant of LoadKeys: loadkeys_map_ is not kept. *)
LoadKeysForgotten == {}

(* The keys of loadkeys_map_. *)
LoadKeys == {loading[i] : i \in DOMAIN loading} \cup (IF loader = <<>> THEN {} ELSE {loader.key})

(* DoUpdateCache of LRANGE: PikaCacheLoadThread::Push. *)
Push(c) ==
  LET k == client[c].cmd.key IN
  /\ client[c].pc = "update" /\ client[c].cmd.op = "lrange"
  /\ loading' = IF k \in LoadKeys THEN loading ELSE Append(loading, k)
  /\ client' = Goto(c, "release")
  /\ UNCHANGED <<db, cache, locked, clearVars, loader, boundVars, stale>>

(* DoUpdateCache of a write, which fails when the cache finds no memory.  A    *)
(* list that a FLUSHDB has emptied in the storage alone is pushed to and       *)
(* popped from in the cache.                                                   *)
UpdateCache(c) ==
  LET cmd == client[c].cmd IN
  /\ client[c].pc = "update" /\ IsWrite(cmd)
  /\ client' = Goto(c, "release")
  /\ \/ /\ cache' = [cache EXCEPT ![cmd.key] = Cached(cmd, @)]
        /\ stale' = CASE cmd.op = "set" -> [stale EXCEPT ![cmd.key] = {}]
                      [] cmd.op = "setvx" /\ db[cmd.key] # <<cmd.val>> -> Mark({cmd.key}, "setvx")
                      [] cmd.op = "lpop" /\ cmd.arg > 1 -> Mark({cmd.key}, "lpop")
                      [] \/ cmd.op = "lpush" \/ (cmd.op = "lpop" /\ cmd.arg = 1) ->
                           Mark({k \in {cmd.key} : FlushUnderWay /\ cache'[k] # db[k]}, "flushed")
                      [] OTHER -> Unmarked
        /\ UNCHANGED faults
     \/ /\ NeedsMemory(cmd) /\ faults < MaxFaults
        /\ faults' = faults + 1
        /\ UNCHANGED cache
        /\ stale' = Mark({cmd.key}, "nomem")
  /\ UNCHANGED <<db, locked, clearVars, loadVars, sent>>

(* Mutant of ClearCacheDbAsync: the cache is not disabled. *)
ClearCacheDbAsyncEnabled(c) ==
  /\ client[c].pc = "update" /\ client[c].cmd.op = "flushdb"
  /\ client' = Goto(c, "schedule")
  /\ UNCHANGED <<db, cache, locked, clearVars, loadVars, boundVars, stale>>

(* DoUpdateCache of FLUSHDB: PikaServer::ClearCacheDbAsync sets the flag ... *)
ClearCacheDbAsync(c) ==
  /\ client[c].pc = "update" /\ client[c].cmd.op = "flushdb"
  /\ disabled' = TRUE
  /\ client' = Goto(c, "schedule")
  /\ UNCHANGED <<db, cache, locked, status, tasks, bg, loadVars, boundVars, stale>>

(* ... and schedules a task, but not while another one runs. *)
ScheduleClear(c) ==
  /\ client[c].pc = "schedule"
  /\ client' = Goto(c, "release")
  /\ tasks' = IF status = "ok" THEN tasks + 1 ELSE tasks
  /\ UNCHANGED <<db, cache>>
  /\ stale' = IF client[c].cmd.op = "flushdb" /\ status # "ok" /\ ~FlushToCome
                THEN Mark({k \in Keys : cache[k] # db[k] \/ Updating(k)}, "skipped") ELSE stale
  /\ UNCHANGED <<locked, status, disabled, bg, loadVars, boundVars>>

(* The locks are released and the client has its answer. *)
Release(c) ==
  /\ client[c].pc = "release"
  /\ locked' = locked \ LocksOf(c)
  /\ client' = [client EXCEPT ![c] = NoClient]
  /\ UNCHANGED <<db, cache, clearVars, loadVars, boundVars, stale>>

-----------------------------------------------------------------------------
(* The load thread and the background thread *)

(* Mutant of LoadKey: the storage is read without the record lock. *)
LoadKeyUnlocked ==
  LET k == Head(loading) IN
  /\ loader = <<>> /\ loading # <<>>
  /\ loading' = Tail(loading)
  /\ loader' = IF db[k] = <<>> THEN loader ELSE [key |-> k, content |-> db[k], flushed |-> FALSE]
  /\ UNCHANGED <<db, cache, locked, client, clearVars, boundVars, stale>>

(* PikaCacheLoadThread::LoadKey takes the record lock, and no lock of the     *)
(* database, and reads the storage; a key that is gone is not loaded.         *)
LoadKey ==
  LET k == Head(loading) IN
  /\ loader = <<>> /\ loading # <<>>
  /\ k \notin locked
  /\ loading' = Tail(loading)
  /\ IF db[k] = <<>> THEN UNCHANGED <<loader, locked>>
     ELSE loader' = [key |-> k, content |-> db[k], flushed |-> FALSE] /\ locked' = locked \cup {k}
  /\ UNCHANGED <<db, cache, client, clearVars, boundVars, stale>>

(* WriteListToCache: RPushnxWithoutTTL. *)
WriteListToCache ==
  /\ loader # <<>>
  /\ LET k == loader.key IN
       /\ cache' = [cache EXCEPT ![k] = IF @ = <<>> THEN loader.content ELSE @]
       /\ stale' = IF cache[k] = <<>> /\ loader.flushed THEN Mark({k}, "late") ELSE stale
       /\ locked' = locked \ {k}
  /\ loader' = <<>>
  /\ UNCHANGED <<db, client, loading, clearVars, boundVars>>

(* PikaServer::DoCacheBGTask. *)
ClearStart ==
  /\ bg = "idle" /\ tasks > 0
  /\ tasks' = tasks - 1 /\ bg' = "flush" /\ status' = "clear"
  /\ UNCHANGED <<db, cache, locked, client, disabled, loadVars, boundVars, stale>>

FlushCache ==
  /\ bg = "flush"
  /\ bg' = "ok"
  /\ cache' = [k \in Keys |-> <<>>] /\ stale' = [k \in Keys |-> {}]
  /\ UNCHANGED <<db, locked, client, status, disabled, tasks, loadVars, boundVars>>

ClearEnd ==
  /\ bg = "ok"
  /\ bg' = "unset" /\ status' = "ok"
  /\ UNCHANGED <<db, cache, locked, client, disabled, tasks, loadVars, boundVars, stale>>

(* Mutant of UnsetCacheDisableFlag: the flag is left set. *)
CacheDisableFlagKept ==
  /\ bg = "unset"
  /\ bg' = "idle"
  /\ UNCHANGED <<db, cache, locked, client, status, disabled, tasks, loadVars, boundVars, stale>>

(* The flag of another FLUSHDB, whose task is still to come, is reset as well. *)
UnsetCacheDisableFlag ==
  /\ bg = "unset"
  /\ bg' = "idle" /\ disabled' = FALSE
  /\ UNCHANGED cache
  /\ stale' = IF tasks > 0 \/ (\E c \in Clients : client[c].pc = "schedule")
                THEN Mark({k \in Keys : cache[k] # db[k] \/ Updating(k)}, "unset") ELSE stale
  /\ UNCHANGED <<db, locked, client, status, tasks, loadVars, boundVars>>

-----------------------------------------------------------------------------
(* The surroundings *)

(* RcFreeMemoryIfNeeded evicts keys, and CACHE DEL drops them. *)
Evict(k) ==
  /\ cache[k] # <<>>
  /\ cache' = [cache EXCEPT ![k] = <<>>]
  /\ stale' = Unmarked
  /\ UNCHANGED <<db, locked, client, clearVars, loadVars, boundVars>>

(* DB::ChangeDb after a full synchronisation: the cache stays as it is. *)
ChangeDb ==
  /\ faults < MaxFaults /\ NoneHoldsShared
  /\ faults' = faults + 1
  /\ \E v \in Values : db' = [k \in Keys |-> <<v>>]
  /\ client' = Observed(client)
  /\ UNCHANGED cache
  /\ stale' = Mark(Keys, "changedb")
  /\ loader' = Overtaken
  /\ UNCHANGED <<locked, clearVars, loading, sent>>

ClientStep(c) ==
  \/ DoReadCommandInCache(c) \/ RtcReadCache(c)
  \/ InternalProcessCommand(c) \/ DoCommand(c) \/ ReadCache(c) \/ LockMissed(c)
  \/ DoRead(c) \/ DoWrite(c) \/ DoFlush(c)
  \/ FillCache(c) \/ Push(c) \/ UpdateCache(c) \/ ClearCacheDbAsync(c) \/ ScheduleClear(c)
  \/ Release(c)
LoadThread == LoadKey \/ WriteListToCache
ClearTask == ClearStart \/ FlushCache \/ ClearEnd \/ UnsetCacheDisableFlag

Next ==
  \/ \E c \in Clients : ProcessRedisCmds(c) \/ ClientStep(c)
  \/ LoadThread \/ ClearTask \/ ChangeDb
  \/ \E k \in Keys : Evict(k)

Spec == Init /\ [][Next]_vars

-----------------------------------------------------------------------------

(* Cmd::DoCommand, WriteDBInSyncWay, ExecCmd::Do and LoadKey change and fill  *)
(* the cache under the record lock: however they interleave with each other   *)
(* and with the clearing of the cache, what is cached is what the storage     *)
(* holds, but for commands under way, a clear to come, and the ways the code  *)
(* leaves open, each named where it happens.                                  *)
CacheCoherent ==
  \A k \in Keys : cache[k] \in {<<>>, db[k]} \/ Changing(k) \/ CacheUnused \/ stale[k] # {}

(* "disable cache temporarily, and restore it after cache cleared": a read    *)
(* that is answered from the cache (Cmd::DoCommand, DoReadCommandInCache)     *)
(* returns something the key held at some time while the command was under    *)
(* way, also after a FLUSHDB whose clear is still to come.  Only the network  *)
(* thread, which does not look at the flag, may then return what was flushed. *)
CachedReadsFresh ==
  [][\A c \in Clients :
       client[c].pc \in {"readcache", "rtcread"} /\ client'[c].pc = "release"
         => \/ client'[c].content \in client[c].fresh
            \/ stale[client[c].cmd.key] # {}
            \/ client[c].pc = "rtcread" /\ FlushUnderWay]_vars

(* ClearCacheDbAsync and DoCacheBGTask: whoever sets the flag and whenever,   *)
(* also when it schedules no task itself, a task that resets it is to come:   *)
(* the cache is not left disabled.                                            *)
FlagWillBeReset ==
  disabled => tasks > 0 \/ bg # "idle" \/ \E c \in Clients : client[c].pc = "schedule"

=============================================================================
