----------------------------- MODULE Cache_proofs -----------------------------
(***************************************************************************)
(* The cache for any number of clients, keys and commands: types, the flag *)
(* that disables it, coherence with the storage, and what a read that is   *)
(* answered from it may return.                                            *)
(***************************************************************************)
EXTENDS Cache, TLAPS, FiniteSetTheorems, SequenceTheorems

-----------------------------------------------------------------------------
(* The inductive invariant *)

(* Where a client may stand with the command it has. *)
PcOK(c) ==
  LET cl == client[c] IN
  /\ cl.pc # "idle" => cl.cmd \in Commands
  /\ cl.pc \in {"rtc", "rtcread"} => cl.cmd.op = "get"
  /\ cl.pc \in {"rtc", "rtcread", "queued"} => ~cl.through
  /\ cl.pc \in {"readcache", "miss"} => IsRead(cl.cmd) /\ cl.through
  /\ cl.pc \in {"locked", "do", "update"} => cl.cmd.op # "clear"
  /\ cl.pc = "locked" => ~cl.cmd.exec
  /\ cl.pc = "update" => cl.through
  /\ cl.pc \in {"do", "update"} /\ cl.cmd.op = "flushdb" /\ cl.cmd.exec => ~cl.through
  /\ cl.pc = "schedule" => cl.cmd.op \in {"flushdb", "clear"}
PcInv == \A c \in Clients : PcOK(c)

(* The record locks a client has. *)
Held(c) ==
  LET cl == client[c] IN
  IF cl.pc \in {"idle", "rtc", "rtcread", "queued"} THEN {}
  ELSE IF \/ IsWrite(cl.cmd) \/ (cl.cmd.op = "flushdb" /\ ~cl.cmd.exec)
          \/ IsRead(cl.cmd) /\ cl.through /\ cl.pc \in {"do", "update", "release"}
    THEN {cl.cmd.key} ELSE {}

LockInv ==
  /\ \A c \in Clients : Held(c) \subseteq locked
  /\ \A c \in Clients : \A d \in Clients \ {c} : Held(c) \cap Held(d) = {}
  /\ loader # <<>> => loader.key \in locked /\ \A c \in Clients : loader.key \notin Held(c)

(* Every clear task comes from a command of its own. *)
Active == {c \in Clients : client[c].pc \notin {"idle", "release"}}
TasksInv ==
  /\ IsFiniteSet(Active)
  /\ tasks + Cardinality(Active) <= sent

StatusInv == status = "clear" <=> bg \in {"flush", "ok"}

(* No key is twice in loadkeys_map_. *)
LoadInv ==
  /\ \A i, j \in DOMAIN loading : loading[i] = loading[j] => i = j
  /\ loader # <<>> => \A i \in DOMAIN loading : loading[i] # loader.key

(* The cached content of k is right, or known to be wrong. *)
Right(k) == cache[k] \in {<<>>, db[k]} \/ stale[k] # {}

(* What excuses a key that is not. *)
Coherent(k) ==
  \/ Right(k) \/ Updating(k) \/ CacheUnused
  \/ Flushing({"update"}) \/ (Flushing({"schedule"}) /\ disabled)

(* A read that fills the cache still has what the storage holds. *)
FillOK(c) ==
  client[c].pc = "update" /\ IsRead(client[c].cmd) =>
    client[c].content = db[client[c].cmd.key]

LoaderOK == loader # <<>> /\ ~loader.flushed => loader.content = db[loader.key]

(* A write that is to change the cache can do there what it did in the storage. *)
UpdateOK(c) ==
  LET cmd == client[c].cmd
      k == cmd.key IN
  client[c].pc = "update" =>
    /\ cmd.op = "set" => db[k] = <<cmd.val>>
    /\ cmd.op \in {"lpush", "lpop"} =>
         cache[k] = <<>> \/ stale[k] # {} \/ FlushUnderWay \/ Stored(cmd, cache[k]) = db[k]

(* A read that may still be answered from the cache finds something it may    *)
(* return, or will not look before the cache is cleared.                      *)
ReadOK(c) ==
  LET cl == client[c]
      k == cl.cmd.key
      Found == cache[k] \in {<<>>} \cup cl.fresh \/ stale[k] # {}
  IN
  cl.pc # "idle" /\ IsRead(cl.cmd) =>
    /\ db[k] \in cl.fresh
    /\ cl.pc \in {"rtc", "rtcread"} => Found \/ FlushUnderWay
    /\ cl.pc = "queued" /\ ~cl.missed => Found \/ CacheUnused
    /\ cl.pc = "locked" /\ ~cl.missed /\ cl.through => Found \/ bg = "flush"
    /\ cl.pc = "readcache" => Found

StructInv == TypeOK /\ PcInv /\ LockInv /\ TasksInv /\ StatusInv /\ LoadInv /\ FlagWillBeReset
DataInv ==
  /\ \A k \in Keys : Coherent(k)
  /\ \A c \in Clients : FillOK(c) /\ UpdateOK(c) /\ ReadOK(c)
  /\ LoaderOK

CacheInv == StructInv /\ DataInv

-----------------------------------------------------------------------------
(* Commands and contents *)

(* Key and arguments of a command, by what it does. *)
LEMMA CommandFacts ==
  ASSUME NEW cmd \in Commands
  PROVE  /\ cmd \in Command
         /\ cmd.key \in Keys \cup {AllKeys} /\ cmd.exec \in BOOLEAN
         /\ cmd.op \in {"get", "set", "setvx", "del", "unlink", "lrange", "lpush", "lpop", "flushdb",
                         "clear"}
         /\ IsRead(cmd) \/ IsWrite(cmd) => cmd.key \in Keys
         /\ cmd.op = "lrange" => cmd.key \in ListKeys
         /\ cmd.val \in Values
         /\ cmd.op = "lpop" => cmd.arg \in 1..2
         /\ cmd.exec => cmd.op \notin {"get", "lrange", "clear"}
<1>1. cmd \in Command /\ (cmd.exec => cmd.op \notin {"get", "lrange", "clear"})
  BY CacheAssumption
<1>2. CASE cmd \in [op: {"get", "set", "setvx", "del", "unlink"},
                    key: StringKeys, val: Values, arg: Values, exec: BOOLEAN]
  BY <1>1, <1>2 DEF Keys, IsRead, IsWrite
<1>3. CASE cmd \in [op: {"lrange", "lpush", "lpop", "del", "unlink"},
                    key: ListKeys, val: Values, arg: 1..2, exec: BOOLEAN]
  BY <1>1, <1>3 DEF Keys, IsRead, IsWrite
<1>4. CASE cmd \in [op: {"flushdb", "clear"}, key: {AllKeys}, val: Values, arg: Values, exec: BOOLEAN]
  BY <1>1, <1>4 DEF Keys, IsRead, IsWrite
<1> QED BY <1>1, <1>2, <1>3, <1>4 DEF Command

(* What a write makes of the storage and of the cache. *)
LEMMA ContentFacts ==
  ASSUME NEW cmd \in Commands, IsWrite(cmd), NEW old \in Content
  PROVE  /\ Stored(cmd, old) \in Content /\ Cached(cmd, old) \in Content
         /\ cmd.op = "set" => Stored(cmd, old) = <<cmd.val>>
         /\ cmd.op = "lpop" /\ old = <<>> => Stored(cmd, old) = old
         /\ old = <<>> => Cached(cmd, old) = <<>>
         /\ old # <<>> /\ cmd.op \in {"set", "setvx"} => Cached(cmd, old) = <<cmd.val>>
         /\ cmd.op \in {"del", "unlink"} => Cached(cmd, old) = <<>>
         /\ old # <<>> /\ (cmd.op = "lpush" \/ (cmd.op = "lpop" /\ cmd.arg = 1))
              => Cached(cmd, old) = Stored(cmd, old)
<1>1. cmd.val \in Values /\ (cmd.op = "lpop" => cmd.arg \in 1..2)
  BY CommandFacts
<1>2. old \in Seq(Values) /\ Len(old) \in Nat /\ <<>> \in Seq(Values) /\ <<cmd.val>> \in Seq(Values)
  BY <1>1, LenProperties DEF Content
<1>3. cmd.op \in {"set", "setvx", "del", "unlink", "lpush", "lpop"}
  BY DEF IsWrite
<1>4. CASE cmd.op = "set"
  <2>1. Stored(cmd, old) = <<cmd.val>>
    BY <1>4 DEF Stored
  <2>2. Cached(cmd, old) = IF old = <<>> THEN <<>> ELSE <<cmd.val>>
    BY <1>4 DEF Cached
  <2> QED BY <1>2, <1>4, <2>1, <2>2 DEF Content
<1>5. CASE cmd.op = "setvx"
  <2>1. Stored(cmd, old) \in {<<cmd.val>>, old}
    BY <1>5 DEF Stored
  <2>2. Cached(cmd, old) = IF old = <<>> THEN <<>> ELSE <<cmd.val>>
    BY <1>5 DEF Cached
  <2> QED BY <1>2, <1>5, <2>1, <2>2 DEF Content
<1>6. CASE cmd.op \in {"del", "unlink"}
  <2>1. Stored(cmd, old) = <<>> /\ Cached(cmd, old) = <<>>
    BY <1>6 DEF Stored, Cached
  <2> QED BY <1>2, <1>6, <2>1 DEF Content
<1>7. CASE cmd.op = "lpush"
  <2>1. Stored(cmd, old) = <<cmd.val>> \o old /\ <<cmd.val>> \o old \in Seq(Values)
    BY <1>2, <1>7, ConcatProperties DEF Stored
  <2>2. Cached(cmd, old) = IF old = <<>> THEN <<>> ELSE <<cmd.val>> \o old
    BY <1>7 DEF Cached
  <2> QED BY <1>2, <1>7, <2>1, <2>2 DEF Content
<1>8. CASE cmd.op = "lpop"
  <2>1. Stored(cmd, old) = SubSeq(old, cmd.arg + 1, Len(old))
    BY <1>8 DEF Stored
  <2>2. cmd.arg \in 1..2 /\ \A i \in (cmd.arg + 1)..Len(old) : old[i] \in Values
    BY <1>1, <1>2, <1>8
  <2>3. SubSeq(old, cmd.arg + 1, Len(old)) \in Seq(Values)
    BY <2>2, <1>2, SubSeqProperties
  <2>4. Cached(cmd, old) = IF old = <<>> THEN <<>> ELSE Tail(old)
    BY <1>8 DEF Cached
  <2>5. old # <<>> => Tail(old) \in Seq(Values) /\ Tail(old) = SubSeq(old, 2, Len(old))
    BY <1>2, HeadTailProperties, TailIsSubSeq
  <2>6. old = <<>> => SubSeq(old, cmd.arg + 1, Len(old)) = <<>>
    <3> SUFFICES ASSUME old = <<>> PROVE SubSeq(old, cmd.arg + 1, Len(old)) = <<>>
      OBVIOUS
    <3>1. Len(old) = 0 /\ Len(old) \in Int /\ cmd.arg + 1 \in Int /\ Len(old) < cmd.arg + 1
      BY <2>2
    <3> QED BY <3>1, SubSeqEmpty
  <2>7. cmd.arg = 1 => SubSeq(old, cmd.arg + 1, Len(old)) = SubSeq(old, 2, Len(old))
    OBVIOUS
  <2>8. Stored(cmd, old) \in Content /\ Cached(cmd, old) \in Content
    BY <2>1, <2>3, <2>4, <2>5, <1>2 DEF Content
  <2>9. old = <<>> => Stored(cmd, old) = old /\ Cached(cmd, old) = <<>>
    BY <2>1, <2>4, <2>6
  <2>10. old # <<>> /\ cmd.arg = 1 => Cached(cmd, old) = Stored(cmd, old)
    BY <2>1, <2>4, <2>5, <2>7
  <2> QED BY <2>8, <2>9, <2>10, <1>8
<1> QED BY <1>3, <1>4, <1>5, <1>6, <1>7, <1>8

-----------------------------------------------------------------------------
(* What a step keeps of the clients that do not take it *)

(* Client d goes on as it was; what it may return can only have grown. *)
Alike(d) ==
  /\ client'[d].pc = client[d].pc /\ client'[d].cmd = client[d].cmd
  /\ client'[d].through = client[d].through /\ client'[d].missed = client[d].missed
  /\ client'[d].content = client[d].content /\ client[d].fresh \subseteq client'[d].fresh

PCs == {"idle", "rtc", "rtcread", "queued", "locked", "readcache", "miss", "do",
        "update", "schedule", "release"}

(* A step that changes the record of client c alone. *)
LEMMA ClientUpdate ==
  ASSUME TypeOK, NEW c \in Clients, NEW new \in Client, client' = [client EXCEPT ![c] = new]
  PROVE  /\ client' \in [Clients -> Client] /\ client'[c] = new
         /\ \A d \in Clients \ {c} : client'[d] = client[d] /\ Alike(d)
BY DEF TypeOK, Alike

(* A step that moves client c alone. *)
LEMMA GotoFacts ==
  ASSUME TypeOK, NEW c \in Clients, NEW pc \in PCs, client' = Goto(c, pc)
  PROVE  /\ client' \in [Clients -> Client]
         /\ client'[c].pc = pc /\ client'[c].cmd = client[c].cmd
         /\ client'[c].through = client[c].through /\ client'[c].missed = client[c].missed
         /\ client'[c].content = client[c].content /\ client'[c].fresh = client[c].fresh
         /\ \A d \in Clients \ {c} : client'[d] = client[d] /\ Alike(d)
<1>1. client[c] \in Client /\ client \in [Clients -> Client]
  BY DEF TypeOK
<1> DEFINE new == [client[c] EXCEPT !.pc = pc]
<1>2. /\ new \in Client /\ new.pc = pc /\ new.cmd = client[c].cmd /\ new.through = client[c].through
      /\ new.missed = client[c].missed /\ new.content = client[c].content /\ new.fresh = client[c].fresh
  BY <1>1 DEF Client, PCs
<1>3. client' = [client EXCEPT ![c] = new]
  BY <1>1 DEF Goto
<1> HIDE DEF new
<1> QED BY <1>2, <1>3, ClientUpdate

(* A step of client c keeps PcInv if c ends where it may. *)
LEMMA PcKept ==
  ASSUME PcInv, NEW c \in Clients, \A d \in Clients \ {c} : Alike(d), PcOK(c)'
  PROVE  PcInv'
<1> SUFFICES ASSUME NEW d \in Clients PROVE PcOK(d)'
  BY DEF PcInv
<1>1. CASE d = c
  BY <1>1
<1>2. CASE d # c
  <2>1. PcOK(d) /\ Alike(d)
    BY <1>2 DEF PcInv
  <2> QED BY <2>1 DEF PcOK, Alike
<1> QED BY <1>1, <1>2

(* A client that does not move has the locks it had. *)
LEMMA HeldKept ==
  ASSUME NEW d \in Clients, Alike(d)
  PROVE  Held(d)' = Held(d)
BY DEF Held, Alike

(* Record locks stay apart when client c adds only keys that were free. *)
LEMMA LocksKept ==
  ASSUME LockInv, NEW c \in Clients, \A d \in Clients \ {c} : Alike(d),
         NEW X, X \cap locked = {}, Held(c)' \subseteq Held(c) \cup X, locked \cup X \subseteq locked',
         loader' # <<>> => loader # <<>> /\ loader'.key = loader.key
  PROVE  LockInv'
<1>1. \A d \in Clients \ {c} : Held(d)' = Held(d)
  BY HeldKept
<1>2. \A d \in Clients : Held(d) \subseteq locked
  BY DEF LockInv
<1>3. \A a \in Clients : \A b \in Clients \ {a} : Held(a) \cap Held(b) = {}
  BY DEF LockInv
<1>4. loader # <<>> => loader.key \in locked /\ \A d \in Clients : loader.key \notin Held(d)
  BY DEF LockInv
<1> HIDE DEF Held
<1>5. \A d \in Clients : Held(d)' \subseteq locked'
  BY <1>1, <1>2
<1>6. \A d \in Clients \ {c} : Held(c)' \cap Held(d)' = {}
  BY <1>1, <1>2, <1>3
<1>7. ASSUME NEW a \in Clients, NEW b \in Clients \ {a} PROVE Held(a)' \cap Held(b)' = {}
  <2>1. CASE a = c
    BY <2>1, <1>6
  <2>2. CASE b = c
    BY <2>2, <1>6
  <2>3. CASE a # c /\ b # c
    BY <2>3, <1>1, <1>3
  <2> QED BY <2>1, <2>2, <2>3
<1>8. loader' # <<>> => loader'.key \in locked' /\ \A d \in Clients : loader'.key \notin Held(d)'
  BY <1>1, <1>4
<1> QED BY <1>5, <1>7, <1>8 DEF LockInv

(* The clients under way are as many or fewer. *)
LEMMA TasksKept ==
  ASSUME TypeOK, TasksInv, NEW c \in Clients, \A d \in Clients \ {c} : Alike(d),
         client[c].pc \notin {"idle", "release"}, UNCHANGED <<tasks, sent>>
  PROVE  TasksInv'
<1>1. Active' \subseteq Active
  BY DEF Active, Alike
<1>2. IsFiniteSet(Active') /\ Cardinality(Active') <= Cardinality(Active)
  BY <1>1, FS_Subset DEF TasksInv
<1>3. tasks \in Nat /\ sent \in Nat /\ Cardinality(Active) \in Nat /\ Cardinality(Active') \in Nat
  BY <1>2, FS_CardinalityType, CacheAssumption DEF TypeOK, TasksInv
<1> QED BY <1>2, <1>3 DEF TasksInv

(* Whoever is to schedule a task still is. *)
LEMMA FlagKept ==
  ASSUME FlagWillBeReset, NEW c \in Clients, \A d \in Clients \ {c} : Alike(d),
         client[c].pc # "schedule", UNCHANGED <<disabled, tasks, bg>>
  PROVE  FlagWillBeReset'
BY DEF FlagWillBeReset, Alike

(* A step of client c that touches neither the clearing nor the loading of    *)
(* the cache.                                                                 *)
LEMMA StructKept ==
  ASSUME StructInv, NEW c \in Clients, client' \in [Clients -> Client],
         \A d \in Clients \ {c} : Alike(d), PcOK(c)',
         client[c].pc \notin {"idle", "release", "schedule"},
         NEW X \in SUBSET (Keys \cup {AllKeys}), X \cap locked = {},
         Held(c)' \subseteq Held(c) \cup X, locked' = locked \cup X,
         db' \in [Keys -> Content], cache' \in [Keys -> Content], stale' \in [Keys -> SUBSET Ways],
         faults' \in 0..MaxFaults, UNCHANGED <<clearVars, loading, sent>>,
         loader' \in {<<>>} \cup [key: ListKeys, content: Content, flushed: BOOLEAN],
         loader' # <<>> => loader # <<>> /\ loader'.key = loader.key
  PROVE  StructInv'
<1>1. TypeOK /\ PcInv /\ LockInv /\ TasksInv /\ StatusInv /\ LoadInv /\ FlagWillBeReset
  BY DEF StructInv
<1>2. UNCHANGED <<status, disabled, tasks, bg, loading, sent>>
  BY DEF clearVars
<1>3. TypeOK'
  BY <1>1, <1>2 DEF TypeOK
<1>4. PcInv'
  BY <1>1, PcKept
<1>5. LockInv'
  BY <1>1, <1>2, LocksKept
<1>6. TasksInv'
  BY <1>1, <1>2, TasksKept
<1>7. StatusInv' /\ LoadInv'
  BY <1>1, <1>2 DEF StatusInv, LoadInv
<1>8. FlagWillBeReset'
  BY <1>1, <1>2, FlagKept
<1> QED BY <1>3, <1>4, <1>5, <1>6, <1>7, <1>8 DEF StructInv

(* Nothing that excuses key k is lost, and what is cached stays. *)
Stays(k) ==
  /\ cache'[k] = cache[k] /\ (stale[k] # {} => stale'[k] # {})
  /\ FlushUnderWay => FlushUnderWay'
  /\ CacheUnused => CacheUnused'
  /\ bg = "flush" => bg' = "flush"

(* A read that does not move may return what it finds. *)
LEMMA ReadKept ==
  ASSUME NEW d \in Clients, PcOK(d), ReadOK(d), Alike(d), \A k \in Keys : Right(k)' \/ Stays(k),
         client[d].pc # "idle" /\ IsRead(client[d].cmd) => db'[client[d].cmd.key] \in client'[d].fresh
  PROVE  ReadOK(d)'
<1> DEFINE k == client[d].cmd.key
<1> SUFFICES ASSUME client[d].pc # "idle", IsRead(client[d].cmd)
             PROVE  ReadOK(d)'
  BY DEF ReadOK, Alike
<1>1. /\ client'[d].pc = client[d].pc /\ client'[d].cmd = client[d].cmd
      /\ client'[d].through = client[d].through /\ client'[d].missed = client[d].missed
      /\ client[d].fresh \subseteq client'[d].fresh
  BY DEF Alike
<1>2. db'[k] \in client'[d].fresh /\ k \in Keys
  BY CommandFacts DEF PcOK
<1>3. CASE cache'[k] \in {<<>>, db'[k]} \/ stale'[k] # {}
  <2>1. cache'[k] \in {<<>>} \cup client'[d].fresh \/ stale'[k] # {}
    BY <1>2, <1>3
  <2> QED BY <1>1, <1>2, <2>1 DEF ReadOK
<1>4. CASE Stays(k)
  BY <1>1, <1>2, <1>4 DEF ReadOK, Stays
<1>5. (cache'[k] \in {<<>>, db'[k]} \/ stale'[k] # {}) \/ Stays(k)
  <2> HIDE DEF k
  <2> QED BY <1>2 DEF Right
<1> QED BY <1>3, <1>4, <1>5

(* A write that does not move can still do in the cache what it has done. *)
LEMMA UpdateKept ==
  ASSUME NEW d \in Clients, UpdateOK(d), Alike(d),
         client[d].pc = "update" /\ IsWrite(client[d].cmd) =>
           LET k == client[d].cmd.key IN
           /\ db'[k] = db[k]
           /\ \/ cache'[k] = <<>> \/ stale'[k] # {}
              \/ Stays(k)
  PROVE  UpdateOK(d)'
<1> DEFINE k == client[d].cmd.key
           cmd == client[d].cmd
<1> SUFFICES ASSUME client[d].pc = "update", cmd.op \in {"set", "lpush", "lpop"}
             PROVE  UpdateOK(d)'
  BY DEF UpdateOK, Alike
<1>1. client'[d].pc = "update" /\ client'[d].cmd = cmd
  BY DEF Alike
<1>2. db'[k] = db[k] /\ (cache'[k] = <<>> \/ stale'[k] # {} \/ Stays(k))
  BY DEF IsWrite
<1>3. /\ cmd.op = "set" => db[k] = <<cmd.val>>
      /\ cmd.op \in {"lpush", "lpop"} =>
           cache[k] = <<>> \/ stale[k] # {} \/ FlushUnderWay \/ Stored(cmd, cache[k]) = db[k]
  BY DEF UpdateOK
<1> HIDE DEF k, cmd
<1>4. /\ cmd.op = "set" => db'[k] = <<cmd.val>>
      /\ cmd.op \in {"lpush", "lpop"} =>
           cache'[k] = <<>> \/ stale'[k] # {} \/ FlushUnderWay' \/ Stored(cmd, cache'[k]) = db'[k]
  BY <1>2, <1>3 DEF Stays
<1> QED BY <1>1, <1>4 DEF UpdateOK, k, cmd

(* A read that does not move has what the storage holds, if that is kept. *)
LEMMA FillKept ==
  ASSUME NEW d \in Clients, FillOK(d), Alike(d),
         client[d].pc = "update" /\ IsRead(client[d].cmd) =>
           db'[client[d].cmd.key] = db[client[d].cmd.key]
  PROVE  FillOK(d)'
BY DEF FillOK, Alike

(* Clients that are to change the cache still are, but for c. *)
LEMMA UpdatingKept ==
  ASSUME NEW c \in Clients, \A d \in Clients \ {c} : Alike(d),
         client[c].pc \in {"update", "schedule"} => IsRead(client[c].cmd)
  PROVE  /\ \A k : Updating(k) => Updating(k)'
         /\ \A pcs \in SUBSET {"update", "schedule"} : Flushing(pcs) => Flushing(pcs)'
<1>1. ASSUME NEW k, Updating(k) PROVE Updating(k)'
  <2>1. PICK d \in Clients : client[d].pc = "update" /\ client[d].cmd.key = k /\ IsWrite(client[d].cmd)
    BY <1>1 DEF Updating
  <2>2. d # c
    BY <2>1 DEF IsWrite, IsRead
  <2> QED BY <2>1, <2>2 DEF Updating, Alike
<1>2. ASSUME NEW pcs \in SUBSET {"update", "schedule"}, Flushing(pcs) PROVE Flushing(pcs)'
  <2>1. PICK d \in Clients : client[d].pc \in pcs /\ client[d].cmd.op = "flushdb"
    BY <1>2 DEF Flushing
  <2>2. d # c
    BY <2>1 DEF IsRead
  <2> QED BY <2>1, <2>2 DEF Flushing, Alike
<1> QED BY <1>1, <1>2

(* All that the invariant says of a client that does not move. *)
LEMMA OthersKept ==
  ASSUME StructInv, DataInv, NEW d \in Clients, Alike(d), \A k \in Keys : Right(k)' \/ Stays(k),
         client[d].pc # "idle" /\ IsRead(client[d].cmd) => db'[client[d].cmd.key] \in client'[d].fresh,
         client[d].pc = "update" /\ (IsRead(client[d].cmd) \/ IsWrite(client[d].cmd)) =>
           db'[client[d].cmd.key] = db[client[d].cmd.key],
         client[d].pc = "update" /\ IsWrite(client[d].cmd) =>
           LET k == client[d].cmd.key IN cache'[k] = <<>> \/ stale'[k] # {} \/ Stays(k)
  PROVE  FillOK(d)' /\ UpdateOK(d)' /\ ReadOK(d)'
<1>1. FillOK(d) /\ UpdateOK(d) /\ ReadOK(d) /\ PcOK(d)
  BY DEF DataInv, StructInv, PcInv
<1>2. FillOK(d)'
  BY <1>1, FillKept
<1>3. UpdateOK(d)'
  BY <1>1, UpdateKept
<1>4. ReadOK(d)'
  BY <1>1, ReadKept
<1> QED BY <1>2, <1>3, <1>4

(* A step of client c that changes neither storage nor cache, nor how it is   *)
(* cleared.                                                                   *)
LEMMA DataKept ==
  ASSUME StructInv, DataInv, NEW c \in Clients, \A d \in Clients \ {c} : Alike(d),
         client[c].pc \in {"update", "schedule"} => IsRead(client[c].cmd),
         UNCHANGED <<db, cache, stale, tasks, bg, disabled, loader>>,
         FillOK(c)', UpdateOK(c)', ReadOK(c)'
  PROVE  DataInv'
<1>1. /\ \A k : Updating(k) => Updating(k)'
      /\ \A pcs \in SUBSET {"update", "schedule"} : Flushing(pcs) => Flushing(pcs)'
  BY UpdatingKept
<1>2. (FlushUnderWay => FlushUnderWay') /\ (CacheUnused => CacheUnused')
  BY <1>1 DEF FlushUnderWay, CacheUnused, FlushToCome
<1>3. \A k \in Keys : Stays(k)
  BY <1>2 DEF Stays
<1>4. ASSUME NEW k \in Keys PROVE Coherent(k)'
  <2>1. Coherent(k)
    BY DEF DataInv
  <2>2. Right(k) => Right(k)'
    BY DEF Right
  <2>3. (Flushing({"update"}) => Flushing({"update"})') /\ (Flushing({"schedule"}) => Flushing({"schedule"})')
    BY <1>1
  <2> QED BY <2>1, <2>2, <2>3, <1>1, <1>2 DEF Coherent
<1>5. ASSUME NEW d \in Clients \ {c} PROVE FillOK(d)' /\ UpdateOK(d)' /\ ReadOK(d)'
  <2>1. client[d].pc # "idle" /\ IsRead(client[d].cmd) => db'[client[d].cmd.key] \in client'[d].fresh
    BY DEF ReadOK, Alike, DataInv
  <2>2. client[d].pc = "update" /\ IsWrite(client[d].cmd) => client[d].cmd.key \in Keys
    BY CommandFacts DEF PcOK, StructInv, PcInv
  <2> QED BY <2>1, <2>2, <1>3, OthersKept
<1>6. LoaderOK'
  BY DEF DataInv, LoaderOK
<1> QED BY <1>4, <1>5, <1>6 DEF DataInv

(* A step of client c that changes itself and locks at most. *)
LEMMA QuietStep ==
  ASSUME CacheInv, NEW c \in Clients, NEW new \in Client, client' = [client EXCEPT ![c] = new],
         client[c].pc \notin {"idle", "release", "schedule"},
         client[c].pc = "update" => IsRead(client[c].cmd),
         NEW X \in SUBSET (Keys \cup {AllKeys}), X \cap locked = {}, locked' = locked \cup X,
         UNCHANGED <<db, cache, clearVars, loadVars, boundVars, stale>>,
         PcOK(c)', Held(c)' \subseteq Held(c) \cup X,
         FillOK(c)', UpdateOK(c)', ReadOK(c)'
  PROVE  CacheInv'
<1>1. StructInv /\ DataInv /\ TypeOK
  BY DEF CacheInv, StructInv
<1>2. client' \in [Clients -> Client] /\ \A d \in Clients \ {c} : Alike(d)
  BY <1>1, ClientUpdate
<1>3. StructInv'
  <2>1. UNCHANGED <<db, cache, stale, faults, sent, clearVars, loadVars>>
    BY DEF boundVars
  <2>2. /\ faults' \in 0..MaxFaults /\ db' \in [Keys -> Content] /\ cache' \in [Keys -> Content]
        /\ stale' \in [Keys -> SUBSET Ways] /\ UNCHANGED <<loading, loader>>
        /\ loader' \in {<<>>} \cup [key: ListKeys, content: Content, flushed: BOOLEAN]
    BY <2>1, <1>1 DEF TypeOK, loadVars
  <2> QED BY <2>1, <2>2, <1>1, <1>2, StructKept
<1>4. DataInv'
  <2>1. UNCHANGED <<db, cache, stale, tasks, bg, disabled, loader>>
    BY DEF clearVars, loadVars
  <2> QED BY <2>1, <1>1, <1>2, DataKept
<1> QED BY <1>3, <1>4 DEF CacheInv

(* What such a step leaves as it is for the reads. *)
LEMMA QuietFacts ==
  ASSUME TypeOK, NEW c \in Clients, NEW new \in Client, client' = [client EXCEPT ![c] = new],
         client[c].pc \in {"update", "schedule"} => IsRead(client[c].cmd),
         UNCHANGED clearVars
  PROVE  /\ client'[c] = new
         /\ (FlushUnderWay => FlushUnderWay') /\ (CacheUnused => CacheUnused') /\ bg' = bg
<1>1. client'[c] = new /\ \A d \in Clients \ {c} : Alike(d)
  BY ClientUpdate
<1>2. UNCHANGED <<status, disabled, tasks, bg>>
  BY DEF clearVars
<1> QED BY <1>1, <1>2, UpdatingKept DEF FlushUnderWay, FlushToCome, CacheUnused

-----------------------------------------------------------------------------
(* Reads *)

(* Cmd::DoReadCommandInCache. *)
LEMMA DoReadCommandInCacheStep ==
  ASSUME CacheInv, NEW c \in Clients, DoReadCommandInCache(c)
  PROVE  CacheInv'
<1>1. TypeOK /\ PcOK(c) /\ ReadOK(c) /\ client[c] \in Client
  BY DEF CacheInv, StructInv, PcInv, DataInv, TypeOK
<1>2. client[c].pc = "rtc" /\ UNCHANGED <<db, cache, locked, clearVars, loadVars, boundVars, stale>>
  BY DEF DoReadCommandInCache
<1>3. \E new \in Client :
        /\ client' = [client EXCEPT ![c] = new]
        /\ new.pc \in {"rtcread", "queued"} /\ new.cmd = client[c].cmd /\ new.through = client[c].through
        /\ new.fresh = client[c].fresh /\ (new.pc = "queued" => new.missed)
  <2>1. CASE status = "ok"
    <3> DEFINE new == [client[c] EXCEPT !.pc = "rtcread"]
    <3>1. client' = [client EXCEPT ![c] = new]
      BY <2>1, <1>1 DEF DoReadCommandInCache, Goto, TypeOK
    <3>2. /\ new \in Client /\ new.pc = "rtcread" /\ new.cmd = client[c].cmd
          /\ new.through = client[c].through /\ new.fresh = client[c].fresh
      BY <1>1 DEF Client
    <3> HIDE DEF new
    <3> QED BY <3>1, <3>2
  <2>2. CASE status # "ok"
    <3> DEFINE new == [client[c] EXCEPT !.pc = "queued", !.missed = TRUE]
    <3>1. client' = [client EXCEPT ![c] = new]
      BY <2>2, <1>1 DEF DoReadCommandInCache, TypeOK
    <3>2. /\ new \in Client /\ new.pc = "queued" /\ new.cmd = client[c].cmd /\ new.missed = TRUE
          /\ new.through = client[c].through /\ new.fresh = client[c].fresh
      BY <1>1 DEF Client
    <3> HIDE DEF new
    <3> QED BY <3>1, <3>2
  <2> QED BY <2>1, <2>2
<1>4. PICK new \in Client :
        /\ client' = [client EXCEPT ![c] = new]
        /\ new.pc \in {"rtcread", "queued"} /\ new.cmd = client[c].cmd /\ new.through = client[c].through
        /\ new.fresh = client[c].fresh /\ (new.pc = "queued" => new.missed)
  BY <1>3
<1>5. client'[c] = new /\ (FlushUnderWay => FlushUnderWay')
  BY <1>1, <1>2, <1>4, QuietFacts
<1>6. IsRead(client[c].cmd) /\ ~client[c].through
  BY <1>1, <1>2 DEF PcOK, IsRead
<1>7. PcOK(c)' /\ Held(c)' = {}
  BY <1>1, <1>2, <1>4, <1>5, <1>6 DEF PcOK, Held
<1>8. FillOK(c)' /\ UpdateOK(c)'
  BY <1>4, <1>5 DEF FillOK, UpdateOK
<1>9. ReadOK(c)'
  BY <1>1, <1>2, <1>4, <1>5, <1>6 DEF ReadOK
<1> QED
  <2>1. {} \in SUBSET (Keys \cup {AllKeys}) /\ {} \cap locked = {} /\ locked' = locked \cup {}
    BY <1>2
  <2> QED BY <2>1, <1>2, <1>4, <1>7, <1>8, <1>9, QuietStep

(* GetCmd::ReadCache on the network thread. *)
LEMMA RtcReadCacheStep ==
  ASSUME CacheInv, NEW c \in Clients, RtcReadCache(c)
  PROVE  CacheInv'
<1>1. TypeOK /\ PcOK(c) /\ ReadOK(c) /\ client[c] \in Client
  BY DEF CacheInv, StructInv, PcInv, DataInv, TypeOK
<1>2. client[c].pc = "rtcread" /\ UNCHANGED <<db, cache, locked, clearVars, loadVars, boundVars, stale>>
  BY DEF RtcReadCache
<1>3. IsRead(client[c].cmd) /\ ~client[c].through /\ client[c].cmd.key \in Keys
  BY <1>1, <1>2, CommandFacts DEF PcOK, IsRead
<1> DEFINE found == cache[client[c].cmd.key]
           new == [client[c] EXCEPT !.pc = IF found # <<>> THEN "release" ELSE "queued",
                                    !.missed = (found = <<>>), !.content = found]
<1>4. client' = [client EXCEPT ![c] = new]
  BY <1>1 DEF RtcReadCache, TypeOK
<1>5. found \in Content
  BY <1>1, <1>3 DEF TypeOK
<1>6. /\ new \in Client /\ new.pc \in {"release", "queued"} /\ new.cmd = client[c].cmd
      /\ new.through = client[c].through /\ new.fresh = client[c].fresh /\ (new.pc = "queued" => new.missed)
  <2> HIDE DEF found
  <2> QED BY <1>1, <1>5 DEF Client
<1> HIDE DEF new, found
<1>7. client'[c] = new
  BY <1>1, <1>2, <1>4, <1>6, QuietFacts
<1>8. PcOK(c)' /\ Held(c)' = {}
  BY <1>1, <1>2, <1>3, <1>6, <1>7 DEF PcOK, Held, IsRead, IsWrite
<1>9. FillOK(c)' /\ UpdateOK(c)' /\ ReadOK(c)'
  BY <1>1, <1>2, <1>3, <1>6, <1>7 DEF FillOK, UpdateOK, ReadOK
<1> QED
  <2>1. {} \in SUBSET (Keys \cup {AllKeys}) /\ {} \cap locked = {} /\ locked' = locked \cup {}
    BY <1>2
  <2> QED BY <2>1, <1>2, <1>4, <1>6, <1>8, <1>9, QuietStep

(* Cmd::DoCommand: the status is looked at under the shared lock. *)
LEMMA DoCommandStep ==
  ASSUME CacheInv, NEW c \in Clients, DoCommand(c)
  PROVE  CacheInv'
<1>1. TypeOK /\ PcOK(c) /\ ReadOK(c) /\ StatusInv /\ client[c] \in Client
  BY DEF CacheInv, StructInv, PcInv, DataInv, TypeOK
<1>2. client[c].pc = "locked" /\ UNCHANGED <<db, cache, locked, clearVars, loadVars, boundVars, stale>>
  BY DEF DoCommand
<1> DEFINE cmd == client[c].cmd
           through == client[c].through /\ status = "ok"
           pc == IF ~(through /\ IsRead(cmd)) THEN "do" ELSE IF client[c].missed THEN "miss" ELSE "readcache"
           new == [client[c] EXCEPT !.through = through, !.pc = pc]
<1>3. client' = [client EXCEPT ![c] = new]
  BY <1>1 DEF DoCommand, TypeOK
<1>4. pc \in {"do", "miss", "readcache"} /\ through \in BOOLEAN
  BY <1>1 DEF Client
<1>5. /\ new \in Client /\ new.pc = pc /\ new.cmd = cmd /\ new.through = through
      /\ new.missed = client[c].missed /\ new.fresh = client[c].fresh
  <2> HIDE DEF pc, through
  <2> QED BY <1>1, <1>4 DEF Client
<1>6. /\ pc \in {"miss", "readcache"} => through /\ IsRead(cmd)
      /\ pc = "readcache" => ~client[c].missed
      /\ through => client[c].through /\ bg # "flush"
      /\ pc = "do" /\ IsRead(cmd) => ~through
  BY <1>1 DEF StatusInv
<1> HIDE DEF new, pc, through
<1>7. client'[c] = new
  BY <1>1, <1>2, <1>3, <1>5, QuietFacts
<1>8. PcOK(c)'
  BY <1>1, <1>2, <1>4, <1>5, <1>6, <1>7 DEF PcOK
<1>9. Held(c)' = Held(c)
  BY <1>2, <1>4, <1>5, <1>6, <1>7 DEF Held, IsRead, IsWrite
<1>10. FillOK(c)' /\ UpdateOK(c)'
  BY <1>4, <1>5, <1>7 DEF FillOK, UpdateOK
<1>11. ReadOK(c)'
  BY <1>1, <1>2, <1>4, <1>5, <1>6, <1>7 DEF ReadOK
<1> QED
  <2>1. /\ {} \in SUBSET (Keys \cup {AllKeys}) /\ {} \cap locked = {} /\ locked' = locked \cup {}
        /\ Held(c)' \subseteq Held(c) \cup {}
    BY <1>2, <1>9
  <2> QED BY <2>1, <1>2, <1>3, <1>5, <1>8, <1>10, <1>11, QuietStep

(* ReadCache of GET and LRANGE. *)
LEMMA ReadCacheStep ==
  ASSUME CacheInv, NEW c \in Clients, ReadCache(c)
  PROVE  CacheInv'
<1>1. TypeOK /\ PcOK(c) /\ ReadOK(c) /\ client[c] \in Client
  BY DEF CacheInv, StructInv, PcInv, DataInv, TypeOK
<1>2. client[c].pc = "readcache" /\ UNCHANGED <<db, cache, locked, clearVars, loadVars, boundVars, stale>>
  BY DEF ReadCache
<1>3. IsRead(client[c].cmd) /\ client[c].through /\ client[c].cmd.key \in Keys
  BY <1>1, <1>2, CommandFacts DEF PcOK
<1> DEFINE found == cache[client[c].cmd.key]
           new == [client[c] EXCEPT !.pc = IF found # <<>> THEN "release" ELSE "miss",
                                    !.through = (found = <<>>), !.content = found]
<1>4. client' = [client EXCEPT ![c] = new]
  BY <1>1 DEF ReadCache, TypeOK
<1>5. found \in Content
  BY <1>1, <1>3 DEF TypeOK
<1>6. /\ new \in Client /\ new.pc \in {"release", "miss"} /\ new.cmd = client[c].cmd
      /\ new.through = (found = <<>>) /\ new.fresh = client[c].fresh
      /\ new.pc = "release" <=> found # <<>>
  <2> HIDE DEF found
  <2> QED BY <1>1, <1>5 DEF Client
<1> HIDE DEF new, found
<1>7. client'[c] = new
  BY <1>1, <1>2, <1>4, <1>6, QuietFacts
<1>8. PcOK(c)' /\ Held(c)' = {}
  BY <1>1, <1>2, <1>3, <1>6, <1>7 DEF PcOK, Held, IsRead, IsWrite
<1>9. FillOK(c)' /\ UpdateOK(c)' /\ ReadOK(c)'
  BY <1>1, <1>2, <1>3, <1>6, <1>7 DEF FillOK, UpdateOK, ReadOK
<1> QED
  <2>1. {} \in SUBSET (Keys \cup {AllKeys}) /\ {} \cap locked = {} /\ locked' = locked \cup {}
    BY <1>2
  <2> QED BY <2>1, <1>2, <1>4, <1>6, <1>8, <1>9, QuietStep

(* A read that missed takes the record lock. *)
LEMMA LockMissedStep ==
  ASSUME CacheInv, NEW c \in Clients, LockMissed(c)
  PROVE  CacheInv'
<1>1. TypeOK /\ PcOK(c) /\ ReadOK(c) /\ client[c] \in Client
  BY DEF CacheInv, StructInv, PcInv, DataInv, TypeOK
<1>2. /\ client[c].pc = "miss" /\ client[c].cmd.key \notin locked
      /\ locked' = locked \cup {client[c].cmd.key}
      /\ UNCHANGED <<db, cache, clearVars, loadVars, boundVars, stale>>
  BY DEF LockMissed
<1>3. IsRead(client[c].cmd) /\ client[c].through /\ client[c].cmd.key \in Keys
  BY <1>1, <1>2, CommandFacts DEF PcOK
<1> DEFINE new == [client[c] EXCEPT !.pc = "do"]
<1>4. client' = [client EXCEPT ![c] = new]
  BY <1>1 DEF LockMissed, Goto, TypeOK
<1>5. /\ new \in Client /\ new.pc = "do" /\ new.cmd = client[c].cmd
      /\ new.through = client[c].through /\ new.fresh = client[c].fresh
  BY <1>1 DEF Client
<1> HIDE DEF new
<1>6. client'[c] = new
  BY <1>1, <1>2, <1>4, <1>5, QuietFacts
<1>7. PcOK(c)' /\ Held(c)' = {client[c].cmd.key}
  BY <1>1, <1>2, <1>3, <1>5, <1>6 DEF PcOK, Held, IsRead, IsWrite
<1>8. FillOK(c)' /\ UpdateOK(c)' /\ ReadOK(c)'
  BY <1>1, <1>2, <1>3, <1>5, <1>6 DEF FillOK, UpdateOK, ReadOK
<1> QED
  <2>1. /\ {client[c].cmd.key} \in SUBSET (Keys \cup {AllKeys}) /\ {client[c].cmd.key} \cap locked = {}
        /\ Held(c)' \subseteq Held(c) \cup {client[c].cmd.key}
    BY <1>2, <1>3, <1>7
  <2> QED BY <2>1, <1>2, <1>4, <1>5, <1>7, <1>8, QuietStep

(* Do of a read, which has the record lock if it is to fill the cache. *)
LEMMA DoReadStep ==
  ASSUME CacheInv, NEW c \in Clients, DoRead(c)
  PROVE  CacheInv'
<1>1. TypeOK /\ PcOK(c) /\ ReadOK(c) /\ client[c] \in Client
  BY DEF CacheInv, StructInv, PcInv, DataInv, TypeOK
<1>2. /\ client[c].pc = "do" /\ IsRead(client[c].cmd)
      /\ UNCHANGED <<db, cache, locked, clearVars, loadVars, boundVars, stale>>
  BY DEF DoRead
<1>3. client[c].cmd.key \in Keys
  BY <1>1, <1>2, CommandFacts DEF PcOK
<1> DEFINE found == db[client[c].cmd.key]
           pc == IF client[c].through /\ found # <<>> THEN "update" ELSE "release"
           new == [client[c] EXCEPT !.content = found, !.pc = pc]
<1>4. client' = [client EXCEPT ![c] = new]
  BY <1>1 DEF DoRead, TypeOK
<1>5. found \in Content /\ pc \in {"update", "release"} /\ (pc = "update" => client[c].through)
  BY <1>1, <1>3 DEF TypeOK
<1>6. /\ new \in Client /\ new.pc = pc /\ new.cmd = client[c].cmd /\ new.content = found
      /\ new.through = client[c].through /\ new.fresh = client[c].fresh
  <2> HIDE DEF found, pc
  <2> QED BY <1>1, <1>5 DEF Client
<1> HIDE DEF new, pc
<1>7. client'[c] = new
  BY <1>1, <1>2, <1>4, <1>6, QuietFacts
<1>8. PcOK(c)'
  BY <1>1, <1>2, <1>3, <1>5, <1>6, <1>7 DEF PcOK, IsRead
<1>9. Held(c)' = Held(c)
  BY <1>2, <1>5, <1>6, <1>7 DEF Held
<1>10. FillOK(c)' /\ UpdateOK(c)' /\ ReadOK(c)'
  BY <1>1, <1>2, <1>5, <1>6, <1>7 DEF FillOK, UpdateOK, ReadOK, IsRead
<1> QED
  <2>1. /\ {} \in SUBSET (Keys \cup {AllKeys}) /\ {} \cap locked = {} /\ locked' = locked \cup {}
        /\ Held(c)' \subseteq Held(c) \cup {}
    BY <1>2, <1>9
  <2> QED BY <2>1, <1>2, <1>4, <1>6, <1>8, <1>10, QuietStep

-----------------------------------------------------------------------------
(* Commands come and go *)

(* One more client is under way, and one more command was sent. *)
LEMMA TasksGrow ==
  ASSUME TypeOK, TasksInv, NEW c \in Clients, \A d \in Clients \ {c} : Alike(d),
         tasks' = tasks, sent' = sent + 1
  PROVE  TasksInv'
<1>1. Active' \subseteq Active \cup {c}
  BY DEF Active, Alike
<1>2. /\ IsFiniteSet(Active \cup {c}) /\ Cardinality(Active) \in Nat
      /\ Cardinality(Active \cup {c}) \in {Cardinality(Active), Cardinality(Active) + 1}
  BY FS_AddElement, FS_CardinalityType DEF TasksInv
<1>3. IsFiniteSet(Active') /\ Cardinality(Active') <= Cardinality(Active \cup {c})
  BY <1>1, <1>2, FS_Subset
<1>4. tasks \in Nat /\ sent \in Nat /\ Cardinality(Active') \in Nat
  BY <1>3, FS_CardinalityType, CacheAssumption DEF TypeOK
<1> QED BY <1>2, <1>3, <1>4 DEF TasksInv

(* PikaClientConn::ProcessRedisCmds: a command arrives. *)
LEMMA ProcessRedisCmdsStep ==
  ASSUME CacheInv, NEW c \in Clients, ProcessRedisCmds(c)
  PROVE  CacheInv'
<1>1. /\ StructInv /\ DataInv /\ TypeOK /\ PcInv /\ LockInv /\ TasksInv /\ StatusInv /\ LoadInv
      /\ FlagWillBeReset
  BY DEF CacheInv, StructInv
<1>2. /\ client[c].pc = "idle" /\ sent < MaxCommands /\ sent' = sent + 1
      /\ UNCHANGED <<db, cache, locked, status, disabled, tasks, bg, loading, loader, faults, stale>>
  BY DEF ProcessRedisCmds, clearVars, loadVars
<1>3. PICK cmd \in Commands :
        client' = [client EXCEPT ![c] =
            [NoClient EXCEPT
               !.pc = IF RtcRead /\ cmd.op = "get" THEN "rtc" ELSE "queued",
               !.cmd = cmd,
               !.fresh = IF ~IsRead(cmd) THEN {}
                         ELSE {db[cmd.key]} \cup (IF Changing(cmd.key) THEN {cache[cmd.key]} ELSE {})]]
  BY DEF ProcessRedisCmds
<1> DEFINE pc == IF RtcRead /\ cmd.op = "get" THEN "rtc" ELSE "queued"
           fresh == IF ~IsRead(cmd) THEN {}
                    ELSE {db[cmd.key]} \cup (IF Changing(cmd.key) THEN {cache[cmd.key]} ELSE {})
           new == [NoClient EXCEPT !.pc = pc, !.cmd = cmd, !.fresh = fresh]
<1>4. pc \in {"rtc", "queued"} /\ (pc = "rtc" => cmd.op = "get") /\ cmd \in Command
  BY CommandFacts
<1>5. fresh \in SUBSET Content
  <2>1. IsRead(cmd) => db[cmd.key] \in Content /\ cache[cmd.key] \in Content
    BY <1>1, CommandFacts DEF TypeOK
  <2> QED BY <2>1
<1>6. client' = [client EXCEPT ![c] = new]
  BY <1>3
<1>7. /\ new \in Client /\ new.pc = pc /\ new.cmd = cmd /\ new.through = FALSE /\ new.missed = FALSE
      /\ new.fresh = fresh
  <2>1. <<>> \in Content
    BY DEF Content
  <2> HIDE DEF pc, fresh
  <2> QED BY <2>1, <1>4, <1>5 DEF Client, NoClient
<1> HIDE DEF new, pc
<1>8. client' \in [Clients -> Client] /\ client'[c] = new /\ \A d \in Clients \ {c} : Alike(d)
  BY <1>1, <1>6, <1>7, ClientUpdate
<1>9. StructInv'
  <2>1. TypeOK'
    <3>1. sent' \in 0..MaxCommands
      BY <1>1, <1>2, CacheAssumption DEF TypeOK
    <3> QED BY <3>1, <1>1, <1>2, <1>8 DEF TypeOK
  <2>2. PcOK(c)' /\ Held(c)' = {}
    BY <1>4, <1>7, <1>8 DEF PcOK, Held
  <2>3. PcInv'
    BY <2>2, <1>1, <1>8, PcKept
  <2>4. LockInv'
    <3>1. {} \cap locked = {} /\ locked \cup {} \subseteq locked' /\ Held(c)' \subseteq Held(c) \cup {}
      BY <2>2, <1>2
    <3> QED BY <3>1, <1>1, <1>2, <1>8, LocksKept
  <2>5. TasksInv'
    BY <1>1, <1>2, <1>8, TasksGrow
  <2>6. StatusInv' /\ LoadInv'
    BY <1>1, <1>2 DEF StatusInv, LoadInv
  <2>7. FlagWillBeReset'
    BY <1>1, <1>2, <1>8, FlagKept
  <2> QED BY <2>1, <2>3, <2>4, <2>5, <2>6, <2>7 DEF StructInv
<1>10. FillOK(c)' /\ UpdateOK(c)'
  BY <1>4, <1>7, <1>8 DEF FillOK, UpdateOK
<1>11. ReadOK(c)'
  <2> SUFFICES ASSUME IsRead(cmd) PROVE ReadOK(c)'
    BY <1>7, <1>8 DEF ReadOK
  <2> DEFINE k == cmd.key
             Found == cache[k] \in {<<>>} \cup fresh \/ stale[k] # {}
  <2>1. db[k] \in fresh /\ k \in Keys /\ (Changing(k) => cache[k] \in fresh)
    BY CommandFacts
  <2> HIDE DEF fresh
  <2>2. Right(k) \/ Updating(k) \/ CacheUnused \/ Flushing({"update"}) \/ Flushing({"schedule"})
    BY <2>1, <1>1 DEF DataInv, Coherent
  <2>3. Flushing({"update"}) \/ Flushing({"schedule"}) => Flushing({"update", "schedule"})
    BY DEF Flushing
  <2>4. Found \/ CacheUnused
    BY <2>1, <2>2, <2>3 DEF Right, Changing
  <2>5. CacheUnused => CacheUnused' /\ FlushUnderWay'
    BY <1>2 DEF CacheUnused, FlushUnderWay, FlushToCome
  <2> HIDE DEF Changing
  <2> QED BY <2>1, <2>4, <2>5, <1>2, <1>4, <1>7, <1>8 DEF ReadOK
<1>12. DataInv'
  BY <1>1, <1>2, <1>8, <1>10, <1>11, DataKept
<1> QED BY <1>9, <1>12 DEF CacheInv

(* The locks of a client are those it releases. *)
LEMMA ReleaseStep ==
  ASSUME CacheInv, NEW c \in Clients, Release(c)
  PROVE  CacheInv'
<1>1. /\ StructInv /\ DataInv /\ TypeOK /\ PcInv /\ LockInv /\ TasksInv /\ StatusInv /\ LoadInv
      /\ FlagWillBeReset
  BY DEF CacheInv, StructInv
<1>2. /\ client[c].pc = "release" /\ locked' = locked \ LocksOf(c)
      /\ client' = [client EXCEPT ![c] = NoClient]
      /\ UNCHANGED <<db, cache, status, disabled, tasks, bg, loading, loader, sent, faults, stale>>
  BY DEF Release, clearVars, loadVars, boundVars
<1>3. NoClient \in Client /\ NoClient.pc = "idle"
  BY DEF Client, NoClient, Content
<1>4. client' \in [Clients -> Client] /\ client'[c] = NoClient /\ \A d \in Clients \ {c} : Alike(d)
  BY <1>1, <1>2, <1>3, ClientUpdate
<1>5. LocksOf(c) = Held(c)
  BY <1>2 DEF LocksOf, Held
<1>6. Held(c)' = {} /\ PcOK(c)'
  BY <1>3, <1>4 DEF Held, PcOK
<1>7. StructInv'
  <2>1. TypeOK'
    BY <1>1, <1>2, <1>4 DEF TypeOK
  <2>2. PcInv'
    BY <1>1, <1>4, <1>6, PcKept
  <2>3. LockInv'
    <3>1. \A d \in Clients \ {c} : Held(d)' = Held(d)
      BY <1>4, HeldKept
    <3>2. \A d \in Clients : Held(d) \subseteq locked
      BY <1>1 DEF LockInv
    <3>3. \A a \in Clients : \A b \in Clients \ {a} : Held(a) \cap Held(b) = {}
      BY <1>1 DEF LockInv
    <3>4. loader # <<>> => loader.key \in locked /\ \A d \in Clients : loader.key \notin Held(d)
      BY <1>1 DEF LockInv
    <3>5. \A d \in Clients : Held(d)' \subseteq locked'
      BY <1>2, <1>5, <1>6, <3>1, <3>2, <3>3
    <3>6. ASSUME NEW a \in Clients, NEW b \in Clients \ {a} PROVE Held(a)' \cap Held(b)' = {}
      BY <3>1, <3>3, <1>6
    <3>7. loader' # <<>> => loader'.key \in locked' /\ \A d \in Clients : loader'.key \notin Held(d)'
      BY <3>1, <3>4, <1>2, <1>5, <1>6
    <3> QED BY <3>5, <3>6, <3>7 DEF LockInv
  <2>4. TasksInv'
    <3>1. Active' \subseteq Active
      BY <1>3, <1>4 DEF Active, Alike
    <3>2. IsFiniteSet(Active') /\ Cardinality(Active') <= Cardinality(Active)
      BY <3>1, <1>1, FS_Subset DEF TasksInv
    <3>3. tasks \in Nat /\ sent \in Nat /\ Cardinality(Active) \in Nat /\ Cardinality(Active') \in Nat
      BY <3>2, <1>1, FS_CardinalityType, CacheAssumption DEF TypeOK, TasksInv
    <3> QED BY <3>2, <3>3, <1>1, <1>2 DEF TasksInv
  <2>5. StatusInv' /\ LoadInv'
    BY <1>1, <1>2 DEF StatusInv, LoadInv
  <2>6. FlagWillBeReset'
    BY <1>1, <1>2, <1>4, FlagKept
  <2> QED BY <2>1, <2>2, <2>3, <2>4, <2>5, <2>6 DEF StructInv
<1>8. FillOK(c)' /\ UpdateOK(c)' /\ ReadOK(c)'
  BY <1>3, <1>4 DEF FillOK, UpdateOK, ReadOK
<1>9. DataInv'
  BY <1>1, <1>2, <1>4, <1>8, DataKept
<1> QED BY <1>7, <1>9 DEF CacheInv

(* Whoever disables the cache is to schedule a task. *)
LEMMA DisableStep ==
  ASSUME CacheInv, NEW c \in Clients, client' = Goto(c, "schedule"), disabled' = TRUE,
         \/ client[c].pc = "queued" /\ client[c].cmd.op = "clear"
         \/ client[c].pc = "update" /\ client[c].cmd.op = "flushdb",
         UNCHANGED <<db, cache, locked, status, tasks, bg, loadVars, boundVars, stale>>
  PROVE  CacheInv'
<1>1. /\ StructInv /\ DataInv /\ TypeOK /\ PcInv /\ LockInv /\ TasksInv /\ StatusInv /\ LoadInv
      /\ PcOK(c)
  BY DEF CacheInv, StructInv, PcInv
<1>2. UNCHANGED <<db, cache, locked, status, tasks, bg, loading, loader, sent, faults, stale>>
  BY DEF loadVars, boundVars
<1>3. /\ client' \in [Clients -> Client] /\ client'[c].pc = "schedule"
      /\ client'[c].cmd = client[c].cmd /\ \A d \in Clients \ {c} : client'[d] = client[d] /\ Alike(d)
  <2>1. "schedule" \in PCs
    BY DEF PCs
  <2> QED BY <2>1, <1>1, GotoFacts
<1>4. client[c].cmd.op \in {"flushdb", "clear"} /\ ~IsRead(client[c].cmd) /\ ~IsWrite(client[c].cmd)
  BY DEF IsRead, IsWrite
<1>5. PcOK(c)' /\ Held(c)' \subseteq Held(c)
  BY <1>1, <1>3, <1>4 DEF PcOK, Held
<1>6. StructInv'
  <2>1. TypeOK'
    BY <1>1, <1>2, <1>3 DEF TypeOK
  <2>2. PcInv'
    BY <1>1, <1>3, <1>5, PcKept
  <2>3. LockInv'
    <3>1. {} \cap locked = {} /\ locked \cup {} \subseteq locked' /\ Held(c)' \subseteq Held(c) \cup {}
      BY <1>2, <1>5
    <3> QED BY <3>1, <1>1, <1>2, <1>3, LocksKept
  <2>4. TasksInv'
    BY <1>1, <1>2, <1>3, TasksKept
  <2>5. StatusInv' /\ LoadInv' /\ FlagWillBeReset'
    BY <1>1, <1>2, <1>3 DEF StatusInv, LoadInv, FlagWillBeReset
  <2> QED BY <2>1, <2>2, <2>3, <2>4, <2>5 DEF StructInv
<1>7. /\ \A k : Updating(k) => Updating(k)'
      /\ Flushing({"update", "schedule"}) => Flushing({"update", "schedule"})'
      /\ Flushing({"update"}) \/ Flushing({"schedule"}) => Flushing({"update"})' \/ Flushing({"schedule"})'
  BY <1>3, <1>4 DEF Updating, Flushing
<1>8. (FlushUnderWay => FlushUnderWay') /\ (CacheUnused => CacheUnused')
  BY <1>2, <1>7 DEF FlushUnderWay, CacheUnused, FlushToCome
<1>9. \A k \in Keys : Stays(k)
  BY <1>2, <1>8 DEF Stays
<1>10. DataInv'
  <2>1. ASSUME NEW k \in Keys PROVE Coherent(k)'
    <3>1. Coherent(k) /\ (Right(k) => Right(k)')
      BY <1>1, <1>2 DEF DataInv, Right
    <3> QED BY <3>1, <1>7, <1>8 DEF Coherent
  <2>2. FillOK(c)' /\ UpdateOK(c)' /\ ReadOK(c)'
    BY <1>3, <1>4 DEF FillOK, UpdateOK, ReadOK
  <2>3. ASSUME NEW d \in Clients \ {c} PROVE FillOK(d)' /\ UpdateOK(d)' /\ ReadOK(d)'
    <3>1. client[d].pc # "idle" /\ IsRead(client[d].cmd) => db'[client[d].cmd.key] \in client'[d].fresh
      BY <1>1, <1>2, <1>3 DEF ReadOK, DataInv
    <3>2. client[d].pc = "update" /\ IsWrite(client[d].cmd) => client[d].cmd.key \in Keys
      BY <1>1, CommandFacts DEF PcOK, PcInv
    <3> QED BY <3>1, <3>2, <1>1, <1>2, <1>3, <1>9, OthersKept
  <2>4. LoaderOK'
    BY <1>1, <1>2 DEF DataInv, LoaderOK
  <2> QED BY <2>1, <2>2, <2>3, <2>4 DEF DataInv
<1> QED BY <1>6, <1>10 DEF CacheInv

(* PikaServer::ClearCacheDbAsync sets the flag. *)
LEMMA ClearCacheDbAsyncStep ==
  ASSUME CacheInv, NEW c \in Clients, ClearCacheDbAsync(c)
  PROVE  CacheInv'
BY DisableStep DEF ClearCacheDbAsync

(* Cmd::InternalProcessCommand takes the record lock of a write, and a read   *)
(* that is to use the cache has seen that it is not disabled.                 *)
LEMMA InternalProcessCommandStep ==
  ASSUME CacheInv, NEW c \in Clients, InternalProcessCommand(c)
  PROVE  CacheInv'
<1>1. TypeOK /\ PcOK(c) /\ ReadOK(c) /\ client[c] \in Client
  BY DEF CacheInv, StructInv, PcInv, DataInv, TypeOK
<1> DEFINE cmd == client[c].cmd
<1>2. /\ client[c].pc = "queued"
      /\ UNCHANGED <<db, cache, status, tasks, bg, loadVars, boundVars, stale>>
  BY DEF InternalProcessCommand
<1>3. CASE cmd.op = "clear"
  <2>1. disabled' = TRUE /\ client' = Goto(c, "schedule") /\ UNCHANGED locked
    BY <1>3 DEF InternalProcessCommand
  <2> QED BY <2>1, <1>2, <1>3, DisableStep
<1>4. CASE cmd.op # "clear"
  <2> DEFINE pc == IF cmd.exec THEN "do" ELSE "locked"
             through == UsesCache(cmd) /\ (IF cmd.exec THEN IsWrite(cmd) ELSE ~disabled)
             new == [client[c] EXCEPT !.pc = pc, !.through = through]
             X == IF IsRead(cmd) \/ (cmd.op = "flushdb" /\ cmd.exec) THEN {} ELSE {cmd.key}
  <2>1. client' = [client EXCEPT ![c] = new] /\ UNCHANGED disabled
    BY <1>1, <1>4 DEF InternalProcessCommand, TypeOK
  <2>2. X \cap locked = {} /\ locked' = locked \cup X
    BY <1>4 DEF InternalProcessCommand
  <2>3. UNCHANGED <<db, cache, clearVars, loadVars, boundVars, stale>>
    BY <1>2, <2>1 DEF clearVars
  <2>4. /\ cmd \in Commands /\ cmd.key \in Keys \cup {AllKeys} /\ cmd.exec \in BOOLEAN
        /\ cmd.exec => ~IsRead(cmd)
        /\ cmd.op \in {"get", "set", "setvx", "del", "unlink", "lrange", "lpush", "lpop", "flushdb",
                         "clear"}
    BY <1>1, <1>2, CommandFacts DEF PcOK, IsRead
  <2>5. X \in SUBSET (Keys \cup {AllKeys})
    BY <2>4
  <2>6. /\ pc \in {"do", "locked"} /\ through \in BOOLEAN /\ (pc = "do" <=> cmd.exec)
        /\ (pc = "do" /\ cmd.op = "flushdb" => ~through) /\ (pc = "locked" /\ through => ~disabled)
    <3>1. CASE cmd.exec
      <4>1. pc = "do" /\ through = (UsesCache(cmd) /\ IsWrite(cmd)) /\ through \in BOOLEAN
        BY <3>1 DEF IsWrite, UsesCache
      <4>2. cmd.op = "flushdb" => ~IsWrite(cmd)
        BY DEF IsWrite
      <4> QED BY <4>1, <4>2, <3>1
    <3>2. CASE ~cmd.exec
      <4>1. pc = "locked" /\ through = (UsesCache(cmd) /\ ~disabled) /\ through \in BOOLEAN
        BY <3>2, <1>1 DEF TypeOK, UsesCache
      <4> QED BY <4>1, <3>2
    <3> QED BY <3>1, <3>2
  <2>7. /\ new \in Client /\ new.pc = pc /\ new.cmd = cmd /\ new.through = through
        /\ new.missed = client[c].missed /\ new.fresh = client[c].fresh
    <3> HIDE DEF pc, through
    <3> QED BY <1>1, <2>6 DEF Client
  <2> HIDE DEF new, pc, through
  <2>8. client'[c] = new /\ (CacheUnused => bg = "flush" \/ disabled) /\ bg' = bg
    BY <1>1, <1>2, <2>1, <2>3, <2>7, QuietFacts DEF CacheUnused
  <2>9. PcOK(c)'
    BY <1>4, <2>4, <2>6, <2>7, <2>8 DEF PcOK
  <2>10. Held(c)' \subseteq Held(c) \cup X
    BY <2>4, <2>6, <2>7, <2>8 DEF Held, IsRead, IsWrite
  <2>11. FillOK(c)' /\ UpdateOK(c)'
    BY <2>6, <2>7, <2>8 DEF FillOK, UpdateOK
  <2>12. ReadOK(c)'
    BY <1>1, <1>2, <2>3, <2>4, <2>6, <2>7, <2>8 DEF ReadOK
  <2> HIDE DEF X
  <2> QED BY <1>2, <2>1, <2>2, <2>3, <2>5, <2>7, <2>9, <2>10, <2>11, <2>12, QuietStep
<1> QED BY <1>3, <1>4

-----------------------------------------------------------------------------
(* Filling the cache *)

(* No key is queued twice, so that the queue is as long as there are lists at most. *)
LEMMA LoadBound ==
  ASSUME NEW q \in Seq(ListKeys), \A i, j \in DOMAIN q : q[i] = q[j] => i = j
  PROVE  Len(q) <= Cardinality(ListKeys)
<1>1. Len(q) \in Nat /\ DOMAIN q = 1..Len(q) /\ q \in [1..Len(q) -> ListKeys]
  BY LenProperties, ElementOfSeq
<1>2. q \in Injection(1..Len(q), ListKeys)
  BY <1>1 DEF Injection, IsInjective
<1>3. IsFiniteSet(1..Len(q)) /\ Cardinality(1..Len(q)) = Len(q)
  BY <1>1, FS_Interval
<1>4. Cardinality(1..Len(q)) <= Cardinality(ListKeys)
  BY <1>2, CacheAssumption, FS_Injection DEF ExistsInjection
<1> QED BY <1>3, <1>4

(* PikaCacheLoadThread::Push. *)
LEMMA PushStep ==
  ASSUME CacheInv, NEW c \in Clients, Push(c)
  PROVE  CacheInv'
<1>1. /\ StructInv /\ DataInv /\ TypeOK /\ PcInv /\ LockInv /\ TasksInv /\ StatusInv /\ LoadInv
      /\ PcOK(c) /\ ReadOK(c) /\ FlagWillBeReset
  BY DEF CacheInv, StructInv, PcInv, DataInv
<1> DEFINE k == client[c].cmd.key
<1>2. /\ client[c].pc = "update" /\ client[c].cmd.op = "lrange" /\ client' = Goto(c, "release")
      /\ loading' = (IF k \in LoadKeys THEN loading ELSE Append(loading, k))
      /\ UNCHANGED <<db, cache, locked, status, disabled, tasks, bg, loader, sent, faults, stale>>
  BY DEF Push, clearVars, boundVars
<1>3. /\ client' \in [Clients -> Client] /\ client'[c].pc = "release"
      /\ client'[c].cmd = client[c].cmd /\ client'[c].through = client[c].through
      /\ client'[c].fresh = client[c].fresh /\ \A d \in Clients \ {c} : Alike(d)
  <2>1. "release" \in PCs
    BY DEF PCs
  <2> QED BY <2>1, <1>1, <1>2, GotoFacts
<1>4. IsRead(client[c].cmd) /\ client[c].through /\ k \in ListKeys
  BY <1>1, <1>2, CommandFacts DEF PcOK, IsRead
<1>5. loading' \in Seq(ListKeys) /\ LoadInv'
  <2>1. CASE k \in LoadKeys
    BY <2>1, <1>1, <1>2 DEF LoadInv, TypeOK
  <2>2. CASE k \notin LoadKeys
    <3>1. loading \in Seq(ListKeys) /\ loading' = Append(loading, k) /\ loader' = loader
      BY <2>2, <1>1, <1>2 DEF TypeOK
    <3> HIDE DEF k
    <3>2. loading' \in Seq(ListKeys) /\ Len(loading) \in Nat /\ DOMAIN loading = 1..Len(loading)
      BY <3>1, <1>4
    <3>3. /\ DOMAIN loading' = 1..(Len(loading) + 1)
          /\ \A i \in 1..Len(loading) : loading'[i] = loading[i]
          /\ loading'[Len(loading) + 1] = k
      BY <3>1, <1>4, AppendProperties
    <3>4. (\A i \in DOMAIN loading : loading[i] # k) /\ (loader # <<>> => loader.key # k)
      BY <2>2 DEF LoadKeys
    <3>5. \A i \in DOMAIN loading' : i \in DOMAIN loading \/ i = Len(loading) + 1
      BY <3>2, <3>3
    <3>6. /\ \A i, j \in DOMAIN loading : loading[i] = loading[j] => i = j
          /\ loader # <<>> => \A i \in DOMAIN loading : loading[i] # loader.key
      BY <1>1 DEF LoadInv
    <3>7. ASSUME NEW i \in DOMAIN loading', NEW j \in DOMAIN loading', loading'[i] = loading'[j]
          PROVE  i = j
      BY <3>2, <3>3, <3>4, <3>5, <3>6, <3>7
    <3>8. loader' # <<>> => \A i \in DOMAIN loading' : loading'[i] # loader'.key
      BY <3>1, <3>2, <3>3, <3>4, <3>5, <3>6
    <3> QED BY <3>2, <3>7, <3>8 DEF LoadInv
  <2> QED BY <2>1, <2>2
<1>6. PcOK(c)' /\ Held(c)' \subseteq Held(c)
  BY <1>1, <1>2, <1>3, <1>4 DEF PcOK, Held
<1>7. StructInv'
  <2>1. TypeOK'
    <3>1. Len(loading') <= Cardinality(ListKeys)
      BY <1>5, LoadBound DEF LoadInv
    <3> QED BY <3>1, <1>1, <1>2, <1>3, <1>5 DEF TypeOK
  <2>2. PcInv'
    BY <1>1, <1>3, <1>6, PcKept
  <2>3. LockInv'
    <3>1. {} \cap locked = {} /\ locked \cup {} \subseteq locked' /\ Held(c)' \subseteq Held(c) \cup {}
      BY <1>2, <1>6
    <3> QED BY <3>1, <1>1, <1>2, <1>3, LocksKept
  <2>4. TasksInv'
    BY <1>1, <1>2, <1>3, TasksKept
  <2>5. StatusInv'
    BY <1>1, <1>2 DEF StatusInv
  <2>6. FlagWillBeReset'
    BY <1>1, <1>2, <1>3, FlagKept
  <2> QED BY <2>1, <2>2, <2>3, <2>4, <2>5, <2>6, <1>5 DEF StructInv
<1>8. FillOK(c)' /\ UpdateOK(c)' /\ ReadOK(c)'
  BY <1>1, <1>2, <1>3 DEF FillOK, UpdateOK, ReadOK
<1>9. DataInv'
  BY <1>1, <1>2, <1>3, <1>4, <1>8, DataKept
<1> QED BY <1>7, <1>9 DEF CacheInv

(* DoUpdateCache of GET: the record lock has kept what was read. *)
LEMMA FillCacheStep ==
  ASSUME CacheInv, NEW c \in Clients, FillCache(c)
  PROVE  CacheInv'
<1>1. /\ StructInv /\ DataInv /\ TypeOK /\ PcInv /\ LockInv /\ PcOK(c) /\ ReadOK(c) /\ FillOK(c)
      /\ client[c] \in Client
  BY DEF CacheInv, StructInv, PcInv, DataInv, TypeOK
<1>0. client[c].pc = "update" /\ client[c].cmd.op = "get"
  BY DEF FillCache
<1>20. PICK k \in Keys : k = client[c].cmd.key
  BY <1>0, <1>1, CommandFacts DEF PcOK, IsRead
<1>2. /\ client[c].pc = "update" /\ client[c].cmd.op = "get" /\ client' = Goto(c, "release")
      /\ cache' = [cache EXCEPT ![k] = IF @ = <<>> THEN client[c].content ELSE @]
      /\ UNCHANGED <<db, locked, status, disabled, tasks, bg, loading, loader, sent, faults, stale>>
  BY <1>0, <1>20 DEF FillCache, clearVars, loadVars, boundVars
<1>3. /\ client' \in [Clients -> Client] /\ client'[c].pc = "release"
      /\ client'[c].cmd = client[c].cmd /\ client'[c].through = client[c].through
      /\ client'[c].fresh = client[c].fresh
      /\ \A d \in Clients \ {c} : client'[d] = client[d] /\ Alike(d)
  <2>1. "release" \in PCs
    BY DEF PCs
  <2> QED BY <2>1, <1>1, <1>2, GotoFacts
<1>4. IsRead(client[c].cmd) /\ client[c].through /\ client[c].content = db[k]
  BY <1>1, <1>2, <1>20 DEF PcOK, IsRead, FillOK
<1>5. /\ cache' \in [Keys -> Content] /\ (cache'[k] = cache[k] \/ cache'[k] = db[k])
      /\ \A j \in Keys \ {k} : cache'[j] = cache[j]
  BY <1>1, <1>2, <1>4 DEF TypeOK
<1>6. PcOK(c)' /\ Held(c)' \subseteq Held(c) /\ Held(c) = {k}
  BY <1>20, <1>1, <1>2, <1>3, <1>4 DEF PcOK, Held
<1>7. StructInv'
  <2>1. /\ {} \in SUBSET (Keys \cup {AllKeys}) /\ {} \cap locked = {} /\ locked' = locked \cup {}
        /\ Held(c)' \subseteq Held(c) \cup {} /\ UNCHANGED <<clearVars, loading, sent>>
    BY <1>2, <1>6 DEF clearVars
  <2>2. /\ db' \in [Keys -> Content] /\ stale' \in [Keys -> SUBSET Ways] /\ faults' \in 0..MaxFaults
        /\ loader' \in {<<>>} \cup [key: ListKeys, content: Content, flushed: BOOLEAN]
        /\ loader' # <<>> => loader # <<>> /\ loader'.key = loader.key
    BY <1>1, <1>2 DEF TypeOK
  <2> QED BY <2>1, <2>2, <1>1, <1>2, <1>3, <1>5, <1>6, StructKept
<1>8. /\ \A j : Updating(j) => Updating(j)'
      /\ \A pcs \in SUBSET {"update", "schedule"} : Flushing(pcs) => Flushing(pcs)'
  BY <1>3, <1>4, UpdatingKept
<1>9. (FlushUnderWay => FlushUnderWay') /\ (CacheUnused => CacheUnused')
  BY <1>2, <1>8 DEF FlushUnderWay, CacheUnused, FlushToCome
<1>10. Right(k)' \/ Stays(k)
  BY <1>2, <1>5, <1>9 DEF Right, Stays
<1>11. \A j \in Keys \ {k} : Stays(j)
  BY <1>2, <1>5, <1>9 DEF Stays
<1>12. DataInv'
  <2>1. ASSUME NEW j \in Keys PROVE Coherent(j)'
    <3>1. Coherent(j) /\ (Right(j) => Right(j)')
      BY <1>1, <1>2, <1>4, <1>5 DEF DataInv, Right
    <3>2. (Flushing({"update"}) => Flushing({"update"})') /\ (Flushing({"schedule"}) => Flushing({"schedule"})')
      BY <1>8
    <3> QED BY <3>1, <3>2, <1>2, <1>8, <1>9 DEF Coherent
  <2>2. FillOK(c)' /\ UpdateOK(c)' /\ ReadOK(c)'
    BY <1>1, <1>2, <1>3 DEF FillOK, UpdateOK, ReadOK
  <2>3. ASSUME NEW d \in Clients \ {c} PROVE FillOK(d)' /\ UpdateOK(d)' /\ ReadOK(d)'
    <3>1. client[d].pc # "idle" /\ IsRead(client[d].cmd) => db'[client[d].cmd.key] \in client'[d].fresh
      BY <1>1, <1>2, <1>3 DEF ReadOK, DataInv
    <3>2. client[d].pc = "update" /\ IsWrite(client[d].cmd) => client[d].cmd.key \in Keys \ {k}
      <4> SUFFICES ASSUME client[d].pc = "update", IsWrite(client[d].cmd)
                   PROVE  client[d].cmd.key \in Keys \ {k}
        OBVIOUS
      <4>1. client[d].cmd.key \in Keys
        BY <1>1, CommandFacts DEF PcOK, PcInv
      <4>2. Held(d) = {client[d].cmd.key}
        BY DEF Held
      <4>3. Held(c) \cap Held(d) = {}
        BY <1>1 DEF LockInv
      <4> QED BY <4>1, <4>2, <4>3, <1>6
    <3>3. \A j \in Keys : Right(j)' \/ Stays(j)
      BY <1>10, <1>11
    <3> QED BY <3>1, <3>2, <3>3, <1>1, <1>2, <1>3, <1>11, OthersKept
  <2>4. LoaderOK'
    BY <1>1, <1>2 DEF DataInv, LoaderOK
  <2> QED BY <2>1, <2>2, <2>3, <2>4 DEF DataInv
<1> QED BY <1>7, <1>12 DEF CacheInv

-----------------------------------------------------------------------------
(* Changing the storage *)

(* Readers may find what the storage holds now; the clients go on as cl. *)
LEMMA ObservedFacts ==
  ASSUME NEW cl \in [Clients -> Client], db' \in [Keys -> Content], client' = Observed(cl),
         \A d \in Clients : cl[d].pc # "idle" => cl[d].cmd \in Commands
  PROVE  /\ client' \in [Clients -> Client]
         /\ \A d \in Clients :
              /\ client'[d].pc = cl[d].pc /\ client'[d].cmd = cl[d].cmd
              /\ client'[d].through = cl[d].through /\ client'[d].missed = cl[d].missed
              /\ client'[d].content = cl[d].content /\ cl[d].fresh \subseteq client'[d].fresh
              /\ cl[d].pc # "idle" /\ IsRead(cl[d].cmd) => db'[cl[d].cmd.key] \in client'[d].fresh
<1> DEFINE new(d) == [cl[d] EXCEPT !.fresh = @ \cup {db'[cl[d].cmd.key]}]
<1>1. client' = [d \in Clients |-> IF cl[d].pc # "idle" /\ IsRead(cl[d].cmd) THEN new(d) ELSE cl[d]]
  BY DEF Observed
<1>2. ASSUME NEW d \in Clients, cl[d].pc # "idle", IsRead(cl[d].cmd)
      PROVE  /\ new(d) \in Client /\ new(d).pc = cl[d].pc /\ new(d).cmd = cl[d].cmd
             /\ new(d).through = cl[d].through /\ new(d).missed = cl[d].missed
             /\ new(d).content = cl[d].content /\ new(d).fresh = cl[d].fresh \cup {db'[cl[d].cmd.key]}
  <2>1. cl[d].cmd.key \in Keys /\ cl[d] \in Client
    BY <1>2, CommandFacts
  <2>2. db'[cl[d].cmd.key] \in Content
    BY <2>1
  <2> QED BY <2>1, <2>2 DEF Client
<1> HIDE DEF new
<1>3. client' \in [Clients -> Client]
  BY <1>1, <1>2
<1>4. ASSUME NEW d \in Clients
      PROVE  /\ client'[d].pc = cl[d].pc /\ client'[d].cmd = cl[d].cmd
             /\ client'[d].through = cl[d].through /\ client'[d].missed = cl[d].missed
             /\ client'[d].content = cl[d].content /\ cl[d].fresh \subseteq client'[d].fresh
             /\ cl[d].pc # "idle" /\ IsRead(cl[d].cmd) => db'[cl[d].cmd.key] \in client'[d].fresh
  <2>1. CASE cl[d].pc # "idle" /\ IsRead(cl[d].cmd)
    BY <2>1, <1>1, <1>2
  <2>2. CASE ~(cl[d].pc # "idle" /\ IsRead(cl[d].cmd))
    BY <2>2, <1>1
  <2> QED BY <2>1, <2>2
<1> QED BY <1>3, <1>4

(* ... and with client c having gone on to pc. *)
LEMMA ObservedGoto ==
  ASSUME TypeOK, PcInv, db' \in [Keys -> Content], NEW c \in Clients, client[c].pc # "idle",
         NEW pc \in PCs \ {"idle"}, client' = Observed(Goto(c, pc))
  PROVE  /\ client' \in [Clients -> Client]
         /\ client'[c].pc = pc /\ client'[c].cmd = client[c].cmd /\ client'[c].through = client[c].through
         /\ \A d \in Clients \ {c} :
              /\ Alike(d)
              /\ client[d].pc # "idle" /\ IsRead(client[d].cmd) =>
                   db'[client[d].cmd.key] \in client'[d].fresh
<1> DEFINE new == [client[c] EXCEPT !.pc = pc]
           cl == Goto(c, pc)
<1>1. new \in Client /\ new.pc = pc /\ new.cmd = client[c].cmd /\ new.through = client[c].through
  BY DEF Client, PCs, TypeOK
<1>2. cl = [client EXCEPT ![c] = new]
  BY DEF Goto, TypeOK
<1> HIDE DEF new
<1>3. cl \in [Clients -> Client] /\ cl[c] = new /\ \A d \in Clients \ {c} : cl[d] = client[d]
  BY <1>1, <1>2 DEF TypeOK
<1>4. \A d \in Clients : cl[d].pc # "idle" => cl[d].cmd \in Commands
  BY <1>1, <1>3 DEF PcInv, PcOK
<1> HIDE DEF cl
<1>5. /\ client' \in [Clients -> Client]
      /\ \A d \in Clients :
           /\ client'[d].pc = cl[d].pc /\ client'[d].cmd = cl[d].cmd
           /\ client'[d].through = cl[d].through /\ client'[d].missed = cl[d].missed
           /\ client'[d].content = cl[d].content /\ cl[d].fresh \subseteq client'[d].fresh
           /\ cl[d].pc # "idle" /\ IsRead(cl[d].cmd) => db'[cl[d].cmd.key] \in client'[d].fresh
  <2>1. client' = Observed(cl)
    BY DEF cl
  <2> QED BY <2>1, <1>3, <1>4, ObservedFacts
<1> QED BY <1>1, <1>3, <1>5 DEF Alike

(* Do of a write: the record lock keeps away whoever fills or changes the     *)
(* cached content of its key.                                                 *)
LEMMA DoWriteStep ==
  ASSUME CacheInv, NEW c \in Clients, DoWrite(c)
  PROVE  CacheInv'
<1>1. StructInv /\ DataInv /\ TypeOK /\ PcInv /\ LockInv /\ PcOK(c) /\ client[c] \in Client
  BY DEF CacheInv, StructInv, PcInv, DataInv, TypeOK
<1> DEFINE cmd == client[c].cmd
           ok == cmd.op = "lpop" => db[cmd.key] # <<>>
           pc == IF client[c].through /\ ok THEN "update" ELSE "release"
           way == IF UsesCache(cmd) THEN "bypass" ELSE "unlink"
<1>2. /\ client[c].pc = "do" /\ IsWrite(cmd) /\ client' = Observed(Goto(c, pc))
      /\ db' = [db EXCEPT ![cmd.key] = Stored(cmd, @)]
      /\ stale' = (IF client[c].through \/ CacheUnused \/ db' = db THEN stale
                   ELSE [stale EXCEPT ![cmd.key] = IF cache[cmd.key] = <<>> THEN @ ELSE @ \cup {way}])
      /\ UNCHANGED <<cache, locked, status, disabled, tasks, bg, loading, loader, sent, faults>>
  BY DEF DoWrite, clearVars, loadVars, boundVars
<1>3. cmd \in Commands /\ cmd.key \in Keys
  BY <1>1, <1>2, CommandFacts DEF PcOK
<1>4. PICK k \in Keys : k = cmd.key
  BY <1>3
<1>5. /\ db' \in [Keys -> Content] /\ db'[k] = Stored(cmd, db[k])
      /\ \A j \in Keys \ {k} : db'[j] = db[j]
  <2>1. db[k] \in Content
    BY <1>1 DEF TypeOK
  <2>2. Stored(cmd, db[k]) \in Content
    BY <2>1, <1>2, <1>3, ContentFacts
  <2> HIDE DEF cmd
  <2> QED BY <2>2, <1>1, <1>2, <1>4 DEF TypeOK
<1>6. /\ stale' \in [Keys -> SUBSET Ways]
      /\ \A j \in Keys : stale[j] # {} => stale'[j] # {}
      /\ client[c].through => stale' = stale
      /\ ~client[c].through => CacheUnused \/ db' = db \/ cache[k] = <<>> \/ stale'[k] # {}
  <2>1. CASE client[c].through \/ CacheUnused \/ db' = db
    BY <2>1, <1>1, <1>2 DEF TypeOK
  <2>2. CASE ~(client[c].through \/ CacheUnused \/ db' = db)
    <3>1. stale' = [stale EXCEPT ![k] = IF cache[k] = <<>> THEN @ ELSE @ \cup {way}]
      BY <2>2, <1>2, <1>4
    <3>2. way \in Ways /\ stale \in [Keys -> SUBSET Ways]
      BY <1>1 DEF Ways, TypeOK
    <3> HIDE DEF way
    <3>3. stale' \in [Keys -> SUBSET Ways] /\ \A j \in Keys \ {k} : stale'[j] = stale[j]
      BY <3>1, <3>2
    <3>4. stale'[k] = IF cache[k] = <<>> THEN stale[k] ELSE stale[k] \cup {way}
      BY <3>1, <3>2
    <3> QED BY <2>2, <3>3, <3>4
  <2> QED BY <2>1, <2>2
<1>7. /\ pc \in PCs \ {"idle"} /\ pc \in {"update", "release"}
      /\ pc = "update" => client[c].through
      /\ pc = "release" => ~client[c].through \/ (cmd.op = "lpop" /\ db[k] = <<>>)
  BY <1>4 DEF PCs
<1>8. /\ client' \in [Clients -> Client]
      /\ client'[c].pc = pc /\ client'[c].cmd = cmd /\ client'[c].through = client[c].through
      /\ \A d \in Clients \ {c} :
           /\ Alike(d)
           /\ client[d].pc # "idle" /\ IsRead(client[d].cmd) =>
                db'[client[d].cmd.key] \in client'[d].fresh
  <2> HIDE DEF pc
  <2> QED BY <1>1, <1>2, <1>5, <1>7, ObservedGoto
<1>9. ~IsRead(cmd) /\ cmd.op \notin {"flushdb", "clear"}
  BY <1>2 DEF IsRead, IsWrite
<1> HIDE DEF pc
<1>10. PcOK(c)' /\ Held(c)' = {k} /\ Held(c) = {k}
  BY <1>1, <1>2, <1>4, <1>7, <1>8, <1>9 DEF PcOK, Held
<1>11. StructInv'
  <2>1. /\ {} \in SUBSET (Keys \cup {AllKeys}) /\ {} \cap locked = {} /\ locked' = locked \cup {}
        /\ Held(c)' \subseteq Held(c) \cup {} /\ UNCHANGED <<clearVars, loading, sent>>
    BY <1>2, <1>10 DEF clearVars
  <2>2. /\ cache' \in [Keys -> Content] /\ faults' \in 0..MaxFaults
        /\ loader' \in {<<>>} \cup [key: ListKeys, content: Content, flushed: BOOLEAN]
        /\ loader' # <<>> => loader # <<>> /\ loader'.key = loader.key
    BY <1>1, <1>2 DEF TypeOK
  <2> QED BY <2>1, <2>2, <1>1, <1>2, <1>5, <1>6, <1>8, <1>10, StructKept
<1>12. /\ \A j : Updating(j) => Updating(j)'
       /\ \A pcs \in SUBSET {"update", "schedule"} : Flushing(pcs) => Flushing(pcs)'
  BY <1>2, <1>8, UpdatingKept
<1>13. (FlushUnderWay => FlushUnderWay') /\ (CacheUnused => CacheUnused')
  BY <1>2, <1>12 DEF FlushUnderWay, CacheUnused, FlushToCome
<1>14. \A j \in Keys : Stays(j)
  BY <1>2, <1>6, <1>13 DEF Stays
<1>15. (Flushing({"update"}) => Flushing({"update"})') /\ (Flushing({"schedule"}) => Flushing({"schedule"})')
  BY <1>12
<1>16. ASSUME NEW d \in Clients \ {c}, client[d].pc = "update",
              IsRead(client[d].cmd) \/ IsWrite(client[d].cmd)
       PROVE  client[d].cmd.key \in Keys \ {k}
  <2>1. client[d].cmd.key \in Keys /\ client[d].through
    BY <1>1, <1>16, CommandFacts DEF PcOK, PcInv
  <2>2. Held(d) = {client[d].cmd.key}
    BY <1>16, <2>1 DEF Held
  <2>3. Held(c) \cap Held(d) = {}
    BY <1>1 DEF LockInv
  <2> QED BY <2>1, <2>2, <2>3, <1>10
<1>17. DataInv'
  <2>1. ASSUME NEW j \in Keys PROVE Coherent(j)'
    <3>1. Coherent(j)
      BY <1>1 DEF DataInv
    <3>2. CASE db'[j] = db[j]
      <4>1. Right(j) => Right(j)'
        BY <3>2, <1>2, <1>6 DEF Right
      <4> QED BY <3>1, <4>1, <1>2, <1>12, <1>13, <1>15 DEF Coherent
    <3>3. CASE db'[j] # db[j]
      <4>1. j = k
        BY <3>3, <1>5
      <4>2. CASE pc = "update"
        <5>1. Updating(j)'
          BY <4>1, <4>2, <1>2, <1>4, <1>8 DEF Updating
        <5> QED BY <5>1 DEF Coherent
      <4>3. CASE pc = "release"
        <5>1. ~(cmd.op = "lpop" /\ db[k] = <<>>)
          <6>1. db[k] \in Content
            BY <1>1 DEF TypeOK
          <6>2. cmd.op = "lpop" /\ db[k] = <<>> => Stored(cmd, db[k]) = db[k]
            BY <6>1, <1>2, <1>3, ContentFacts
          <6> QED BY <6>2, <4>1, <3>3, <1>5
        <5>2. CacheUnused \/ cache[k] = <<>> \/ stale'[k] # {}
          BY <5>1, <4>1, <4>3, <3>3, <1>6, <1>7
        <5>3. CacheUnused' \/ Right(j)'
          BY <5>2, <4>1, <1>2, <1>13 DEF Right
        <5> QED BY <5>3 DEF Coherent
      <4> QED BY <4>2, <4>3, <1>7
    <3> QED BY <3>2, <3>3
  <2>2. FillOK(c)' /\ ReadOK(c)'
    BY <1>8, <1>9 DEF FillOK, ReadOK
  <2>3. UpdateOK(c)'
    <3> SUFFICES ASSUME pc = "update" PROVE UpdateOK(c)'
      BY <1>8 DEF UpdateOK
    <3>1. cmd.op = "set" => db'[k] = <<cmd.val>>
      <4>1. db[k] \in Content
        BY <1>1 DEF TypeOK
      <4> QED BY <4>1, <1>2, <1>3, <1>5, ContentFacts
    <3>2. Right(k) \/ CacheUnused \/ Flushing({"update"}) \/ Flushing({"schedule"})
      <4>1. ~Updating(k)
        <5> SUFFICES ASSUME NEW d \in Clients, client[d].pc = "update", client[d].cmd.key = k,
                            IsWrite(client[d].cmd)
                     PROVE  FALSE
          BY DEF Updating
        <5>1. d # c
          BY <1>2
        <5> QED BY <5>1, <1>16
      <4> QED BY <4>1, <1>1 DEF DataInv, Coherent
    <3>3. CacheUnused \/ Flushing({"update"}) \/ Flushing({"schedule"}) => FlushUnderWay
      BY DEF CacheUnused, FlushUnderWay, Flushing
    <3>4. cache'[k] = cache[k] /\ stale'[k] = stale[k]
      BY <1>2, <1>6, <1>7
    <3>5. cache'[k] = <<>> \/ stale'[k] # {} \/ FlushUnderWay' \/ Stored(cmd, cache'[k]) = db'[k]
      BY <3>2, <3>3, <3>4, <1>5, <1>13 DEF Right
    <3> HIDE DEF cmd
    <3> QED BY <3>1, <3>5, <1>4, <1>8 DEF UpdateOK
  <2>4. ASSUME NEW d \in Clients \ {c} PROVE FillOK(d)' /\ UpdateOK(d)' /\ ReadOK(d)'
    <3>1. client[d].pc = "update" /\ (IsRead(client[d].cmd) \/ IsWrite(client[d].cmd)) =>
            client[d].cmd.key \in Keys \ {k}
      BY <1>16
    <3> QED BY <3>1, <1>1, <1>5, <1>8, <1>14, OthersKept
  <2>5. LoaderOK'
    <3>1. loader # <<>> => loader.key \in Keys \ {k}
      <4>1. loader # <<>> => loader.key \notin Held(c)
        BY <1>1 DEF LockInv
      <4>2. loader # <<>> => loader.key \in Keys
        BY <1>1 DEF TypeOK, Keys
      <4> QED BY <4>1, <4>2, <1>10
    <3> QED BY <3>1, <1>1, <1>2, <1>5 DEF DataInv, LoaderOK
  <2> QED BY <2>1, <2>2, <2>3, <2>4, <2>5 DEF DataInv
<1> QED BY <1>11, <1>17 DEF CacheInv

(* The ways recorded for a key stay while it is cached. *)
LEMMA MarkFacts ==
  ASSUME TypeOK, NEW X, NEW way \in Ways, stale' = Mark(X, way)
  PROVE  /\ stale' \in [Keys -> SUBSET Ways]
         /\ \A k \in Keys : cache'[k] # <<>> => (stale[k] # {} \/ k \in X => stale'[k] # {})
<1>1. stale' = [k \in Keys |-> CASE cache'[k] = <<>> -> {}
                    [] k \in X /\ cache'[k] # <<>> -> stale[k] \cup {way}
                    [] OTHER -> stale[k]]
  BY DEF Mark
<1>2. ASSUME NEW k \in Keys
      PROVE  /\ cache'[k] = <<>> => stale'[k] = {}
             /\ cache'[k] # <<>> /\ k \in X => stale'[k] = stale[k] \cup {way}
             /\ cache'[k] # <<>> /\ k \notin X => stale'[k] = stale[k]
  BY <1>1
<1>3. stale \in [Keys -> SUBSET Ways] /\ DOMAIN stale' = Keys
  BY <1>1 DEF TypeOK
<1>4. \A k \in Keys : stale'[k] \in SUBSET Ways
  BY <1>2, <1>3
<1>5. stale' \in [Keys -> SUBSET Ways]
  BY <1>1, <1>3, <1>4
<1> QED BY <1>2, <1>5

(* ... also where nothing is added. *)
LEMMA UnmarkedFacts ==
  ASSUME TypeOK, stale' = Unmarked
  PROVE  /\ stale' \in [Keys -> SUBSET Ways]
         /\ \A k \in Keys : cache'[k] # <<>> => stale'[k] = stale[k]
BY DEF TypeOK, Unmarked

(* The load thread keeps its key, and knows that it is late. *)
LEMMA OvertakenFacts ==
  ASSUME TypeOK, loader' = Overtaken
  PROVE  /\ loader' \in {<<>>} \cup [key: ListKeys, content: Content, flushed: BOOLEAN]
         /\ loader' # <<>> => loader # <<>> /\ loader'.key = loader.key /\ loader'.flushed
<1>1. CASE loader = <<>>
  BY <1>1 DEF Overtaken
<1>2. CASE loader # <<>>
  <2>1. loader \in [key: ListKeys, content: Content, flushed: BOOLEAN]
    BY <1>2 DEF TypeOK
  <2>2. loader' = [loader EXCEPT !.flushed = TRUE]
    BY <1>2 DEF Overtaken
  <2>3. loader' \in [key: ListKeys, content: Content, flushed: BOOLEAN] /\ loader'.key = loader.key
        /\ loader'.flushed
    BY <2>1, <2>2
  <2> QED BY <1>2, <2>3
<1> QED BY <1>1, <1>2

(* No client is between the storage and the cache while the storage is replaced. *)
LEMMA NoneUpdates ==
  ASSUME NoneHoldsShared, NEW d \in Clients, client[d].pc = "update"
  PROVE  ~IsRead(client[d].cmd) /\ ~IsWrite(client[d].cmd)
BY DEF NoneHoldsShared, HoldsShared, IsRead, IsWrite

(* Do of FLUSHDB, under the exclusive lock. *)
LEMMA DoFlushStep ==
  ASSUME CacheInv, NEW c \in Clients, DoFlush(c)
  PROVE  CacheInv'
<1>1. StructInv /\ DataInv /\ TypeOK /\ PcInv /\ LockInv /\ PcOK(c) /\ client[c] \in Client
  BY DEF CacheInv, StructInv, PcInv, DataInv, TypeOK
<1> DEFINE cmd == client[c].cmd
           pc == IF client[c].through THEN "update" ELSE "release"
           way == IF cmd.exec THEN "execflush" ELSE "bypass"
<1>2. /\ client[c].pc = "do" /\ cmd.op = "flushdb" /\ client' = Observed(Goto(c, pc))
      /\ NoneHoldsShared /\ db' = [k \in Keys |-> <<>>] /\ loader' = Overtaken
      /\ stale' = (IF client[c].through \/ CacheUnused THEN stale ELSE Mark(Keys, way))
      /\ UNCHANGED <<cache, locked, status, disabled, tasks, bg, loading, sent, faults>>
  BY DEF DoFlush, clearVars, boundVars
<1>3. db' \in [Keys -> Content]
  BY <1>2 DEF Content
<1>4. /\ stale' \in [Keys -> SUBSET Ways]
      /\ client[c].through \/ CacheUnused \/ \A k \in Keys : cache[k] = <<>> \/ stale'[k] # {}
      /\ \A k \in Keys : cache'[k] = <<>> \/ (stale[k] # {} => stale'[k] # {})
  <2>1. CASE client[c].through \/ CacheUnused
    BY <2>1, <1>1, <1>2 DEF TypeOK
  <2>2. CASE ~(client[c].through \/ CacheUnused)
    <3>1. stale' = Mark(Keys, way) /\ way \in Ways
      BY <2>2, <1>2 DEF Ways
    <3> HIDE DEF way
    <3> QED BY <3>1, <1>1, <1>2, MarkFacts
  <2> QED BY <2>1, <2>2
<1>5. /\ pc \in PCs \ {"idle"} /\ pc \in {"update", "release"}
      /\ pc = "update" <=> client[c].through
  BY DEF PCs
<1>6. /\ client' \in [Clients -> Client]
      /\ client'[c].pc = pc /\ client'[c].cmd = cmd /\ client'[c].through = client[c].through
      /\ \A d \in Clients \ {c} :
           /\ Alike(d)
           /\ client[d].pc # "idle" /\ IsRead(client[d].cmd) =>
                db'[client[d].cmd.key] \in client'[d].fresh
  <2> HIDE DEF pc
  <2> QED BY <1>1, <1>2, <1>3, <1>5, ObservedGoto
<1>7. ~IsRead(cmd) /\ ~IsWrite(cmd)
  BY <1>2 DEF IsRead, IsWrite
<1> HIDE DEF pc, way
<1>8. PcOK(c)' /\ Held(c)' = Held(c)
  BY <1>1, <1>2, <1>5, <1>6, <1>7 DEF PcOK, Held
<1>9. /\ loader' \in {<<>>} \cup [key: ListKeys, content: Content, flushed: BOOLEAN]
      /\ loader' # <<>> => loader # <<>> /\ loader'.key = loader.key /\ loader'.flushed
  BY <1>1, <1>2, OvertakenFacts
<1>10. StructInv'
  <2>1. /\ {} \in SUBSET (Keys \cup {AllKeys}) /\ {} \cap locked = {} /\ locked' = locked \cup {}
        /\ Held(c)' \subseteq Held(c) \cup {} /\ UNCHANGED <<clearVars, loading, sent>>
    BY <1>2, <1>8 DEF clearVars
  <2>2. cache' \in [Keys -> Content] /\ faults' \in 0..MaxFaults
    BY <1>1, <1>2 DEF TypeOK
  <2> QED BY <2>1, <2>2, <1>1, <1>2, <1>3, <1>4, <1>6, <1>8, <1>9, StructKept
<1>11. \A pcs \in SUBSET {"update", "schedule"} : Flushing(pcs) => Flushing(pcs)'
  BY <1>2, <1>6, UpdatingKept
<1>12. (FlushUnderWay => FlushUnderWay') /\ (CacheUnused => CacheUnused')
  BY <1>2, <1>11 DEF FlushUnderWay, CacheUnused, FlushToCome
<1>13. \A k \in Keys : Right(k)' \/ Stays(k)
  BY <1>2, <1>4, <1>12 DEF Stays, Right
<1>14. DataInv'
  <2>1. ASSUME NEW k \in Keys PROVE Coherent(k)'
    <3>1. CASE client[c].through
      <4>1. Flushing({"update"})'
        BY <3>1, <1>2, <1>5, <1>6 DEF Flushing
      <4> QED BY <4>1 DEF Coherent
    <3>2. CASE CacheUnused
      BY <3>2, <1>12 DEF Coherent
    <3>3. CASE cache[k] = <<>> \/ stale'[k] # {}
      BY <3>3, <1>2 DEF Coherent, Right
    <3> QED BY <3>1, <3>2, <3>3, <1>4
  <2>2. FillOK(c)' /\ ReadOK(c)'
    BY <1>6, <1>7 DEF FillOK, ReadOK
  <2>3. UpdateOK(c)'
    BY <1>2, <1>6 DEF UpdateOK
  <2>4. ASSUME NEW d \in Clients \ {c} PROVE FillOK(d)' /\ UpdateOK(d)' /\ ReadOK(d)'
    <3>1. client[d].pc = "update" => ~IsRead(client[d].cmd) /\ ~IsWrite(client[d].cmd)
      BY <1>2, NoneUpdates
    <3> QED BY <3>1, <1>1, <1>6, <1>13, OthersKept
  <2>5. LoaderOK'
    BY <1>9 DEF LoaderOK
  <2> QED BY <2>1, <2>2, <2>3, <2>4, <2>5 DEF DataInv
<1> QED BY <1>10, <1>14 DEF CacheInv

(* DoUpdateCache of a write leaves its key right, or marked. *)
LEMMA UpdateCacheRight ==
  ASSUME CacheInv, NEW c \in Clients, UpdateCache(c), NEW k \in Keys, k = client[c].cmd.key
  PROVE  /\ cache' \in [Keys -> Content] /\ stale' \in [Keys -> SUBSET Ways]
         /\ faults' \in 0..MaxFaults /\ Right(k)'
         /\ \A j \in Keys \ {k} : cache'[j] = cache[j] /\
                                  (cache'[j] = <<>> \/ (stale[j] # {} => stale'[j] # {}))
<1>1. TypeOK /\ PcOK(c) /\ UpdateOK(c)
  BY DEF CacheInv, StructInv, PcInv, DataInv
<1> DEFINE cmd == client[c].cmd
<1>2. client[c].pc = "update" /\ IsWrite(cmd) /\ cmd \in Commands /\ db' = db
  BY <1>1 DEF UpdateCache, PcOK
<1>3. cache[k] \in Content /\ db[k] \in Content
  BY <1>1 DEF TypeOK
<1>4. CASE /\ NeedsMemory(cmd) /\ faults < MaxFaults /\ faults' = faults + 1
           /\ cache' = cache /\ stale' = Mark({k}, "nomem")
  <2>1. "nomem" \in Ways
    BY DEF Ways
  <2>2. /\ stale' \in [Keys -> SUBSET Ways]
        /\ \A j \in Keys : cache'[j] # <<>> => (stale[j] # {} \/ j \in {k} => stale'[j] # {})
    BY <2>1, <1>1, <1>4, MarkFacts
  <2>3. faults' \in 0..MaxFaults
    BY <1>1, <1>4, CacheAssumption DEF TypeOK
  <2> QED BY <2>2, <2>3, <1>1, <1>4 DEF TypeOK, Right
<1>5. CASE /\ cache' = [cache EXCEPT ![k] = Cached(cmd, @)] /\ faults' = faults
           /\ stale' = CASE cmd.op = "set" -> [stale EXCEPT ![k] = {}]
                      [] cmd.op = "setvx" /\ db[k] # <<cmd.val>> -> Mark({k}, "setvx")
                      [] cmd.op = "lpop" /\ cmd.arg > 1 -> Mark({k}, "lpop")
                      [] \/ cmd.op = "lpush" \/ (cmd.op = "lpop" /\ cmd.arg = 1) ->
                           Mark({j \in {k} : FlushUnderWay /\ cache'[j] # db[j]}, "flushed")
                      [] OTHER -> Unmarked
  <2>1. Cached(cmd, cache[k]) \in Content
    BY <1>2, <1>3, ContentFacts
  <2>2. /\ cache' \in [Keys -> Content] /\ cache'[k] = Cached(cmd, cache[k])
        /\ \A j \in Keys \ {k} : cache'[j] = cache[j]
    <3> HIDE DEF cmd
    <3> QED BY <2>1, <1>1, <1>5 DEF TypeOK
  <2>3. faults' \in 0..MaxFaults
    BY <1>1, <1>5 DEF TypeOK
  <2>4. cmd.op \in {"set", "setvx", "del", "unlink", "lpush", "lpop"} /\ (cmd.op = "lpop" => cmd.arg \in 1..2)
    BY <1>2, CommandFacts DEF IsWrite
  <2> SUFFICES /\ stale' \in [Keys -> SUBSET Ways] /\ (cache'[k] \in {<<>>, db[k]} \/ stale'[k] # {})
               /\ \A j \in Keys \ {k} : cache'[j] = <<>> \/ (stale[j] # {} => stale'[j] # {})
    BY <2>2, <2>3, <1>2 DEF Right
  <2>5. CASE cmd.op = "set"
    <3>1. stale' = [stale EXCEPT ![k] = {}]
      BY <2>5, <1>5
    <3>2. cache'[k] \in {<<>>, db[k]}
      <4>1. cache[k] # <<>> => Cached(cmd, cache[k]) = <<cmd.val>>
        BY <2>5, <1>2, <1>3, ContentFacts
      <4>2. cache[k] = <<>> => Cached(cmd, cache[k]) = <<>>
        BY <1>2, <1>3, ContentFacts
      <4>3. db[k] = <<cmd.val>>
        BY <2>5, <1>1, <1>2 DEF UpdateOK
      <4> QED BY <4>1, <4>2, <4>3, <2>2
    <3> QED BY <3>1, <3>2, <1>1 DEF TypeOK
  <2>6. CASE cmd.op = "setvx" /\ db[k] # <<cmd.val>>
    <3>1. stale' = Mark({k}, "setvx")
      BY <2>6, <1>5
    <3>2. "setvx" \in Ways
      BY DEF Ways
    <3> QED BY <3>1, <3>2, <1>1, MarkFacts
  <2>7. CASE cmd.op = "lpop" /\ cmd.arg > 1
    <3>1. stale' = Mark({k}, "lpop")
      BY <2>7, <1>5
    <3>2. "lpop" \in Ways
      BY DEF Ways
    <3> QED BY <3>1, <3>2, <1>1, MarkFacts
  <2>8. CASE cmd.op = "lpush" \/ (cmd.op = "lpop" /\ cmd.arg = 1)
    <3> DEFINE X == {j \in {k} : FlushUnderWay /\ cache'[j] # db[j]}
    <3>1. stale' = Mark(X, "flushed")
      BY <2>8, <1>5
    <3>2. "flushed" \in Ways
      BY DEF Ways
    <3>3. k \in X <=> FlushUnderWay /\ cache'[k] # db[k]
      OBVIOUS
    <3> HIDE DEF X
    <3>4. /\ stale' \in [Keys -> SUBSET Ways]
          /\ \A j \in Keys : cache'[j] # <<>> => (stale[j] # {} \/ j \in X => stale'[j] # {})
      BY <3>1, <3>2, <1>1, MarkFacts
    <3>5. cache[k] = <<>> \/ stale[k] # {} \/ FlushUnderWay \/ Stored(cmd, cache[k]) = db[k]
      BY <2>8, <1>1, <1>2 DEF UpdateOK
    <3>6. /\ cache[k] = <<>> => cache'[k] = <<>>
          /\ cache[k] # <<>> => cache'[k] = Stored(cmd, cache[k])
      BY <2>2, <2>8, <1>2, <1>3, ContentFacts
    <3> QED BY <3>3, <3>4, <3>5, <3>6
  <2>9. CASE cmd.op \in {"del", "unlink"} \/ (cmd.op = "setvx" /\ db[k] = <<cmd.val>>)
    <3>1. stale' = Unmarked
      BY <2>9, <1>5
    <3>2. cache'[k] \in {<<>>, db[k]}
      <4>1. cmd.op \in {"del", "unlink"} => Cached(cmd, cache[k]) = <<>>
        BY <1>2, <1>3, ContentFacts
      <4>2. cmd.op = "setvx" => Cached(cmd, cache[k]) \in {<<>>, <<cmd.val>>}
        BY <1>2, <1>3, ContentFacts
      <4> QED BY <4>1, <4>2, <2>2, <2>9
    <3> QED BY <3>1, <3>2, <1>1, UnmarkedFacts
  <2> QED BY <2>4, <2>5, <2>6, <2>7, <2>8, <2>9
<1> QED
  <2> HIDE DEF NeedsMemory, Mark, Unmarked, FlushUnderWay, Cached
  <2> QED BY <1>4, <1>5 DEF UpdateCache

(* DoUpdateCache of a write. *)
LEMMA UpdateCacheStep ==
  ASSUME CacheInv, NEW c \in Clients, UpdateCache(c)
  PROVE  CacheInv'
<1>1. StructInv /\ DataInv /\ TypeOK /\ PcInv /\ LockInv /\ PcOK(c)
  BY DEF CacheInv, StructInv, PcInv
<1> DEFINE cmd == client[c].cmd
<1>2. /\ client[c].pc = "update" /\ IsWrite(cmd) /\ client' = Goto(c, "release")
      /\ UNCHANGED <<db, locked, status, disabled, tasks, bg, loading, loader, sent>>
  BY DEF UpdateCache, clearVars, loadVars
<1>3. PICK k \in Keys : k = cmd.key
  BY <1>1, <1>2, CommandFacts DEF PcOK
<1>4. /\ cache' \in [Keys -> Content] /\ stale' \in [Keys -> SUBSET Ways]
      /\ faults' \in 0..MaxFaults /\ Right(k)'
      /\ \A j \in Keys \ {k} : cache'[j] = cache[j] /\
                               (cache'[j] = <<>> \/ (stale[j] # {} => stale'[j] # {}))
  BY <1>3, UpdateCacheRight
<1>5. /\ client' \in [Clients -> Client] /\ client'[c].pc = "release"
      /\ client'[c].cmd = cmd /\ client'[c].through = client[c].through
      /\ \A d \in Clients \ {c} : client'[d] = client[d] /\ Alike(d)
  <2>1. "release" \in PCs
    BY DEF PCs
  <2> QED BY <2>1, <1>1, <1>2, GotoFacts
<1>6. ~IsRead(cmd) /\ cmd.op \notin {"flushdb", "clear"}
  BY <1>2 DEF IsRead, IsWrite
<1>7. PcOK(c)' /\ Held(c)' = {k} /\ Held(c) = {k}
  BY <1>1, <1>2, <1>3, <1>5, <1>6 DEF PcOK, Held
<1>8. StructInv'
  <2>1. /\ {} \in SUBSET (Keys \cup {AllKeys}) /\ {} \cap locked = {} /\ locked' = locked \cup {}
        /\ Held(c)' \subseteq Held(c) \cup {} /\ UNCHANGED <<clearVars, loading, sent>>
    BY <1>2, <1>7 DEF clearVars
  <2>2. /\ db' \in [Keys -> Content]
        /\ loader' \in {<<>>} \cup [key: ListKeys, content: Content, flushed: BOOLEAN]
        /\ loader' # <<>> => loader # <<>> /\ loader'.key = loader.key
    BY <1>1, <1>2 DEF TypeOK
  <2> QED BY <2>1, <2>2, <1>1, <1>2, <1>4, <1>5, <1>7, StructKept
<1>9. \A j : j # k /\ Updating(j) => Updating(j)'
  BY <1>3, <1>5 DEF Updating
<1>10. \A pcs \in SUBSET {"update", "schedule"} : Flushing(pcs) => Flushing(pcs)'
  BY <1>5, <1>6 DEF Flushing
<1>11. (FlushUnderWay => FlushUnderWay') /\ (CacheUnused => CacheUnused')
  BY <1>2, <1>10 DEF FlushUnderWay, CacheUnused, FlushToCome
<1>12. (Flushing({"update"}) => Flushing({"update"})') /\ (Flushing({"schedule"}) => Flushing({"schedule"})')
  BY <1>10
<1>13. \A j \in Keys \ {k} : cache'[j] = <<>> \/ Stays(j)
  BY <1>2, <1>4, <1>11 DEF Stays
<1>14. \A j \in Keys : Right(j)' \/ Stays(j)
  BY <1>4, <1>13 DEF Right
<1>15. DataInv'
  <2>1. ASSUME NEW j \in Keys PROVE Coherent(j)'
    <3>1. CASE j = k
      BY <3>1, <1>4 DEF Coherent
    <3>2. CASE j # k
      <4>1. Coherent(j) /\ (Right(j) => Right(j)')
        BY <3>2, <1>1, <1>2, <1>4 DEF DataInv, Right
      <4> QED BY <4>1, <3>2, <1>2, <1>9, <1>11, <1>12 DEF Coherent
    <3> QED BY <3>1, <3>2
  <2>2. FillOK(c)' /\ UpdateOK(c)' /\ ReadOK(c)'
    BY <1>5, <1>6 DEF FillOK, UpdateOK, ReadOK
  <2>3. ASSUME NEW d \in Clients \ {c} PROVE FillOK(d)' /\ UpdateOK(d)' /\ ReadOK(d)'
    <3>1. client[d].pc # "idle" /\ IsRead(client[d].cmd) => db'[client[d].cmd.key] \in client'[d].fresh
      BY <1>1, <1>2, <1>5 DEF ReadOK, DataInv
    <3>2. client[d].pc = "update" /\ IsWrite(client[d].cmd) => client[d].cmd.key \in Keys \ {k}
      <4> SUFFICES ASSUME client[d].pc = "update", IsWrite(client[d].cmd)
                   PROVE  client[d].cmd.key \in Keys \ {k}
        OBVIOUS
      <4>1. client[d].cmd.key \in Keys
        BY <1>1, CommandFacts DEF PcOK, PcInv
      <4>2. Held(d) = {client[d].cmd.key}
        BY DEF Held
      <4>3. Held(c) \cap Held(d) = {}
        BY <1>1 DEF LockInv
      <4> QED BY <4>1, <4>2, <4>3, <1>7
    <3> QED BY <3>1, <3>2, <1>1, <1>2, <1>5, <1>13, <1>14, OthersKept
  <2>4. LoaderOK'
    BY <1>1, <1>2 DEF DataInv, LoaderOK
  <2> QED BY <2>1, <2>2, <2>3, <2>4 DEF DataInv
<1> QED BY <1>8, <1>15 DEF CacheInv

-----------------------------------------------------------------------------
(* The clear task *)

(* ClearCacheDbAsync schedules a task, or relies on one that runs: what the   *)
(* running one has cleared already is marked.                                 *)
LEMMA ScheduleClearStep ==
  ASSUME CacheInv, NEW c \in Clients, ScheduleClear(c)
  PROVE  CacheInv'
<1>1. /\ StructInv /\ DataInv /\ TypeOK /\ PcInv /\ LockInv /\ TasksInv /\ StatusInv /\ LoadInv
      /\ PcOK(c) /\ FlagWillBeReset
  BY DEF CacheInv, StructInv, PcInv
<1> DEFINE X == {k \in Keys : cache[k] # db[k] \/ Updating(k)}
           Skipped == client[c].cmd.op = "flushdb" /\ status # "ok" /\ ~FlushToCome
<1>2. /\ client[c].pc = "schedule" /\ client' = Goto(c, "release")
      /\ tasks' = (IF status = "ok" THEN tasks + 1 ELSE tasks)
      /\ stale' = (IF Skipped THEN Mark(X, "skipped") ELSE stale)
      /\ UNCHANGED <<db, cache, locked, status, disabled, bg, loading, loader, sent, faults>>
  BY DEF ScheduleClear, loadVars, boundVars
<1>3. /\ client' \in [Clients -> Client] /\ client'[c].pc = "release"
      /\ client'[c].cmd = client[c].cmd /\ client'[c].through = client[c].through
      /\ \A d \in Clients \ {c} : client'[d] = client[d] /\ Alike(d)
  <2>1. "release" \in PCs
    BY DEF PCs
  <2> QED BY <2>1, <1>1, <1>2, GotoFacts
<1>4. client[c].cmd.op \in {"flushdb", "clear"} /\ ~IsRead(client[c].cmd) /\ ~IsWrite(client[c].cmd)
  BY <1>1, <1>2 DEF PcOK, IsRead, IsWrite
<1>5. /\ stale' \in [Keys -> SUBSET Ways]
      /\ Skipped => \A k \in Keys : cache[k] # <<>> /\ k \in X => stale'[k] # {}
      /\ ~Skipped => stale' = stale
      /\ \A k \in Keys : cache[k] = <<>> \/ (stale[k] # {} => stale'[k] # {})
  <2>1. CASE Skipped
    <3>1. stale' = Mark(X, "skipped") /\ "skipped" \in Ways
      BY <2>1, <1>2 DEF Ways
    <3> HIDE DEF X, Skipped
    <3> QED BY <3>1, <2>1, <1>1, <1>2, MarkFacts
  <2>2. CASE ~Skipped
    BY <2>2, <1>1, <1>2 DEF TypeOK
  <2> QED BY <2>1, <2>2
<1>6. tasks' \in 0..MaxCommands /\ TasksInv'
  <2>1. Active' = Active \ {c} /\ c \in Active
    BY <1>2, <1>3 DEF Active
  <2>2. IsFiniteSet(Active') /\ Cardinality(Active') = Cardinality(Active) - 1 /\ Cardinality(Active) \in Nat
    BY <2>1, <1>1, FS_RemoveElement, FS_CardinalityType DEF TasksInv
  <2>3. Cardinality(Active') \in Nat
    BY <2>2, FS_CardinalityType
  <2>4. tasks \in Nat /\ sent \in 0..MaxCommands /\ MaxCommands \in Nat /\ tasks' \in {tasks, tasks + 1}
    BY <1>1, <1>2, CacheAssumption DEF TypeOK
  <2> QED BY <2>2, <2>3, <2>4, <1>1, <1>2 DEF TasksInv
<1>7. PcOK(c)' /\ Held(c)' = Held(c)
  BY <1>1, <1>2, <1>3, <1>4 DEF PcOK, Held
<1>8. StructInv'
  <2>1. TypeOK'
    BY <1>1, <1>2, <1>3, <1>5, <1>6 DEF TypeOK
  <2>2. PcInv'
    BY <1>1, <1>3, <1>7, PcKept
  <2>3. LockInv'
    <3>1. {} \cap locked = {} /\ locked \cup {} \subseteq locked' /\ Held(c)' \subseteq Held(c) \cup {}
      BY <1>2, <1>7
    <3> QED BY <3>1, <1>1, <1>2, <1>3, LocksKept
  <2>4. StatusInv' /\ LoadInv'
    BY <1>1, <1>2 DEF StatusInv, LoadInv
  <2>5. FlagWillBeReset'
    <3>1. tasks' > 0 \/ bg' # "idle"
      BY <1>1, <1>2 DEF TypeOK, StatusInv
    <3> QED BY <3>1 DEF FlagWillBeReset
  <2> QED BY <2>1, <2>2, <2>3, <2>4, <2>5, <1>6 DEF StructInv
<1>9. /\ \A k : Updating(k) => Updating(k)'
      /\ Flushing({"update"}) => Flushing({"update"})'
      /\ client[c].cmd.op # "flushdb" =>
           \A pcs \in SUBSET {"update", "schedule"} : Flushing(pcs) => Flushing(pcs)'
  BY <1>2, <1>3, <1>4 DEF Updating, Flushing
<1>10. CacheUnused => CacheUnused'
  BY <1>1, <1>2 DEF CacheUnused, FlushToCome, TypeOK
<1>11. CASE Skipped
  <2>1. \A k \in Keys : Right(k)'
    BY <1>2, <1>5, <1>11 DEF Right
  <2>2. ASSUME NEW d \in Clients \ {c} PROVE FillOK(d)' /\ UpdateOK(d)' /\ ReadOK(d)'
    <3>1. client[d].pc # "idle" /\ IsRead(client[d].cmd) => db'[client[d].cmd.key] \in client'[d].fresh
      BY <1>1, <1>2, <1>3 DEF ReadOK, DataInv
    <3>2. client[d].pc = "update" /\ IsWrite(client[d].cmd) =>
            cache'[client[d].cmd.key] = <<>> \/ stale'[client[d].cmd.key] # {}
      <4> SUFFICES ASSUME client[d].pc = "update", IsWrite(client[d].cmd)
                   PROVE  cache'[client[d].cmd.key] = <<>> \/ stale'[client[d].cmd.key] # {}
        OBVIOUS
      <4>1. client[d].cmd.key \in X
        BY <1>1, CommandFacts DEF PcOK, PcInv, Updating
      <4> HIDE DEF Skipped
      <4> QED BY <4>1, <1>2, <1>5, <1>11
    <3> QED BY <3>1, <3>2, <2>1, <1>1, <1>2, <1>3, OthersKept
  <2>3. FillOK(c)' /\ UpdateOK(c)' /\ ReadOK(c)'
    BY <1>3, <1>4 DEF FillOK, UpdateOK, ReadOK
  <2>4. LoaderOK'
    BY <1>1, <1>2 DEF DataInv, LoaderOK
  <2> QED BY <2>1, <2>2, <2>3, <2>4, <1>8 DEF DataInv, CacheInv, Coherent
<1>12. CASE ~Skipped
  <2>1. stale' = stale
    BY <1>5, <1>12
  <2>2. FlushUnderWay => FlushUnderWay'
    <3>1. FlushToCome => FlushToCome'
      BY <1>1, <1>2 DEF FlushToCome, TypeOK
    <3>2. CASE client[c].cmd.op # "flushdb"
      BY <3>1, <3>2, <1>9 DEF FlushUnderWay
    <3>3. CASE client[c].cmd.op = "flushdb"
      <4>1. FlushToCome'
        BY <3>1, <3>3, <1>1, <1>2, <1>12 DEF FlushToCome, TypeOK
      <4> QED BY <4>1 DEF FlushUnderWay
    <3> QED BY <3>2, <3>3
  <2>3. \A k \in Keys : Stays(k)
    BY <1>2, <1>10, <2>1, <2>2 DEF Stays
  <2>4. ASSUME NEW k \in Keys PROVE Coherent(k)'
    <3>1. Coherent(k) /\ (Right(k) => Right(k)')
      BY <2>1, <1>1, <1>2 DEF DataInv, Right
    <3>2. Flushing({"schedule"}) /\ disabled => CacheUnused' \/ (Flushing({"schedule"})' /\ disabled')
      <4>1. CASE client[c].cmd.op # "flushdb"
        BY <4>1, <1>2, <1>9
      <4>2. CASE client[c].cmd.op = "flushdb"
        <5>1. FlushToCome'
          BY <4>2, <1>1, <1>2, <1>12 DEF FlushToCome, TypeOK
        <5> QED BY <5>1, <1>2 DEF CacheUnused
      <4> QED BY <4>1, <4>2
    <3> QED BY <3>1, <3>2, <1>9, <1>10 DEF Coherent
  <2>5. ASSUME NEW d \in Clients \ {c} PROVE FillOK(d)' /\ UpdateOK(d)' /\ ReadOK(d)'
    <3>1. client[d].pc # "idle" /\ IsRead(client[d].cmd) => db'[client[d].cmd.key] \in client'[d].fresh
      BY <1>1, <1>2, <1>3 DEF ReadOK, DataInv
    <3>2. client[d].pc = "update" /\ IsWrite(client[d].cmd) => client[d].cmd.key \in Keys
      BY <1>1, CommandFacts DEF PcOK, PcInv
    <3> QED BY <3>1, <3>2, <2>3, <1>1, <1>2, <1>3, OthersKept
  <2>6. FillOK(c)' /\ UpdateOK(c)' /\ ReadOK(c)'
    BY <1>3, <1>4 DEF FillOK, UpdateOK, ReadOK
  <2>7. LoaderOK'
    BY <1>1, <1>2 DEF DataInv, LoaderOK
  <2> QED BY <2>4, <2>5, <2>6, <2>7, <1>8 DEF DataInv, CacheInv
<1> QED BY <1>11, <1>12

(* No client moves. *)
LEMMA ClientsStand ==
  ASSUME StructInv, UNCHANGED client
  PROVE  /\ \A d \in Clients : Alike(d) /\ Held(d)' = Held(d)
         /\ PcInv' /\ Active' = Active
         /\ \A k : Updating(k)' <=> Updating(k)
         /\ \A pcs : Flushing(pcs)' <=> Flushing(pcs)
<1>1. PcInv'
  BY DEF StructInv, PcInv, PcOK
<1>2. \A d \in Clients : Alike(d) /\ Held(d)' = Held(d)
  BY DEF Alike, Held
<1> QED BY <1>1, <1>2 DEF Active, Updating, Flushing

(* A step of a thread that leaves the storage alone and loses no excuse, or   *)
(* leaves every key right.                                                    *)
LEMMA ThreadData ==
  ASSUME StructInv, DataInv, UNCHANGED <<client, db>>, LoaderOK',
         \A k \in Keys : Coherent(k)', \A k \in Keys : Right(k)' \/ Stays(k),
         \A d \in Clients : client[d].pc = "update" /\ IsWrite(client[d].cmd) =>
           LET k == client[d].cmd.key IN cache'[k] = <<>> \/ stale'[k] # {} \/ Stays(k)
  PROVE  DataInv'
<1>1. ASSUME NEW d \in Clients PROVE FillOK(d)' /\ UpdateOK(d)' /\ ReadOK(d)'
  <2>1. Alike(d)
    BY ClientsStand
  <2>2. client[d].pc # "idle" /\ IsRead(client[d].cmd) => db'[client[d].cmd.key] \in client'[d].fresh
    BY DEF ReadOK, DataInv
  <2> QED BY <2>1, <2>2, OthersKept
<1> QED BY <1>1 DEF DataInv

(* DoCacheBGTask takes a task. *)
LEMMA ClearStartStep ==
  ASSUME CacheInv, ClearStart
  PROVE  CacheInv'
<1>1. StructInv /\ DataInv /\ TypeOK /\ PcInv /\ LockInv /\ TasksInv /\ StatusInv /\ LoadInv
  BY DEF CacheInv, StructInv
<1>2. /\ bg = "idle" /\ tasks > 0 /\ tasks' = tasks - 1 /\ bg' = "flush" /\ status' = "clear"
      /\ UNCHANGED <<db, cache, locked, client, disabled, loading, loader, sent, faults, stale>>
  BY DEF ClearStart, loadVars, boundVars
<1>3. /\ \A d \in Clients : Alike(d) /\ Held(d)' = Held(d)
      /\ PcInv' /\ Active' = Active
  BY <1>1, <1>2, ClientsStand
<1>4. StructInv'
  <2>1. TypeOK'
    <3>1. tasks' \in 0..MaxCommands
      BY <1>1, <1>2, CacheAssumption DEF TypeOK
    <3> QED BY <3>1, <1>1, <1>2 DEF TypeOK
  <2>2. LockInv'
    BY <1>1, <1>2, <1>3 DEF LockInv
  <2>3. TasksInv'
    <3>1. tasks \in Nat /\ sent \in Nat /\ Cardinality(Active) \in Nat
      BY <1>1, FS_CardinalityType, CacheAssumption DEF TypeOK, TasksInv
    <3> QED BY <3>1, <1>1, <1>2, <1>3 DEF TasksInv
  <2>4. StatusInv' /\ LoadInv' /\ FlagWillBeReset'
    BY <1>1, <1>2 DEF StatusInv, LoadInv, FlagWillBeReset
  <2> QED BY <2>1, <2>2, <2>3, <2>4, <1>3 DEF StructInv
<1>5. CacheUnused' /\ FlushUnderWay'
  BY <1>2 DEF CacheUnused, FlushUnderWay, FlushToCome
<1>6. \A k \in Keys : Coherent(k)' /\ Stays(k)
  BY <1>2, <1>5 DEF Coherent, Stays
<1>7. \A d \in Clients : client[d].pc = "update" /\ IsWrite(client[d].cmd) => client[d].cmd.key \in Keys
  BY <1>1, CommandFacts DEF PcOK, PcInv
<1>8. LoaderOK'
  BY <1>1, <1>2 DEF DataInv, LoaderOK
<1>9. DataInv'
  BY <1>1, <1>2, <1>6, <1>7, <1>8, ThreadData
<1> QED BY <1>4, <1>9 DEF CacheInv

(* The cache is emptied. *)
LEMMA FlushCacheStep ==
  ASSUME CacheInv, FlushCache
  PROVE  CacheInv'
<1>1. StructInv /\ DataInv /\ TypeOK /\ PcInv /\ LockInv /\ TasksInv /\ StatusInv /\ LoadInv
  BY DEF CacheInv, StructInv
<1>2. /\ bg = "flush" /\ bg' = "ok" /\ cache' = [k \in Keys |-> <<>>] /\ stale' = [k \in Keys |-> {}]
      /\ UNCHANGED <<db, locked, client, status, disabled, tasks, loading, loader, sent, faults>>
  BY DEF FlushCache, loadVars, boundVars
<1>3. /\ \A d \in Clients : Alike(d) /\ Held(d)' = Held(d)
      /\ PcInv' /\ Active' = Active
  BY <1>1, <1>2, ClientsStand
<1>4. StructInv'
  <2>1. TypeOK'
    <3>1. cache' \in [Keys -> Content] /\ stale' \in [Keys -> SUBSET Ways]
      BY <1>2 DEF Content
    <3> QED BY <3>1, <1>1, <1>2 DEF TypeOK
  <2>2. LockInv' /\ TasksInv'
    BY <1>1, <1>2, <1>3 DEF LockInv, TasksInv
  <2>3. StatusInv' /\ LoadInv' /\ FlagWillBeReset'
    BY <1>1, <1>2 DEF StatusInv, LoadInv, FlagWillBeReset
  <2> QED BY <2>1, <2>2, <2>3, <1>3 DEF StructInv
<1>5. \A k \in Keys : Right(k)' /\ Coherent(k)' /\ cache'[k] = <<>>
  BY <1>2 DEF Coherent, Right
<1>6. \A d \in Clients : client[d].pc = "update" /\ IsWrite(client[d].cmd) => client[d].cmd.key \in Keys
  BY <1>1, CommandFacts DEF PcOK, PcInv
<1>7. LoaderOK'
  BY <1>1, <1>2 DEF DataInv, LoaderOK
<1>8. DataInv'
  BY <1>1, <1>2, <1>5, <1>6, <1>7, ThreadData
<1> QED BY <1>4, <1>8 DEF CacheInv

(* The status is set back. *)
LEMMA ClearEndStep ==
  ASSUME CacheInv, ClearEnd
  PROVE  CacheInv'
<1>1. StructInv /\ DataInv /\ TypeOK /\ PcInv /\ LockInv /\ TasksInv /\ StatusInv /\ LoadInv
  BY DEF CacheInv, StructInv
<1>2. /\ bg = "ok" /\ bg' = "unset" /\ status' = "ok"
      /\ UNCHANGED <<db, cache, locked, client, disabled, tasks, loading, loader, sent, faults, stale>>
  BY DEF ClearEnd, loadVars, boundVars
<1>3. /\ \A d \in Clients : Alike(d) /\ Held(d)' = Held(d)
      /\ PcInv' /\ Active' = Active
      /\ \A k : Updating(k)' <=> Updating(k)
      /\ \A pcs : Flushing(pcs)' <=> Flushing(pcs)
  BY <1>1, <1>2, ClientsStand
<1>4. StructInv'
  <2>1. TypeOK'
    BY <1>1, <1>2 DEF TypeOK
  <2>2. LockInv' /\ TasksInv'
    BY <1>1, <1>2, <1>3 DEF LockInv, TasksInv
  <2>3. StatusInv' /\ LoadInv' /\ FlagWillBeReset'
    BY <1>1, <1>2 DEF StatusInv, LoadInv, FlagWillBeReset
  <2> QED BY <2>1, <2>2, <2>3, <1>3 DEF StructInv
<1>5. (CacheUnused => CacheUnused') /\ (FlushUnderWay => FlushUnderWay')
  BY <1>2, <1>3 DEF CacheUnused, FlushUnderWay, FlushToCome
<1>6. ASSUME NEW k \in Keys PROVE Coherent(k)' /\ Stays(k)
  <2>1. Coherent(k) /\ (Right(k) => Right(k)')
    BY <1>1, <1>2 DEF DataInv, Right
  <2> QED BY <2>1, <1>2, <1>3, <1>5 DEF Coherent, Stays
<1>7. \A d \in Clients : client[d].pc = "update" /\ IsWrite(client[d].cmd) => client[d].cmd.key \in Keys
  BY <1>1, CommandFacts DEF PcOK, PcInv
<1>8. LoaderOK'
  BY <1>1, <1>2 DEF DataInv, LoaderOK
<1>9. DataInv'
  BY <1>1, <1>2, <1>6, <1>7, <1>8, ThreadData
<1> QED BY <1>4, <1>9 DEF CacheInv

(* The flag is reset, also that of a FLUSHDB whose task is still to come:     *)
(* what is wrong then is marked.                                              *)
LEMMA UnsetStep ==
  ASSUME CacheInv, UnsetCacheDisableFlag
  PROVE  CacheInv'
<1>1. StructInv /\ DataInv /\ TypeOK /\ PcInv /\ LockInv /\ TasksInv /\ StatusInv /\ LoadInv
  BY DEF CacheInv, StructInv
<1> DEFINE X == {k \in Keys : cache[k] # db[k] \/ Updating(k)}
           More == tasks > 0 \/ (\E c \in Clients : client[c].pc = "schedule")
<1>2. /\ bg = "unset" /\ bg' = "idle" /\ disabled' = FALSE
      /\ stale' = (IF More THEN Mark(X, "unset") ELSE stale)
      /\ UNCHANGED <<db, cache, locked, client, status, tasks, loading, loader, sent, faults>>
  BY DEF UnsetCacheDisableFlag, loadVars, boundVars
<1>3. /\ \A d \in Clients : Alike(d) /\ Held(d)' = Held(d)
      /\ PcInv' /\ Active' = Active
      /\ \A k : Updating(k)' <=> Updating(k)
      /\ \A pcs : Flushing(pcs)' <=> Flushing(pcs)
  BY <1>1, <1>2, ClientsStand
<1>4. /\ stale' \in [Keys -> SUBSET Ways]
      /\ More => \A k \in Keys : cache[k] # <<>> /\ k \in X => stale'[k] # {}
      /\ ~More => stale' = stale
  <2>1. CASE More
    <3>1. stale' = Mark(X, "unset") /\ "unset" \in Ways
      BY <2>1, <1>2 DEF Ways
    <3> HIDE DEF X, More
    <3> QED BY <3>1, <2>1, <1>1, <1>2, MarkFacts
  <2>2. CASE ~More
    BY <2>2, <1>1, <1>2 DEF TypeOK
  <2> QED BY <2>1, <2>2
<1>5. StructInv'
  <2>1. TypeOK'
    BY <1>1, <1>2, <1>4 DEF TypeOK
  <2>2. LockInv' /\ TasksInv'
    BY <1>1, <1>2, <1>3 DEF LockInv, TasksInv
  <2>3. StatusInv' /\ LoadInv' /\ FlagWillBeReset'
    BY <1>1, <1>2 DEF StatusInv, LoadInv, FlagWillBeReset
  <2> QED BY <2>1, <2>2, <2>3, <1>3 DEF StructInv
<1>6. \A d \in Clients : client[d].pc = "update" /\ IsWrite(client[d].cmd) => client[d].cmd.key \in Keys
  BY <1>1, CommandFacts DEF PcOK, PcInv
<1>7. LoaderOK'
  BY <1>1, <1>2 DEF DataInv, LoaderOK
<1>8. CASE More
  <2>1. \A k \in Keys : Right(k)' /\ Coherent(k)'
    BY <1>2, <1>4, <1>8 DEF Right, Coherent
  <2>2. ASSUME NEW d \in Clients, client[d].pc = "update", IsWrite(client[d].cmd)
        PROVE  cache'[client[d].cmd.key] = <<>> \/ stale'[client[d].cmd.key] # {}
    <3>1. client[d].cmd.key \in X
      BY <2>2, <1>6 DEF Updating
    <3> HIDE DEF More
    <3> QED BY <3>1, <1>2, <1>4, <1>8
  <2>3. DataInv'
    BY <2>1, <2>2, <1>1, <1>2, <1>7, ThreadData
  <2> QED BY <2>3, <1>5 DEF CacheInv
<1>9. CASE ~More
  <2>1. stale' = stale /\ ~CacheUnused /\ (FlushUnderWay => FlushUnderWay') /\ ~Flushing({"schedule"})
    BY <1>2, <1>3, <1>4, <1>9 DEF CacheUnused, FlushUnderWay, FlushToCome, Flushing
  <2>2. ASSUME NEW k \in Keys PROVE Coherent(k)' /\ Stays(k)
    <3>1. Coherent(k) /\ (Right(k) => Right(k)')
      BY <2>1, <1>1, <1>2 DEF DataInv, Right
    <3> QED BY <3>1, <2>1, <1>2, <1>3 DEF Coherent, Stays
  <2>3. DataInv'
    BY <2>2, <1>1, <1>2, <1>6, <1>7, ThreadData
  <2> QED BY <2>3, <1>5 DEF CacheInv
<1> QED BY <1>8, <1>9

-----------------------------------------------------------------------------
(* The load thread *)

(* PikaCacheLoadThread::LoadKey reads the storage under the record lock. *)
LEMMA LoadKeyStep ==
  ASSUME CacheInv, LoadKey
  PROVE  CacheInv'
<1>1. /\ StructInv /\ DataInv /\ TypeOK /\ PcInv /\ LockInv /\ TasksInv /\ StatusInv /\ LoadInv
      /\ FlagWillBeReset
  BY DEF CacheInv, StructInv
<1>2. /\ loader = <<>> /\ loading # <<>> /\ Head(loading) \notin locked /\ loading' = Tail(loading)
      /\ UNCHANGED <<db, cache, client, status, disabled, tasks, bg, sent, faults, stale>>
  BY DEF LoadKey, clearVars, boundVars
<1>3. /\ \A d \in Clients : Alike(d) /\ Held(d)' = Held(d)
      /\ PcInv' /\ Active' = Active
      /\ \A k : Updating(k)' <=> Updating(k)
      /\ \A pcs : Flushing(pcs)' <=> Flushing(pcs)
  BY <1>1, <1>2, ClientsStand
<1>4. /\ loading \in Seq(ListKeys) /\ Len(loading) \in Nat /\ DOMAIN loading = 1..Len(loading)
      /\ Len(loading) # 0
  BY <1>1, <1>2, LenProperties, EmptySeq DEF TypeOK
<1>5. /\ Head(loading) = loading[1] /\ 1 \in DOMAIN loading /\ Head(loading) \in ListKeys
      /\ Tail(loading) \in Seq(ListKeys) /\ DOMAIN Tail(loading) = 1..(Len(loading) - 1)
      /\ \A i \in DOMAIN Tail(loading) : Tail(loading)[i] = loading[i + 1]
  BY <1>2, <1>4
<1>6. PICK k \in ListKeys : k = Head(loading)
  BY <1>5
<1>7. k \in Keys /\ db[k] \in Content
  BY <1>1 DEF Keys, TypeOK
<1>8. \/ db[k] = <<>> /\ UNCHANGED <<loader, locked>>
      \/ /\ loader' = [key |-> k, content |-> db[k], flushed |-> FALSE]
         /\ locked' = locked \cup {k}
  BY <1>6 DEF LoadKey
<1>9. LoadInv' /\ loading' \in Seq(ListKeys)
  <2>1. \A i, j \in DOMAIN loading : loading[i] = loading[j] => i = j
    BY <1>1 DEF LoadInv
  <2>2. \A i \in DOMAIN loading' : i \in Nat /\ i + 1 \in DOMAIN loading /\ loading'[i] = loading[i + 1] /\ i + 1 # 1
    BY <1>2, <1>4, <1>5
  <2>3. ASSUME NEW i \in DOMAIN loading', NEW j \in DOMAIN loading', loading'[i] = loading'[j]
        PROVE  i = j
    <3>1. i + 1 = j + 1
      BY <2>1, <2>2, <2>3
    <3> QED BY <2>2, <3>1
  <2>4. \A i \in DOMAIN loading' : loading'[i] # k
    BY <2>1, <2>2, <1>5, <1>6
  <2>5. loader' # <<>> => loader'.key = k
    BY <1>2, <1>8
  <2> QED BY <2>3, <2>4, <2>5, <1>2, <1>5 DEF LoadInv
<1>10. StructInv'
  <2>1. TypeOK'
    <3>1. Len(loading') <= Cardinality(ListKeys)
      BY <1>9, LoadBound DEF LoadInv
    <3>2. loader' \in {<<>>} \cup [key: ListKeys, content: Content, flushed: BOOLEAN]
      <4>1. [key |-> k, content |-> db[k], flushed |-> FALSE] \in [key: ListKeys, content: Content, flushed: BOOLEAN]
        BY <1>7
      <4> QED BY <4>1, <1>2, <1>8, Zenon
    <3>3. locked' \subseteq Keys \cup {AllKeys}
      BY <1>1, <1>7, <1>8 DEF TypeOK
    <3> QED BY <3>1, <3>2, <3>3, <1>1, <1>2, <1>9 DEF TypeOK
  <2>2. LockInv'
    <3>1. \A d \in Clients : Held(d) \subseteq locked
      BY <1>1 DEF LockInv
    <3>2. \A a \in Clients : \A b \in Clients \ {a} : Held(a)' \cap Held(b)' = {}
      BY <1>1, <1>3 DEF LockInv
    <3>3. \A d \in Clients : Held(d)' \subseteq locked'
      BY <3>1, <1>3, <1>8
    <3>4. loader' # <<>> => loader'.key = k /\ k \in locked'
      BY <1>2, <1>8
    <3>5. \A d \in Clients : k \notin Held(d)'
      BY <3>1, <1>2, <1>3, <1>6
    <3> QED BY <3>2, <3>3, <3>4, <3>5 DEF LockInv
  <2>3. TasksInv' /\ StatusInv' /\ FlagWillBeReset'
    BY <1>1, <1>2, <1>3 DEF TasksInv, StatusInv, FlagWillBeReset
  <2> QED BY <2>1, <2>2, <2>3, <1>3, <1>9 DEF StructInv
<1>11. (CacheUnused => CacheUnused') /\ (FlushUnderWay => FlushUnderWay')
  BY <1>2, <1>3 DEF CacheUnused, FlushUnderWay, FlushToCome
<1>12. ASSUME NEW j \in Keys PROVE Coherent(j)' /\ Stays(j)
  <2>1. Coherent(j) /\ (Right(j) => Right(j)')
    BY <1>1, <1>2 DEF DataInv, Right
  <2> QED BY <2>1, <1>2, <1>3, <1>11 DEF Coherent, Stays
<1>13. \A d \in Clients : client[d].pc = "update" /\ IsWrite(client[d].cmd) => client[d].cmd.key \in Keys
  BY <1>1, CommandFacts DEF PcOK, PcInv
<1>14. LoaderOK'
  <2>1. loader' = <<>> \/ (loader'.key = k /\ loader'.content = db[k])
    BY <1>2, <1>8
  <2> QED BY <2>1, <1>2 DEF LoaderOK
<1>15. DataInv'
  BY <1>1, <1>2, <1>12, <1>13, <1>14, ThreadData
<1> QED BY <1>10, <1>15 DEF CacheInv

(* WriteListToCache: what was read is still right, or the storage was         *)
(* replaced meanwhile.                                                        *)
LEMMA WriteListToCacheStep ==
  ASSUME CacheInv, WriteListToCache
  PROVE  CacheInv'
<1>1. /\ StructInv /\ DataInv /\ TypeOK /\ PcInv /\ LockInv /\ TasksInv /\ StatusInv /\ LoadInv
      /\ FlagWillBeReset
  BY DEF CacheInv, StructInv
<1>2. loader # <<>> /\ loader \in [key: ListKeys, content: Content, flushed: BOOLEAN]
  BY <1>1 DEF WriteListToCache, TypeOK
<1>3. PICK k \in Keys : k = loader.key
  BY <1>2 DEF Keys
<1>4. /\ cache' = [cache EXCEPT ![k] = IF @ = <<>> THEN loader.content ELSE @]
      /\ stale' = (IF cache[k] = <<>> /\ loader.flushed THEN Mark({k}, "late") ELSE stale)
      /\ locked' = locked \ {k} /\ loader' = <<>>
      /\ UNCHANGED <<db, client, loading, status, disabled, tasks, bg, sent, faults>>
  BY <1>3 DEF WriteListToCache, clearVars, boundVars
<1>5. /\ \A d \in Clients : Alike(d) /\ Held(d)' = Held(d)
      /\ PcInv' /\ Active' = Active
      /\ \A j : Updating(j)' <=> Updating(j)
      /\ \A pcs : Flushing(pcs)' <=> Flushing(pcs)
  BY <1>1, <1>4, ClientsStand
<1>6. /\ cache' \in [Keys -> Content] /\ \A j \in Keys \ {k} : cache'[j] = cache[j]
      /\ cache[k] # <<>> => cache'[k] = cache[k]
      /\ cache[k] = <<>> => cache'[k] = loader.content
  BY <1>1, <1>2, <1>4 DEF TypeOK
<1>7. /\ stale' \in [Keys -> SUBSET Ways]
      /\ \A j \in Keys : cache'[j] = <<>> \/ (stale[j] # {} => stale'[j] # {})
      /\ cache[k] = <<>> /\ loader.flushed => cache'[k] = <<>> \/ stale'[k] # {}
  <2>1. CASE cache[k] = <<>> /\ loader.flushed
    <3>1. stale' = Mark({k}, "late") /\ "late" \in Ways
      BY <2>1, <1>4 DEF Ways
    <3> QED BY <3>1, <1>1, MarkFacts
  <2>2. CASE ~(cache[k] = <<>> /\ loader.flushed)
    BY <2>2, <1>1, <1>4 DEF TypeOK
  <2> QED BY <2>1, <2>2
<1>8. \A d \in Clients : k \notin Held(d)
  BY <1>1, <1>2, <1>3 DEF LockInv
<1>9. StructInv'
  <2>1. TypeOK'
    BY <1>1, <1>4, <1>6, <1>7 DEF TypeOK
  <2>2. LockInv'
    <3>1. \A d \in Clients : Held(d) \subseteq locked
      BY <1>1 DEF LockInv
    <3>2. \A a \in Clients : \A b \in Clients \ {a} : Held(a)' \cap Held(b)' = {}
      BY <1>1, <1>5 DEF LockInv
    <3>3. \A d \in Clients : Held(d)' \subseteq locked'
      BY <3>1, <1>4, <1>5, <1>8
    <3> QED BY <3>2, <3>3, <1>4 DEF LockInv
  <2>3. TasksInv' /\ StatusInv' /\ FlagWillBeReset' /\ LoadInv'
    BY <1>1, <1>4, <1>5 DEF TasksInv, StatusInv, FlagWillBeReset, LoadInv
  <2> QED BY <2>1, <2>2, <2>3, <1>5 DEF StructInv
<1>10. (CacheUnused => CacheUnused') /\ (FlushUnderWay => FlushUnderWay')
  BY <1>4, <1>5 DEF CacheUnused, FlushUnderWay, FlushToCome
<1>11. cache[k] = <<>> => Right(k)'
  <2>1. ~loader.flushed => loader.content = db[k]
    BY <1>1, <1>2, <1>3 DEF DataInv, LoaderOK
  <2> QED BY <2>1, <1>4, <1>6, <1>7 DEF Right
<1>12. ASSUME NEW j \in Keys PROVE Coherent(j)' /\ (Right(j)' \/ Stays(j))
  <2>1. CASE cache'[j] = cache[j]
    <3>1. Coherent(j) /\ (Right(j) => Right(j)')
      BY <2>1, <1>1, <1>4, <1>7 DEF DataInv, Right
    <3>2. cache'[j] = <<>> \/ Stays(j)
      BY <2>1, <1>4, <1>7, <1>10 DEF Stays
    <3> QED BY <3>1, <3>2, <1>4, <1>5, <1>10 DEF Coherent, Right
  <2>2. CASE cache'[j] # cache[j]
    <3>1. j = k /\ cache[k] = <<>>
      BY <2>2, <1>6
    <3> QED BY <3>1, <1>11 DEF Coherent
  <2> QED BY <2>1, <2>2
<1>13. ASSUME NEW d \in Clients, client[d].pc = "update", IsWrite(client[d].cmd)
       PROVE  cache'[client[d].cmd.key] = <<>> \/ Stays(client[d].cmd.key)
  <2>1. client[d].cmd.key \in Keys
    BY <1>1, <1>13, CommandFacts DEF PcOK, PcInv
  <2>2. Held(d) = {client[d].cmd.key}
    BY <1>13 DEF Held
  <2>3. PICK j \in Keys \ {k} : j = client[d].cmd.key
    BY <2>1, <2>2, <1>8
  <2>4. cache'[j] = cache[j] /\ (cache'[j] = <<>> \/ Stays(j))
    BY <1>4, <1>6, <1>7, <1>10 DEF Stays
  <2> QED BY <2>3, <2>4
<1>14. LoaderOK'
  BY <1>4 DEF LoaderOK
<1>15. DataInv'
  BY <1>1, <1>4, <1>12, <1>13, <1>14, ThreadData
<1> QED BY <1>9, <1>15 DEF CacheInv

-----------------------------------------------------------------------------
(* The surroundings *)

(* An evicted key is no longer cached. *)
LEMMA EvictStep ==
  ASSUME CacheInv, NEW k \in Keys, Evict(k)
  PROVE  CacheInv'
<1>1. /\ StructInv /\ DataInv /\ TypeOK /\ PcInv /\ LockInv /\ TasksInv /\ StatusInv /\ LoadInv
      /\ FlagWillBeReset
  BY DEF CacheInv, StructInv
<1>2. /\ cache' = [cache EXCEPT ![k] = <<>>] /\ stale' = Unmarked
      /\ UNCHANGED <<db, locked, client, status, disabled, tasks, bg, loading, loader, sent, faults>>
  BY DEF Evict, clearVars, loadVars, boundVars
<1>3. /\ \A d \in Clients : Alike(d) /\ Held(d)' = Held(d)
      /\ PcInv' /\ Active' = Active
      /\ \A j : Updating(j)' <=> Updating(j)
      /\ \A pcs : Flushing(pcs)' <=> Flushing(pcs)
  BY <1>1, <1>2, ClientsStand
<1>4. /\ cache' \in [Keys -> Content] /\ \A j \in Keys : cache'[j] = <<>> \/ cache'[j] = cache[j]
  BY <1>1, <1>2 DEF TypeOK, Content
<1>5. /\ stale' \in [Keys -> SUBSET Ways]
      /\ \A j \in Keys : cache'[j] # <<>> => stale'[j] = stale[j]
  BY <1>1, <1>2, UnmarkedFacts
<1>6. StructInv'
  <2>1. TypeOK'
    BY <1>1, <1>2, <1>4, <1>5 DEF TypeOK
  <2>2. LockInv' /\ TasksInv'
    BY <1>1, <1>2, <1>3 DEF LockInv, TasksInv
  <2>3. StatusInv' /\ LoadInv' /\ FlagWillBeReset'
    BY <1>1, <1>2 DEF StatusInv, LoadInv, FlagWillBeReset
  <2> QED BY <2>1, <2>2, <2>3, <1>3 DEF StructInv
<1>7. (CacheUnused => CacheUnused') /\ (FlushUnderWay => FlushUnderWay')
  BY <1>2, <1>3 DEF CacheUnused, FlushUnderWay, FlushToCome
<1>8. ASSUME NEW j \in Keys PROVE Coherent(j)' /\ (cache'[j] = <<>> \/ Stays(j))
  <2>1. CASE cache'[j] = <<>>
    BY <2>1 DEF Coherent, Right
  <2>2. CASE cache'[j] # <<>>
    <3>1. Coherent(j) /\ (Right(j) => Right(j)')
      BY <2>2, <1>1, <1>2, <1>4, <1>5 DEF DataInv, Right
    <3> QED BY <2>2, <3>1, <1>2, <1>3, <1>4, <1>5, <1>7 DEF Coherent, Stays
  <2> QED BY <2>1, <2>2
<1>9. \A d \in Clients : client[d].pc = "update" /\ IsWrite(client[d].cmd) => client[d].cmd.key \in Keys
  BY <1>1, CommandFacts DEF PcOK, PcInv
<1>10. LoaderOK'
  BY <1>1, <1>2 DEF DataInv, LoaderOK
<1>11. \A j \in Keys : Right(j)' \/ Stays(j)
  BY <1>8 DEF Right
<1>12. DataInv'
  BY <1>1, <1>2, <1>8, <1>9, <1>10, <1>11, ThreadData
<1> QED BY <1>6, <1>12 DEF CacheInv

(* DB::ChangeDb: everything that is cached may be wrong. *)
LEMMA ChangeDbStep ==
  ASSUME CacheInv, ChangeDb
  PROVE  CacheInv'
<1>1. /\ StructInv /\ DataInv /\ TypeOK /\ PcInv /\ LockInv /\ TasksInv /\ StatusInv /\ LoadInv
      /\ FlagWillBeReset
  BY DEF CacheInv, StructInv
<1>2. /\ faults < MaxFaults /\ NoneHoldsShared /\ faults' = faults + 1
      /\ client' = Observed(client) /\ stale' = Mark(Keys, "changedb") /\ loader' = Overtaken
      /\ UNCHANGED <<cache, locked, status, disabled, tasks, bg, loading, sent>>
  BY DEF ChangeDb, clearVars
<1>3. PICK v \in Values : db' = [k \in Keys |-> <<v>>]
  BY DEF ChangeDb
<1>4. db' \in [Keys -> Content]
  BY <1>3 DEF Content
<1>5. client' \in [Clients -> Client]
  <2>1. client \in [Clients -> Client] /\ \A d \in Clients : client[d].pc # "idle" => client[d].cmd \in Commands
    BY <1>1 DEF TypeOK, PcInv, PcOK
  <2> QED BY <2>1, <1>2, <1>4, ObservedFacts
<1>6. \A d \in Clients : Alike(d) /\
        (client[d].pc # "idle" /\ IsRead(client[d].cmd) => db'[client[d].cmd.key] \in client'[d].fresh)
  <2>1. client \in [Clients -> Client] /\ \A d \in Clients : client[d].pc # "idle" => client[d].cmd \in Commands
    BY <1>1 DEF TypeOK, PcInv, PcOK
  <2> QED BY <2>1, <1>2, <1>4, ObservedFacts DEF Alike
<1>7. stale' \in [Keys -> SUBSET Ways] /\ \A k \in Keys : cache'[k] = <<>> \/ stale'[k] # {}
  <2>1. "changedb" \in Ways
    BY DEF Ways
  <2> QED BY <2>1, <1>1, <1>2, MarkFacts
<1>8. /\ loader' \in {<<>>} \cup [key: ListKeys, content: Content, flushed: BOOLEAN]
      /\ loader' # <<>> => loader # <<>> /\ loader'.key = loader.key /\ loader'.flushed
  BY <1>1, <1>2, OvertakenFacts
<1>9. StructInv'
  <2>1. TypeOK'
    <3>1. faults' \in 0..MaxFaults
      BY <1>1, <1>2, CacheAssumption DEF TypeOK
    <3> QED BY <3>1, <1>1, <1>2, <1>4, <1>5, <1>7, <1>8 DEF TypeOK
  <2>2. PcInv' /\ \A d \in Clients : Held(d)' = Held(d)
    <3>1. ASSUME NEW d \in Clients PROVE PcOK(d)'
      <4>1. PcOK(d) /\ Alike(d)
        BY <1>1, <1>6 DEF PcInv
      <4> QED BY <4>1 DEF PcOK, Alike
    <3> QED BY <3>1, <1>6, HeldKept DEF PcInv
  <2>3. Active' = Active
    BY <1>6 DEF Active, Alike
  <2>4. LockInv'
    BY <2>2, <1>1, <1>2, <1>8 DEF LockInv
  <2>5. TasksInv' /\ StatusInv'
    BY <2>3, <1>1, <1>2 DEF TasksInv, StatusInv
  <2>6. LoadInv'
    BY <1>1, <1>2, <1>8 DEF LoadInv
  <2>7. FlagWillBeReset'
    BY <1>1, <1>2, <1>6 DEF FlagWillBeReset, Alike
  <2> QED BY <2>1, <2>2, <2>4, <2>5, <2>6, <2>7 DEF StructInv
<1>10. \A k \in Keys : Right(k)' /\ Coherent(k)'
  BY <1>7 DEF Right, Coherent
<1>11. ASSUME NEW d \in Clients PROVE FillOK(d)' /\ UpdateOK(d)' /\ ReadOK(d)'
  <2>1. client[d].pc = "update" => ~IsRead(client[d].cmd) /\ ~IsWrite(client[d].cmd)
    BY <1>2, NoneUpdates
  <2> QED BY <2>1, <1>1, <1>6, <1>10, OthersKept
<1>12. LoaderOK'
  BY <1>8 DEF LoaderOK
<1> QED BY <1>9, <1>10, <1>11, <1>12 DEF DataInv, CacheInv

-----------------------------------------------------------------------------
(* The theorems *)

(* The invariant holds when the server starts. *)
LEMMA InitCacheInv == Init => CacheInv
<1> SUFFICES ASSUME Init PROVE CacheInv
  OBVIOUS
<1>1. NoClient \in Client /\ NoClient.pc = "idle"
  BY DEF NoClient, Client, Content
<1>2. /\ db = [k \in Keys |-> <<>>] /\ cache = [k \in Keys |-> <<>>]
      /\ status = "ok" /\ disabled = FALSE /\ locked = {}
      /\ client = [c \in Clients |-> NoClient]
      /\ loading = <<>> /\ loader = <<>> /\ tasks = 0 /\ bg = "idle"
      /\ sent = 0 /\ faults = 0 /\ stale = [k \in Keys |-> {}]
  BY DEF Init
<1>3. \A c \in Clients : client[c].pc = "idle"
  BY <1>1, <1>2
<1>4. loading \in Seq(ListKeys) /\ LoadInv
  BY <1>2 DEF LoadInv
<1>5. TypeOK
  <2>1. Len(loading) <= Cardinality(ListKeys)
    BY <1>4, LoadBound DEF LoadInv
  <2>2. {MaxLen, MaxCommands, MaxFaults} \subseteq Nat
    BY CacheAssumption
  <2>3. /\ db \in [Keys -> Content] /\ cache \in [Keys -> Content] /\ stale \in [Keys -> SUBSET Ways]
        /\ client \in [Clients -> Client]
    BY <1>1, <1>2 DEF Content
  <2>4. tasks \in 0..MaxCommands /\ sent \in 0..MaxCommands /\ faults \in 0..MaxFaults
    BY <2>2, <1>2
  <2> QED BY <2>1, <2>3, <2>4, <1>2, <1>4 DEF TypeOK
<1>6. PcInv /\ StatusInv /\ FlagWillBeReset
  BY <1>2, <1>3 DEF PcInv, PcOK, StatusInv, FlagWillBeReset
<1>7. LockInv
  <2>1. \A c \in Clients : Held(c) = {}
    BY <1>3 DEF Held
  <2> QED BY <2>1, <1>2 DEF LockInv
<1>8. TasksInv
  <2>1. Active = {}
    BY <1>3 DEF Active
  <2> QED BY <2>1, <1>2, FS_EmptySet DEF TasksInv
<1>9. DataInv
  <2>1. \A k \in Keys : Coherent(k)
    BY <1>2 DEF Coherent, Right
  <2>2. \A c \in Clients : FillOK(c) /\ UpdateOK(c) /\ ReadOK(c)
    BY <1>3 DEF FillOK, UpdateOK, ReadOK
  <2> QED BY <2>1, <2>2, <1>2 DEF DataInv, LoaderOK
<1> QED BY <1>4, <1>5, <1>6, <1>7, <1>8, <1>9 DEF CacheInv, StructInv

(* Nothing happens. *)
LEMMA StutterStep ==
  ASSUME CacheInv, UNCHANGED vars
  PROVE  CacheInv'
<1>1. /\ UNCHANGED <<db, cache, status, disabled, locked, client, loading, loader, tasks, bg, sent>>
      /\ UNCHANGED <<faults, stale>> /\ StructInv /\ DataInv /\ StructInv /\ TypeOK
  BY DEF vars, CacheInv, StructInv
<1>2. /\ \A d \in Clients : Held(d)' = Held(d)
      /\ PcInv' /\ Active' = Active
      /\ \A k : Updating(k)' <=> Updating(k)
      /\ \A pcs : Flushing(pcs)' <=> Flushing(pcs)
  BY <1>1, ClientsStand
<1>3. StructInv'
  BY <1>1, <1>2 DEF StructInv, TypeOK, LockInv, TasksInv, StatusInv, LoadInv, FlagWillBeReset
<1>4. (CacheUnused => CacheUnused') /\ (FlushUnderWay => FlushUnderWay')
  BY <1>1, <1>2 DEF CacheUnused, FlushUnderWay, FlushToCome
<1>5. ASSUME NEW k \in Keys PROVE Coherent(k)' /\ Stays(k)
  <2>1. Coherent(k) /\ (Right(k) => Right(k)')
    BY <1>1 DEF DataInv, Right
  <2> QED BY <2>1, <1>1, <1>2, <1>4 DEF Coherent, Stays
<1>6. \A d \in Clients : client[d].pc = "update" /\ IsWrite(client[d].cmd) => client[d].cmd.key \in Keys
  BY <1>1, CommandFacts DEF StructInv, PcOK, PcInv
<1>7. LoaderOK'
  BY <1>1 DEF DataInv, LoaderOK
<1>8. DataInv'
  BY <1>1, <1>5, <1>6, <1>7, ThreadData
<1> QED BY <1>3, <1>8 DEF CacheInv

(* Every step keeps the invariant. *)
LEMMA NextCacheInv ==
  ASSUME CacheInv, [Next]_vars
  PROVE  CacheInv'
<1>1. ASSUME NEW c \in Clients, ProcessRedisCmds(c) \/ ClientStep(c) PROVE CacheInv'
  BY <1>1, ProcessRedisCmdsStep, DoReadCommandInCacheStep, RtcReadCacheStep,
     InternalProcessCommandStep, DoCommandStep, ReadCacheStep, LockMissedStep, DoReadStep,
     DoWriteStep, DoFlushStep, FillCacheStep, PushStep, UpdateCacheStep, ClearCacheDbAsyncStep,
     ScheduleClearStep, ReleaseStep
  DEF ClientStep
<1>2. ASSUME LoadThread \/ ClearTask \/ ChangeDb PROVE CacheInv'
  BY <1>2, LoadKeyStep, WriteListToCacheStep, ClearStartStep, FlushCacheStep, ClearEndStep,
     UnsetStep, ChangeDbStep
  DEF LoadThread, ClearTask
<1>3. ASSUME NEW k \in Keys, Evict(k) PROVE CacheInv'
  BY <1>3, EvictStep
<1>4. CASE UNCHANGED vars
  BY <1>4, StutterStep
<1> QED BY <1>1, <1>2, <1>3, <1>4 DEF Next

(* The inductive invariant holds of every behaviour: record locks, the clear  *)
(* tasks and the load queue (StructInv), and what storage, cache and each     *)
(* client's command have to do with one another (DataInv).                    *)
THEOREM Invariant == Spec => []CacheInv
<1>1. Init => CacheInv
  BY InitCacheInv
<1>2. CacheInv /\ [Next]_vars => CacheInv'
  BY NextCacheInv
<1> QED BY <1>1, <1>2, PTL DEF Spec

(* Types, the load queue no longer than there are lists (loadkeys_map_ keeps  *)
(* a key from being queued twice) and no more clear tasks than commands.      *)
THEOREM TypeCorrect == Spec => []TypeOK
<1>1. CacheInv => TypeOK
  BY DEF CacheInv, StructInv
<1> QED BY <1>1, Invariant, PTL

(* What is cached is what the storage holds, whatever the interleaving of     *)
(* reads that fill the cache, writes that change it, the load thread and the  *)
(* clear task, but for the ways that the code leaves open.                    *)
THEOREM CacheStaysCoherent == Spec => []CacheCoherent
<1>1. CacheInv => CacheCoherent
  <2> SUFFICES ASSUME CacheInv, NEW k \in Keys
               PROVE  cache[k] \in {<<>>, db[k]} \/ Changing(k) \/ CacheUnused \/ stale[k] # {}
    BY DEF CacheCoherent
  <2>1. Coherent(k)
    BY DEF CacheInv, DataInv
  <2>2. Flushing({"update"}) \/ Flushing({"schedule"}) => Flushing({"update", "schedule"})
    BY DEF Flushing
  <2> QED BY <2>1, <2>2 DEF Coherent, Right, Changing
<1> QED BY <1>1, Invariant, PTL

(* ClearCacheDbAsync and DoCacheBGTask: the cache is never left disabled with *)
(* nobody to enable it.                                                       *)
THEOREM CacheComesBack == Spec => []FlagWillBeReset
<1>1. CacheInv => FlagWillBeReset
  BY DEF CacheInv, StructInv
<1> QED BY <1>1, Invariant, PTL

(* A read is answered from the cache by its own step alone. *)
LEMMA AnsweredFromCache ==
  ASSUME CacheInv, Next, NEW c \in Clients, client[c].pc \in {"readcache", "rtcread"},
         client'[c].pc = "release"
  PROVE  ReadCache(c) \/ RtcReadCache(c)
<1>1. client \in [Clients -> Client]
  BY DEF CacheInv, StructInv, TypeOK
<1>2. ASSUME NEW cl \in [Clients -> Client], client' = Observed(cl)
      PROVE  client'[c].pc = cl[c].pc
  <2>1. CASE cl[c].pc # "idle" /\ IsRead(cl[c].cmd)
    <3>1. client'[c] = [cl[c] EXCEPT !.fresh = @ \cup {db'[cl[c].cmd.key]}]
      BY <2>1, <1>2 DEF Observed
    <3>2. cl[c] \in Client
      OBVIOUS
    <3> QED BY <3>1, <3>2 DEF Client
  <2>2. CASE ~(cl[c].pc # "idle" /\ IsRead(cl[c].cmd))
    BY <2>2, <1>2 DEF Observed
  <2> QED BY <2>1, <2>2
<1>3. ASSUME NEW d \in Clients \ {c}, NEW pc \in PCs
      PROVE  Goto(d, pc) \in [Clients -> Client] /\ Goto(d, pc)[c] = client[c]
  <2>1. client[d] \in Client
    BY <1>1
  <2>2. [client[d] EXCEPT !.pc = pc] \in Client
    BY <2>1 DEF Client, PCs
  <2> QED BY <2>2, <1>1 DEF Goto
<1>4. ASSUME NEW d \in Clients \ {c}, ProcessRedisCmds(d) \/ ClientStep(d)
      PROVE  client'[c].pc = client[c].pc
  <2>1. CASE DoWrite(d) \/ DoFlush(d)
    <3>1. PICK pc \in {"update", "release"} : client' = Observed(Goto(d, pc))
      BY <2>1 DEF DoWrite, DoFlush
    <3>2. pc \in PCs
      BY DEF PCs
    <3> QED BY <3>1, <3>2, <1>2, <1>3
  <2>2. CASE ~(DoWrite(d) \/ DoFlush(d))
    <3>1. CASE ProcessRedisCmds(d)
      BY <3>1, <1>1 DEF ProcessRedisCmds
    <3>2. CASE DoReadCommandInCache(d) \/ RtcReadCache(d) \/ InternalProcessCommand(d)
      BY <3>2, <1>1 DEF DoReadCommandInCache, RtcReadCache, InternalProcessCommand, Goto
    <3>3. CASE DoCommand(d) \/ ReadCache(d) \/ LockMissed(d) \/ DoRead(d)
      BY <3>3, <1>1 DEF DoCommand, ReadCache, LockMissed, DoRead, Goto
    <3>4. CASE FillCache(d) \/ Push(d) \/ ClearCacheDbAsync(d) \/ ScheduleClear(d) \/ Release(d)
      BY <3>4, <1>1 DEF FillCache, Push, ClearCacheDbAsync, ScheduleClear, Release, Goto
    <3>5. CASE UpdateCache(d)
      <4>1. client' = Goto(d, "release")
        BY <3>5 DEF UpdateCache
      <4> QED BY <4>1, <1>1 DEF Goto
    <3> QED BY <1>4, <2>2, <3>1, <3>2, <3>3, <3>4, <3>5 DEF ClientStep
  <2> QED BY <2>1, <2>2
<1>5. ASSUME ProcessRedisCmds(c) \/ ClientStep(c)
      PROVE  ReadCache(c) \/ RtcReadCache(c)
  <2>1. ~ProcessRedisCmds(c) /\ ~DoReadCommandInCache(c) /\ ~InternalProcessCommand(c) /\ ~DoCommand(c)
    BY DEF ProcessRedisCmds, DoReadCommandInCache, InternalProcessCommand, DoCommand
  <2>2. ~LockMissed(c) /\ ~DoRead(c) /\ ~DoWrite(c) /\ ~DoFlush(c) /\ ~FillCache(c) /\ ~Push(c)
    BY DEF LockMissed, DoRead, DoWrite, DoFlush, FillCache, Push
  <2>3. ~UpdateCache(c) /\ ~ClearCacheDbAsync(c) /\ ~ScheduleClear(c) /\ ~Release(c)
    BY DEF UpdateCache, ClearCacheDbAsync, ScheduleClear, Release
  <2> QED BY <1>5, <2>1, <2>2, <2>3 DEF ClientStep
<1>6. ~(LoadThread \/ ClearTask) /\ \A k \in Keys : ~Evict(k)
  <2>1. client' # client
    OBVIOUS
  <2>2. ~LoadKey /\ ~WriteListToCache /\ ~ClearStart /\ ~FlushCache /\ ~ClearEnd
    BY <2>1 DEF LoadKey, WriteListToCache, ClearStart, FlushCache, ClearEnd
  <2>3. ~UnsetCacheDisableFlag /\ \A k \in Keys : ~Evict(k)
    BY <2>1 DEF UnsetCacheDisableFlag, Evict
  <2> QED BY <2>2, <2>3 DEF LoadThread, ClearTask
<1>7. ~ChangeDb
  BY <1>1, <1>2 DEF ChangeDb
<1> QED BY <1>4, <1>5, <1>6, <1>7 DEF Next

(* Cmd::DoCommand and DoReadCommandInCache: a read that is answered from the  *)
(* cache returns what its key held at some time since the command arrived,    *)
(* but for the ways that the code leaves open.                                *)
THEOREM CachedReadsAreFresh == Spec => CachedReadsFresh
<1> DEFINE A == \A c \in Clients :
                  client[c].pc \in {"readcache", "rtcread"} /\ client'[c].pc = "release"
                    => \/ client'[c].content \in client[c].fresh
                       \/ stale[client[c].cmd.key] # {}
                       \/ client[c].pc = "rtcread" /\ FlushUnderWay
<1>1. ASSUME CacheInv, Next PROVE A
  <2> SUFFICES ASSUME NEW c \in Clients, client[c].pc \in {"readcache", "rtcread"},
                      client'[c].pc = "release"
               PROVE  \/ client'[c].content \in client[c].fresh
                      \/ stale[client[c].cmd.key] # {}
                      \/ client[c].pc = "rtcread" /\ FlushUnderWay
    OBVIOUS
  <2>1. PcOK(c) /\ ReadOK(c) /\ client[c] \in Client /\ client \in [Clients -> Client]
    BY <1>1 DEF CacheInv, StructInv, DataInv, PcInv, TypeOK
  <2>2. IsRead(client[c].cmd)
    BY <2>1 DEF PcOK, IsRead
  <2>3. ReadCache(c) \/ RtcReadCache(c)
    BY <1>1, AnsweredFromCache
  <2> DEFINE found == cache[client[c].cmd.key]
  <2>4. client'[c].content = found /\ found # <<>>
    <3>1. CASE ReadCache(c)
      <4>1. client'[c] = [client[c] EXCEPT !.pc = IF found # <<>> THEN "release" ELSE "miss",
                                           !.through = (found = <<>>), !.content = found]
        BY <3>1, <2>1 DEF ReadCache
      <4> HIDE DEF found
      <4> QED BY <4>1, <2>1 DEF Client
    <3>2. CASE RtcReadCache(c)
      <4>1. client'[c] = [client[c] EXCEPT !.pc = IF found # <<>> THEN "release" ELSE "queued",
                                           !.missed = (found = <<>>), !.content = found]
        BY <3>2, <2>1 DEF RtcReadCache
      <4> HIDE DEF found
      <4> QED BY <4>1, <2>1 DEF Client
    <3> QED BY <2>3, <3>1, <3>2
  <2> QED BY <2>1, <2>2, <2>4 DEF ReadOK
<1>2. CacheInv /\ [Next]_vars => [A]_vars
  BY <1>1
<1>3. Spec => [][A]_vars
  BY <1>2, Invariant, PTL DEF Spec
<1> QED BY <1>3 DEF CachedReadsFresh

=============================================================================
