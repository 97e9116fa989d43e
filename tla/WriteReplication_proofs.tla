----------------------- MODULE WriteReplication_proofs -----------------------
(***************************************************************************)
(* The write path of the master and the execution of the binlog on the     *)
(* slave, for any number of clients, keys and workers: types, agreement of *)
(* the master's binlog with its database, execution in binlog order on the *)
(* slave, and a Stop that loses nothing.                                   *)
(***************************************************************************)
EXTENDS WriteReplication, TLAPS, FiniteSetTheorems, SequenceTheorems

-----------------------------------------------------------------------------
(* Sequences and their elements *)

(* The elements of a sequence. *)
LEMMA ToSetFacts ==
  ASSUME NEW S, NEW s \in Seq(S)
  PROVE  /\ ToSet(s) = {s[i] : i \in 1..Len(s)}
         /\ ToSet(s) \subseteq S
         /\ \A i \in 1..Len(s) : s[i] \in ToSet(s)
  BY DEF ToSet

(* Taking the first element off, as TryLock and DoBinlog do. *)
LEMMA ToSetHeadTail ==
  ASSUME NEW S, NEW s \in Seq(S), s # <<>>
  PROVE  /\ Head(s) \in ToSet(s)
         /\ ToSet(s) = {Head(s)} \cup ToSet(Tail(s))
<1>1. /\ Len(s) \in Nat \ {0} /\ Tail(s) \in Seq(S) /\ Len(Tail(s)) = Len(s) - 1
      /\ \A i \in 1..Len(Tail(s)) : Tail(s)[i] = s[i + 1]
      /\ Head(s) = s[1]
  BY HeadTailProperties, EmptySeq, LenProperties
<1>2. ToSet(s) = {s[i] : i \in 1..Len(s)}
  BY ToSetFacts
<1>3. ToSet(Tail(s)) = {Tail(s)[i] : i \in 1..Len(Tail(s))}
  BY <1>1, ToSetFacts
<1>4. ASSUME NEW x \in ToSet(s) PROVE x \in {Head(s)} \cup ToSet(Tail(s))
  <2>1. PICK i \in 1..Len(s) : x = s[i]
    BY <1>2
  <2>2. CASE i = 1
    BY <2>1, <2>2, <1>1
  <2>3. CASE i # 1
    <3>1. i - 1 \in 1..Len(Tail(s)) /\ x = Tail(s)[i - 1]
      BY <2>1, <2>3, <1>1
    <3> QED BY <3>1, <1>3
  <2> QED BY <2>2, <2>3
<1>5. ASSUME NEW x \in ToSet(Tail(s)) PROVE x \in ToSet(s)
  <2>1. PICK i \in 1..Len(Tail(s)) : x = Tail(s)[i]
    BY <1>3
  <2>2. i + 1 \in 1..Len(s) /\ x = s[i + 1]
    BY <2>1, <1>1
  <2> QED BY <2>2, <1>2
<1>6. Head(s) \in ToSet(s)
  BY <1>1, <1>2
<1> QED BY <1>4, <1>5, <1>6

(* A command names finitely many keys. *)
LEMMA ToSetFinite ==
  ASSUME NEW S, NEW s \in Seq(S)
  PROVE  IsFiniteSet(ToSet(s))
<1>1. Len(s) \in Nat /\ s \in [1..Len(s) -> S]
  BY LenProperties
<1>2. s \in Surjection(1..Len(s), ToSet(s))
  BY <1>1, ToSetFacts DEF Surjection
<1>3. IsFiniteSet(1..Len(s))
  BY <1>1, FS_Interval
<1> QED BY <1>2, <1>3, FS_Surjection

(* The number of elements below k tells the elements of a set apart. *)
LEMMA RankInjective ==
  ASSUME NEW S \in SUBSET Nat, IsFiniteSet(S), NEW k \in S, NEW l \in S,
         Cardinality({j \in S : j < k}) = Cardinality({j \in S : j < l})
  PROVE  k = l
<1>1. ASSUME NEW a \in S, NEW b \in S, a < b,
             Cardinality({j \in S : j < a}) = Cardinality({j \in S : j < b})
      PROVE  FALSE
  <2> DEFINE A == {j \in S : j < a}
             B == {j \in S : j < b}
  <2>1. IsFiniteSet(B)
    BY FS_Subset
  <2>2. A \in SUBSET B
    <3>1. a \in Nat /\ b \in Nat /\ a < b
      BY <1>1
    <3>2. \A j \in S : j \in Nat /\ (j < a => j < b)
      BY <3>1
    <3> QED BY <3>2
  <2>3. A = B
    BY <2>1, <2>2, <1>1, FS_Subset
  <2>4. a \in B /\ a \notin A
    BY <1>1
  <2> QED BY <2>3, <2>4
<1>2. k \in Nat /\ l \in Nat
  OBVIOUS
<1>3. k < l \/ l < k \/ k = l
  BY <1>2
<1> QED BY <1>1, <1>3

(* MultiRecordLock::Lock locks the keys of the command and no others. *)
LEMMA LockOrderFacts ==
  ASSUME NEW K \in SUBSET Nat, NEW keys \in Seq(K), keys # <<>>
  PROVE  /\ LockOrder(keys) \in Seq(ToSet(keys))
         /\ LockOrder(keys) # <<>>
         /\ ToSet(LockOrder(keys)) = ToSet(keys)
<1> DEFINE S == ToSet(keys)
           n == Cardinality(S)
           rank(k) == Cardinality({j \in S : j < k})
           order == [i \in 1..n |-> CHOOSE k \in S : rank(k) = i - 1]
<1>1. S \in SUBSET Nat /\ IsFiniteSet(S) /\ keys[1] \in S /\ S # {}
  <2>1. Len(keys) \in Nat \ {0}
    BY EmptySeq
  <2>2. IsFiniteSet(S)
    BY ToSetFinite
  <2>3. S \subseteq K /\ keys[1] \in S
    BY <2>1, ToSetFacts
  <2> QED BY <2>2, <2>3
<1>2. n \in Nat \ {0}
  BY <1>1, FS_CardinalityType, FS_EmptySet
<1>3. \A k \in S : rank(k) \in 0..(n - 1)
  <2> SUFFICES ASSUME NEW k \in S PROVE rank(k) \in 0..(n - 1)
    OBVIOUS
  <2> DEFINE B == {j \in S : j < k}
  <2>1. B \in SUBSET S /\ k \notin B
    BY <1>1
  <2>2. IsFiniteSet(B) /\ Cardinality(B) <= n /\ Cardinality(B) # n
    BY <1>1, <2>1, FS_Subset
  <2>3. Cardinality(B) \in Nat
    BY <2>2, FS_CardinalityType
  <2> QED BY <2>2, <2>3, <1>2
<1>4. \A k \in S : \A l \in S : rank(k) = rank(l) => k = l
  BY <1>1, RankInjective
<1>5. \A i \in 0..(n - 1) : \E k \in S : rank(k) = i
  <2> DEFINE f == [k \in S |-> rank(k)]
             T == 0..(n - 1)
  <2>1. f \in Injection(S, T)
    <3> HIDE DEF rank, n, S
    <3> QED BY <1>3, <1>4 DEF Injection, IsInjective
  <2>2. IsFiniteSet(T) /\ Cardinality(T) = n
    <3>1. 0 \in Int /\ n - 1 \in Int /\ n - 1 >= 0
      BY <1>2
    <3>2. IsFiniteSet(T) /\ Cardinality(T) = IF 0 > n - 1 THEN 0 ELSE (n - 1) - 0 + 1
      <4> HIDE DEF n
      <4> QED BY <3>1, FS_Interval, Zenon
    <3> HIDE DEF n, T
    <3> QED BY <3>1, <3>2, <1>2
  <2>3. f \in Surjection(S, T)
    BY <2>1, <2>2, FS_Injection
  <2> QED BY <2>3 DEF Surjection
<1>6. \A i \in 1..n : order[i] \in S /\ rank(order[i]) = i - 1
  <2> SUFFICES ASSUME NEW i \in 1..n PROVE order[i] \in S /\ rank(order[i]) = i - 1
    OBVIOUS
  <2>1. i - 1 \in 0..(n - 1)
    BY <1>2
  <2>2. \E k \in S : rank(k) = i - 1
    BY <2>1, <1>5
  <2> HIDE DEF rank
  <2> QED BY <2>2
<1>7. order \in Seq(S) /\ Len(order) = n
  <2> HIDE DEF rank, n, S
  <2> QED BY <1>2, <1>6
<1>8. \A k \in S : \E i \in 1..n : order[i] = k
  <2> SUFFICES ASSUME NEW k \in S PROVE \E i \in 1..n : order[i] = k
    OBVIOUS
  <2>1. rank(k) + 1 \in 1..n /\ (rank(k) + 1) - 1 = rank(k)
    BY <1>2, <1>3
  <2>2. order[rank(k) + 1] = k
    <3> HIDE DEF rank, order
    <3> QED BY <2>1, <1>6, <1>4
  <2> QED BY <2>1, <2>2
<1>9. LockOrder(keys) = order
  BY DEF LockOrder
<1>10. order # <<>>
  <2> HIDE DEF order, n
  <2> QED BY <1>7, <1>2, EmptySeq
<1>11. ToSet(order) = S
  <2> HIDE DEF order, n, S
  <2>1. ToSet(order) = {order[i] : i \in 1..n} /\ ToSet(order) \subseteq S
    BY <1>7, ToSetFacts
  <2> QED BY <2>1, <1>8
<1> QED
  <2> HIDE DEF order
  <2> QED BY <1>7, <1>9, <1>10, <1>11

-----------------------------------------------------------------------------
(* What a log leaves at a key *)

(* A record at the end of a log decides what it leaves at its key. *)
LEMMA AppendTouching ==
  ASSUME NEW log \in Seq(Record), NEW r \in Record, NEW k, Touches(r, k)
  PROVE  IsValue(Append(log, r), k, r.val)
<1> DEFINE new == Append(log, r)
           n == Len(log) + 1
<1>1. new \in Seq(Record) /\ Len(new) = n /\ new[n] = r /\ n \in Nat /\ DOMAIN new = 1..n
  BY AppendProperties, LenProperties
<1>2. n \in DOMAIN new /\ (n + 1)..Len(new) = {}
  BY <1>1
<1> QED BY <1>1, <1>2 DEF IsValue

(* A record on another key changes nothing of what a log leaves. *)
LEMMA AppendNotTouching ==
  ASSUME NEW log \in Seq(Record), NEW r \in Record, NEW k, NEW v, ~Touches(r, k),
         IsValue(log, k, v)
  PROVE  IsValue(Append(log, r), k, v)
<1> DEFINE new == Append(log, r)
           n == Len(log)
<1>1. /\ n \in Nat /\ Len(new) = n + 1 /\ new[n + 1] = r
      /\ DOMAIN new = 1..(n + 1) /\ DOMAIN log = 1..n
      /\ \A i \in 1..n : new[i] = log[i]
  <2>1. new \in Seq(Record)
    BY AppendProperties
  <2> QED BY <2>1, AppendProperties, LenProperties
<1> HIDE DEF new, n
<1>2. CASE v = NoValue /\ \A i \in DOMAIN log : ~Touches(log[i], k)
  <2>1. \A i \in DOMAIN new : ~Touches(new[i], k)
    BY <1>1, <1>2
  <2>2. IsValue(new, k, v)
    BY <1>2, <2>1 DEF IsValue
  <2> QED BY <2>2 DEF new
<1>3. ASSUME NEW i \in DOMAIN log, Touches(log[i], k), v = log[i].val,
             \A j \in (i + 1)..n : ~Touches(log[j], k)
      PROVE  IsValue(new, k, v)
  <2>1. i \in DOMAIN new /\ Touches(new[i], k) /\ v = new[i].val
    BY <1>1, <1>3
  <2>2. \A j \in (i + 1)..Len(new) : ~Touches(new[j], k)
    <3> SUFFICES ASSUME NEW j \in (i + 1)..(n + 1) PROVE ~Touches(new[j], k)
      BY <1>1
    <3>1. CASE j = n + 1
      BY <3>1, <1>1
    <3>2. CASE j # n + 1
      <4>1. j \in (i + 1)..n /\ j \in 1..n
        BY <3>2, <1>1
      <4> QED BY <4>1, <1>1, <1>3
    <3> QED BY <3>1, <3>2
  <2> QED BY <2>1, <2>2 DEF IsValue
<1> QED BY <1>2, <1>3 DEF IsValue, n, new

-----------------------------------------------------------------------------
(* The write path of the master *)

(* Keys and value of a command. *)
LEMMA CommandFacts ==
  ASSUME NEW cmd \in Command
  PROVE  /\ cmd.keys \in Seq(Keys \cup {NoKey}) /\ cmd.keys # <<>>
         /\ cmd.val \in Values \cup {NoValue}
         /\ cmd.type \in {"set", "mset", "del", "flushdb"}
         /\ cmd.type # "flushdb" => ToSet(cmd.keys) \subseteq Keys
         /\ cmd.type = "flushdb" => cmd.keys = <<NoKey>> /\ cmd.val = NoValue
<1>1. ASSUME NEW n \in Nat \ {0}, NEW s \in [1..n -> Keys]
      PROVE  s \in Seq(Keys) /\ s \in Seq(Keys \cup {NoKey}) /\ s # <<>> /\ ToSet(s) \subseteq Keys
  <2>1. s \in Seq(Keys) /\ Len(s) = n
    OBVIOUS
  <2>2. s # <<>>
    BY <2>1, EmptySeq
  <2>3. s \in Seq(Keys \cup {NoKey})
    BY <2>1, SeqMonotonic
  <2> QED BY <2>1, <2>2, <2>3, ToSetFacts
<1>2. ASSUME NEW s \in KeySeqs
      PROVE  s \in Seq(Keys \cup {NoKey}) /\ s # <<>> /\ ToSet(s) \subseteq Keys
  <2>1. PICK n \in 1..MaxArgs : s \in [1..n -> Keys]
    BY DEF KeySeqs
  <2>2. n \in Nat \ {0}
    BY WriteAssumption
  <2> QED BY <2>1, <2>2, <1>1
<1>3. CASE cmd \in [type: {"set"}, keys: [1..1 -> Keys], val: Values]
  <2>1. cmd.keys \in [1..1 -> Keys] /\ cmd.type = "set" /\ cmd.val \in Values
    BY <1>3
  <2>2. 1 \in Nat \ {0}
    OBVIOUS
  <2>3. cmd.keys \in Seq(Keys \cup {NoKey}) /\ cmd.keys # <<>> /\ ToSet(cmd.keys) \subseteq Keys
    BY <2>1, <2>2, <1>1, Zenon
  <2> QED BY <2>1, <2>3
<1>4. CASE cmd \in [type: {"mset"}, keys: KeySeqs, val: Values]
  <2>1. cmd.keys \in KeySeqs /\ cmd.type = "mset" /\ cmd.val \in Values
    BY <1>4
  <2> QED BY <2>1, <1>2
<1>5. CASE cmd \in [type: {"del"}, keys: KeySeqs, val: {NoValue}]
  <2>1. cmd.keys \in KeySeqs /\ cmd.type = "del" /\ cmd.val = NoValue
    BY <1>5
  <2> QED BY <2>1, <1>2
<1>6. CASE cmd \in [type: {"flushdb"}, keys: {<<NoKey>>}, val: {NoValue}]
  <2>1. cmd.keys = <<NoKey>> /\ cmd.type = "flushdb" /\ cmd.val = NoValue
    BY <1>6
  <2>2. <<NoKey>> \in Seq(Keys \cup {NoKey}) /\ <<NoKey>> # <<>>
    OBVIOUS
  <2>3. cmd.keys \in Seq(Keys \cup {NoKey}) /\ cmd.keys # <<>>
    BY <2>1, <2>2, Zenon
  <2>4. cmd.type # "flushdb" => ToSet(cmd.keys) \subseteq Keys
    BY <2>1
  <2>5. cmd.val \in Values \cup {NoValue} /\ cmd.type \in {"set", "mset", "del", "flushdb"}
    BY <2>1
  <2>6. cmd.type = "flushdb" => cmd.keys = <<NoKey>> /\ cmd.val = NoValue
    BY <2>1, Zenon
  <2> QED BY <2>3, <2>4, <2>5, <2>6, Zenon
<1> QED BY <1>3, <1>4, <1>5, <1>6 DEF Command

PCs == {"idle", "lock", "share", "rm", "do", "binlog", "release"}

(* The keys that a client's command has locked. *)
Held(c) ==
  IF client[c].pc = "idle" THEN {}
  ELSE IF client[c].pc = "lock" THEN ToSet(client[c].cmd.keys) \ ToSet(client[c].left)
  ELSE ToSet(client[c].cmd.keys)

LocksHeld ==
  /\ \A c \in Clients : Held(c) \subseteq locked
  /\ \A c \in Clients : \A d \in Clients \ {c} : Held(c) \cap Held(d) = {}

(* Where a command stands, beside its locks. *)
CommandInv ==
  \A c \in Clients :
    /\ client[c].pc \in {"lock", "binlog"} => client[c].left # <<>>
    /\ client[c].pc = "binlog" => ToSet(client[c].left) \subseteq ToSet(client[c].cmd.keys)
    /\ client[c].pc \in {"do", "binlog", "release"} /\ ~IsSuspend(client[c].cmd) => c \in shared
    /\ client[c].pc = "rm" => IsSuspend(client[c].cmd)

(* A client that is about to log key k. *)
Logging(c, k) ==
  client[c].pc = "binlog" /\ client[c].cmd.type # "flushdb" /\ k \in ToSet(client[c].left)

(* What is still to be logged is what the database holds; beside a FLUSHDB    *)
(* that is not logged, only keys still to be logged have a value.             *)
UnloggedInv ==
  diverged = {} =>
    /\ \A c \in Clients : \A k \in Keys : Logging(c, k) => mdb[k] = client[c].cmd.val
    /\ \A c \in Clients :
         client[c].pc = "binlog" /\ client[c].cmd.type = "flushdb" =>
           \A k \in Keys : mdb[k] = NoValue \/ \E d \in Clients : Logging(d, k)

WriteInv == WriteTypeOK /\ LocksHeld /\ CommandInv /\ UnloggedInv /\ LogMatchesDatabase

(* The write path starts in the invariant. *)
LEMMA WriteInitInv == WriteInit => WriteInv
<1> SUFFICES ASSUME WriteInit PROVE WriteInv
  OBVIOUS
<1>1. FlushDb \in Command
  BY DEF FlushDb, Command
<1>2. IdleClient \in ClientState
  BY <1>1, EmptySeq DEF IdleClient, ClientState
<1>3. \A c \in Clients : client[c].pc = "idle"
  BY DEF WriteInit, IdleClient
<1>4. WriteTypeOK
  BY <1>2, EmptySeq DEF WriteInit, WriteTypeOK, EmptyDatabase, Database
<1>5. LocksHeld /\ CommandInv /\ UnloggedInv
  BY <1>3 DEF LocksHeld, Held, CommandInv, UnloggedInv, Logging
<1>6. LogMatchesDatabase
  <2>1. \A k \in Keys : mdb[k] = NoValue /\ mlog = <<>>
    BY DEF WriteInit, EmptyDatabase
  <2>2. DOMAIN <<>> = {}
    OBVIOUS
  <2> QED BY <2>1, <2>2 DEF LogMatchesDatabase, IsValue
<1> QED BY <1>4, <1>5, <1>6 DEF WriteInv

(* A step of client c changes the state of c alone. *)
LEMMA GotoFacts ==
  ASSUME WriteTypeOK, NEW c \in Clients, NEW pc \in PCs, NEW left \in Seq(Keys \cup {NoKey}),
         Goto(c, pc, left)
  PROVE  /\ client' \in [Clients -> ClientState]
         /\ client'[c].pc = pc /\ client'[c].cmd = client[c].cmd /\ client'[c].left = left
         /\ \A d \in Clients \ {c} : client'[d] = client[d]
<1>1. client[c] \in ClientState /\ client \in [Clients -> ClientState]
  BY DEF WriteTypeOK
<1> DEFINE new == [client[c] EXCEPT !.pc = pc, !.left = left]
<1>2. client' = [client EXCEPT ![c] = new]
  BY <1>1 DEF Goto
<1>3. new \in ClientState /\ new.pc = pc /\ new.cmd = client[c].cmd /\ new.left = left
  BY <1>1 DEF ClientState, PCs
<1> HIDE DEF new
<1>4. client' \in [Clients -> ClientState] /\ client'[c] = new /\ \A d \in Clients \ {c} : client'[d] = client[d]
  BY <1>1, <1>2, <1>3
<1> QED BY <1>3, <1>4

(* Locks stay apart when client c adds only keys that were free. *)
LEMMA LocksKept ==
  ASSUME WriteTypeOK, LocksHeld, NEW c \in Clients,
         \A d \in Clients \ {c} : client'[d] = client[d],
         NEW X, X \cap locked = {}, Held(c)' \subseteq Held(c) \cup X,
         locked \cup X \subseteq locked'
  PROVE  LocksHeld'
<1>1. \A d \in Clients \ {c} : Held(d)' = Held(d)
  BY DEF Held
<1>2. \A d \in Clients : Held(d) \subseteq locked
  BY DEF LocksHeld
<1>3. \A a \in Clients : \A b \in Clients \ {a} : Held(a) \cap Held(b) = {}
  BY DEF LocksHeld
<1> HIDE DEF Held
<1>4. \A d \in Clients : Held(d)' \subseteq locked'
  BY <1>1, <1>2
<1>5. \A d \in Clients \ {c} : Held(c)' \cap Held(d)' = {}
  BY <1>1, <1>2, <1>3
<1>6. ASSUME NEW a \in Clients, NEW b \in Clients \ {a} PROVE Held(a)' \cap Held(b)' = {}
  <2>1. CASE a = c
    BY <2>1, <1>5
  <2>2. CASE b = c
    BY <2>2, <1>5
  <2>3. CASE a # c /\ b # c
    BY <2>3, <1>1, <1>3
  <2> QED BY <2>1, <2>2, <2>3
<1> QED BY <1>4, <1>6 DEF LocksHeld

(* The others' part of CommandInv is kept while they keep the shared lock. *)
LEMMA CommandKept ==
  ASSUME CommandInv, NEW c \in Clients,
         \A d \in Clients \ {c} : client'[d] = client[d],
         shared \ {c} \subseteq shared',
         client'[c].pc \in {"lock", "binlog"} => client'[c].left # <<>>,
         client'[c].pc = "binlog" => ToSet(client'[c].left) \subseteq ToSet(client'[c].cmd.keys),
         client'[c].pc \in {"do", "binlog", "release"} /\ ~IsSuspend(client'[c].cmd) => c \in shared',
         client'[c].pc = "rm" => IsSuspend(client'[c].cmd)
  PROVE  CommandInv'
<1> SUFFICES ASSUME NEW d \in Clients
             PROVE  /\ client'[d].pc \in {"lock", "binlog"} => client'[d].left # <<>>
                    /\ client'[d].pc = "binlog" => ToSet(client'[d].left) \subseteq ToSet(client'[d].cmd.keys)
                    /\ client'[d].pc \in {"do", "binlog", "release"} /\ ~IsSuspend(client'[d].cmd) => d \in shared'
                    /\ client'[d].pc = "rm" => IsSuspend(client'[d].cmd)
  BY DEF CommandInv, IsSuspend
<1>1. CASE d = c
  BY <1>1
<1>2. CASE d # c
  BY <1>2 DEF CommandInv
<1> QED BY <1>1, <1>2

(* A step that changes neither the database nor what is to be logged. *)
LEMMA QuietStep ==
  ASSUME UnloggedInv, LogMatchesDatabase, NEW c \in Clients,
         \A d \in Clients \ {c} : client'[d] = client[d],
         client[c].pc # "binlog", client'[c].pc # "binlog",
         UNCHANGED <<mlog, mdb, diverged>>
  PROVE  UnloggedInv' /\ LogMatchesDatabase'
<1>1. \A d \in Clients : client[d].pc = "binlog" \/ client'[d].pc = "binlog" => client'[d] = client[d]
  OBVIOUS
<1>2. \A d \in Clients : \A k \in Keys : Logging(d, k)' <=> Logging(d, k)
  BY <1>1 DEF Logging
<1>3. UnloggedInv'
  <2> SUFFICES ASSUME diverged = {}
               PROVE  /\ \A d \in Clients : \A k \in Keys : Logging(d, k)' => mdb[k] = client'[d].cmd.val
                      /\ \A d \in Clients :
                           client'[d].pc = "binlog" /\ client'[d].cmd.type = "flushdb" =>
                             \A k \in Keys : mdb[k] = NoValue \/ \E e \in Clients : Logging(e, k)'
    BY DEF UnloggedInv
  <2>1. \A d \in Clients : \A k \in Keys : Logging(d, k)' => mdb[k] = client'[d].cmd.val
    <3>1. \A d \in Clients : \A k \in Keys : Logging(d, k) => client'[d] = client[d]
      BY <1>1 DEF Logging
    <3> QED BY <3>1, <1>2 DEF UnloggedInv
  <2>2. ASSUME NEW d \in Clients, client'[d].pc = "binlog", client'[d].cmd.type = "flushdb", NEW k \in Keys
        PROVE  mdb[k] = NoValue \/ \E e \in Clients : Logging(e, k)'
    BY <2>2, <1>1, <1>2 DEF UnloggedInv
  <2> QED BY <2>1, <2>2
<1>4. \A k \in Keys : Unlogged(k)' <=> Unlogged(k)
  BY <1>1 DEF Unlogged
<1>5. LogMatchesDatabase'
  BY <1>4 DEF LogMatchesDatabase
<1> QED BY <1>3, <1>5

(* PikaClientConn::DoCmd. *)
LEMMA DoCmdStep ==
  ASSUME WriteInv, NEW c \in Clients, DoCmd(c)
  PROVE  WriteInv'
<1>1. WriteTypeOK /\ LocksHeld /\ CommandInv /\ UnloggedInv /\ LogMatchesDatabase
  BY DEF WriteInv
<1>2. PICK cmd \in Command :
        client' = [client EXCEPT ![c] = [pc |-> "lock", cmd |-> cmd, left |-> LockOrder(cmd.keys)]]
  BY DEF DoCmd
<1>3. Keys \cup {NoKey} \in SUBSET Nat
  BY KeysAssumption DEF NoKey
<1>4. /\ LockOrder(cmd.keys) \in Seq(ToSet(cmd.keys)) /\ LockOrder(cmd.keys) # <<>>
      /\ ToSet(LockOrder(cmd.keys)) = ToSet(cmd.keys)
  BY <1>3, CommandFacts, LockOrderFacts
<1>5. LockOrder(cmd.keys) \in Seq(Keys \cup {NoKey})
  BY <1>4, CommandFacts, ToSetFacts, SeqMonotonic
<1> DEFINE new == [pc |-> "lock", cmd |-> cmd, left |-> LockOrder(cmd.keys)]
<1>6. new \in ClientState
  BY <1>5 DEF ClientState
<1>7. /\ client' \in [Clients -> ClientState] /\ client'[c] = new
      /\ \A d \in Clients \ {c} : client'[d] = client[d]
  <2> HIDE DEF new
  <2>1. client' = [client EXCEPT ![c] = new]
    BY <1>2 DEF new
  <2> QED BY <1>1, <1>6, <2>1 DEF WriteTypeOK
<1>8. client[c].pc = "idle" /\ UNCHANGED <<mlog, mdb, locked, shared, ioError, errors, diverged>> /\ issued' = issued + 1
  BY DEF DoCmd
<1>9. client'[c].pc = "lock" /\ client'[c].cmd = cmd /\ client'[c].left = LockOrder(cmd.keys)
  BY <1>7
<1> HIDE DEF new
<1>10. WriteTypeOK'
  BY <1>1, <1>7, <1>8 DEF WriteTypeOK, Database
<1>11. LocksHeld'
  <2>1. Held(c)' = {}
    BY <1>4, <1>9 DEF Held
  <2> QED BY <2>1, <1>1, <1>7, <1>8, LocksKept
<1>12. CommandInv'
  BY <1>1, <1>4, <1>7, <1>8, <1>9, CommandKept
<1>13. UnloggedInv' /\ LogMatchesDatabase'
  BY <1>1, <1>7, <1>8, <1>9, QuietStep
<1> QED BY <1>10, <1>11, <1>12, <1>13 DEF WriteInv

(* LockMgr::TryLock: a client gains a key that nobody holds. *)
LEMMA TryLockStep ==
  ASSUME WriteInv, NEW c \in Clients, TryLock(c)
  PROVE  WriteInv'
<1>1. WriteTypeOK /\ LocksHeld /\ CommandInv /\ UnloggedInv /\ LogMatchesDatabase
  BY DEF WriteInv
<1> DEFINE left == client[c].left
           cmd == client[c].cmd
<1>2. client[c] \in ClientState /\ client[c].pc = "lock"
  BY <1>1 DEF WriteTypeOK, TryLock
<1>3. left \in Seq(Keys \cup {NoKey}) /\ cmd \in Command
  BY <1>2 DEF ClientState
<1>4. left # <<>>
  BY <1>1, <1>2 DEF CommandInv
<1>5. /\ Head(left) \in ToSet(left) /\ ToSet(left) = {Head(left)} \cup ToSet(Tail(left))
      /\ Tail(left) \in Seq(Keys \cup {NoKey})
  BY <1>3, <1>4, ToSetHeadTail, HeadTailProperties
<1>6. Head(left) \in Keys \cup {NoKey}
  BY <1>3, <1>5, ToSetFacts
<1>7. /\ Head(left) \notin locked /\ locked' = locked \cup {Head(left)}
      /\ UNCHANGED <<mlog, mdb, shared, issued, ioError, errors, diverged>>
  BY DEF TryLock
<1>8. \E pc \in {"lock", "rm", "share"} : \E l \in Seq(Keys \cup {NoKey}) :
        /\ Goto(c, pc, l)
        /\ pc = "lock" => l = Tail(left) /\ Tail(left) # <<>>
        /\ pc # "lock" => Tail(left) = <<>>
        /\ pc = "rm" => IsSuspend(cmd)
  <2>1. CASE Tail(left) # <<>>
    <3>1. Goto(c, "lock", Tail(left))
      BY <2>1 DEF TryLock
    <3> HIDE DEF left, cmd
    <3> QED BY <3>1, <2>1, <1>5
  <2>2. CASE Tail(left) = <<>>
    <3>1. Goto(c, IF IsSuspend(cmd) THEN "rm" ELSE "share", <<>>)
      BY <2>2 DEF TryLock
    <3>2. <<>> \in Seq(Keys \cup {NoKey})
      BY EmptySeq
    <3> HIDE DEF left, cmd
    <3>3. CASE IsSuspend(cmd)
      BY <3>1, <3>2, <3>3, <2>2
    <3>4. CASE ~IsSuspend(cmd)
      BY <3>1, <3>2, <3>4, <2>2
    <3> QED BY <3>3, <3>4
  <2> QED BY <2>1, <2>2
<1>9. PICK pc \in {"lock", "rm", "share"}, l \in Seq(Keys \cup {NoKey}) :
        /\ Goto(c, pc, l)
        /\ pc = "lock" => l = Tail(left) /\ Tail(left) # <<>>
        /\ pc # "lock" => Tail(left) = <<>>
        /\ pc = "rm" => IsSuspend(cmd)
  BY <1>8
<1>10. /\ client' \in [Clients -> ClientState]
       /\ client'[c].pc = pc /\ client'[c].cmd = cmd /\ client'[c].left = l
       /\ \A d \in Clients \ {c} : client'[d] = client[d]
  <2>1. pc \in PCs
    BY DEF PCs
  <2> QED BY <1>1, <1>9, <2>1, GotoFacts
<1> HIDE DEF left, cmd
<1>11. WriteTypeOK'
  BY <1>1, <1>6, <1>7, <1>10 DEF WriteTypeOK, Database
<1>12. LocksHeld'
  <2>1. Held(c) = ToSet(cmd.keys) \ ToSet(left)
    BY <1>2 DEF Held, cmd, left
  <2>2. Held(c)' \subseteq Held(c) \cup {Head(left)}
    <3>1. CASE pc = "lock"
      <4>1. Held(c)' = ToSet(cmd.keys) \ ToSet(Tail(left))
        BY <3>1, <1>9, <1>10 DEF Held
      <4> QED BY <4>1, <2>1, <1>5
    <3>2. CASE pc # "lock"
      <4>1. Held(c)' = ToSet(cmd.keys)
        BY <3>2, <1>10 DEF Held
      <4>2. ToSet(Tail(left)) = {}
        BY <3>2, <1>9 DEF ToSet
      <4> QED BY <4>1, <4>2, <2>1, <1>5
    <3> QED BY <3>1, <3>2
  <2>3. {Head(left)} \cap locked = {} /\ locked \cup {Head(left)} \subseteq locked'
    BY <1>7
  <2> QED BY <2>2, <2>3, <1>1, <1>10, LocksKept
<1>13. CommandInv'
  <2>1. client'[c].pc \in {"lock", "binlog"} => client'[c].left # <<>>
    BY <1>9, <1>10
  <2>2. client'[c].pc # "binlog"
    BY <1>10
  <2>3. /\ client'[c].pc \notin {"do", "binlog", "release"}
        /\ client'[c].pc = "rm" => IsSuspend(client'[c].cmd)
    BY <1>9, <1>10
  <2> QED BY <2>1, <2>2, <2>3, <1>1, <1>7, <1>10, CommandKept
<1>14. UnloggedInv' /\ LogMatchesDatabase'
  BY <1>1, <1>2, <1>7, <1>10, QuietStep
<1> QED BY <1>11, <1>12, <1>13, <1>14 DEF WriteInv

(* Cmd::DoCommand behind DBLockShared. *)
LEMMA DBLockSharedStep ==
  ASSUME WriteInv, NEW c \in Clients, DBLockShared(c)
  PROVE  WriteInv'
<1>1. WriteTypeOK /\ LocksHeld /\ CommandInv /\ UnloggedInv /\ LogMatchesDatabase
  BY DEF WriteInv
<1>2. /\ client[c].pc = "share" /\ shared' = shared \cup {c} /\ Goto(c, "do", <<>>)
      /\ UNCHANGED <<mlog, mdb, locked, issued, ioError, errors, diverged>>
  BY DEF DBLockShared
<1>3. /\ client' \in [Clients -> ClientState]
      /\ client'[c].pc = "do" /\ client'[c].cmd = client[c].cmd
      /\ \A d \in Clients \ {c} : client'[d] = client[d]
  BY <1>1, <1>2, GotoFacts, EmptySeq DEF PCs
<1>4. WriteTypeOK'
  BY <1>1, <1>2, <1>3 DEF WriteTypeOK, Database
<1>5. LocksHeld'
  <2>1. Held(c)' = Held(c)
    BY <1>2, <1>3 DEF Held
  <2>2. {} \cap locked = {} /\ Held(c)' \subseteq Held(c) \cup {} /\ locked \cup {} \subseteq locked'
    BY <2>1, <1>2
  <2> QED BY <2>2, <1>1, <1>3, LocksKept
<1>6. CommandInv'
  BY <1>1, <1>2, <1>3, CommandKept
<1>7. UnloggedInv' /\ LogMatchesDatabase'
  BY <1>1, <1>2, <1>3, QuietStep
<1> QED BY <1>4, <1>5, <1>6, <1>7 DEF WriteInv

(* FlushdbCmd::Do before the database is locked. *)
LEMMA RmLockStep ==
  ASSUME WriteInv, NEW c \in Clients, RmLock(c)
  PROVE  WriteInv'
<1>1. WriteTypeOK /\ LocksHeld /\ CommandInv /\ UnloggedInv /\ LogMatchesDatabase
  BY DEF WriteInv
<1>2. /\ client[c].pc = "rm"
      /\ Goto(c, "do", <<>>) \/ Goto(c, "release", <<>>)
      /\ UNCHANGED <<mlog, mdb, locked, shared, issued, ioError, errors, diverged>>
  BY DEF RmLock, SkipBinlog
<1>3. /\ client' \in [Clients -> ClientState]
      /\ client'[c].pc \in {"do", "release"} /\ client'[c].cmd = client[c].cmd
      /\ \A d \in Clients \ {c} : client'[d] = client[d]
  <2>1. \E pc \in {"do", "release"} : Goto(c, pc, <<>>)
    BY <1>2
  <2> QED BY <1>1, <2>1, GotoFacts, EmptySeq DEF PCs
<1>4. WriteTypeOK'
  BY <1>1, <1>2, <1>3 DEF WriteTypeOK, Database
<1>5. LocksHeld'
  <2>1. Held(c)' = Held(c)
    BY <1>2, <1>3 DEF Held
  <2>2. {} \cap locked = {} /\ Held(c)' \subseteq Held(c) \cup {} /\ locked \cup {} \subseteq locked'
    BY <2>1, <1>2
  <2> QED BY <2>2, <1>1, <1>3, LocksKept
<1>6. CommandInv'
  <2>1. IsSuspend(client'[c].cmd)
    BY <1>1, <1>2, <1>3 DEF CommandInv
  <2> QED BY <1>1, <1>2, <1>3, <2>1, CommandKept
<1>7. UnloggedInv' /\ LogMatchesDatabase'
  BY <1>1, <1>2, <1>3, QuietStep
<1> QED BY <1>4, <1>5, <1>6, <1>7 DEF WriteInv

(* DBUnlockShared and MultiRecordLock::Unlock: no key of another command is unlocked. *)
LEMMA ReleaseStep ==
  ASSUME WriteInv, NEW c \in Clients, Release(c)
  PROVE  WriteInv'
<1>1. WriteTypeOK /\ LocksHeld /\ CommandInv /\ UnloggedInv /\ LogMatchesDatabase
  BY DEF WriteInv
<1>2. /\ client[c].pc = "release" /\ shared' = shared \ {c}
      /\ locked' = locked \ ToSet(client[c].cmd.keys)
      /\ client' = [client EXCEPT ![c] = IdleClient]
      /\ UNCHANGED <<mlog, mdb, issued, ioError, errors, diverged>>
  BY DEF Release
<1>3. IdleClient \in ClientState /\ IdleClient.pc = "idle"
  <2>1. FlushDb \in Command
    BY DEF FlushDb, Command
  <2> QED BY <2>1, EmptySeq DEF IdleClient, ClientState
<1>4. /\ client' \in [Clients -> ClientState] /\ client'[c].pc = "idle"
      /\ \A d \in Clients \ {c} : client'[d] = client[d]
  BY <1>1, <1>2, <1>3 DEF WriteTypeOK
<1>5. WriteTypeOK'
  BY <1>1, <1>2, <1>4 DEF WriteTypeOK, Database
<1>6. LocksHeld'
  <2>1. Held(c)' = {} /\ Held(c) = ToSet(client[c].cmd.keys)
    BY <1>2, <1>4 DEF Held
  <2>2. \A d \in Clients \ {c} : Held(d)' = Held(d)
    BY <1>4 DEF Held
  <2>3. ASSUME NEW d \in Clients PROVE Held(d)' \subseteq locked'
    <3>1. CASE d = c
      BY <3>1, <2>1
    <3>2. CASE d # c
      <4>1. Held(d) \subseteq locked /\ Held(c) \cap Held(d) = {}
        BY <3>2, <1>1 DEF LocksHeld
      <4> QED BY <4>1, <3>2, <2>1, <2>2, <1>2
    <3> QED BY <3>1, <3>2
  <2>4. ASSUME NEW a \in Clients, NEW b \in Clients \ {a} PROVE Held(a)' \cap Held(b)' = {}
    <3>1. CASE a = c \/ b = c
      BY <3>1, <2>1
    <3>2. CASE a # c /\ b # c
      BY <3>2, <2>2, <1>1 DEF LocksHeld
    <3> QED BY <3>1, <3>2
  <2> QED BY <2>3, <2>4 DEF LocksHeld
<1>7. CommandInv'
  BY <1>1, <1>2, <1>4, CommandKept
<1>8. UnloggedInv' /\ LogMatchesDatabase'
  BY <1>1, <1>2, <1>4, QuietStep
<1> QED BY <1>5, <1>6, <1>7, <1>8 DEF WriteInv

(* What all outcomes of DoCommand that go on to the binlog share. *)
LEMMA ToBinlog ==
  ASSUME WriteInv, NEW c \in Clients, client[c].pc = "do",
         Goto(c, "binlog", client[c].cmd.keys), mdb' \in Database, errors' \in Nat,
         diverged' \subseteq {"overtaken", "unlogged", "failed"},
         UNCHANGED <<mlog, locked, shared, issued, ioError>>
  PROVE  /\ WriteTypeOK' /\ LocksHeld' /\ CommandInv'
         /\ client[c].cmd \in Command
         /\ client'[c].pc = "binlog" /\ client'[c].cmd = client[c].cmd
         /\ client'[c].left = client[c].cmd.keys
         /\ \A d \in Clients \ {c} : client'[d] = client[d]
<1>1. WriteTypeOK /\ LocksHeld /\ CommandInv
  BY DEF WriteInv
<1> DEFINE cmd == client[c].cmd
<1>2. cmd \in Command
  BY <1>1 DEF WriteTypeOK, ClientState
<1>3. cmd.keys \in Seq(Keys \cup {NoKey}) /\ cmd.keys # <<>>
  BY <1>2, CommandFacts
<1>4. /\ client' \in [Clients -> ClientState]
      /\ client'[c].pc = "binlog" /\ client'[c].cmd = cmd /\ client'[c].left = cmd.keys
      /\ \A d \in Clients \ {c} : client'[d] = client[d]
  BY <1>1, <1>3, GotoFacts DEF PCs
<1>5. WriteTypeOK'
  BY <1>1, <1>4 DEF WriteTypeOK
<1>6. LocksHeld'
  <2>1. Held(c)' = Held(c)
    BY <1>4 DEF Held
  <2>2. {} \cap locked = {} /\ Held(c)' \subseteq Held(c) \cup {} /\ locked \cup {} \subseteq locked'
    BY <2>1
  <2> QED BY <2>2, <1>1, <1>4, LocksKept
<1>7. CommandInv'
  <2>1. ~IsSuspend(cmd) => c \in shared
    BY <1>1 DEF CommandInv
  <2> QED BY <2>1, <1>1, <1>3, <1>4, CommandKept
<1> QED BY <1>2, <1>4, <1>5, <1>6, <1>7

(* Assigning a command's value gives a database. *)
LEMMA AssignType ==
  ASSUME NEW db \in Database, NEW keys, NEW v \in Values \cup {NoValue}
  PROVE  Assign(db, keys, v) \in Database
BY DEF Assign, Database

(* Keys still to be logged belong to one command alone. *)
LEMMA LoggingHeld ==
  ASSUME WriteInv, NEW c \in Clients, NEW k \in Keys, Logging(c, k),
         NEW d \in Clients \ {c}, client[d].pc \notin {"idle", "lock"}
  PROVE  k \notin ToSet(client[d].cmd.keys)
<1>1. k \in Held(c)
  BY DEF WriteInv, CommandInv, Logging, Held
<1>2. Held(d) = ToSet(client[d].cmd.keys)
  BY DEF Held
<1>3. Held(c) \cap Held(d) = {}
  BY DEF WriteInv, LocksHeld
<1> QED BY <1>1, <1>2, <1>3

(* Cmd::DoCommand: the keys it changes are locked, and a FLUSHDB has the      *)
(* database to itself.                                                        *)
LEMMA DoStep ==
  ASSUME WriteInv, NEW c \in Clients, Do(c)
  PROVE  WriteInv'
<1> DEFINE cmd == client[c].cmd
<1>1. /\ client[c].pc = "do" /\ CanDo(cmd) /\ mdb' = Assign(mdb, Affected(cmd), cmd.val)
      /\ Goto(c, "binlog", cmd.keys)
      /\ UNCHANGED <<mlog, locked, shared, issued, ioError, errors, diverged>>
  BY DEF Do
<1>2. WriteTypeOK /\ CommandInv /\ UnloggedInv /\ LogMatchesDatabase
  BY DEF WriteInv
<1>3. cmd \in Command
  BY <1>2 DEF WriteTypeOK, ClientState
<1>4. mdb' \in Database /\ errors' \in Nat /\ diverged' \subseteq {"overtaken", "unlogged", "failed"}
  BY <1>1, <1>2, <1>3, CommandFacts, AssignType DEF WriteTypeOK
<1>5. /\ WriteTypeOK' /\ LocksHeld' /\ CommandInv'
      /\ client'[c].pc = "binlog" /\ client'[c].cmd = cmd /\ client'[c].left = cmd.keys
      /\ \A d \in Clients \ {c} : client'[d] = client[d]
  BY <1>1, <1>4, ToBinlog
<1> HIDE DEF cmd
<1>6. \A d \in Clients \ {c} : \A k \in Keys : Logging(d, k)' <=> Logging(d, k)
  BY <1>5 DEF Logging
<1>7. \A k \in Keys : ~Logging(c, k)
  BY <1>1 DEF Logging
<1>8. \A k \in Keys : mdb'[k] = IF k \in Affected(cmd) THEN cmd.val ELSE mdb[k]
  BY <1>1 DEF Assign
<1>9. CASE cmd.type = "flushdb"
  <2>1. \A k \in Keys : mdb'[k] = NoValue
    BY <1>3, <1>8, <1>9, CommandFacts DEF Affected
  <2>2. shared = {}
    BY <1>1, <1>9 DEF CanDo
  <2>3. \A d \in Clients : \A k \in Keys : ~Logging(d, k)
    BY <2>2, <1>2 DEF CommandInv, Logging, IsSuspend
  <2>4. \A d \in Clients : \A k \in Keys : ~Logging(d, k)'
    <3> SUFFICES ASSUME NEW d \in Clients, NEW k \in Keys PROVE ~Logging(d, k)'
      OBVIOUS
    <3>1. CASE d = c
      BY <3>1, <1>5, <1>9 DEF Logging
    <3>2. CASE d # c
      BY <3>2, <2>3, <1>6
    <3> QED BY <3>1, <3>2
  <2>5. UnloggedInv'
    BY <2>1, <2>4 DEF UnloggedInv
  <2>6. \A k \in Keys : Unlogged(k)'
    BY <1>5, <1>9 DEF Unlogged
  <2>7. LogMatchesDatabase'
    BY <2>6 DEF LogMatchesDatabase
  <2> QED BY <2>5, <2>7, <1>5 DEF WriteInv
<1>10. CASE cmd.type # "flushdb"
  <2>1. Affected(cmd) = ToSet(cmd.keys)
    BY <1>10 DEF Affected
  <2>2. UnloggedInv'
    <3> SUFFICES ASSUME diverged = {}
                 PROVE  /\ \A d \in Clients : \A k \in Keys : Logging(d, k)' => mdb'[k] = client'[d].cmd.val
                        /\ \A d \in Clients :
                             client'[d].pc = "binlog" /\ client'[d].cmd.type = "flushdb" =>
                               \A k \in Keys : mdb'[k] = NoValue \/ \E e \in Clients : Logging(e, k)'
      BY <1>1 DEF UnloggedInv
    <3>1. ASSUME NEW d \in Clients, NEW k \in Keys, Logging(d, k)' PROVE mdb'[k] = client'[d].cmd.val
      <4>1. CASE d = c
        <5>1. k \in ToSet(cmd.keys)
          BY <3>1, <4>1, <1>5 DEF Logging
        <5> QED BY <5>1, <4>1, <2>1, <1>5, <1>8
      <4>2. CASE d # c
        <5>1. Logging(d, k) /\ client'[d] = client[d]
          BY <3>1, <4>2, <1>5, <1>6
        <5>2. k \notin ToSet(cmd.keys)
          BY <5>1, <4>2, <1>1, LoggingHeld DEF cmd
        <5>3. mdb[k] = client[d].cmd.val
          BY <5>1, <1>2 DEF UnloggedInv
        <5> QED BY <5>1, <5>2, <5>3, <2>1, <1>8
      <4> QED BY <4>1, <4>2
    <3>2. ASSUME NEW d \in Clients, client'[d].pc = "binlog", client'[d].cmd.type = "flushdb", NEW k \in Keys
          PROVE  mdb'[k] = NoValue \/ \E e \in Clients : Logging(e, k)'
      <4>1. d # c
        BY <3>2, <1>5, <1>10
      <4>2. CASE k \in ToSet(cmd.keys)
        <5>1. Logging(c, k)'
          BY <4>2, <1>5, <1>10 DEF Logging
        <5> QED BY <5>1
      <4>3. CASE k \notin ToSet(cmd.keys)
        <5>1. mdb[k] = NoValue \/ \E e \in Clients : Logging(e, k)
          BY <3>2, <4>1, <1>2, <1>5 DEF UnloggedInv
        <5>2. mdb'[k] = mdb[k]
          BY <4>3, <2>1, <1>8
        <5> QED BY <5>1, <5>2, <1>6, <1>7
      <4> QED BY <4>2, <4>3
    <3> QED BY <3>1, <3>2
  <2>3. ASSUME NEW k \in Keys, ~Unlogged(k)' PROVE ~Unlogged(k) /\ mdb'[k] = mdb[k]
    <3>1. k \notin ToSet(cmd.keys)
      BY <2>3, <1>5 DEF Unlogged
    <3>2. ~Unlogged(k)
      BY <2>3, <1>1, <1>5 DEF Unlogged
    <3> QED BY <3>1, <3>2, <2>1, <1>8
  <2>4. LogMatchesDatabase'
    BY <2>3, <1>1, <1>2 DEF LogMatchesDatabase
  <2> QED BY <2>2, <2>4, <1>5 DEF WriteInv
<1> QED BY <1>9, <1>10

(* Cmd::DoCommand when the storage fails: a failed command changes nothing,   *)
(* or the binlog is known to differ from the database.                        *)
LEMMA DoFailsStep ==
  ASSUME WriteInv, NEW c \in Clients, DoFails(c)
  PROVE  WriteInv'
<1> DEFINE cmd == client[c].cmd
<1>1. /\ client[c].pc = "do" /\ errors' = errors + 1
      /\ UNCHANGED <<mlog, locked, shared, issued, ioError>>
  BY DEF DoFails
<1>2. WriteTypeOK /\ LocksHeld /\ CommandInv /\ UnloggedInv /\ LogMatchesDatabase
  BY DEF WriteInv
<1>3. cmd \in Command
  BY <1>2 DEF WriteTypeOK, ClientState
<1>4. errors' \in Nat
  BY <1>1, <1>2 DEF WriteTypeOK
<1>5. CASE SkipBinlog(c) /\ UNCHANGED <<mdb, diverged>>
  <2>1. /\ client' \in [Clients -> ClientState]
        /\ client'[c].pc = "release" /\ client'[c].cmd = cmd
        /\ \A d \in Clients \ {c} : client'[d] = client[d]
    BY <1>2, <1>5, GotoFacts, EmptySeq DEF PCs, SkipBinlog
  <2>2. WriteTypeOK'
    BY <1>1, <1>2, <1>4, <1>5, <2>1 DEF WriteTypeOK
  <2>3. LocksHeld'
    <3>1. Held(c)' = Held(c)
      BY <1>1, <2>1 DEF Held
    <3>2. {} \cap locked = {} /\ Held(c)' \subseteq Held(c) \cup {} /\ locked \cup {} \subseteq locked'
      BY <3>1, <1>1
    <3> QED BY <3>2, <1>2, <2>1, LocksKept
  <2>4. CommandInv'
    <3>1. ~IsSuspend(cmd) => c \in shared
      BY <1>1, <1>2 DEF CommandInv
    <3> QED BY <3>1, <1>1, <1>2, <2>1, CommandKept
  <2>5. UnloggedInv' /\ LogMatchesDatabase'
    BY <1>1, <1>2, <1>5, <2>1, QuietStep
  <2> QED BY <2>2, <2>3, <2>4, <2>5 DEF WriteInv
<1>6. ASSUME Goto(c, "binlog", cmd.keys), diverged' = diverged \cup {"failed"},
             NEW keys, mdb' = Assign(mdb, keys, cmd.val)
      PROVE  WriteInv'
  <2>1. mdb' \in Database
    BY <1>2, <1>3, <1>6, CommandFacts, AssignType DEF WriteTypeOK
  <2>2. diverged' \subseteq {"overtaken", "unlogged", "failed"} /\ diverged' # {}
    BY <1>2, <1>6 DEF WriteTypeOK
  <2>3. WriteTypeOK' /\ LocksHeld' /\ CommandInv'
    BY <2>1, <2>2, <1>1, <1>4, <1>6, ToBinlog
  <2>4. UnloggedInv' /\ LogMatchesDatabase'
    BY <2>2 DEF UnloggedInv, LogMatchesDatabase
  <2> QED BY <2>3, <2>4 DEF WriteInv
<1> QED BY <1>5, <1>6 DEF DoFails

(* The record a command writes for a key. *)
LEMMA LoggedFacts ==
  ASSUME NEW cmd \in Command, NEW k, cmd.type # "flushdb" => k \in Keys
  PROVE  /\ Logged(cmd, k) \in Record
         /\ cmd.type = "flushdb" => Logged(cmd, k).val = NoValue /\ \A j : Touches(Logged(cmd, k), j)
         /\ cmd.type # "flushdb" => Logged(cmd, k).val = cmd.val /\ \A j : Touches(Logged(cmd, k), j) <=> j = k
<1>1. cmd.val \in Values \cup {NoValue}
  BY CommandFacts
<1>2. CASE cmd.type = "flushdb"
  <2>1. Logged(cmd, k) = FlushRecord
    BY <1>2 DEF Logged
  <2>2. FlushRecord \in Record /\ FlushRecord.val = NoValue /\ FlushRecord.type = "flushdb"
    BY DEF FlushRecord, Record
  <2> QED BY <1>2, <2>1, <2>2 DEF Touches
<1>3. CASE cmd.type # "flushdb"
  <2> DEFINE r == SetRecord(k, cmd.val)
  <2>1. Logged(cmd, k) = r
    BY <1>3 DEF Logged
  <2>2. r \in Record /\ r.val = cmd.val /\ r.type = "set" /\ r.key = k
    BY <1>1, <1>3 DEF SetRecord, Record
  <2> HIDE DEF r
  <2>3. \A j : Touches(r, j) <=> j = k
    BY <2>2 DEF Touches
  <2> QED BY <1>3, <2>1, <2>2, <2>3
<1> QED BY <1>2, <1>3

(* DoBinlog: the record written is what the database holds. *)
LEMMA DoBinlogStep ==
  ASSUME WriteInv, NEW c \in Clients, DoBinlog(c)
  PROVE  WriteInv'
<1> DEFINE cmd == client[c].cmd
           left == client[c].left
           r == Logged(cmd, Head(left))
<1>1. client[c].pc = "binlog" /\ UNCHANGED <<mdb, locked, shared, issued>>
  BY DEF DoBinlog
<1>2. WriteTypeOK /\ LocksHeld /\ CommandInv /\ UnloggedInv /\ LogMatchesDatabase
  BY DEF WriteInv
<1>3. cmd \in Command /\ left \in Seq(Keys \cup {NoKey})
  BY <1>2 DEF WriteTypeOK, ClientState
<1>4. left # <<>> /\ ToSet(left) \subseteq ToSet(cmd.keys)
  BY <1>1, <1>2 DEF CommandInv
<1>5. /\ Head(left) \in ToSet(left) /\ ToSet(left) = {Head(left)} \cup ToSet(Tail(left))
      /\ Tail(left) \in Seq(Keys \cup {NoKey})
  BY <1>3, <1>4, ToSetHeadTail, HeadTailProperties
<1>6. cmd.type # "flushdb" => Head(left) \in Keys
  BY <1>3, <1>4, <1>5, CommandFacts
<1>7. r \in Record
  BY <1>3, <1>6, LoggedFacts
<1>8. ASSUME NEW rest \in Seq(Keys \cup {NoKey}), ToSet(rest) \subseteq ToSet(left),
             Goto(c, IF rest = <<>> THEN "release" ELSE "binlog", rest),
             mlog' \in Seq(Record), errors' \in Nat, ioError' \in BOOLEAN,
             diverged' \subseteq {"overtaken", "unlogged", "failed"}
      PROVE  /\ WriteTypeOK' /\ LocksHeld' /\ CommandInv'
             /\ client'[c].pc = (IF rest = <<>> THEN "release" ELSE "binlog")
             /\ client'[c].cmd = cmd /\ client'[c].left = rest
             /\ \A d \in Clients \ {c} : client'[d] = client[d]
  <2>1. (IF rest = <<>> THEN "release" ELSE "binlog") \in PCs
    BY DEF PCs
  <2>2. /\ client' \in [Clients -> ClientState]
        /\ client'[c].pc = (IF rest = <<>> THEN "release" ELSE "binlog")
        /\ client'[c].cmd = cmd /\ client'[c].left = rest
        /\ \A d \in Clients \ {c} : client'[d] = client[d]
    BY <2>1, <1>2, <1>8, GotoFacts
  <2> HIDE DEF cmd, left
  <2>3. WriteTypeOK'
    BY <2>2, <1>1, <1>2, <1>8 DEF WriteTypeOK
  <2>4. LocksHeld'
    <3>1. Held(c)' = Held(c)
      BY <1>1, <2>2 DEF Held, cmd
    <3>2. {} \cap locked = {} /\ Held(c)' \subseteq Held(c) \cup {} /\ locked \cup {} \subseteq locked'
      BY <3>1, <1>1
    <3> QED BY <3>2, <1>2, <2>2, LocksKept
  <2>5. CommandInv'
    <3>1. ~IsSuspend(cmd) => c \in shared
      BY <1>1, <1>2 DEF CommandInv, cmd
    <3>2. client'[c].pc \in {"lock", "binlog"} => client'[c].left # <<>>
      BY <2>2
    <3>3. ToSet(client'[c].left) \subseteq ToSet(client'[c].cmd.keys)
      BY <2>2, <1>4, <1>8
    <3> QED BY <3>1, <3>2, <3>3, <1>1, <1>2, <2>2, CommandKept
  <2> QED BY <2>2, <2>3, <2>4, <2>5
<1>9. ASSUME NEW rest \in Seq(Keys \cup {NoKey}), ToSet(rest) \subseteq ToSet(left),
             Goto(c, IF rest = <<>> THEN "release" ELSE "binlog", rest),
             errors' = errors + 1, ioError' = TRUE, UNCHANGED mlog,
             diverged' = diverged \cup {"unlogged"}
      PROVE  WriteInv'
  <2>1. /\ mlog' \in Seq(Record) /\ errors' \in Nat /\ ioError' \in BOOLEAN
        /\ diverged' \subseteq {"overtaken", "unlogged", "failed"} /\ diverged' # {}
    BY <1>2, <1>9 DEF WriteTypeOK
  <2>2. WriteTypeOK' /\ LocksHeld' /\ CommandInv'
    <3> HIDE DEF left, cmd
    <3> QED BY <2>1, <1>8, <1>9
  <2>3. UnloggedInv' /\ LogMatchesDatabase'
    BY <2>1 DEF UnloggedInv, LogMatchesDatabase
  <2> QED BY <2>2, <2>3 DEF WriteInv
<1>10. ASSUME mlog' = Append(mlog, r), Goto(c, IF Tail(left) = <<>> THEN "release" ELSE "binlog", Tail(left)),
              diverged' = diverged \cup (IF FlushUnlogged(c) THEN {"overtaken"} ELSE {}),
              UNCHANGED <<ioError, errors>>
       PROVE  WriteInv'
  <2> HIDE DEF left, cmd, r
  <2>1. /\ mlog \in Seq(Record) /\ mlog' \in Seq(Record) /\ errors' \in Nat /\ ioError' \in BOOLEAN
        /\ diverged' \subseteq {"overtaken", "unlogged", "failed"}
    BY <1>2, <1>7, <1>10, AppendProperties DEF WriteTypeOK
  <2>2. ToSet(Tail(left)) \subseteq ToSet(left)
    BY <1>5
  <2>3. /\ WriteTypeOK' /\ LocksHeld' /\ CommandInv'
        /\ client'[c].pc = (IF Tail(left) = <<>> THEN "release" ELSE "binlog")
        /\ client'[c].cmd = cmd /\ client'[c].left = Tail(left)
        /\ \A d \in Clients \ {c} : client'[d] = client[d]
    BY <2>1, <2>2, <1>5, <1>8, <1>10
  <2>4. CASE diverged' # {}
    <3>1. UnloggedInv' /\ LogMatchesDatabase'
      BY <2>4 DEF UnloggedInv, LogMatchesDatabase
    <3> QED BY <3>1, <2>3 DEF WriteInv
  <2>5. CASE diverged' = {}
    <3>1. diverged = {} /\ ~FlushUnlogged(c)
      BY <2>5, <1>10
    <3>2. \A d \in Clients \ {c} : ~(client[d].pc = "binlog" /\ client[d].cmd.type = "flushdb")
      BY <3>1 DEF FlushUnlogged
    <3>3. \A d \in Clients : \A k \in Keys : Logging(d, k)' => Logging(d, k) /\ client'[d].cmd = client[d].cmd
      <4> SUFFICES ASSUME NEW d \in Clients, NEW k \in Keys, Logging(d, k)'
                   PROVE  Logging(d, k) /\ client'[d].cmd = client[d].cmd
        OBVIOUS
      <4>1. CASE d = c
        <5>1. cmd.type # "flushdb" /\ k \in ToSet(Tail(left))
          BY <4>1, <2>3 DEF Logging
        <5>2. k \in ToSet(client[c].left)
          BY <5>1, <2>2 DEF left
        <5>3. client[c].cmd = cmd
          BY DEF cmd
        <5> QED BY <4>1, <5>1, <5>2, <5>3, <1>1, <2>3 DEF Logging
      <4>2. CASE d # c
        BY <4>2, <2>3 DEF Logging
      <4> QED BY <4>1, <4>2
    <3>4. \A d \in Clients \ {c} : \A k \in Keys : Logging(d, k) => Logging(d, k)'
      BY <2>3 DEF Logging
    <3>5. \A k \in Keys : (\E d \in Clients \ {c} : Logging(d, k)) => Unlogged(k)'
      BY <3>4 DEF Logging, Unlogged
    <3>6. \A d \in Clients : \A k \in Keys : Logging(d, k)' => mdb'[k] = client'[d].cmd.val
      BY <3>1, <3>3, <1>1, <1>2 DEF UnloggedInv
    <3>7. CASE cmd.type = "flushdb"
      <4>1. \A k \in Keys : ~Logging(c, k)
        BY <3>7 DEF Logging, cmd
      <4>2. \A k \in Keys : mdb[k] = NoValue \/ \E d \in Clients \ {c} : Logging(d, k)
        <5>1. \A k \in Keys : mdb[k] = NoValue \/ \E d \in Clients : Logging(d, k)
          BY <3>1, <3>7, <1>1, <1>2 DEF UnloggedInv, cmd
        <5> QED BY <5>1, <4>1
      <4>3. UnloggedInv'
        <5>1. \A k \in Keys : mdb'[k] = NoValue \/ \E d \in Clients : Logging(d, k)'
          BY <4>2, <3>4, <1>1
        <5> QED BY <5>1, <3>6 DEF UnloggedInv
      <4>4. ASSUME NEW k \in Keys, ~Unlogged(k)' PROVE IsValue(mlog', k, mdb'[k])
        <5>1. mdb[k] = NoValue
          BY <4>2, <4>4, <3>5
        <5>2. Touches(r, k) /\ r.val = NoValue
          BY <3>7, <1>3, LoggedFacts DEF r
        <5> QED BY <5>1, <5>2, <2>1, <1>1, <1>7, <1>10, AppendTouching
      <4>5. LogMatchesDatabase'
        BY <4>4 DEF LogMatchesDatabase
      <4> QED BY <4>3, <4>5, <2>3 DEF WriteInv
    <3>8. CASE cmd.type # "flushdb"
      <4>1. UnloggedInv'
        <5>1. \A d \in Clients : ~(client'[d].pc = "binlog" /\ client'[d].cmd.type = "flushdb")
          BY <3>2, <3>8, <2>3
        <5> QED BY <5>1, <3>6 DEF UnloggedInv
      <4>2. r.val = cmd.val /\ \A j : Touches(r, j) <=> j = Head(left)
        BY <3>8, <1>3, <1>6, LoggedFacts DEF r
      <4>3. ASSUME NEW k \in Keys, ~Unlogged(k)' PROVE IsValue(mlog', k, mdb'[k])
        <5>1. CASE k = Head(left)
          <6>1. Logging(c, k)
            BY <5>1, <3>8, <1>1, <1>5 DEF Logging, cmd, left
          <6>2. mdb'[k] = r.val /\ Touches(r, k)
            BY <6>1, <5>1, <4>2, <3>1, <1>1, <1>2 DEF UnloggedInv, cmd
          <6> QED BY <6>2, <2>1, <1>7, <1>10, AppendTouching
        <5>2. CASE k # Head(left)
          <6>1. k \notin ToSet(Tail(left))
            <7> SUFFICES ASSUME k \in ToSet(Tail(left)) PROVE FALSE
              OBVIOUS
            <7>1. Tail(left) # <<>>
              BY DEF ToSet
            <7>2. client'[c].pc = "binlog" /\ client'[c].left = Tail(left)
              BY <7>1, <2>3
            <7> QED BY <7>2, <4>3 DEF Unlogged
          <6>2. k \notin ToSet(left)
            BY <6>1, <5>2, <1>5
          <6>3. ~Unlogged(k)
            <7> SUFFICES ASSUME NEW d \in Clients, client[d].pc = "binlog",
                                client[d].cmd.type = "flushdb" \/ k \in ToSet(client[d].left)
                         PROVE  FALSE
              BY DEF Unlogged
            <7>1. CASE d = c
              BY <7>1, <6>2, <3>8 DEF cmd, left
            <7>2. CASE d # c
              BY <7>2, <2>3, <4>3 DEF Unlogged
            <7> QED BY <7>1, <7>2
          <6>4. IsValue(mlog, k, mdb[k]) /\ ~Touches(r, k)
            BY <6>3, <5>2, <4>2, <3>1, <1>2 DEF LogMatchesDatabase
          <6> QED BY <6>4, <2>1, <1>1, <1>7, <1>10, AppendNotTouching
        <5> QED BY <5>1, <5>2
      <4>4. LogMatchesDatabase'
        BY <4>3 DEF LogMatchesDatabase
      <4> QED BY <4>1, <4>4, <2>3 DEF WriteInv
    <3> QED BY <3>7, <3>8
  <2> QED BY <2>4, <2>5
<1> QED
  <2>1. ToSet(Tail(left)) \subseteq ToSet(left) /\ ToSet(<<>>) \subseteq ToSet(left)
    BY <1>5 DEF ToSet
  <2>2. <<>> \in Seq(Keys \cup {NoKey})
    BY EmptySeq
  <2>3. CASE cmd.type = "del"
    BY <2>1, <2>2, <2>3, <1>9, <1>10 DEF DoBinlog
  <2>4. CASE cmd.type # "del"
    BY <2>1, <2>4, <1>5, <1>9, <1>10 DEF DoBinlog
  <2> QED BY <2>3, <2>4

(* Every step of a client keeps the invariant of the write path. *)
LEMMA WriteStep ==
  ASSUME WriteInv, NEW c \in Clients, ClientThread(c)
  PROVE  WriteInv'
BY DoCmdStep, TryLockStep, DBLockSharedStep, RmLockStep, DoStep, DoFailsStep, DoBinlogStep, ReleaseStep
   DEF ClientThread

-----------------------------------------------------------------------------
(* The slave *)

(* The handed-out records, by place: 0 is the one being executed. *)
Tasks ==
  {t \in Workers \X Nat : IF t[2] = 0 THEN running[t[1]] # <<>> ELSE t[2] <= Len(queue[t[1]])}

HandedTouches(k) == handed # <<>> /\ Touches(handed, k)
InQueue(w, k) == \E i \in DOMAIN queue[w] : queue[w][i].key = k

(* Workers execute records of their own keys only. *)
WorkersInv ==
  \A w \in Workers :
    /\ \A i \in DOMAIN queue[w] : queue[w][i].type = "set" /\ WorkerOf[queue[w][i].key] = w
    /\ running[w] # <<>> => running[w].rec.type = "set" /\ WorkerOf[running[w].rec.key] = w

(* async_write_db_task_counts_ counts every record from before it is queued   *)
(* until it is executed; a FLUSHDB is handed out alone.                       *)
CountInv ==
  /\ IsFiniteSet(Tasks)
  /\ taskCount = Cardinality(Tasks) + (IF handed # <<>> /\ handed.type = "set" THEN 1 ELSE 0)
  /\ handed # <<>> /\ handed.type = "flushdb" => Tasks = {}

(* The last record handed out on a key is the last one of the slave's binlog. *)
OrderInv ==
  /\ \A k \in Keys : HandedTouches(k) => IsValue(slog, k, handed.val)
  /\ \A w \in Workers : \A i \in DOMAIN queue[w] :
       LET k == queue[w][i].key IN
       ~HandedTouches(k) /\ (\A j \in (i + 1)..Len(queue[w]) : queue[w][j].key # k)
         => IsValue(slog, k, queue[w][i].val)
  /\ \A w \in Workers :
       running[w] # <<>> /\ ~running[w].done =>
         LET k == running[w].rec.key IN
         ~HandedTouches(k) /\ ~InQueue(w, k) => IsValue(slog, k, running[w].rec.val)

(* How far PikaReplClient::Stop has come. *)
StopInv ==
  /\ stopping # "no" => handed = <<>>
  /\ stopping \in {"join", "stopped"} => \A w \in Workers : queue[w] = <<>>
  /\ stopping = "stopped" => \A w \in Workers : running[w] = <<>>

ReplicaInv == ReplicaTypeOK /\ WorkersInv /\ CountInv /\ OrderInv /\ StopInv /\ AppliedInOrder

(* One record more of the master's binlog. *)
LEMMA PrefixGrows ==
  ASSUME NEW log \in Seq(Record), NEW n \in 0..(Len(log) - 1)
  PROVE  /\ SubSeq(log, 1, n) \in Seq(Record) /\ log[n + 1] \in Record
         /\ SubSeq(log, 1, n + 1) = Append(SubSeq(log, 1, n), log[n + 1])
<1>1. Len(log) \in Nat /\ \A i \in 1..Len(log) : log[i] \in Record
  BY LenProperties
<1>2. SubSeq(log, 1, n) \in Seq(Record) /\ log[n + 1] \in Record
  BY <1>1, SubSeqProperties
<1>3. 1 \in 1..Len(log) /\ n + 1 \in 1..Len(log) /\ (n + 1) - 1 = n
  BY <1>1
<1>4. SubSeq(log, 1, n + 1) = SubSeq(log, 1, n) \o <<log[n + 1]>>
  BY <1>3, SubSeqRecursiveSecond
<1>5. SubSeq(log, 1, n) \o <<log[n + 1]>> = Append(SubSeq(log, 1, n), log[n + 1])
  BY <1>2, AppendIsConcat
<1> QED BY <1>2, <1>4, <1>5

(* The master appends behind what the slave has. *)
LEMMA PrefixKept ==
  ASSUME NEW log \in Seq(Record), NEW n \in 0..Len(log), NEW r \in Record
  PROVE  SubSeq(Append(log, r), 1, n) = SubSeq(log, 1, n)
<1>1. CASE n = 0
  BY <1>1, SubSeqEmpty
<1>2. CASE n # 0
  <2>1. Len(log) \in Nat /\ 1 \in 1..Len(log) /\ n \in 1..Len(log)
    BY <1>2, LenProperties
  <2>2. <<r>> \in Seq(Record) /\ Append(log, r) = log \o <<r>>
    BY AppendIsConcat
  <2> QED BY <2>1, <2>2, SubSeqOfConcat1
<1> QED BY <1>1, <1>2

(* Key, value and effect of a record. *)
LEMMA RecordFacts ==
  ASSUME NEW r \in Record
  PROVE  /\ r.type \in {"set", "flushdb"} /\ r.val \in Values \cup {NoValue}
         /\ r.type = "set" => r.key \in Keys /\ \A k : Touches(r, k) <=> r.key = k
         /\ r.type = "flushdb" => r.val = NoValue /\ \A k : Touches(r, k)
         /\ r # <<>>
<1>1. CASE r \in [type: {"set"}, key: Keys, val: Values \cup {NoValue}]
  <2>1. r.type = "set" /\ r.key \in Keys /\ r.val \in Values \cup {NoValue}
    BY <1>1
  <2>2. r # <<>>
    BY <1>1
  <2> QED BY <2>1, <2>2 DEF Touches
<1>2. CASE r \in [type: {"flushdb"}, key: {NoKey}, val: {NoValue}]
  <2>1. r.type = "flushdb" /\ r.val = NoValue
    BY <1>2
  <2>2. r # <<>>
    BY <1>2
  <2> QED BY <2>1, <2>2 DEF Touches
<1> QED BY <1>1, <1>2 DEF Record

(* The slave starts in its invariant. *)
LEMMA ReplicaInitInv == Init => ReplicaInv
<1> SUFFICES ASSUME Init PROVE ReplicaInv
  OBVIOUS
<1>1. /\ mlog = <<>> /\ slen = 0 /\ handed = <<>> /\ taskCount = 0 /\ stopping = "no"
      /\ queue = [w \in Workers |-> <<>>] /\ running = [w \in Workers |-> <<>>]
      /\ sdb = EmptyDatabase /\ crashes = 0 /\ lost = {}
  BY DEF Init, WriteInit, ReplicaInit
<1>2. \A w \in Workers : queue[w] = <<>> /\ running[w] = <<>> /\ DOMAIN queue[w] = {} /\ Len(queue[w]) = 0
  BY <1>1
<1>3. ReplicaTypeOK
  <2>1. \A w \in Workers : Len(queue[w]) <= QueueFull
    BY <1>2, ReplicaAssumption
  <2>2. sdb \in Database
    BY <1>1 DEF EmptyDatabase, Database
  <2>3. queue \in [Workers -> Seq(Record)] /\ running \in [Workers -> Executing]
    BY <1>1, EmptySeq DEF Executing
  <2>4. slen \in 0..Len(mlog) /\ crashes \in 0..MaxCrashes
    BY <1>1, ReplicaAssumption
  <2> QED BY <1>1, <2>1, <2>2, <2>3, <2>4 DEF ReplicaTypeOK
<1>4. WorkersInv /\ StopInv
  BY <1>1, <1>2 DEF WorkersInv, StopInv
<1>5. CountInv
  <2>1. Tasks = {}
    BY <1>2 DEF Tasks
  <2> QED BY <1>1, <2>1, FS_EmptySet DEF CountInv
<1>6. OrderInv
  BY <1>1, <1>2 DEF OrderInv, HandedTouches
<1>7. AppliedInOrder
  <2>1. slog = <<>>
    BY <1>1, SubSeqEmpty DEF slog
  <2>2. \A k \in Keys : IsValue(<<>>, k, sdb[k])
    <3>1. DOMAIN <<>> = {} /\ \A k \in Keys : sdb[k] = NoValue
      BY <1>1 DEF EmptyDatabase
    <3> QED BY <3>1 DEF IsValue
  <2> QED BY <2>1, <2>2 DEF AppliedInOrder
<1> QED BY <1>3, <1>4, <1>5, <1>6, <1>7 DEF ReplicaInv

(* A step that hands out nothing and keeps the slave's binlog. *)
LEMMA ReplicaKept ==
  ASSUME ReplicaInv, UNCHANGED <<slen, handed, queue, running, taskCount, sdb, lost>>, slog' = slog
  PROVE  WorkersInv' /\ CountInv' /\ OrderInv' /\ AppliedInOrder'
<1>1. WorkersInv /\ CountInv /\ OrderInv /\ AppliedInOrder
  BY DEF ReplicaInv
<1>2. WorkersInv'
  BY <1>1 DEF WorkersInv
<1>3. Tasks' = Tasks
  BY DEF Tasks
<1>4. CountInv'
  BY <1>1, <1>3 DEF CountInv
<1>5. \A k : HandedTouches(k)' <=> HandedTouches(k)
  BY DEF HandedTouches
<1>6. OrderInv'
  BY <1>1, <1>5 DEF OrderInv, InQueue
<1>7. \A k : Pending(k)' <=> Pending(k)
  BY DEF Pending
<1>8. AppliedInOrder'
  BY <1>1, <1>7 DEF AppliedInOrder
<1> QED BY <1>2, <1>4, <1>6, <1>8

(* Steps of the master leave the slave's binlog as it is. *)
LEMMA ReplicaClientStep ==
  ASSUME WriteInv, ReplicaInv, NEW c \in Clients, ClientThread(c), UNCHANGED replicaVars
  PROVE  ReplicaInv'
<1>1. mlog \in Seq(Record) /\ mlog' \in Seq(Record)
  BY WriteStep DEF WriteInv, WriteTypeOK
<1>2. UNCHANGED <<slen, handed, queue, running, taskCount, sdb, stopping, crashes, lost>>
  BY DEF replicaVars, faultVars
<1>3. slog' = slog /\ slen' \in 0..Len(mlog')
  <2>1. slen \in 0..Len(mlog)
    BY DEF ReplicaInv, ReplicaTypeOK
  <2>2. mlog' = mlog \/ \E r : mlog' = Append(mlog, r)
    BY DEF ClientThread, DoCmd, TryLock, DBLockShared, RmLock, Do, DoFails, DoBinlog, Release
  <2>3. CASE mlog' = mlog
    BY <2>1, <2>3, <1>2 DEF slog
  <2>4. ASSUME NEW r, mlog' = Append(mlog, r) PROVE slog' = slog /\ slen' \in 0..Len(mlog')
    <3>1. Len(mlog) \in Nat /\ Len(mlog') = Len(mlog) + 1 /\ mlog'[Len(mlog) + 1] = r
      BY <1>1, <2>4
    <3>2. r \in Record
      BY <1>1, <3>1
    <3> QED BY <1>1, <1>2, <2>1, <2>4, <3>1, <3>2, PrefixKept DEF slog
  <2> QED BY <2>2, <2>3, <2>4
<1>4. WorkersInv' /\ CountInv' /\ OrderInv' /\ AppliedInOrder'
  BY <1>2, <1>3, ReplicaKept
<1>5. ReplicaTypeOK'
  BY <1>2, <1>3 DEF ReplicaInv, ReplicaTypeOK
<1>6. StopInv'
  BY <1>2 DEF ReplicaInv, StopInv
<1> QED BY <1>4, <1>5, <1>6 DEF ReplicaInv

(* No task means empty queues and idle workers. *)
LEMMA TasksFacts ==
  ASSUME ReplicaTypeOK
  PROVE  /\ \A w \in Workers : <<w, 0>> \in Tasks <=> running[w] # <<>>
         /\ \A w \in Workers : \A i \in Nat \ {0} : <<w, i>> \in Tasks <=> i <= Len(queue[w])
         /\ Tasks = {} <=> \A w \in Workers : queue[w] = <<>> /\ running[w] = <<>>
<1>1. \A w \in Workers : <<w, 0>> \in Tasks <=> running[w] # <<>>
  BY DEF Tasks
<1>2. \A w \in Workers : \A i \in Nat \ {0} : <<w, i>> \in Tasks <=> i <= Len(queue[w])
  BY DEF Tasks
<1>3. \A w \in Workers : queue[w] \in Seq(Record) /\ Len(queue[w]) \in Nat /\ (queue[w] # <<>> => Len(queue[w]) # 0)
  BY EmptySeq, LenProperties DEF ReplicaTypeOK
<1>4. ASSUME Tasks = {}, NEW w \in Workers PROVE queue[w] = <<>> /\ running[w] = <<>>
  <2>1. ~(1 <= Len(queue[w]))
    BY <1>2, <1>4
  <2> QED BY <2>1, <1>1, <1>3, <1>4
<1>5. ASSUME \A w \in Workers : queue[w] = <<>> /\ running[w] = <<>> PROVE Tasks = {}
  <2>1. \A w \in Workers : Len(queue[w]) = 0
    BY <1>5
  <2> QED BY <2>1, <1>5 DEF Tasks
<1> QED BY <1>1, <1>2, <1>4, <1>5

(* What the slave's binlog leaves at a key the new record does not touch. *)
LEMMA SlogGrows ==
  ASSUME WriteInv, ReplicaInv, slen < Len(mlog), slen' = slen + 1, UNCHANGED mlog
  PROVE  /\ mlog[slen + 1] \in Record /\ slen' \in 0..Len(mlog')
         /\ \A k : Touches(mlog[slen + 1], k) => IsValue(slog', k, mlog[slen + 1].val)
         /\ \A k, v : ~Touches(mlog[slen + 1], k) /\ IsValue(slog, k, v) => IsValue(slog', k, v)
<1> DEFINE r == mlog[slen + 1]
<1>1. mlog \in Seq(Record) /\ Len(mlog) \in Nat /\ slen \in 0..Len(mlog)
  BY LenProperties DEF WriteInv, WriteTypeOK, ReplicaInv, ReplicaTypeOK
<1>2. slen \in 0..(Len(mlog) - 1) /\ slen' \in 0..Len(mlog')
  BY <1>1
<1>3. slog \in Seq(Record) /\ r \in Record /\ slog' = Append(slog, r)
  BY <1>1, <1>2, PrefixGrows DEF slog
<1> HIDE DEF r
<1>4. ASSUME NEW k, Touches(r, k) PROVE IsValue(slog', k, r.val)
  BY <1>3, <1>4, AppendTouching
<1>5. ASSUME NEW k, NEW v, ~Touches(r, k), IsValue(slog, k, v) PROVE IsValue(slog', k, v)
  BY <1>3, <1>5, AppendNotTouching
<1> QED BY <1>2, <1>3, <1>4, <1>5 DEF r

(* ProcessLeaderLog: the record on its way is the last one on its key. *)
LEMMA ProcessLeaderLogStep ==
  ASSUME WriteInv, ReplicaInv, ProcessLeaderLog
  PROVE  ReplicaInv'
<1> DEFINE r == mlog[slen + 1]
<1>1. /\ stopping = "no" /\ handed = <<>> /\ slen < Len(mlog) /\ r.type = "set"
      /\ slen' = slen + 1 /\ handed' = r /\ taskCount' = taskCount + 1
      /\ UNCHANGED <<mlog, queue, running, sdb, stopping, crashes, lost>>
  BY DEF ProcessLeaderLog, NextRecord, faultVars
<1>2. /\ ReplicaTypeOK /\ WorkersInv /\ CountInv /\ OrderInv /\ StopInv /\ AppliedInOrder
  BY DEF ReplicaInv
<1>3. /\ r \in Record /\ slen' \in 0..Len(mlog')
      /\ \A k : Touches(r, k) => IsValue(slog', k, r.val)
      /\ \A k, v : ~Touches(r, k) /\ IsValue(slog, k, v) => IsValue(slog', k, v)
  BY <1>1, SlogGrows
<1>4. r # <<>>
  BY <1>3, RecordFacts
<1> HIDE DEF r
<1>5. ReplicaTypeOK'
  BY <1>1, <1>2, <1>3 DEF ReplicaTypeOK
<1>6. WorkersInv' /\ StopInv'
  BY <1>1, <1>2 DEF WorkersInv, StopInv
<1>7. CountInv'
  <2>1. Tasks' = Tasks
    BY <1>1 DEF Tasks
  <2>2. Cardinality(Tasks) \in Nat
    BY <1>2, FS_CardinalityType DEF CountInv
  <2>3. taskCount = Cardinality(Tasks) /\ IsFiniteSet(Tasks)
    BY <1>1, <1>2, <2>2 DEF CountInv
  <2>4. handed' # <<>> /\ handed'.type = "set"
    BY <1>1, <1>4
  <2> QED BY <2>1, <2>2, <2>3, <2>4, <1>1 DEF CountInv
<1>8. \A k : ~HandedTouches(k) /\ (HandedTouches(k)' <=> Touches(r, k))
  BY <1>1, <1>4 DEF HandedTouches
<1>9. OrderInv'
  <2>1. \A k \in Keys : HandedTouches(k)' => IsValue(slog', k, handed'.val)
    BY <1>1, <1>3, <1>8
  <2>2. ASSUME NEW w \in Workers, NEW i \in DOMAIN queue[w], ~HandedTouches(queue[w][i].key)',
               \A j \in (i + 1)..Len(queue[w]) : queue[w][j].key # queue[w][i].key
        PROVE  IsValue(slog', queue[w][i].key, queue[w][i].val)
    <3>1. IsValue(slog, queue[w][i].key, queue[w][i].val)
      BY <2>2, <1>2, <1>8 DEF OrderInv
    <3>2. ~Touches(r, queue[w][i].key)
      BY <2>2, <1>1, <1>4 DEF HandedTouches
    <3> QED BY <3>1, <3>2, <1>3
  <2>3. ASSUME NEW w \in Workers, running[w] # <<>>, ~running[w].done,
               ~HandedTouches(running[w].rec.key)', ~InQueue(w, running[w].rec.key)
        PROVE  IsValue(slog', running[w].rec.key, running[w].rec.val)
    <3>1. IsValue(slog, running[w].rec.key, running[w].rec.val)
      BY <2>3, <1>2, <1>8 DEF OrderInv
    <3>2. ~Touches(r, running[w].rec.key)
      BY <2>3, <1>1, <1>4 DEF HandedTouches
    <3> QED BY <3>1, <3>2, <1>3
  <2> QED BY <2>1, <2>2, <2>3, <1>1 DEF OrderInv, InQueue, HandedTouches
<1>10. AppliedInOrder'
  <2> SUFFICES ASSUME NEW k \in Keys, ~Pending(k)', k \notin lost' PROVE IsValue(slog', k, sdb'[k])
    BY DEF AppliedInOrder
  <2>1. ~Pending(k) /\ ~Touches(r, k)
    BY <1>1, <1>4 DEF Pending
  <2> QED BY <2>1, <1>1, <1>2, <1>3 DEF AppliedInOrder
<1> QED BY <1>5, <1>6, <1>7, <1>9, <1>10 DEF ReplicaInv

(* ProcessLeaderLog for a FLUSHDB: nothing else is handed out. *)
LEMMA ProcessFlushdbStep ==
  ASSUME WriteInv, ReplicaInv, ProcessFlushdb
  PROVE  ReplicaInv'
<1> DEFINE r == mlog[slen + 1]
<1>1. /\ stopping = "no" /\ handed = <<>> /\ slen < Len(mlog) /\ r.type = "flushdb"
      /\ ~(taskCount > 0) /\ slen' = slen + 1 /\ handed' = r
      /\ UNCHANGED <<mlog, queue, running, taskCount, sdb, stopping, crashes, lost>>
  BY DEF ProcessFlushdb, NextRecord, faultVars, Unfinished
<1>2. /\ ReplicaTypeOK /\ WorkersInv /\ CountInv /\ OrderInv /\ StopInv /\ AppliedInOrder
  BY DEF ReplicaInv
<1>3. /\ r \in Record /\ slen' \in 0..Len(mlog')
      /\ \A k : Touches(r, k) => IsValue(slog', k, r.val)
  BY <1>1, SlogGrows
<1>4. r # <<>> /\ \A k : Touches(r, k)
  BY <1>1, <1>3, RecordFacts
<1> HIDE DEF r
<1>5. ReplicaTypeOK'
  BY <1>1, <1>2, <1>3 DEF ReplicaTypeOK
<1>6. WorkersInv' /\ StopInv'
  BY <1>1, <1>2 DEF WorkersInv, StopInv
<1>7. IsFiniteSet(Tasks) /\ Tasks = {} /\ taskCount = Cardinality(Tasks) /\ Tasks' = Tasks
  <2>1. Cardinality(Tasks) \in Nat /\ IsFiniteSet(Tasks)
    BY <1>2, FS_CardinalityType DEF CountInv
  <2>2. taskCount = Cardinality(Tasks)
    BY <1>1, <1>2, <2>1 DEF CountInv
  <2>3. Cardinality(Tasks) = 0
    BY <2>1, <2>2, <1>1
  <2>4. Tasks = {}
    BY <2>1, <2>3, FS_EmptySet
  <2>5. Tasks' = Tasks
    BY <1>1 DEF Tasks
  <2> QED BY <2>1, <2>2, <2>4, <2>5
<1>8. CountInv'
  <2>1. handed'.type # "set" /\ Cardinality(Tasks) \in Nat
    BY <1>1, <1>7, FS_CardinalityType
  <2> QED BY <2>1, <1>1, <1>7 DEF CountInv
<1>9. \A k : HandedTouches(k)'
  BY <1>1, <1>4 DEF HandedTouches
<1>10. OrderInv'
  <2>1. \A k \in Keys : IsValue(slog', k, handed'.val)
    BY <1>1, <1>3, <1>4
  <2> QED BY <2>1, <1>9 DEF OrderInv
<1>11. AppliedInOrder'
  <2>1. \A k \in Keys : Pending(k)'
    BY <1>1, <1>4 DEF Pending
  <2> QED BY <2>1 DEF AppliedInOrder
<1> QED BY <1>5, <1>6, <1>8, <1>10, <1>11 DEF ReplicaInv

(* A FLUSHDB is executed when it is the only record handed out. *)
LEMMA ExecuteFlushdbStep ==
  ASSUME ReplicaInv, ExecuteFlushdb
  PROVE  ReplicaInv'
<1>1. /\ handed # <<>> /\ handed.type = "flushdb" /\ sdb' = EmptyDatabase /\ handed' = <<>> /\ lost' = {}
      /\ UNCHANGED <<mlog, slen, queue, running, taskCount, stopping, crashes>>
  BY DEF ExecuteFlushdb
<1>2. /\ ReplicaTypeOK /\ WorkersInv /\ CountInv /\ OrderInv /\ StopInv
  BY DEF ReplicaInv
<1>3. handed \in Record /\ handed.val = NoValue /\ \A k : Touches(handed, k)
  BY <1>1, <1>2, RecordFacts DEF ReplicaTypeOK
<1>4. Tasks = {} /\ Tasks' = Tasks
  BY <1>1, <1>2 DEF CountInv, Tasks
<1>5. \A w \in Workers : queue[w] = <<>> /\ running[w] = <<>>
  BY <1>2, <1>4, TasksFacts
<1>6. \A w \in Workers : DOMAIN queue'[w] = {} /\ running'[w] = <<>>
  BY <1>1, <1>5
<1>7. ReplicaTypeOK'
  <2>1. sdb' \in Database
    BY <1>1 DEF EmptyDatabase, Database
  <2> QED BY <2>1, <1>1, <1>2 DEF ReplicaTypeOK
<1>8. WorkersInv' /\ StopInv'
  BY <1>1, <1>2, <1>6 DEF WorkersInv, StopInv
<1>9. CountInv'
  BY <1>1, <1>2, <1>4 DEF CountInv
<1>10. OrderInv'
  BY <1>1, <1>6 DEF OrderInv, HandedTouches
<1>11. AppliedInOrder'
  <2>1. slog' = slog
    BY <1>1 DEF slog
  <2>2. \A k \in Keys : IsValue(slog, k, NoValue)
    BY <1>1, <1>2, <1>3 DEF OrderInv, HandedTouches
  <2>3. \A k \in Keys : sdb'[k] = NoValue
    BY <1>1 DEF EmptyDatabase
  <2> QED BY <2>1, <2>2, <2>3 DEF AppliedInOrder
<1> QED BY <1>7, <1>8, <1>9, <1>10, <1>11 DEF ReplicaInv

(* BGThread::Schedule: the record goes behind the others of its key. *)
LEMMA ScheduleWriteDBTaskStep ==
  ASSUME ReplicaInv, ScheduleWriteDBTask
  PROVE  ReplicaInv'
<1> DEFINE w == WorkerOf[handed.key]
           n == Len(queue[w])
           q == Append(queue[w], handed)
<1>1. /\ handed # <<>> /\ handed.type = "set" /\ n < QueueFull
      /\ queue' = [queue EXCEPT ![w] = q] /\ handed' = <<>>
      /\ UNCHANGED <<mlog, slen, running, taskCount, sdb, stopping, crashes, lost>>
  BY DEF ScheduleWriteDBTask, WorkerFor, HasRoom, faultVars
<1>2. /\ ReplicaTypeOK /\ WorkersInv /\ CountInv /\ OrderInv /\ StopInv /\ AppliedInOrder
  BY DEF ReplicaInv
<1>3. handed \in Record /\ handed.key \in Keys /\ \A k : Touches(handed, k) <=> handed.key = k
  BY <1>1, <1>2, RecordFacts DEF ReplicaTypeOK
<1>4. w \in Workers /\ queue[w] \in Seq(Record)
  BY <1>2, <1>3, ReplicaAssumption DEF ReplicaTypeOK
<1>5. /\ n \in Nat /\ DOMAIN queue[w] = 1..n
      /\ q \in Seq(Record) /\ Len(q) = n + 1 /\ DOMAIN q = 1..(n + 1) /\ q[n + 1] = handed
      /\ \A i \in 1..n : q[i] = queue[w][i]
  <2>1. q \in Seq(Record)
    BY <1>3, <1>4, AppendProperties
  <2> QED BY <2>1, <1>3, <1>4, AppendProperties, LenProperties
<1> HIDE DEF w, n, q
<1>6. queue'[w] = q /\ \A v \in Workers \ {w} : queue'[v] = queue[v]
  BY <1>1, <1>2, <1>4 DEF ReplicaTypeOK
<1>7. slog' = slog /\ \A k : ~HandedTouches(k)'
  BY <1>1 DEF slog, HandedTouches
<1>8. \A k : HandedTouches(k) <=> handed.key = k
  BY <1>1, <1>3 DEF HandedTouches
<1>9. \A v \in Workers \ {w} : /\ \A i \in DOMAIN queue[v] : queue[v][i].key # handed.key
                               /\ running[v] # <<>> => running[v].rec.key # handed.key
  BY <1>2 DEF WorkersInv, w
<1>10. ReplicaTypeOK'
  <2>1. queue' \in [Workers -> Seq(Record)]
    BY <1>1, <1>2, <1>5 DEF ReplicaTypeOK
  <2>2. n + 1 <= QueueFull
    BY <1>1, <1>5, ReplicaAssumption
  <2>3. ASSUME NEW v \in Workers PROVE Len(queue'[v]) <= QueueFull
    BY <2>2, <1>2, <1>5, <1>6 DEF ReplicaTypeOK
  <2> QED BY <2>1, <2>3, <1>1, <1>2 DEF ReplicaTypeOK
<1>11. WorkersInv'
  <2> SUFFICES ASSUME NEW v \in Workers
               PROVE  \A i \in DOMAIN queue'[v] : queue'[v][i].type = "set" /\ WorkerOf[queue'[v][i].key] = v
    BY <1>1, <1>2 DEF WorkersInv
  <2>1. CASE v = w
    <3> SUFFICES ASSUME NEW i \in 1..(n + 1) PROVE q[i].type = "set" /\ WorkerOf[q[i].key] = w
      BY <2>1, <1>5, <1>6
    <3>1. CASE i = n + 1
      BY <3>1, <1>1, <1>5 DEF w
    <3>2. CASE i # n + 1
      <4>1. i \in 1..n
        BY <3>2, <1>5
      <4> QED BY <4>1, <1>2, <1>4, <1>5 DEF WorkersInv
    <3> QED BY <3>1, <3>2
  <2>2. CASE v # w
    BY <2>2, <1>2, <1>6 DEF WorkersInv
  <2> QED BY <2>1, <2>2
<1>12. CountInv'
  <2> DEFINE t == <<w, n + 1>>
  <2>1. t \notin Tasks
    BY <1>5 DEF Tasks, n
  <2>2. Tasks' = Tasks \cup {t}
    <3>1. ASSUME NEW v \in Workers, NEW i \in Nat
          PROVE  <<v, i>> \in Tasks' <=> (<<v, i>> \in Tasks \/ <<v, i>> = t)
      <4>1. <<v, i>> \in Tasks <=> IF i = 0 THEN running[v] # <<>> ELSE i <= Len(queue[v])
        BY DEF Tasks
      <4>2. <<v, i>> \in Tasks' <=> IF i = 0 THEN running[v] # <<>> ELSE i <= Len(queue'[v])
        BY <1>1 DEF Tasks
      <4>3. CASE v = w
        <5>1. Len(queue'[v]) = n + 1 /\ Len(queue[v]) = n
          BY <4>3, <1>5, <1>6 DEF n
        <5>2. <<v, i>> = t <=> i = n + 1
          BY <4>3
        <5> HIDE DEF t
        <5> QED BY <4>1, <4>2, <5>1, <5>2, <1>5
      <4>4. CASE v # w
        <5>1. queue'[v] = queue[v] /\ <<v, i>> # t
          BY <4>4, <1>6
        <5> QED BY <4>1, <4>2, <5>1
      <4> QED BY <4>3, <4>4
    <3>2. Tasks \subseteq Workers \X Nat /\ Tasks' \subseteq Workers \X Nat /\ t \in Workers \X Nat
      BY <1>4, <1>5 DEF Tasks
    <3> HIDE DEF t
    <3> QED BY <3>1, <3>2
  <2> HIDE DEF t
  <2>3. IsFiniteSet(Tasks) /\ Cardinality(Tasks) \in Nat
    BY <1>2, FS_CardinalityType DEF CountInv
  <2>4. IsFiniteSet(Tasks') /\ Cardinality(Tasks') = Cardinality(Tasks) + 1
    BY <2>1, <2>2, <2>3, FS_AddElement
  <2>5. taskCount = Cardinality(Tasks) + 1
    BY <1>1, <1>2 DEF CountInv
  <2> QED BY <2>3, <2>4, <2>5, <1>1 DEF CountInv
<1>13. OrderInv'
  <2>1. ASSUME NEW v \in Workers, NEW i \in DOMAIN queue'[v],
               \A j \in (i + 1)..Len(queue'[v]) : queue'[v][j].key # queue'[v][i].key
        PROVE  IsValue(slog, queue'[v][i].key, queue'[v][i].val)
    <3>1. CASE v # w
      <4>1. queue'[v] = queue[v] /\ ~HandedTouches(queue[v][i].key)
        BY <2>1, <3>1, <1>6, <1>8, <1>9
      <4> QED BY <4>1, <2>1, <1>2 DEF OrderInv
    <3>2. CASE v = w /\ i = n + 1
      <4>1. queue'[v][i] = handed
        BY <3>2, <1>5, <1>6
      <4> QED BY <4>1, <1>2, <1>3, <1>8 DEF OrderInv
    <3>3. CASE v = w /\ i # n + 1
      <4>1. i \in 1..n /\ i \in DOMAIN queue[w] /\ queue'[v][i] = queue[w][i]
        BY <2>1, <3>3, <1>5, <1>6
      <4>2. queue[w][i].key # handed.key
        <5>1. n + 1 \in (i + 1)..Len(queue'[v]) /\ queue'[v][n + 1] = handed
          BY <4>1, <3>3, <1>5, <1>6
        <5> QED BY <5>1, <4>1, <2>1
      <4>3. ASSUME NEW j \in (i + 1)..n PROVE queue[w][j].key # queue[w][i].key
        <5>1. j \in (i + 1)..Len(queue'[v]) /\ queue'[v][j] = queue[w][j]
          BY <4>1, <3>3, <1>5, <1>6
        <5> QED BY <5>1, <4>1, <2>1
      <4>4. IsValue(slog, queue[w][i].key, queue[w][i].val)
        BY <4>1, <4>2, <4>3, <1>2, <1>4, <1>8 DEF OrderInv, n
      <4> QED BY <4>1, <4>4
    <3> QED BY <3>1, <3>2, <3>3
  <2>2. ASSUME NEW v \in Workers, running[v] # <<>>, ~running[v].done, ~InQueue(v, running[v].rec.key)'
        PROVE  IsValue(slog, running[v].rec.key, running[v].rec.val)
    <3>1. ~InQueue(v, running[v].rec.key) /\ running[v].rec.key # handed.key
      <4>1. CASE v # w
        BY <4>1, <2>2, <1>1, <1>6, <1>9 DEF InQueue
      <4>2. CASE v = w
        <5>1. \A i \in 1..(n + 1) : q[i].key # running[v].rec.key
          BY <4>2, <2>2, <1>1, <1>5, <1>6 DEF InQueue
        <5>2. handed.key # running[v].rec.key
          BY <5>1, <1>5
        <5>3. \A i \in 1..n : queue[w][i].key # running[v].rec.key
          BY <5>1, <1>5
        <5> QED BY <4>2, <5>2, <5>3, <1>5 DEF InQueue
      <4> QED BY <4>1, <4>2
    <3> QED BY <3>1, <2>2, <1>2, <1>8 DEF OrderInv
  <2> QED BY <2>1, <2>2, <1>1, <1>7 DEF OrderInv
<1>14. StopInv'
  BY <1>1, <1>2 DEF StopInv
<1>15. AppliedInOrder'
  <2> SUFFICES ASSUME NEW k \in Keys, ~Pending(k)', k \notin lost PROVE IsValue(slog, k, sdb[k])
    BY <1>1, <1>7 DEF AppliedInOrder
  <2>1. \A i \in 1..(n + 1) : q[i].key # k
    BY <1>4, <1>5, <1>6 DEF Pending
  <2>2. handed.key # k /\ \A i \in 1..n : queue[w][i].key # k
    BY <2>1, <1>5
  <2>3. ASSUME NEW v \in Workers, NEW i \in DOMAIN queue[v] PROVE queue[v][i].key # k
    BY <2>2, <1>5, <1>6 DEF Pending
  <2>4. ~Pending(k)
    BY <2>2, <2>3, <1>1, <1>3 DEF Pending
  <2> QED BY <2>4, <1>2 DEF AppliedInOrder
<1> QED BY <1>10, <1>11, <1>12, <1>13, <1>14, <1>15 DEF ReplicaInv

(* BGThread::ThreadMain takes the first task of its queue. *)
LEMMA TakeTaskStep ==
  ASSUME ReplicaInv, NEW w \in Workers, TakeTask(w)
  PROVE  ReplicaInv'
<1> DEFINE n == Len(queue[w])
           h == Head(queue[w])
           q == Tail(queue[w])
           new == [rec |-> h, done |-> FALSE]
<1>1. /\ running[w] = <<>> /\ queue[w] # <<>>
      /\ running' = [running EXCEPT ![w] = new] /\ queue' = [queue EXCEPT ![w] = q]
      /\ UNCHANGED <<mlog, slen, handed, taskCount, sdb, stopping, crashes, lost>>
  BY DEF TakeTask, faultVars
<1>2. /\ ReplicaTypeOK /\ WorkersInv /\ CountInv /\ OrderInv /\ StopInv /\ AppliedInOrder
  BY DEF ReplicaInv
<1>3. queue[w] \in Seq(Record)
  BY <1>2 DEF ReplicaTypeOK
<1>4. /\ n \in Nat \ {0} /\ DOMAIN queue[w] = 1..n /\ h = queue[w][1] /\ h \in Record
      /\ q \in Seq(Record) /\ Len(q) = n - 1 /\ DOMAIN q = 1..(n - 1)
      /\ \A i \in 1..(n - 1) : q[i] = queue[w][i + 1]
  <2>1. n \in Nat /\ n # 0 /\ DOMAIN queue[w] = 1..n
    BY <1>1, <1>3, EmptySeq, LenProperties
  <2>2. q \in Seq(Record) /\ Len(q) = n - 1 /\ \A i \in 1..Len(q) : q[i] = queue[w][i + 1]
    BY <1>1, <1>3, HeadTailProperties
  <2>3. DOMAIN q = 1..Len(q)
    BY <2>2, LenProperties
  <2>4. h = queue[w][1] /\ h \in Record
    BY <1>1, <1>3, HeadTailProperties
  <2> HIDE DEF n, h, q
  <2> QED BY <2>1, <2>2, <2>3, <2>4
<1>5. new \in [rec: Record, done: BOOLEAN] /\ new # <<>> /\ new.rec = h /\ new.done = FALSE
  BY <1>4
<1> HIDE DEF n, h, q, new
<1>6. /\ queue'[w] = q /\ \A v \in Workers \ {w} : queue'[v] = queue[v]
      /\ running'[w] = new /\ \A v \in Workers \ {w} : running'[v] = running[v]
  BY <1>1, <1>2 DEF ReplicaTypeOK
<1>7. slog' = slog /\ \A k : HandedTouches(k)' <=> HandedTouches(k)
  BY <1>1 DEF slog, HandedTouches
<1>8. ReplicaTypeOK'
  <2>1. queue' \in [Workers -> Seq(Record)] /\ running' \in [Workers -> Executing]
    BY <1>1, <1>2, <1>4, <1>5 DEF ReplicaTypeOK, Executing
  <2>2. n <= QueueFull
    BY <1>2 DEF ReplicaTypeOK, n
  <2>3. ASSUME NEW v \in Workers PROVE Len(queue'[v]) <= QueueFull
    <3>1. CASE v = w
      BY <3>1, <2>2, <1>4, <1>6, ReplicaAssumption
    <3>2. CASE v # w
      BY <3>2, <1>2, <1>6 DEF ReplicaTypeOK
    <3> QED BY <3>1, <3>2
  <2> QED BY <2>1, <2>3, <1>1, <1>2 DEF ReplicaTypeOK
<1>9. \A i \in 1..n : queue[w][i].type = "set" /\ WorkerOf[queue[w][i].key] = w
  BY <1>2, <1>4 DEF WorkersInv
<1>10. WorkersInv'
  <2> SUFFICES ASSUME NEW v \in Workers
               PROVE  /\ \A i \in DOMAIN queue'[v] : queue'[v][i].type = "set" /\ WorkerOf[queue'[v][i].key] = v
                      /\ running'[v] # <<>> => running'[v].rec.type = "set" /\ WorkerOf[running'[v].rec.key] = v
    BY DEF WorkersInv
  <2>1. CASE v = w
    <3>1. \A i \in 1..(n - 1) : i + 1 \in 1..n /\ q[i] = queue[w][i + 1]
      BY <1>4
    <3>2. \A i \in DOMAIN queue'[v] : queue'[v][i].type = "set" /\ WorkerOf[queue'[v][i].key] = v
      BY <3>1, <2>1, <1>4, <1>6, <1>9
    <3>3. 1 \in 1..n /\ running'[v].rec = queue[w][1]
      BY <2>1, <1>4, <1>5, <1>6
    <3> QED BY <3>2, <3>3, <2>1, <1>9
  <2>2. CASE v # w
    BY <2>2, <1>2, <1>6 DEF WorkersInv
  <2> QED BY <2>1, <2>2
<1>11. CountInv'
  <2> DEFINE t == <<w, n>>
             u == <<w, 0>>
  <2>1. t \in Tasks /\ u \notin Tasks /\ t # u
    <3>1. t \in Tasks
      BY <1>4 DEF Tasks, n
    <3>2. u \notin Tasks
      BY <1>1 DEF Tasks
    <3> QED BY <3>1, <3>2
  <2>2. Tasks' = (Tasks \cup {u}) \ {t}
    <3>1. ASSUME NEW v \in Workers, NEW i \in Nat
          PROVE  <<v, i>> \in Tasks' <=> ((<<v, i>> \in Tasks \/ <<v, i>> = u) /\ <<v, i>> # t)
      <4>1. <<v, i>> \in Tasks <=> IF i = 0 THEN running[v] # <<>> ELSE i <= Len(queue[v])
        BY DEF Tasks
      <4>2. <<v, i>> \in Tasks' <=> IF i = 0 THEN running'[v] # <<>> ELSE i <= Len(queue'[v])
        BY DEF Tasks
      <4>3. CASE v = w
        <5>1. Len(queue'[v]) = n - 1 /\ Len(queue[v]) = n /\ running'[v] # <<>>
          BY <4>3, <1>4, <1>5, <1>6 DEF n
        <5>2. (<<v, i>> = t <=> i = n) /\ (<<v, i>> = u <=> i = 0)
          BY <4>3
        <5> HIDE DEF t, u
        <5> QED BY <4>1, <4>2, <5>1, <5>2, <1>4
      <4>4. CASE v # w
        <5>1. queue'[v] = queue[v] /\ running'[v] = running[v] /\ <<v, i>> # t /\ <<v, i>> # u
          BY <4>4, <1>6
        <5> QED BY <4>1, <4>2, <5>1
      <4> QED BY <4>3, <4>4
    <3>2. /\ Tasks \subseteq Workers \X Nat /\ Tasks' \subseteq Workers \X Nat
          /\ t \in Workers \X Nat /\ u \in Workers \X Nat
      BY <1>4 DEF Tasks
    <3> HIDE DEF t, u
    <3> QED BY <3>1, <3>2
  <2> HIDE DEF t, u
  <2>3. IsFiniteSet(Tasks) /\ Cardinality(Tasks) \in Nat
    BY <1>2, FS_CardinalityType DEF CountInv
  <2>4. IsFiniteSet(Tasks \cup {u}) /\ Cardinality(Tasks \cup {u}) = Cardinality(Tasks) + 1
    BY <2>1, <2>3, FS_AddElement
  <2>5. IsFiniteSet(Tasks') /\ Cardinality(Tasks') = (Cardinality(Tasks) + 1) - 1
    BY <2>1, <2>2, <2>4, FS_RemoveElement
  <2>6. Tasks # {}
    BY <2>1
  <2> QED BY <2>3, <2>5, <2>6, <1>1, <1>2 DEF CountInv
<1>12. OrderInv'
  <2>1. ASSUME NEW v \in Workers, NEW i \in DOMAIN queue'[v], ~HandedTouches(queue'[v][i].key),
               \A j \in (i + 1)..Len(queue'[v]) : queue'[v][j].key # queue'[v][i].key
        PROVE  IsValue(slog, queue'[v][i].key, queue'[v][i].val)
    <3>1. CASE v # w
      <4>1. queue'[v] = queue[v]
        BY <3>1, <1>6
      <4> QED BY <4>1, <2>1, <1>2 DEF OrderInv
    <3>2. CASE v = w
      <4>1. i \in 1..(n - 1) /\ i + 1 \in DOMAIN queue[w] /\ queue'[v][i] = queue[w][i + 1]
        BY <2>1, <3>2, <1>4, <1>6
      <4>2. ASSUME NEW j \in ((i + 1) + 1)..n PROVE queue[w][j].key # queue[w][i + 1].key
        <5>1. j - 1 \in (i + 1)..(n - 1) /\ j - 1 \in 1..(n - 1) /\ (j - 1) + 1 = j
          BY <4>1, <1>4
        <5>2. q[j - 1] = queue[w][j] /\ j - 1 \in (i + 1)..Len(queue'[v])
          BY <5>1, <3>2, <1>4, <1>6
        <5> QED BY <5>2, <4>1, <3>2, <2>1, <1>6
      <4>3. IsValue(slog, queue[w][i + 1].key, queue[w][i + 1].val)
        BY <4>1, <4>2, <2>1, <1>2 DEF OrderInv, n
      <4> QED BY <4>1, <4>3
    <3> QED BY <3>1, <3>2
  <2>2. ASSUME NEW v \in Workers, running'[v] # <<>>, ~running'[v].done,
               ~HandedTouches(running'[v].rec.key),
               \A i \in DOMAIN queue'[v] : queue'[v][i].key # running'[v].rec.key
        PROVE  IsValue(slog, running'[v].rec.key, running'[v].rec.val)
    <3>1. CASE v # w
      <4>1. running'[v] = running[v] /\ ~InQueue(v, running[v].rec.key)
        BY <3>1, <2>2, <1>6 DEF InQueue
      <4> QED BY <4>1, <2>2, <1>2 DEF OrderInv
    <3>2. CASE v = w
      <4>1. running'[v].rec = queue[w][1] /\ 1 \in DOMAIN queue[w]
        BY <3>2, <1>4, <1>5, <1>6
      <4>2. ASSUME NEW j \in (1 + 1)..n PROVE queue[w][j].key # queue[w][1].key
        <5>1. j - 1 \in 1..(n - 1) /\ (j - 1) + 1 = j
          BY <1>4
        <5>2. j - 1 \in DOMAIN queue'[v] /\ queue'[v][j - 1] = queue[w][j]
          BY <5>1, <3>2, <1>4, <1>6
        <5> QED BY <5>2, <4>1, <2>2
      <4>3. IsValue(slog, queue[w][1].key, queue[w][1].val)
        BY <4>1, <4>2, <2>2, <1>2 DEF OrderInv, n
      <4> QED BY <4>1, <4>3
    <3> QED BY <3>1, <3>2
  <2>3. \A k \in Keys : HandedTouches(k)' => IsValue(slog', k, handed'.val)
    BY <1>1, <1>2, <1>7 DEF OrderInv
  <2> QED BY <2>1, <2>2, <2>3, <1>7 DEF OrderInv, InQueue
<1>13. StopInv'
  <2>1. stopping \notin {"join", "stopped"}
    BY <1>1, <1>2 DEF StopInv
  <2> QED BY <2>1, <1>1, <1>2 DEF StopInv
<1>14. AppliedInOrder'
  <2> SUFFICES ASSUME NEW k \in Keys, ~Pending(k)', k \notin lost PROVE IsValue(slog, k, sdb[k])
    BY <1>1, <1>7 DEF AppliedInOrder
  <2>1. ~(handed # <<>> /\ Touches(handed, k))
    BY <1>1 DEF Pending
  <2>2. ASSUME NEW v \in Workers, NEW i \in DOMAIN queue[v] PROVE queue[v][i].key # k
    <3>1. CASE v # w
      BY <3>1, <1>6 DEF Pending
    <3>2. CASE v = w /\ i = 1
      <4>1. running'[w] # <<>> /\ ~running'[w].done /\ running'[w].rec = queue[v][i]
        BY <3>2, <1>4, <1>5, <1>6
      <4> QED BY <4>1 DEF Pending
    <3>3. CASE v = w /\ i # 1
      <4>1. i - 1 \in 1..(n - 1) /\ (i - 1) + 1 = i
        BY <3>3, <1>4
      <4>2. i - 1 \in DOMAIN queue'[w] /\ queue'[w][i - 1] = queue[v][i]
        BY <4>1, <3>3, <1>4, <1>6
      <4> QED BY <4>2 DEF Pending
    <3> QED BY <3>1, <3>2, <3>3
  <2>3. ASSUME NEW v \in Workers, running[v] # <<>>, ~running[v].done PROVE running[v].rec.key # k
    <3>1. v # w
      BY <2>3, <1>1
    <3> QED BY <3>1, <2>3, <1>6 DEF Pending
  <2>4. ~Pending(k)
    BY <2>1, <2>2, <2>3 DEF Pending
  <2> QED BY <2>4, <1>2 DEF AppliedInOrder
<1> QED BY <1>8, <1>10, <1>11, <1>12, <1>13, <1>14 DEF ReplicaInv

(* WriteDBInSyncWay executes the last record on its key, or one that another  *)
(* is to follow.                                                              *)
LEMMA WriteDBInSyncWayStep ==
  ASSUME ReplicaInv, NEW w \in Workers, WriteDBInSyncWay(w)
  PROVE  ReplicaInv'
<1> DEFINE rec == running[w].rec
           new == [running[w] EXCEPT !.done = TRUE]
<1>1. /\ running[w] # <<>> /\ ~running[w].done
      /\ sdb' = [sdb EXCEPT ![rec.key] = rec.val] /\ running' = [running EXCEPT ![w] = new]
      /\ lost' = lost \ {rec.key}
      /\ UNCHANGED <<mlog, slen, handed, queue, taskCount, stopping, crashes>>
  BY DEF WriteDBInSyncWay
<1>2. /\ ReplicaTypeOK /\ WorkersInv /\ CountInv /\ OrderInv /\ StopInv /\ AppliedInOrder
  BY DEF ReplicaInv
<1>3. running[w] \in [rec: Record, done: BOOLEAN]
  BY <1>1, <1>2 DEF ReplicaTypeOK, Executing
<1>4. rec \in Record /\ rec.key \in Keys /\ rec.val \in Values \cup {NoValue}
  BY <1>1, <1>2, <1>3, RecordFacts DEF WorkersInv
<1>5. new \in [rec: Record, done: BOOLEAN] /\ new # <<>> /\ new.rec = rec /\ new.done = TRUE
  <2>1. new \in [rec: Record, done: BOOLEAN] /\ new.rec = rec /\ new.done = TRUE
    BY <1>3
  <2>2. \A x \in [rec: Record, done: BOOLEAN] : x # <<>>
    OBVIOUS
  <2> QED BY <2>1, <2>2, Zenon
<1> HIDE DEF rec, new
<1>6. running'[w] = new /\ \A v \in Workers \ {w} : running'[v] = running[v]
  BY <1>1, <1>2 DEF ReplicaTypeOK
<1>7. slog' = slog /\ \A k : HandedTouches(k)' <=> HandedTouches(k)
  BY <1>1 DEF slog, HandedTouches
<1>8. ReplicaTypeOK'
  <2>1. running' \in [Workers -> Executing] /\ sdb' \in Database /\ lost' \subseteq Keys
    BY <1>1, <1>2, <1>4, <1>5 DEF ReplicaTypeOK, Executing, Database
  <2> QED BY <2>1, <1>1, <1>2 DEF ReplicaTypeOK
<1>9. WorkersInv'
  <2>1. running'[w].rec.type = "set" /\ WorkerOf[running'[w].rec.key] = w
    BY <1>1, <1>2, <1>5, <1>6 DEF WorkersInv, rec
  <2> QED BY <2>1, <1>1, <1>2, <1>6 DEF WorkersInv
<1>10. CountInv'
  <2>1. \A v \in Workers : running'[v] # <<>> <=> running[v] # <<>>
    BY <1>1, <1>5, <1>6
  <2>2. Tasks' = Tasks
    BY <2>1, <1>1 DEF Tasks
  <2> QED BY <2>2, <1>1, <1>2 DEF CountInv
<1>11. OrderInv'
  <2>1. ASSUME NEW v \in Workers, running'[v] # <<>>, ~running'[v].done,
               ~HandedTouches(running'[v].rec.key), ~InQueue(v, running'[v].rec.key)
        PROVE  IsValue(slog, running'[v].rec.key, running'[v].rec.val)
    <3>1. v # w
      BY <2>1, <1>5, <1>6
    <3> QED BY <3>1, <2>1, <1>2, <1>6 DEF OrderInv
  <2>2. \A k \in Keys : HandedTouches(k)' => IsValue(slog', k, handed'.val)
    BY <1>1, <1>2, <1>7 DEF OrderInv
  <2>3. \A v \in Workers : \A k : InQueue(v, k)' <=> InQueue(v, k)
    BY <1>1 DEF InQueue
  <2>4. ASSUME NEW v \in Workers, NEW i \in DOMAIN queue[v], ~HandedTouches(queue[v][i].key),
               \A j \in (i + 1)..Len(queue[v]) : queue[v][j].key # queue[v][i].key
        PROVE  IsValue(slog, queue[v][i].key, queue[v][i].val)
    BY <2>4, <1>2 DEF OrderInv
  <2> QED BY <2>1, <2>2, <2>3, <2>4, <1>1, <1>7 DEF OrderInv
<1>12. StopInv'
  BY <1>1, <1>2 DEF StopInv
<1>13. AppliedInOrder'
  <2> SUFFICES ASSUME NEW k \in Keys, ~Pending(k)', k \notin lost' PROVE IsValue(slog, k, sdb'[k])
    BY <1>7 DEF AppliedInOrder
  <2>1. ~HandedTouches(k) /\ \A v \in Workers : ~InQueue(v, k)
    BY <1>1 DEF Pending, HandedTouches, InQueue
  <2>2. CASE k = rec.key
    <3>1. sdb'[k] = rec.val
      BY <2>2, <1>1, <1>2 DEF ReplicaTypeOK, Database
    <3>2. IsValue(slog, rec.key, rec.val)
      BY <2>1, <2>2, <1>1, <1>2 DEF OrderInv, rec
    <3> QED BY <3>1, <3>2, <2>2
  <2>3. CASE k # rec.key
    <3>1. sdb'[k] = sdb[k] /\ k \notin lost
      BY <2>3, <1>1, <1>2 DEF ReplicaTypeOK, Database
    <3>2. ASSUME NEW v \in Workers, running[v] # <<>>, ~running[v].done PROVE running[v].rec.key # k
      <4>1. CASE v = w
        BY <4>1, <2>3 DEF rec
      <4>2. CASE v # w
        BY <4>2, <3>2, <1>6 DEF Pending
      <4> QED BY <4>1, <4>2
    <3>3. ~Pending(k)
      BY <3>2, <2>1 DEF Pending, HandedTouches, InQueue
    <3> QED BY <3>1, <3>3, <1>2 DEF AppliedInOrder
  <2> QED BY <2>2, <2>3
<1> QED BY <1>8, <1>9, <1>10, <1>11, <1>12, <1>13 DEF ReplicaInv

(* The destructor of a task counts down what ScheduleWriteDBTask counted up. *)
LEMMA TaskFinishedStep ==
  ASSUME ReplicaInv, NEW w \in Workers, TaskFinished(w)
  PROVE  ReplicaInv'
<1>1. /\ running[w] # <<>> /\ running[w].done /\ running' = [running EXCEPT ![w] = <<>>]
      /\ taskCount' = taskCount - 1
      /\ UNCHANGED <<mlog, slen, handed, queue, sdb, stopping, crashes, lost>>
  BY DEF TaskFinished, faultVars
<1>2. /\ ReplicaTypeOK /\ WorkersInv /\ CountInv /\ OrderInv /\ StopInv /\ AppliedInOrder
  BY DEF ReplicaInv
<1>3. running'[w] = <<>> /\ \A v \in Workers \ {w} : running'[v] = running[v]
  BY <1>1, <1>2 DEF ReplicaTypeOK
<1>4. slog' = slog /\ \A k : HandedTouches(k)' <=> HandedTouches(k)
  BY <1>1 DEF slog, HandedTouches
<1>5. CountInv' /\ taskCount' \in Nat
  <2> DEFINE t == <<w, 0>>
             h == IF handed # <<>> /\ handed.type = "set" THEN 1 ELSE 0
  <2>1. t \in Tasks
    BY <1>1 DEF Tasks
  <2>2. Tasks' = Tasks \ {t}
    <3>1. ASSUME NEW v \in Workers, NEW i \in Nat
          PROVE  <<v, i>> \in Tasks' <=> (<<v, i>> \in Tasks /\ <<v, i>> # t)
      <4>1. <<v, i>> \in Tasks <=> IF i = 0 THEN running[v] # <<>> ELSE i <= Len(queue[v])
        BY DEF Tasks
      <4>2. <<v, i>> \in Tasks' <=> IF i = 0 THEN running'[v] # <<>> ELSE i <= Len(queue[v])
        BY <1>1 DEF Tasks
      <4>3. CASE v = w
        BY <4>1, <4>2, <4>3, <1>3
      <4>4. CASE v # w
        BY <4>1, <4>2, <4>4, <1>3
      <4> QED BY <4>3, <4>4
    <3>2. Tasks \subseteq Workers \X Nat /\ Tasks' \subseteq Workers \X Nat /\ t \in Workers \X Nat
      BY DEF Tasks
    <3> HIDE DEF t
    <3> QED BY <3>1, <3>2
  <2>3. IsFiniteSet(Tasks) /\ Cardinality(Tasks) \in Nat /\ taskCount = Cardinality(Tasks) + h
    BY <1>2, FS_CardinalityType DEF CountInv
  <2> HIDE DEF t
  <2>4. IsFiniteSet(Tasks') /\ Cardinality(Tasks') = Cardinality(Tasks) - 1
    BY <2>1, <2>2, <2>3, FS_RemoveElement
  <2>5. Cardinality(Tasks') \in Nat
    BY <2>4, FS_CardinalityType
  <2>6. h \in {0, 1}
    OBVIOUS
  <2>7. taskCount' = Cardinality(Tasks') + h /\ taskCount' \in Nat
    <3> HIDE DEF h
    <3> QED BY <2>3, <2>4, <2>5, <2>6, <1>1
  <2>8. ~(handed # <<>> /\ handed.type = "flushdb")
    BY <2>1, <1>2 DEF CountInv
  <2> QED BY <2>4, <2>7, <2>8, <1>1 DEF CountInv
<1>6. ReplicaTypeOK'
  <2>1. running' \in [Workers -> Executing]
    BY <1>1, <1>2 DEF ReplicaTypeOK, Executing
  <2> QED BY <2>1, <1>1, <1>2, <1>5 DEF ReplicaTypeOK
<1>7. WorkersInv'
  BY <1>1, <1>2, <1>3 DEF WorkersInv
<1>8. OrderInv'
  <2>1. \A k \in Keys : HandedTouches(k)' => IsValue(slog', k, handed'.val)
    BY <1>1, <1>2, <1>4 DEF OrderInv
  <2>2. \A v \in Workers : running'[v] # <<>> => running'[v] = running[v]
    BY <1>3
  <2>3. \A v \in Workers : \A k : InQueue(v, k)' <=> InQueue(v, k)
    BY <1>1 DEF InQueue
  <2>4. ASSUME NEW v \in Workers, NEW i \in DOMAIN queue[v], ~HandedTouches(queue[v][i].key),
               \A j \in (i + 1)..Len(queue[v]) : queue[v][j].key # queue[v][i].key
        PROVE  IsValue(slog, queue[v][i].key, queue[v][i].val)
    BY <2>4, <1>2 DEF OrderInv
  <2>5. ASSUME NEW v \in Workers, running'[v] # <<>>, ~running'[v].done,
               ~HandedTouches(running'[v].rec.key), ~InQueue(v, running'[v].rec.key)
        PROVE  IsValue(slog, running'[v].rec.key, running'[v].rec.val)
    BY <2>2, <2>5, <1>2 DEF OrderInv
  <2> QED BY <2>1, <2>3, <2>4, <2>5, <1>1, <1>4 DEF OrderInv
<1>9. StopInv'
  BY <1>1, <1>2, <1>3 DEF StopInv
<1>10. AppliedInOrder'
  <2>1. ASSUME NEW v \in Workers, running[v] # <<>>, ~running[v].done PROVE running'[v] = running[v]
    BY <2>1, <1>1, <1>3
  <2>2. ASSUME NEW k, Pending(k) PROVE Pending(k)'
    BY <2>1, <2>2, <1>1 DEF Pending
  <2> QED BY <2>2, <1>1, <1>2, <1>4 DEF AppliedInOrder
<1> QED BY <1>5, <1>6, <1>7, <1>8, <1>9, <1>10 DEF ReplicaInv

(* PikaReplClient::Stop waits at each of its steps. *)
LEMMA StopStep ==
  ASSUME ReplicaInv, Stop
  PROVE  ReplicaInv'
<1>1. UNCHANGED <<mlog, slen, handed, queue, running, taskCount, sdb, crashes, lost>>
  BY DEF Stop, StopBinlogWorkers, QueuesDrained, WorkersJoined, faultVars
<1>2. slog' = slog
  BY <1>1 DEF slog
<1>3. WorkersInv' /\ CountInv' /\ OrderInv' /\ AppliedInOrder'
  BY <1>1, <1>2, ReplicaKept
<1>4. ReplicaTypeOK /\ StopInv
  BY DEF ReplicaInv
<1>5. stopping' \in {"drain", "join", "stopped"}
  BY DEF Stop, StopBinlogWorkers, QueuesDrained, WorkersJoined
<1>6. ReplicaTypeOK'
  BY <1>1, <1>4, <1>5 DEF ReplicaTypeOK
<1>7. StopInv'
  BY <1>1, <1>4 DEF Stop, StopBinlogWorkers, QueuesDrained, WorkersJoined, Joined, StopInv
<1> QED BY <1>3, <1>6, <1>7 DEF ReplicaInv

(* A restart forgets what was handed out, and lost names those keys. *)
LEMMA RestartStep ==
  ASSUME ReplicaInv, Restart
  PROVE  ReplicaInv'
<1>1. /\ crashes < MaxCrashes /\ crashes' = crashes + 1
      /\ lost' = lost \cup {k \in Keys : Pending(k)} /\ handed' = <<>> /\ taskCount' = 0
      /\ queue' = [w \in Workers |-> <<>>] /\ running' = [w \in Workers |-> <<>>]
      /\ stopping' = "no" /\ UNCHANGED <<mlog, slen, sdb>>
  BY DEF Restart
<1>2. ReplicaTypeOK /\ AppliedInOrder
  BY DEF ReplicaInv
<1>3. \A w \in Workers : queue'[w] = <<>> /\ running'[w] = <<>> /\ DOMAIN queue'[w] = {} /\ Len(queue'[w]) = 0
  BY <1>1
<1>4. ReplicaTypeOK'
  <2>1. \A w \in Workers : Len(queue'[w]) <= QueueFull
    BY <1>3, ReplicaAssumption
  <2>2. queue' \in [Workers -> Seq(Record)] /\ running' \in [Workers -> Executing]
    BY <1>1, EmptySeq DEF Executing
  <2>3. crashes' \in 0..MaxCrashes
    BY <1>1, <1>2, ReplicaAssumption DEF ReplicaTypeOK
  <2> QED BY <2>1, <2>2, <2>3, <1>1, <1>2 DEF ReplicaTypeOK
<1>5. WorkersInv' /\ StopInv'
  BY <1>1, <1>3 DEF WorkersInv, StopInv
<1>6. CountInv'
  <2>1. Tasks' = {}
    BY <1>3 DEF Tasks
  <2> QED BY <2>1, <1>1, FS_EmptySet DEF CountInv
<1>7. OrderInv'
  BY <1>1, <1>3 DEF OrderInv, HandedTouches
<1>8. AppliedInOrder'
  <2>1. slog' = slog
    BY <1>1 DEF slog
  <2>2. \A k \in Keys : k \notin lost' => ~Pending(k) /\ k \notin lost
    BY <1>1
  <2> QED BY <2>1, <2>2, <1>1, <1>2 DEF AppliedInOrder
<1> QED BY <1>4, <1>5, <1>6, <1>7, <1>8 DEF ReplicaInv

-----------------------------------------------------------------------------
(* The theorems *)

(* Every step keeps both invariants. *)
LEMMA InvStep ==
  ASSUME WriteInv, ReplicaInv, [Next]_vars
  PROVE  WriteInv' /\ ReplicaInv'
<1>1. ASSUME UNCHANGED <<mlog, clientVars>> PROVE WriteInv'
  <2>1. UNCHANGED <<mlog, mdb, locked, shared, client, issued, ioError, errors, diverged>>
    BY <1>1 DEF clientVars
  <2>2. WriteTypeOK' /\ CommandInv'
    BY <2>1 DEF WriteInv, WriteTypeOK, CommandInv
  <2>3. \A c \in Clients : Held(c)' = Held(c)
    BY <2>1 DEF Held
  <2>4. LocksHeld'
    BY <2>1, <2>3 DEF WriteInv, LocksHeld
  <2>5. UnloggedInv'
    BY <2>1 DEF WriteInv, UnloggedInv, Logging
  <2>6. LogMatchesDatabase'
    BY <2>1 DEF WriteInv, LogMatchesDatabase, Unlogged
  <2> QED BY <2>2, <2>4, <2>5, <2>6 DEF WriteInv
<1>2. CASE UNCHANGED vars
  <2>1. UNCHANGED <<slen, handed, queue, running, taskCount, sdb, stopping, crashes, lost, mlog>>
    BY <1>2 DEF vars, replicaVars, faultVars
  <2>2. slog' = slog
    BY <2>1 DEF slog
  <2>3. WorkersInv' /\ CountInv' /\ OrderInv' /\ AppliedInOrder'
    BY <2>1, <2>2, ReplicaKept
  <2>4. ReplicaTypeOK' /\ StopInv'
    BY <2>1 DEF ReplicaInv, ReplicaTypeOK, StopInv
  <2> QED BY <2>3, <2>4, <1>1, <1>2 DEF ReplicaInv, vars
<1>3. ASSUME NEW c \in Clients, ClientThread(c), UNCHANGED replicaVars
      PROVE  WriteInv' /\ ReplicaInv'
  BY <1>3, WriteStep, ReplicaClientStep
<1>4. CASE (BinlogWorker \/ Stop \/ Restart) /\ UNCHANGED clientVars
  <2>1. UNCHANGED mlog
    BY <1>4 DEF BinlogWorker, ProcessLeaderLog, ScheduleWriteDBTask, ProcessFlushdb, ExecuteFlushdb,
                Stop, StopBinlogWorkers, QueuesDrained, WorkersJoined, Restart
  <2>2. ReplicaInv'
    BY <1>4, ProcessLeaderLogStep, ScheduleWriteDBTaskStep, ProcessFlushdbStep, ExecuteFlushdbStep,
       StopStep, RestartStep DEF BinlogWorker
  <2> QED BY <2>1, <2>2, <1>1, <1>4
<1>5. ASSUME NEW w \in Workers, WriteDBWorker(w), UNCHANGED clientVars
      PROVE  WriteInv' /\ ReplicaInv'
  <2>1. UNCHANGED mlog
    BY <1>5 DEF WriteDBWorker, TakeTask, WriteDBInSyncWay, TaskFinished
  <2>2. ReplicaInv'
    BY <1>5, TakeTaskStep, WriteDBInSyncWayStep, TaskFinishedStep DEF WriteDBWorker
  <2> QED BY <2>1, <2>2, <1>1, <1>5
<1> QED BY <1>2, <1>3, <1>4, <1>5 DEF Next

(* The inductive invariant: the master's part does not depend on the slave.   *)
THEOREM Invariant == Spec => [](WriteInv /\ ReplicaInv)
<1>1. Init => WriteInv /\ ReplicaInv
  BY WriteInitInv, ReplicaInitInv DEF Init
<1>2. WriteInv /\ ReplicaInv /\ [Next]_vars => WriteInv' /\ ReplicaInv'
  BY InvStep
<1> QED BY <1>1, <1>2, PTL DEF Spec

(* InternalProcessCommand, ProcessLeaderLog and the write-DB workers keep     *)
(* every variable in its type; the queues stay within PIKA_SYNC_BUFFER_SIZE   *)
(* and async_write_db_task_counts_ does not fall below zero.                  *)
THEOREM TypeCorrect == Spec => []TypeOK
<1>1. WriteInv /\ ReplicaInv => TypeOK
  BY DEF WriteInv, ReplicaInv, TypeOK
<1> QED BY <1>1, Invariant, PTL

(* Cmd::InternalProcessCommand: whatever the clients, their commands and the  *)
(* order of their steps, executing the master's binlog gives its database at  *)
(* every key that no command is about to log.                                 *)
THEOREM MasterLogMatches == Spec => []LogMatchesDatabase
<1>1. WriteInv => LogMatchesDatabase
  BY DEF WriteInv
<1> QED BY <1>1, Invariant, PTL

(* ScheduleWriteDBTask and ProcessLeaderLog: however many write-DB workers    *)
(* execute the records, a key with no unfinished record holds what the        *)
(* slave's binlog says, but for the records that a crash took.                *)
THEOREM SlaveAppliesInOrder == Spec => []AppliedInOrder
<1>1. ReplicaInv => AppliedInOrder
  BY DEF ReplicaInv
<1> QED BY <1>1, Invariant, PTL

(* PikaReplClient::Stop: when it returns, every record of the slave's binlog  *)
(* that no crash took has been executed.                                      *)
THEOREM StopIsClean == Spec => []StopLosesNothing
<1>1. ReplicaInv => StopLosesNothing
  <2> SUFFICES ASSUME ReplicaInv, stopping = "stopped", NEW k \in Keys \ lost
               PROVE  IsValue(slog, k, sdb[k])
    BY DEF StopLosesNothing
  <2>1. handed = <<>> /\ \A w \in Workers : queue[w] = <<>> /\ running[w] = <<>>
    BY DEF ReplicaInv, StopInv
  <2>2. \A w \in Workers : DOMAIN queue[w] = {}
    BY <2>1
  <2>3. ~Pending(k)
    BY <2>1, <2>2 DEF Pending
  <2> QED BY <2>3 DEF ReplicaInv, AppliedInOrder
<1> QED BY <1>1, Invariant, PTL

=============================================================================
