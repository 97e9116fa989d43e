------------------------ MODULE BlockingLists_proofs ------------------------
(***************************************************************************)
(* Proofs about the blocking list commands: no push misses a connection    *)
(* that waits, the two maps agree with the commands that are not answered, *)
(* the binlog gives the lists, and commands and tasks never wait for each  *)
(* other in a circle, for any connections, keys, descriptors, elements and *)
(* failures.                                                               *)
(***************************************************************************)
EXTENDS BlockingLists, WellFoundedInduction, FiniteSetTheorems, SequenceTheorems, TLAPS

-----------------------------------------------------------------------------
(* The inductive invariant *)

(* The locks an actor takes, in their order. *)
Wants(a) ==
  IF a \in Conns THEN RecordLocks(cmd[a].keys)
  ELSE IF a \in Keys THEN ServeLocks(a)
  ELSE IF a = "cron" THEN <<"rw", "block">>
  ELSE <<"block", "rw">>

(* An actor has taken the first n locks and goes on with the next. *)
Between(a, n) ==
  /\ n \in 0..(Len(Wants(a)) - 1)
  /\ plan[a] = SubSeq(Wants(a), n + 1, Len(Wants(a)))
  /\ held[a] = {Wants(a)[i] : i \in 1..n}

Holds(a) ==
  /\ pc[a] \in {"idle", "serve"} => held[a] = {}
  /\ pc[a] = "lock" => \E n \in Nat : Between(a, n)
  /\ pc[a] = "do" => held[a] = ToSet(Wants(a))
  /\ pc[a] = "log" => held[a] = ToSet(Wants(a)) \ {"block"}

(* No lock has two owners; an actor holds the locks its program has come to. *)
LockInv ==
  /\ \A a, b \in Actors : a # b => held[a] \cap held[b] = {}
  /\ \A a \in Actors : Holds(a)

(* What an actor is doing. *)
RunInv ==
  /\ \A c \in Conns : pc[c] # "idle" => cmd[c] \in Command /\ life[c] # "none"
  /\ \A c \in Conns : pc[c] = "serve" => cmd[c].op = "exec"
  /\ \A k \in Keys : pc[k] # "serve"
  /\ \A a \in Admins : pc[a] \notin {"log", "serve"}

Logs(a) ==
  /\ pc[a] \in {"idle", "lock", "serve"} => ops[a] = <<>>
  /\ pc[a] = "do" /\ a \notin Keys => ops[a] = <<>>
  /\ pc[a] = "log" => ops[a] # <<>>
  /\ \A i \in DOMAIN ops[a] : ops[a][i].key \in held[a]

(* A change is logged by an actor that holds the lock of its key. *)
OpsInv == \A a \in Actors : Logs(a)

EffectAt(k, s, op) == IF op.key = k THEN Effect(s, op) ELSE s

(* Executing the records o takes the list of k from s to t; st are the lists *)
(* in between.                                                               *)
Replay(k, s, t, o) ==
  \E st \in [1..(Len(o) + 1) -> Seq(Elems)] :
    /\ st[1] = s /\ st[Len(o) + 1] = t
    /\ \A i \in 1..Len(o) : st[i + 1] = EffectAt(k, st[i], o[i])

LogOf(k) ==
  /\ Free(k) => logged[k] = list[k]
  /\ \A a \in Actors : k \in held[a] => Replay(k, logged[k], list[k], ops[a])

(* The binlog and the changes still to be logged give the list. *)
LogInv == errors = 0 => \A k \in Keys : LogOf(k)

(* A descriptor belongs to one connection that is not closed. *)
LifeInv ==
  \A c, d \in Conns : c # d /\ FdOf[c] = FdOf[d] => life[c] \in {"none", "closed"} \/ life[d] \in {"none", "closed"}

(* The nodes of a waiting list are in the order in which they blocked. *)
IdInv ==
  \A k \in Keys :
    /\ \A i, j \in DOMAIN waiting[k] : i < j => waiting[k][i].id < waiting[k][j].id
    /\ \A i \in DOMAIN waiting[k] : waiting[k][i].id <= serial

RegularFd(f) == \A d \in pipelined \cup late : FdOf[d] # f

NodeOfFd(k, i, f) == FdOf[waiting[k][i].conn] = f

(* Nothing is known of the descriptor. *)
NoEntry(f) ==
  /\ keysOf[f] = <<>>
  /\ \A k \in Keys : \A i \in DOMAIN waiting[k] : ~NodeOfFd(k, i, f)
  /\ \A m \in owed : FdOf[m.conn] # f

(* Of the descriptor n is the one command that is blocked. *)
Entered(f, n) ==
  /\ FdOf[n.conn] = f /\ life[n.conn] \in {"open", "check", "clean"}
  /\ keysOf[f] # <<>> /\ ToSet(keysOf[f]) = n.keys
  /\ \A m \in owed : FdOf[m.conn] = f => m = n
  /\ \A k \in Keys : \A i \in DOMAIN waiting[k] : NodeOfFd(k, i, f) => waiting[k][i] = n /\ k \in n.keys
  /\ \A k \in n.keys : \E i \in DOMAIN waiting[k] : waiting[k][i] = n

MapOf(f) == NoEntry(f) \/ \E n \in owed : Entered(f, n)

(* The two maps agree with each other and with the commands that are blocked. *)
MapInv == \A f \in Fds : RegularFd(f) => MapOf(f)

Inv ==
  /\ TypeOK /\ LockInv /\ RunInv /\ OpsInv /\ LogInv /\ LifeInv
  /\ IdInv /\ MapInv /\ NoLostWakeup /\ KeysHaveNodes /\ LoopKeepsItsNode

-----------------------------------------------------------------------------
(* Numbers and sequences *)

(* A set of numbers that is not empty has a least element. *)
LEMMA LeastNumber ==
  ASSUME NEW S \in SUBSET Nat, S # {}
  PROVE  \E x \in S : \A y \in S : x <= y
<1>1. IsWellFoundedOn(OpToRel(<, Nat), Nat)
  BY NatLessThanWellFounded
<1>2. PICK x \in S : \A y \in S : ~(<<y, x>> \in OpToRel(<, Nat))
  BY <1>1, WFMin
<1>3. \A y \in S : ~(y < x)
  BY <1>2 DEF OpToRel
<1> QED BY <1>3

(* A bounded one has a greatest element. *)
LEMMA GreatestNumber ==
  ASSUME NEW n \in Nat, NEW S \in SUBSET (0..n), S # {}
  PROVE  \E x \in S : \A y \in S : y <= x
<1> DEFINE T == {n - x : x \in S}
<1>0. \A x \in S : x \in Nat /\ x <= n
  OBVIOUS
<1>1. T \in SUBSET Nat /\ T # {}
  <2>1. \A x \in S : n - x \in Nat
    BY <1>0
  <2>2. T # {}
    OBVIOUS
  <2> QED BY <2>1, <2>2
<1>2. PICK t \in T : \A u \in T : t <= u
  BY <1>1, LeastNumber
<1>3. PICK x \in S : t = n - x
  OBVIOUS
<1>4. \A y \in S : n - x <= n - y
  BY <1>2, <1>3
<1>5. x \in Nat /\ \A y \in S : y \in Nat
  BY <1>0, <1>3
<1> HIDE DEF T
<1> QED BY <1>4, <1>5

LEMMA MinNumber ==
  ASSUME NEW S \in SUBSET Nat, S # {}
  PROVE  Min(S) \in S /\ \A y \in S : Min(S) <= y
BY LeastNumber DEF Min

LEMMA ToSetOf ==
  ASSUME NEW S, NEW s \in Seq(S)
  PROVE  /\ DOMAIN s = 1..Len(s) /\ Len(s) \in Nat
         /\ \A x : x \in ToSet(s) <=> \E i \in 1..Len(s) : s[i] = x
         /\ \A x : x \in ToSet(s) <=> Contains(s, x)
         /\ ToSet(s) \subseteq S
<1>1. DOMAIN s = 1..Len(s) /\ Len(s) \in Nat
  OBVIOUS
<1>2. \A i \in 1..Len(s) : s[i] \in S
  BY <1>1
<1> QED BY <1>1, <1>2 DEF ToSet, Contains

(* The number of elements below k grows with k. *)
LEMMA RankGrows ==
  ASSUME NEW S \in SUBSET Nat, IsFiniteSet(S), NEW k \in S, NEW l \in S, k < l
  PROVE  /\ Cardinality({j \in S : j < k}) \in Nat /\ Cardinality({j \in S : j < l}) \in Nat
         /\ Cardinality({j \in S : j < k}) < Cardinality({j \in S : j < l})
<1> DEFINE A == {j \in S : j < k}
           B == {j \in S : j < l}
<1>1. IsFiniteSet(B)
  BY FS_Subset
<1>2. A \in SUBSET B
  <2>1. \A j \in S : j \in Nat /\ k \in Nat /\ l \in Nat
    OBVIOUS
  <2>2. \A j \in S : j < k => j < l
    BY <2>1
  <2> QED BY <2>2
<1>3. IsFiniteSet(A) /\ Cardinality(A) <= Cardinality(B)
  BY <1>1, <1>2, FS_Subset
<1>4. k \in B /\ k \notin A
  OBVIOUS
<1>5. Cardinality(A) # Cardinality(B)
  BY <1>1, <1>2, <1>4, FS_Subset
<1>6. Cardinality(A) \in Nat /\ Cardinality(B) \in Nat
  BY <1>1, <1>3, FS_CardinalityType
<1> HIDE DEF A, B
<1>7. Cardinality(A) < Cardinality(B)
  BY <1>3, <1>5, <1>6
<1> QED BY <1>6, <1>7 DEF A, B

(* Ascending lists the numbers of a set, each once, in their order. *)
LEMMA AscendingFacts ==
  ASSUME NEW P \in SUBSET Nat, IsFiniteSet(P)
  PROVE  /\ Ascending(P) \in Seq(P)
         /\ Len(Ascending(P)) = Cardinality(P) /\ Cardinality(P) \in Nat
         /\ \A p \in P : \E i \in 1..Len(Ascending(P)) : Ascending(P)[i] = p
         /\ \A i, j \in 1..Len(Ascending(P)) : i < j => Ascending(P)[i] < Ascending(P)[j]
<1> DEFINE n == Cardinality(P)
           rank(k) == Cardinality({j \in P : j < k})
           order == [i \in 1..n |-> CHOOSE k \in P : rank(k) = i - 1]
<1>1. n \in Nat
  BY FS_CardinalityType
<1>2. \A k \in P : rank(k) \in 0..(n - 1)
  <2> SUFFICES ASSUME NEW k \in P PROVE rank(k) \in 0..(n - 1)
    OBVIOUS
  <2> DEFINE B == {j \in P : j < k}
  <2>1. B \in SUBSET P /\ k \notin B
    OBVIOUS
  <2>2. IsFiniteSet(B) /\ Cardinality(B) <= n /\ Cardinality(B) # n
    BY <2>1, FS_Subset
  <2>3. Cardinality(B) \in Nat
    BY <2>2, FS_CardinalityType
  <2> QED BY <2>2, <2>3, <1>1
<1>3. \A k \in P : \A l \in P : k < l => rank(k) < rank(l)
  BY RankGrows
<1>4. \A k \in P : \A l \in P : rank(k) = rank(l) => k = l
  <2> SUFFICES ASSUME NEW k \in P, NEW l \in P, rank(k) = rank(l) PROVE k = l
    OBVIOUS
  <2>1. k \in Nat /\ l \in Nat
    OBVIOUS
  <2>2. rank(k) \in Nat /\ rank(l) \in Nat
    BY <1>2
  <2>3. ~(k < l) /\ ~(l < k)
    <3> HIDE DEF rank
    <3> QED BY <1>3, <2>2
  <2> QED BY <2>1, <2>3
<1>5. \A i \in 0..(n - 1) : \E k \in P : rank(k) = i
  <2> DEFINE f == [k \in P |-> rank(k)]
             T == 0..(n - 1)
  <2>1. f \in Injection(P, T)
    <3> HIDE DEF rank, n
    <3> QED BY <1>2, <1>4 DEF Injection, IsInjective
  <2>2. IsFiniteSet(T) /\ Cardinality(T) = n
    <3>1. 0 \in Int /\ n - 1 \in Int
      BY <1>1
    <3>2. IsFiniteSet(T) /\ Cardinality(T) = IF 0 > n - 1 THEN 0 ELSE (n - 1) - 0 + 1
      <4> HIDE DEF n
      <4> QED BY <3>1, FS_Interval, Zenon
    <3> HIDE DEF n, T
    <3> QED BY <3>1, <3>2, <1>1
  <2>3. f \in Surjection(P, T)
    BY <2>1, <2>2, FS_Injection
  <2> QED BY <2>3 DEF Surjection
<1>6. \A i \in 1..n : order[i] \in P /\ rank(order[i]) = i - 1
  <2> SUFFICES ASSUME NEW i \in 1..n PROVE order[i] \in P /\ rank(order[i]) = i - 1
    OBVIOUS
  <2>1. i - 1 \in 0..(n - 1)
    BY <1>1
  <2>2. \E k \in P : rank(k) = i - 1
    BY <2>1, <1>5
  <2> HIDE DEF rank
  <2> QED BY <2>2
<1>7. order \in Seq(P) /\ Len(order) = n
  <2> HIDE DEF rank, n
  <2> QED BY <1>1, <1>6
<1>8. \A k \in P : \E i \in 1..n : order[i] = k
  <2> SUFFICES ASSUME NEW k \in P PROVE \E i \in 1..n : order[i] = k
    OBVIOUS
  <2>1. rank(k) + 1 \in 1..n /\ (rank(k) + 1) - 1 = rank(k)
    BY <1>1, <1>2
  <2>2. order[rank(k) + 1] = k
    <3> HIDE DEF rank, order
    <3> QED BY <2>1, <1>6, <1>4
  <2> QED BY <2>1, <2>2
<1>9. \A i, j \in 1..n : i < j => order[i] < order[j]
  <2> SUFFICES ASSUME NEW i \in 1..n, NEW j \in 1..n, i < j PROVE order[i] < order[j]
    OBVIOUS
  <2> HIDE DEF rank, order
  <2>1. order[i] \in P /\ order[j] \in P /\ rank(order[i]) = i - 1 /\ rank(order[j]) = j - 1
    BY <1>6
  <2>2. order[j] # order[i]
    BY <2>1, <1>1
  <2>4. ~(order[j] < order[i])
    <3>1. order[j] < order[i] => rank(order[j]) < rank(order[i])
      BY <2>1, <1>3
    <3>2. i \in Nat /\ j \in Nat /\ ~(j - 1 < i - 1)
      BY <1>1
    <3> QED BY <3>1, <3>2, <2>1
  <2>3. order[i] \in Nat /\ order[j] \in Nat
    BY <2>1
  <2> QED BY <2>2, <2>3, <2>4
<1>10. Ascending(P) = order
  BY DEF Ascending
<1> HIDE DEF order, rank, n
<1>11. Len(order) = n /\ n \in Nat
  BY <1>7, <1>1
<1> QED BY <1>7, <1>8, <1>9, <1>10, <1>11 DEF n

(* The constants. *)
LEMMA KeyFacts ==
  /\ DOMAIN KeyOrder = 1..Len(KeyOrder) /\ Len(KeyOrder) \in Nat
  /\ \A k : k \in Keys <=> \E p \in 1..Len(KeyOrder) : KeyOrder[p] = k
  /\ \A i, j \in 1..Len(KeyOrder) : KeyOrder[i] = KeyOrder[j] => i = j
<1>1. KeyOrder \in Seq(Keys) /\ \A i, j \in DOMAIN KeyOrder : KeyOrder[i] = KeyOrder[j] => i = j
  BY BlockingAssumption
<1>2. DOMAIN KeyOrder = 1..Len(KeyOrder) /\ Len(KeyOrder) \in Nat
  BY <1>1
<1>3. \A k : k \in Keys <=> \E p \in 1..Len(KeyOrder) : KeyOrder[p] = k
  BY <1>2 DEF Keys, ToSet
<1> QED BY <1>1, <1>2, <1>3

(* Where std::sort puts a key. *)
Position(k) == CHOOSE p \in DOMAIN KeyOrder : KeyOrder[p] = k

LEMMA PositionOf ==
  /\ \A k \in Keys : Position(k) \in 1..Len(KeyOrder) /\ KeyOrder[Position(k)] = k
  /\ \A p \in 1..Len(KeyOrder) : Position(KeyOrder[p]) = p
<1>1. \A k \in Keys : Position(k) \in 1..Len(KeyOrder) /\ KeyOrder[Position(k)] = k
  BY KeyFacts DEF Position
<1>2. \A p \in 1..Len(KeyOrder) : KeyOrder[p] \in Keys
  BY KeyFacts
<1> QED BY <1>1, <1>2, KeyFacts

(* MultiRecordLock::Lock locks the records of the command, each once, in the *)
(* order of their names.                                                     *)
LEMMA RecordLocksFacts ==
  ASSUME NEW ks \in Seq(Keys), ks # <<>>
  PROVE  /\ RecordLocks(ks) \in Seq(Keys) /\ RecordLocks(ks) # <<>>
         /\ ToSet(RecordLocks(ks)) = ToSet(ks)
         /\ \A i, j \in 1..Len(RecordLocks(ks)) :
              i < j => Position(RecordLocks(ks)[i]) < Position(RecordLocks(ks)[j])
<1> DEFINE P == {p \in DOMAIN KeyOrder : Contains(ks, KeyOrder[p])}
           at == Ascending(P)
           locks == [i \in DOMAIN at |-> KeyOrder[at[i]]]
<1>1. P \in SUBSET Nat /\ P \subseteq 1..Len(KeyOrder)
  BY KeyFacts
<1>2. IsFiniteSet(P)
  <2>1. IsFiniteSet(1..Len(KeyOrder))
    BY KeyFacts, FS_Interval
  <2> QED BY <2>1, <1>1, FS_Subset
<1>3. RecordLocks(ks) = locks
  BY DEF RecordLocks
<1>4. /\ at \in Seq(P)
      /\ Len(at) = Cardinality(P) /\ Cardinality(P) \in Nat
      /\ \A p \in P : \E i \in 1..Len(at) : at[i] = p
      /\ \A i, j \in 1..Len(at) : i < j => at[i] < at[j]
  <2> HIDE DEF P
  <2> QED BY <1>1, <1>2, AscendingFacts
<1>5. \A p \in P : Contains(ks, KeyOrder[p]) /\ p \in 1..Len(KeyOrder)
  BY KeyFacts
<1>6. \A p \in 1..Len(KeyOrder) : Contains(ks, KeyOrder[p]) => p \in P
  BY KeyFacts
<1> HIDE DEF P, at
<1>7. DOMAIN at = 1..Len(at) /\ Len(at) \in Nat /\ \A i \in 1..Len(at) : at[i] \in P
  BY <1>4
<1>8. \A i \in 1..Len(at) : KeyOrder[at[i]] \in ToSet(ks) /\ KeyOrder[at[i]] \in Keys
  BY <1>5, <1>7, ToSetOf
<1>9. locks \in Seq(Keys) /\ Len(locks) = Len(at) /\ \A i \in 1..Len(at) : locks[i] = KeyOrder[at[i]]
  BY <1>7, <1>8
<1> HIDE DEF locks
<1>10. \A k \in ToSet(ks) : \E i \in 1..Len(at) : locks[i] = k
  <2> SUFFICES ASSUME NEW k \in ToSet(ks) PROVE \E i \in 1..Len(at) : locks[i] = k
    OBVIOUS
  <2>1. k \in Keys /\ Contains(ks, k)
    BY ToSetOf
  <2>2. PICK p \in 1..Len(KeyOrder) : KeyOrder[p] = k
    BY <2>1, KeyFacts
  <2>3. p \in P
    BY <2>1, <2>2, <1>6
  <2>4. PICK i \in 1..Len(at) : at[i] = p
    BY <2>3, <1>4
  <2> QED BY <2>2, <2>4, <1>9
<1>11. ToSet(locks) = ToSet(ks)
  <2>1. \A x : x \in ToSet(locks) <=> \E i \in 1..Len(at) : locks[i] = x
    BY <1>9, ToSetOf
  <2>2. \A i \in 1..Len(at) : locks[i] \in ToSet(ks)
    BY <1>8, <1>9
  <2> QED BY <2>1, <2>2, <1>10
<1>12. locks # <<>>
  <2>1. ks[1] \in ToSet(ks)
    BY EmptySeq, ToSetOf
  <2>2. \E i \in 1..Len(locks) : TRUE
    BY <2>1, <1>10, <1>9
  <2> QED BY <2>2
<1>13. \A i, j \in 1..Len(locks) : i < j => Position(locks[i]) < Position(locks[j])
  <2> SUFFICES ASSUME NEW i \in 1..Len(locks), NEW j \in 1..Len(locks), i < j
               PROVE  Position(locks[i]) < Position(locks[j])
    OBVIOUS
  <2>1. at[i] < at[j] /\ locks[i] = KeyOrder[at[i]] /\ locks[j] = KeyOrder[at[j]]
    BY <1>4, <1>9
  <2>2. at[i] \in 1..Len(KeyOrder) /\ at[j] \in 1..Len(KeyOrder)
    BY <1>5, <1>7, <1>9
  <2>3. Position(KeyOrder[at[i]]) = at[i] /\ Position(KeyOrder[at[j]]) = at[j]
    BY <2>2, PositionOf
  <2> QED BY <2>1, <2>3
<1> QED BY <1>3, <1>9, <1>11, <1>12, <1>13

(* removeDuplicates keeps every key once. *)
LEMMA removeDuplicatesFacts ==
  ASSUME NEW ks \in Seq(Keys), ks # <<>>
  PROVE  /\ removeDuplicates(ks) \in Seq(Keys) /\ removeDuplicates(ks) # <<>>
         /\ ToSet(removeDuplicates(ks)) = ToSet(ks)
         /\ \A i, j \in 1..Len(removeDuplicates(ks)) : removeDuplicates(ks)[i] = removeDuplicates(ks)[j] => i = j
<1> DEFINE P == {i \in DOMAIN ks : \A j \in 1..(i - 1) : ks[j] # ks[i]}
           at == Ascending(P)
           kept == [i \in DOMAIN at |-> ks[at[i]]]
<1>0. DOMAIN ks = 1..Len(ks) /\ Len(ks) \in Nat
  OBVIOUS
<1>1. P \in SUBSET Nat /\ P \subseteq 1..Len(ks)
  BY <1>0
<1>2. IsFiniteSet(P)
  <2>1. IsFiniteSet(1..Len(ks))
    BY <1>0, FS_Interval
  <2> QED BY <2>1, <1>1, FS_Subset
<1>3. removeDuplicates(ks) = kept
  BY DEF removeDuplicates
<1>4. /\ at \in Seq(P)
      /\ Len(at) = Cardinality(P) /\ Cardinality(P) \in Nat
      /\ \A p \in P : \E i \in 1..Len(at) : at[i] = p
      /\ \A i, j \in 1..Len(at) : i < j => at[i] < at[j]
  <2> HIDE DEF P
  <2> QED BY <1>1, <1>2, AscendingFacts
<1>5. \A p, q \in P : ks[p] = ks[q] => p = q
  <2> SUFFICES ASSUME NEW p \in P, NEW q \in P, ks[p] = ks[q] PROVE p = q
    OBVIOUS
  <2>1. p \in Nat \ {0} /\ q \in Nat \ {0}
    BY <1>1
  <2>2. p < q => p \in 1..(q - 1)
    BY <2>1
  <2>3. q < p => q \in 1..(p - 1)
    BY <2>1
  <2>4. ~(p < q) /\ ~(q < p)
    BY <2>2, <2>3
  <2> QED BY <2>1, <2>4
<1>6. \A i \in 1..Len(ks) : \E p \in P : ks[p] = ks[i]
  <2> SUFFICES ASSUME NEW i \in 1..Len(ks) PROVE \E p \in P : ks[p] = ks[i]
    OBVIOUS
  <2> DEFINE I == {j \in 1..Len(ks) : ks[j] = ks[i]}
  <2>1. I \in SUBSET Nat /\ I # {}
    OBVIOUS
  <2>2. PICK p \in I : \A j \in I : p <= j
    <3> HIDE DEF I
    <3> QED BY <2>1, LeastNumber
  <2>3. p \in 1..Len(ks) /\ ks[p] = ks[i]
    BY <2>2
  <2>4. \A j \in 1..(p - 1) : ks[j] # ks[p]
    <3> SUFFICES ASSUME NEW j \in 1..(p - 1), ks[j] = ks[p] PROVE FALSE
      OBVIOUS
    <3>1. j \in 1..Len(ks) /\ j \in Nat /\ p \in Nat /\ ~(p <= j)
      BY <2>3, <1>0
    <3>2. j \in I
      BY <3>1, <2>3
    <3> QED BY <3>1, <3>2, <2>2
  <2> QED BY <2>3, <2>4, <1>0
<1> HIDE DEF P, at
<1>7. DOMAIN at = 1..Len(at) /\ Len(at) \in Nat /\ \A i \in 1..Len(at) : at[i] \in P /\ at[i] \in 1..Len(ks)
  <2>1. DOMAIN at = 1..Len(at) /\ Len(at) \in Nat /\ \A i \in 1..Len(at) : at[i] \in P
    BY <1>4
  <2> QED BY <2>1, <1>1
<1>8. kept \in Seq(Keys) /\ Len(kept) = Len(at) /\ \A i \in 1..Len(at) : kept[i] = ks[at[i]]
  BY <1>7, <1>0
<1> HIDE DEF kept
<1>9. \A i \in 1..Len(ks) : \E j \in 1..Len(at) : kept[j] = ks[i]
  BY <1>6, <1>4, <1>8
<1>10. ToSet(kept) = ToSet(ks)
  <2>1. \A x : x \in ToSet(kept) <=> \E i \in 1..Len(at) : kept[i] = x
    BY <1>8, ToSetOf
  <2>2. \A x : x \in ToSet(ks) <=> \E i \in 1..Len(ks) : ks[i] = x
    BY ToSetOf
  <2> QED BY <2>1, <2>2, <1>7, <1>8, <1>9
<1>11. kept # <<>>
  <2>1. 1 \in 1..Len(ks)
    BY EmptySeq, <1>0
  <2>2. \E i \in 1..Len(kept) : TRUE
    BY <2>1, <1>9, <1>8
  <2> QED BY <2>2
<1>12. \A i, j \in 1..Len(kept) : kept[i] = kept[j] => i = j
  <2> SUFFICES ASSUME NEW i \in 1..Len(kept), NEW j \in 1..Len(kept), kept[i] = kept[j] PROVE i = j
    OBVIOUS
  <2>1. at[i] \in P /\ at[j] \in P /\ ks[at[i]] = ks[at[j]]
    BY <1>7, <1>8
  <2>2. at[i] = at[j] /\ at[i] \in Nat
    BY <2>1, <1>5, <1>1
  <2>3. ~(i < j) /\ ~(j < i)
    BY <2>2, <1>4, <1>8
  <2>4. i \in Nat /\ j \in Nat
    BY <1>8, <1>7
  <2> QED BY <2>3, <2>4
<1> QED BY <1>3, <1>8, <1>10, <1>11, <1>12

-----------------------------------------------------------------------------
(* Waiting lists *)

(* t is s without some of its nodes. *)
Thinned(s, t) ==
  \E g \in [DOMAIN t -> DOMAIN s] :
    /\ \A i, j \in DOMAIN t : i < j => g[i] < g[j]
    /\ \A i \in DOMAIN t : t[i] = s[g[i]]

(* Only nodes of the descriptor have been taken out. *)
Erases(s, t, f) ==
  /\ Thinned(s, t)
  /\ \A i \in DOMAIN s : FdOf[s[i].conn] # f => \E j \in DOMAIN t : t[j] = s[i]

LEMMA ErasesNothing ==
  ASSUME NEW S, NEW s \in Seq(S), NEW f
  PROVE  Erases(s, s, f)
<1>1. [i \in DOMAIN s |-> i] \in [DOMAIN s -> DOMAIN s]
  OBVIOUS
<1>2. Thinned(s, s)
  BY <1>1 DEF Thinned
<1> QED BY <1>2 DEF Erases

LEMMA ErasesTwice ==
  ASSUME NEW S, NEW s \in Seq(S), NEW t \in Seq(S), NEW u \in Seq(S), NEW f,
         Erases(s, t, f), Erases(t, u, f)
  PROVE  Erases(s, u, f)
<1>1. PICK g \in [DOMAIN t -> DOMAIN s] :
        /\ \A i, j \in DOMAIN t : i < j => g[i] < g[j]
        /\ \A i \in DOMAIN t : t[i] = s[g[i]]
  BY DEF Erases, Thinned
<1>2. PICK h \in [DOMAIN u -> DOMAIN t] :
        /\ \A i, j \in DOMAIN u : i < j => h[i] < h[j]
        /\ \A i \in DOMAIN u : u[i] = t[h[i]]
  BY DEF Erases, Thinned
<1> DEFINE gh == [i \in DOMAIN u |-> g[h[i]]]
<1>3. gh \in [DOMAIN u -> DOMAIN s]
  BY <1>1, <1>2
<1>4. \A i, j \in DOMAIN u : i < j => gh[i] < gh[j]
  BY <1>1, <1>2
<1>5. \A i \in DOMAIN u : u[i] = s[gh[i]]
  BY <1>1, <1>2
<1> HIDE DEF gh
<1>6. Thinned(s, u)
  BY <1>3, <1>4, <1>5 DEF Thinned
<1>7. \A i \in DOMAIN s : FdOf[s[i].conn] # f => \E j \in DOMAIN u : u[j] = s[i]
  <2> SUFFICES ASSUME NEW i \in DOMAIN s, FdOf[s[i].conn] # f PROVE \E j \in DOMAIN u : u[j] = s[i]
    OBVIOUS
  <2>1. PICK j \in DOMAIN t : t[j] = s[i]
    BY DEF Erases
  <2>2. FdOf[t[j].conn] # f
    BY <2>1
  <2>3. PICK l \in DOMAIN u : u[l] = t[j]
    BY <2>2 DEF Erases
  <2> QED BY <2>1, <2>3
<1> QED BY <1>6, <1>7 DEF Erases

(* An order of the nodes outlives the erasure of some. *)
LEMMA ThinnedOrder ==
  ASSUME NEW S, NEW s \in Seq(S), NEW t \in Seq(S), Thinned(s, t)
  PROVE  /\ \A j \in DOMAIN t : \E i \in DOMAIN s : t[j] = s[i]
         /\ (\A i, j \in DOMAIN s : i < j => s[i].id < s[j].id)
              => \A i, j \in DOMAIN t : i < j => t[i].id < t[j].id
<1>1. PICK g \in [DOMAIN t -> DOMAIN s] :
        /\ \A i, j \in DOMAIN t : i < j => g[i] < g[j]
        /\ \A i \in DOMAIN t : t[i] = s[g[i]]
  BY DEF Thinned
<1>2. \A j \in DOMAIN t : \E i \in DOMAIN s : t[j] = s[i]
  BY <1>1
<1>3. ASSUME \A i, j \in DOMAIN s : i < j => s[i].id < s[j].id, NEW i \in DOMAIN t, NEW j \in DOMAIN t, i < j
      PROVE  t[i].id < t[j].id
  BY <1>1, <1>3
<1> QED BY <1>2, <1>3

LEMMA RemoveAtFacts ==
  ASSUME NEW S, NEW s \in Seq(S), NEW i \in DOMAIN s
  PROVE  /\ RemoveAt(s, i) \in Seq(S) /\ Len(RemoveAt(s, i)) = Len(s) - 1
         /\ DOMAIN RemoveAt(s, i) = 1..(Len(s) - 1)
         /\ \A j \in 1..(Len(s) - 1) : RemoveAt(s, i)[j] = IF j < i THEN s[j] ELSE s[j + 1]
<1> DEFINE a == SubSeq(s, 1, i - 1)
           b == SubSeq(s, i + 1, Len(s))
<1>1. i \in 1..Len(s) /\ Len(s) \in Nat
  OBVIOUS
<1>2. a \in Seq(S) /\ Len(a) = i - 1 /\ \A j \in 1..(i - 1) : a[j] = s[j]
  <2>1. \A j \in 1..(i - 1) : j \in 1..Len(s)
    BY <1>1
  <2> QED BY <1>1, <2>1
<1>3. b \in Seq(S) /\ Len(b) = Len(s) - i /\ \A j \in 1..(Len(s) - i) : b[j] = s[i + j]
  <2>1. \A j \in (i + 1)..Len(s) : j \in 1..Len(s)
    BY <1>1
  <2>2. b \in Seq(S)
    BY <1>1, <2>1
  <2>3. Len(b) = Len(s) - i
    BY <1>1
  <2>4. \A j \in 1..(Len(s) - i) : b[j] = s[i + j]
    BY <1>1
  <2> QED BY <2>2, <2>3, <2>4
<1>4. RemoveAt(s, i) = a \o b
  BY DEF RemoveAt
<1> HIDE DEF a, b
<1>5. /\ a \o b \in Seq(S) /\ Len(a \o b) = Len(s) - 1
      /\ \A j \in 1..(Len(s) - 1) : (a \o b)[j] = IF j <= i - 1 THEN a[j] ELSE b[j - (i - 1)]
  <2>1. /\ a \o b \in Seq(S) /\ Len(a \o b) = Len(a) + Len(b)
        /\ \A j \in 1..(Len(a) + Len(b)) : (a \o b)[j] = IF j <= Len(a) THEN a[j] ELSE b[j - Len(a)]
    BY <1>2, <1>3, ConcatProperties
  <2>2. Len(a) + Len(b) = Len(s) - 1
    BY <1>1, <1>2, <1>3
  <2> QED BY <2>1, <2>2, <1>2
<1>6. \A j \in 1..(Len(s) - 1) : (a \o b)[j] = IF j < i THEN s[j] ELSE s[j + 1]
  <2> SUFFICES ASSUME NEW j \in 1..(Len(s) - 1) PROVE (a \o b)[j] = IF j < i THEN s[j] ELSE s[j + 1]
    OBVIOUS
  <2>1. CASE j < i
    BY <2>1, <1>1, <1>2, <1>5
  <2>2. CASE ~(j < i)
    <3>1. j - (i - 1) \in 1..(Len(s) - i) /\ ~(j <= i - 1) /\ i + (j - (i - 1)) = j + 1
      BY <2>2, <1>1
    <3> QED BY <3>1, <2>2, <1>3, <1>5
  <2> QED BY <2>1, <2>2
<1>7. DOMAIN (a \o b) = 1..(Len(s) - 1)
  BY <1>5
<1> QED BY <1>4, <1>5, <1>6, <1>7

LEMMA ErasesOne ==
  ASSUME NEW S, NEW s \in Seq(S), NEW i \in DOMAIN s, NEW f, FdOf[s[i].conn] = f
  PROVE  Erases(s, RemoveAt(s, i), f)
<1> DEFINE t == RemoveAt(s, i)
           g == [j \in DOMAIN t |-> IF j < i THEN j ELSE j + 1]
<1>1. /\ DOMAIN t = 1..(Len(s) - 1) /\ Len(s) \in Nat /\ i \in 1..Len(s) /\ DOMAIN s = 1..Len(s)
      /\ \A j \in 1..(Len(s) - 1) : t[j] = IF j < i THEN s[j] ELSE s[j + 1]
  BY RemoveAtFacts
<1> HIDE DEF t
<1>2. g \in [DOMAIN t -> DOMAIN s]
  BY <1>1
<1>3. \A j, l \in DOMAIN t : j < l => g[j] < g[l]
  BY <1>1
<1>4. \A j \in DOMAIN t : t[j] = s[g[j]]
  BY <1>1
<1>5. Thinned(s, t)
  <2> HIDE DEF g
  <2> QED BY <1>2, <1>3, <1>4 DEF Thinned
<1>6. \A j \in DOMAIN s : FdOf[s[j].conn] # f => \E l \in DOMAIN t : t[l] = s[j]
  <2> SUFFICES ASSUME NEW j \in DOMAIN s, FdOf[s[j].conn] # f PROVE \E l \in DOMAIN t : t[l] = s[j]
    OBVIOUS
  <2>1. j # i
    OBVIOUS
  <2>2. CASE j < i
    <3>1. j \in 1..(Len(s) - 1) /\ t[j] = s[j]
      BY <2>2, <1>1
    <3> QED BY <3>1, <1>1
  <2>3. CASE j > i
    <3>1. j - 1 \in 1..(Len(s) - 1) /\ ~(j - 1 < i) /\ (j - 1) + 1 = j
      BY <2>3, <1>1
    <3>2. t[j - 1] = s[j]
      BY <3>1, <1>1
    <3> QED BY <3>1, <3>2, <1>1
  <2> QED BY <2>1, <2>2, <2>3, <1>1
<1> QED BY <1>5, <1>6 DEF Erases, t

(* EraseFirst takes out a node of the descriptor, when there is one. *)
LEMMA EraseFirstFacts ==
  ASSUME NEW S, NEW s \in Seq(S), NEW f
  PROVE  /\ EraseFirst(s, f) \in Seq(S) /\ Erases(s, EraseFirst(s, f), f)
         /\ (\A i \in DOMAIN s : FdOf[s[i].conn] # f) => EraseFirst(s, f) = s
         /\ (\E i \in DOMAIN s : FdOf[s[i].conn] = f)
              => \E i \in DOMAIN s : FdOf[s[i].conn] = f /\ EraseFirst(s, f) = RemoveAt(s, i)
<1> DEFINE I == {i \in 1..Len(s) : FdOf[s[i].conn] = f}
<1>1. DOMAIN s = 1..Len(s) /\ Len(s) \in Nat
  OBVIOUS
<1>2. EraseFirst(s, f) = IF \E i \in 1..Len(s) : FdOf[s[i].conn] = f
                         THEN RemoveAt(s, IF I # {} THEN Min(I) ELSE 0) ELSE s
  BY DEF EraseFirst, RemoveFirstMatch, SelectInSeq
<1>3. CASE \A i \in DOMAIN s : FdOf[s[i].conn] # f
  <2>1. EraseFirst(s, f) = s
    BY <1>1, <1>2, <1>3
  <2> QED BY <2>1, <1>3, ErasesNothing
<1>4. CASE \E i \in DOMAIN s : FdOf[s[i].conn] = f
  <2>1. I # {} /\ I \in SUBSET Nat
    BY <1>1, <1>4
  <2>2. Min(I) \in I
    <3> HIDE DEF I
    <3> QED BY <2>1, MinNumber
  <2>3. EraseFirst(s, f) = RemoveAt(s, Min(I))
    <3> HIDE DEF I
    <3> QED BY <2>1, <1>1, <1>2, <1>4
  <2>4. Min(I) \in DOMAIN s /\ FdOf[s[Min(I)].conn] = f
    BY <2>2, <1>1
  <2> HIDE DEF I
  <2>5. EraseFirst(s, f) \in Seq(S)
    BY <2>3, <2>4, RemoveAtFacts
  <2>6. Erases(s, EraseFirst(s, f), f)
    BY <2>3, <2>4, ErasesOne
  <2> QED BY <1>4, <2>3, <2>4, <2>5, <2>6
<1> QED BY <1>3, <1>4

(* When the descriptor had one node, no node of it is left. *)
LEMMA RemoveOnly ==
  ASSUME NEW S, NEW s \in Seq(S), NEW i \in DOMAIN s, NEW f,
         \A j \in DOMAIN s : FdOf[s[j].conn] = f => j = i
  PROVE  \A j \in DOMAIN RemoveAt(s, i) : FdOf[RemoveAt(s, i)[j].conn] # f
<1> SUFFICES ASSUME NEW j \in DOMAIN RemoveAt(s, i) PROVE FdOf[RemoveAt(s, i)[j].conn] # f
  OBVIOUS
<1>0. /\ DOMAIN RemoveAt(s, i) = 1..(Len(s) - 1)
      /\ \A l \in 1..(Len(s) - 1) : RemoveAt(s, i)[l] = IF l < i THEN s[l] ELSE s[l + 1]
  BY RemoveAtFacts
<1>1. /\ j \in 1..(Len(s) - 1) /\ i \in 1..Len(s) /\ DOMAIN s = 1..Len(s) /\ Len(s) \in Nat
      /\ RemoveAt(s, i)[j] = IF j < i THEN s[j] ELSE s[j + 1]
  BY <1>0
<1>2. CASE j < i
  <2>1. j \in DOMAIN s /\ j # i
    BY <1>1, <1>2
  <2> QED BY <2>1, <1>1, <1>2
<1>3. CASE ~(j < i)
  <2>1. j + 1 \in DOMAIN s /\ j + 1 # i
    BY <1>1, <1>3
  <2> QED BY <2>1, <1>1, <1>3
<1> QED BY <1>2, <1>3

(* emplace_back puts one node into the waiting list of every key named. *)
LEMMA QueueFacts ==
  ASSUME NEW ks \in Seq(Keys), ks # <<>>, NEW k \in Keys, NEW n \in Node, waiting[k] \in Seq(Node)
  PROVE  /\ k \in ToSet(ks) => Queue(k, removeDuplicates(ks), n) = Append(waiting[k], n)
         /\ k \notin ToSet(ks) => Queue(k, removeDuplicates(ks), n) = waiting[k]
<1> DEFINE kept == removeDuplicates(ks)
           I == {i \in DOMAIN kept : kept[i] = k}
           new == [j \in 1..Cardinality(I) |-> n]
<1>1. /\ kept \in Seq(Keys) /\ ToSet(kept) = ToSet(ks) /\ DOMAIN kept = 1..Len(kept)
      /\ \A i, j \in 1..Len(kept) : kept[i] = kept[j] => i = j
  BY removeDuplicatesFacts
<1>2. Queue(k, kept, n) = waiting[k] \o new
  BY DEF Queue
<1> HIDE DEF kept
<1>3. CASE k \in ToSet(ks)
  <2>1. PICK i \in 1..Len(kept) : kept[i] = k
    BY <1>1, <1>3, ToSetOf
  <2>2. I = {i}
    BY <2>1, <1>1
  <2>3. Cardinality(I) = 1
    BY <2>2, FS_Singleton
  <2>4. new = <<n>>
    <3> HIDE DEF I
    <3> QED BY <2>3
  <2>5. waiting[k] \o <<n>> = Append(waiting[k], n)
    BY AppendIsConcat
  <2> HIDE DEF new
  <2> QED BY <1>2, <1>3, <2>4, <2>5 DEF kept
<1>4. CASE k \notin ToSet(ks)
  <2>1. I = {}
    BY <1>1, <1>4 DEF ToSet
  <2>2. Cardinality(I) = 0
    BY <2>1, FS_EmptySet
  <2>3. new = <<>>
    <3> HIDE DEF I
    <3> QED BY <2>2
  <2>4. waiting[k] \o <<>> = waiting[k]
    BY ConcatEmptySeq
  <2> HIDE DEF new
  <2> QED BY <1>2, <1>4, <2>3, <2>4 DEF kept
<1> QED BY <1>3, <1>4

-----------------------------------------------------------------------------
(* Lists and the binlog *)

LEMMA PutType ==
  ASSUME NEW s \in Seq(Elems), NEW side, NEW e \in Elems
  PROVE  Put(s, side, e) \in Seq(Elems) /\ Put(s, side, e) # <<>>
BY DEF Put

LEMMA RestType ==
  ASSUME NEW s \in Seq(Elems), s # <<>>, NEW side
  PROVE  Rest(s, side) \in Seq(Elems) /\ Len(Rest(s, side)) = Len(s) - 1
<1>1. CASE side = "left"
  BY <1>1, HeadTailProperties DEF Rest
<1>2. CASE side # "left"
  <2>1. Len(s) \in Nat \ {0}
    BY EmptySeq
  <2>2. \A i \in 1..(Len(s) - 1) : s[i] \in Elems
    BY <2>1
  <2>3. Front(s) \in Seq(Elems) /\ Len(Front(s)) = Len(s) - 1
    <3>1. Front(s) = SubSeq(s, 1, Len(s) - 1)
      BY DEF Front
    <3>2. 1 \in 1..(Len(s) + 1) /\ Len(s) - 1 \in (1 - 1)..Len(s) /\ (Len(s) - 1) - 1 + 1 = Len(s) - 1
      BY <2>1
    <3>3. /\ SubSeq(s, 1, Len(s) - 1) \in Seq(Elems)
          /\ Len(SubSeq(s, 1, Len(s) - 1)) = (Len(s) - 1) - 1 + 1
      BY <3>2, SubSeqProperties
    <3> QED BY <3>1, <3>2, <3>3
  <2> QED BY <1>2, <2>3 DEF Rest
<1> QED BY <1>1, <1>2

LEMMA LastType ==
  ASSUME NEW s \in Seq(Elems), s # <<>>
  PROVE  Last(s) \in Elems
<1>1. Len(s) \in Nat \ {0}
  BY EmptySeq
<1> QED BY <1>1 DEF Last

LEMMA EffectType ==
  ASSUME NEW s \in Seq(Elems), NEW op \in Op
  PROVE  Effect(s, op) \in Seq(Elems)
BY PutType, RestType DEF Effect, Op

(* Without records the list is what it was. *)
LEMMA ReplayNothing ==
  ASSUME NEW k, NEW s \in Seq(Elems), NEW t
  PROVE  Replay(k, s, t, <<>>) <=> s = t
<1>1. Len(<<>>) = 0
  OBVIOUS
<1>2. ASSUME Replay(k, s, t, <<>>) PROVE s = t
  BY <1>1, <1>2 DEF Replay
<1>3. ASSUME s = t PROVE Replay(k, s, t, <<>>)
  <2> DEFINE st == [i \in 1..1 |-> s]
  <2>1. st \in [1..1 -> Seq(Elems)] /\ st[1] = s
    OBVIOUS
  <2> HIDE DEF st
  <2> QED BY <1>1, <1>3, <2>1 DEF Replay
<1> QED BY <1>2, <1>3

(* One more record changes the list once more. *)
LEMMA ReplayMore ==
  ASSUME NEW k, NEW s \in Seq(Elems), NEW t \in Seq(Elems), NEW u \in Seq(Elems), NEW o \in Seq(Op), NEW op \in Op,
         Replay(k, s, t, o), u = EffectAt(k, t, op)
  PROVE  Replay(k, s, u, Append(o, op))
<1> DEFINE n == Len(o)
           o2 == Append(o, op)
<1>1. n \in Nat /\ Len(o2) = n + 1 /\ o2[n + 1] = op /\ \A i \in 1..n : o2[i] = o[i]
  BY AppendProperties
<1> HIDE DEF o2, n
<1>2. PICK st \in [1..(n + 1) -> Seq(Elems)] :
        /\ st[1] = s /\ st[n + 1] = t
        /\ \A i \in 1..n : st[i + 1] = EffectAt(k, st[i], o[i])
  BY DEF Replay, n
<1> DEFINE new == [i \in 1..((n + 1) + 1) |-> IF i = (n + 1) + 1 THEN u ELSE st[i]]
<1>3. new \in [1..((n + 1) + 1) -> Seq(Elems)]
  BY <1>1, <1>2
<1>4. new[1] = s /\ new[(n + 1) + 1] = u
  BY <1>1, <1>2
<1>5. \A i \in 1..(n + 1) : new[i + 1] = EffectAt(k, new[i], o2[i])
  <2> SUFFICES ASSUME NEW i \in 1..(n + 1) PROVE new[i + 1] = EffectAt(k, new[i], o2[i])
    OBVIOUS
  <2>1. CASE i = n + 1
    <3>1. new[i] = t /\ new[i + 1] = u /\ o2[i] = op
      BY <2>1, <1>1, <1>2
    <3> HIDE DEF new
    <3> QED BY <3>1
  <2>2. CASE i \in 1..n
    <3>1. new[i] = st[i] /\ new[i + 1] = st[i + 1] /\ o2[i] = o[i]
      BY <2>2, <1>1, <1>2
    <3>2. st[i + 1] = EffectAt(k, st[i], o[i])
      BY <2>2, <1>2
    <3> HIDE DEF new
    <3> QED BY <3>1, <3>2
  <2> QED BY <2>1, <2>2, <1>1
<1> HIDE DEF new
<1>6. Replay(k, s, u, o2)
  <2>1. Len(o2) = n + 1
    BY <1>1
  <2> QED BY <2>1, <1>3, <1>4, <1>5 DEF Replay
<1> QED BY <1>6 DEF o2

(* What is left when the first record is executed. *)
LEMMA ReplayRest ==
  ASSUME NEW k, NEW s \in Seq(Elems), NEW t \in Seq(Elems), NEW o \in Seq(Op), o # <<>>, Replay(k, s, t, o)
  PROVE  /\ EffectAt(k, s, Head(o)) \in Seq(Elems)
         /\ Replay(k, EffectAt(k, s, Head(o)), t, Tail(o))
<1> DEFINE n == Len(o)
           o2 == Tail(o)
<1>1. n \in Nat \ {0} /\ Len(o2) = n - 1 /\ Head(o) = o[1] /\ \A i \in 1..(n - 1) : o2[i] = o[i + 1]
  BY EmptySeq, HeadTailProperties
<1> HIDE DEF o2, n
<1>2. PICK st \in [1..(n + 1) -> Seq(Elems)] :
        /\ st[1] = s /\ st[n + 1] = t
        /\ \A i \in 1..n : st[i + 1] = EffectAt(k, st[i], o[i])
  BY DEF Replay, n
<1> DEFINE new == [i \in 1..n |-> st[i + 1]]
<1>3. new \in [1..n -> Seq(Elems)] /\ new[1] = st[2] /\ new[n] = t
  BY <1>1, <1>2
<1>4. st[2] = EffectAt(k, s, Head(o)) /\ st[2] \in Seq(Elems)
  <2>1. 1 \in 1..n /\ 1 + 1 = 2 /\ 2 \in 1..(n + 1)
    BY <1>1
  <2> QED BY <2>1, <1>1, <1>2
<1>5. \A i \in 1..(n - 1) : new[i + 1] = EffectAt(k, new[i], o2[i])
  <2> SUFFICES ASSUME NEW i \in 1..(n - 1) PROVE new[i + 1] = EffectAt(k, new[i], o2[i])
    OBVIOUS
  <2>1. i + 1 \in 1..n /\ i \in 1..n
    BY <1>1
  <2>2. new[i] = st[i + 1] /\ new[i + 1] = st[(i + 1) + 1] /\ o2[i] = o[i + 1]
    BY <2>1, <1>1
  <2>3. st[(i + 1) + 1] = EffectAt(k, st[i + 1], o[i + 1])
    BY <2>1, <1>2
  <2> HIDE DEF new
  <2> QED BY <2>2, <2>3
<1> HIDE DEF new
<1>6. Replay(k, EffectAt(k, s, Head(o)), t, o2)
  <2>1. Len(o2) + 1 = n /\ Len(o2) = n - 1
    BY <1>1
  <2> QED BY <2>1, <1>3, <1>4, <1>5 DEF Replay
<1> QED BY <1>4, <1>6 DEF o2

-----------------------------------------------------------------------------
(* Actors and commands *)

LEMMA ActorFacts ==
  /\ Conns \subseteq Actors /\ Keys \subseteq Actors /\ "cron" \in Actors /\ "acl" \in Actors /\ Admins \subseteq Actors
  /\ \A c \in Conns : c \notin Keys /\ c \notin Admins
  /\ \A k \in Keys : k \notin Conns /\ k \notin Admins /\ k # "block" /\ k # "rw" /\ k \in Locks
  /\ "block" \in Locks /\ "rw" \in Locks /\ Keys \subseteq Locks
  /\ \A a \in Admins : a = "cron" \/ a = "acl"
  /\ \A a \in Actors : a \in Conns \/ a \in Keys \/ a \in Admins
<1>1. Conns \cap Keys = {} /\ Admins \cap (Conns \cup Keys) = {} /\ {"block", "rw"} \cap Keys = {}
  BY BlockingAssumption
<1> QED BY <1>1 DEF Actors, Admins, Locks

LEMMA CommandFacts ==
  ASSUME NEW m \in Command
  PROVE  /\ m.keys \in Seq(Keys) /\ m.keys # <<>> /\ ToSet(m.keys) \subseteq Keys
         /\ m.side \in {"left", "right"} /\ m.timed \in BOOLEAN
         /\ m.op \in {"pop", "push", "exec", "move"}
         /\ m.op = "pop" => m.side \in Sides
         /\ m.op \in {"push", "exec"} => m.keys[1] \in Keys /\ m.keys = <<m.keys[1]>>
         /\ m.op = "move" => m.keys[1] \in Keys /\ m.keys[2] \in Keys /\ m.keys = <<m.keys[1], m.keys[2]>>
<1>0. Sides \subseteq {"left", "right"} /\ Timeouts \subseteq BOOLEAN /\ KeyArgs \subseteq Seq(Keys) \ {<<>>}
  BY BlockingAssumption
<1>1. CASE m \in Pops
  <2>1. m.keys \in KeyArgs /\ m.op = "pop" /\ m.side \in Sides /\ m.timed \in Timeouts
    BY <1>1 DEF Pops
  <2>2. m.keys \in Seq(Keys) /\ m.keys # <<>> /\ m.side \in {"left", "right"} /\ m.timed \in BOOLEAN
    BY <2>1, <1>0
  <2>3. ToSet(m.keys) \subseteq Keys
    BY <2>2, ToSetOf
  <2> QED BY <2>1, <2>2, <2>3
<1>2. CASE m \in Pushes
  <2>1. PICK k \in Keys : m.keys = <<k>>
    BY <1>2 DEF Pushes
  <2>2. m.op \in {"push", "exec"} /\ m.side \in Sides /\ m.timed = FALSE
    BY <1>2 DEF Pushes
  <2>3. m.keys \in Seq(Keys) /\ m.keys # <<>> /\ m.keys[1] = k
    BY <2>1
  <2> QED BY <2>1, <2>2, <2>3, <1>0, ToSetOf
<1>3. CASE m \in Moves
  <2>1. m.keys \in KeyArgs /\ m.keys \in Keys \X Keys /\ m.op = "move" /\ m.side = "left" /\ m.timed = FALSE
    BY <1>3 DEF Moves
  <2>2. m.keys[1] \in Keys /\ m.keys[2] \in Keys /\ m.keys = <<m.keys[1], m.keys[2]>>
    BY <2>1
  <2> QED BY <2>1, <2>2, <1>0, ToSetOf
<1> QED BY <1>1, <1>2, <1>3 DEF Command

(* What the locks of an actor are. *)
LEMMA WantsFacts ==
  ASSUME TypeOK, RunInv, NEW a \in Actors, a \in Conns => pc[a] # "idle"
  PROVE  /\ Wants(a) \in Seq(Locks) /\ Wants(a) # <<>> /\ DOMAIN Wants(a) = 1..Len(Wants(a)) /\ Len(Wants(a)) \in Nat \ {0}
         /\ a \in Conns => ToSet(Wants(a)) = ToSet(cmd[a].keys) /\ ToSet(Wants(a)) \subseteq Keys
         /\ a \in Keys => Wants(a) = <<a, "block">> /\ ToSet(Wants(a)) = {a, "block"}
         /\ a = "cron" => Wants(a) = <<"rw", "block">> /\ ToSet(Wants(a)) = {"rw", "block"}
         /\ a = "acl" => Wants(a) = <<"block", "rw">> /\ ToSet(Wants(a)) = {"rw", "block"}
<1>0. \A x, y : ToSet(<<x, y>>) = {x, y}
  BY DEF ToSet
<1>1. CASE a \in Conns
  <2>1. cmd[a] \in Command
    BY <1>1 DEF RunInv
  <2>2. cmd[a].keys \in Seq(Keys) /\ cmd[a].keys # <<>> /\ ToSet(cmd[a].keys) \subseteq Keys
    BY <2>1, CommandFacts
  <2>3. Wants(a) = RecordLocks(cmd[a].keys)
    BY <1>1 DEF Wants
  <2>4. Wants(a) \in Seq(Keys) /\ Wants(a) # <<>> /\ ToSet(Wants(a)) = ToSet(cmd[a].keys)
    BY <2>2, <2>3, RecordLocksFacts
  <2>5. Wants(a) \in Seq(Locks)
    BY <2>4, ActorFacts, SeqMonotonic
  <2>6. a \notin Keys /\ a # "cron" /\ a # "acl"
    BY <1>1, ActorFacts DEF Admins
  <2> QED BY <1>1, <2>2, <2>4, <2>5, <2>6, EmptySeq
<1>2. CASE a \in Keys
  <2>1. a \notin Conns /\ a # "cron" /\ a # "acl" /\ a \in Locks /\ "block" \in Locks
    BY <1>2, ActorFacts DEF Admins
  <2>2. Wants(a) = <<a, "block">>
    BY <1>2, <2>1 DEF Wants, ServeLocks
  <2> QED BY <2>1, <2>2, <1>0
<1>3. CASE a = "cron"
  <2>1. a \notin Conns /\ a \notin Keys /\ "rw" \in Locks /\ "block" \in Locks
    BY <1>3, ActorFacts DEF Admins
  <2>2. Wants(a) = <<"rw", "block">>
    BY <1>3, <2>1 DEF Wants
  <2>3. Wants(a) \in Seq(Locks) /\ DOMAIN Wants(a) = 1..Len(Wants(a)) /\ Len(Wants(a)) \in Nat \ {0}
    <3>1. <<"rw", "block">> \in Seq(Locks) /\ Len(<<"rw", "block">>) = 2 /\ DOMAIN <<"rw", "block">> = 1..2
      BY <2>1
    <3> QED BY <2>2, <3>1
  <2>4. ToSet(Wants(a)) = {"rw", "block"} /\ a # "acl" /\ Wants(a) # <<>>
    BY <1>3, <2>2, <1>0
  <2> QED BY <1>3, <2>1, <2>2, <2>3, <2>4, Zenon
<1>4. CASE a = "acl"
  <2>1. a \notin Conns /\ a \notin Keys /\ "rw" \in Locks /\ "block" \in Locks
    BY <1>4, ActorFacts DEF Admins
  <2>2. Wants(a) = <<"block", "rw">>
    BY <1>4, <2>1 DEF Wants
  <2>3. Wants(a) \in Seq(Locks) /\ DOMAIN Wants(a) = 1..Len(Wants(a)) /\ Len(Wants(a)) \in Nat \ {0}
    <3>1. <<"block", "rw">> \in Seq(Locks) /\ Len(<<"block", "rw">>) = 2 /\ DOMAIN <<"block", "rw">> = 1..2
      BY <2>1
    <3> QED BY <2>2, <3>1
  <2>4. ToSet(Wants(a)) = {"rw", "block"} /\ a # "cron" /\ Wants(a) # <<>>
    <3>1. ToSet(Wants(a)) = {"block", "rw"}
      BY <2>2, <1>0
    <3> QED BY <1>4, <2>2, <3>1
  <2> QED BY <1>4, <2>1, <2>2, <2>3, <2>4, Zenon
<1> QED BY <1>1, <1>2, <1>3, <1>4, ActorFacts

(* The lock an actor waits for is the next of its locks. *)
LEMMA NextLock ==
  ASSUME TypeOK, RunInv, NEW a \in Actors, pc[a] = "lock", NEW n \in Nat, Between(a, n)
  PROVE  /\ n \in 0..(Len(Wants(a)) - 1) /\ n + 1 \in 1..Len(Wants(a))
         /\ plan[a] # <<>> /\ Head(plan[a]) = Wants(a)[n + 1] /\ Head(plan[a]) \in Locks
         /\ Len(plan[a]) = Len(Wants(a)) - n
         /\ Tail(plan[a]) \in Seq(Locks)
         /\ n + 1 < Len(Wants(a)) => Tail(plan[a]) = SubSeq(Wants(a), (n + 1) + 1, Len(Wants(a)))
<1> DEFINE w == Wants(a)
           l == Len(w)
<1>1. w \in Seq(Locks) /\ l \in Nat \ {0} /\ DOMAIN w = 1..l
  BY WantsFacts
<1>2. n \in 0..(l - 1) /\ plan[a] = SubSeq(w, n + 1, l)
  BY DEF Between
<1> HIDE DEF w, l
<1>3. n + 1 \in Int /\ l \in Int /\ n + 1 <= l /\ n + 1 \in 1..l
  BY <1>1, <1>2
<1>4. \A i \in (n + 1)..l : w[i] \in Locks
  BY <1>1, <1>2
<1>5. /\ plan[a] \in Seq(Locks) /\ Len(plan[a]) = l - (n + 1) + 1
      /\ \A i \in 1..(l - (n + 1) + 1) : plan[a][i] = w[n + 1 + i - 1]
  BY <1>2, <1>3, <1>4, SubSeqProperties
<1>6. Len(plan[a]) = l - n /\ Len(plan[a]) > 0 /\ plan[a][1] = w[n + 1]
  BY <1>1, <1>2, <1>5
<1>7. plan[a] # <<>> /\ Head(plan[a]) = w[n + 1] /\ Tail(plan[a]) \in Seq(Locks)
  BY <1>5, <1>6
<1>8. n + 1 < l => Tail(plan[a]) = SubSeq(w, (n + 1) + 1, l)
  <2> SUFFICES ASSUME n + 1 < l PROVE Tail(plan[a]) = SubSeq(w, (n + 1) + 1, l)
    OBVIOUS
  <2> DEFINE t == Tail(plan[a])
             u == SubSeq(w, (n + 1) + 1, l)
  <2>1. t \in Seq(Locks) /\ Len(t) = l - n - 1 /\ \A i \in 1..(l - n - 1) : t[i] = plan[a][i + 1]
    BY <1>1, <1>2, <1>5, <1>6, <1>7
  <2>2. \A i \in 1..(l - n - 1) : t[i] = w[n + 1 + i]
    BY <2>1, <1>1, <1>2, <1>5
  <2>3. \A i \in ((n + 1) + 1)..l : w[i] \in Locks
    BY <1>1, <1>2
  <2>4. /\ u \in Seq(Locks) /\ Len(u) = l - ((n + 1) + 1) + 1
        /\ \A i \in 1..(l - ((n + 1) + 1) + 1) : u[i] = w[(n + 1) + 1 + i - 1]
    BY <1>1, <1>2, <2>3, SubSeqProperties
  <2>5. Len(u) = l - n - 1 /\ \A i \in 1..(l - n - 1) : u[i] = w[n + 1 + i]
    BY <2>4, <1>1, <1>2
  <2> HIDE DEF t, u
  <2>6. Len(t) = Len(u) /\ \A i \in 1..Len(t) : t[i] = u[i]
    BY <2>1, <2>2, <2>5
  <2>7. t = u
    BY <2>1, <2>4, <2>6, SeqEqual
  <2> QED BY <2>7 DEF t, u
<1> QED BY <1>1, <1>2, <1>3, <1>4, <1>6, <1>7, <1>8 DEF w, l

-----------------------------------------------------------------------------
(* Types *)

(* What the types of two groups of variables are. *)
ListTypes == list \in [Keys -> Seq(Elems)] /\ logged \in [Keys -> Seq(Elems)] /\ pushed \in Nat /\ errors \in 0..MaxErrors
MapTypes ==
  /\ waiting \in [Keys -> Seq(Node)] /\ keysOf \in [Fds -> Seq(Keys)]
  /\ owed \subseteq Node /\ serial \in Nat
  /\ pipelined \subseteq Conns /\ late \subseteq Conns /\ dangling \in BOOLEAN
RunTypes ==
  /\ cmd \in [Conns -> Command \cup {NoCommand}]
  /\ pc \in [Actors -> {"idle", "lock", "do", "log", "serve"}]
  /\ plan \in [Actors -> Seq(Locks)] /\ held \in [Actors -> SUBSET Locks]
OtherTypes ==
  /\ pending \in [Keys -> Nat]
  /\ life \in [Conns -> {"none", "open", "check", "clean", "waiting", "ready", "closed"}]
  /\ killed \subseteq Conns
  /\ ops \in [Actors -> Seq(Op)]
  /\ sent \in 0..MaxCommands

LEMMA Types ==
  /\ TypeOK <=> ListTypes /\ MapTypes /\ RunTypes /\ OtherTypes
  /\ TypeOK' <=> ListTypes' /\ MapTypes' /\ RunTypes' /\ OtherTypes'
BY DEF TypeOK, ListTypes, MapTypes, RunTypes, OtherTypes

LEMMA Bounds == MaxCommands \in Nat /\ MaxPush \in Nat /\ MaxErrors \in Nat
BY BlockingAssumption

LEMMA TypeInit == Init => TypeOK
<1> SUFFICES ASSUME Init PROVE TypeOK
  OBVIOUS
<1>1. ListTypes
  BY Bounds DEF Init, ListTypes
<1>2. MapTypes
  <2>1. dangling \in BOOLEAN
    BY DEF Init
  <2>2. waiting \in [Keys -> Seq(Node)] /\ keysOf \in [Fds -> Seq(Keys)]
    BY DEF Init
  <2>3. owed \subseteq Node /\ serial \in Nat /\ pipelined \subseteq Conns /\ late \subseteq Conns
    BY DEF Init
  <2> QED BY <2>1, <2>2, <2>3 DEF MapTypes
<1>3. RunTypes
  BY DEF Init, RunTypes
<1>4. OtherTypes
  BY Bounds DEF Init, OtherTypes
<1> QED BY <1>1, <1>2, <1>3, <1>4, Types

(* Groups of variables that a step leaves alone keep their types. *)
LEMMA ListsKept == ListTypes /\ UNCHANGED lists => ListTypes'
BY DEF lists, ListTypes

LEMMA MapsKept == MapTypes /\ UNCHANGED maps => MapTypes'
BY DEF maps, MapTypes

LEMMA RunKept == RunTypes /\ UNCHANGED run => RunTypes'
BY DEF run, RunTypes

(* Start, TakeLock and Finish. *)
LEMMA StartType ==
  ASSUME RunTypes, NEW a \in Actors, NEW locks \in Seq(Locks), Start(a, locks),
         cmd' \in [Conns -> Command \cup {NoCommand}]
  PROVE  RunTypes'
BY DEF RunTypes, Start

LEMMA FinishType ==
  ASSUME RunTypes, NEW a \in Actors, NEW locks, NEW next \in {"idle", "log", "serve"}, Finish(a, locks, next)
  PROVE  RunTypes'
<1>1. cmd' \in [Conns -> Command \cup {NoCommand}]
  BY DEF RunTypes, Finish
<1>2. pc' \in [Actors -> {"idle", "lock", "do", "log", "serve"}]
  BY DEF RunTypes, Finish
<1>3. held' \in [Actors -> SUBSET Locks]
  BY DEF RunTypes, Finish
<1> QED BY <1>1, <1>2, <1>3 DEF RunTypes, Finish

LEMMA TakeLockType ==
  ASSUME TypeOK, RunInv, LockInv, NEW a \in Actors, TakeLock(a)
  PROVE  TypeOK'
<1>1. PICK n \in Nat : Between(a, n)
  BY DEF TakeLock, LockInv, Holds
<1>2. Head(plan[a]) \in Locks /\ Tail(plan[a]) \in Seq(Locks)
  BY <1>1, NextLock DEF TakeLock
<1>3. RunTypes'
  <2>1. held' \in [Actors -> SUBSET Locks]
    BY <1>2, Types DEF RunTypes, TakeLock
  <2>2. plan' \in [Actors -> Seq(Locks)]
    BY <1>2, Types DEF RunTypes, TakeLock
  <2>3. pc' \in [Actors -> {"idle", "lock", "do", "log", "serve"}]
    BY Types DEF RunTypes, TakeLock
  <2> QED BY <2>1, <2>2, <2>3, Types DEF RunTypes, TakeLock
<1>4. OtherTypes'
  BY Types DEF OtherTypes, TakeLock, conn
<1> QED BY <1>3, <1>4, Types, ListsKept, MapsKept DEF TakeLock

LEMMA FdFacts ==
  /\ \A c \in Conns : FdOf[c] \in Fds
  /\ \A n \in Node : n.conn \in Conns /\ FdOf[n.conn] \in Fds /\ n.id \in Nat /\ n.keys \subseteq Keys
BY DEF Fds, Node

(* CleanWaitNodeOfUnBlockedBlrConn erases nodes of its descriptor only. *)
LEMMA CleanFacts ==
  ASSUME NEW w \in [Keys -> Seq(Node)], NEW f \in Fds
  PROVE  /\ CleanWaitNode(w, f) \in [Keys -> Seq(Node)]
         /\ \A k \in Keys : Erases(w[k], CleanWaitNode(w, f)[k], f)
<1>1. \A k \in Keys : CleanWaitNode(w, f)[k] = IF Contains(keysOf[f], k) THEN EraseFirst(w[k], f) ELSE w[k]
  BY DEF CleanWaitNode
<1>2. \A k \in Keys : w[k] \in Seq(Node)
  OBVIOUS
<1>3. \A k \in Keys : EraseFirst(w[k], f) \in Seq(Node) /\ Erases(w[k], EraseFirst(w[k], f), f)
  BY <1>2, EraseFirstFacts
<1>4. \A k \in Keys : Erases(w[k], w[k], f)
  BY <1>2, ErasesNothing
<1>5. CleanWaitNode(w, f) \in [Keys -> Seq(Node)]
  BY <1>2, <1>3 DEF CleanWaitNode
<1>6. \A k \in Keys : Erases(w[k], CleanWaitNode(w, f)[k], f)
  BY <1>1, <1>3, <1>4
<1> QED BY <1>5, <1>6

(* So does the answer to a blocked command. *)
LEMMA UnblockFacts ==
  ASSUME MapTypes, NEW k \in Keys, NEW i \in DOMAIN waiting[k], Unblock(k, i),
         NEW n, n = waiting[k][i], NEW f, f = FdOf[n.conn]
  PROVE  /\ MapTypes' /\ n \in Node /\ f \in Fds /\ waiting[k] \in Seq(Node)
         /\ \A q \in Keys : Erases(waiting[q], waiting'[q], f)
         /\ keysOf' = [keysOf EXCEPT ![f] = <<>>] /\ owed' = owed \ {n}
         /\ UNCHANGED <<serial, pipelined, late>>
         /\ waiting' = CleanWaitNode([waiting EXCEPT ![k] = RemoveAt(@, i)], f)
<1> DEFINE rest == [waiting EXCEPT ![k] = RemoveAt(@, i)]
<1>1. waiting \in [Keys -> Seq(Node)] /\ waiting[k] \in Seq(Node) /\ n \in Node
  BY DEF MapTypes
<1>2. f \in Fds
  BY <1>1, FdFacts
<1>3. RemoveAt(waiting[k], i) \in Seq(Node) /\ Erases(waiting[k], RemoveAt(waiting[k], i), f)
  BY <1>1, RemoveAtFacts, ErasesOne
<1>4. rest \in [Keys -> Seq(Node)] /\ rest[k] = RemoveAt(waiting[k], i) /\ \A q \in Keys : q # k => rest[q] = waiting[q]
  BY <1>1, <1>3
<1>5. waiting' = CleanWaitNode(rest, f) /\ keysOf' = [keysOf EXCEPT ![f] = <<>>] /\ owed' = owed \ {n}
  BY DEF Unblock
<1>6. dangling' \in BOOLEAN /\ UNCHANGED <<serial, pipelined, late>>
  BY DEF Unblock
<1> HIDE DEF rest
<1>7. waiting' \in [Keys -> Seq(Node)] /\ \A q \in Keys : Erases(rest[q], waiting'[q], f)
  BY <1>2, <1>4, <1>5, CleanFacts
<1>8. \A q \in Keys : Erases(waiting[q], waiting'[q], f)
  <2> SUFFICES ASSUME NEW q \in Keys PROVE Erases(waiting[q], waiting'[q], f)
    OBVIOUS
  <2>1. waiting[q] \in Seq(Node) /\ rest[q] \in Seq(Node) /\ waiting'[q] \in Seq(Node) /\ Erases(rest[q], waiting'[q], f)
    BY <1>1, <1>4, <1>7
  <2>2. CASE q = k
    <3>1. Erases(waiting[q], rest[q], f)
      BY <2>2, <1>3, <1>4
    <3> QED BY <2>1, <3>1, ErasesTwice
  <2>3. CASE q # k
    BY <2>1, <2>3, <1>4
  <2> QED BY <2>2, <2>3
<1>9. keysOf' \in [Fds -> Seq(Keys)] /\ owed' \subseteq Node
  <2>1. <<>> \in Seq(Keys)
    OBVIOUS
  <2>2. keysOf' \in [Fds -> Seq(Keys)]
    BY <1>5, <2>1 DEF MapTypes
  <2> QED BY <1>5, <2>2 DEF MapTypes
<1>10. MapTypes'
  BY <1>6, <1>7, <1>9 DEF MapTypes
<1> QED BY <1>1, <1>2, <1>5, <1>6, <1>8, <1>10 DEF rest

(* What a blocked command leaves in the maps. *)
LEMMA BlockFacts ==
  ASSUME MapTypes, NEW c \in Conns, cmd[c] \in Command, cmd[c].op = "pop", BlockThisClient(c), NEW n,
         n = [id |-> serial + 1, conn |-> c, keys |-> ToSet(cmd[c].keys), side |-> cmd[c].side, timed |-> cmd[c].timed]
  PROVE  /\ MapTypes' /\ n \in Node /\ FdOf[c] \in Fds
         /\ n.id = serial + 1 /\ n.conn = c /\ n.keys = ToSet(cmd[c].keys) /\ n.keys \subseteq Keys /\ n.keys # {}
         /\ \A k \in n.keys : waiting'[k] = Append(waiting[k], n)
         /\ \A k \in Keys \ n.keys : waiting'[k] = waiting[k]
         /\ keysOf' = [keysOf EXCEPT ![FdOf[c]] = IF @ = <<>> THEN removeDuplicates(cmd[c].keys) ELSE @]
         /\ removeDuplicates(cmd[c].keys) # <<>> /\ ToSet(removeDuplicates(cmd[c].keys)) = n.keys
         /\ serial' = serial + 1 /\ UNCHANGED dangling
         /\ owed' = IF life[c] \in {"open", "check", "clean"} THEN owed \cup {n} ELSE owed
         /\ pipelined' = IF \E k \in Keys : NodesOf(waiting, k, c) # {} THEN pipelined \cup {c} ELSE pipelined
         /\ late' = IF life[c] \in {"waiting", "ready", "closed"} THEN late \cup {c} ELSE late
<1> DEFINE ks == cmd[c].keys
           kept == removeDuplicates(ks)
<1>1. ks \in Seq(Keys) /\ ks # <<>> /\ ToSet(ks) \subseteq Keys /\ cmd[c].side \in Sides /\ cmd[c].timed \in BOOLEAN
  BY CommandFacts
<1>2. kept \in Seq(Keys) /\ kept # <<>> /\ ToSet(kept) = ToSet(ks)
  BY <1>1, removeDuplicatesFacts
<1>3. n \in Node /\ n.id = serial + 1 /\ n.conn = c /\ n.keys = ToSet(ks)
  BY <1>1 DEF Node, MapTypes
<1>4. n.keys # {}
  <2>1. ks[1] \in ToSet(ks)
    BY <1>1, EmptySeq, ToSetOf
  <2> QED BY <1>3, <2>1
<1>5. /\ waiting' = [k \in Keys |-> Queue(k, kept, n)]
      /\ keysOf' = [keysOf EXCEPT ![FdOf[c]] = IF @ = <<>> THEN kept ELSE @]
      /\ serial' = serial + 1 /\ UNCHANGED dangling
      /\ owed' = IF life[c] \in {"open", "check", "clean"} THEN owed \cup {n} ELSE owed
      /\ pipelined' = IF \E k \in Keys : NodesOf(waiting, k, c) # {} THEN pipelined \cup {c} ELSE pipelined
      /\ late' = IF life[c] \in {"waiting", "ready", "closed"} THEN late \cup {c} ELSE late
  BY <1>2 DEF BlockThisClient
<1> HIDE DEF kept, ks
<1>6. \A k \in Keys : waiting[k] \in Seq(Node)
  BY DEF MapTypes
<1>7. \A k \in Keys : /\ k \in ToSet(ks) => Queue(k, kept, n) = Append(waiting[k], n)
                      /\ k \notin ToSet(ks) => Queue(k, kept, n) = waiting[k]
  BY <1>1, <1>3, <1>6, QueueFacts DEF kept
<1>8. \A k \in Keys : waiting'[k] = Queue(k, kept, n)
  BY <1>5
<1>9. /\ \A k \in n.keys : waiting'[k] = Append(waiting[k], n)
      /\ \A k \in Keys \ n.keys : waiting'[k] = waiting[k]
  BY <1>1, <1>3, <1>7, <1>8
<1>10. waiting' \in [Keys -> Seq(Node)]
  <2>1. \A s \in Seq(Node) : Append(s, n) \in Seq(Node)
    BY <1>3
  <2>2. \A k \in Keys : Queue(k, kept, n) \in Seq(Node)
    BY <1>6, <1>7, <2>1
  <2> QED BY <2>2, <1>5
<1>11. FdOf[c] \in Fds
  BY FdFacts
<1>12. MapTypes'
  <2>1. keysOf' \in [Fds -> Seq(Keys)]
    BY <1>2, <1>5 DEF MapTypes
  <2>2. owed' \subseteq Node /\ pipelined' \subseteq Conns /\ late' \subseteq Conns /\ serial' \in Nat
    BY <1>3, <1>5 DEF MapTypes
  <2>3. dangling' \in BOOLEAN
    BY <1>5 DEF MapTypes
  <2> QED BY <2>1, <2>2, <2>3, <1>10 DEF MapTypes
<1> QED BY <1>1, <1>2, <1>3, <1>4, <1>5, <1>9, <1>11, <1>12 DEF kept, ks

(* The cases of Do. *)
PopTaken(c) ==
  /\ pc[c] = "do" /\ cmd[c].op = "pop"
  /\ \E k \in ToSet(cmd[c].keys) : list[k] # <<>>
  /\ list' = [list EXCEPT ![PopKey(c)] = Rest(@, cmd[c].side)]
  /\ ops' = [ops EXCEPT ![c] = <<PopOp(PopKey(c), cmd[c].side)>>]
  /\ Finish(c, {}, "log")
  /\ UNCHANGED <<maps, pending, pushed, logged, errors, conn, sent>>

PopBlocked(c) ==
  /\ pc[c] = "do" /\ cmd[c].op = "pop"
  /\ \A k \in ToSet(cmd[c].keys) : list[k] = <<>>
  /\ BlockThisClient(c)
  /\ Finish(c, Keys, "idle")
  /\ UNCHANGED <<list, ops, pending, pushed, logged, errors, conn, sent>>

Pushed(c) == pc[c] = "do" /\ PushDo(c) /\ UNCHANGED <<logged, errors, conn, sent>>

MoveNothing(c) ==
  /\ pc[c] = "do" /\ cmd[c].op = "move"
  /\ Finish(c, Keys, "idle")
  /\ UNCHANGED <<list, ops, pending, pushed, maps, logged, errors, conn, sent>>

Moved(c) ==
  LET from == cmd[c].keys[1]
      to == cmd[c].keys[2]
      moved == <<PopOp(from, "right"), PushOp(to, "left", Last(list[from]))>>
  IN /\ pc[c] = "do" /\ cmd[c].op = "move"
     /\ list[from] # <<>>
     /\ list' = Apply(Apply(list, PopOp(from, "right")), PushOp(to, "left", Last(list[from])))
     /\ ops' = [ops EXCEPT ![c] = moved]
     /\ TryToServe(to)
     /\ Finish(c, {}, "log")
     /\ UNCHANGED <<pushed, maps, logged, errors, conn, sent>>

LEMMA DoCases ==
  ASSUME NEW c \in Conns, Do(c)
  PROVE  PopTaken(c) \/ PopBlocked(c) \/ Pushed(c) \/ MoveNothing(c) \/ Moved(c)
<1>1. CASE PopDo(c) /\ \E k \in ToSet(cmd[c].keys) : list[k] # <<>>
  BY <1>1 DEF Do, PopDo, PopTaken
<1>2. CASE PopDo(c) /\ ~\E k \in ToSet(cmd[c].keys) : list[k] # <<>>
  BY <1>2 DEF Do, PopDo, PopBlocked
<1>3. CASE PushDo(c)
  BY <1>3 DEF Do, Pushed
<1>4. CASE MoveDo(c)
  <2>1. CASE list[cmd[c].keys[1]] = <<>>
    BY <1>4, <2>1 DEF Do, MoveDo, MoveNothing
  <2>2. CASE list[cmd[c].keys[1]] # <<>>
    BY <1>4, <2>2 DEF Do, MoveDo, Moved
  <2> QED BY <2>1, <2>2
<1> QED BY <1>1, <1>2, <1>3, <1>4 DEF Do

LEMMA PopKeyFacts ==
  ASSUME NEW c \in Conns, cmd[c] \in Command, \E k \in ToSet(cmd[c].keys) : list[k] # <<>>
  PROVE  PopKey(c) \in ToSet(cmd[c].keys) /\ PopKey(c) \in Keys /\ list[PopKey(c)] # <<>>
<1> DEFINE ks == cmd[c].keys
           I == {i \in 1..Len(ks) : list[ks[i]] # <<>>}
<1>1. ks \in Seq(Keys) /\ ToSet(ks) \subseteq Keys
  BY CommandFacts
<1>2. PopKey(c) = ks[IF I # {} THEN Min(I) ELSE 0]
  BY DEF PopKey, SelectInSeq
<1> HIDE DEF ks
<1>3. \A x : x \in ToSet(ks) <=> \E i \in 1..Len(ks) : ks[i] = x
  BY <1>1, ToSetOf
<1>4. I # {} /\ I \in SUBSET Nat
  BY <1>3 DEF ks
<1>5. Min(I) \in I
  <2> HIDE DEF I
  <2> QED BY <1>4, MinNumber
<1>6. Min(I) \in 1..Len(ks) /\ list[ks[Min(I)]] # <<>>
  BY <1>5
<1> HIDE DEF I
<1>7. PopKey(c) = ks[Min(I)]
  BY <1>2, <1>4
<1>8. PopKey(c) \in ToSet(ks)
  BY <1>3, <1>6, <1>7
<1> QED BY <1>1, <1>6, <1>7, <1>8 DEF ks

LEMMA OpTypes ==
  ASSUME NEW k \in Keys, NEW side \in {"left", "right"}, NEW e \in Elems
  PROVE  /\ PopOp(k, side) \in Op /\ PopOp(k, side).key = k /\ PopOp(k, side).kind = "pop" /\ PopOp(k, side).side = side
         /\ PushOp(k, side, e) \in Op /\ PushOp(k, side, e).key = k /\ PushOp(k, side, e).kind = "push"
         /\ PushOp(k, side, e).side = side /\ PushOp(k, side, e).elem = e
BY DEF PopOp, PushOp, Op

(* Executing a record changes the list of its key. *)
LEMMA ApplyFacts ==
  ASSUME NEW l \in [Keys -> Seq(Elems)], NEW op \in Op
  PROVE  /\ Apply(l, op) \in [Keys -> Seq(Elems)] /\ op.key \in Keys
         /\ \A k \in Keys : Apply(l, op)[k] = EffectAt(k, l[k], op)
<1>1. op.key \in Keys
  BY DEF Op
<1>2. Effect(l[op.key], op) \in Seq(Elems)
  BY <1>1, EffectType
<1> QED BY <1>1, <1>2 DEF Apply, EffectAt

LEMMA TryToServeType ==
  ASSUME NEW k \in Keys, pending \in [Keys -> Nat], TryToServe(k)
  PROVE  pending' \in [Keys -> Nat]
BY DEF TryToServe

(* What is known of a connection whose command runs. *)
LEMMA Running ==
  ASSUME RunInv, NEW c \in Conns, pc[c] # "idle"
  PROVE  cmd[c] \in Command /\ life[c] # "none" /\ c \in Actors
BY ActorFacts DEF RunInv

LEMMA PopTakenType ==
  ASSUME TypeOK, RunInv, NEW c \in Conns, PopTaken(c)
  PROVE  TypeOK'
<1>1. cmd[c] \in Command /\ c \in Actors
  BY Running DEF PopTaken
<1>2. cmd[c].side \in {"left", "right"}
  BY <1>1, CommandFacts
<1>3. PopKey(c) \in Keys /\ list[PopKey(c)] # <<>>
  BY <1>1, PopKeyFacts DEF PopTaken
<1>4. ListTypes'
  <2>1. Rest(list[PopKey(c)], cmd[c].side) \in Seq(Elems)
    BY <1>3, RestType, Types DEF ListTypes
  <2> QED BY <2>1, Types DEF ListTypes, PopTaken
<1>5. OtherTypes'
  <2>1. 1 \in Elems
    BY DEF Elems
  <2>2. PopOp(PopKey(c), cmd[c].side) \in Op
    BY <1>2, <1>3, <2>1, OpTypes
  <2>3. <<PopOp(PopKey(c), cmd[c].side)>> \in Seq(Op)
    BY <2>2
  <2> QED BY <2>3, Types DEF OtherTypes, PopTaken, conn
<1>6. RunTypes'
  BY <1>1, FinishType, Types DEF PopTaken
<1> QED BY <1>4, <1>5, <1>6, MapsKept, Types DEF PopTaken

LEMMA PopBlockedType ==
  ASSUME TypeOK, RunInv, NEW c \in Conns, PopBlocked(c)
  PROVE  TypeOK'
<1>1. cmd[c] \in Command /\ c \in Actors
  BY Running DEF PopBlocked
<1>2. MapTypes'
  BY <1>1, BlockFacts, Types DEF PopBlocked
<1>3. RunTypes'
  BY <1>1, FinishType, Types DEF PopBlocked
<1>4. ListTypes' /\ OtherTypes'
  BY Types DEF PopBlocked, ListTypes, OtherTypes, conn
<1> QED BY <1>2, <1>3, <1>4, Types

LEMMA PushedType ==
  ASSUME TypeOK, RunInv, NEW c \in Conns, Pushed(c)
  PROVE  TypeOK'
<1> DEFINE k == cmd[c].keys[1]
<1>1. cmd[c] \in Command /\ c \in Actors /\ cmd[c].op \in {"push", "exec"}
  BY Running DEF Pushed, PushDo
<1>2. k \in Keys /\ cmd[c].side \in {"left", "right"}
  BY <1>1, CommandFacts
<1>3. pushed + 1 \in Elems /\ pushed \in Nat
  BY Types DEF ListTypes, Elems
<1>4. /\ pushed' = pushed + 1 /\ list' = [list EXCEPT ![k] = Put(@, cmd[c].side, pushed + 1)]
      /\ ops' = [ops EXCEPT ![c] = <<PushOp(k, cmd[c].side, pushed + 1)>>]
      /\ (TryToServe(k) \/ UNCHANGED pending)
      /\ Finish(c, {}, "log") /\ UNCHANGED <<maps, logged, errors, conn, sent>>
  BY DEF Pushed, PushDo
<1> HIDE DEF k
<1>5. ListTypes'
  <2>1. Put(list[k], cmd[c].side, pushed + 1) \in Seq(Elems)
    BY <1>2, <1>3, PutType, Types DEF ListTypes
  <2>2. list' \in [Keys -> Seq(Elems)]
    BY <2>1, <1>4, Types DEF ListTypes
  <2>3. pushed' \in Nat
    BY <1>3, <1>4
  <2> QED BY <2>2, <2>3, <1>4, Types DEF ListTypes
<1>6. OtherTypes'
  <2>1. PushOp(k, cmd[c].side, pushed + 1) \in Op
    BY <1>2, <1>3, OpTypes
  <2>2. <<PushOp(k, cmd[c].side, pushed + 1)>> \in Seq(Op)
    BY <2>1
  <2>3. pending' \in [Keys -> Nat]
    BY <1>2, <1>4, TryToServeType, Types DEF OtherTypes
  <2> QED BY <2>2, <2>3, <1>4, Types DEF OtherTypes, conn
<1>7. RunTypes'
  BY <1>1, <1>4, FinishType, Types
<1> QED BY <1>4, <1>5, <1>6, <1>7, MapsKept, Types

LEMMA MoveNothingType ==
  ASSUME TypeOK, NEW c \in Conns, MoveNothing(c)
  PROVE  TypeOK'
<1>1. RunTypes'
  BY FinishType, ActorFacts, Types DEF MoveNothing
<1>2. ListTypes' /\ OtherTypes'
  BY Types DEF MoveNothing, ListTypes, OtherTypes, conn
<1> QED BY <1>1, <1>2, MapsKept, Types DEF MoveNothing

(* The two records of RPOPLPUSH. *)
LEMMA MovedFacts ==
  ASSUME TypeOK, RunInv, NEW c \in Conns, Moved(c), NEW from, from = cmd[c].keys[1], NEW to, to = cmd[c].keys[2]
  PROVE  /\ cmd[c] \in Command /\ c \in Actors /\ from \in Keys /\ to \in Keys /\ cmd[c].keys = <<from, to>>
         /\ list[from] # <<>> /\ Last(list[from]) \in Elems
         /\ PopOp(from, "right") \in Op /\ PushOp(to, "left", Last(list[from])) \in Op
         /\ PopOp(from, "right").key = from /\ PushOp(to, "left", Last(list[from])).key = to
         /\ Apply(list, PopOp(from, "right")) \in [Keys -> Seq(Elems)]
         /\ list' = Apply(Apply(list, PopOp(from, "right")), PushOp(to, "left", Last(list[from])))
         /\ ops' = [ops EXCEPT ![c] = <<PopOp(from, "right"), PushOp(to, "left", Last(list[from]))>>]
<1>1. cmd[c] \in Command /\ c \in Actors /\ cmd[c].op = "move" /\ list[from] # <<>>
  BY Running DEF Moved
<1>2. from \in Keys /\ to \in Keys /\ cmd[c].keys = <<from, to>>
  BY <1>1, CommandFacts
<1>3. list \in [Keys -> Seq(Elems)]
  BY Types DEF ListTypes
<1>4. Last(list[from]) \in Elems
  BY <1>1, <1>2, <1>3, LastType
<1>5. /\ PopOp(from, "right") \in Op /\ PushOp(to, "left", Last(list[from])) \in Op
      /\ PopOp(from, "right").key = from /\ PushOp(to, "left", Last(list[from])).key = to
  BY <1>2, <1>4, OpTypes
<1>6. Apply(list, PopOp(from, "right")) \in [Keys -> Seq(Elems)]
  BY <1>3, <1>5, ApplyFacts
<1>7. /\ list' = Apply(Apply(list, PopOp(from, "right")), PushOp(to, "left", Last(list[from])))
      /\ ops' = [ops EXCEPT ![c] = <<PopOp(from, "right"), PushOp(to, "left", Last(list[from]))>>]
  BY DEF Moved
<1> QED BY <1>1, <1>2, <1>4, <1>5, <1>6, <1>7

LEMMA MovedType ==
  ASSUME TypeOK, RunInv, NEW c \in Conns, Moved(c)
  PROVE  TypeOK'
<1> DEFINE from == cmd[c].keys[1]
           to == cmd[c].keys[2]
           one == PopOp(from, "right")
           two == PushOp(to, "left", Last(list[from]))
<1>1. /\ c \in Actors /\ to \in Keys /\ one \in Op /\ two \in Op
      /\ Apply(list, one) \in [Keys -> Seq(Elems)]
      /\ list' = Apply(Apply(list, one), two)
      /\ ops' = [ops EXCEPT ![c] = <<one, two>>]
  BY MovedFacts
<1>2. TryToServe(to) /\ Finish(c, {}, "log") /\ UNCHANGED <<pushed, maps, logged, errors, conn, sent>>
  BY DEF Moved
<1> HIDE DEF one, two, from, to
<1>3. list' \in [Keys -> Seq(Elems)]
  BY <1>1, ApplyFacts
<1>4. ListTypes'
  BY <1>2, <1>3, Types DEF ListTypes
<1>5. OtherTypes'
  <2>1. <<one, two>> \in Seq(Op)
    BY <1>1
  <2>2. pending' \in [Keys -> Nat]
    BY <1>1, <1>2, TryToServeType, Types DEF OtherTypes
  <2> QED BY <2>1, <2>2, <1>1, <1>2, Types DEF OtherTypes, conn
<1>6. RunTypes'
  BY <1>1, <1>2, FinishType, Types
<1> QED BY <1>2, <1>4, <1>5, <1>6, MapsKept, Types

(* A request is one of the commands. *)
LEMMA SendFacts ==
  ASSUME NEW c \in Conns, Send(c)
  PROVE  \E m \in Command : /\ cmd' = [cmd EXCEPT ![c] = m] /\ Start(c, RecordLocks(m.keys))
                            /\ RecordLocks(m.keys) \in Seq(Locks)
<1>1. PICK m \in (IF c \in Poppers THEN Pops ELSE Pushes \cup Moves) :
        cmd' = [cmd EXCEPT ![c] = m] /\ Start(c, RecordLocks(m.keys))
  BY DEF Send
<1>2. m \in Command
  BY DEF Command
<1>3. m.keys \in Seq(Keys) /\ m.keys # <<>>
  BY <1>2, CommandFacts
<1>4. RecordLocks(m.keys) \in Seq(Keys)
  BY <1>3, RecordLocksFacts
<1>5. RecordLocks(m.keys) \in Seq(Locks)
  BY <1>4, ActorFacts, SeqMonotonic
<1> QED BY <1>1, <1>2, <1>5

LEMMA SendType ==
  ASSUME TypeOK, NEW c \in Conns, Send(c)
  PROVE  TypeOK'
<1>1. PICK m \in Command : /\ cmd' = [cmd EXCEPT ![c] = m] /\ Start(c, RecordLocks(m.keys))
                           /\ RecordLocks(m.keys) \in Seq(Locks)
  BY SendFacts
<1>2. cmd' \in [Conns -> Command \cup {NoCommand}]
  BY <1>1, Types DEF RunTypes
<1>3. RunTypes'
  BY <1>1, <1>2, StartType, ActorFacts, Types
<1>4. OtherTypes'
  <2>1. sent' \in 0..MaxCommands
    BY Bounds, Types DEF Send, OtherTypes
  <2>2. life' \in [Conns -> {"none", "open", "check", "clean", "waiting", "ready", "closed"}]
    BY Types DEF Send, OtherTypes
  <2> QED BY <2>1, <2>2, Types DEF Send, OtherTypes
<1> QED BY <1>3, <1>4, ListsKept, MapsKept, Types DEF Send

LEMMA AdminLocks == <<"rw", "block">> \in Seq(Locks) /\ <<"block", "rw">> \in Seq(Locks)
<1>1. "rw" \in Locks /\ "block" \in Locks
  BY ActorFacts
<1> QED BY <1>1

LEMMA AdminType ==
  ASSUME TypeOK, KeepaliveStart \/ AllConnStart \/ KeepaliveCheck \/ AllConnEnd
  PROVE  TypeOK'
<1>1. CASE KeepaliveStart
  <2>1. RunTypes'
    BY <1>1, AdminLocks, StartType, ActorFacts, Types DEF KeepaliveStart, RunTypes
  <2>2. OtherTypes'
    BY <1>1, Bounds, Types DEF KeepaliveStart, OtherTypes, conn
  <2> QED BY <1>1, <2>1, <2>2, ListsKept, MapsKept, Types DEF KeepaliveStart
<1>2. CASE AllConnStart
  <2>1. RunTypes'
    BY <1>2, AdminLocks, StartType, ActorFacts, Types DEF AllConnStart, RunTypes
  <2>2. OtherTypes'
    BY <1>2, Bounds, Types DEF AllConnStart, OtherTypes, conn
  <2> QED BY <1>2, <2>1, <2>2, ListsKept, MapsKept, Types DEF AllConnStart
<1>3. CASE KeepaliveCheck
  <2>1. RunTypes'
    BY <1>3, FinishType, ActorFacts, Types DEF KeepaliveCheck
  <2>2. life' \in [Conns -> {"none", "open", "check", "clean", "waiting", "ready", "closed"}] /\ killed' \subseteq Conns
    <3>1. CASE UNCHANGED conn
      BY <3>1, Types DEF OtherTypes, conn
    <3>2. CASE ~UNCHANGED conn
      <4>1. PICK c \in Closing : life' = [life EXCEPT ![c] = "check"] /\ killed' = killed \cup {c}
        BY <1>3, <3>2 DEF KeepaliveCheck
      <4>2. c \in Conns
        BY BlockingAssumption
      <4> QED BY <4>1, <4>2, Types DEF OtherTypes
    <3> QED BY <3>1, <3>2
  <2>3. OtherTypes'
    BY <1>3, <2>2, Types DEF KeepaliveCheck, OtherTypes
  <2> QED BY <1>3, <2>1, <2>3, ListsKept, MapsKept, Types DEF KeepaliveCheck
<1>4. CASE AllConnEnd
  <2>1. RunTypes'
    BY <1>4, FinishType, ActorFacts, Types DEF AllConnEnd
  <2>2. OtherTypes'
    BY <1>4, Types DEF AllConnEnd, OtherTypes, conn
  <2> QED BY <1>4, <2>1, <2>2, ListsKept, MapsKept, Types DEF AllConnEnd
<1> QED BY <1>1, <1>2, <1>3, <1>4

LEMMA DoBinlogType ==
  ASSUME TypeOK, OpsInv, NEW a \in Actors, DoBinlog(a)
  PROVE  TypeOK'
<1>1. ops[a] \in Seq(Op) /\ ops[a] # <<>>
  BY Types DEF DoBinlog, OpsInv, Logs, OtherTypes
<1>2. Head(ops[a]) \in Op /\ Tail(ops[a]) \in Seq(Op)
  BY <1>1
<1>3. logged' \in [Keys -> Seq(Elems)]
  BY <1>2, ApplyFacts, Types DEF DoBinlog, ListTypes
<1>4. ListTypes'
  BY <1>3, Types DEF DoBinlog, ListTypes
<1>5. OtherTypes'
  BY <1>2, Types DEF DoBinlog, OtherTypes, conn
<1>6. RunTypes'
  <2>1. CASE Len(ops[a]) > 1
    BY <2>1, RunKept, Types DEF DoBinlog
  <2>2. CASE ~(Len(ops[a]) > 1)
    <3> DEFINE next == IF a \in Conns /\ cmd[a].op = "exec" THEN "serve" ELSE "idle"
    <3>1. Finish(a, Locks, next) /\ next \in {"idle", "log", "serve"}
      BY <2>2 DEF DoBinlog
    <3> HIDE DEF next
    <3> QED BY <3>1, FinishType, Types
  <2> QED BY <2>1, <2>2
<1> QED BY <1>4, <1>5, <1>6, MapsKept, Types DEF DoBinlog

LEMMA ServeToType ==
  ASSUME TypeOK, RunInv, NEW c \in Conns, ServeToBLrPopWithKeys(c)
  PROVE  TypeOK'
<1>1. cmd[c] \in Command /\ c \in Actors /\ cmd[c].op = "exec"
  BY Running DEF ServeToBLrPopWithKeys, RunInv
<1>2. cmd[c].keys[1] \in Keys
  BY <1>1, CommandFacts
<1>3. pending' \in [Keys -> Nat]
  BY <1>2, TryToServeType, Types DEF ServeToBLrPopWithKeys, OtherTypes
<1>4. OtherTypes'
  BY <1>3, Types DEF ServeToBLrPopWithKeys, OtherTypes, conn
<1>5. RunTypes'
  BY <1>1, FinishType, Types DEF ServeToBLrPopWithKeys
<1> QED BY <1>4, <1>5, ListsKept, MapsKept, Types DEF ServeToBLrPopWithKeys

LEMMA ServeStartType ==
  ASSUME TypeOK, NEW k \in Keys, ServeStart(k)
  PROVE  TypeOK'
<1>1. k \in Actors /\ k \in Locks /\ "block" \in Locks
  BY ActorFacts
<1>2. ServeLocks(k) \in Seq(Locks)
  BY <1>1 DEF ServeLocks
<1>3. RunTypes'
  BY <1>1, <1>2, StartType, Types DEF ServeStart, RunTypes
<1>4. pending' \in [Keys -> Nat]
  BY Types DEF ServeStart, OtherTypes
<1>5. OtherTypes'
  BY <1>4, Types DEF ServeStart, OtherTypes, conn
<1> QED BY <1>3, <1>5, ListsKept, MapsKept, Types DEF ServeStart

LEMMA ServeOneFacts ==
  ASSUME TypeOK, NEW k \in Keys, ServeOne(k)
  PROVE  /\ 1 \in DOMAIN waiting[k] /\ waiting[k][1] \in Node /\ waiting[k][1].side \in {"left", "right"}
         /\ PopOp(k, waiting[k][1].side) \in Op /\ Unblock(k, 1) /\ list[k] # <<>> /\ k \in Actors
<1>1. waiting[k] \in Seq(Node) /\ waiting[k] # <<>>
  BY Types DEF ServeOne, MapTypes
<1>2. 1 \in DOMAIN waiting[k] /\ waiting[k][1] \in Node
  BY <1>1, EmptySeq
<1>3. waiting[k][1].side \in {"left", "right"}
  BY <1>2, BlockingAssumption DEF Node
<1>4. 1 \in Elems
  BY DEF Elems
<1>5. PopOp(k, waiting[k][1].side) \in Op
  BY <1>3, <1>4, OpTypes
<1> QED BY <1>2, <1>3, <1>5, ActorFacts DEF ServeOne

LEMMA ServeOneType ==
  ASSUME TypeOK, NEW k \in Keys, ServeOne(k)
  PROVE  TypeOK'
<1> DEFINE side == waiting[k][1].side
<1>1. /\ 1 \in DOMAIN waiting[k] /\ PopOp(k, side) \in Op /\ Unblock(k, 1) /\ list[k] # <<>> /\ k \in Actors
  BY ServeOneFacts
<1>2. MapTypes'
  BY <1>1, UnblockFacts, Types
<1>3. ListTypes'
  <2>1. Rest(list[k], side) \in Seq(Elems)
    BY <1>1, RestType, Types DEF ListTypes
  <2>2. list' = [list EXCEPT ![k] = Rest(@, side)] \/ UNCHANGED list
    BY DEF ServeOne
  <2> HIDE DEF side
  <2>3. list' \in [Keys -> Seq(Elems)]
    BY <2>1, <2>2, Types DEF ListTypes
  <2>4. errors' \in 0..MaxErrors
    BY Bounds, Types DEF ServeOne, ListTypes
  <2> QED BY <2>3, <2>4, Types DEF ListTypes, ServeOne
<1>4. OtherTypes'
  <2>1. ops[k] \in Seq(Op)
    BY <1>1, Types DEF OtherTypes
  <2>2. Append(ops[k], PopOp(k, side)) \in Seq(Op)
    BY <1>1, <2>1
  <2>3. ops' = [ops EXCEPT ![k] = Append(@, PopOp(k, side))]
    BY DEF ServeOne
  <2> HIDE DEF side
  <2> QED BY <2>2, <2>3, Types DEF OtherTypes, ServeOne, conn
<1> QED BY <1>2, <1>3, <1>4, RunKept, Types DEF ServeOne

LEMMA ServeEndType ==
  ASSUME TypeOK, NEW k \in Keys, ServeEnd(k)
  PROVE  TypeOK'
<1>1. RunTypes'
  <2>1. CASE ops[k] = <<>>
    BY <2>1, FinishType, ActorFacts, Types DEF ServeEnd
  <2>2. CASE ops[k] # <<>>
    BY <2>2, FinishType, ActorFacts, Types DEF ServeEnd
  <2> QED BY <2>1, <2>2
<1>2. OtherTypes'
  BY Types DEF ServeEnd, OtherTypes, conn
<1> QED BY <1>1, <1>2, ListsKept, MapsKept, Types DEF ServeEnd

LEMMA ScanType ==
  ASSUME TypeOK, ScanExpired
  PROVE  TypeOK'
<1>1. PICK k \in Keys : \E i \in DOMAIN waiting[k] : Unblock(k, i)
  BY DEF ScanExpired
<1>2. PICK i \in DOMAIN waiting[k] : Unblock(k, i)
  BY <1>1
<1>4. MapTypes'
  BY <1>2, UnblockFacts, Types
<1>3. OtherTypes'
  BY Types DEF ScanExpired, OtherTypes, conn
<1> QED BY <1>3, <1>4, ListsKept, RunKept, Types DEF ScanExpired

LEMMA CloseType ==
  ASSUME TypeOK, NEW c \in Conns, StartClose(c) \/ Closes(c)
  PROVE  TypeOK'
<1> DEFINE Stages == {"none", "open", "check", "clean", "waiting", "ready", "closed"}
<1>1. life \in [Conns -> Stages] /\ AfterClean(c) \in Stages
  BY Types DEF OtherTypes, AfterClean
<1>2. /\ life' \in [Conns -> Stages]
      /\ killed' \subseteq Conns
      /\ UNCHANGED <<lists, run, pending, ops, sent>>
  <2>1. CASE StartClose(c)
    BY <2>1, <1>1, Types DEF StartClose, OtherTypes
  <2>2. CASE ClosingConnCheck(c)
    BY <2>2, <1>1, Types DEF ClosingConnCheck, OtherTypes
  <2>3. CASE ClosingConnClean(c)
    BY <2>3, <1>1, Types DEF ClosingConnClean, OtherTypes
  <2>4. CASE CronClose(c)
    BY <2>4, <1>1, Types DEF CronClose, OtherTypes
  <2> QED BY <2>1, <2>2, <2>3, <2>4 DEF Closes
<1>3. OtherTypes'
  BY <1>2, Types DEF OtherTypes
<1>4. MapTypes'
  <2>1. CASE StartClose(c)
    BY <2>1, MapsKept, Types DEF StartClose
  <2>2. CASE ClosingConnCheck(c)
    BY <2>2, Types DEF ClosingConnCheck, MapTypes
  <2>3. CASE ClosingConnClean(c)
    <3>1. waiting' \in [Keys -> Seq(Node)]
      BY <2>3, CleanFacts, FdFacts, Types DEF ClosingConnClean, MapTypes
    <3>2. <<>> \in Seq(Keys)
      OBVIOUS
    <3>3. keysOf' \in [Fds -> Seq(Keys)]
      BY <2>3, <3>2, Types DEF ClosingConnClean, MapTypes
    <3> QED BY <2>3, <3>1, <3>3, Types DEF ClosingConnClean, MapTypes
  <2>4. CASE CronClose(c)
    BY <2>4, MapsKept, Types DEF CronClose
  <2> QED BY <2>1, <2>2, <2>3, <2>4 DEF Closes
<1> QED BY <1>2, <1>3, <1>4, ListsKept, RunKept, Types

LEMMA TypeStep ==
  ASSUME TypeOK, RunInv, LockInv, OpsInv, Next
  PROVE  TypeOK'
<1>1. CASE Begins
  BY <1>1, SendType, CloseType, AdminType DEF Begins
<1>2. ASSUME NEW c \in Conns, ConnRuns(c) PROVE TypeOK'
  <2>1. c \in Actors
    BY ActorFacts
  <2>2. CASE TakeLock(c)
    BY <2>1, <2>2, TakeLockType
  <2>3. CASE Do(c)
    BY <2>3, DoCases, PopTakenType, PopBlockedType, PushedType, MoveNothingType, MovedType
  <2>4. CASE DoBinlog(c)
    BY <2>1, <2>4, DoBinlogType
  <2>5. CASE ServeToBLrPopWithKeys(c)
    BY <2>5, ServeToType
  <2> QED BY <1>2, <2>2, <2>3, <2>4, <2>5 DEF ConnRuns
<1>3. ASSUME NEW c \in Conns, Closes(c) PROVE TypeOK'
  BY <1>3, CloseType
<1>4. ASSUME NEW k \in Keys, TaskRuns(k) PROVE TypeOK'
  <2>1. k \in Actors
    BY ActorFacts
  <2> QED BY <2>1, <1>4, ServeStartType, TakeLockType, ServeOneType, ServeEndType, DoBinlogType DEF TaskRuns
<1>5. CASE AdminRuns
  BY <1>5, ActorFacts, TakeLockType, AdminType DEF AdminRuns
<1> QED BY <1>1, <1>2, <1>3, <1>4, <1>5, ScanType DEF Next

-----------------------------------------------------------------------------
(* Locks *)

(* Whose command changes. *)
LEMMA WantsKept ==
  ASSUME NEW a \in Actors, a \in Conns => cmd'[a] = cmd[a]
  PROVE  Wants(a)' = Wants(a)
<1>1. CASE a \in Conns
  BY <1>1 DEF Wants
<1>2. CASE a \notin Conns
  BY <1>2 DEF Wants
<1> QED BY <1>1, <1>2

(* An actor whose state does not change holds what it held. *)
LEMMA HoldsKept ==
  ASSUME NEW a \in Actors, Holds(a), a \in Conns => cmd'[a] = cmd[a],
         pc'[a] = pc[a], plan'[a] = plan[a], held'[a] = held[a]
  PROVE  Holds(a)'
<1>1. Wants(a)' = Wants(a)
  BY WantsKept
<1>2. \A n \in Nat : Between(a, n)' <=> Between(a, n)
  BY <1>1 DEF Between
<1> QED BY <1>1, <1>2 DEF Holds

LEMMA LockUnchanged ==
  ASSUME LockInv, UNCHANGED run
  PROVE  LockInv'
<1>1. UNCHANGED <<pc, plan, held, cmd>>
  BY DEF run
<1>2. \A a \in Actors : Holds(a)'
  BY <1>1, HoldsKept DEF LockInv
<1> QED BY <1>1, <1>2 DEF LockInv

(* An actor begins with no lock taken. *)
LEMMA LockStart ==
  ASSUME TypeOK, LockInv, NEW a \in Actors, Start(a, Wants(a)'), Wants(a)' \in Seq(Locks), Wants(a)' # <<>>,
         \A c \in Conns : c # a => cmd'[c] = cmd[c]
  PROVE  LockInv'
<1>1. pc \in [Actors -> {"idle", "lock", "do", "log", "serve"}] /\ plan \in [Actors -> Seq(Locks)]
  BY Types DEF RunTypes
<1>2. pc'[a] = "lock" /\ plan'[a] = Wants(a)' /\ held' = held /\ held[a] = {}
  BY <1>1 DEF Start, LockInv, Holds
<1>3. \A b \in Actors : b # a => pc'[b] = pc[b] /\ plan'[b] = plan[b]
  BY <1>1 DEF Start
<1>4. \A b \in Actors : b # a => Holds(b)'
  BY <1>2, <1>3, HoldsKept DEF LockInv
<1>5. Between(a, 0)'
  <2> DEFINE w == Wants(a)'
             l == Len(w)
  <2>1. w \in Seq(Locks) /\ w # <<>> /\ plan'[a] = w /\ held'[a] = {}
    BY <1>2
  <2> HIDE DEF w
  <2>2. l \in Nat \ {0}
    BY <2>1, EmptySeq
  <2>3. 0 \in 0..(l - 1) /\ w = SubSeq(w, 0 + 1, l)
    BY <2>1, <2>2, SubSeqFull
  <2>4. {w[i] : i \in 1..0} = {}
    OBVIOUS
  <2> QED BY <2>1, <2>3, <2>4 DEF Between, w
<1>6. Holds(a)'
  BY <1>2, <1>5 DEF Holds
<1> QED BY <1>2, <1>4, <1>6 DEF LockInv

(* An actor gives locks back. *)
LEMMA LockFinish ==
  ASSUME TypeOK, LockInv, NEW a \in Actors, NEW locks, NEW next, Finish(a, locks, next), Holds(a)'
  PROVE  LockInv'
<1>1. pc \in [Actors -> {"idle", "lock", "do", "log", "serve"}] /\ held \in [Actors -> SUBSET Locks]
  BY Types DEF RunTypes
<1>2. held'[a] \subseteq held[a] /\ plan' = plan
  BY <1>1 DEF Finish
<1>3. \A b \in Actors : b # a => pc'[b] = pc[b] /\ held'[b] = held[b]
  BY <1>1 DEF Finish
<1>4. \A c \in Conns : c # a => cmd'[c] = cmd[c]
  BY Types DEF Finish, RunTypes
<1>5. \A b \in Actors : b # a => Holds(b)'
  BY <1>2, <1>3, <1>4, HoldsKept DEF LockInv
<1>6. \A b \in Actors : Holds(b)'
  BY <1>5
<1>7. \A b, d \in Actors : b # d => held'[b] \cap held'[d] = {}
  BY <1>2, <1>3 DEF LockInv
<1> QED BY <1>6, <1>7 DEF LockInv

(* An actor takes a lock that nobody holds. *)
LEMMA LockTake ==
  ASSUME TypeOK, RunInv, LockInv, NEW a \in Actors, TakeLock(a)
  PROVE  LockInv'
<1> DEFINE h == Head(plan[a])
           w == Wants(a)
           l == Len(w)
<1>0. /\ pc \in [Actors -> {"idle", "lock", "do", "log", "serve"}] /\ plan \in [Actors -> Seq(Locks)]
      /\ held \in [Actors -> SUBSET Locks]
  BY Types DEF RunTypes
<1>1. PICK n \in Nat : Between(a, n)
  BY DEF TakeLock, LockInv, Holds
<1>2. pc[a] = "lock" /\ (a \in Conns => pc[a] # "idle")
  BY DEF TakeLock
<1>3. w \in Seq(Locks) /\ l \in Nat \ {0} /\ DOMAIN w = 1..l
  BY <1>2, WantsFacts
<1>4. /\ n \in 0..(l - 1) /\ h = w[n + 1] /\ Len(plan[a]) = l - n
      /\ n + 1 < l => Tail(plan[a]) = SubSeq(w, (n + 1) + 1, l)
  BY <1>1, <1>2, NextLock
<1>5. held[a] = {w[i] : i \in 1..n}
  BY <1>1 DEF Between
<1>6. /\ held'[a] = held[a] \cup {h} /\ plan'[a] = Tail(plan[a])
      /\ pc'[a] = IF Len(plan[a]) = 1 THEN "do" ELSE "lock"
      /\ \A b \in Actors : b # a => held'[b] = held[b] /\ plan'[b] = plan[b] /\ pc'[b] = pc[b]
      /\ cmd' = cmd
  BY <1>0 DEF TakeLock
<1>7. \A b \in Actors : h \notin held[b]
  BY DEF TakeLock, Free
<1>8. Wants(a)' = w
  BY <1>6, WantsKept
<1> HIDE DEF w, l, h
<1>9. held'[a] = {w[i] : i \in 1..(n + 1)}
  <2>1. 1..(n + 1) = 1..n \cup {n + 1}
    OBVIOUS
  <2> QED BY <2>1, <1>4, <1>5, <1>6
<1>10. CASE Len(plan[a]) = 1
  <2>1. pc'[a] = "do"
    BY <1>10, <1>6
  <2>2. n + 1 = l
    <3>1. l - n = 1 /\ l \in Nat /\ n \in Nat
      BY <1>10, <1>3, <1>4
    <3> QED BY <3>1
  <2>3. held'[a] = ToSet(w)
    BY <2>2, <1>3, <1>9 DEF ToSet
  <2>4. Holds(a)'
    BY <2>1, <2>3, <1>8 DEF Holds
  <2>5. \A b \in Actors : b # a => Holds(b)'
    BY <1>6, HoldsKept DEF LockInv
  <2>6. \A b, d \in Actors : b # d => held'[b] \cap held'[d] = {}
    BY <1>6, <1>7 DEF LockInv
  <2>7. \A b \in Actors : Holds(b)'
    BY <2>4, <2>5
  <2> QED BY <2>6, <2>7 DEF LockInv
<1>11. CASE Len(plan[a]) # 1
  <2>1. pc'[a] = "lock" /\ n + 1 \in 0..(l - 1) /\ n + 1 < l
    BY <1>11, <1>3, <1>4, <1>6
  <2>2. plan'[a] = SubSeq(w, (n + 1) + 1, l)
    BY <2>1, <1>4, <1>6
  <2>3. Between(a, n + 1)'
    BY <2>1, <2>2, <1>8, <1>9 DEF Between, l
  <2>4. n + 1 \in Nat
    OBVIOUS
  <2>5. Holds(a)'
    BY <2>1, <2>3, <2>4 DEF Holds
  <2>6. \A b \in Actors : b # a => Holds(b)'
    BY <1>6, HoldsKept DEF LockInv
  <2>7. \A b, d \in Actors : b # d => held'[b] \cap held'[d] = {}
    BY <1>6, <1>7 DEF LockInv
  <2>8. \A b \in Actors : Holds(b)'
    BY <2>5, <2>6
  <2> QED BY <2>7, <2>8 DEF LockInv
<1> QED BY <1>10, <1>11

(* Where a command or a task gives its locks back. *)
LEMMA HoldsNothing ==
  ASSUME TypeOK, NEW a \in Actors, NEW locks, NEW next \in {"idle", "serve"}, Finish(a, locks, next), held[a] \subseteq locks
  PROVE  Holds(a)'
<1>1. pc'[a] = next /\ held'[a] = {}
  BY Types DEF Finish, RunTypes
<1> QED BY <1>1 DEF Holds

LEMMA HoldsLog ==
  ASSUME TypeOK, RunInv, LockInv, NEW c \in Conns, pc[c] = "do", Finish(c, {}, "log")
  PROVE  Holds(c)'
<1>1. c \in Actors /\ held[c] = ToSet(Wants(c))
  BY ActorFacts DEF LockInv, Holds
<1>2. "block" \notin ToSet(Wants(c))
  BY <1>1, WantsFacts, ActorFacts
<1>3. pc'[c] = "log" /\ held'[c] = held[c] /\ cmd' = cmd
  BY <1>1, Types DEF Finish, RunTypes
<1>4. Wants(c)' = Wants(c)
  BY <1>1, <1>3, WantsKept
<1>5. held'[c] = ToSet(Wants(c))' \ {"block"}
  BY <1>1, <1>2, <1>3, <1>4
<1> QED BY <1>3, <1>5 DEF Holds

LEMMA HeldKeys ==
  ASSUME TypeOK, RunInv, LockInv, NEW c \in Conns, pc[c] \in {"do", "log"}
  PROVE  held[c] = ToSet(cmd[c].keys) /\ held[c] \subseteq Keys /\ c \in Actors
<1>1. c \in Actors /\ Holds(c)
  BY ActorFacts DEF LockInv
<1>2. ToSet(Wants(c)) = ToSet(cmd[c].keys) /\ ToSet(Wants(c)) \subseteq Keys
  BY <1>1, WantsFacts
<1>3. "block" \notin ToSet(Wants(c))
  BY <1>2, ActorFacts
<1> QED BY <1>1, <1>2, <1>3 DEF Holds

LEMMA HeldTask ==
  ASSUME TypeOK, RunInv, LockInv, NEW k \in Keys
  PROVE  /\ k \in Actors
         /\ pc[k] = "do" => held[k] = {k, "block"}
         /\ pc[k] = "log" => held[k] = {k}
<1>1. k \in Actors /\ Holds(k) /\ k \notin Conns /\ k # "block"
  BY ActorFacts DEF LockInv
<1>2. ToSet(Wants(k)) = {k, "block"}
  BY <1>1, WantsFacts
<1> QED BY <1>1, <1>2 DEF Holds

LEMMA LockDo ==
  ASSUME TypeOK, RunInv, LockInv, NEW c \in Conns, Do(c)
  PROVE  LockInv'
<1>1. pc[c] = "do" /\ c \in Actors
  BY ActorFacts DEF Do
<1>2. held[c] \subseteq Keys
  BY <1>1, HeldKeys
<1>3. Finish(c, {}, "log") \/ Finish(c, Keys, "idle")
  BY DoCases DEF PopTaken, PopBlocked, Pushed, PushDo, MoveNothing, Moved
<1>4. CASE Finish(c, {}, "log")
  BY <1>1, <1>4, HoldsLog, LockFinish
<1>5. CASE Finish(c, Keys, "idle")
  BY <1>1, <1>2, <1>5, HoldsNothing, LockFinish
<1> QED BY <1>3, <1>4, <1>5

LEMMA LockBinlog ==
  ASSUME TypeOK, LockInv, NEW a \in Actors, DoBinlog(a)
  PROVE  LockInv'
<1>1. CASE Len(ops[a]) > 1
  BY <1>1, LockUnchanged DEF DoBinlog
<1>2. CASE ~(Len(ops[a]) > 1)
  <2> DEFINE next == IF a \in Conns /\ cmd[a].op = "exec" THEN "serve" ELSE "idle"
  <2>1. Finish(a, Locks, next) /\ next \in {"idle", "serve"}
    BY <1>2 DEF DoBinlog
  <2>2. held[a] \subseteq Locks
    BY Types DEF RunTypes
  <2> HIDE DEF next
  <2>3. Holds(a)'
    BY <2>1, <2>2, HoldsNothing
  <2> QED BY <2>1, <2>3, LockFinish
<1> QED BY <1>1, <1>2

LEMMA LockServe ==
  ASSUME TypeOK, RunInv, LockInv, NEW k \in Keys, ServeStart(k) \/ ServeEnd(k)
  PROVE  LockInv'
<1>1. k \in Actors /\ k \notin Conns /\ k # "block" /\ held[k] \subseteq Locks
  BY ActorFacts, Types DEF RunTypes
<1>2. CASE ServeStart(k)
  <2>1. Wants(k)' = Wants(k) /\ Wants(k) = ServeLocks(k)
    BY <1>1, WantsKept DEF Wants
  <2>2. Wants(k) \in Seq(Locks) /\ Wants(k) # <<>>
    BY <1>1, WantsFacts
  <2>3. Start(k, Wants(k)') /\ cmd' = cmd
    BY <1>2, <2>1 DEF ServeStart
  <2> QED BY <1>1, <2>1, <2>2, <2>3, LockStart
<1>3. CASE ServeEnd(k) /\ ops[k] = <<>>
  <2>1. Finish(k, Locks, "idle")
    BY <1>3 DEF ServeEnd
  <2> QED BY <1>1, <2>1, HoldsNothing, LockFinish
<1>4. CASE ServeEnd(k) /\ ops[k] # <<>>
  <2>1. Finish(k, {"block"}, "log") /\ pc[k] = "do"
    BY <1>4 DEF ServeEnd
  <2>2. pc'[k] = "log" /\ held'[k] = held[k] \ {"block"}
    BY <1>1, <2>1, Types DEF Finish, RunTypes
  <2>3. Wants(k)' = Wants(k) /\ held[k] = ToSet(Wants(k))
    BY <1>1, <2>1, WantsKept DEF LockInv, Holds
  <2>4. Holds(k)'
    BY <2>2, <2>3 DEF Holds
  <2> QED BY <1>1, <2>1, <2>4, LockFinish
<1> QED BY <1>2, <1>3, <1>4

LEMMA LockAdmin ==
  ASSUME TypeOK, RunInv, LockInv, KeepaliveStart \/ AllConnStart \/ KeepaliveCheck \/ AllConnEnd
  PROVE  LockInv'
<1>1. \A a \in Admins : a \in Actors /\ a \notin Conns /\ held[a] \subseteq Locks /\ Wants(a)' = Wants(a)
  BY ActorFacts, WantsKept, Types DEF RunTypes
<1>2. \A a \in Admins : Wants(a) \in Seq(Locks) /\ Wants(a) # <<>>
  BY <1>1, WantsFacts
<1>3. "cron" \in Admins /\ "acl" \in Admins
  BY DEF Admins
<1>4. Wants("cron") = <<"rw", "block">> /\ Wants("acl") = <<"block", "rw">>
  BY <1>1, <1>3, WantsFacts
<1>5. CASE KeepaliveStart
  <2>1. Start("cron", Wants("cron")') /\ cmd' = cmd
    BY <1>1, <1>3, <1>4, <1>5 DEF KeepaliveStart
  <2> QED BY <2>1, <1>1, <1>2, <1>3, LockStart
<1>6. CASE AllConnStart
  <2>1. Start("acl", Wants("acl")') /\ cmd' = cmd
    BY <1>1, <1>3, <1>4, <1>6 DEF AllConnStart
  <2> QED BY <2>1, <1>1, <1>2, <1>3, LockStart
<1>7. CASE KeepaliveCheck
  BY <1>1, <1>3, <1>7, HoldsNothing, LockFinish DEF KeepaliveCheck
<1>8. CASE AllConnEnd
  BY <1>1, <1>3, <1>8, HoldsNothing, LockFinish DEF AllConnEnd
<1> QED BY <1>5, <1>6, <1>7, <1>8

LEMMA LockSend ==
  ASSUME TypeOK, LockInv, NEW c \in Conns, Send(c)
  PROVE  LockInv'
<1>1. PICK m \in Command : /\ cmd' = [cmd EXCEPT ![c] = m] /\ Start(c, RecordLocks(m.keys))
                           /\ RecordLocks(m.keys) \in Seq(Locks)
  BY SendFacts
<1>2. cmd'[c] = m /\ \A d \in Conns : d # c => cmd'[d] = cmd[d]
  BY <1>1, Types DEF RunTypes
<1>3. Wants(c)' = RecordLocks(m.keys)
  BY <1>2 DEF Wants
<1>4. RecordLocks(m.keys) # <<>>
  BY CommandFacts, RecordLocksFacts
<1> QED BY <1>1, <1>2, <1>3, <1>4, LockStart, ActorFacts

LEMMA LockStep ==
  ASSUME TypeOK, RunInv, LockInv, Next
  PROVE  LockInv'
<1>1. CASE Begins
  <2>1. ASSUME NEW c \in Conns, StartClose(c) PROVE LockInv'
    BY <2>1, LockUnchanged DEF StartClose
  <2> QED BY <1>1, <2>1, LockSend, LockAdmin DEF Begins
<1>2. ASSUME NEW c \in Conns, ConnRuns(c) PROVE LockInv'
  <2>1. c \in Actors /\ held[c] \subseteq Locks
    BY ActorFacts, Types DEF RunTypes
  <2>2. CASE ServeToBLrPopWithKeys(c)
    <3>1. pc[c] = "serve" /\ Finish(c, {}, "idle")
      BY <2>2 DEF ServeToBLrPopWithKeys
    <3>2. held[c] \subseteq {}
      BY <2>1, <3>1 DEF LockInv, Holds
    <3> QED BY <2>1, <3>1, <3>2, HoldsNothing, LockFinish
  <2> QED BY <1>2, <2>1, <2>2, LockTake, LockDo, LockBinlog DEF ConnRuns
<1>3. ASSUME NEW c \in Conns, Closes(c) PROVE LockInv'
  BY <1>3, LockUnchanged DEF Closes, ClosingConnCheck, ClosingConnClean, CronClose
<1>4. ASSUME NEW k \in Keys, TaskRuns(k) PROVE LockInv'
  <2>1. k \in Actors
    BY ActorFacts
  <2>2. CASE ServeOne(k)
    BY <2>2, LockUnchanged DEF ServeOne
  <2> QED BY <1>4, <2>1, <2>2, LockServe, LockTake, LockBinlog DEF TaskRuns
<1>5. CASE AdminRuns
  BY <1>5, ActorFacts, LockTake, LockAdmin DEF AdminRuns
<1>6. CASE ScanExpired
  BY <1>6, LockUnchanged DEF ScanExpired
<1> QED BY <1>1, <1>2, <1>3, <1>4, <1>5, <1>6 DEF Next

-----------------------------------------------------------------------------
(* Commands under way, and the changes they have to log *)

(* One actor goes on, the others stay where they are. *)
LEMMA RunOne ==
  ASSUME RunInv, NEW a \in Actors,
         \A b \in Actors : b # a => pc'[b] = pc[b],
         \A c \in Conns : c # a => cmd'[c] = cmd[c],
         \A c \in Conns : life[c] # "none" => life'[c] # "none",
         a \in Conns /\ pc'[a] # "idle" => cmd'[a] \in Command /\ life'[a] # "none",
         a \in Conns /\ pc'[a] = "serve" => cmd'[a].op = "exec",
         a \notin Conns => pc'[a] # "serve",
         a \in Admins => pc'[a] # "log"
  PROVE  RunInv'
<1>1. ASSUME NEW c \in Conns, pc'[c] # "idle" PROVE cmd'[c] \in Command /\ life'[c] # "none"
  <2>1. c \in Actors
    BY ActorFacts
  <2>2. CASE c = a
    BY <1>1, <2>2
  <2>3. CASE c # a
    BY <1>1, <2>1, <2>3 DEF RunInv
  <2> QED BY <2>2, <2>3
<1>2. ASSUME NEW c \in Conns, pc'[c] = "serve" PROVE cmd'[c].op = "exec"
  <2>1. c \in Actors
    BY ActorFacts
  <2>2. CASE c = a
    BY <1>2, <2>2
  <2>3. CASE c # a
    BY <1>2, <2>1, <2>3 DEF RunInv
  <2> QED BY <2>2, <2>3
<1>3. \A k \in Keys : pc'[k] # "serve"
  BY ActorFacts DEF RunInv
<1>4. \A b \in Admins : pc'[b] \notin {"log", "serve"}
  BY ActorFacts DEF RunInv
<1> QED BY <1>1, <1>2, <1>3, <1>4 DEF RunInv

(* A connection is never forgotten. *)
LEMMA LifeGoesOn ==
  ASSUME TypeOK, Next
  PROVE  \A c \in Conns : life[c] # "none" => life'[c] # "none"
<1>0. life \in [Conns -> {"none", "open", "check", "clean", "waiting", "ready", "closed"}]
  BY Types DEF OtherTypes
<1>1. ASSUME NEW c \in Conns, life' = [life EXCEPT ![c] = "open"] \/ life' = [life EXCEPT ![c] = "check"]
             \/ life' = [life EXCEPT ![c] = "clean"] \/ life' = [life EXCEPT ![c] = AfterClean(c)]
             \/ life' = [life EXCEPT ![c] = "ready"] \/ life' = [life EXCEPT ![c] = "closed"]
      PROVE  \A d \in Conns : life[d] # "none" => life'[d] # "none"
  BY <1>0, <1>1 DEF AfterClean
<1>2. CASE life' = life
  BY <1>2
<1>3. \/ life' = life
      \/ \E c \in Conns : \/ life' = [life EXCEPT ![c] = "open"] \/ life' = [life EXCEPT ![c] = "check"]
                          \/ life' = [life EXCEPT ![c] = "clean"] \/ life' = [life EXCEPT ![c] = AfterClean(c)]
                          \/ life' = [life EXCEPT ![c] = "ready"] \/ life' = [life EXCEPT ![c] = "closed"]
  <2>1. CASE Begins
    BY <2>1 DEF Begins, Send, StartClose, KeepaliveStart, AllConnStart, conn
  <2>2. ASSUME NEW c \in Conns, ConnRuns(c) PROVE life' = life
    BY <2>2 DEF ConnRuns, TakeLock, Do, DoBinlog, ServeToBLrPopWithKeys, conn
  <2>3. ASSUME NEW c \in Conns, Closes(c)
        PROVE  \/ life' = [life EXCEPT ![c] = "clean"] \/ life' = [life EXCEPT ![c] = AfterClean(c)]
               \/ life' = [life EXCEPT ![c] = "ready"] \/ life' = [life EXCEPT ![c] = "closed"]
    BY <2>3 DEF Closes, ClosingConnCheck, ClosingConnClean, CronClose
  <2>4. ASSUME NEW k \in Keys, TaskRuns(k) PROVE life' = life
    BY <2>4 DEF TaskRuns, ServeStart, TakeLock, ServeOne, ServeEnd, DoBinlog, conn
  <2>5. CASE AdminRuns
    <3>1. CASE KeepaliveCheck
      BY <3>1, BlockingAssumption DEF KeepaliveCheck, conn
    <3> QED BY <2>5, <3>1 DEF AdminRuns, TakeLock, AllConnEnd, conn
  <2>6. CASE ScanExpired
    BY <2>6 DEF ScanExpired, conn
  <2> QED BY <2>1, <2>2, <2>3, <2>4, <2>5, <2>6 DEF Next
<1> QED BY <1>1, <1>2, <1>3

LEMMA StartFacts ==
  ASSUME TypeOK, NEW a \in Actors, NEW locks, Start(a, locks)
  PROVE  /\ pc[a] = "idle" /\ pc'[a] = "lock" /\ held' = held /\ \A b \in Actors : b # a => pc'[b] = pc[b]
BY Types DEF Start, RunTypes

LEMMA FinishFacts ==
  ASSUME TypeOK, NEW a \in Actors, NEW locks, NEW next, Finish(a, locks, next)
  PROVE  /\ pc'[a] = next /\ held'[a] = held[a] \ locks
         /\ \A b \in Actors : b # a => pc'[b] = pc[b] /\ held'[b] = held[b]
         /\ \A c \in Conns : c # a => cmd'[c] = cmd[c]
         /\ next # "idle" => cmd' = cmd
BY Types DEF Finish, RunTypes

LEMMA TakeFacts ==
  ASSUME TypeOK, NEW a \in Actors, TakeLock(a)
  PROVE  /\ pc[a] = "lock" /\ pc'[a] \in {"lock", "do"} /\ held'[a] = held[a] \cup {Head(plan[a])}
         /\ \A b \in Actors : b # a => pc'[b] = pc[b] /\ held'[b] = held[b]
         /\ cmd' = cmd
BY Types DEF TakeLock, RunTypes

LEMMA RunUnchanged ==
  ASSUME RunInv, UNCHANGED run, \A c \in Conns : life[c] # "none" => life'[c] # "none"
  PROVE  RunInv'
BY DEF RunInv, run

LEMMA RunFinish ==
  ASSUME TypeOK, RunInv, NEW a \in Actors, pc[a] # "idle", NEW locks, NEW next \in {"idle", "log", "serve"}, Finish(a, locks, next),
         next = "serve" => a \in Conns /\ cmd[a].op = "exec", next = "log" => a \notin Admins,
         \A c \in Conns : life[c] # "none" => life'[c] # "none"
  PROVE  RunInv'
<1>1. /\ pc'[a] = next /\ \A b \in Actors : b # a => pc'[b] = pc[b]
      /\ \A c \in Conns : c # a => cmd'[c] = cmd[c]
      /\ next # "idle" => cmd' = cmd
  BY FinishFacts
<1>2. a \in Conns /\ pc'[a] # "idle" => cmd'[a] \in Command /\ life'[a] # "none"
  BY <1>1 DEF RunInv
<1> QED BY <1>1, <1>2, RunOne

LEMMA RunStep ==
  ASSUME TypeOK, RunInv, Next
  PROVE  RunInv'
<1>0. \A c \in Conns : life[c] # "none" => life'[c] # "none"
  BY LifeGoesOn
<1>1. ASSUME NEW a \in Actors, TakeLock(a) PROVE RunInv'
  <2>1. /\ pc[a] = "lock" /\ pc'[a] \in {"lock", "do"} /\ cmd' = cmd
        /\ \A b \in Actors : b # a => pc'[b] = pc[b]
    BY <1>1, TakeFacts
  <2>2. a \in Conns => cmd[a] \in Command /\ life[a] # "none"
    BY <2>1 DEF RunInv
  <2> QED BY <1>0, <2>1, <2>2, RunOne
<1>2. ASSUME NEW a \in Actors, DoBinlog(a), a \notin Admins PROVE RunInv'
  <2>1. CASE Len(ops[a]) > 1
    BY <1>0, <1>2, <2>1, RunUnchanged DEF DoBinlog
  <2>2. CASE ~(Len(ops[a]) > 1)
    <3> DEFINE next == IF a \in Conns /\ cmd[a].op = "exec" THEN "serve" ELSE "idle"
    <3>1. Finish(a, Locks, next) /\ next \in {"idle", "log", "serve"} /\ pc[a] # "idle"
      BY <1>2, <2>2 DEF DoBinlog
    <3>2. next = "serve" => a \in Conns /\ cmd[a].op = "exec"
      OBVIOUS
    <3> HIDE DEF next
    <3> QED BY <1>0, <1>2, <3>1, <3>2, RunFinish
  <2> QED BY <2>1, <2>2
<1>3. ASSUME NEW a \in Actors, a \notin Conns, NEW locks, Start(a, locks), cmd' = cmd PROVE RunInv'
  <2>1. pc'[a] = "lock" /\ \A b \in Actors : b # a => pc'[b] = pc[b]
    BY <1>3, StartFacts
  <2> QED BY <1>0, <1>3, <2>1, RunOne
<1>4. ASSUME NEW c \in Conns, Send(c) PROVE RunInv'
  <2>1. PICK m \in Command : cmd' = [cmd EXCEPT ![c] = m] /\ Start(c, RecordLocks(m.keys))
    BY <1>4, SendFacts
  <2>2. c \in Actors /\ pc'[c] = "lock" /\ \A b \in Actors : b # c => pc'[b] = pc[b]
    BY <2>1, StartFacts, ActorFacts
  <2>3. cmd'[c] \in Command /\ \A d \in Conns : d # c => cmd'[d] = cmd[d]
    BY <2>1, Types DEF RunTypes
  <2>4. life'[c] # "none"
    BY <1>4, Types DEF Send, OtherTypes
  <2> QED BY <1>0, <2>2, <2>3, <2>4, ActorFacts, RunOne
<1>5. "cron" \in Actors /\ "acl" \in Actors /\ "cron" \in Admins /\ "acl" \in Admins /\ "cron" \notin Conns /\ "acl" \notin Conns
  BY ActorFacts DEF Admins
<1>6. CASE Begins
  <2>1. CASE KeepaliveStart
    BY <2>1, <1>3, <1>5 DEF KeepaliveStart
  <2>2. CASE AllConnStart
    BY <2>2, <1>3, <1>5 DEF AllConnStart
  <2>3. ASSUME NEW c \in Conns, StartClose(c) PROVE RunInv'
    BY <1>0, <2>3, RunUnchanged DEF StartClose
  <2> QED BY <1>4, <1>6, <2>1, <2>2, <2>3 DEF Begins
<1>7. ASSUME NEW c \in Conns, ConnRuns(c) PROVE RunInv'
  <2>1. c \in Actors /\ c \notin Admins
    BY ActorFacts
  <2>2. CASE Do(c)
    <3>1. pc[c] # "idle" /\ (Finish(c, {}, "log") \/ Finish(c, Keys, "idle"))
      BY <2>2, DoCases DEF Do, PopTaken, PopBlocked, Pushed, PushDo, MoveNothing, Moved
    <3> QED BY <1>0, <2>1, <3>1, RunFinish
  <2>3. CASE ServeToBLrPopWithKeys(c)
    <3>1. pc[c] # "idle" /\ Finish(c, {}, "idle")
      BY <2>3 DEF ServeToBLrPopWithKeys
    <3> QED BY <1>0, <2>1, <3>1, RunFinish
  <2> QED BY <1>1, <1>2, <1>7, <2>1, <2>2, <2>3 DEF ConnRuns
<1>8. ASSUME NEW c \in Conns, Closes(c) PROVE RunInv'
  BY <1>0, <1>8, RunUnchanged DEF Closes, ClosingConnCheck, ClosingConnClean, CronClose
<1>9. ASSUME NEW k \in Keys, TaskRuns(k) PROVE RunInv'
  <2>1. k \in Actors /\ k \notin Admins /\ k \notin Conns
    BY ActorFacts
  <2>2. CASE ServeStart(k)
    BY <2>1, <2>2, <1>3 DEF ServeStart
  <2>3. CASE ServeOne(k)
    BY <1>0, <2>3, RunUnchanged DEF ServeOne
  <2>4. CASE ServeEnd(k)
    <3>1. pc[k] # "idle" /\ (Finish(k, Locks, "idle") \/ Finish(k, {"block"}, "log"))
      BY <2>4 DEF ServeEnd
    <3> QED BY <1>0, <2>1, <3>1, RunFinish
  <2> QED BY <1>1, <1>2, <1>9, <2>1, <2>2, <2>3, <2>4 DEF TaskRuns
<1>10. CASE AdminRuns
  <2>1. CASE KeepaliveCheck
    <3>1. pc["cron"] # "idle" /\ Finish("cron", Locks, "idle")
      BY <2>1 DEF KeepaliveCheck
    <3> QED BY <1>0, <1>5, <3>1, RunFinish
  <2>2. CASE AllConnEnd
    <3>1. pc["acl"] # "idle" /\ Finish("acl", Locks, "idle")
      BY <2>2 DEF AllConnEnd
    <3> QED BY <1>0, <1>5, <3>1, RunFinish
  <2> QED BY <1>1, <1>10, <2>1, <2>2, ActorFacts DEF AdminRuns
<1>11. CASE ScanExpired
  BY <1>0, <1>11, RunUnchanged DEF ScanExpired
<1> QED BY <1>6, <1>7, <1>8, <1>9, <1>10, <1>11 DEF Next

LEMMA OpsUnchanged ==
  ASSUME OpsInv, UNCHANGED <<run, ops>>
  PROVE  OpsInv'
BY DEF OpsInv, Logs, run

LEMMA OpsOne ==
  ASSUME OpsInv, NEW a \in Actors, Logs(a)',
         \A b \in Actors : b # a => pc'[b] = pc[b] /\ held'[b] = held[b] /\ ops'[b] = ops[b]
  PROVE  OpsInv'
<1>1. \A b \in Actors : b # a => Logs(b)'
  BY DEF OpsInv, Logs
<1> QED BY <1>1 DEF OpsInv

(* Nothing is left to be logged. *)
LEMMA LogsNothing ==
  ASSUME NEW a, ops'[a] = <<>>, pc'[a] # "log"
  PROVE  Logs(a)'
BY DEF Logs

LEMMA OpsStart ==
  ASSUME TypeOK, OpsInv, NEW a \in Actors, NEW locks, Start(a, locks), ops' = ops
  PROVE  OpsInv'
<1>1. pc[a] = "idle" /\ pc'[a] = "lock" /\ held' = held /\ \A b \in Actors : b # a => pc'[b] = pc[b]
  BY StartFacts
<1>2. ops[a] = <<>>
  BY <1>1 DEF OpsInv, Logs
<1>3. Logs(a)'
  BY <1>1, <1>2, LogsNothing
<1> QED BY <1>1, <1>3, OpsOne

LEMMA OpsTake ==
  ASSUME TypeOK, OpsInv, NEW a \in Actors, TakeLock(a)
  PROVE  OpsInv'
<1>1. /\ pc[a] = "lock" /\ pc'[a] \in {"lock", "do"}
      /\ \A b \in Actors : b # a => pc'[b] = pc[b] /\ held'[b] = held[b]
  BY TakeFacts
<1>2. ops' = ops
  BY DEF TakeLock
<1>3. ops[a] = <<>>
  BY <1>1 DEF OpsInv, Logs
<1>4. Logs(a)'
  BY <1>1, <1>2, <1>3, LogsNothing
<1> QED BY <1>1, <1>2, <1>4, OpsOne

(* An actor that has nothing to log gives its locks back. *)
LEMMA OpsEnd ==
  ASSUME TypeOK, OpsInv, NEW a \in Actors, ops[a] = <<>>, NEW locks, NEW next, next # "log", Finish(a, locks, next), ops' = ops
  PROVE  OpsInv'
<1>1. pc'[a] = next /\ \A b \in Actors : b # a => pc'[b] = pc[b] /\ held'[b] = held[b]
  BY FinishFacts
<1>2. Logs(a)'
  BY <1>1, LogsNothing
<1> QED BY <1>1, <1>2, OpsOne

(* A command has changed lists whose records it holds. *)
LEMMA OpsDone ==
  ASSUME TypeOK, OpsInv, NEW c \in Conns, Finish(c, {}, "log"), NEW o, o # <<>>, ops' = [ops EXCEPT ![c] = o],
         \A i \in DOMAIN o : o[i].key \in held[c]
  PROVE  OpsInv'
<1>1. c \in Actors
  BY ActorFacts
<1>2. /\ pc'[c] = "log" /\ held'[c] = held[c]
      /\ \A b \in Actors : b # c => pc'[b] = pc[b] /\ held'[b] = held[b]
  BY <1>1, Types DEF Finish, RunTypes
<1>3. ops'[c] = o /\ \A b \in Actors : b # c => ops'[b] = ops[b]
  BY <1>1, Types DEF OtherTypes
<1>4. Logs(c)'
  BY <1>2, <1>3 DEF Logs
<1> QED BY <1>1, <1>2, <1>3, <1>4, OpsOne

LEMMA OpsDo ==
  ASSUME TypeOK, RunInv, LockInv, OpsInv, NEW c \in Conns, Do(c)
  PROVE  OpsInv'
<1>0. pc[c] = "do" /\ c \in Actors /\ c \notin Keys
  BY ActorFacts DEF Do
<1>1. held[c] = ToSet(cmd[c].keys) /\ held[c] \subseteq Keys
  BY <1>0, HeldKeys
<1>2. cmd[c] \in Command
  BY <1>0, Running
<1>3. ops[c] = <<>>
  BY <1>0 DEF OpsInv, Logs
<1>4. CASE PopTaken(c)
  <2> DEFINE op == PopOp(PopKey(c), cmd[c].side)
  <2>1. PopKey(c) \in held[c]
    BY <1>1, <1>2, <1>4, PopKeyFacts DEF PopTaken
  <2>2. op.key = PopKey(c)
    BY DEF PopOp
  <2>3. ops' = [ops EXCEPT ![c] = <<op>>] /\ Finish(c, {}, "log")
    BY <1>4 DEF PopTaken
  <2> HIDE DEF op
  <2>4. <<op>> # <<>> /\ \A i \in DOMAIN <<op>> : <<op>>[i].key \in held[c]
    BY <2>1, <2>2
  <2> QED BY <2>3, <2>4, OpsDone
<1>5. CASE PopBlocked(c)
  BY <1>0, <1>3, <1>5, OpsEnd DEF PopBlocked
<1>6. CASE Pushed(c)
  <2> DEFINE k == cmd[c].keys[1]
             op == PushOp(k, cmd[c].side, pushed + 1)
  <2>1. ops' = [ops EXCEPT ![c] = <<op>>] /\ Finish(c, {}, "log") /\ cmd[c].op \in {"push", "exec"}
    BY <1>6 DEF Pushed, PushDo
  <2>2. op.key = k
    BY DEF PushOp
  <2>3. cmd[c].keys \in Seq(Keys) /\ cmd[c].keys # <<>>
    BY <1>2, CommandFacts
  <2>4. k \in held[c]
    BY <1>1, <2>3, ToSetOf, EmptySeq
  <2> HIDE DEF op, k
  <2>5. <<op>> # <<>> /\ \A i \in DOMAIN <<op>> : <<op>>[i].key \in held[c]
    BY <2>2, <2>4
  <2> QED BY <2>1, <2>5, OpsDone
<1>7. CASE MoveNothing(c)
  BY <1>0, <1>3, <1>7, OpsEnd DEF MoveNothing
<1>8. CASE Moved(c)
  <2> DEFINE from == cmd[c].keys[1]
             to == cmd[c].keys[2]
             one == PopOp(from, "right")
             two == PushOp(to, "left", Last(list[from]))
  <2>1. one.key = from /\ two.key = to /\ cmd[c].keys = <<from, to>> /\ ops' = [ops EXCEPT ![c] = <<one, two>>]
    BY <1>8, MovedFacts
  <2>2. Finish(c, {}, "log")
    BY <1>8 DEF Moved
  <2> HIDE DEF one, two, from, to
  <2>3. from \in ToSet(<<from, to>>) /\ to \in ToSet(<<from, to>>)
    BY DEF ToSet
  <2>4. from \in held[c] /\ to \in held[c]
    BY <1>1, <2>1, <2>3
  <2>5. <<one, two>> # <<>> /\ \A i \in DOMAIN <<one, two>> : <<one, two>>[i].key \in held[c]
    BY <2>1, <2>4
  <2> QED BY <2>1, <2>2, <2>5, OpsDone
<1> QED BY <1>4, <1>5, <1>6, <1>7, <1>8, DoCases

LEMMA BinlogOps ==
  ASSUME TypeOK, OpsInv, NEW a \in Actors, DoBinlog(a)
  PROVE  /\ ops[a] \in Seq(Op) /\ ops[a] # <<>> /\ Head(ops[a]) \in Op /\ Head(ops[a]).key \in held[a]
         /\ ops'[a] = Tail(ops[a]) /\ Tail(ops[a]) \in Seq(Op)
         /\ \A b \in Actors : b # a => ops'[b] = ops[b]
         /\ Len(ops[a]) > 1 => Tail(ops[a]) # <<>>
         /\ ~(Len(ops[a]) > 1) => Tail(ops[a]) = <<>>
         /\ \A i \in DOMAIN Tail(ops[a]) : Tail(ops[a])[i].key \in held[a]
<1> DEFINE o == ops[a]
<1>1. o \in Seq(Op) /\ o # <<>> /\ \A i \in DOMAIN o : o[i].key \in held[a]
  BY Types DEF DoBinlog, OpsInv, Logs, OtherTypes
<1>2. ops'[a] = Tail(o) /\ \A b \in Actors : b # a => ops'[b] = ops[b]
  BY Types DEF DoBinlog, OtherTypes
<1> HIDE DEF o
<1>3. Len(o) \in Nat \ {0} /\ Head(o) = o[1] /\ Head(o) \in Op /\ 1 \in DOMAIN o
  BY <1>1, EmptySeq
<1>4. Tail(o) \in Seq(Op) /\ Len(Tail(o)) = Len(o) - 1 /\ \A i \in 1..(Len(o) - 1) : Tail(o)[i] = o[i + 1]
  BY <1>1, <1>3
<1>5. \A i \in 1..(Len(o) - 1) : i + 1 \in DOMAIN o
  BY <1>1, <1>3
<1>6. DOMAIN Tail(o) = 1..(Len(o) - 1)
  BY <1>3, <1>4
<1>7. \A i \in DOMAIN Tail(o) : Tail(o)[i].key \in held[a]
  BY <1>1, <1>4, <1>5, <1>6
<1>8. Len(o) > 1 => Tail(o) # <<>>
  <2>1. Len(o) > 1 => Len(Tail(o)) # 0
    BY <1>3, <1>4
  <2> QED BY <2>1, <1>4
<1>9. ~(Len(o) > 1) => Tail(o) = <<>>
  <2>1. ~(Len(o) > 1) => Len(Tail(o)) = 0
    BY <1>3, <1>4
  <2> QED BY <2>1, <1>4, EmptySeq
<1> QED BY <1>1, <1>2, <1>3, <1>4, <1>7, <1>8, <1>9 DEF o

LEMMA OpsBinlog ==
  ASSUME TypeOK, OpsInv, NEW a \in Actors, DoBinlog(a)
  PROVE  OpsInv'
<1>1. /\ ops'[a] = Tail(ops[a])
      /\ \A b \in Actors : b # a => ops'[b] = ops[b]
      /\ Len(ops[a]) > 1 => Tail(ops[a]) # <<>>
      /\ ~(Len(ops[a]) > 1) => Tail(ops[a]) = <<>>
      /\ \A i \in DOMAIN Tail(ops[a]) : Tail(ops[a])[i].key \in held[a]
  BY BinlogOps
<1>2. CASE Len(ops[a]) > 1
  <2>1. UNCHANGED <<pc, held>> /\ pc[a] = "log"
    BY <1>2 DEF DoBinlog, run
  <2>2. Logs(a)'
    BY <1>1, <1>2, <2>1 DEF Logs
  <2> QED BY <1>1, <2>1, <2>2, OpsOne
<1>3. CASE ~(Len(ops[a]) > 1)
  <2> DEFINE next == IF a \in Conns /\ cmd[a].op = "exec" THEN "serve" ELSE "idle"
  <2>1. Finish(a, Locks, next) /\ next # "log"
    BY <1>3 DEF DoBinlog
  <2> HIDE DEF next
  <2>2. pc'[a] # "log" /\ \A b \in Actors : b # a => pc'[b] = pc[b] /\ held'[b] = held[b]
    BY <2>1, FinishFacts
  <2>3. Logs(a)'
    BY <1>1, <1>3, <2>2, LogsNothing
  <2> QED BY <1>1, <2>2, <2>3, OpsOne
<1> QED BY <1>2, <1>3

LEMMA OpsServe ==
  ASSUME TypeOK, RunInv, LockInv, OpsInv, NEW k \in Keys, ServeOne(k) \/ ServeEnd(k)
  PROVE  OpsInv'
<1>1. k \in Actors /\ pc[k] = "do" /\ held[k] = {k, "block"} /\ ops[k] \in Seq(Op)
  BY HeldTask, Types DEF ServeOne, ServeEnd, OtherTypes
<1>2. \A i \in DOMAIN ops[k] : ops[k][i].key \in held[k] /\ ops[k][i].key \in Keys
  <2>1. \A i \in DOMAIN ops[k] : ops[k][i] \in Op
    BY <1>1
  <2> QED BY <1>1, <2>1 DEF OpsInv, Logs, Op
<1>3. CASE ServeOne(k)
  <2> DEFINE op == PopOp(k, waiting[k][1].side)
             o == Append(ops[k], op)
  <2>1. op \in Op /\ op.key = k
    BY <1>3, ServeOneFacts DEF PopOp
  <2>2. UNCHANGED <<pc, held>> /\ ops' = [ops EXCEPT ![k] = o]
    BY <1>3 DEF ServeOne, run
  <2> HIDE DEF op
  <2>3. \A i \in DOMAIN o : o[i] = op \/ \E j \in DOMAIN ops[k] : o[i] = ops[k][j]
    BY <1>1, <2>1, AppendProperties
  <2> HIDE DEF o
  <2>4. ops'[k] = o /\ \A b \in Actors : b # k => ops'[b] = ops[b]
    BY <1>1, <2>2, Types DEF OtherTypes
  <2>5. \A i \in DOMAIN o : o[i].key \in held[k]
    BY <1>1, <1>2, <2>1, <2>3
  <2>6. Logs(k)'
    BY <1>1, <2>2, <2>4, <2>5 DEF Logs
  <2> QED BY <1>1, <2>2, <2>4, <2>6, OpsOne
<1>4. CASE ServeEnd(k) /\ ops[k] = <<>>
  BY <1>1, <1>4, OpsEnd DEF ServeEnd
<1>5. CASE ServeEnd(k) /\ ops[k] # <<>>
  <2>1. Finish(k, {"block"}, "log") /\ ops' = ops
    BY <1>5 DEF ServeEnd
  <2>2. /\ pc'[k] = "log" /\ held'[k] = held[k] \ {"block"}
        /\ \A b \in Actors : b # k => pc'[b] = pc[b] /\ held'[b] = held[b]
    BY <1>1, <2>1, FinishFacts
  <2>3. "block" \notin Keys
    BY ActorFacts
  <2>4. \A i \in DOMAIN ops[k] : ops[k][i].key \in held'[k]
    BY <1>2, <2>2, <2>3
  <2>5. Logs(k)'
    BY <1>5, <2>1, <2>2, <2>4 DEF Logs
  <2> QED BY <1>1, <2>1, <2>2, <2>5, OpsOne
<1> QED BY <1>3, <1>4, <1>5

LEMMA OpsStep ==
  ASSUME TypeOK, RunInv, LockInv, OpsInv, Next
  PROVE  OpsInv'
<1>1. "cron" \in Actors /\ "acl" \in Actors /\ "cron" \notin Keys /\ "acl" \notin Keys
  BY ActorFacts DEF Admins
<1>2. CASE Begins
  <2>1. CASE KeepaliveStart
    BY <2>1, <1>1, OpsStart DEF KeepaliveStart
  <2>2. CASE AllConnStart
    BY <2>2, <1>1, OpsStart DEF AllConnStart
  <2>3. ASSUME NEW c \in Conns, StartClose(c) PROVE OpsInv'
    BY <2>3, OpsUnchanged DEF StartClose
  <2>4. ASSUME NEW c \in Conns, Send(c) PROVE OpsInv'
    <3>1. PICK m \in Command : Start(c, RecordLocks(m.keys))
      BY <2>4, SendFacts
    <3>2. ops' = ops
      BY <2>4 DEF Send
    <3> QED BY <3>1, <3>2, OpsStart, ActorFacts
  <2> QED BY <1>2, <2>1, <2>2, <2>3, <2>4 DEF Begins
<1>3. ASSUME NEW c \in Conns, ConnRuns(c) PROVE OpsInv'
  <2>1. c \in Actors
    BY ActorFacts
  <2>2. CASE ServeToBLrPopWithKeys(c)
    <3>1. pc[c] = "serve" /\ Finish(c, {}, "idle") /\ ops' = ops
      BY <2>2 DEF ServeToBLrPopWithKeys
    <3>2. ops[c] = <<>>
      BY <2>1, <3>1 DEF OpsInv, Logs
    <3> QED BY <2>1, <3>1, <3>2, OpsEnd
  <2> QED BY <1>3, <2>1, <2>2, OpsTake, OpsDo, OpsBinlog DEF ConnRuns
<1>4. ASSUME NEW c \in Conns, Closes(c) PROVE OpsInv'
  BY <1>4, OpsUnchanged DEF Closes, ClosingConnCheck, ClosingConnClean, CronClose
<1>5. ASSUME NEW k \in Keys, TaskRuns(k) PROVE OpsInv'
  <2>1. k \in Actors
    BY ActorFacts
  <2>2. CASE ServeStart(k)
    BY <2>1, <2>2, OpsStart DEF ServeStart
  <2> QED BY <1>5, <2>1, <2>2, OpsTake, OpsServe, OpsBinlog DEF TaskRuns
<1>6. CASE AdminRuns
  <2>1. CASE KeepaliveCheck
    <3>1. pc["cron"] = "do" /\ Finish("cron", Locks, "idle") /\ ops' = ops
      BY <2>1 DEF KeepaliveCheck
    <3>2. ops["cron"] = <<>>
      BY <1>1, <3>1 DEF OpsInv, Logs
    <3> QED BY <1>1, <3>1, <3>2, OpsEnd
  <2>2. CASE AllConnEnd
    <3>1. pc["acl"] = "do" /\ Finish("acl", Locks, "idle") /\ ops' = ops
      BY <2>2 DEF AllConnEnd
    <3>2. ops["acl"] = <<>>
      BY <1>1, <3>1 DEF OpsInv, Logs
    <3> QED BY <1>1, <3>1, <3>2, OpsEnd
  <2> QED BY <1>6, <2>1, <2>2, OpsTake, ActorFacts DEF AdminRuns
<1>7. CASE ScanExpired
  BY <1>7, OpsUnchanged DEF ScanExpired
<1> QED BY <1>2, <1>3, <1>4, <1>5, <1>6, <1>7 DEF Next

-----------------------------------------------------------------------------
(* The binlog and the lists *)

(* A lock is taken or given back by an actor that has nothing to log. *)
LEMMA LogStays ==
  ASSUME TypeOK, NEW k \in Keys, LogOf(k), list'[k] = list[k], logged'[k] = logged[k],
         \A a \in Actors : \/ (k \in held[a] <=> k \in held'[a]) /\ ops'[a] = ops[a]
                           \/ ops[a] = <<>> /\ ops'[a] = <<>> /\ (k \in held[a] \/ Free(k))
  PROVE  LogOf(k)'
<1>1. logged[k] \in Seq(Elems)
  BY Types DEF ListTypes
<1>2. Free(k) => logged[k] = list[k]
  BY DEF LogOf
<1>3. \A a \in Actors : k \in held[a] => Replay(k, logged[k], list[k], ops[a])
  BY DEF LogOf
<1>4. \A a \in Actors : ops[a] = <<>> /\ k \in held[a] => logged[k] = list[k]
  BY <1>1, <1>3, ReplayNothing
<1>5. Free(k)' => logged'[k] = list'[k]
  <2> SUFFICES ASSUME Free(k)' PROVE logged[k] = list[k]
    OBVIOUS
  <2>1. CASE Free(k)
    BY <2>1, <1>2
  <2>2. CASE ~Free(k)
    <3>1. PICK a \in Actors : k \in held[a]
      BY <2>2 DEF Free
    <3>2. k \notin held'[a]
      BY DEF Free
    <3> QED BY <3>1, <3>2, <1>4
  <2> QED BY <2>1, <2>2
<1>6. ASSUME NEW a \in Actors, k \in held'[a] PROVE Replay(k, logged'[k], list'[k], ops'[a])
  <2>1. CASE (k \in held[a] <=> k \in held'[a]) /\ ops'[a] = ops[a]
    BY <2>1, <1>3, <1>6
  <2>2. CASE ops[a] = <<>> /\ ops'[a] = <<>> /\ (k \in held[a] \/ Free(k))
    <3>1. logged[k] = list[k]
      BY <2>2, <1>2, <1>4
    <3>2. Replay(k, logged[k], list[k], <<>>)
      BY <3>1, <1>1, ReplayNothing
    <3> QED BY <3>2, <2>2
  <2> QED BY <2>1, <2>2
<1> QED BY <1>5, <1>6 DEF LogOf

LEMMA LogUnchanged ==
  ASSUME TypeOK, LogInv, UNCHANGED <<list, logged, held, ops>>, errors' = errors
  PROVE  LogInv'
<1> SUFFICES ASSUME errors' = 0, NEW k \in Keys PROVE LogOf(k)'
  BY DEF LogInv
<1>1. LogOf(k)
  BY DEF LogInv
<1> QED BY <1>1, LogStays

LEMMA LogTake ==
  ASSUME TypeOK, OpsInv, LogInv, NEW a \in Actors, TakeLock(a)
  PROVE  LogInv'
<1>1. UNCHANGED <<list, logged, errors, ops>>
  BY DEF TakeLock, lists
<1> SUFFICES ASSUME errors' = 0, NEW k \in Keys PROVE LogOf(k)'
  BY DEF LogInv
<1>2. LogOf(k)
  BY <1>1 DEF LogInv
<1>3. /\ pc[a] = "lock" /\ held'[a] = held[a] \cup {Head(plan[a])}
      /\ \A b \in Actors : b # a => held'[b] = held[b]
  BY TakeFacts
<1>4. Free(Head(plan[a])) /\ ops[a] = <<>>
  BY <1>3 DEF TakeLock, OpsInv, Logs
<1>5. \A b \in Actors : \/ (k \in held[b] <=> k \in held'[b]) /\ ops'[b] = ops[b]
                        \/ ops[b] = <<>> /\ ops'[b] = <<>> /\ (k \in held[b] \/ Free(k))
  BY <1>1, <1>3, <1>4
<1> QED BY <1>1, <1>2, <1>5, LogStays

(* An actor that has nothing to log gives its locks back. *)
LEMMA LogEnd ==
  ASSUME TypeOK, LogInv, NEW a \in Actors, ops[a] = <<>>, NEW locks, NEW next, Finish(a, locks, next),
         UNCHANGED <<list, logged, errors, ops>>
  PROVE  LogInv'
<1> SUFFICES ASSUME errors' = 0, NEW k \in Keys PROVE LogOf(k)'
  BY DEF LogInv
<1>1. LogOf(k)
  BY DEF LogInv
<1>2. held'[a] = held[a] \ locks /\ \A b \in Actors : b # a => held'[b] = held[b]
  BY FinishFacts
<1>3. \A b \in Actors : \/ (k \in held[b] <=> k \in held'[b]) /\ ops'[b] = ops[b]
                        \/ ops[b] = <<>> /\ ops'[b] = <<>> /\ (k \in held[b] \/ Free(k))
  BY <1>2
<1> QED BY <1>1, <1>3, LogStays

(* An actor changes lists whose records it holds. *)
LEMMA LogChange ==
  ASSUME TypeOK, LockInv, LogInv, NEW a \in Actors, errors' = errors, logged' = logged,
         \A b \in Actors : held'[b] = held[b], \A b \in Actors : b # a => ops'[b] = ops[b],
         \A k \in Keys : k \notin held[a] => list'[k] = list[k],
         errors = 0 => \A k \in Keys : k \in held[a] => Replay(k, logged[k], list'[k], ops'[a])
  PROVE  LogInv'
<1> SUFFICES ASSUME errors' = 0, NEW k \in Keys PROVE LogOf(k)'
  BY DEF LogInv
<1>1. LogOf(k)
  BY DEF LogInv
<1>2. Free(k)' <=> Free(k)
  BY DEF Free
<1>3. CASE k \in held[a]
  <2>1. ~Free(k)
    BY <1>3 DEF Free
  <2>2. \A b \in Actors : b # a => k \notin held[b]
    BY <1>3 DEF LockInv
  <2>3. Replay(k, logged[k], list'[k], ops'[a])
    BY <1>3
  <2> QED BY <1>2, <2>1, <2>2, <2>3 DEF LogOf
<1>4. CASE k \notin held[a]
  <2>1. list'[k] = list[k] /\ \A b \in Actors : k \in held[b] => ops'[b] = ops[b]
    BY <1>4
  <2> QED BY <1>1, <1>2, <2>1 DEF LogOf
<1> QED BY <1>3, <1>4

LEMMA ReplayOne ==
  ASSUME NEW k, NEW s \in Seq(Elems), NEW op \in Op, EffectAt(k, s, op) \in Seq(Elems)
  PROVE  Replay(k, s, EffectAt(k, s, op), <<op>>)
<1>1. Replay(k, s, s, <<>>) /\ <<>> \in Seq(Op)
  BY ReplayNothing
<1>2. Replay(k, s, EffectAt(k, s, op), Append(<<>>, op))
  BY <1>1, ReplayMore
<1>3. Append(<<>>, op) = <<op>>
  OBVIOUS
<1> QED BY <1>2, <1>3

LEMMA AppendPair ==
  ASSUME NEW S, NEW x \in S, NEW y \in S
  PROVE  Append(<<x>>, y) = <<x, y>>
<1>1. ASSUME NEW s \in Seq(S), Len(s) = 1, NEW t \in Seq(S), Len(t) = 2, t[1] = s[1], t[2] = y
      PROVE  Append(s, y) = t
  <2>1. /\ Append(s, y) \in Seq(S) /\ Len(Append(s, y)) = Len(s) + 1
        /\ \A i \in 1..Len(s) : Append(s, y)[i] = s[i]
        /\ Append(s, y)[Len(s) + 1] = y
    BY AppendProperties
  <2>2. Len(Append(s, y)) = 2 /\ \A i \in 1..2 : Append(s, y)[i] = t[i]
    BY <1>1, <2>1
  <2> QED BY <1>1, <2>1, <2>2, SeqEqual
<1>2. <<x>> \in Seq(S) /\ Len(<<x>>) = 1 /\ <<x>>[1] = x
  OBVIOUS
<1>3. <<x, y>> \in Seq(S) /\ Len(<<x, y>>) = 2 /\ <<x, y>>[1] = x /\ <<x, y>>[2] = y
  OBVIOUS
<1> QED BY <1>1, <1>2, <1>3, Zenon

(* Before a command changes a list whose record it holds, the binlog gives it. *)
LEMMA LoggedBefore ==
  ASSUME TypeOK, LogInv, errors = 0, NEW a \in Actors, ops[a] = <<>>, NEW k \in Keys, k \in held[a]
  PROVE  logged[k] = list[k]
<1>1. Replay(k, logged[k], list[k], <<>>)
  BY DEF LogInv, LogOf
<1>2. logged[k] \in Seq(Elems)
  BY Types DEF ListTypes
<1> QED BY <1>1, <1>2, ReplayNothing

(* A command makes one change. *)
LEMMA LogDoOne ==
  ASSUME TypeOK, LockInv, LogInv, NEW c \in Conns, ops[c] = <<>>, NEW op \in Op, op.key \in held[c],
         \A k \in Keys : list'[k] = EffectAt(k, list[k], op), ops' = [ops EXCEPT ![c] = <<op>>],
         Finish(c, {}, "log"), UNCHANGED <<logged, errors>>
  PROVE  LogInv'
<1>1. c \in Actors
  BY ActorFacts
<1>2. \A b \in Actors : held'[b] = held[b]
  BY <1>1, Types DEF Finish, RunTypes
<1>3. ops'[c] = <<op>> /\ \A b \in Actors : b # c => ops'[b] = ops[b]
  BY <1>1, Types DEF OtherTypes
<1>4. \A k \in Keys : k \notin held[c] => list'[k] = list[k]
  BY DEF EffectAt
<1>5. ASSUME errors = 0, NEW k \in Keys, k \in held[c]
      PROVE  Replay(k, logged[k], list'[k], ops'[c])
  <2>1. logged[k] = list[k]
    BY <1>1, <1>5, LoggedBefore
  <2>2. list[k] \in Seq(Elems)
    BY Types DEF ListTypes
  <2>3. EffectAt(k, list[k], op) \in Seq(Elems)
    BY <2>2, EffectType DEF EffectAt
  <2>4. Replay(k, list[k], EffectAt(k, list[k], op), <<op>>)
    BY <2>2, <2>3, ReplayOne
  <2>5. list'[k] = EffectAt(k, list[k], op)
    OBVIOUS
  <2> QED BY <1>3, <2>1, <2>4, <2>5
<1> QED BY <1>1, <1>2, <1>3, <1>4, <1>5, LogChange

LEMMA LogDo ==
  ASSUME TypeOK, RunInv, LockInv, OpsInv, LogInv, NEW c \in Conns, Do(c)
  PROVE  LogInv'
<1>0. pc[c] = "do" /\ c \in Actors /\ c \notin Keys
  BY ActorFacts DEF Do
<1>1. held[c] = ToSet(cmd[c].keys) /\ held[c] \subseteq Keys
  BY <1>0, HeldKeys
<1>2. cmd[c] \in Command /\ cmd[c].side \in {"left", "right"} /\ cmd[c].keys \in Seq(Keys) /\ cmd[c].keys # <<>>
  BY <1>0, Running, CommandFacts
<1>3. ops[c] = <<>>
  BY <1>0 DEF OpsInv, Logs
<1>4. list \in [Keys -> Seq(Elems)]
  BY Types DEF ListTypes
<1>5. CASE PopTaken(c)
  <2> DEFINE p == PopKey(c)
             op == PopOp(p, cmd[c].side)
  <2>1. p \in held[c] /\ p \in Keys /\ list[p] # <<>>
    BY <1>1, <1>2, <1>5, PopKeyFacts DEF PopTaken
  <2>2. op \in Op /\ op.key = p /\ op.kind = "pop" /\ op.side = cmd[c].side
    <3>1. 1 \in Elems
      BY DEF Elems
    <3> QED BY <1>2, <2>1, <3>1, OpTypes
  <2>3. /\ list' = [list EXCEPT ![p] = Rest(@, cmd[c].side)]
        /\ ops' = [ops EXCEPT ![c] = <<op>>] /\ Finish(c, {}, "log") /\ UNCHANGED <<logged, errors>>
    BY <1>5 DEF PopTaken
  <2> HIDE DEF p, op
  <2>4. \A k \in Keys : list'[k] = EffectAt(k, list[k], op)
    BY <1>4, <2>1, <2>2, <2>3 DEF EffectAt, Effect
  <2> QED BY <1>3, <2>1, <2>2, <2>3, <2>4, LogDoOne
<1>6. CASE PopBlocked(c)
  BY <1>0, <1>3, <1>6, LogEnd DEF PopBlocked
<1>7. CASE Pushed(c)
  <2> DEFINE k0 == cmd[c].keys[1]
             op == PushOp(k0, cmd[c].side, pushed + 1)
  <2>1. /\ list' = [list EXCEPT ![k0] = Put(@, cmd[c].side, pushed + 1)]
        /\ ops' = [ops EXCEPT ![c] = <<op>>] /\ Finish(c, {}, "log") /\ UNCHANGED <<logged, errors>>
    BY <1>7 DEF Pushed, PushDo
  <2>2. k0 \in held[c] /\ k0 \in Keys
    BY <1>1, <1>2, ToSetOf, EmptySeq
  <2>3. op \in Op /\ op.key = k0 /\ op.kind = "push" /\ op.side = cmd[c].side /\ op.elem = pushed + 1
    <3>1. pushed + 1 \in Elems
      BY Types DEF ListTypes, Elems
    <3> QED BY <1>2, <2>2, <3>1, OpTypes
  <2> HIDE DEF k0, op
  <2>4. \A k \in Keys : list'[k] = EffectAt(k, list[k], op)
    BY <1>4, <2>1, <2>2, <2>3 DEF EffectAt, Effect
  <2> QED BY <1>3, <2>1, <2>2, <2>3, <2>4, LogDoOne
<1>8. CASE MoveNothing(c)
  BY <1>0, <1>3, <1>8, LogEnd DEF MoveNothing
<1>9. CASE Moved(c)
  <2> DEFINE from == cmd[c].keys[1]
             to == cmd[c].keys[2]
             one == PopOp(from, "right")
             two == PushOp(to, "left", Last(list[from]))
             mid == Apply(list, one)
  <2>1. /\ one \in Op /\ two \in Op /\ one.key = from /\ two.key = to /\ cmd[c].keys = <<from, to>>
        /\ mid \in [Keys -> Seq(Elems)] /\ list' = Apply(mid, two)
        /\ ops' = [ops EXCEPT ![c] = <<one, two>>]
    BY <1>9, MovedFacts
  <2>2. Finish(c, {}, "log") /\ UNCHANGED <<logged, errors>>
    BY <1>9 DEF Moved
  <2>3. \A k \in Keys : mid[k] = EffectAt(k, list[k], one)
    BY <1>4, <2>1, ApplyFacts
  <2> HIDE DEF one, two, from, to, mid
  <2>4. from \in held[c] /\ to \in held[c]
    <3>1. from \in ToSet(<<from, to>>) /\ to \in ToSet(<<from, to>>)
      BY DEF ToSet
    <3> QED BY <1>1, <2>1, <3>1
  <2>5. \A k \in Keys : list'[k] = EffectAt(k, mid[k], two) /\ list'[k] \in Seq(Elems)
    BY <2>1, ApplyFacts
  <2>6. \A b \in Actors : held'[b] = held[b]
    BY <1>0, <2>2, Types DEF Finish, RunTypes
  <2>7. ops'[c] = <<one, two>> /\ \A b \in Actors : b # c => ops'[b] = ops[b]
    BY <1>0, <2>1, Types DEF OtherTypes
  <2>8. \A k \in Keys : k \notin held[c] => list'[k] = list[k]
    BY <2>1, <2>3, <2>4, <2>5 DEF EffectAt
  <2>9. ASSUME errors = 0, NEW k \in Keys, k \in held[c]
        PROVE  Replay(k, logged[k], list'[k], ops'[c])
    <3>1. logged[k] = list[k] /\ list[k] \in Seq(Elems) /\ mid[k] \in Seq(Elems)
      BY <1>0, <1>3, <1>4, <2>1, <2>9, LoggedBefore
    <3>2. mid[k] = EffectAt(k, list[k], one) /\ list'[k] = EffectAt(k, mid[k], two) /\ list'[k] \in Seq(Elems)
      BY <2>3, <2>5
    <3>3. Replay(k, list[k], mid[k], <<one>>)
      BY <2>1, <3>1, <3>2, ReplayOne
    <3>6. <<one>> \in Seq(Op)
      BY <2>1
    <3>4. <<one>> \in Seq(Op) /\ Append(<<one>>, two) = <<one, two>>
      BY <2>1, <3>6, AppendPair
    <3>5. Replay(k, list[k], list'[k], Append(<<one>>, two))
      BY <2>1, <3>1, <3>2, <3>3, <3>4, ReplayMore
    <3> QED BY <2>7, <3>1, <3>4, <3>5
  <2> QED BY <1>0, <2>2, <2>6, <2>7, <2>8, <2>9, LogChange
<1> QED BY <1>5, <1>6, <1>7, <1>8, <1>9, DoCases

(* A record is written. *)
LEMMA LogBinlog ==
  ASSUME TypeOK, LockInv, OpsInv, LogInv, NEW a \in Actors, DoBinlog(a)
  PROVE  LogInv'
<1> DEFINE op == Head(ops[a])
<1>1. /\ ops[a] \in Seq(Op) /\ ops[a] # <<>> /\ op \in Op /\ op.key \in held[a]
      /\ ops'[a] = Tail(ops[a]) /\ \A b \in Actors : b # a => ops'[b] = ops[b]
      /\ ~(Len(ops[a]) > 1) => Tail(ops[a]) = <<>>
  BY BinlogOps
<1>2. logged' = Apply(logged, op) /\ UNCHANGED <<list, errors>>
  BY DEF DoBinlog
<1>3. logged \in [Keys -> Seq(Elems)] /\ list \in [Keys -> Seq(Elems)]
  BY Types DEF ListTypes
<1> HIDE DEF op
<1>4. \A k \in Keys : logged'[k] = EffectAt(k, logged[k], op) /\ logged'[k] \in Seq(Elems)
  BY <1>1, <1>2, <1>3, ApplyFacts
<1>5. /\ \A b \in Actors : b # a => held'[b] = held[b]
      /\ held'[a] \subseteq held[a]
      /\ Len(ops[a]) > 1 => held'[a] = held[a]
      /\ ~(Len(ops[a]) > 1) => held'[a] = {}
  <2>1. CASE Len(ops[a]) > 1
    BY <2>1 DEF DoBinlog, run
  <2>2. CASE ~(Len(ops[a]) > 1)
    <3>1. PICK next : Finish(a, Locks, next)
      BY <2>2 DEF DoBinlog
    <3>2. held'[a] = held[a] \ Locks /\ \A b \in Actors : b # a => held'[b] = held[b]
      BY <3>1, FinishFacts
    <3>3. held[a] \subseteq Locks
      BY Types DEF RunTypes
    <3> QED BY <2>2, <3>2, <3>3
  <2> QED BY <2>1, <2>2
<1> SUFFICES ASSUME errors' = 0, NEW k \in Keys PROVE LogOf(k)'
  BY DEF LogInv
<1>6. LogOf(k)
  BY <1>2 DEF LogInv
<1>7. CASE k \in held[a]
  <2>1. Replay(k, logged[k], list[k], ops[a])
    BY <1>6, <1>7 DEF LogOf
  <2>2. logged[k] \in Seq(Elems) /\ list[k] \in Seq(Elems)
    BY <1>3
  <2>3. Replay(k, EffectAt(k, logged[k], op), list[k], Tail(ops[a]))
    BY <1>1, <2>1, <2>2, ReplayRest DEF op
  <2>4. Replay(k, logged'[k], list'[k], ops'[a])
    BY <1>1, <1>2, <1>4, <2>3
  <2>5. \A b \in Actors : b # a => k \notin held'[b]
    BY <1>5, <1>7 DEF LockInv
  <2>6. Free(k)' => logged'[k] = list'[k]
    <3> SUFFICES ASSUME Free(k)' PROVE logged'[k] = list'[k]
      OBVIOUS
    <3>1. k \notin held'[a]
      BY DEF Free
    <3>2. ops'[a] = <<>>
      BY <1>1, <1>5, <1>7, <3>1
    <3>3. logged'[k] \in Seq(Elems)
      BY <1>4
    <3> QED BY <2>4, <3>2, <3>3, ReplayNothing
  <2> QED BY <2>4, <2>5, <2>6 DEF LogOf
<1>8. CASE k \notin held[a]
  <2>1. logged'[k] = logged[k]
    BY <1>1, <1>4, <1>8 DEF EffectAt
  <2>2. \A b \in Actors : k \in held'[b] <=> k \in held[b]
    BY <1>5, <1>8
  <2>3. \A b \in Actors : k \in held[b] => ops'[b] = ops[b]
    BY <1>1, <1>8
  <2>4. Free(k)' <=> Free(k)
    BY <2>2 DEF Free
  <2> QED BY <1>2, <1>6, <2>1, <2>2, <2>3, <2>4 DEF LogOf
<1> QED BY <1>7, <1>8

LEMMA LogServe ==
  ASSUME TypeOK, RunInv, LockInv, OpsInv, LogInv, NEW k \in Keys, ServeOne(k) \/ ServeEnd(k)
  PROVE  LogInv'
<1>1. k \in Actors /\ pc[k] = "do" /\ held[k] = {k, "block"} /\ ops[k] \in Seq(Op)
  BY HeldTask, Types DEF ServeOne, ServeEnd, OtherTypes
<1>2. CASE ServeOne(k) /\ errors' # errors
  <2>1. errors' # 0
    BY <1>2, Types DEF ServeOne, ListTypes
  <2> QED BY <2>1 DEF LogInv
<1>3. CASE ServeOne(k) /\ errors' = errors
  <2> DEFINE op == PopOp(k, waiting[k][1].side)
  <2>1. op \in Op /\ op.key = k /\ op.kind = "pop" /\ op.side = waiting[k][1].side /\ list[k] # <<>>
    BY <1>3, ServeOneFacts DEF PopOp
  <2>2. /\ list' = [list EXCEPT ![k] = Rest(@, waiting[k][1].side)]
        /\ held' = held /\ ops' = [ops EXCEPT ![k] = Append(@, op)] /\ logged' = logged
    BY <1>3, Types DEF ServeOne, run, ListTypes
  <2> HIDE DEF op
  <2>3. list \in [Keys -> Seq(Elems)] /\ logged \in [Keys -> Seq(Elems)]
    BY Types DEF ListTypes
  <2>4. \A q \in Keys : list'[q] = EffectAt(q, list[q], op)
    BY <2>1, <2>2, <2>3 DEF EffectAt, Effect
  <2>5. ops'[k] = Append(ops[k], op) /\ \A b \in Actors : b # k => ops'[b] = ops[b]
    BY <1>1, <2>2, Types DEF OtherTypes
  <2>6. \A q \in Keys : q \notin held[k] => list'[q] = list[q]
    BY <1>1, <2>1, <2>4 DEF EffectAt
  <2>7. ASSUME errors = 0, NEW q \in Keys, q \in held[k]
        PROVE  Replay(q, logged[q], list'[q], ops'[k])
    <3>1. Replay(q, logged[q], list[q], ops[k])
      BY <1>1, <2>7 DEF LogInv, LogOf
    <3>2. logged[q] \in Seq(Elems) /\ list[q] \in Seq(Elems)
      BY <2>3
    <3>3. EffectAt(q, list[q], op) \in Seq(Elems)
      BY <2>1, <3>2, EffectType DEF EffectAt
    <3>4. Replay(q, logged[q], EffectAt(q, list[q], op), Append(ops[k], op))
      BY <1>1, <2>1, <3>1, <3>2, <3>3, ReplayMore
    <3>5. list'[q] = EffectAt(q, list[q], op)
      BY <2>4
    <3> QED BY <2>5, <3>4, <3>5
  <2> QED BY <1>1, <1>3, <2>2, <2>5, <2>6, <2>7, LogChange
<1>4. CASE ServeEnd(k) /\ ops[k] = <<>>
  BY <1>1, <1>4, LogEnd DEF ServeEnd, lists
<1>5. CASE ServeEnd(k) /\ ops[k] # <<>>
  <2>1. Finish(k, {"block"}, "log") /\ ops' = ops /\ UNCHANGED <<list, logged, errors>>
    BY <1>5 DEF ServeEnd, lists
  <2>2. held'[k] = held[k] \ {"block"} /\ \A b \in Actors : b # k => held'[b] = held[b]
    BY <1>1, <2>1, FinishFacts
  <2>3. \A q \in Keys : q # "block"
    BY ActorFacts
  <2>4. \A q \in Keys : \A b \in Actors : q \in held[b] <=> q \in held'[b]
    BY <2>2, <2>3
  <2> SUFFICES ASSUME errors' = 0, NEW q \in Keys PROVE LogOf(q)'
    BY DEF LogInv
  <2>5. LogOf(q)
    BY <2>1 DEF LogInv
  <2> QED BY <2>1, <2>4, <2>5, LogStays
<1> QED BY <1>2, <1>3, <1>4, <1>5

LEMMA LogStep ==
  ASSUME TypeOK, RunInv, LockInv, OpsInv, LogInv, Next
  PROVE  LogInv'
<1>1. ASSUME UNCHANGED <<lists, ops>>, held' = held PROVE LogInv'
  <2>1. UNCHANGED <<list, logged, held, ops>> /\ errors' = errors
    BY <1>1 DEF lists
  <2> QED BY <2>1, LogUnchanged
<1>2. "cron" \in Actors /\ "acl" \in Actors /\ "cron" \notin Keys /\ "acl" \notin Keys
  BY ActorFacts DEF Admins
<1>3. CASE Begins
  <2>1. CASE KeepaliveStart \/ AllConnStart
    BY <2>1, <1>1 DEF KeepaliveStart, AllConnStart, Start
  <2>2. ASSUME NEW c \in Conns, StartClose(c) PROVE LogInv'
    BY <2>2, <1>1 DEF StartClose, run
  <2>3. ASSUME NEW c \in Conns, Send(c) PROVE LogInv'
    BY <2>3, <1>1 DEF Send, Start
  <2> QED BY <1>3, <2>1, <2>2, <2>3 DEF Begins
<1>4. ASSUME NEW c \in Conns, ConnRuns(c) PROVE LogInv'
  <2>1. c \in Actors
    BY ActorFacts
  <2>2. CASE ServeToBLrPopWithKeys(c)
    <3>1. pc[c] = "serve" /\ Finish(c, {}, "idle") /\ UNCHANGED <<list, logged, errors, ops>>
      BY <2>2 DEF ServeToBLrPopWithKeys, lists
    <3>2. ops[c] = <<>>
      BY <2>1, <3>1 DEF OpsInv, Logs
    <3> QED BY <2>1, <3>1, <3>2, LogEnd
  <2> QED BY <1>4, <2>1, <2>2, LogTake, LogDo, LogBinlog DEF ConnRuns
<1>5. ASSUME NEW c \in Conns, Closes(c) PROVE LogInv'
  BY <1>5, <1>1 DEF Closes, ClosingConnCheck, ClosingConnClean, CronClose, run
<1>6. ASSUME NEW k \in Keys, TaskRuns(k) PROVE LogInv'
  <2>1. k \in Actors
    BY ActorFacts
  <2>2. CASE ServeStart(k)
    BY <2>2, <1>1 DEF ServeStart, Start
  <2> QED BY <1>6, <2>1, <2>2, LogTake, LogServe, LogBinlog DEF TaskRuns
<1>7. CASE AdminRuns
  <2>1. CASE KeepaliveCheck
    <3>1. pc["cron"] = "do" /\ Finish("cron", Locks, "idle") /\ UNCHANGED <<list, logged, errors, ops>>
      BY <2>1 DEF KeepaliveCheck, lists
    <3>2. ops["cron"] = <<>>
      BY <1>2, <3>1 DEF OpsInv, Logs
    <3> QED BY <1>2, <3>1, <3>2, LogEnd
  <2>2. CASE AllConnEnd
    <3>1. pc["acl"] = "do" /\ Finish("acl", Locks, "idle") /\ UNCHANGED <<list, logged, errors, ops>>
      BY <2>2 DEF AllConnEnd, lists
    <3>2. ops["acl"] = <<>>
      BY <1>2, <3>1 DEF OpsInv, Logs
    <3> QED BY <1>2, <3>1, <3>2, LogEnd
  <2> QED BY <1>7, <2>1, <2>2, LogTake, ActorFacts DEF AdminRuns
<1>8. CASE ScanExpired
  BY <1>8, <1>1 DEF ScanExpired, run
<1> QED BY <1>3, <1>4, <1>5, <1>6, <1>7, <1>8 DEF Next

-----------------------------------------------------------------------------
(* Descriptors *)

LEMMA LifeStep ==
  ASSUME TypeOK, LifeInv, Next
  PROVE  LifeInv'
<1>0. life \in [Conns -> {"none", "open", "check", "clean", "waiting", "ready", "closed"}]
  BY Types DEF OtherTypes
<1>1. ASSUME life' = life PROVE LifeInv'
  BY <1>1 DEF LifeInv
<1>2. ASSUME NEW c \in Conns, life[c] \notin {"none", "closed"}, NEW s, life' = [life EXCEPT ![c] = s] PROVE LifeInv'
  <2> SUFFICES ASSUME NEW d \in Conns, NEW e \in Conns, d # e, FdOf[d] = FdOf[e]
               PROVE  life'[d] \in {"none", "closed"} \/ life'[e] \in {"none", "closed"}
    BY DEF LifeInv
  <2>1. life[d] \in {"none", "closed"} \/ life[e] \in {"none", "closed"}
    BY DEF LifeInv
  <2>2. \A x \in Conns : x # c => life'[x] = life[x]
    BY <1>0, <1>2
  <2>3. CASE d = c
    BY <2>1, <2>2, <2>3, <1>2
  <2>4. CASE e = c
    BY <2>1, <2>2, <2>4, <1>2
  <2>5. CASE d # c /\ e # c
    BY <2>1, <2>2, <2>5
  <2> QED BY <2>3, <2>4, <2>5
<1>3. ASSUME NEW c \in Conns, Send(c) PROVE LifeInv'
  <2>1. life' = [life EXCEPT ![c] = "open"] /\ Accepted(c)
    BY <1>3 DEF Send
  <2>2. CASE life[c] = "open"
    BY <2>1, <2>2, <1>2
  <2>3. CASE life[c] # "open"
    <3>1. \A d \in Conns \ {c} : FdOf[d] = FdOf[c] => life[d] \in {"none", "closed"}
      BY <2>1, <2>3 DEF Accepted
    <3>2. \A d \in Conns : d # c => life'[d] = life[d]
      BY <1>0, <2>1
    <3> QED BY <3>1, <3>2 DEF LifeInv
  <2> QED BY <2>2, <2>3
<1>4. ASSUME NEW c \in Conns, StartClose(c) \/ Closes(c) PROVE LifeInv'
  <2>1. life[c] \notin {"none", "closed"} /\ \E s : life' = [life EXCEPT ![c] = s]
    BY <1>4 DEF StartClose, Closes, ClosingConnCheck, ClosingConnClean, CronClose
  <2> QED BY <2>1, <1>2
<1>5. CASE KeepaliveCheck
  <2>1. CASE UNCHANGED conn
    BY <2>1, <1>1 DEF conn
  <2>2. CASE ~UNCHANGED conn
    <3>1. PICK c \in Closing : life[c] = "open" /\ life' = [life EXCEPT ![c] = "check"]
      BY <1>5, <2>2 DEF KeepaliveCheck
    <3>2. c \in Conns
      BY BlockingAssumption
    <3> QED BY <3>1, <3>2, <1>2
  <2> QED BY <2>1, <2>2
<1>6. CASE Begins
  <2>1. CASE KeepaliveStart \/ AllConnStart
    BY <2>1, <1>1 DEF KeepaliveStart, AllConnStart, conn
  <2> QED BY <1>6, <2>1, <1>3, <1>4 DEF Begins
<1>7. ASSUME NEW c \in Conns, ConnRuns(c) PROVE LifeInv'
  BY <1>7, <1>1 DEF ConnRuns, TakeLock, Do, DoBinlog, ServeToBLrPopWithKeys, conn
<1>8. ASSUME NEW k \in Keys, TaskRuns(k) PROVE LifeInv'
  BY <1>8, <1>1 DEF TaskRuns, ServeStart, TakeLock, ServeOne, ServeEnd, DoBinlog, conn
<1>9. CASE AdminRuns
  BY <1>9, <1>1, <1>5 DEF AdminRuns, TakeLock, AllConnEnd, conn
<1>10. CASE ScanExpired
  BY <1>10, <1>1 DEF ScanExpired, conn
<1> QED BY <1>4, <1>6, <1>7, <1>8, <1>9, <1>10 DEF Next

-----------------------------------------------------------------------------
(* The order of the nodes *)

LEMMA IdErase ==
  ASSUME TypeOK, TypeOK', IdInv, serial' = serial, NEW f, \A q \in Keys : Erases(waiting[q], waiting'[q], f)
  PROVE  IdInv'
<1> SUFFICES ASSUME NEW k \in Keys
             PROVE  /\ \A i, j \in DOMAIN waiting'[k] : i < j => waiting'[k][i].id < waiting'[k][j].id
                    /\ \A i \in DOMAIN waiting'[k] : waiting'[k][i].id <= serial'
  BY DEF IdInv
<1>1. waiting[k] \in Seq(Node) /\ waiting'[k] \in Seq(Node) /\ Thinned(waiting[k], waiting'[k])
  BY Types DEF MapTypes, Erases
<1>2. \A i, j \in DOMAIN waiting[k] : i < j => waiting[k][i].id < waiting[k][j].id
  BY DEF IdInv
<1>3. ASSUME NEW s \in Seq(Node), NEW t \in Seq(Node), Thinned(s, t), \A i, j \in DOMAIN s : i < j => s[i].id < s[j].id
      PROVE  /\ \A j \in DOMAIN t : \E i \in DOMAIN s : t[j] = s[i]
             /\ \A i, j \in DOMAIN t : i < j => t[i].id < t[j].id
  <2>1. /\ \A j \in DOMAIN t : \E i \in DOMAIN s : t[j] = s[i]
        /\ (\A i, j \in DOMAIN s : i < j => s[i].id < s[j].id)
             => \A i, j \in DOMAIN t : i < j => t[i].id < t[j].id
    BY <1>3, ThinnedOrder
  <2> QED BY <1>3, <2>1
<1>4. /\ \A j \in DOMAIN waiting'[k] : \E i \in DOMAIN waiting[k] : waiting'[k][j] = waiting[k][i]
      /\ \A i, j \in DOMAIN waiting'[k] : i < j => waiting'[k][i].id < waiting'[k][j].id
  BY <1>1, <1>2, <1>3
<1>5. \A i \in DOMAIN waiting'[k] : waiting'[k][i].id <= serial'
  BY <1>4 DEF IdInv
<1> QED BY <1>4, <1>5

LEMMA IdUnchanged ==
  ASSUME IdInv, UNCHANGED <<waiting, serial>>
  PROVE  IdInv'
BY DEF IdInv

LEMMA IdBlock ==
  ASSUME TypeOK, RunInv, IdInv, NEW c \in Conns, PopBlocked(c)
  PROVE  IdInv'
<1> DEFINE n == [id |-> serial + 1, conn |-> c, keys |-> ToSet(cmd[c].keys), side |-> cmd[c].side, timed |-> cmd[c].timed]
<1>1. cmd[c] \in Command
  BY Running DEF PopBlocked
<1>2. /\ n \in Node /\ n.id = serial + 1 /\ serial' = serial + 1
      /\ \A k \in n.keys : waiting'[k] = Append(waiting[k], n)
      /\ \A k \in Keys \ n.keys : waiting'[k] = waiting[k]
  BY <1>1, BlockFacts, Types DEF PopBlocked
<1> HIDE DEF n
<1>3. serial \in Nat /\ serial' = serial + 1
  BY <1>2, Types DEF MapTypes
<1> SUFFICES ASSUME NEW k \in Keys
             PROVE  /\ \A i, j \in DOMAIN waiting'[k] : i < j => waiting'[k][i].id < waiting'[k][j].id
                    /\ \A i \in DOMAIN waiting'[k] : waiting'[k][i].id <= serial'
  BY DEF IdInv
<1>4. waiting[k] \in Seq(Node)
  BY Types DEF MapTypes
<1>5. \A i \in DOMAIN waiting[k] : waiting[k][i].id <= serial /\ waiting[k][i].id \in Nat
  <2>1. \A i \in DOMAIN waiting[k] : waiting[k][i] \in Node
    BY <1>4
  <2> QED BY <2>1, FdFacts DEF IdInv
<1>6. \A i, j \in DOMAIN waiting[k] : i < j => waiting[k][i].id < waiting[k][j].id
  BY DEF IdInv
<1>7. CASE k \notin n.keys
  <2>1. waiting'[k] = waiting[k]
    BY <1>2, <1>7
  <2>2. \A i \in DOMAIN waiting[k] : waiting[k][i].id <= serial'
    BY <1>3, <1>5
  <2> QED BY <2>1, <2>2, <1>6
<1>8. CASE k \in n.keys
  <2> DEFINE s == waiting[k]
             l == Len(s)
             t == Append(s, n)
  <2>1. waiting'[k] = t
    BY <1>2, <1>8
  <2>2. l \in Nat /\ DOMAIN s = 1..l /\ DOMAIN t = 1..(l + 1) /\ t[l + 1] = n /\ \A i \in 1..l : t[i] = s[i]
    BY <1>2, <1>4, AppendProperties
  <2> HIDE DEF s, t, l
  <2>3. \A i \in 1..l : t[i].id < n.id /\ t[i].id <= serial'
    BY <1>2, <1>3, <1>5, <2>2 DEF s
  <2>4. \A i, j \in 1..l : i < j => t[i].id < t[j].id
    BY <1>6, <2>2 DEF s
  <2>5. \A i \in 1..(l + 1) : i = l + 1 \/ i \in 1..l
    BY <2>2
  <2>6. \A i, j \in 1..(l + 1) : i < j => t[i].id < t[j].id
    <3> SUFFICES ASSUME NEW i \in 1..(l + 1), NEW j \in 1..(l + 1), i < j PROVE t[i].id < t[j].id
      OBVIOUS
    <3>1. i \in 1..l
      BY <2>2
    <3>2. CASE j = l + 1
      BY <3>1, <3>2, <2>2, <2>3
    <3>3. CASE j \in 1..l
      BY <3>1, <3>3, <2>4
    <3> QED BY <3>2, <3>3, <2>5
  <2>7. \A i \in 1..(l + 1) : t[i].id <= serial'
    <3>1. t[l + 1].id <= serial'
      BY <1>2, <1>3, <2>2
    <3> QED BY <3>1, <2>3, <2>5
  <2> QED BY <2>1, <2>2, <2>6, <2>7
<1> QED BY <1>7, <1>8

(* ClosingConnClean as it changes the maps. *)
LEMMA CleanStep ==
  ASSUME TypeOK, NEW c \in Conns, ClosingConnClean(c)
  PROVE  /\ FdOf[c] \in Fds /\ \A q \in Keys : Erases(waiting[q], waiting'[q], FdOf[c])
         /\ waiting' = CleanWaitNode(waiting, FdOf[c])
         /\ keysOf' = [keysOf EXCEPT ![FdOf[c]] = <<>>] /\ owed' = {n \in owed : n.conn # c}
         /\ UNCHANGED <<serial, pipelined, late, dangling>>
<1>1. FdOf[c] \in Fds
  BY FdFacts
<1>2. waiting \in [Keys -> Seq(Node)]
  BY Types DEF MapTypes
<1> QED BY <1>1, <1>2, CleanFacts DEF ClosingConnClean

(* The steps that change the maps. *)
LEMMA MapCases ==
  ASSUME Next
  PROVE  \/ UNCHANGED maps
         \/ \E c \in Conns : PopBlocked(c) \/ ClosingConnCheck(c) \/ ClosingConnClean(c)
         \/ UNCHANGED conn /\ \E k \in Keys : \E i \in DOMAIN waiting[k] : Unblock(k, i)
         \/ \E k \in Keys : ServeOne(k)
<1>1. CASE Begins
  BY <1>1 DEF Begins, Send, StartClose, KeepaliveStart, AllConnStart
<1>2. ASSUME NEW c \in Conns, ConnRuns(c) PROVE UNCHANGED maps \/ PopBlocked(c)
  BY <1>2, DoCases DEF ConnRuns, TakeLock, DoBinlog, ServeToBLrPopWithKeys, PopTaken, Pushed, PushDo, MoveNothing, Moved
<1>3. ASSUME NEW c \in Conns, Closes(c) PROVE UNCHANGED maps \/ ClosingConnCheck(c) \/ ClosingConnClean(c)
  BY <1>3 DEF Closes, CronClose
<1>4. ASSUME NEW k \in Keys, TaskRuns(k) PROVE UNCHANGED maps \/ ServeOne(k)
  BY <1>4 DEF TaskRuns, ServeStart, TakeLock, ServeEnd, DoBinlog
<1>5. CASE AdminRuns
  BY <1>5 DEF AdminRuns, TakeLock, KeepaliveCheck, AllConnEnd
<1>6. CASE ScanExpired
  BY <1>6 DEF ScanExpired
<1> QED BY <1>1, <1>2, <1>3, <1>4, <1>5, <1>6 DEF Next

LEMMA IdStep ==
  ASSUME TypeOK, TypeOK', RunInv, IdInv, Next
  PROVE  IdInv'
<1>1. CASE UNCHANGED maps
  BY <1>1, IdUnchanged DEF maps
<1>2. ASSUME NEW c \in Conns, PopBlocked(c) PROVE IdInv'
  BY <1>2, IdBlock
<1>3. ASSUME NEW c \in Conns, ClosingConnCheck(c) PROVE IdInv'
  BY <1>3, IdUnchanged DEF ClosingConnCheck
<1>4. ASSUME NEW c \in Conns, ClosingConnClean(c) PROVE IdInv'
  BY <1>4, CleanStep, IdErase
<1>5. ASSUME NEW k \in Keys, NEW i \in DOMAIN waiting[k], Unblock(k, i) PROVE IdInv'
  <2>1. MapTypes
    BY Types
  <2>2. serial' = serial /\ \A q \in Keys : Erases(waiting[q], waiting'[q], FdOf[waiting[k][i].conn])
    BY <1>5, <2>1, UnblockFacts
  <2> QED BY <2>2, IdErase
<1>6. ASSUME NEW k \in Keys, ServeOne(k) PROVE IdInv'
  BY <1>5, <1>6, ServeOneFacts
<1> QED BY <1>1, <1>2, <1>3, <1>4, <1>5, <1>6, MapCases

-----------------------------------------------------------------------------
(* The two maps *)

Live == {"open", "check", "clean"}

(* Of the descriptor no node and no command has gone, and none has come. *)
NodesStay(g) ==
  \A k \in Keys : \A i \in DOMAIN waiting[k] :
    FdOf[waiting[k][i].conn] = g => \E j \in DOMAIN waiting'[k] : waiting'[k][j] = waiting[k][i]

Untouched(g) ==
  /\ keysOf'[g] = keysOf[g]
  /\ NodesStay(g)
  /\ \A k \in Keys : \A j \in DOMAIN waiting'[k] :
       FdOf[waiting'[k][j].conn] = g => \E i \in DOMAIN waiting[k] : waiting[k][i] = waiting'[k][j]
  /\ \A m \in owed \cup owed' : FdOf[m.conn] = g => m \in owed /\ m \in owed'
  /\ \A c \in Conns : FdOf[c] = g /\ life[c] \in Live => life'[c] \in Live

LEMMA UntouchedMap ==
  ASSUME TypeOK, NEW g \in Fds, Untouched(g), MapOf(g)
  PROVE  MapOf(g)'
<1>1. CASE NoEntry(g)
  <2>1. keysOf'[g] = <<>>
    BY <1>1 DEF NoEntry, Untouched
  <2>2. \A k \in Keys : \A j \in DOMAIN waiting'[k] : FdOf[waiting'[k][j].conn] # g
    BY <1>1 DEF NoEntry, Untouched, NodeOfFd
  <2>3. \A m \in owed' : FdOf[m.conn] # g
    BY <1>1 DEF NoEntry, Untouched
  <2> QED BY <2>1, <2>2, <2>3 DEF MapOf, NoEntry, NodeOfFd
<1>2. ASSUME NEW n \in owed, Entered(g, n) PROVE MapOf(g)'
  <2>1. FdOf[n.conn] = g /\ n.conn \in Conns /\ n.keys \subseteq Keys
    BY <1>2, FdFacts, Types DEF Entered, MapTypes
  <2>2. n \in owed' /\ life'[n.conn] \in Live
    BY <1>2, <2>1 DEF Entered, Untouched, Live
  <2>3. keysOf'[g] # <<>> /\ ToSet(keysOf'[g]) = n.keys
    BY <1>2 DEF Entered, Untouched
  <2>4. \A m \in owed' : FdOf[m.conn] = g => m = n
    BY <1>2 DEF Entered, Untouched
  <2>5. ASSUME NEW k \in Keys, NEW j \in DOMAIN waiting'[k], FdOf[waiting'[k][j].conn] = g
        PROVE  waiting'[k][j] = n /\ k \in n.keys
    <3>1. PICK i \in DOMAIN waiting[k] : waiting[k][i] = waiting'[k][j]
      BY <2>5 DEF Untouched
    <3> QED BY <1>2, <2>5, <3>1 DEF Entered, NodeOfFd
  <2>6. ASSUME NEW k \in n.keys PROVE \E j \in DOMAIN waiting'[k] : waiting'[k][j] = n
    <3>1. PICK i \in DOMAIN waiting[k] : waiting[k][i] = n
      BY <1>2, <2>6 DEF Entered
    <3>2. \E j \in DOMAIN waiting'[k] : waiting'[k][j] = waiting[k][i]
      BY <2>1, <3>1 DEF Untouched, NodesStay
    <3> QED BY <3>1, <3>2
  <2>7. Entered(g, n)'
    BY <2>1, <2>2, <2>3, <2>4, <2>5, <2>6 DEF Entered, NodeOfFd, Live
  <2> QED BY <2>2, <2>7 DEF MapOf
<1> QED BY <1>1, <1>2 DEF MapOf

(* The nodes of another descriptor are not erased. *)
LEMMA ErasesOthers ==
  ASSUME TypeOK, TypeOK', NEW f, \A q \in Keys : Erases(waiting[q], waiting'[q], f), NEW g, g # f
  PROVE  /\ NodesStay(g)
         /\ \A k \in Keys : \A j \in DOMAIN waiting'[k] :
              \E i \in DOMAIN waiting[k] : waiting[k][i] = waiting'[k][j]
<1>1. \A k \in Keys : waiting[k] \in Seq(Node) /\ waiting'[k] \in Seq(Node)
  BY Types DEF MapTypes
<1>2. NodesStay(g)
  BY DEF NodesStay, Erases
<1>3. ASSUME NEW s \in Seq(Node), NEW t \in Seq(Node), Thinned(s, t)
      PROVE  \A j \in DOMAIN t : \E i \in DOMAIN s : s[i] = t[j]
  <2>1. \A j \in DOMAIN t : \E i \in DOMAIN s : t[j] = s[i]
    BY <1>3, ThinnedOrder
  <2> QED BY <2>1
<1>4. \A k \in Keys : Thinned(waiting[k], waiting'[k])
  BY DEF Erases
<1> QED BY <1>1, <1>2, <1>3, <1>4

(* A descriptor has one node in the waiting list of each of its keys. *)
LEMMA OneNode ==
  ASSUME TypeOK, IdInv, NEW f, NEW n \in owed, Entered(f, n), NEW k \in Keys,
         NEW i \in DOMAIN waiting[k], NodeOfFd(k, i, f), NEW j \in DOMAIN waiting[k], NodeOfFd(k, j, f)
  PROVE  i = j
<1>1. waiting[k][i] = n /\ waiting[k][j] = n
  BY DEF Entered
<1>2. n.id \in Nat /\ i \in Nat /\ j \in Nat
  <2>1. waiting[k] \in Seq(Node) /\ n \in Node
    BY Types DEF MapTypes
  <2> QED BY <2>1, FdFacts
<1>3. ~(i < j) /\ ~(j < i)
  BY <1>1, <1>2 DEF IdInv
<1> QED BY <1>2, <1>3

(* EraseFirst leaves no node of the descriptor. *)
LEMMA EraseOnly ==
  ASSUME NEW s \in Seq(Node), NEW f, \A i, j \in DOMAIN s : FdOf[s[i].conn] = f /\ FdOf[s[j].conn] = f => i = j
  PROVE  \A j \in DOMAIN EraseFirst(s, f) : FdOf[EraseFirst(s, f)[j].conn] # f
<1>1. CASE \A i \in DOMAIN s : FdOf[s[i].conn] # f
  <2>1. EraseFirst(s, f) = s
    BY <1>1, EraseFirstFacts
  <2> QED BY <1>1, <2>1
<1>2. CASE \E i \in DOMAIN s : FdOf[s[i].conn] = f
  <2>1. PICK i \in DOMAIN s : FdOf[s[i].conn] = f /\ EraseFirst(s, f) = RemoveAt(s, i)
    BY <1>2, EraseFirstFacts
  <2>2. \A j \in DOMAIN s : FdOf[s[j].conn] = f => j = i
    BY <2>1
  <2>3. \A j \in DOMAIN RemoveAt(s, i) : FdOf[RemoveAt(s, i)[j].conn] # f
    BY <2>2, RemoveOnly
  <2> QED BY <2>1, <2>3
<1> QED BY <1>1, <1>2

(* Unblock: the descriptor is forgotten, and the loop keeps its node. *)
LEMMA UnblockEntry ==
  ASSUME TypeOK, IdInv, MapInv, NEW k \in Keys, NEW i \in DOMAIN waiting[k], Unblock(k, i),
         NEW n, n = waiting[k][i], NEW f, f = FdOf[n.conn], RegularFd(f)
  PROVE  NoEntry(f)' /\ ~dangling'
<1> DEFINE rest == [waiting EXCEPT ![k] = RemoveAt(@, i)]
<1>0. /\ n \in Node /\ f \in Fds /\ waiting[k] \in Seq(Node)
      /\ keysOf' = [keysOf EXCEPT ![f] = <<>>] /\ owed' = owed \ {n}
      /\ waiting' = CleanWaitNode(rest, f)
  BY UnblockFacts, Types
<1>1. waiting \in [Keys -> Seq(Node)] /\ keysOf \in [Fds -> Seq(Keys)]
  BY Types DEF MapTypes
<1>2. NodeOfFd(k, i, f)
  BY DEF NodeOfFd
<1>3. PICK m \in owed : Entered(f, m)
  BY <1>0, <1>2 DEF MapInv, MapOf, NoEntry
<1>4. m = n /\ k \in n.keys /\ Entered(f, n) /\ n \in owed
  BY <1>2, <1>3 DEF Entered
<1>5. \A q \in Keys : \A a, b \in DOMAIN waiting[q] : FdOf[waiting[q][a].conn] = f /\ FdOf[waiting[q][b].conn] = f => a = b
  BY <1>4, OneNode DEF NodeOfFd
<1>6. \A q \in Keys : Contains(keysOf[f], q) <=> q \in n.keys
  <2>1. keysOf[f] \in Seq(Keys) /\ ToSet(keysOf[f]) = n.keys
    BY <1>0, <1>1, <1>4 DEF Entered
  <2> QED BY <2>1, ToSetOf
<1>7. /\ rest[k] = RemoveAt(waiting[k], i) /\ rest[k] \in Seq(Node)
      /\ \A q \in Keys : q # k => rest[q] = waiting[q]
  BY <1>0, <1>1, RemoveAtFacts
<1>8. \A j \in DOMAIN rest[k] : FdOf[rest[k][j].conn] # f
  <2>1. \A j \in DOMAIN waiting[k] : FdOf[waiting[k][j].conn] = f => j = i
    BY <1>2, <1>5 DEF NodeOfFd
  <2>2. \A j \in DOMAIN RemoveAt(waiting[k], i) : FdOf[RemoveAt(waiting[k], i)[j].conn] # f
    BY <1>0, <2>1, RemoveOnly
  <2> QED BY <1>7, <2>2
<1>9. \A q \in Keys : waiting'[q] = IF q \in n.keys THEN EraseFirst(rest[q], f) ELSE rest[q]
  BY <1>0, <1>6 DEF CleanWaitNode
<1>10. dangling' = /\ Contains(keysOf[FdOf[waiting[k][i].conn]], k)
                   /\ i \in DOMAIN rest[k]
                   /\ SelectInSeq(rest[k], LAMBDA x : FdOf[x.conn] = FdOf[waiting[k][i].conn]) = i
  BY Zenon DEF Unblock
<1> HIDE DEF rest
<1>11. \A q \in Keys : \A j \in DOMAIN waiting'[q] : FdOf[waiting'[q][j].conn] # f
  <2> SUFFICES ASSUME NEW q \in Keys PROVE \A j \in DOMAIN waiting'[q] : FdOf[waiting'[q][j].conn] # f
    OBVIOUS
  <2>1. CASE q = k
    <3>1. EraseFirst(rest[k], f) = rest[k]
      BY <1>7, <1>8, EraseFirstFacts
    <3> QED BY <2>1, <3>1, <1>4, <1>8, <1>9
  <2>2. CASE q # k /\ q \in n.keys
    <3>1. waiting'[q] = EraseFirst(waiting[q], f) /\ waiting[q] \in Seq(Node)
      BY <2>2, <1>1, <1>7, <1>9
    <3>2. \A a, b \in DOMAIN waiting[q] : FdOf[waiting[q][a].conn] = f /\ FdOf[waiting[q][b].conn] = f => a = b
      BY <1>5
    <3>3. \A j \in DOMAIN EraseFirst(waiting[q], f) : FdOf[EraseFirst(waiting[q], f)[j].conn] # f
      BY <3>1, <3>2, EraseOnly
    <3> QED BY <3>1, <3>3
  <2>3. CASE q # k /\ q \notin n.keys
    <3>1. waiting'[q] = waiting[q]
      BY <2>3, <1>7, <1>9
    <3> QED BY <2>3, <3>1, <1>4 DEF Entered, NodeOfFd
  <2> QED BY <2>1, <2>2, <2>3
<1>12. ~dangling'
  <2>1. {j \in 1..Len(rest[k]) : FdOf[rest[k][j].conn] = FdOf[waiting[k][i].conn]} = {}
    BY <1>7, <1>8
  <2>2. SelectInSeq(rest[k], LAMBDA x : FdOf[x.conn] = FdOf[waiting[k][i].conn]) = 0
    BY <2>1 DEF SelectInSeq
  <2>3. i # 0
    BY <1>0
  <2> QED BY <1>10, <2>2, <2>3
<1>13. keysOf'[f] = <<>>
  BY <1>0, <1>1
<1>14. \A x \in owed' : FdOf[x.conn] # f
  BY <1>0, <1>4 DEF Entered
<1>15. NoEntry(f)'
  BY <1>11, <1>13, <1>14 DEF NoEntry, NodeOfFd
<1> QED BY <1>12, <1>15

LEMMA UnblockMap ==
  ASSUME TypeOK, TypeOK', IdInv, MapInv, NEW k \in Keys, NEW i \in DOMAIN waiting[k], Unblock(k, i), UNCHANGED conn
  PROVE  MapInv' /\ (dangling' => pipelined' \cup late' # {})
<1>0. PICK n \in Node, f \in Fds : n = waiting[k][i] /\ f = FdOf[n.conn]
  <2>1. waiting[k] \in Seq(Node)
    BY Types DEF MapTypes
  <2> QED BY <2>1, FdFacts
<1>1. /\ \A q \in Keys : Erases(waiting[q], waiting'[q], f)
      /\ keysOf' = [keysOf EXCEPT ![f] = <<>>] /\ owed' = owed \ {n}
      /\ pipelined' = pipelined /\ late' = late
  <2>1. MapTypes
    BY Types
  <2>2. \A q \in Keys : Erases(waiting[q], waiting'[q], FdOf[waiting[k][i].conn])
    BY <2>1, UnblockFacts
  <2>3. keysOf' = [keysOf EXCEPT ![FdOf[waiting[k][i].conn]] = <<>>] /\ owed' = owed \ {waiting[k][i]}
    BY DEF Unblock
  <2>4. pipelined' = pipelined /\ late' = late
    BY DEF Unblock
  <2> QED BY <1>0, <2>2, <2>3, <2>4
<1>2. RegularFd(f) => NoEntry(f)' /\ ~dangling'
  BY <1>0, UnblockEntry
<1>3. keysOf \in [Fds -> Seq(Keys)]
  BY Types DEF MapTypes
<1>4. ASSUME NEW g \in Fds, g # f PROVE Untouched(g)
  <2>1. NodesStay(g) /\ \A q \in Keys : \A j \in DOMAIN waiting'[q] : \E a \in DOMAIN waiting[q] : waiting[q][a] = waiting'[q][j]
    BY <1>1, <1>4, ErasesOthers
  <2>2. keysOf'[g] = keysOf[g]
    BY <1>1, <1>3, <1>4
  <2>3. \A m \in owed \cup owed' : FdOf[m.conn] = g => m \in owed /\ m \in owed'
    BY <1>0, <1>1, <1>4
  <2> QED BY <2>1, <2>2, <2>3 DEF Untouched, conn
<1>5. MapInv'
  <2> SUFFICES ASSUME NEW g \in Fds, RegularFd(g)' PROVE MapOf(g)'
    BY DEF MapInv
  <2>1. RegularFd(g)
    BY <1>1 DEF RegularFd
  <2>2. CASE g = f
    BY <2>1, <2>2, <1>2 DEF MapOf
  <2>3. CASE g # f
    BY <2>1, <2>3, <1>4, UntouchedMap DEF MapInv
  <2> QED BY <2>2, <2>3
<1>6. ~RegularFd(f) => pipelined' \cup late' # {}
  BY <1>1 DEF RegularFd
<1> QED BY <1>2, <1>5, <1>6

(* ClosingConnCheckForBlrPop forgets the descriptor. *)
LEMMA CleanMap ==
  ASSUME TypeOK, TypeOK', IdInv, LifeInv, MapInv, NEW c \in Conns, ClosingConnClean(c)
  PROVE  MapInv'
<1> DEFINE f == FdOf[c]
<1>1. /\ f \in Fds /\ \A q \in Keys : Erases(waiting[q], waiting'[q], f)
      /\ waiting' = CleanWaitNode(waiting, f)
      /\ keysOf' = [keysOf EXCEPT ![f] = <<>>] /\ owed' = {n \in owed : n.conn # c}
      /\ UNCHANGED <<pipelined, late>>
  BY CleanStep
<1>2. waiting \in [Keys -> Seq(Node)] /\ keysOf \in [Fds -> Seq(Keys)] /\ owed \subseteq Node
  BY Types DEF MapTypes
<1>3. \A d \in Conns : d # c => life'[d] = life[d]
  BY Types DEF ClosingConnClean, OtherTypes
<1>4. life[c] = "clean"
  BY DEF ClosingConnClean
<1>5. ASSUME NEW g \in Fds, g # f PROVE Untouched(g)
  <2>1. NodesStay(g) /\ \A q \in Keys : \A j \in DOMAIN waiting'[q] : \E a \in DOMAIN waiting[q] : waiting[q][a] = waiting'[q][j]
    BY <1>1, <1>5, ErasesOthers
  <2>2. keysOf'[g] = keysOf[g]
    BY <1>1, <1>2, <1>5
  <2>3. \A m \in owed \cup owed' : FdOf[m.conn] = g => m \in owed /\ m \in owed'
    BY <1>1, <1>5
  <2>4. \A d \in Conns : FdOf[d] = g /\ life[d] \in Live => life'[d] \in Live
    BY <1>3, <1>5
  <2> QED BY <2>1, <2>2, <2>3, <2>4 DEF Untouched
<1>6. \A q \in Keys : waiting'[q] = IF Contains(keysOf[f], q) THEN EraseFirst(waiting[q], f) ELSE waiting[q]
  BY <1>1 DEF CleanWaitNode
<1>7. ASSUME MapOf(f) PROVE NoEntry(f)'
  <2>1. keysOf'[f] = <<>>
    BY <1>1, <1>2
  <2>2. CASE NoEntry(f)
    <3>1. \A q \in Keys : waiting'[q] = waiting[q]
      <4>1. \A q \in Keys : ~Contains(keysOf[f], q)
        BY <2>2 DEF NoEntry, Contains
      <4> QED BY <4>1, <1>6
    <3>2. \A m \in owed' : FdOf[m.conn] # f
      BY <2>2, <1>1 DEF NoEntry
    <3>3. \A q \in Keys : \A j \in DOMAIN waiting'[q] : FdOf[waiting'[q][j].conn] # f
      BY <2>2, <3>1 DEF NoEntry, NodeOfFd
    <3> QED BY <2>1, <3>2, <3>3 DEF NoEntry, NodeOfFd
  <2>3. ASSUME NEW n \in owed, Entered(f, n) PROVE NoEntry(f)'
    <3>1. n.conn \in Conns /\ FdOf[n.conn] = f /\ life[n.conn] \notin {"none", "closed"}
      BY <1>2, <2>3, FdFacts DEF Entered
    <3>2. n.conn = c
      BY <1>4, <3>1 DEF LifeInv
    <3>3. \A m \in owed' : FdOf[m.conn] # f
      BY <1>1, <2>3, <3>2 DEF Entered
    <3>4. \A q \in Keys : Contains(keysOf[f], q) <=> q \in n.keys
      <4>1. keysOf[f] \in Seq(Keys) /\ ToSet(keysOf[f]) = n.keys
        BY <1>1, <1>2, <2>3 DEF Entered
      <4> QED BY <4>1, ToSetOf
    <3>5. \A q \in Keys : \A a, b \in DOMAIN waiting[q] : FdOf[waiting[q][a].conn] = f /\ FdOf[waiting[q][b].conn] = f => a = b
      BY <2>3, OneNode DEF NodeOfFd
    <3>6. ASSUME NEW q \in Keys PROVE \A j \in DOMAIN waiting'[q] : FdOf[waiting'[q][j].conn] # f
      <4>1. CASE q \in n.keys
        <5>1. waiting'[q] = EraseFirst(waiting[q], f) /\ waiting[q] \in Seq(Node)
          BY <4>1, <3>4, <1>2, <1>6
        <5>2. \A a, b \in DOMAIN waiting[q] : FdOf[waiting[q][a].conn] = f /\ FdOf[waiting[q][b].conn] = f => a = b
          BY <3>5
        <5>3. \A j \in DOMAIN EraseFirst(waiting[q], f) : FdOf[EraseFirst(waiting[q], f)[j].conn] # f
          BY <5>1, <5>2, EraseOnly
        <5> QED BY <5>1, <5>3
      <4>2. CASE q \notin n.keys
        BY <4>2, <2>3, <3>4, <1>6 DEF Entered, NodeOfFd
      <4> QED BY <4>1, <4>2
    <3> QED BY <2>1, <3>3, <3>6 DEF NoEntry, NodeOfFd
  <2> QED BY <1>7, <2>2, <2>3 DEF MapOf
<1>8. SUFFICES ASSUME NEW g \in Fds, RegularFd(g)' PROVE MapOf(g)'
  BY DEF MapInv
<1>9. MapOf(g)
  <2>1. RegularFd(g)
    BY <1>1, <1>8 DEF RegularFd
  <2> QED BY <2>1 DEF MapInv
<1>10. CASE g = f
  BY <1>7, <1>9, <1>10 DEF MapOf
<1>11. CASE g # f
  BY <1>5, <1>9, <1>11, UntouchedMap
<1> QED BY <1>10, <1>11

(* A connection that is not blocked is closed at once. *)
LEMMA CheckMap ==
  ASSUME TypeOK, MapInv, NEW c \in Conns, ClosingConnCheck(c)
  PROVE  MapInv'
<1> DEFINE f == FdOf[c]
<1>1. /\ waiting' = waiting /\ keysOf' = keysOf /\ pipelined' = pipelined /\ late' = late
      /\ owed' = IF keysOf[f] = <<>> THEN {n \in owed : n.conn # c} ELSE owed
      /\ life' = [life EXCEPT ![c] = IF keysOf[f] = <<>> THEN AfterClean(c) ELSE "clean"]
  BY DEF ClosingConnCheck
<1>2. /\ \A d \in Conns : d # c => life'[d] = life[d]
      /\ keysOf[f] # <<>> => life'[c] = "clean"
  BY <1>1, Types DEF OtherTypes
<1>3. f \in Fds
  BY FdFacts
<1>4. ASSUME NEW g \in Fds, g # f \/ keysOf[f] # <<>> PROVE Untouched(g)
  <2>1. \A m \in owed \cup owed' : FdOf[m.conn] = g => m \in owed /\ m \in owed'
    BY <1>1, <1>4
  <2>2. \A d \in Conns : FdOf[d] = g /\ life[d] \in Live => life'[d] \in Live
    BY <1>2, <1>4 DEF Live
  <2> QED BY <1>1, <2>1, <2>2 DEF Untouched, NodesStay
<1>5. ASSUME MapOf(f), keysOf[f] = <<>> PROVE NoEntry(f)'
  <2>1. NoEntry(f)
    BY <1>5 DEF MapOf, Entered
  <2> QED BY <1>1, <2>1 DEF NoEntry, NodeOfFd
<1>6. SUFFICES ASSUME NEW g \in Fds, RegularFd(g)' PROVE MapOf(g)'
  BY DEF MapInv
<1>7. MapOf(g)
  <2>1. RegularFd(g)
    BY <1>1, <1>6 DEF RegularFd
  <2> QED BY <2>1 DEF MapInv
<1>8. CASE g = f /\ keysOf[f] = <<>>
  BY <1>5, <1>7, <1>8 DEF MapOf
<1>9. CASE g # f \/ keysOf[f] # <<>>
  BY <1>4, <1>7, <1>9, UntouchedMap
<1> QED BY <1>8, <1>9

(* A node is put at the end of some waiting lists. *)
LEMMA AppendedNodes ==
  ASSUME NEW s \in Seq(Node), NEW n \in Node
  PROVE  /\ \A i \in DOMAIN s : \E j \in DOMAIN Append(s, n) : Append(s, n)[j] = s[i]
         /\ \E j \in DOMAIN Append(s, n) : Append(s, n)[j] = n
         /\ \A j \in DOMAIN Append(s, n) : Append(s, n)[j] = n \/ \E i \in DOMAIN s : s[i] = Append(s, n)[j]
<1> DEFINE t == Append(s, n)
           l == Len(s)
<1>1. l \in Nat /\ DOMAIN s = 1..l /\ DOMAIN t = 1..(l + 1) /\ t[l + 1] = n /\ \A i \in 1..l : t[i] = s[i]
  BY AppendProperties
<1> HIDE DEF t, l
<1>2. \A j \in 1..(l + 1) : j = l + 1 \/ j \in 1..l
  BY <1>1
<1>3. \A j \in 1..l : j \in 1..(l + 1)
  BY <1>1
<1>4. l + 1 \in 1..(l + 1)
  BY <1>1
<1>5. \A i \in DOMAIN s : \E j \in DOMAIN t : t[j] = s[i]
  BY <1>1, <1>3
<1>6. \E j \in DOMAIN t : t[j] = n
  BY <1>1, <1>4
<1>7. \A j \in DOMAIN t : t[j] = n \/ \E i \in DOMAIN s : s[i] = t[j]
  BY <1>1, <1>2
<1> QED BY <1>5, <1>6, <1>7 DEF t

(* BlockThisClientToWaitLRPush puts one new node into its waiting lists. *)
NewNode(c, n) ==
  /\ n.conn = c /\ n.keys # {} /\ n.keys \subseteq Keys /\ n.keys = ToSet(cmd[c].keys)
  /\ \A k \in Keys : \A i \in DOMAIN waiting[k] : \E j \in DOMAIN waiting'[k] : waiting'[k][j] = waiting[k][i]
  /\ \A k \in n.keys : \E j \in DOMAIN waiting'[k] : waiting'[k][j] = n
  /\ \A k \in Keys : \A j \in DOMAIN waiting'[k] :
       \/ waiting'[k][j] = n /\ k \in n.keys
       \/ \E i \in DOMAIN waiting[k] : waiting[k][i] = waiting'[k][j]
  /\ \A g \in Fds : g # FdOf[c] \/ keysOf[g] # <<>> => keysOf'[g] = keysOf[g]
  /\ keysOf[FdOf[c]] = <<>> => keysOf'[FdOf[c]] # <<>> /\ ToSet(keysOf'[FdOf[c]]) = n.keys
  /\ owed' = IF life[c] \in Live THEN owed \cup {n} ELSE owed
  /\ pipelined' = IF \E k \in Keys : NodesOf(waiting, k, c) # {} THEN pipelined \cup {c} ELSE pipelined
  /\ late' = IF life[c] \in {"waiting", "ready", "closed"} THEN late \cup {c} ELSE late
  /\ dangling' = dangling

LEMMA BlockNodes ==
  ASSUME TypeOK, RunInv, NEW c \in Conns, PopBlocked(c)
  PROVE  \E n \in Node : NewNode(c, n)
<1> DEFINE n == [id |-> serial + 1, conn |-> c, keys |-> ToSet(cmd[c].keys), side |-> cmd[c].side, timed |-> cmd[c].timed]
<1>1. cmd[c] \in Command
  BY Running DEF PopBlocked
<1>2. /\ n \in Node /\ FdOf[c] \in Fds
      /\ n.conn = c /\ n.keys = ToSet(cmd[c].keys) /\ n.keys \subseteq Keys /\ n.keys # {}
      /\ \A k \in n.keys : waiting'[k] = Append(waiting[k], n)
      /\ \A k \in Keys \ n.keys : waiting'[k] = waiting[k]
      /\ keysOf' = [keysOf EXCEPT ![FdOf[c]] = IF @ = <<>> THEN removeDuplicates(cmd[c].keys) ELSE @]
      /\ removeDuplicates(cmd[c].keys) # <<>> /\ ToSet(removeDuplicates(cmd[c].keys)) = n.keys
      /\ UNCHANGED dangling
      /\ owed' = IF life[c] \in {"open", "check", "clean"} THEN owed \cup {n} ELSE owed
      /\ pipelined' = IF \E k \in Keys : NodesOf(waiting, k, c) # {} THEN pipelined \cup {c} ELSE pipelined
      /\ late' = IF life[c] \in {"waiting", "ready", "closed"} THEN late \cup {c} ELSE late
  BY <1>1, BlockFacts, Types DEF PopBlocked
<1> HIDE DEF n
<1>3. keysOf \in [Fds -> Seq(Keys)] /\ \A k \in Keys : waiting[k] \in Seq(Node)
  BY Types DEF MapTypes
<1>4. /\ \A g \in Fds : g # FdOf[c] \/ keysOf[g] # <<>> => keysOf'[g] = keysOf[g]
      /\ keysOf[FdOf[c]] = <<>> => keysOf'[FdOf[c]] = removeDuplicates(cmd[c].keys)
  BY <1>2, <1>3
<1>5. ASSUME NEW k \in Keys
      PROVE  /\ \A i \in DOMAIN waiting[k] : \E j \in DOMAIN waiting'[k] : waiting'[k][j] = waiting[k][i]
             /\ k \in n.keys => \E j \in DOMAIN waiting'[k] : waiting'[k][j] = n
             /\ \A j \in DOMAIN waiting'[k] :
                  \/ waiting'[k][j] = n /\ k \in n.keys
                  \/ \E i \in DOMAIN waiting[k] : waiting[k][i] = waiting'[k][j]
  <2>1. CASE k \in n.keys
    <3>1. waiting'[k] = Append(waiting[k], n) /\ waiting[k] \in Seq(Node)
      BY <2>1, <1>2, <1>3
    <3>2. /\ \A i \in DOMAIN waiting[k] : \E j \in DOMAIN Append(waiting[k], n) : Append(waiting[k], n)[j] = waiting[k][i]
          /\ \E j \in DOMAIN Append(waiting[k], n) : Append(waiting[k], n)[j] = n
          /\ \A j \in DOMAIN Append(waiting[k], n) :
               Append(waiting[k], n)[j] = n \/ \E i \in DOMAIN waiting[k] : waiting[k][i] = Append(waiting[k], n)[j]
      BY <1>2, <3>1, AppendedNodes
    <3> QED BY <2>1, <3>1, <3>2, Zenon
  <2>2. CASE k \notin n.keys
    BY <2>2, <1>2
  <2> QED BY <2>1, <2>2
<1>6. owed' = IF life[c] \in Live THEN owed \cup {n} ELSE owed
  BY <1>2 DEF Live
<1>7. keysOf[FdOf[c]] = <<>> => keysOf'[FdOf[c]] # <<>> /\ ToSet(keysOf'[FdOf[c]]) = n.keys
  BY <1>2, <1>4
<1>8. \A k \in n.keys : \E j \in DOMAIN waiting'[k] : waiting'[k][j] = n
  BY <1>2, <1>5
<1>9. n \in Node
  BY <1>2
<1>10. NewNode(c, n)
  BY <1>2, <1>4, <1>5, <1>6, <1>7, <1>8 DEF NewNode
<1> QED BY <1>9, <1>10

LEMMA BlockMap ==
  ASSUME TypeOK, RunInv, LifeInv, MapInv, NEW c \in Conns, PopBlocked(c)
  PROVE  MapInv'
<1>0. PICK n \in Node : NewNode(c, n)
  BY BlockNodes
<1>1. /\ n.conn = c /\ n.keys # {} /\ n.keys \subseteq Keys
      /\ \A k \in Keys : \A i \in DOMAIN waiting[k] : \E j \in DOMAIN waiting'[k] : waiting'[k][j] = waiting[k][i]
      /\ \A k \in n.keys : \E j \in DOMAIN waiting'[k] : waiting'[k][j] = n
      /\ \A k \in Keys : \A j \in DOMAIN waiting'[k] :
           \/ waiting'[k][j] = n /\ k \in n.keys
           \/ \E i \in DOMAIN waiting[k] : waiting[k][i] = waiting'[k][j]
      /\ \A g \in Fds : g # FdOf[c] \/ keysOf[g] # <<>> => keysOf'[g] = keysOf[g]
      /\ keysOf[FdOf[c]] = <<>> => keysOf'[FdOf[c]] # <<>> /\ ToSet(keysOf'[FdOf[c]]) = n.keys
      /\ owed' = IF life[c] \in Live THEN owed \cup {n} ELSE owed
      /\ pipelined' = IF \E k \in Keys : NodesOf(waiting, k, c) # {} THEN pipelined \cup {c} ELSE pipelined
      /\ late' = IF life[c] \in {"waiting", "ready", "closed"} THEN late \cup {c} ELSE late
  BY <1>0 DEF NewNode
<1>2. life' = life /\ life[c] # "none" /\ life[c] \in {"none", "open", "check", "clean", "waiting", "ready", "closed"}
  BY Types DEF PopBlocked, conn, RunInv, OtherTypes
<1>3. FdOf[c] \in Fds /\ keysOf \in [Fds -> Seq(Keys)] /\ owed \subseteq Node
  BY FdFacts, Types DEF MapTypes
<1>4. SUFFICES ASSUME NEW g \in Fds, RegularFd(g)' PROVE MapOf(g)'
  BY DEF MapInv
<1>5. MapOf(g)
  <2>1. RegularFd(g)
    BY <1>1, <1>4 DEF RegularFd
  <2> QED BY <2>1 DEF MapInv
<1>6. CASE g # FdOf[c]
  <2>1. NodesStay(g)
    BY <1>1 DEF NodesStay
  <2>2. \A k \in Keys : \A j \in DOMAIN waiting'[k] :
          FdOf[waiting'[k][j].conn] = g => \E i \in DOMAIN waiting[k] : waiting[k][i] = waiting'[k][j]
    BY <1>1, <1>6
  <2>3. \A m \in owed \cup owed' : FdOf[m.conn] = g => m \in owed /\ m \in owed'
    BY <1>1, <1>6
  <2>4. keysOf'[g] = keysOf[g]
    BY <1>1, <1>6
  <2>5. Untouched(g)
    BY <1>2, <2>1, <2>2, <2>3, <2>4 DEF Untouched
  <2> QED BY <1>5, <2>5, UntouchedMap
<1>7. CASE g = FdOf[c]
  <2>1. c \notin pipelined' /\ c \notin late'
    BY <1>4, <1>7 DEF RegularFd
  <2>2. \A k \in Keys : NodesOf(waiting, k, c) = {}
    BY <1>1, <2>1
  <2>3. life[c] \in Live
    BY <1>1, <1>2, <2>1 DEF Live
  <2>4. NoEntry(g)
    <3> SUFFICES ASSUME NEW m \in owed, Entered(g, m) PROVE FALSE
      BY <1>5 DEF MapOf
    <3>1. m \in Node /\ m.conn \in Conns /\ FdOf[m.conn] = g /\ life[m.conn] \notin {"none", "closed"}
      BY <1>3, FdFacts DEF Entered
    <3>2. m.conn = c
      BY <1>7, <2>3, <3>1 DEF LifeInv, Live
    <3>3. keysOf[g] \in Seq(Keys) /\ keysOf[g] # <<>> /\ ToSet(keysOf[g]) = m.keys
      BY <1>3 DEF Entered
    <3>4. keysOf[g][1] \in m.keys
      BY <3>3, EmptySeq, ToSetOf
    <3>5. PICK k \in m.keys : k \in Keys
      BY <3>1, <3>4, FdFacts
    <3>6. PICK i \in DOMAIN waiting[k] : waiting[k][i] = m
      BY <3>5 DEF Entered
    <3>7. i \in NodesOf(waiting, k, c)
      BY <3>2, <3>6 DEF NodesOf
    <3> QED BY <2>2, <3>5, <3>7
  <2>5. n \in owed' /\ FdOf[n.conn] = g /\ life'[n.conn] \in Live
    BY <1>1, <1>2, <1>7, <2>3
  <2>6. keysOf'[g] # <<>> /\ ToSet(keysOf'[g]) = n.keys
    BY <1>1, <1>7, <2>4 DEF NoEntry
  <2>7. \A m \in owed' : FdOf[m.conn] = g => m = n
    BY <1>1, <2>3, <2>4 DEF NoEntry
  <2>8. \A k \in Keys : \A j \in DOMAIN waiting'[k] : FdOf[waiting'[k][j].conn] = g => waiting'[k][j] = n /\ k \in n.keys
    BY <1>1, <2>4 DEF NoEntry, NodeOfFd
  <2>9. \A k \in n.keys : \E j \in DOMAIN waiting'[k] : waiting'[k][j] = n
    BY <1>1
  <2>10. Entered(g, n)'
    BY <2>5, <2>6, <2>7, <2>8, <2>9 DEF Entered, NodeOfFd, Live
  <2> QED BY <2>5, <2>10 DEF MapOf
<1> QED BY <1>6, <1>7

(* Where the maps stay, no connection that may be blocked is given up. *)
LEMMA LiveCases ==
  ASSUME TypeOK, Next
  PROVE  \/ UNCHANGED maps /\ \A c \in Conns : life[c] \in Live => life'[c] \in Live
         \/ \E c \in Conns : PopBlocked(c) \/ ClosingConnCheck(c) \/ ClosingConnClean(c)
         \/ UNCHANGED conn /\ \E k \in Keys : \E i \in DOMAIN waiting[k] : Unblock(k, i)
<1>0. life \in [Conns -> {"none", "open", "check", "clean", "waiting", "ready", "closed"}]
  BY Types DEF OtherTypes
<1>1. ASSUME life' = life PROVE \A c \in Conns : life[c] \in Live => life'[c] \in Live
  BY <1>1
<1>2. ASSUME NEW c \in Conns, NEW s, life' = [life EXCEPT ![c] = s], s \in Live \/ life[c] \notin Live
      PROVE  \A d \in Conns : life[d] \in Live => life'[d] \in Live
  BY <1>0, <1>2
<1>3. CASE Begins
  <2>1. ASSUME NEW c \in Conns, Send(c) \/ StartClose(c)
        PROVE  UNCHANGED maps /\ \A d \in Conns : life[d] \in Live => life'[d] \in Live
    <3>1. UNCHANGED maps /\ \E s \in Live : life' = [life EXCEPT ![c] = s]
      BY <2>1 DEF Send, StartClose, Live
    <3> QED BY <3>1, <1>2
  <2>2. CASE KeepaliveStart \/ AllConnStart
    BY <2>2, <1>1 DEF KeepaliveStart, AllConnStart, conn
  <2> QED BY <1>3, <2>1, <2>2 DEF Begins
<1>4. ASSUME NEW c \in Conns, ConnRuns(c)
      PROVE  (UNCHANGED maps /\ \A d \in Conns : life[d] \in Live => life'[d] \in Live) \/ PopBlocked(c)
  <2>1. UNCHANGED maps \/ PopBlocked(c)
    BY <1>4, DoCases DEF ConnRuns, TakeLock, DoBinlog, ServeToBLrPopWithKeys, PopTaken, Pushed, PushDo, MoveNothing, Moved
  <2>2. life' = life
    BY <1>4 DEF ConnRuns, TakeLock, Do, DoBinlog, ServeToBLrPopWithKeys, conn
  <2> QED BY <2>1, <2>2
<1>5. ASSUME NEW c \in Conns, CronClose(c)
      PROVE  UNCHANGED maps /\ \A d \in Conns : life[d] \in Live => life'[d] \in Live
  <2>1. UNCHANGED maps /\ life[c] \notin Live /\ \E s : life' = [life EXCEPT ![c] = s]
    BY <1>5 DEF CronClose, Live
  <2> QED BY <2>1, <1>2
<1>6. ASSUME NEW k \in Keys, TaskRuns(k)
      PROVE  \/ UNCHANGED maps /\ \A d \in Conns : life[d] \in Live => life'[d] \in Live
             \/ UNCHANGED conn /\ \E q \in Keys : \E i \in DOMAIN waiting[q] : Unblock(q, i)
  <2>1. UNCHANGED maps \/ ServeOne(k)
    BY <1>6 DEF TaskRuns, ServeStart, TakeLock, ServeEnd, DoBinlog
  <2>2. UNCHANGED conn
    BY <1>6 DEF TaskRuns, ServeStart, TakeLock, ServeOne, ServeEnd, DoBinlog
  <2>3. ServeOne(k) => \E i \in DOMAIN waiting[k] : Unblock(k, i)
    BY ServeOneFacts
  <2> QED BY <2>1, <2>2, <2>3 DEF conn
<1>7. CASE AdminRuns
  <2>1. CASE KeepaliveCheck
    <3>1. UNCHANGED maps
      BY <2>1 DEF KeepaliveCheck
    <3>2. life' = life \/ \E c \in Conns : life' = [life EXCEPT ![c] = "check"]
      BY <2>1, BlockingAssumption DEF KeepaliveCheck, conn
    <3>3. "check" \in Live
      BY DEF Live
    <3> QED BY <1>1, <1>2, <3>1, <3>2, <3>3
  <2> QED BY <1>7, <2>1, <1>1 DEF AdminRuns, TakeLock, AllConnEnd, conn
<1>8. CASE ScanExpired
  BY <1>8 DEF ScanExpired
<1> QED BY <1>3, <1>4, <1>5, <1>6, <1>7, <1>8 DEF Next, Closes

LEMMA MapStep ==
  ASSUME TypeOK, TypeOK', RunInv, LifeInv, IdInv, MapInv, Next
  PROVE  MapInv'
<1>1. ASSUME UNCHANGED maps, \A c \in Conns : life[c] \in Live => life'[c] \in Live PROVE MapInv'
  <2>0. waiting' = waiting /\ keysOf' = keysOf /\ owed' = owed /\ pipelined' = pipelined /\ late' = late
    BY <1>1 DEF maps
  <2>1. \A g \in Fds : Untouched(g)
    BY <1>1, <2>0 DEF Untouched, NodesStay
  <2>2. \A g \in Fds : RegularFd(g)' => RegularFd(g)
    BY <2>0 DEF RegularFd
  <2> QED BY <2>1, <2>2, UntouchedMap DEF MapInv
<1> QED BY <1>1, LiveCases, BlockMap, CheckMap, CleanMap, UnblockMap

LEMMA LoopStep ==
  ASSUME TypeOK, TypeOK', RunInv, IdInv, MapInv, LoopKeepsItsNode, Next
  PROVE  LoopKeepsItsNode'
<1>0. ~dangling
  BY DEF Next
<1>1. CASE UNCHANGED maps
  BY <1>0, <1>1 DEF maps, LoopKeepsItsNode
<1>2. ASSUME NEW c \in Conns, PopBlocked(c) PROVE LoopKeepsItsNode'
  <2>1. dangling' = dangling
    BY <1>2 DEF PopBlocked, BlockThisClient
  <2> QED BY <1>0, <2>1 DEF LoopKeepsItsNode
<1>3. ASSUME NEW c \in Conns, ClosingConnCheck(c) \/ ClosingConnClean(c) PROVE LoopKeepsItsNode'
  BY <1>0, <1>3 DEF LoopKeepsItsNode, ClosingConnCheck, ClosingConnClean
<1>4. ASSUME NEW k \in Keys, NEW i \in DOMAIN waiting[k], Unblock(k, i), UNCHANGED conn PROVE LoopKeepsItsNode'
  BY <1>4, UnblockMap DEF LoopKeepsItsNode
<1> QED BY <1>1, <1>2, <1>3, <1>4, LiveCases

LEMMA KeysStep ==
  ASSUME TypeOK, TypeOK', RunInv, KeysHaveNodes, Next
  PROVE  KeysHaveNodes'
<1>0. keysOf \in [Fds -> Seq(Keys)] /\ keysOf' \in [Fds -> Seq(Keys)]
  BY Types DEF MapTypes
<1>1. ASSUME NEW g \in Fds, keysOf'[g] = keysOf[g], NodesStay(g)
      PROVE  \A k \in ToSet(keysOf'[g]) : \E i \in DOMAIN waiting'[k] : FdOf[waiting'[k][i].conn] = g
  <2> SUFFICES ASSUME NEW k \in ToSet(keysOf[g]) PROVE \E i \in DOMAIN waiting'[k] : FdOf[waiting'[k][i].conn] = g
    BY <1>1
  <2>1. PICK i \in DOMAIN waiting[k] : FdOf[waiting[k][i].conn] = g
    BY DEF KeysHaveNodes
  <2>2. k \in Keys
    BY <1>0, ToSetOf
  <2>3. PICK j \in DOMAIN waiting'[k] : waiting'[k][j] = waiting[k][i]
    BY <1>1, <2>1, <2>2 DEF NodesStay
  <2> QED BY <2>1, <2>3
<1>2. ASSUME NEW g \in Fds, keysOf'[g] = <<>>
      PROVE  \A k \in ToSet(keysOf'[g]) : \E i \in DOMAIN waiting'[k] : FdOf[waiting'[k][i].conn] = g
  BY <1>2 DEF ToSet
<1>3. ASSUME NEW f \in Fds, \A q \in Keys : Erases(waiting[q], waiting'[q], f), keysOf' = [keysOf EXCEPT ![f] = <<>>]
      PROVE  KeysHaveNodes'
  <2>1. \A g \in Fds : g # f => keysOf'[g] = keysOf[g] /\ NodesStay(g)
    BY <1>0, <1>3, ErasesOthers
  <2>2. keysOf'[f] = <<>>
    BY <1>0, <1>3
  <2> QED BY <1>1, <1>2, <2>1, <2>2 DEF KeysHaveNodes
<1>4. CASE waiting' = waiting /\ keysOf' = keysOf
  BY <1>4 DEF KeysHaveNodes
<1>5. ASSUME NEW c \in Conns, PopBlocked(c) PROVE KeysHaveNodes'
  <2>0. PICK n \in Node : NewNode(c, n)
    BY <1>5, BlockNodes
  <2>1. /\ n.conn = c /\ n.keys \subseteq Keys
        /\ \A k \in Keys : \A i \in DOMAIN waiting[k] : \E j \in DOMAIN waiting'[k] : waiting'[k][j] = waiting[k][i]
        /\ \A k \in n.keys : \E j \in DOMAIN waiting'[k] : waiting'[k][j] = n
        /\ \A g \in Fds : g # FdOf[c] \/ keysOf[g] # <<>> => keysOf'[g] = keysOf[g]
        /\ keysOf[FdOf[c]] = <<>> => keysOf'[FdOf[c]] # <<>> /\ ToSet(keysOf'[FdOf[c]]) = n.keys
    BY <2>0 DEF NewNode
  <2>2. \A g \in Fds : NodesStay(g)
    BY <2>1 DEF NodesStay
  <2>3. ASSUME keysOf[FdOf[c]] = <<>>
        PROVE  \A k \in ToSet(keysOf'[FdOf[c]]) : \E i \in DOMAIN waiting'[k] : FdOf[waiting'[k][i].conn] = FdOf[c]
    BY <2>1, <2>3
  <2> QED BY <1>1, <2>1, <2>2, <2>3 DEF KeysHaveNodes
<1>6. ASSUME NEW c \in Conns, ClosingConnCheck(c) PROVE KeysHaveNodes'
  BY <1>4, <1>6 DEF ClosingConnCheck
<1>7. ASSUME NEW c \in Conns, ClosingConnClean(c) PROVE KeysHaveNodes'
  BY <1>3, <1>7, CleanStep
<1>8. ASSUME NEW k \in Keys, NEW i \in DOMAIN waiting[k], Unblock(k, i) PROVE KeysHaveNodes'
  <2>1. MapTypes
    BY Types
  <2>2. PICK f \in Fds : f = FdOf[waiting[k][i].conn]
    BY <2>1, <1>8, UnblockFacts
  <2>3. \A q \in Keys : Erases(waiting[q], waiting'[q], FdOf[waiting[k][i].conn])
    BY <1>8, <2>1, UnblockFacts
  <2>4. keysOf' = [keysOf EXCEPT ![FdOf[waiting[k][i].conn]] = <<>>]
    BY <1>8 DEF Unblock
  <2> QED BY <1>3, <2>2, <2>3, <2>4
<1> QED BY <1>4, <1>5, <1>6, <1>7, <1>8, LiveCases DEF maps

-----------------------------------------------------------------------------
(* Wake-ups *)

Ready(k) == list[k] # <<>> /\ waiting[k] # <<>>

Execs(c) == pc[c] \in {"log", "serve"} /\ cmd[c].op = "exec"

(* Somebody serves the list, or will. *)
Served(k) == pending[k] > 0 \/ pc[k] \in {"lock", "do"} \/ \E c \in Conns : Execs(c) /\ cmd[c].keys = <<k>>

LEMMA WakeParts ==
  /\ NoLostWakeup <=> \A k \in Keys : Ready(k) => Served(k)
  /\ NoLostWakeup' <=> \A k \in Keys : Ready(k)' => Served(k)'
<1>1. NoLostWakeup <=> \A k \in Keys : Ready(k) => Served(k)
  BY DEF NoLostWakeup, Ready, Served, Execs
<1>2. NoLostWakeup' <=> \A k \in Keys : Ready(k)' => Served(k)'
  BY DEF NoLostWakeup, Ready, Served, Execs
<1> QED BY <1>1, <1>2

(* Those who serve go on. *)
ServersStay(k) ==
  /\ pending[k] > 0 => pending'[k] > 0
  /\ pc[k] \in {"lock", "do"} => pc'[k] \in {"lock", "do"}
  /\ \A c \in Conns : Execs(c) => Execs(c)' /\ cmd'[c] = cmd[c]

LEMMA StillServed ==
  ASSUME NoLostWakeup, NEW k \in Keys, Ready(k)' => Ready(k), ServersStay(k)
  PROVE  Ready(k)' => Served(k)'
<1> SUFFICES ASSUME Ready(k)' PROVE Served(k)'
  OBVIOUS
<1>1. Served(k)
  BY WakeParts
<1>2. ASSUME NEW c \in Conns, Execs(c), cmd[c].keys = <<k>> PROVE Served(k)'
  BY <1>2 DEF Served, ServersStay
<1> QED BY <1>1, <1>2 DEF Served, ServersStay

(* One actor that serves nothing goes on, and nobody blocks or pushes. *)
LEMMA ServersOne ==
  ASSUME TypeOK, NEW a \in Actors, \A b \in Actors : b # a => pc'[b] = pc[b],
         \A c \in Conns : c # a => cmd'[c] = cmd[c],
         NEW k \in Keys, pending[k] > 0 => pending'[k] > 0,
         a = k /\ pc[a] \in {"lock", "do"} => pc'[a] \in {"lock", "do"},
         a \in Conns /\ Execs(a) => Execs(a)' /\ cmd'[a] = cmd[a]
  PROVE  ServersStay(k)
<1>1. k \in Actors /\ \A c \in Conns : c \in Actors
  BY ActorFacts
<1>2. pc[k] \in {"lock", "do"} => pc'[k] \in {"lock", "do"}
  BY <1>1
<1>3. ASSUME NEW c \in Conns, Execs(c) PROVE Execs(c)' /\ cmd'[c] = cmd[c]
  <2>1. CASE c = a
    BY <1>3, <2>1
  <2>2. CASE c # a
    BY <1>1, <1>3, <2>2 DEF Execs
  <2> QED BY <2>1, <2>2
<1> QED BY <1>2, <1>3 DEF ServersStay

LEMMA ThinnedEmpty ==
  ASSUME NEW s \in Seq(Node), NEW t \in Seq(Node), Thinned(s, t), t # <<>>
  PROVE  s # <<>>
<1>1. 1 \in DOMAIN t
  BY EmptySeq
<1>2. PICK i \in DOMAIN s : TRUE
  BY <1>1 DEF Thinned
<1> QED BY <1>2

LEMMA ErasesReady ==
  ASSUME TypeOK, TypeOK', NEW f, \A q \in Keys : Erases(waiting[q], waiting'[q], f), NEW k \in Keys
  PROVE  waiting'[k] # <<>> => waiting[k] # <<>>
<1>1. waiting[k] \in Seq(Node) /\ waiting'[k] \in Seq(Node) /\ Thinned(waiting[k], waiting'[k])
  BY Types DEF MapTypes, Erases
<1>2. \A s, t \in Seq(Node) : Thinned(s, t) /\ t # <<>> => s # <<>>
  BY ThinnedEmpty
<1> QED BY <1>1, <1>2

(* TryToServeBLrPopWithThisKey schedules a task when somebody waits. *)
LEMMA TryFacts ==
  ASSUME TypeOK, NEW k \in Keys, TryToServe(k)
  PROVE  /\ waiting[k] # <<>> => pending'[k] > 0
         /\ \A q \in Keys : pending[q] > 0 => pending'[q] > 0
<1>1. pending \in [Keys -> Nat]
  BY Types DEF OtherTypes
<1>2. pending' = IF waiting[k] # <<>> THEN [pending EXCEPT ![k] = @ + 1] ELSE pending
  BY DEF TryToServe
<1>3. CASE waiting[k] # <<>>
  <2>1. pending'[k] = pending[k] + 1 /\ \A q \in Keys : q # k => pending'[q] = pending[q]
    BY <1>1, <1>2, <1>3
  <2>2. pending[k] \in Nat
    BY <1>1
  <2> QED BY <2>1, <2>2
<1>4. CASE waiting[k] = <<>>
  BY <1>2, <1>4
<1> QED BY <1>3, <1>4

LEMMA WakeDo ==
  ASSUME TypeOK, TypeOK', RunInv, NoLostWakeup, NEW c \in Conns, Do(c)
  PROVE  NoLostWakeup'
<1>0. pc[c] = "do" /\ cmd[c] \in Command /\ c \in Actors /\ c \notin Keys /\ ~Execs(c)
  BY Running, ActorFacts DEF Do, Execs
<1>1. /\ \A b \in Actors : b # c => pc'[b] = pc[b]
      /\ \A d \in Conns : d # c => cmd'[d] = cmd[d]
  <2>1. Finish(c, {}, "log") \/ Finish(c, Keys, "idle")
    BY DoCases DEF Do, PopTaken, PopBlocked, Pushed, PushDo, MoveNothing, Moved
  <2> QED BY <1>0, <2>1, FinishFacts
<1>2. ASSUME NEW k \in Keys, pending[k] > 0 => pending'[k] > 0, Ready(k)' => Ready(k)
      PROVE  Ready(k)' => Served(k)'
  <2>1. ServersStay(k)
    BY <1>0, <1>1, <1>2, ServersOne
  <2> QED BY <1>2, <2>1, StillServed
<1>3. list \in [Keys -> Seq(Elems)] /\ list' \in [Keys -> Seq(Elems)]
  BY Types DEF ListTypes
<1>4. CASE PopTaken(c)
  <2>1. PopKey(c) \in Keys /\ list[PopKey(c)] # <<>>
    BY <1>0, <1>4, PopKeyFacts DEF PopTaken
  <2>2. waiting' = waiting /\ pending' = pending /\ list' = [list EXCEPT ![PopKey(c)] = Rest(@, cmd[c].side)]
    BY <1>4 DEF PopTaken, maps
  <2>3. \A k \in Keys : Ready(k)' => Ready(k)
    BY <1>3, <2>1, <2>2 DEF Ready
  <2> QED BY <1>2, <2>2, <2>3, WakeParts
<1>5. CASE PopBlocked(c)
  <2>1. PICK n \in Node : NewNode(c, n)
    BY <1>5, BlockNodes
  <2>2. list' = list /\ pending' = pending /\ \A k \in n.keys : list[k] = <<>>
    BY <1>5, <2>1 DEF PopBlocked, NewNode
  <2>3. ASSUME NEW k \in Keys, Ready(k)' PROVE Ready(k)
    <3>1. list[k] # <<>> /\ k \notin n.keys /\ waiting'[k] # <<>> /\ waiting'[k] \in Seq(Node)
      BY <2>2, <2>3, Types DEF Ready, MapTypes
    <3>2. 1 \in DOMAIN waiting'[k]
      BY <3>1, EmptySeq
    <3>3. \E i \in DOMAIN waiting[k] : waiting[k][i] = waiting'[k][1]
      BY <2>1, <3>1, <3>2 DEF NewNode
    <3>4. waiting[k] # <<>>
      BY <3>3
    <3> QED BY <3>1, <3>4 DEF Ready
  <2> QED BY <1>2, <2>2, <2>3, WakeParts
<1>6. CASE Pushed(c)
  <2>0. cmd[c].op \in {"push", "exec"} /\ cmd[c].keys[1] \in Keys /\ cmd[c].keys = <<cmd[c].keys[1]>>
    BY <1>0, <1>6, CommandFacts DEF Pushed, PushDo
  <2>1. PICK p \in Keys : cmd[c].op \in {"push", "exec"} /\ p = cmd[c].keys[1] /\ cmd[c].keys = <<p>>
    BY <2>0
  <2>2. /\ list' = [list EXCEPT ![p] = Put(@, cmd[c].side, pushed + 1)] /\ waiting' = waiting
        /\ IF cmd[c].op = "push" THEN TryToServe(p) ELSE UNCHANGED pending
        /\ Finish(c, {}, "log")
    BY <1>6, <2>1 DEF Pushed, PushDo, maps
  <2>3. \A k \in Keys : pending[k] > 0 => pending'[k] > 0
    BY <2>1, <2>2, TryFacts
  <2>4. ASSUME NEW k \in Keys, k # p PROVE Ready(k)' => Served(k)'
    <3>1. Ready(k)' => Ready(k)
      BY <1>3, <2>2, <2>4 DEF Ready
    <3> QED BY <1>2, <2>3, <3>1
  <2>5. Ready(p)' => Served(p)'
    <3>1. CASE cmd[c].op = "push"
      BY <2>1, <2>2, <3>1, TryFacts DEF Ready, Served
    <3>2. CASE cmd[c].op = "exec"
      <4>1. pc'[c] = "log" /\ cmd' = cmd
        BY <1>0, <2>2, FinishFacts
      <4>2. Execs(c)' /\ cmd'[c].keys = <<p>>
        BY <2>1, <3>2, <4>1 DEF Execs
      <4> QED BY <4>2 DEF Served
    <3> QED BY <2>1, <3>1, <3>2
  <2> QED BY <2>4, <2>5, WakeParts
<1>7. CASE MoveNothing(c)
  <2>1. list' = list /\ waiting' = waiting /\ pending' = pending
    BY <1>7 DEF MoveNothing, maps
  <2> QED BY <1>2, <2>1, WakeParts DEF Ready
<1>8. CASE Moved(c)
  <2>1. PICK from \in Keys, to \in Keys : from = cmd[c].keys[1] /\ to = cmd[c].keys[2]
    BY <1>8, MovedFacts
  <2> DEFINE half == Apply(list, PopOp(from, "right"))
             put == PushOp(to, "left", Last(list[from]))
  <2>2. /\ list[from] # <<>> /\ PopOp(from, "right") \in Op /\ put \in Op
        /\ PopOp(from, "right").key = from /\ put.key = to
        /\ half \in [Keys -> Seq(Elems)] /\ list' = Apply(half, put)
    BY <1>8, <2>1, MovedFacts
  <2>3. TryToServe(to) /\ waiting' = waiting
    BY <1>8, <2>1 DEF Moved, maps
  <2>4. \A k \in Keys : half[k] = EffectAt(k, list[k], PopOp(from, "right"))
    BY <1>3, <2>2, ApplyFacts
  <2> HIDE DEF half, put
  <2>5. \A k \in Keys : list'[k] = EffectAt(k, half[k], put)
    BY <2>2, ApplyFacts
  <2>6. \A k \in Keys : k # to => (list'[k] # <<>> => list[k] # <<>>)
    BY <2>2, <2>4, <2>5 DEF EffectAt
  <2>7. \A k \in Keys : pending[k] > 0 => pending'[k] > 0
    BY <2>3, TryFacts
  <2>8. ASSUME NEW k \in Keys, k # to PROVE Ready(k)' => Served(k)'
    <3>1. Ready(k)' => Ready(k)
      BY <2>3, <2>6, <2>8 DEF Ready
    <3> QED BY <1>2, <2>7, <3>1
  <2>9. Ready(to)' => Served(to)'
    BY <2>3, TryFacts DEF Ready, Served
  <2> QED BY <2>8, <2>9, WakeParts
<1> QED BY <1>4, <1>5, <1>6, <1>7, <1>8, DoCases

LEMMA WakeStep ==
  ASSUME TypeOK, TypeOK', RunInv, NoLostWakeup, Next
  PROVE  NoLostWakeup'
<1>1. ASSUME \A k \in Keys : ServersStay(k) /\ (Ready(k)' => Ready(k)) PROVE NoLostWakeup'
  BY <1>1, StillServed, WakeParts
<1>2. ASSUME UNCHANGED <<run, pending>> PROVE \A k \in Keys : ServersStay(k)
  BY <1>2 DEF ServersStay, Execs, run
<1>3. ASSUME NEW a \in Actors, NEW locks, Start(a, locks), pending' = pending, list' = list, waiting' = waiting,
             \A c \in Conns : c # a => cmd'[c] = cmd[c]
      PROVE  NoLostWakeup'
  <2>1. pc[a] = "idle" /\ \A b \in Actors : b # a => pc'[b] = pc[b]
    BY <1>3, StartFacts
  <2>2. \A k \in Keys : ServersStay(k)
    BY <1>3, <2>1, ServersOne DEF Execs
  <2> QED BY <1>1, <1>3, <2>2 DEF Ready
<1>4. ASSUME NEW a \in Actors, TakeLock(a) PROVE NoLostWakeup'
  <2>1. /\ pc[a] = "lock" /\ pc'[a] \in {"lock", "do"} /\ cmd' = cmd
        /\ \A b \in Actors : b # a => pc'[b] = pc[b]
    BY <1>4, TakeFacts
  <2>2. list' = list /\ waiting' = waiting /\ pending' = pending
    BY <1>4 DEF TakeLock, lists, maps
  <2>3. \A k \in Keys : ServersStay(k)
    BY <2>1, <2>2, ServersOne DEF Execs
  <2> QED BY <1>1, <2>2, <2>3 DEF Ready
<1>5. ASSUME NEW a \in Actors, DoBinlog(a) PROVE NoLostWakeup'
  <2>1. list' = list /\ waiting' = waiting /\ pending' = pending /\ pc[a] = "log"
    BY <1>5 DEF DoBinlog, maps
  <2>2. CASE Len(ops[a]) > 1
    <3>1. UNCHANGED <<run, pending>>
      BY <1>5, <2>1, <2>2 DEF DoBinlog
    <3> QED BY <1>1, <1>2, <2>1, <3>1 DEF Ready
  <2>3. CASE ~(Len(ops[a]) > 1)
    <3> DEFINE next == IF a \in Conns /\ cmd[a].op = "exec" THEN "serve" ELSE "idle"
    <3>1. Finish(a, Locks, next)
      BY <1>5, <2>3 DEF DoBinlog
    <3>2. /\ pc'[a] = next /\ \A b \in Actors : b # a => pc'[b] = pc[b]
          /\ \A c \in Conns : c # a => cmd'[c] = cmd[c]
          /\ next # "idle" => cmd' = cmd
      BY <3>1, FinishFacts
    <3>3. a \in Conns /\ Execs(a) => Execs(a)' /\ cmd'[a] = cmd[a]
      BY <3>2 DEF Execs
    <3>4. \A k \in Keys : ServersStay(k)
      BY <2>1, <3>2, <3>3, ServersOne
    <3> QED BY <1>1, <2>1, <3>4 DEF Ready
  <2> QED BY <2>2, <2>3
<1>6. ASSUME NEW f, \A q \in Keys : Erases(waiting[q], waiting'[q], f), list' = list, UNCHANGED <<run, pending>>
      PROVE  NoLostWakeup'
  <2>1. \A k \in Keys : Ready(k)' => Ready(k)
    BY <1>6, ErasesReady DEF Ready
  <2> QED BY <1>1, <1>2, <1>6, <2>1
<1>7. ASSUME NEW a \in Actors, a \notin Keys, ~(a \in Conns /\ Execs(a)), NEW locks, Finish(a, locks, "idle"), pending' = pending, list' = list, waiting' = waiting
      PROVE  NoLostWakeup'
  <2>1. /\ \A b \in Actors : b # a => pc'[b] = pc[b]
        /\ \A c \in Conns : c # a => cmd'[c] = cmd[c]
    BY <1>7, FinishFacts
  <2>2. \A k \in Keys : ServersStay(k)
    BY <1>7, <2>1, ServersOne
  <2> QED BY <1>1, <1>7, <2>2 DEF Ready
<1>8. CASE Begins
  <2>1. ASSUME NEW c \in Conns, Send(c) PROVE NoLostWakeup'
    <3>1. PICK m \in Command : cmd' = [cmd EXCEPT ![c] = m] /\ Start(c, RecordLocks(m.keys))
      BY <2>1, SendFacts
    <3>2. \A d \in Conns : d # c => cmd'[d] = cmd[d]
      BY <3>1, Types DEF RunTypes
    <3>3. list' = list /\ waiting' = waiting /\ pending' = pending /\ c \in Actors
      BY <2>1, ActorFacts DEF Send, lists, maps
    <3> QED BY <1>3, <3>1, <3>2, <3>3
  <2>2. ASSUME NEW c \in Conns, StartClose(c) PROVE NoLostWakeup'
    <3>1. list' = list /\ waiting' = waiting /\ UNCHANGED <<run, pending>>
      BY <2>2 DEF StartClose, lists, maps
    <3> QED BY <1>1, <1>2, <3>1 DEF Ready
  <2>3. CASE KeepaliveStart
    BY <2>3, <1>3, ActorFacts DEF KeepaliveStart, lists, maps
  <2>4. CASE AllConnStart
    BY <2>4, <1>3, ActorFacts DEF AllConnStart, lists, maps
  <2> QED BY <1>8, <2>1, <2>2, <2>3, <2>4 DEF Begins
<1>9. ASSUME NEW c \in Conns, ServeToBLrPopWithKeys(c) PROVE NoLostWakeup'
  <2>1. pc[c] = "serve" /\ c \in Actors /\ cmd[c] \in Command /\ cmd[c].op = "exec"
    BY <1>9, Running DEF ServeToBLrPopWithKeys, RunInv
  <2>2. cmd[c].keys[1] \in Keys /\ cmd[c].keys = <<cmd[c].keys[1]>>
    BY <2>1, CommandFacts
  <2>3. PICK p \in Keys : p = cmd[c].keys[1] /\ cmd[c].keys = <<p>>
    BY <2>2
  <2>4. TryToServe(p) /\ Finish(c, {}, "idle") /\ list' = list /\ waiting' = waiting
    BY <1>9, <2>3 DEF ServeToBLrPopWithKeys, lists, maps
  <2>5. /\ \A b \in Actors : b # c => pc'[b] = pc[b]
        /\ \A d \in Conns : d # c => cmd'[d] = cmd[d]
    BY <2>1, <2>4, FinishFacts
  <2>6. Ready(p)' => Served(p)'
    BY <2>4, TryFacts DEF Ready, Served
  <2>7. ASSUME NEW k \in Keys, k # p, Ready(k)' PROVE Served(k)'
    <3>1. Served(k)
      BY <2>4, <2>7, WakeParts DEF Ready
    <3>2. pending[k] > 0 => pending'[k] > 0
      BY <2>4, TryFacts
    <3>3. pc'[k] = pc[k]
      BY <2>5, ActorFacts
    <3>4. ASSUME NEW d \in Conns, Execs(d), cmd[d].keys = <<k>> PROVE Served(k)'
      <4>1. d # c
        BY <2>3, <2>7, <3>4
      <4>2. Execs(d)' /\ cmd'[d] = cmd[d]
        BY <2>5, <3>4, <4>1, ActorFacts DEF Execs
      <4> QED BY <3>4, <4>2 DEF Served
    <3> QED BY <3>1, <3>2, <3>3, <3>4 DEF Served
  <2> QED BY <2>6, <2>7, WakeParts
<1>10. ASSUME NEW c \in Conns, ConnRuns(c) PROVE NoLostWakeup'
  BY <1>4, <1>5, <1>9, <1>10, WakeDo, ActorFacts DEF ConnRuns
<1>11. ASSUME NEW c \in Conns, Closes(c) PROVE NoLostWakeup'
  <2>1. CASE ClosingConnClean(c)
    <3>1. list' = list /\ UNCHANGED <<run, pending>>
      BY <2>1 DEF ClosingConnClean, lists
    <3> QED BY <1>6, <2>1, <3>1, CleanStep
  <2>2. CASE ClosingConnCheck(c) \/ CronClose(c)
    <3>1. list' = list /\ waiting' = waiting /\ UNCHANGED <<run, pending>>
      BY <2>2 DEF ClosingConnCheck, CronClose, lists, maps
    <3> QED BY <1>1, <1>2, <3>1 DEF Ready
  <2> QED BY <1>11, <2>1, <2>2 DEF Closes
<1>12. ASSUME NEW k \in Keys, ServeStart(k) PROVE NoLostWakeup'
  <2>1. k \in Actors /\ Start(k, ServeLocks(k)) /\ cmd' = cmd /\ list' = list /\ waiting' = waiting
    BY <1>12, ActorFacts DEF ServeStart, lists, maps
  <2>2. pc[k] = "idle" /\ pc'[k] = "lock" /\ \A b \in Actors : b # k => pc'[b] = pc[b]
    BY <2>1, StartFacts
  <2>3. \A q \in Keys : q # k => pending'[q] = pending[q]
    BY <1>12, Types DEF ServeStart, OtherTypes
  <2>4. ASSUME NEW q \in Keys, q # k PROVE Ready(q)' => Served(q)'
    <3>1. ServersStay(q)
      BY <2>1, <2>2, <2>3, <2>4, ServersOne, ActorFacts
    <3> QED BY <2>1, <3>1, StillServed DEF Ready
  <2>5. Served(k)'
    BY <2>2 DEF Served
  <2> QED BY <2>4, <2>5, WakeParts
<1>13. ASSUME NEW k \in Keys, ServeOne(k) PROVE NoLostWakeup'
  <2>1. pc[k] = "do" /\ pc' = pc /\ cmd' = cmd /\ pending' = pending
    BY <1>13 DEF ServeOne, run
  <2>2. Served(k)'
    BY <2>1 DEF Served
  <2>3. MapTypes /\ 1 \in DOMAIN waiting[k] /\ Unblock(k, 1)
    BY <1>13, ServeOneFacts, Types
  <2>4. \A q \in Keys : Erases(waiting[q], waiting'[q], FdOf[waiting[k][1].conn])
    BY <2>3, UnblockFacts
  <2>5. PICK f : \A q \in Keys : Erases(waiting[q], waiting'[q], f)
    BY <2>4
  <2>6. \A q \in Keys : q # k => list'[q] = list[q]
    BY <1>13, Types DEF ServeOne, ListTypes
  <2>7. \A q \in Keys : q # k => (Ready(q)' => Ready(q))
    BY <2>5, <2>6, ErasesReady DEF Ready
  <2>8. \A q \in Keys : ServersStay(q)
    BY <2>1 DEF ServersStay, Execs
  <2> QED BY <2>2, <2>7, <2>8, StillServed, WakeParts
<1>14. ASSUME NEW k \in Keys, ServeEnd(k) PROVE NoLostWakeup'
  <2>1. list' = list /\ waiting' = waiting /\ pending' = pending /\ ~Ready(k) /\ k \in Actors
    BY <1>14, ActorFacts DEF ServeEnd, lists, maps, Ready
  <2>2. Finish(k, Locks, "idle") \/ Finish(k, {"block"}, "log")
    BY <1>14 DEF ServeEnd
  <2>3. /\ \A b \in Actors : b # k => pc'[b] = pc[b]
        /\ \A c \in Conns : c # k => cmd'[c] = cmd[c]
    BY <2>1, <2>2, FinishFacts
  <2>4. ASSUME NEW q \in Keys, q # k PROVE Ready(q)' => Served(q)'
    <3>1. ServersStay(q)
      BY <2>1, <2>3, <2>4, ServersOne, ActorFacts
    <3> QED BY <2>1, <3>1, StillServed DEF Ready
  <2>5. ~Ready(k)'
    BY <2>1 DEF Ready
  <2> QED BY <2>4, <2>5, WakeParts
<1>15. ASSUME NEW k \in Keys, TaskRuns(k) PROVE NoLostWakeup'
  BY <1>4, <1>5, <1>12, <1>13, <1>14, <1>15, ActorFacts DEF TaskRuns
<1>16. CASE AdminRuns
  <2>1. CASE KeepaliveCheck
    <3>1. "cron" \in Actors /\ "cron" \notin Keys /\ "cron" \notin Conns
      BY ActorFacts DEF Admins
    <3>2. Finish("cron", Locks, "idle") /\ list' = list /\ waiting' = waiting /\ pending' = pending
      BY <2>1 DEF KeepaliveCheck, lists, maps
    <3> QED BY <1>7, <3>1, <3>2
  <2>2. CASE AllConnEnd
    <3>1. "acl" \in Actors /\ "acl" \notin Keys /\ "acl" \notin Conns
      BY ActorFacts DEF Admins
    <3>2. Finish("acl", Locks, "idle") /\ list' = list /\ waiting' = waiting /\ pending' = pending
      BY <2>2 DEF AllConnEnd, lists, maps
    <3> QED BY <1>7, <3>1, <3>2
  <2> QED BY <1>4, <1>16, <2>1, <2>2, ActorFacts DEF AdminRuns
<1>17. CASE ScanExpired
  <2>1. PICK k \in Keys : \E i \in DOMAIN waiting[k] : Unblock(k, i)
    BY <1>17 DEF ScanExpired
  <2>2. PICK i \in DOMAIN waiting[k] : Unblock(k, i)
    BY <2>1
  <2>3. \A q \in Keys : Erases(waiting[q], waiting'[q], FdOf[waiting[k][i].conn])
    BY <2>2, UnblockFacts, Types
  <2>4. PICK f : \A q \in Keys : Erases(waiting[q], waiting'[q], f)
    BY <2>3
  <2>5. list' = list /\ UNCHANGED <<run, pending>>
    BY <1>17 DEF ScanExpired, lists
  <2> QED BY <1>6, <2>4, <2>5
<1> QED BY <1>8, <1>10, <1>11, <1>15, <1>16, <1>17 DEF Next

-----------------------------------------------------------------------------
(* The inductive invariant holds *)

LEMMA InvInit == Init => Inv
<1> SUFFICES ASSUME Init PROVE Inv
  OBVIOUS
<1>1. TypeOK
  BY TypeInit
<1>2. \A a \in Actors : pc[a] = "idle" /\ held[a] = {} /\ ops[a] = <<>>
  BY DEF Init
<1>3. \A c \in Conns : life[c] = "none"
  BY DEF Init
<1>4. \A k \in Keys : list[k] = <<>> /\ logged[k] = <<>> /\ waiting[k] = <<>>
  BY DEF Init
<1>5. \A f \in Fds : keysOf[f] = <<>>
  BY DEF Init
<1>6. owed = {} /\ ~dangling
  BY DEF Init
<1>7. LockInv
  BY <1>2 DEF LockInv, Holds
<1>8. RunInv
  BY <1>2, ActorFacts DEF RunInv
<1>9. OpsInv
  BY <1>2 DEF OpsInv, Logs
<1>10. LogInv
  BY <1>2, <1>4 DEF LogInv, LogOf
<1>11. LifeInv
  BY <1>3 DEF LifeInv
<1>12. IdInv
  BY <1>4 DEF IdInv
<1>13. MapInv
  BY <1>4, <1>5, <1>6 DEF MapInv, MapOf, NoEntry
<1>14. NoLostWakeup
  BY <1>4 DEF NoLostWakeup
<1>15. KeysHaveNodes
  BY <1>5 DEF KeysHaveNodes, ToSet
<1>16. LoopKeepsItsNode
  BY <1>6 DEF LoopKeepsItsNode
<1> QED BY <1>1, <1>7, <1>8, <1>9, <1>10, <1>11, <1>12, <1>13, <1>14, <1>15, <1>16 DEF Inv

LEMMA InvStutter == Inv /\ UNCHANGED vars => Inv'
<1> SUFFICES ASSUME Inv, UNCHANGED vars PROVE Inv'
  OBVIOUS
<1>1. TypeOK'
  BY DEF Inv, vars, TypeOK
<1>2. LockInv'
  <2>1. TypeOK /\ RunInv /\ LockInv
    BY DEF Inv
  <2>2. UNCHANGED run
    BY DEF vars, run
  <2> QED BY <2>1, <2>2, LockUnchanged
<1>3. RunInv' /\ OpsInv' /\ LifeInv'
  BY DEF Inv, vars, RunInv, OpsInv, Logs, LifeInv
<1>4. LogInv'
  BY DEF Inv, vars, LogInv, LogOf, Free
<1>5. IdInv' /\ NoLostWakeup' /\ KeysHaveNodes' /\ LoopKeepsItsNode'
  BY DEF Inv, vars, IdInv, NoLostWakeup, KeysHaveNodes, LoopKeepsItsNode
<1>6. MapInv'
  BY DEF Inv, vars, MapInv, MapOf, NoEntry, Entered, NodeOfFd, RegularFd
<1> QED BY <1>1, <1>2, <1>3, <1>4, <1>5, <1>6 DEF Inv

LEMMA InvStep == Inv /\ [Next]_vars => Inv'
<1>1. ASSUME Inv, Next PROVE Inv'
  <2>1. TypeOK /\ LockInv /\ RunInv /\ OpsInv /\ LogInv /\ LifeInv /\ IdInv /\ MapInv /\ NoLostWakeup /\ KeysHaveNodes /\ LoopKeepsItsNode
    BY <1>1 DEF Inv
  <2>2. TypeOK'
    BY <1>1, <2>1, TypeStep
  <2>3. LockInv'
    BY <1>1, <2>1, LockStep
  <2>4. RunInv'
    BY <1>1, <2>1, RunStep
  <2>5. OpsInv'
    BY <1>1, <2>1, <2>2, OpsStep
  <2>6. LogInv'
    BY <1>1, <2>1, <2>2, LogStep
  <2>7. LifeInv'
    BY <1>1, <2>1, LifeStep
  <2>8. IdInv'
    BY <1>1, <2>1, <2>2, IdStep
  <2>9. MapInv'
    BY <1>1, <2>1, <2>2, MapStep
  <2>10. NoLostWakeup'
    BY <1>1, <2>1, <2>2, WakeStep
  <2>11. KeysHaveNodes'
    BY <1>1, <2>1, <2>2, KeysStep
  <2>12. LoopKeepsItsNode'
    BY <1>1, <2>1, <2>2, LoopStep
  <2> QED BY <2>2, <2>3, <2>4, <2>5, <2>6, <2>7, <2>8, <2>9, <2>10, <2>11, <2>12 DEF Inv
<1> QED BY <1>1, InvStutter

(* Every reachable state satisfies the inductive invariant: the locks an     *)
(* actor holds are those its program has come to (MultiRecordLock::Lock,     *)
(* ServeAndUnblockConns, DoCronTask, AllConn), a change is logged under the  *)
(* lock of its key, and key_to_blocked_conns_ and blocked_conn_to_keys_      *)
(* agree for every descriptor none of whose connections has blocked twice or *)
(* after it was checked for closing.                                         *)
THEOREM Invariance == Spec => []Inv
BY InvInit, InvStep, PTL DEF Spec

-----------------------------------------------------------------------------
(* Consequences *)

(* The waiting lists hold exactly the commands that are not answered. *)
LEMMA MapsExact ==
  ASSUME TypeOK, MapInv
  PROVE  WaitInfoExact
<1> SUFFICES ASSUME NEW c \in Conns, Regular(c), NEW k \in Keys
             PROVE  {waiting[k][i] : i \in NodesOf(waiting, k, c)} = {n \in owed : n.conn = c /\ k \in n.keys}
  BY DEF WaitInfoExact
<1> DEFINE f == FdOf[c]
<1>1. f \in Fds /\ MapOf(f)
  BY FdFacts DEF MapInv, Regular, RegularFd
<1>2. CASE NoEntry(f)
  BY <1>2 DEF NoEntry, NodeOfFd, NodesOf
<1>3. ASSUME NEW m \in owed, Entered(f, m)
      PROVE  {waiting[k][i] : i \in NodesOf(waiting, k, c)} = {n \in owed : n.conn = c /\ k \in n.keys}
  <2>1. ASSUME NEW i \in NodesOf(waiting, k, c) PROVE waiting[k][i] \in {n \in owed : n.conn = c /\ k \in n.keys}
    <3>1. i \in DOMAIN waiting[k] /\ waiting[k][i].conn = c
      BY <2>1 DEF NodesOf
    <3>2. waiting[k][i] = m /\ k \in m.keys
      BY <1>3, <3>1 DEF Entered, NodeOfFd
    <3> QED BY <3>1, <3>2
  <2>2. ASSUME NEW n \in owed, n.conn = c, k \in n.keys PROVE n \in {waiting[k][i] : i \in NodesOf(waiting, k, c)}
    <3>1. n = m
      BY <1>3, <2>2 DEF Entered
    <3>2. PICK i \in DOMAIN waiting[k] : waiting[k][i] = m
      BY <1>3, <2>2, <3>1 DEF Entered
    <3>3. i \in NodesOf(waiting, k, c)
      BY <2>2, <3>1, <3>2 DEF NodesOf
    <3> QED BY <3>1, <3>2, <3>3
  <2> QED BY <2>1, <2>2
<1> QED BY <1>1, <1>2, <1>3 DEF MapOf

(* ServeAndUnblockConns answers the first node of the list. *)
LEMMA FirstStep ==
  ASSUME Inv, [Next]_vars
  PROVE  \A k \in Keys : Len(list'[k]) < Len(list[k]) =>
           \A n \in owed \ owed', m \in owed \cap owed' :
             (\A d \in Conns : Regular(d)) /\ k \in m.keys => n.id < m.id
<1> SUFFICES ASSUME NEW k \in Keys, Len(list'[k]) < Len(list[k]),
                    NEW n \in owed \ owed', NEW m \in owed \cap owed', \A d \in Conns : Regular(d), k \in m.keys
             PROVE  n.id < m.id
  OBVIOUS
<1>0. TypeOK /\ MapInv /\ IdInv
  BY DEF Inv
<1>1. list \in [Keys -> Seq(Elems)] /\ owed \subseteq Node /\ waiting \in [Keys -> Seq(Node)]
  BY <1>0, Types DEF ListTypes, MapTypes
<1>2. list'[k] # list[k] /\ owed' # owed
  <2>1. Len(list[k]) \in Nat
    BY <1>1
  <2> QED BY <2>1
<1>3. Next
  BY <1>2 DEF vars
<1>4. PICK q \in Keys : ServeOne(q)
  <2>1. CASE UNCHANGED maps
    BY <1>2, <2>1 DEF maps
  <2>2. ASSUME NEW c \in Conns, PopBlocked(c) \/ ClosingConnCheck(c) \/ ClosingConnClean(c) PROVE FALSE
    BY <1>2, <2>2 DEF PopBlocked, ClosingConnCheck, ClosingConnClean, lists
  <2>3. ScanExpired => FALSE
    BY <1>2 DEF ScanExpired, lists
  <2>4. CASE Begins
    BY <2>1, <2>4 DEF Begins, Send, StartClose, KeepaliveStart, AllConnStart
  <2>5. ASSUME NEW c \in Conns, ConnRuns(c) PROVE FALSE
    <3>1. UNCHANGED maps \/ PopBlocked(c)
      BY <2>5, DoCases DEF ConnRuns, TakeLock, DoBinlog, ServeToBLrPopWithKeys, PopTaken, Pushed, PushDo, MoveNothing, Moved
    <3> QED BY <1>2, <3>1, <2>2 DEF maps
  <2>6. ASSUME NEW c \in Conns, Closes(c) PROVE FALSE
    <3>1. CronClose(c) => UNCHANGED maps
      BY DEF CronClose
    <3> QED BY <1>2, <2>2, <2>6, <3>1 DEF Closes, maps
  <2>7. CASE AdminRuns
    BY <2>1, <2>7 DEF AdminRuns, TakeLock, KeepaliveCheck, AllConnEnd
  <2>8. ASSUME NEW q \in Keys, TaskRuns(q) PROVE ServeOne(q)
    <3>1. UNCHANGED maps \/ ServeOne(q)
      BY <2>8 DEF TaskRuns, ServeStart, TakeLock, ServeEnd, DoBinlog
    <3> QED BY <1>2, <3>1 DEF maps
  <2> QED BY <1>3, <2>3, <2>4, <2>5, <2>6, <2>7, <2>8 DEF Next
<1>5. q = k
  BY <1>1, <1>2, <1>4 DEF ServeOne
<1>6. 1 \in DOMAIN waiting[k] /\ Unblock(k, 1)
  BY <1>0, <1>4, <1>5, ServeOneFacts
<1>7. owed' = owed \ {waiting[k][1]}
  BY <1>6 DEF Unblock
<1>8. n = waiting[k][1] /\ m # n
  BY <1>7
<1>9. PICK i \in DOMAIN waiting[k] : waiting[k][i] = m
  <2>1. m \in Node /\ m.conn \in Conns /\ FdOf[m.conn] \in Fds
    BY <1>1, FdFacts
  <2>2. MapOf(FdOf[m.conn])
    <3>1. RegularFd(FdOf[m.conn])
      BY <2>1 DEF Regular, RegularFd
    <3> QED BY <1>0, <2>1, <3>1 DEF MapInv
  <2>3. PICK x \in owed : Entered(FdOf[m.conn], x)
    BY <2>2 DEF MapOf, NoEntry
  <2>4. x = m
    BY <2>3 DEF Entered
  <2> QED BY <2>3, <2>4 DEF Entered
<1>10. 1 < i
  <2>1. i \in Nat /\ i # 0
    BY <1>1
  <2>2. i # 1
    BY <1>8, <1>9
  <2> QED BY <2>1, <2>2
<1>11. waiting[k][1].id < waiting[k][i].id
  BY <1>0, <1>6, <1>9, <1>10 DEF IdInv
<1> QED BY <1>8, <1>9, <1>11

-----------------------------------------------------------------------------
(* Waiting in a circle *)

Wanted(a) ==
  IF pc[a] = "lock" THEN {Head(plan[a])}
  ELSE IF a \in Conns /\ pc[a] \in {"do", "serve"} THEN {"block"} ELSE {}

LEMMA WaitsForFacts ==
  \A a, b : b \in WaitsFor(a) <=> b \in Actors /\ b # a /\ held[b] \cap Wanted(a) # {}
BY DEF WaitsFor, Wanted

(* A task or an administrative pass takes two locks. *)
LEMMA TwoLocks ==
  ASSUME TypeOK, RunInv, LockInv, NEW a \in Actors, a \notin Conns, NEW x, NEW y,
         Wants(a) = <<x, y>>, ToSet(Wants(a)) = {x, y}
  PROVE  /\ pc[a] \in {"idle", "serve"} => held[a] = {}
         /\ pc[a] = "lock" => (held[a] = {} /\ Head(plan[a]) = x) \/ (held[a] = {x} /\ Head(plan[a]) = y)
         /\ pc[a] = "do" => held[a] = {x, y}
         /\ pc[a] = "log" => held[a] = {x, y} \ {"block"}
<1>1. Holds(a)
  BY DEF LockInv
<1>2. ASSUME pc[a] = "lock" PROVE (held[a] = {} /\ Head(plan[a]) = x) \/ (held[a] = {x} /\ Head(plan[a]) = y)
  <2>1. PICK n \in Nat : Between(a, n)
    BY <1>1, <1>2 DEF Holds
  <2>2. n + 1 \in 1..Len(Wants(a)) /\ Head(plan[a]) = Wants(a)[n + 1]
    BY <1>2, <2>1, NextLock
  <2>3. Len(Wants(a)) = 2 /\ Wants(a)[1] = x /\ Wants(a)[2] = y
    OBVIOUS
  <2>4. n = 0 \/ n = 1
    BY <2>2, <2>3
  <2>5. held[a] = {Wants(a)[i] : i \in 1..n}
    BY <2>1 DEF Between
  <2>6. CASE n = 0
    <3>1. held[a] = {}
      BY <2>5, <2>6
    <3> QED BY <2>2, <2>3, <2>6, <3>1
  <2>7. CASE n = 1
    <3>1. 1..1 = {1}
      OBVIOUS
    <3>2. held[a] = {Wants(a)[i] : i \in {1}}
      BY <2>5, <2>7, <3>1
    <3>3. held[a] = {x}
      BY <2>3, <3>2
    <3> QED BY <2>2, <2>3, <2>7, <3>3
  <2> QED BY <2>4, <2>6, <2>7
<1> QED BY <1>1, <1>2 DEF Holds

(* A command takes the records in the order of their names. *)
LEMMA RecordOrder ==
  ASSUME TypeOK, RunInv, LockInv, NEW c \in Conns
  PROVE  /\ held[c] \subseteq Keys
         /\ pc[c] = "lock" => /\ Head(plan[c]) \in Keys
                              /\ \A l \in held[c] : Position(l) < Position(Head(plan[c]))
<1>0. c \in Actors /\ Holds(c) /\ pc[c] \in {"idle", "lock", "do", "log", "serve"}
  BY ActorFacts, Types DEF LockInv, RunTypes
<1>1. CASE pc[c] \in {"idle", "serve"}
  BY <1>0, <1>1 DEF Holds
<1>2. CASE pc[c] \in {"do", "log"}
  BY <1>2, HeldKeys
<1>3. CASE pc[c] = "lock"
  <2>1. PICK n \in Nat : Between(c, n)
    BY <1>0, <1>3 DEF Holds
  <2>2. n + 1 \in 1..Len(Wants(c)) /\ Head(plan[c]) = Wants(c)[n + 1]
    BY <1>0, <1>3, <2>1, NextLock
  <2>3. held[c] = {Wants(c)[i] : i \in 1..n}
    BY <2>1 DEF Between
  <2>4. cmd[c] \in Command /\ Wants(c) = RecordLocks(cmd[c].keys)
    BY <1>3, Running DEF Wants
  <2>5. cmd[c].keys \in Seq(Keys) /\ cmd[c].keys # <<>>
    BY <2>4, CommandFacts
  <2>6. /\ Wants(c) \in Seq(Keys)
        /\ \A i, j \in 1..Len(Wants(c)) : i < j => Position(Wants(c)[i]) < Position(Wants(c)[j])
    BY <2>4, <2>5, RecordLocksFacts
  <2>7. \A i \in 1..n : i \in 1..Len(Wants(c)) /\ i < n + 1
    BY <2>2
  <2>8. held[c] \subseteq Keys
    <3>1. \A i \in 1..Len(Wants(c)) : Wants(c)[i] \in Keys
      BY <2>6
    <3> QED BY <2>3, <2>7, <3>1
  <2>9. Head(plan[c]) \in Keys
    BY <2>2, <2>6
  <2>10. \A l \in held[c] : Position(l) < Position(Head(plan[c]))
    BY <2>2, <2>3, <2>6, <2>7
  <2> QED BY <2>8, <2>9, <2>10
<1> QED BY <1>0, <1>1, <1>2, <1>3

(* Who waits for something while holding the mutex of the maps is AllConn;   *)
(* who waits while holding the lock of the worker is DoCronTask.             *)
LEMMA HoldAndWait ==
  ASSUME TypeOK, RunInv, LockInv, NEW b \in Actors, Wanted(b) # {}
  PROVE  /\ "block" \in held[b] => b = "acl" /\ Wanted(b) = {"rw"}
         /\ "rw" \in held[b] => b = "cron" /\ Wanted(b) = {"block"}
         /\ \A k \in Keys : k \in held[b] => b \in Conns \/ Wanted(b) = {"block"}
<1>0. "block" \notin Keys /\ "rw" \notin Keys /\ "block" # "rw" /\ \A k \in Keys : k # "block" /\ k # "rw"
  BY ActorFacts, BlockingAssumption
<1>1. CASE b \in Conns
  BY <1>0, <1>1, RecordOrder
<1>2. CASE b \in Keys
  <2>1. b \notin Conns /\ b # "block" /\ b # "rw"
    BY <1>2, ActorFacts
  <2>2. pc[b] = "lock" /\ Wanted(b) = {Head(plan[b])}
    BY <2>1 DEF Wanted
  <2>3. Wants(b) = <<b, "block">> /\ ToSet(Wants(b)) = {b, "block"}
    BY <1>2, <2>1, WantsFacts
  <2>4. (held[b] = {} /\ Head(plan[b]) = b) \/ (held[b] = {b} /\ Head(plan[b]) = "block")
    BY <2>1, <2>2, <2>3, TwoLocks
  <2> QED BY <2>1, <2>2, <2>4
<1>3. CASE b = "cron"
  <2>1. b \notin Conns /\ b \notin Keys
    BY <1>3, ActorFacts DEF Admins
  <2>2. pc[b] = "lock" /\ Wanted(b) = {Head(plan[b])}
    BY <2>1 DEF Wanted
  <2>3. Wants(b) = <<"rw", "block">> /\ ToSet(Wants(b)) = {"rw", "block"}
    BY <1>3, <2>1, WantsFacts
  <2>4. (held[b] = {} /\ Head(plan[b]) = "rw") \/ (held[b] = {"rw"} /\ Head(plan[b]) = "block")
    BY <2>1, <2>2, <2>3, TwoLocks
  <2> QED BY <1>0, <1>3, <2>2, <2>4
<1>4. CASE b = "acl"
  <2>1. b \notin Conns /\ b \notin Keys
    BY <1>4, ActorFacts DEF Admins
  <2>2. pc[b] = "lock" /\ Wanted(b) = {Head(plan[b])}
    BY <2>1 DEF Wanted
  <2>3. Wants(b) = <<"block", "rw">> /\ ToSet(Wants(b)) = {"block", "rw"}
    BY <1>4, <2>1, WantsFacts
  <2>4. (held[b] = {} /\ Head(plan[b]) = "block") \/ (held[b] = {"block"} /\ Head(plan[b]) = "rw")
    BY <2>1, <2>2, <2>3, TwoLocks
  <2> QED BY <1>0, <1>4, <2>2, <2>4
<1> QED BY <1>1, <1>2, <1>3, <1>4, ActorFacts

(* What is wanted is a record, the mutex of the maps or the worker's lock. *)
LEMMA WantedLock ==
  ASSUME TypeOK, RunInv, LockInv, NEW a \in Actors, Wanted(a) # {}
  PROVE  Wanted(a) = {"block"} \/ Wanted(a) = {"rw"} \/ \E k \in Keys : Wanted(a) = {k} /\ pc[a] = "lock" /\ Head(plan[a]) = k
<1>1. CASE pc[a] = "lock"
  <2>1. Holds(a)
    BY DEF LockInv
  <2>2. PICK n \in Nat : Between(a, n)
    BY <1>1, <2>1 DEF Holds
  <2>3. Head(plan[a]) \in Locks
    BY <1>1, <2>2, NextLock
  <2> QED BY <1>1, <2>3 DEF Wanted, Locks
<1>2. CASE pc[a] # "lock"
  BY <1>2 DEF Wanted
<1> QED BY <1>1, <1>2

LEMMA NoCircle ==
  ASSUME TypeOK, RunInv, LockInv
  PROVE  NoDeadlock
<1> SUFFICES ASSUME NEW S \in (SUBSET Waiters) \ {{}}, \A a \in S : WaitsFor(a) \cap S # {}
             PROVE  "cron" \in WaitsFor("acl") /\ "acl" \in WaitsFor("cron")
  BY DEF NoDeadlock, Deadlocked
<1>1. \A a \in S : a \in Actors /\ Wanted(a) # {}
  <2>1. \A a \in S : a \in Actors /\ WaitsFor(a) # {}
    BY DEF Waiters
  <2> QED BY <2>1, WaitsForFacts
<1>2. ASSUME NEW a \in S PROVE \E b \in S : held[b] \cap Wanted(a) # {}
  BY WaitsForFacts
<1>3. "cron" \in Actors /\ "acl" \in Actors /\ "cron" # "acl"
  BY ActorFacts
<1>4. ASSUME NEW b \in S, "block" \in held[b] PROVE "cron" \in WaitsFor("acl") /\ "acl" \in WaitsFor("cron")
  <2>1. b = "acl" /\ Wanted(b) = {"rw"}
    BY <1>1, <1>4, HoldAndWait
  <2>2. PICK d \in S : held[d] \cap Wanted(b) # {}
    BY <1>2
  <2>3. "rw" \in held[d]
    BY <2>1, <2>2
  <2>4. d = "cron" /\ Wanted(d) = {"block"}
    BY <1>1, <2>3, HoldAndWait
  <2> QED BY <1>3, <1>4, <2>1, <2>3, <2>4, WaitsForFacts
<1>5. CASE \E a \in S : Wanted(a) = {"block"}
  <2>1. PICK a \in S : Wanted(a) = {"block"}
    BY <1>5
  <2>2. PICK b \in S : held[b] \cap Wanted(a) # {}
    BY <1>2
  <2> QED BY <1>4, <2>1, <2>2
<1>6. CASE \E a \in S : Wanted(a) = {"rw"}
  <2>1. PICK a \in S : Wanted(a) = {"rw"}
    BY <1>6
  <2>2. PICK b \in S : held[b] \cap Wanted(a) # {}
    BY <1>2
  <2>3. "rw" \in held[b]
    BY <2>1, <2>2
  <2>4. Wanted(b) = {"block"}
    BY <1>1, <2>3, HoldAndWait
  <2> QED BY <1>5, <2>4
<1>7. CASE \A a \in S : Wanted(a) # {"block"} /\ Wanted(a) # {"rw"}
  <2>1. \A a \in S : \E k \in Keys : Wanted(a) = {k} /\ pc[a] = "lock" /\ Head(plan[a]) = k
    BY <1>1, <1>7, WantedLock
  <2> DEFINE N == Len(KeyOrder)
             P == {p \in 0..N : \E a \in S : p = Position(Head(plan[a]))}
  <2>2. N \in Nat /\ \A k \in Keys : Position(k) \in 0..N
    BY KeyFacts, PositionOf
  <2>3. \A a \in S : Position(Head(plan[a])) \in P
    BY <2>1, <2>2
  <2>4. P \in SUBSET (0..N) /\ P # {}
    BY <2>3
  <2> HIDE DEF N
  <2>5. PICK top \in P : \A p \in P : p <= top
    <3> HIDE DEF P
    <3> QED BY <2>2, <2>4, GreatestNumber
  <2>6. PICK a \in S : top = Position(Head(plan[a]))
    OBVIOUS
  <2>7. PICK k \in Keys : Wanted(a) = {k} /\ Head(plan[a]) = k
    BY <2>1
  <2>8. PICK b \in S : held[b] \cap Wanted(a) # {}
    BY <1>2
  <2>9. k \in held[b] /\ b \in Actors /\ Wanted(b) # {}
    BY <1>1, <2>7, <2>8
  <2>10. b \in Conns
    BY <1>7, <2>9, HoldAndWait
  <2>11. Position(k) < Position(Head(plan[b]))
    BY <2>1, <2>9, <2>10, RecordOrder
  <2>12. Position(Head(plan[b])) <= top
    BY <2>3, <2>5
  <2>13. top \in Int /\ Position(Head(plan[b])) \in Int
    BY <2>2, <2>3
  <2> QED BY <2>6, <2>7, <2>11, <2>12, <2>13
<1> QED BY <1>5, <1>6, <1>7

-----------------------------------------------------------------------------
(* Theorems *)

(* The variables keep their types: a list holds elements that were pushed,   *)
(* a waiting list nodes, and the entry of a descriptor keys.                 *)
THEOREM TypeCorrect == Spec => []TypeOK
<1>1. Inv => TypeOK
  BY DEF Inv
<1> QED BY <1>1, Invariance, PTL

(* TryToServeBLrPopWithThisKey, ServeToBLrPopWithKeys: a list never has both *)
(* an element and a waiting connection unless a task is scheduled or serves  *)
(* it, or the EXEC that pushed is about to schedule one.                     *)
THEOREM WakeupsAreNotLost == Spec => []NoLostWakeup
<1>1. Inv => NoLostWakeup
  BY DEF Inv
<1> QED BY <1>1, Invariance, PTL

(* BlockThisClientToWaitLRPush, CleanWaitNodeOfUnBlockedBlrConn and          *)
(* ClosingConnCheckForBlrPop, in any order: a connection waits exactly for   *)
(* the keys of its blocked commands that are not answered.                   *)
THEOREM WaitInfoIsExact == Spec => []WaitInfoExact
<1>1. Inv => WaitInfoExact
  BY MapsExact DEF Inv
<1> QED BY <1>1, Invariance, PTL

(* CleanWaitNodeOfUnBlockedBlrConn dereferences find(key) unchecked: every   *)
(* key of an entry of blocked_conn_to_keys_ has a waiting list, and in it a  *)
(* node of the descriptor, also for pipelined and late commands.             *)
THEOREM EntriesHaveNodes == Spec => []KeysHaveNodes
<1>1. Inv => KeysHaveNodes
  BY DEF Inv
<1> QED BY <1>1, Invariance, PTL

(* ServeAndUnblockConns, ScanExpiredBlockedConnsOfBlrpop: the loop's next    *)
(* node is not erased under it, unless a connection has blocked twice or     *)
(* after it was checked for closing.                                         *)
THEOREM LoopsKeepTheirNodes == Spec => []LoopKeepsItsNode
<1>1. Inv => LoopKeepsItsNode
  BY DEF Inv
<1> QED BY <1>1, Invariance, PTL

(* DoBinlog under the record lock, from BLPOP, RPOPLPUSH, a push and         *)
(* ServeAndUnblockConns: the binlog gives every list whose lock is free, as  *)
(* long as no pop has failed.                                                *)
THEOREM BinlogGivesLists == Spec => []LogMatchesList
<1>1. Inv => LogMatchesList
  BY DEF Inv, LogInv, LogOf, LogMatchesList
<1> QED BY <1>1, Invariance, PTL

(* MultiRecordLock::Lock, ServeAndUnblockConns, DoCronTask and AllConn: a    *)
(* circle of actors that wait for each other's locks always has DoCronTask   *)
(* and AllConn in it, waiting for each other.                                *)
THEOREM OnlyAdminsDeadlock == Spec => []NoDeadlock
<1>1. Inv => NoDeadlock
  BY NoCircle DEF Inv
<1> QED BY <1>1, Invariance, PTL

(* ServeAndUnblockConns: of the connections that wait for a list, the one    *)
(* that blocked first gets the element.                                      *)
THEOREM FirstBlockedIsServed == Spec => FirstBlockedFirstServed
<1> DEFINE A == \A k \in Keys : Len(list'[k]) < Len(list[k]) =>
                  \A n \in owed \ owed', m \in owed \cap owed' :
                    (\A d \in Conns : Regular(d)) /\ k \in m.keys => n.id < m.id
<1>1. Inv /\ [Next]_vars => [A]_vars
  BY FirstStep
<1>2. FirstBlockedFirstServed <=> [][A]_vars
  BY DEF FirstBlockedFirstServed
<1> HIDE DEF A
<1> QED BY <1>1, <1>2, Invariance, PTL DEF Spec

=============================================================================
