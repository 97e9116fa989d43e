------------------------ MODULE Transactions_proofs ------------------------
(***************************************************************************)
(* The properties of Transactions hold for any number of connections,      *)
(* databases and keys.  First what the operators that build a lock plan    *)
(* return (sorting, flattening), then the invariant, action by action.     *)
(***************************************************************************)
EXTENDS Transactions, WellFoundedInduction, FiniteSetTheorems, SequenceTheorems, TLAPS

-----------------------------------------------------------------------------
(* Sequences and sets of numbers *)

(* A set of natural numbers has a least element: the induction of the lemmas *)
(* below takes the least counterexample.                                     *)
LEMMA LeastNatural ==
  ASSUME NEW S \in SUBSET Nat, S # {}
  PROVE  \E n \in S : \A m \in S : n <= m
<1>1. \E x \in S : \A y \in S : ~(<<y, x>> \in OpToRel(<, Nat))
  BY WFMin, NatLessThanWellFounded, Zenon
<1>2. PICK x \in S : \A y \in S : ~(<<y, x>> \in OpToRel(<, Nat))
  BY <1>1
<1>3. \A y \in S : <<y, x>> \in Nat \X Nat
  BY <1>2
<1>4. \A y \in S : ~(y < x)
  BY <1>2, <1>3 DEF OpToRel
<1>5. \A y \in S : x <= y
  BY <1>4, x \in S
<1> QED BY <1>5, x \in S, Zenon

(* The elements of a concatenation. *)
LEMMA ConcatElements ==
  ASSUME NEW T, NEW s \in Seq(T), NEW t \in Seq(T)
  PROVE  /\ s \o t \in Seq(T)
         /\ ToSet(s \o t) = ToSet(s) \cup ToSet(t)
<1>1. s \o t \in Seq(T) /\ Len(s \o t) = Len(s) + Len(t)
  OBVIOUS
<1>2. \A i \in 1..Len(s) : (s \o t)[i] = s[i]
  OBVIOUS
<1>3. \A i \in 1..Len(t) : (s \o t)[Len(s) + i] = t[i]
  OBVIOUS
<1>4. ToSet(s) \subseteq ToSet(s \o t)
  BY <1>1, <1>2 DEF ToSet
<1>5. ToSet(t) \subseteq ToSet(s \o t)
  <2>1. \A i \in 1..Len(t) : Len(s) + i \in DOMAIN (s \o t)
    BY <1>1
  <2>2. \A i \in 1..Len(t) : t[i] \in ToSet(s \o t)
    BY <1>3, <2>1, Zenon DEF ToSet
  <2>3. DOMAIN t = 1..Len(t)
    OBVIOUS
  <2> QED BY <2>2, <2>3, Zenon DEF ToSet
<1>6. ASSUME NEW i \in 1..Len(s \o t)
      PROVE  (s \o t)[i] \in ToSet(s) \cup ToSet(t)
  <2>1. CASE i <= Len(s)
    BY <2>1, <1>2 DEF ToSet
  <2>2. CASE i > Len(s)
    <3>1. i - Len(s) \in 1..Len(t) /\ Len(s) + (i - Len(s)) = i
      BY <2>2, <1>1
    <3> QED BY <3>1, <1>3 DEF ToSet
  <2> QED BY <2>1, <2>2
<1>7. ToSet(s \o t) \subseteq ToSet(s) \cup ToSet(t)
  BY <1>6, <1>1 DEF ToSet
<1> QED BY <1>1, <1>4, <1>5, <1>7

(* The elements of Append. *)
LEMMA AppendElements ==
  ASSUME NEW T, NEW s \in Seq(T), NEW x \in T
  PROVE  /\ Append(s, x) \in Seq(T)
         /\ ToSet(Append(s, x)) = ToSet(s) \cup {x}
<1>1. Append(s, x) \in Seq(T) /\ Len(Append(s, x)) = Len(s) + 1
  OBVIOUS
<1>2. \A i \in 1..Len(s) : Append(s, x)[i] = s[i]
  OBVIOUS
<1>3. Append(s, x)[Len(s) + 1] = x
  OBVIOUS
<1> QED BY <1>1, <1>2, <1>3 DEF ToSet

(* The elements of a nonempty sequence are its head and those of its tail. *)
LEMMA TailElements ==
  ASSUME NEW T, NEW s \in Seq(T), s # <<>>
  PROVE  /\ Head(s) \in T /\ Tail(s) \in Seq(T)
         /\ ToSet(s) = {Head(s)} \cup ToSet(Tail(s))
<1>1. Head(s) \in T /\ Tail(s) \in Seq(T) /\ Len(Tail(s)) = Len(s) - 1 /\ Len(s) \in Nat \ {0}
  OBVIOUS
<1>2. Head(s) = s[1] /\ \A i \in 1..(Len(s) - 1) : Tail(s)[i] = s[i + 1]
  OBVIOUS
<1>3. \A i \in 1..Len(s) : s[i] \in {Head(s)} \cup ToSet(Tail(s))
  <2> TAKE i \in 1..Len(s)
  <2>1. CASE i = 1
    BY <2>1, <1>2
  <2>2. CASE i # 1
    <3>1. i - 1 \in 1..(Len(s) - 1) /\ (i - 1) + 1 = i
      BY <2>2, <1>1
    <3>2. i - 1 \in DOMAIN Tail(s)
      BY <3>1, <1>1
    <3>3. Tail(s)[i - 1] = s[i]
      BY <3>1, <1>2
    <3> QED BY <3>2, <3>3 DEF ToSet
  <2> QED BY <2>1, <2>2
<1>4. \A i \in 1..(Len(s) - 1) : Tail(s)[i] \in ToSet(s)
  BY <1>1, <1>2 DEF ToSet
<1>5. Head(s) \in ToSet(s)
  BY <1>1, <1>2 DEF ToSet
<1>6. DOMAIN s = 1..Len(s) /\ DOMAIN Tail(s) = 1..(Len(s) - 1)
  BY <1>1
<1>7. ToSet(s) \subseteq {Head(s)} \cup ToSet(Tail(s))
  <2>1. \A x \in ToSet(s) : \E i \in DOMAIN s : x = s[i]
    BY DEF ToSet
  <2> QED BY <2>1, <1>3, <1>6, Zenon
<1>8. ToSet(Tail(s)) \subseteq ToSet(s)
  <2>1. \A x \in ToSet(Tail(s)) : \E i \in DOMAIN Tail(s) : x = Tail(s)[i]
    BY DEF ToSet
  <2> QED BY <2>1, <1>4, <1>6, Zenon
<1> QED BY <1>1, <1>5, <1>7, <1>8

(* A sequence has finitely many elements. *)
LEMMA FiniteElements ==
  ASSUME NEW T, NEW s \in Seq(T)
  PROVE  IsFiniteSet(ToSet(s))
<1>1. IsFiniteSet(DOMAIN s)
  BY FS_Interval
<1>2. s \in Surjection(DOMAIN s, ToSet(s))
  BY DEF Surjection, ToSet
<1> QED BY <1>1, <1>2, FS_Surjection

(* FlattenSeq is defined for every nonempty sequence of sequences. *)
LEMMA FlattenDefined ==
  ASSUME NEW T, NEW s \in Seq(Seq(T)), NEW m \in Nat, m <= Len(s)
  PROVE  \E g : g = [i \in 1..m |-> IF i = 1 THEN s[i] ELSE g[i - 1] \o s[i]]
<1> DEFINE Def(n) == \E g : g = [i \in 1..n |-> IF i = 1 THEN s[i] ELSE g[i - 1] \o s[i]]
           Bad == {n \in 0..Len(s) : ~Def(n)}
<1> SUFFICES ASSUME ~Def(m)
             PROVE  FALSE
  OBVIOUS
<1>1. Bad \in SUBSET Nat /\ m \in Bad
  <2> HIDE DEF Def
  <2> QED OBVIOUS
<1>2. PICK n \in Bad : \A k \in Bad : n <= k
  <2> HIDE DEF Bad
  <2> QED BY <1>1, LeastNatural
<1>3. Def(0)
  <2>1. [i \in 1..0 |-> 0] = [i \in 1..0 |-> IF i = 1 THEN s[i] ELSE [j \in 1..0 |-> 0][i - 1] \o s[i]]
    OBVIOUS
  <2> QED BY <2>1
<1>4. n # 0 /\ n \in 0..Len(s) /\ ~Def(n)
  <2> HIDE DEF Def
  <2> QED BY <1>3, <1>2
<1>5. Def(n - 1)
  <2> HIDE DEF Def
  <2>1. n - 1 \in 0..Len(s) /\ ~(n <= n - 1)
    BY <1>4
  <2> QED BY <2>1, <1>2
<1>6. PICK g : g = [i \in 1..(n - 1) |-> IF i = 1 THEN s[i] ELSE g[i - 1] \o s[i]]
  BY <1>5
<1> DEFINE h == [i \in 1..n |-> IF i = 1 THEN s[i] ELSE g[i - 1] \o s[i]]
<1>7. ASSUME NEW i \in 1..(n - 1)
      PROVE  h[i] = g[i]
  <2>1. i \in 1..n
    BY <1>4
  <2>2. h[i] = IF i = 1 THEN s[i] ELSE g[i - 1] \o s[i]
    BY <2>1
  <2>3. g[i] = IF i = 1 THEN s[i] ELSE g[i - 1] \o s[i]
    BY <1>6
  <2> QED BY <2>2, <2>3
<1>8. \A i \in 1..n : i # 1 => i - 1 \in 1..(n - 1)
  BY <1>4
<1>9. h = [i \in 1..n |-> IF i = 1 THEN s[i] ELSE h[i - 1] \o s[i]]
  BY <1>7, <1>8
<1>10. Def(n)
  BY <1>9
<1> QED BY <1>10, <1>4

(* FlattenSeq keeps every element of every sequence; of one sequence it is   *)
(* that sequence.                                                            *)
LEMMA FlattenElements ==
  ASSUME NEW T, NEW s \in Seq(Seq(T))
  PROVE  /\ FlattenSeq(s) \in Seq(T)
         /\ \A i \in DOMAIN s : ToSet(s[i]) \subseteq ToSet(FlattenSeq(s))
         /\ Len(s) = 1 => FlattenSeq(s) = s[1]
<1>1. CASE Len(s) = 0
  <2>1. FlattenSeq(s) = s
    BY <1>1 DEF FlattenSeq
  <2>2. s = <<>> /\ DOMAIN s = {}
    BY <1>1
  <2> QED BY <2>1, <2>2, <1>1
<1>2. CASE Len(s) # 0
  <2> DEFINE f == CHOOSE g : g = [i \in 1..Len(s) |-> IF i = 1 THEN s[i] ELSE g[i - 1] \o s[i]]
             Good(n) == /\ f[n] \in Seq(T)
                        /\ \A i \in 1..n : ToSet(s[i]) \subseteq ToSet(f[n])
             Bad == {n \in 1..Len(s) : ~Good(n)}
  <2>1. FlattenSeq(s) = f[Len(s)]
    BY <1>2, Zenon DEF FlattenSeq
  <2>2. f = [i \in 1..Len(s) |-> IF i = 1 THEN s[i] ELSE f[i - 1] \o s[i]]
    <3>1. \E g : g = [i \in 1..Len(s) |-> IF i = 1 THEN s[i] ELSE g[i - 1] \o s[i]]
      <4>1. Len(s) \in Nat /\ Len(s) <= Len(s)
        OBVIOUS
      <4> QED BY <4>1, FlattenDefined, Zenon
    <3> QED BY <3>1, Zenon
  <2> HIDE DEF f
  <2>3. 1 \in 1..Len(s) /\ Len(s) \in 1..Len(s)
    BY <1>2
  <2>4. f[1] = s[1] /\ s[1] \in Seq(T)
    BY <2>2, <2>3
  <2>5. Good(1)
    <3>1. \A i \in 1..1 : i = 1
      OBVIOUS
    <3> QED BY <2>4, <3>1
  <2>6. Bad = {}
    <3> SUFFICES ASSUME Bad # {}
                 PROVE  FALSE
      OBVIOUS
    <3>1. Bad \in SUBSET Nat
      OBVIOUS
    <3>2. PICK n \in Bad : \A k \in Bad : n <= k
      <4> HIDE DEF Bad
      <4> QED BY <3>1, LeastNatural
    <3>3. n \in 1..Len(s) /\ ~Good(n) /\ n # 1
      <4> HIDE DEF Good
      <4> QED BY <3>2, <2>5
    <3>4. n - 1 \in 1..Len(s) /\ ~(n <= n - 1)
      BY <3>3
    <3>5. Good(n - 1)
      <4> HIDE DEF Good
      <4> QED BY <3>4, <3>2
    <3>6. f[n] = f[n - 1] \o s[n]
      BY <2>2, <3>3
    <3>7. s[n] \in Seq(T) /\ f[n - 1] \in Seq(T)
      BY <3>3, <3>5
    <3>8. f[n] \in Seq(T) /\ ToSet(f[n]) = ToSet(f[n - 1]) \cup ToSet(s[n])
      BY <3>6, <3>7, ConcatElements
    <3>9. ASSUME NEW i \in 1..n
          PROVE  ToSet(s[i]) \subseteq ToSet(f[n])
      <4>1. CASE i = n
        BY <4>1, <3>8
      <4>2. CASE i # n
        <5>1. i \in 1..(n - 1)
          BY <4>2, <3>3
        <5>2. ToSet(s[i]) \subseteq ToSet(f[n - 1])
          BY <5>1, <3>5
        <5> QED BY <5>2, <3>8
      <4> QED BY <4>1, <4>2
    <3> QED BY <3>3, <3>8, <3>9
  <2>7. Good(Len(s))
    <3> HIDE DEF Good
    <3> QED BY <2>3, <2>6
  <2>8. DOMAIN s = 1..Len(s)
    OBVIOUS
  <2> QED BY <2>1, <2>4, <2>7, <2>8
<1> QED BY <1>1, <1>2

(* SetToSeqs(S): the sequences that hold each element of S once. *)
LEMMA SequencesOfSet ==
  ASSUME NEW S, IsFiniteSet(S), NEW s \in SetToSeqs(S)
  PROVE  /\ s \in Seq(S) /\ Len(s) = Cardinality(S)
         /\ ToSet(s) = S
         /\ \A i, j \in DOMAIN s : i # j => s[i] # s[j]
<1>1. Cardinality(S) \in Nat
  BY FS_CardinalityType
<1>2. /\ s \in [1..Cardinality(S) -> S]
      /\ \A i, j \in 1..Cardinality(S) : i # j => s[i] # s[j]
  BY DEF SetToSeqs
<1>3. s \in Seq(S) /\ Len(s) = Cardinality(S) /\ DOMAIN s = 1..Cardinality(S)
  BY <1>1, <1>2
<1>4. s \in Injection(1..Cardinality(S), S)
  BY <1>2 DEF Injection, IsInjective
<1>5. Cardinality(1..Cardinality(S)) = Cardinality(S)
  <2> DEFINE n == Cardinality(S)
  <2> HIDE DEF n
  <2>1. Cardinality(1..n) = n
    <3>1. n \in Nat /\ 1 \in Int /\ n \in Int
      BY <1>1 DEF n
    <3>2. Cardinality(1..n) = IF 1 > n THEN 0 ELSE n - 1 + 1
      BY <3>1, FS_Interval, Zenon
    <3> QED BY <3>1, <3>2
  <2> QED BY <2>1 DEF n
<1>6. s \in Surjection(1..Cardinality(S), S)
  BY <1>4, <1>5, FS_Injection
<1>7. ToSet(s) = S
  BY <1>2, <1>3, <1>6 DEF Surjection, ToSet
<1> QED BY <1>2, <1>3, <1>7

Increasing(s) == \A i, j \in DOMAIN s : i < j => s[i] < s[j]

(* A finite set of numbers can be sorted. *)
LEMMA SortedExists ==
  ASSUME NEW S \in SUBSET Nat, IsFiniteSet(S)
  PROVE  \E s \in SetToSeqs(S) : Increasing(s)
<1> DEFINE Sortable(U) == \E s \in SetToSeqs(U) : Increasing(s)
           Bad == {n \in Nat : \E U \in SUBSET Nat : IsFiniteSet(U) /\ Cardinality(U) = n /\ ~Sortable(U)}
<1> SUFFICES ASSUME ~Sortable(S)
             PROVE  FALSE
  OBVIOUS
<1> HIDE DEF Sortable
<1>1. Cardinality(S) \in Bad /\ Bad \in SUBSET Nat
  BY FS_CardinalityType
<1>2. PICK n \in Bad : \A k \in Bad : n <= k
  <2> HIDE DEF Bad
  <2> QED BY <1>1, LeastNatural
<1>3. PICK U \in SUBSET Nat : IsFiniteSet(U) /\ Cardinality(U) = n /\ ~Sortable(U)
  BY <1>2
<1>4. n \in Nat
  BY <1>2
<1>5. CASE U = {}
  <2>1. Cardinality(U) = 0
    BY <1>5, FS_EmptySet
  <2>2. <<>> \in SetToSeqs(U)
    BY <2>1 DEF SetToSeqs
  <2>3. Increasing(<<>>)
    BY DEF Increasing
  <2> QED BY <2>2, <2>3, <1>3 DEF Sortable
<1>6. CASE U # {}
  <2>1. PICK x \in U : \A y \in U : x <= y
    BY <1>3, <1>6, LeastNatural
  <2> DEFINE V == U \ {x}
  <2>2. IsFiniteSet(V) /\ Cardinality(V) = n - 1 /\ V \in SUBSET Nat
    BY <1>3, <2>1, FS_RemoveElement
  <2>3. Cardinality(V) \in Nat
    BY <2>2, FS_CardinalityType
  <2> HIDE DEF V
  <2>4. Sortable(V)
    <3> SUFFICES ASSUME ~Sortable(V)
                 PROVE  FALSE
      OBVIOUS
    <3>1. n - 1 \in Bad
      BY <2>2, <2>3
    <3>2. n <= n - 1
      <4> HIDE DEF Bad
      <4> QED BY <3>1, <1>2
    <3> QED BY <3>2, <1>4
  <2>5. PICK s \in SetToSeqs(V) : Increasing(s)
    BY <2>4 DEF Sortable
  <2>6. /\ s \in Seq(V) /\ Len(s) = n - 1 /\ ToSet(s) = V
        /\ \A i, j \in DOMAIN s : i # j => s[i] # s[j]
    BY <2>5, <2>2, SequencesOfSet
  <2>7. n - 1 \in Nat /\ n \in Nat /\ DOMAIN s = 1..(n - 1)
    BY <2>6, <2>2, <2>3, <1>4
  <2> DEFINE t == [i \in 1..n |-> IF i = 1 THEN x ELSE s[i - 1]]
  <2>8. \A i \in 1..n : i # 1 => i - 1 \in 1..(n - 1)
    BY <2>7
  <2>9. \A i \in 1..n : i # 1 => t[i] = s[i - 1] /\ t[i] \in V /\ t[i] \in U /\ t[i] # x
    BY <2>6, <2>7, <2>8 DEF V
  <2>10. t[1] = x /\ 1 \in 1..n
    BY <2>7, <2>8
  <2>11. DOMAIN t = 1..n
    OBVIOUS
  <2> HIDE DEF t
  <2>12. ASSUME NEW i \in 1..n, NEW j \in 1..n, i < j
         PROVE  t[i] < t[j]
    <3>1. j # 1 /\ j - 1 \in 1..(n - 1)
      BY <2>12, <2>8
    <3>2. t[j] = s[j - 1] /\ t[j] \in U /\ t[j] # x /\ x <= t[j] /\ t[j] \in Nat /\ x \in Nat
      BY <3>1, <2>9, <2>1
    <3>3. CASE i = 1
      BY <3>3, <3>2, <2>10
    <3>4. CASE i # 1
      <4>1. t[i] = s[i - 1] /\ i - 1 \in 1..(n - 1) /\ i - 1 < j - 1
        BY <3>4, <2>8, <2>9, <2>12
      <4> QED BY <4>1, <3>1, <3>2, <2>5, <2>7 DEF Increasing
    <3> QED BY <3>3, <3>4
  <2>13. \A i \in 1..n : t[i] \in U
    BY <2>9, <2>10, <2>1
  <2>14. \A i, j \in 1..n : i # j => t[i] # t[j]
    <3> TAKE i, j \in 1..n
    <3>1. t[i] \in Nat /\ t[j] \in Nat
      BY <2>13, <1>3
    <3>2. CASE i < j
      BY <3>1, <3>2, <2>12
    <3>3. CASE j < i
      BY <3>1, <3>3, <2>12
    <3> QED BY <3>2, <3>3
  <2>15. t \in [1..n -> U]
    BY <2>13 DEF t
  <2>16. t \in SetToSeqs(U)
    BY <2>14, <2>15, <1>3 DEF SetToSeqs
  <2>17. Increasing(t)
    BY <2>11, <2>12 DEF Increasing
  <2> QED BY <2>16, <2>17, <1>3 DEF Sortable
<1> QED BY <1>5, <1>6

(* MultiRecordLock: Sorted enumerates the names in ascending order. *)
LEMMA SortedNames ==
  ASSUME NEW S \in SUBSET Nat, IsFiniteSet(S)
  PROVE  /\ Sorted(S) \in Seq(S) /\ ToSet(Sorted(S)) = S
         /\ Increasing(Sorted(S))
<1>1. \E s \in SetToSeqs(S) : Increasing(s)
  BY SortedExists
<1>2. Sorted(S) \in SetToSeqs(S) /\ Increasing(Sorted(S))
  BY <1>1 DEF Sorted, Increasing
<1> QED BY <1>2, SequencesOfSet

(* A finite set of numbers has a greatest element. *)
LEMMA GreatestNatural ==
  ASSUME NEW S \in SUBSET Nat, IsFiniteSet(S), S # {}
  PROVE  \E n \in S : \A m \in S : m <= n
<1> DEFINE s == Sorted(S)
<1> HIDE DEF s
<1>1. s \in Seq(S) /\ ToSet(s) = S /\ Increasing(s)
  BY SortedNames DEF s
<1>2. Len(s) \in DOMAIN s /\ DOMAIN s = 1..Len(s) /\ Len(s) \in Nat
  <2>1. s # <<>>
    BY <1>1 DEF ToSet
  <2> QED BY <1>1, <2>1
<1>3. \A i \in DOMAIN s : s[i] \in S
  BY <1>1, Zenon DEF ToSet
<1>4. ASSUME NEW m \in S
      PROVE  m <= s[Len(s)]
  <2>1. PICK i \in DOMAIN s : m = s[i]
    BY <1>1 DEF ToSet
  <2>2. s[i] \in Nat /\ s[Len(s)] \in Nat
    BY <1>2, <1>3
  <2>3. CASE i = Len(s)
    BY <2>1, <2>2, <2>3
  <2>4. CASE i < Len(s)
    BY <2>1, <2>2, <2>4, <1>1, <1>2 DEF Increasing
  <2> QED BY <2>1, <2>3, <2>4, <1>2
<1> QED BY <1>2, <1>3, <1>4, Zenon

-----------------------------------------------------------------------------
(* Commands and locks *)

(* What the locks of Transactions are. *)
LEMMA LockFacts ==
  ASSUME NEW d \in DBs, NEW n \in Names \cup {NoName}
  PROVE  /\ Record(d, n) \in Lock /\ Record(d, n).kind = "record"
         /\ Record(d, n).db = d /\ Record(d, n).name = n
         /\ Shared(d) \in Lock /\ Shared(d).kind = "shared" /\ Shared(d).db = d
         /\ Exclusive(d) \in Lock /\ Exclusive(d).kind = "exclusive" /\ Exclusive(d).db = d
         /\ RmLock \in Lock /\ RmLock.kind = "exclusive" /\ RmLock.db = "rm"
BY DEF Record, Shared, Exclusive, RmLock, Lock

(* The fields of a command. *)
LEMMA CommandFacts ==
  ASSUME NEW cmd \in Command
  PROVE  /\ cmd.type \in {"write", "flushdb", "select"}
         /\ cmd.db \in DBs /\ cmd.at \in DBs /\ cmd.val \in Val
         /\ cmd.name \in Names \cup {NoName}
         /\ cmd.type = "write" => cmd.name \in Names
         /\ cmd.type # "write" => cmd.name = NoName /\ cmd.val = 0
<1>1. CASE cmd \in [type: {"write"}, db: DBs, name: Names, val: Val, at: DBs]
  BY <1>1
<1>2. CASE cmd \in [type: {"flushdb", "select"}, db: DBs, name: {NoName}, val: {0}, at: DBs]
  BY <1>2 DEF Val
<1> QED BY <1>1, <1>2 DEF Command

(* The commands a client sends. *)
LEMMA SentCommands ==
  ASSUME NEW d \in DBs
  PROVE  /\ \A cmd \in Writes(d) : cmd \in Command /\ cmd.type # "select" /\ cmd.at = cmd.db
         /\ Select(d) \in Command /\ Select(d).at = Select(d).db
<1>1. \A n \in Names, v \in Val : /\ Write(d, n, v) \in Command /\ Write(d, n, v).type = "write"
                                 /\ Write(d, n, v).at = d /\ Write(d, n, v).db = d
  BY DEF Write, Command
<1>2. /\ Flush(d) \in Command /\ Flush(d).type = "flushdb"
      /\ Flush(d).at = d /\ Flush(d).db = d
  BY DEF Flush, Command
<1>3. Select(d) \in Command /\ Select(d).at = Select(d).db
  BY DEF Select, Command
<1>4. \A cmd \in Writes(d) : cmd = Flush(d) \/ \E n \in Names, v \in Val : cmd = Write(d, n, v)
  BY DEF Writes
<1> QED BY <1>1, <1>2, <1>3, <1>4

(* The keys a command affects are keys. *)
LEMMA AffectedKeys ==
  ASSUME NEW cmd \in Command, cmd.type # "select"
  PROVE  Affected(cmd) \subseteq Keys
BY CommandFacts DEF Affected, Keys

(* SetCmdsVec: the database that is current at an entry. *)
LEMMA CurrentAtFacts ==
  ASSUME NEW q \in Seq(Command), NEW d \in DBs, NEW i \in 1..(Len(q) + 1)
  PROVE  /\ CurrentAt(q, d, i) \in DBs
         /\ (\A j \in DOMAIN q : q[j].type # "select") => CurrentAt(q, d, i) = d
<1> DEFINE selects == {j \in 1..(i - 1) : q[j].type = "select"}
<1>1. selects \in SUBSET Nat /\ selects \subseteq DOMAIN q /\ Len(q) \in Nat
  OBVIOUS
<1>2. CASE selects = {}
  BY <1>2 DEF CurrentAt
<1>3. CASE selects # {}
  <2>1. CurrentAt(q, d, i) = q[CHOOSE j \in selects : \A h \in selects : h <= j].db
    BY <1>3 DEF CurrentAt
  <2>2. \A j \in selects : q[j].type = "select" /\ q[j] \in Command
    BY <1>1
  <2> HIDE DEF selects
  <2>3. IsFiniteSet(selects)
    BY <1>1, FS_BoundedSetOfNaturals
  <2>4. \E j \in selects : \A h \in selects : h <= j
    BY <1>1, <1>3, <2>3, GreatestNatural
  <2>5. (CHOOSE j \in selects : \A h \in selects : h <= j) \in selects
    BY <2>4
  <2>6. q[CHOOSE j \in selects : \A h \in selects : h <= j].db \in DBs
    BY <2>5, <2>2, CommandFacts
  <2> QED BY <2>1, <2>2, <2>4, <2>6, <1>1
<1> QED BY <1>2, <1>3

(* SetCmdsVec: every command as it was queued, with the database it locks. *)
LEMMA CmdInfosFacts ==
  ASSUME NEW q \in Seq(Command), NEW d \in DBs
  PROVE  /\ CmdInfos(q, d) \in Seq(Command)
         /\ DOMAIN CmdInfos(q, d) = DOMAIN q
         /\ \A i \in DOMAIN q : /\ CmdInfos(q, d)[i].type = q[i].type
                                /\ CmdInfos(q, d)[i].db = q[i].db
                                /\ CmdInfos(q, d)[i].name = q[i].name
                                /\ CmdInfos(q, d)[i].at = CurrentAt(q, d, i)
<1>1. ASSUME NEW i \in DOMAIN q
      PROVE  /\ CmdInfos(q, d)[i] \in Command
             /\ CmdInfos(q, d)[i].type = q[i].type
             /\ CmdInfos(q, d)[i].db = q[i].db
             /\ CmdInfos(q, d)[i].name = q[i].name
             /\ CmdInfos(q, d)[i].at = CurrentAt(q, d, i)
  <2> DEFINE a == CurrentAt(q, d, i)
             e == q[i]
  <2>1. a \in DBs /\ e \in Command
    BY CurrentAtFacts
  <2>2. CmdInfos(q, d)[i] = [e EXCEPT !.at = a]
    BY DEF CmdInfos
  <2> HIDE DEF a, e
  <2>3. CASE e \in [type: {"write"}, db: DBs, name: Names, val: Val, at: DBs]
    <3> DEFINE f == [e EXCEPT !.at = a]
    <3>1. /\ f \in [type: {"write"}, db: DBs, name: Names, val: Val, at: DBs]
          /\ f.type = e.type /\ f.db = e.db /\ f.name = e.name /\ f.at = a
      BY <2>1, <2>3
    <3> QED BY <3>1, <2>2 DEF Command, a, e
  <2>4. CASE e \in [type: {"flushdb", "select"}, db: DBs, name: {NoName}, val: {0}, at: DBs]
    <3> DEFINE f == [e EXCEPT !.at = a]
    <3>1. /\ f \in [type: {"flushdb", "select"}, db: DBs, name: {NoName}, val: {0}, at: DBs]
          /\ f.type = e.type /\ f.db = e.db /\ f.name = e.name /\ f.at = a
      BY <2>1, <2>4
    <3> QED BY <3>1, <2>2 DEF Command, a, e
  <2> QED BY <2>1, <2>3, <2>4 DEF Command
<1>2. DOMAIN CmdInfos(q, d) = DOMAIN q
  BY DEF CmdInfos
<1>3. CmdInfos(q, d) \in Seq(Command)
  <2> DEFINE s == CmdInfos(q, d)
  <2>1. s = [i \in DOMAIN q |-> s[i]]
    BY <1>2 DEF CmdInfos
  <2>2. \A i \in DOMAIN q : s[i] \in Command
    BY <1>1
  <2>3. DOMAIN q = 1..Len(q) /\ Len(q) \in Nat
    OBVIOUS
  <2> HIDE DEF s
  <2>4. s \in [1..Len(q) -> Command]
    BY <2>1, <2>2, <2>3
  <2>5. s \in Seq(Command)
    BY <2>3, <2>4
  <2> QED BY <2>5 DEF s
<1> QED BY <1>1, <1>2, <1>3

(* The locks an EXEC needs for one of its commands, and a plain command to   *)
(* change the database.                                                      *)
NeededLocks(cmd) ==
  IF cmd.type = "write" THEN {Record(cmd.at, cmd.name), Shared(cmd.at)}
  ELSE IF cmd.type = "flushdb" THEN {Exclusive(cmd.at)}
  ELSE {}

(* The locks of a plain command. *)
LEMMA CommandLocksFacts ==
  ASSUME NEW cmd \in Command, cmd.type # "select", cmd.at = cmd.db
  PROVE  /\ CommandLocks(cmd) \in Seq(Lock)
         /\ NeededLocks(cmd) \subseteq ToSet(CommandLocks(cmd))
         /\ cmd.type = "flushdb" => Record(cmd.db, NoName) \in ToSet(CommandLocks(cmd))
<1>1. cmd.db \in DBs /\ cmd.name \in Names \cup {NoName} /\ cmd.type \in {"write", "flushdb"}
  BY CommandFacts
<1>2. /\ Record(cmd.db, cmd.name) \in Lock /\ Record(cmd.db, NoName) \in Lock
      /\ Shared(cmd.db) \in Lock /\ Exclusive(cmd.db) \in Lock /\ RmLock \in Lock
  BY <1>1, LockFacts
<1>3. CASE cmd.type = "flushdb"
  <2>1. CommandLocks(cmd) = <<Record(cmd.db, NoName), RmLock, Exclusive(cmd.db)>>
    BY <1>3 DEF CommandLocks
  <2>2. \A a, b, c \in Lock : <<a, b, c>> \in Seq(Lock) /\ ToSet(<<a, b, c>>) = {a, b, c}
    BY DEF ToSet
  <2> QED BY <1>2, <1>3, <2>1, <2>2 DEF NeededLocks
<1>4. CASE cmd.type = "write"
  <2>1. CommandLocks(cmd) = <<Record(cmd.db, cmd.name), Shared(cmd.db)>>
    BY <1>4 DEF CommandLocks
  <2>2. \A a, b \in Lock : <<a, b>> \in Seq(Lock) /\ ToSet(<<a, b>>) = {a, b}
    BY DEF ToSet
  <2> QED BY <1>2, <1>4, <2>1, <2>2 DEF NeededLocks
<1> QED BY <1>1, <1>3, <1>4

(* The databases of the commands of a type are finitely many. *)
LEMMA DBsOfFacts ==
  ASSUME NEW infos \in Seq(Command), NEW type
  PROVE  DBsOf(infos, type) \subseteq DBs /\ IsFiniteSet(DBsOf(infos, type))
<1> DEFINE s == [i \in 1..Len(infos) |-> infos[i].at]
<1>1. \A i \in DOMAIN infos : infos[i] \in Command /\ infos[i].at \in DBs
  BY CommandFacts
<1>2. DOMAIN infos = 1..Len(infos) /\ Len(infos) \in Nat
  OBVIOUS
<1>3. s \in Seq(DBs)
  BY <1>1, <1>2
<1>4. DBsOf(infos, type) \subseteq DBs
  BY <1>1 DEF DBsOf
<1>5. DBsOf(infos, type) \subseteq ToSet(s)
  BY <1>2 DEF DBsOf, ToSet
<1>6. IsFiniteSet(ToSet(s))
  BY <1>3, FiniteElements
<1> HIDE DEF s
<1> QED BY <1>4, <1>5, <1>6, FS_Subset

(* MultiRecordLock::Lock: the records of one database, each once and in      *)
(* ascending order.                                                          *)
LEMMA RecordsOfFacts ==
  ASSUME NEW infos \in Seq(Command), NEW d \in DBs
  PROVE  /\ RecordsOf(infos, d) \in Seq(Lock)
         /\ \A i \in DOMAIN infos : infos[i].type = "write" /\ infos[i].at = d =>
              Record(d, infos[i].name) \in ToSet(RecordsOf(infos, d))
         /\ \A i \in DOMAIN RecordsOf(infos, d) :
              \E n \in Names : RecordsOf(infos, d)[i] = Record(d, n)
         /\ \A i, j \in DOMAIN RecordsOf(infos, d) :
              i < j => RecordsOf(infos, d)[i].name < RecordsOf(infos, d)[j].name
<1> DEFINE names == {infos[i].name : i \in {j \in DOMAIN infos : infos[j].type = "write" /\ infos[j].at = d}}
           s == [i \in 1..Len(infos) |-> infos[i].name]
           sorted == Sorted(names)
           R == [i \in DOMAIN sorted |-> Record(d, sorted[i])]
<1>1. \A i \in DOMAIN infos : infos[i] \in Command
  OBVIOUS
<1>2. names \subseteq Names
  BY <1>1, CommandFacts
<1>3. DOMAIN infos = 1..Len(infos) /\ Len(infos) \in Nat
  OBVIOUS
<1>4. IsFiniteSet(names)
  <2>1. s \in Seq(Names \cup {NoName})
    BY <1>1, <1>3, CommandFacts
  <2>2. IsFiniteSet(ToSet(s))
    BY <2>1, FiniteElements
  <2>3. names \subseteq ToSet(s)
    BY <1>3 DEF ToSet
  <2> HIDE DEF s, names
  <2> QED BY <2>2, <2>3, FS_Subset
<1>5. RecordsOf(infos, d) = R
  BY Zenon DEF RecordsOf
<1>6. \A i \in DOMAIN infos : infos[i].type = "write" /\ infos[i].at = d => infos[i].name \in names
  OBVIOUS
<1> HIDE DEF names
<1>7. names \in SUBSET Nat
  BY <1>2, TxnAssumption
<1>8. /\ sorted \in Seq(names) /\ ToSet(sorted) = names /\ Increasing(sorted)
  BY <1>4, <1>7, SortedNames
<1> HIDE DEF sorted
<1>9. /\ \A i \in DOMAIN sorted : sorted[i] \in names /\ sorted[i] \in Names
      /\ DOMAIN sorted = 1..Len(sorted) /\ Len(sorted) \in Nat
      /\ \A x \in names : \E i \in DOMAIN sorted : sorted[i] = x
  <2>1. \A i \in DOMAIN sorted : sorted[i] \in ToSet(sorted)
    BY Zenon DEF ToSet
  <2>2. \A x \in ToSet(sorted) : \E i \in DOMAIN sorted : sorted[i] = x
    BY DEF ToSet
  <2>3. DOMAIN sorted = 1..Len(sorted) /\ Len(sorted) \in Nat
    BY <1>8
  <2> QED BY <2>1, <2>2, <2>3, <1>2, <1>8, Zenon
<1>10. DOMAIN R = DOMAIN sorted /\ \A i \in DOMAIN sorted : R[i] = Record(d, sorted[i])
  OBVIOUS
<1>11. \A i \in DOMAIN sorted : R[i] \in Lock /\ R[i].name = sorted[i]
  BY <1>9, <1>10, LockFacts
<1>12. R \in Seq(Lock)
  BY <1>9, <1>10, <1>11
<1> HIDE DEF R
<1>13. \A i \in DOMAIN R : \E n \in Names : R[i] = Record(d, n)
  BY <1>9, <1>10, Zenon
<1>14. \A i, j \in DOMAIN R : i < j => R[i].name < R[j].name
  BY <1>8, <1>10, <1>11, Zenon DEF Increasing
<1>15. \A x \in names : Record(d, x) \in ToSet(R)
  <2>1. \A i \in DOMAIN R : R[i] \in ToSet(R)
    BY Zenon DEF ToSet
  <2> QED BY <2>1, <1>9, <1>10, Zenon
<1> QED BY <1>5, <1>6, <1>12, <1>13, <1>14, <1>15, Zenon

(* ExecCmd::Lock: the plan holds what every command of the EXEC needs. *)
LEMMA ExecLocksFacts ==
  ASSUME NEW infos \in Seq(Command),
         NEW flushes \in SetToSeqs(DBsOf(infos, "flushdb")),
         NEW others \in SetToSeqs(DBsOf(infos, "write"))
  PROVE  /\ ExecLocks(infos, flushes, others) \in Seq(Lock)
         /\ \A i \in DOMAIN infos : NeededLocks(infos[i]) \subseteq ToSet(ExecLocks(infos, flushes, others))
<1> DEFINE F == [i \in DOMAIN flushes |-> Exclusive(flushes[i])]
           M == IF flushes = <<>> THEN <<>> ELSE <<RmLock>>
           P == [i \in DOMAIN others |-> Append(RecordsOf(infos, others[i]), Shared(others[i]))]
           G == FlattenSeq(P)
<1>1. ExecLocks(infos, flushes, others) = F \o M \o G
  BY Zenon DEF ExecLocks
<1>2. /\ flushes \in Seq(DBsOf(infos, "flushdb")) /\ ToSet(flushes) = DBsOf(infos, "flushdb")
      /\ others \in Seq(DBsOf(infos, "write")) /\ ToSet(others) = DBsOf(infos, "write")
  BY DBsOfFacts, SequencesOfSet
<1>3. /\ DOMAIN flushes = 1..Len(flushes) /\ Len(flushes) \in Nat
      /\ DOMAIN others = 1..Len(others) /\ Len(others) \in Nat
      /\ \A i \in DOMAIN flushes : flushes[i] \in DBs
      /\ \A i \in DOMAIN others : others[i] \in DBs
  BY <1>2, DBsOfFacts
<1>4. \A i \in DOMAIN flushes : F[i] \in Lock /\ F[i] = Exclusive(flushes[i])
  BY <1>3, LockFacts
<1>5. F \in Seq(Lock)
  BY <1>3, <1>4
<1>6. M \in Seq(Lock)
  <2>1. RmLock \in Lock
    BY DEF Exclusive, RmLock, Lock
  <2>2. <<>> \in Seq(Lock) /\ <<RmLock>> \in Seq(Lock)
    BY <2>1
  <2> QED BY <2>2
<1>7. \A i \in DOMAIN others :
        /\ P[i] \in Seq(Lock)
        /\ ToSet(P[i]) = ToSet(RecordsOf(infos, others[i])) \cup {Shared(others[i])}
  <2> TAKE i \in DOMAIN others
  <2>1. RecordsOf(infos, others[i]) \in Seq(Lock) /\ Shared(others[i]) \in Lock
    BY <1>3, RecordsOfFacts, LockFacts
  <2>2. P[i] = Append(RecordsOf(infos, others[i]), Shared(others[i]))
    OBVIOUS
  <2> QED BY <2>1, <2>2, AppendElements
<1>8. P \in Seq(Seq(Lock)) /\ DOMAIN P = DOMAIN others
  <2>1. DOMAIN P = 1..Len(others)
    BY <1>3
  <2>2. P \in [1..Len(others) -> Seq(Lock)]
    <3>1. P = [i \in DOMAIN others |-> P[i]]
      OBVIOUS
    <3> HIDE DEF P
    <3> QED BY <3>1, <2>1, <1>3, <1>7
  <2> HIDE DEF P
  <2> QED BY <2>1, <2>2, <1>3
<1> HIDE DEF P
<1>9. G \in Seq(Lock) /\ \A i \in DOMAIN P : ToSet(P[i]) \subseteq ToSet(G)
  BY <1>8, FlattenElements
<1> HIDE DEF G, M
<1>10. /\ F \o M \in Seq(Lock) /\ F \o M \o G \in Seq(Lock)
       /\ ToSet(F \o M \o G) = ToSet(F) \cup ToSet(M) \cup ToSet(G)
  <2> HIDE DEF F
  <2>1. F \o M \in Seq(Lock) /\ ToSet(F \o M) = ToSet(F) \cup ToSet(M)
    BY <1>5, <1>6, ConcatElements
  <2> DEFINE FM == F \o M
  <2> HIDE DEF FM
  <2>2. FM \in Seq(Lock)
    BY <2>1 DEF FM
  <2>3. FM \o G \in Seq(Lock) /\ ToSet(FM \o G) = ToSet(FM) \cup ToSet(G)
    BY <2>2, <1>9, ConcatElements
  <2> QED BY <2>1, <2>3 DEF FM
<1>11. ASSUME NEW i \in DOMAIN infos
       PROVE  NeededLocks(infos[i]) \subseteq ToSet(F) \cup ToSet(G)
  <2>1. infos[i] \in Command /\ infos[i].type \in {"write", "flushdb", "select"}
    BY CommandFacts
  <2>2. CASE infos[i].type = "write"
    <3>1. infos[i].at \in DBsOf(infos, "write")
      BY <2>2 DEF DBsOf
    <3>2. PICK k \in DOMAIN others : others[k] = infos[i].at
      BY <3>1, <1>2 DEF ToSet
    <3>3. Record(infos[i].at, infos[i].name) \in ToSet(RecordsOf(infos, others[k]))
      BY <2>2, <3>2, <1>3, RecordsOfFacts
    <3>4. ToSet(P[k]) \subseteq ToSet(G)
      BY <1>8, <1>9
    <3> QED BY <3>2, <3>3, <3>4, <1>7, <2>2 DEF NeededLocks
  <2>3. CASE infos[i].type = "flushdb"
    <3>1. infos[i].at \in DBsOf(infos, "flushdb")
      BY <2>3 DEF DBsOf
    <3>2. PICK k \in DOMAIN flushes : flushes[k] = infos[i].at
      BY <3>1, <1>2 DEF ToSet
    <3>3. F[k] \in ToSet(F)
      BY <3>2 DEF ToSet
    <3>4. F[k] = Exclusive(infos[i].at)
      BY <3>2, <1>4
    <3> HIDE DEF F
    <3> QED BY <3>3, <3>4, <2>3 DEF NeededLocks
  <2>4. CASE infos[i].type = "select"
    BY <2>4 DEF NeededLocks
  <2> QED BY <2>1, <2>2, <2>3, <2>4
<1> HIDE DEF F
<1> QED BY <1>1, <1>10, <1>11

(* l is taken before m: the records of a database in ascending order, then   *)
(* the replica manager, then the database.                                   *)
Before(l, m) ==
  \/ l.kind = "record" /\ m.kind = "record" /\ l.name < m.name
  \/ l.kind = "record" /\ m.kind # "record"
  \/ l = RmLock /\ m.kind # "record" /\ m.db # "rm"

InOrder(s) == \A i, j \in DOMAIN s : i < j => Before(s[i], s[j])

(* An EXEC of writes to one database locks its records in ascending order    *)
(* and then the database.                                                    *)
LEMMA ExecLocksInOrder ==
  ASSUME NEW infos \in Seq(Command), NEW d \in DBs,
         \A i \in DOMAIN infos : infos[i].type = "write" /\ infos[i].at = d,
         NEW flushes \in SetToSeqs(DBsOf(infos, "flushdb")),
         NEW others \in SetToSeqs(DBsOf(infos, "write"))
  PROVE  /\ InOrder(ExecLocks(infos, flushes, others))
         /\ \A i \in DOMAIN ExecLocks(infos, flushes, others) :
              \/ \E n \in Names : ExecLocks(infos, flushes, others)[i] = Record(d, n)
              \/ ExecLocks(infos, flushes, others)[i] = Shared(d)
<1> DEFINE R == RecordsOf(infos, d)
           P == [i \in DOMAIN others |-> Append(RecordsOf(infos, others[i]), Shared(others[i]))]
           E == ExecLocks(infos, flushes, others)
<1>1. DBsOf(infos, "flushdb") = {}
  BY DEF DBsOf
<1>2. flushes = <<>>
  <2>1. flushes \in Seq({})
    BY <1>1, DBsOfFacts, SequencesOfSet
  <2> QED BY <2>1
<1>3. E = <<>> \o <<>> \o FlattenSeq(P)
  <2>1. [i \in DOMAIN flushes |-> Exclusive(flushes[i])] = <<>>
    BY <1>2
  <2>2. (IF flushes = <<>> THEN <<>> ELSE <<RmLock>>) = <<>>
    BY <1>2
  <2> QED BY <2>1, <2>2, Zenon DEF ExecLocks
<1>4. /\ others \in Seq(DBsOf(infos, "write")) /\ ToSet(others) = DBsOf(infos, "write")
      /\ \A i, j \in DOMAIN others : i # j => others[i] # others[j]
  BY DBsOfFacts, SequencesOfSet
<1>5. DBsOf(infos, "write") \subseteq {d}
  BY DEF DBsOf
<1>6. \A i \in DOMAIN others : others[i] = d
  BY <1>4, <1>5
<1>7. Len(others) \in {0, 1} /\ DOMAIN others = 1..Len(others) /\ Len(others) \in Nat
  <2>1. DOMAIN others = 1..Len(others) /\ Len(others) \in Nat
    BY <1>4
  <2>2. ASSUME Len(others) > 1
        PROVE  FALSE
    <3>1. 1 \in DOMAIN others /\ 2 \in DOMAIN others
      BY <2>1, <2>2
    <3> QED BY <3>1, <1>4, <1>6
  <2> QED BY <2>1, <2>2
<1>8. R \in Seq(Lock) /\ Shared(d) \in Lock
  BY RecordsOfFacts, LockFacts
<1>9. DOMAIN P = 1..Len(others) /\ \A i \in 1..Len(others) : P[i] = Append(R, Shared(d))
  BY <1>6, <1>7
<1>10. Append(R, Shared(d)) \in Seq(Lock)
  BY <1>8, AppendElements
<1> HIDE DEF P
<1>11. CASE Len(others) = 0
  <2>1. DOMAIN others = {}
    BY <1>7, <1>11
  <2>2. P = <<>>
    BY <2>1 DEF P
  <2>3. E = <<>>
    BY <1>3, <2>2 DEF FlattenSeq
  <2> QED BY <2>3 DEF InOrder
<1>12. CASE Len(others) = 1
  <2>1. P \in Seq(Seq(Lock)) /\ Len(P) = 1 /\ P[1] = Append(R, Shared(d))
    <3>1. P = [i \in 1..Len(others) |-> P[i]]
      BY <1>7, <1>9 DEF P
    <3>2. P[1] = Append(R, Shared(d))
      BY <1>9, <1>12
    <3>3. P \in [1..Len(others) -> Seq(Lock)]
      BY <3>1, <1>9, <1>10
    <3>4. P \in Seq(Seq(Lock))
      BY <3>3, <1>7
    <3>5. Len(P) = 1
      BY <3>4, <1>9, <1>12
    <3> QED BY <3>2, <3>4, <3>5
  <2>2. FlattenSeq(P) = Append(R, Shared(d))
    BY <2>1, FlattenElements
  <2>3. E = Append(R, Shared(d))
    BY <1>3, <1>10, <2>2
  <2>4. /\ DOMAIN E = 1..(Len(R) + 1) /\ Len(R) \in Nat /\ DOMAIN R = 1..Len(R)
        /\ \A i \in 1..Len(R) : E[i] = R[i]
        /\ E[Len(R) + 1] = Shared(d)
    <3> HIDE DEF R, E
    <3> QED BY <2>3, <1>8
  <2>5. /\ \A i \in DOMAIN R : \E n \in Names : R[i] = Record(d, n)
        /\ \A i, j \in DOMAIN R : i < j => R[i].name < R[j].name
    BY RecordsOfFacts
  <2> HIDE DEF R, E
  <2>6. \A i \in DOMAIN R : R[i].kind = "record"
    BY <2>5, LockFacts
  <2>7. \A i \in DOMAIN E : (\E n \in Names : E[i] = Record(d, n)) \/ E[i] = Shared(d)
    <3> TAKE i \in DOMAIN E
    <3>1. i \in 1..Len(R) \/ i = Len(R) + 1
      BY <2>4
    <3> QED BY <3>1, <2>4, <2>5
  <2>8. Shared(d).kind = "shared"
    BY LockFacts
  <2>9. ASSUME NEW i \in DOMAIN E, NEW j \in DOMAIN E, i < j
        PROVE  Before(E[i], E[j])
    <3>1. i \in DOMAIN R /\ E[i] = R[i] /\ (j \in DOMAIN R \/ j = Len(R) + 1)
      BY <2>4, <2>9
    <3>2. CASE j \in DOMAIN R
      <4>1. E[j] = R[j] /\ R[i].name < R[j].name
        BY <3>1, <3>2, <2>4, <2>5, <2>9
      <4> QED BY <3>1, <3>2, <4>1, <2>6 DEF Before
    <3>3. CASE j = Len(R) + 1
      BY <3>1, <3>3, <2>4, <2>6, <2>8 DEF Before
    <3> QED BY <3>1, <3>2, <3>3
  <2> QED BY <2>7, <2>9 DEF InOrder, E
<1> QED BY <1>7, <1>11, <1>12

-----------------------------------------------------------------------------
(* Types *)

(* The initial state is well typed. *)
LEMMA TypeInit == Init => TypeOK
<1> SUFFICES ASSUME Init
             PROVE  TypeOK
  OBVIOUS
<1>1. DefaultDB \in DBs /\ MaxCommands \in Nat
  BY TxnAssumption
<1> QED BY <1>1 DEF Init, TypeOK, Val

(* A command of a connection that is counted. *)
LEMMA SendType ==
  ASSUME TypeOK, NEW c \in Conns, Send(c)
  PROVE  sent' \in [Conns -> 0..MaxCommands] /\ pc[c] = "idle"
BY TxnAssumption DEF TypeOK, Send

(* WATCH, UNWATCH, MULTI, DISCARD, SELECT, closing and queueing. *)
LEMMA ClientType ==
  ASSUME TypeOK, NEW c \in Conns
  PROVE  /\ \A k \in Keys : WatchDo(c, k) => TypeOK'
         /\ UnwatchDo(c) => TypeOK'
         /\ MultiDo(c) => TypeOK'
         /\ PushCmdToQue(c) => TypeOK'
         /\ InitCmdFails(c) => TypeOK'
         /\ DiscardDo(c) => TypeOK'
         /\ CloseFd(c) => TypeOK'
         /\ SelectDo(c) => TypeOK'
<1>1. ASSUME NEW k \in Keys, WatchDo(c, k) PROVE TypeOK'
  BY <1>1, SendType DEF WatchDo, TypeOK, store, running, locking
<1>2. ASSUME UnwatchDo(c) PROVE TypeOK'
  BY <1>2, SendType DEF UnwatchDo, RemoveWatchedKeys, TypeOK, store, locking
<1>3. ASSUME MultiDo(c) PROVE TypeOK'
  BY <1>3, SendType DEF MultiDo, TypeOK, store, running, locking
<1>4. ASSUME PushCmdToQue(c) PROVE TypeOK'
  <2>1. PICK cmd \in Writes(cur[c]) \cup {Select(d) : d \in DBs \ {cur[c]}} :
          que' = [que EXCEPT ![c] = Append(@, cmd)]
    BY <1>4, Zenon DEF PushCmdToQue
  <2>2. cur[c] \in DBs
    BY DEF TypeOK
  <2>3. cmd \in Command
    BY <2>1, <2>2, SentCommands
  <2>4. que' \in [Conns -> Seq(Command)]
    BY <2>1, <2>3 DEF TypeOK
  <2> QED BY <1>4, <2>4, SendType DEF PushCmdToQue, TypeOK, store, running, locking
<1>5. ASSUME InitCmdFails(c) PROVE TypeOK'
  BY <1>5, SendType DEF InitCmdFails, TypeOK, store, running, locking
<1>6. ASSUME DiscardDo(c) PROVE TypeOK'
  BY <1>6, SendType DEF DiscardDo, ExitTxn, ResetTxn, RemoveWatchedKeys, TypeOK, store, locking
<1>7. ASSUME CloseFd(c) PROVE TypeOK'
  <2>1. DefaultDB \in DBs
    BY TxnAssumption
  <2>2. /\ cur' \in [Conns -> DBs]
        /\ involved' \in [Conns -> SUBSET Conns]
        /\ seen' \in [Conns -> SUBSET (Conns \X Keys)]
        /\ watched' \in [Conns -> SUBSET Keys]
        /\ changed' \in [Conns -> SUBSET (Keys \X {"command", "overlap", "exec"})]
    BY <1>7, <2>1 DEF CloseFd, ExitTxn, RemoveWatchedKeys, TypeOK
  <2>3. /\ {start, initFailed, watchFailed}' \subseteq [Conns -> BOOLEAN]
        /\ que' \in [Conns -> Seq(Command)] /\ late' \subseteq Conns
    BY <1>7 DEF CloseFd, ExitTxn, ResetTxn, TypeOK
  <2> QED BY <1>7, <2>2, <2>3, SendType DEF CloseFd, TypeOK, store
<1>8. ASSUME SelectDo(c) PROVE TypeOK'
  BY <1>8, SendType DEF SelectDo, TypeOK, store, txnState, running, locking
<1> QED BY <1>1, <1>2, <1>3, <1>4, <1>5, <1>6, <1>7, <1>8

(* The command a connection sends outside a transaction. *)
LEMMA DoCmdFacts ==
  ASSUME TypeOK, NEW c \in Conns, DoCmd(c)
  PROVE  \E cmd \in Command :
           /\ cmd.type # "select" /\ cmd.at = cmd.db
           /\ todo' = [todo EXCEPT ![c] = <<cmd>>]
           /\ seen' = [seen EXCEPT ![c] = Endangered(cmd)]
           /\ involved' = [involved EXCEPT ![c] = Watchers(cmd)]
           /\ plan' = [plan EXCEPT ![c] = CommandLocks(cmd)]
<1>1. PICK cmd \in Writes(cur[c]) :
           /\ todo' = [todo EXCEPT ![c] = <<cmd>>]
           /\ seen' = [seen EXCEPT ![c] = Endangered(cmd)]
           /\ involved' = [involved EXCEPT ![c] = Watchers(cmd)]
           /\ plan' = [plan EXCEPT ![c] = CommandLocks(cmd)]
  BY Zenon DEF DoCmd
<1>2. cur[c] \in DBs
  BY DEF TypeOK
<1>3. cmd \in Command /\ cmd.type # "select" /\ cmd.at = cmd.db
  BY <1>1, <1>2, SentCommands
<1> QED BY <1>1, <1>3, Zenon

(* A plain command, EXEC and the steps after it. *)
LEMMA CommandType ==
  ASSUME TypeOK, NEW c \in Conns
  PROVE  /\ DoCmd(c) => TypeOK'
         /\ SetTxnWatchFailState(c) => TypeOK'
         /\ Exec(c) => TypeOK'
         /\ TakeLock(c) => TypeOK'
         /\ Locked(c) => TypeOK'
         /\ ExecDone(c) => TypeOK'
<1>1. ASSUME DoCmd(c) PROVE TypeOK'
  <2>1. PICK cmd \in Command :
           /\ cmd.type # "select" /\ cmd.at = cmd.db
           /\ todo' = [todo EXCEPT ![c] = <<cmd>>]
           /\ seen' = [seen EXCEPT ![c] = Endangered(cmd)]
           /\ involved' = [involved EXCEPT ![c] = Watchers(cmd)]
           /\ plan' = [plan EXCEPT ![c] = CommandLocks(cmd)]
    BY <1>1, DoCmdFacts
  <2>2. CommandLocks(cmd) \in Seq(Lock) /\ <<cmd>> \in Seq(Command)
    BY <2>1, CommandLocksFacts
  <2>3. Endangered(cmd) \subseteq Conns \X Keys /\ Watchers(cmd) \subseteq Conns
    BY DEF Endangered, Watchers
  <2>4. /\ plan' \in [Conns -> Seq(Lock)] /\ todo' \in [Conns -> Seq(Command)]
        /\ seen' \in [Conns -> SUBSET (Conns \X Keys)] /\ involved' \in [Conns -> SUBSET Conns]
    BY <2>1, <2>2, <2>3 DEF TypeOK
  <2>5. pc' \in [Conns -> {"idle", "mark", "lock", "do", "binlog", "exit"}]
    BY <1>1 DEF DoCmd, TypeOK
  <2> QED BY <1>1, <2>4, <2>5, SendType DEF DoCmd, TypeOK, store, txnState
<1>2. ASSUME SetTxnWatchFailState(c) PROVE TypeOK'
  <2>1. CASE involved[c] = {}
    <3>1. pc' = [pc EXCEPT ![c] = "lock"] /\ UNCHANGED <<watchFailed, late, involved>>
      BY <1>2, <2>1 DEF SetTxnWatchFailState
    <3> QED BY <1>2, <3>1 DEF SetTxnWatchFailState, TypeOK, store
  <2>2. CASE involved[c] # {}
    <3>1. PICK t \in involved[c] :
             /\ watchFailed' = [watchFailed EXCEPT ![t] = TRUE]
             /\ late' = IF watched[t] = {} THEN late \cup {t} ELSE late
             /\ involved' = [involved EXCEPT ![c] = @ \ {t}]
      BY <1>2, <2>2 DEF SetTxnWatchFailState
    <3>2. t \in Conns
      BY <3>1 DEF TypeOK
    <3>3. /\ watchFailed' \in [Conns -> BOOLEAN] /\ late' \subseteq Conns
          /\ involved' \in [Conns -> SUBSET Conns]
      BY <3>1, <3>2 DEF TypeOK
    <3> QED BY <1>2, <2>2, <3>3 DEF SetTxnWatchFailState, TypeOK, store
  <2> QED BY <2>1, <2>2
<1>3. ASSUME Exec(c) PROVE TypeOK'
  <2>1. CASE /\ initFailed[c] \/ watchFailed[c]
             /\ ExitTxn(c)
             /\ UNCHANGED <<cur, pc, todo, plan>>
    BY <1>3, <2>1, SendType DEF Exec, ExitTxn, ResetTxn, RemoveWatchedKeys, TypeOK, store
  <2> DEFINE infos == CmdInfos(que[c], cur[c])
             last == CurrentAt(que[c], cur[c], Len(infos) + 1)
  <2>2. CASE /\ ~initFailed[c] /\ ~watchFailed[c]
             /\ todo' = [todo EXCEPT ![c] = infos]
             /\ cur' = [cur EXCEPT ![c] = last]
             /\ \E flushes \in SetToSeqs(DBsOf(infos, "flushdb")),
                   others \in SetToSeqs(DBsOf(infos, "write")) :
                  plan' = [plan EXCEPT ![c] = ExecLocks(infos, flushes, others)]
             /\ pc' = [pc EXCEPT ![c] = "lock"]
             /\ UNCHANGED <<txnState, seen>>
    <3>1. que[c] \in Seq(Command) /\ cur[c] \in DBs
      BY DEF TypeOK
    <3>2. infos \in Seq(Command) /\ DOMAIN infos = DOMAIN que[c]
      BY <3>1, CmdInfosFacts
    <3>3. Len(infos) = Len(que[c]) /\ Len(que[c]) \in Nat
      BY <3>1, <3>2
    <3>4. last \in DBs
      BY <3>1, <3>3, CurrentAtFacts
    <3> HIDE DEF infos, last
    <3>5. plan' \in [Conns -> Seq(Lock)]
      BY <2>2, <3>2, ExecLocksFacts DEF TypeOK
    <3>6. todo' \in [Conns -> Seq(Command)] /\ cur' \in [Conns -> DBs]
      BY <2>2, <3>2, <3>4 DEF TypeOK
    <3>7. pc' \in [Conns -> {"idle", "mark", "lock", "do", "binlog", "exit"}]
      BY <2>2 DEF TypeOK
    <3> QED BY <1>3, <2>2, <3>5, <3>6, <3>7, SendType DEF Exec, TypeOK, store, txnState
  <2> QED BY <1>3, <2>1, <2>2 DEF Exec
<1>4. ASSUME TakeLock(c) PROVE TypeOK'
  <2>1. plan[c] \in Seq(Lock) /\ plan[c] # <<>>
    BY <1>4 DEF TakeLock, TypeOK
  <2>2. Head(plan[c]) \in Lock /\ Tail(plan[c]) \in Seq(Lock)
    BY <2>1
  <2>3. plan' \in [Conns -> Seq(Lock)] /\ held' \in [Conns -> SUBSET Lock]
    BY <1>4, <2>2 DEF TakeLock, TypeOK
  <2> QED BY <1>4, <2>3 DEF TakeLock, TypeOK, store, txnState
<1>5. ASSUME Locked(c) PROVE TypeOK'
  BY <1>5 DEF Locked, TypeOK, txnState, running, locking
<1>6. ASSUME ExecDone(c) PROVE TypeOK'
  BY <1>6 DEF ExecDone, ExitTxn, ResetTxn, RemoveWatchedKeys, TypeOK, store
<1> QED BY <1>1, <1>2, <1>3, <1>4, <1>5, <1>6

-----------------------------------------------------------------------------
(* The inductive invariant *)

Mine(c) == held[c] \cup ToSet(plan[c])

(* A plain command holds, or has still to take, the locks of its change; a   *)
(* FLUSHDB that has changed the database keeps the record "".                *)
PlainLocked(c) ==
  ~start[c] /\ pc[c] # "idle" =>
    /\ Len(todo[c]) = 1 /\ pc[c] # "exit"
    /\ todo[c][1].type # "select" /\ todo[c][1].at = todo[c][1].db
    /\ todo[c][1].type = "flushdb" => Record(todo[c][1].db, NoName) \in Mine(c)
    /\ todo[c][1].type = "write" \/ pc[c] # "binlog" => NeededLocks(todo[c][1]) \subseteq Mine(c)

SameCommand(e, f) == e.type = f.type /\ e.db = f.db /\ e.name = f.name

(* An EXEC holds, or has still to take, the locks of all its commands; from  *)
(* its first command on it holds those of everything that was queued.        *)
ExecLocked(c) ==
  start[c] /\ pc[c] # "idle" =>
    /\ pc[c] # "mark"
    /\ pc[c] \in {"do", "binlog"} => todo[c] # <<>>
    /\ pc[c] = "binlog" => todo[c][1].type = "write"
    /\ \A i \in DOMAIN todo[c] : NeededLocks(todo[c][i]) \subseteq Mine(c)
    /\ pc[c] = "lock" => /\ DOMAIN todo[c] = DOMAIN que[c]
                         /\ \A i \in DOMAIN que[c] : SameCommand(todo[c][i], que[c][i])
    /\ pc[c] # "lock" /\ "mislocked" \notin diverged =>
         /\ \A i \in DOMAIN todo[c] : todo[c][i].type # "select" => todo[c][i].at = todo[c][i].db
         /\ \A i \in DOMAIN que[c] : NeededLocks(que[c][i]) \subseteq held[c]

(* Locks are held, and planned, only while a command is under way. *)
PlanInv(c) ==
  /\ pc[c] \in {"idle", "mark"} => held[c] = {}
  /\ pc[c] \notin {"mark", "lock"} => plan[c] = <<>>
  /\ \A i \in DOMAIN que[c] : que[c][i].at = que[c][i].db

(* A command that does not flush or select in an EXEC takes its locks in the *)
(* order of Before.                                                          *)
Ordered(c) ==
  pc[c] \in {"mark", "lock"} /\ ~Unordered(c) =>
    /\ InOrder(plan[c])
    /\ \A l \in held[c], i \in DOMAIN plan[c] : Before(l, plan[c][i])

Exclusion == \A c, d \in Conns : c # d => \A l \in held[c], m \in held[d] : ~Conflict(l, m)

LockInv ==
  /\ \A c \in Conns : PlainLocked(c) /\ ExecLocked(c) /\ PlanInv(c) /\ Ordered(c)
  /\ Exclusion

(* A mark belongs to somebody who watches, or is late. *)
MarksExplained == \A t \in Conns : watched[t] = {} /\ watchFailed[t] => t \in late

(* Outside a transaction nothing is queued and no command has failed. *)
QueueInv == \A t \in Conns : ~start[t] => que[t] = <<>> /\ ~initFailed[t]

(* Whoever a command has found is marked, or will be before it takes locks.  *)
FoundInv ==
  /\ \A c, t \in Conns : \A k \in Keys : <<t, k>> \in seen[c] => t \in involved[c] \/ watchFailed[t]
  /\ \A c \in Conns : pc[c] # "mark" => involved[c] = {}

(* A change that a transaction has to see has marked it, and it is not being *)
(* executed.                                                                 *)
HonouredInv ==
  \A t \in Conns : \A k \in Keys :
    <<k, "command">> \in changed[t] => watchFailed[t] /\ ~(start[t] /\ pc[t] # "idle")

WatchInv == MarksExplained /\ QueueInv /\ FoundInv /\ HonouredInv

(* c has changed the database and its record is not written. *)
Unlogged(c, k) == pc[c] = "binlog" /\ k \in Affected(todo[c][1])

(* Until they diverge, the binlog gives the database but for what is not     *)
(* logged yet; a write that is not logged is still there, and so is a        *)
(* FLUSHDB, but for writes that are not logged either.                       *)
LogInv ==
  diverged = {} =>
    /\ \A k \in Keys : db[k] = logdb[k] \/ \E c \in Conns : Unlogged(c, k)
    /\ \A c \in Conns : \A k \in Keys :
         Unlogged(c, k) =>
           IF todo[c][1].type = "write" THEN db[k] = todo[c][1].val
           ELSE db[k] = 0 \/ \E e \in Conns : Unlogged(e, k) /\ todo[e][1].type = "write"

Inv == TypeOK /\ LockInv /\ WatchInv /\ LogInv

(* A connection that executes or logs a command has one. *)
LEMMA CurrentCommand ==
  ASSUME TypeOK, LockInv, NEW c \in Conns, pc[c] \in {"do", "binlog"}
  PROVE  /\ todo[c] \in Seq(Command) /\ todo[c] # <<>> /\ 1 \in DOMAIN todo[c]
         /\ Head(todo[c]) = todo[c][1] /\ todo[c][1] \in Command
         /\ Tail(todo[c]) \in Seq(Command)
         /\ ~start[c] => Len(todo[c]) = 1 /\ todo[c][1].type # "select"
<1>1. todo[c] \in Seq(Command) /\ start[c] \in BOOLEAN
  BY DEF TypeOK
<1>2. /\ start[c] => todo[c] # <<>>
      /\ ~start[c] => Len(todo[c]) = 1 /\ todo[c][1].type # "select"
  BY DEF LockInv, PlainLocked, ExecLocked
<1>3. Len(todo[c]) \in Nat \ {0}
  BY <1>1, <1>2
<1> QED BY <1>1, <1>2, <1>3

(* Executing and logging a command. *)
LEMMA DoType ==
  ASSUME TypeOK, LockInv, NEW c \in Conns
  PROVE  /\ Do(c) => TypeOK'
         /\ DoBinlog(c) => TypeOK'
<1> DEFINE cmd == Head(todo[c])
<1>1. ASSUME Do(c) PROVE TypeOK'
  <2>1. pc[c] = "do" /\ cmd \in Command /\ Tail(todo[c]) \in Seq(Command) /\ cmd.val \in Val
    BY <1>1, CurrentCommand, CommandFacts DEF Do
  <2>2. /\ pc' \in [Conns -> {"idle", "mark", "lock", "do", "binlog", "exit"}]
        /\ todo' \in [Conns -> Seq(Command)]
    <3>1. CASE cmd.type = "write" \/ ~start[c]
      <4>1. pc' = [pc EXCEPT ![c] = "binlog"] /\ UNCHANGED todo
        BY <1>1, <3>1 DEF Do
      <4> QED BY <4>1 DEF TypeOK
    <3>2. CASE ~(cmd.type = "write" \/ ~start[c])
      <4>1. /\ pc' = [pc EXCEPT ![c] = IF Tail(todo[c]) = <<>> THEN "exit" ELSE "do"]
            /\ todo' = [todo EXCEPT ![c] = Tail(todo[c])]
        BY <1>1, <3>2 DEF Do
      <4> QED BY <4>1, <2>1 DEF TypeOK
    <3> QED BY <3>1, <3>2
  <2>3. CASE cmd.type = "select"
    <3>1. UNCHANGED <<db, changed, watchFailed, held, diverged>>
      BY <1>1, <2>3 DEF Do
    <3> QED BY <1>1, <2>2, <3>1 DEF Do, TypeOK
  <2>4. CASE cmd.type # "select"
    <3>1. db' = [k \in Keys |-> IF k \in Affected(cmd) THEN cmd.val ELSE db[k]]
      BY <1>1, <2>4 DEF Do
    <3>2. db' \in [Keys -> Val]
      <4> HIDE DEF cmd
      <4> QED BY <2>1, <3>1 DEF TypeOK
    <3>3. changed' = ChangedBy(c, cmd)
      BY <1>1, <2>4 DEF Do
    <3>4. changed' \in [Conns -> SUBSET (Keys \X {"command", "overlap", "exec"})]
      <4>1. ASSUME NEW t \in Conns
            PROVE  ChangedBy(c, cmd)[t] \subseteq Keys \X {"command", "overlap", "exec"}
        <5>1. changed[t] \subseteq Keys \X {"command", "overlap", "exec"} /\ watched[t] \subseteq Keys
          BY DEF TypeOK
        <5>2. \A k : HowChanged(c, t, k) \in {"command", "overlap", "exec"}
          BY DEF HowChanged
        <5> QED BY <5>1, <5>2 DEF ChangedBy
      <4>2. ChangedBy(c, cmd) = [t \in Conns |-> ChangedBy(c, cmd)[t]]
        BY DEF ChangedBy
      <4> HIDE DEF cmd
      <4> QED BY <3>3, <4>1, <4>2
    <3>5. watchFailed' \in [Conns -> BOOLEAN]
      <4> DEFINE W(t) == \/ watchFailed[t]
                         \/ /\ start[c] /\ cmd.type = "flushdb"
                            /\ \E k \in watched[t] : k[1] = cmd.at /\ db'[k] # 0
      <4>1. watchFailed' = [t \in Conns |-> W(t)]
        BY <1>1, <2>4, Zenon DEF Do
      <4>2. \A t \in Conns : W(t) \in BOOLEAN
        BY Zenon
      <4> HIDE DEF W
      <4> QED BY <4>1, <4>2
    <3>6. held' \in [Conns -> SUBSET Lock]
      <4>1. held' = [held EXCEPT ![c] = DoneLocks(c, cmd)]
        BY <1>1, <2>4 DEF Do
      <4>2. DoneLocks(c, cmd) \subseteq held[c] /\ held[c] \subseteq Lock
        BY DEF DoneLocks, TypeOK
      <4> QED BY <4>1, <4>2 DEF TypeOK
    <3>7. diverged' \subseteq {"overtaken", "mislocked", "execflush"}
      BY <1>1, <2>4 DEF Do, TypeOK
    <3> QED BY <1>1, <2>2, <3>2, <3>4, <3>5, <3>6, <3>7 DEF Do, TypeOK
  <2> QED BY <2>3, <2>4
<1>2. ASSUME DoBinlog(c) PROVE TypeOK'
  <2>1. pc[c] = "binlog" /\ cmd \in Command /\ Tail(todo[c]) \in Seq(Command) /\ cmd.val \in Val
    BY <1>2, CurrentCommand, CommandFacts DEF DoBinlog
  <2>2. logdb' \in [Keys -> Val]
    <3>1. logdb' = [k \in Keys |-> IF k \in Affected(cmd) THEN cmd.val ELSE logdb[k]]
      BY <1>2 DEF DoBinlog
    <3> HIDE DEF cmd
    <3> QED BY <2>1, <3>1 DEF TypeOK
  <2>3. todo' \in [Conns -> Seq(Command)]
    BY <1>2, <2>1 DEF DoBinlog, TypeOK
  <2>4. diverged' \subseteq {"overtaken", "mislocked", "execflush"}
    BY <1>2 DEF DoBinlog, TypeOK
  <2>5. CASE start[c]
    <3>1. watchFailed' \in [Conns -> BOOLEAN]
      <4> DEFINE W(t) == \/ watchFailed[t]
                         \/ \E k \in watched[t] : WatchKey(k) \in {ExecKey(x) : x \in Affected(cmd)}
      <4>1. watchFailed' = [t \in Conns |-> W(t)]
        BY <1>2, <2>5, Zenon DEF DoBinlog
      <4>2. \A t \in Conns : W(t) \in BOOLEAN
        BY Zenon
      <4> HIDE DEF W
      <4> QED BY <4>1, <4>2
    <3>2. /\ pc' \in [Conns -> {"idle", "mark", "lock", "do", "binlog", "exit"}]
          /\ UNCHANGED <<held, seen>>
      BY <1>2, <2>5 DEF DoBinlog, TypeOK
    <3> QED BY <1>2, <2>2, <2>3, <2>4, <3>1, <3>2 DEF DoBinlog, TypeOK
  <2>6. CASE ~start[c]
    <3>1. /\ pc' \in [Conns -> {"idle", "mark", "lock", "do", "binlog", "exit"}]
          /\ held' \in [Conns -> SUBSET Lock] /\ seen' \in [Conns -> SUBSET (Conns \X Keys)]
          /\ UNCHANGED watchFailed
      BY <1>2, <2>6 DEF DoBinlog, TypeOK
    <3> QED BY <1>2, <2>2, <2>3, <2>4, <3>1 DEF DoBinlog, TypeOK
  <2> QED BY <2>5, <2>6
<1> QED BY <1>1, <1>2

(* Every step of a connection is one of its actions. *)
LEMMA TypeStep ==
  ASSUME TypeOK, LockInv, NEW c \in Conns, Connection(c)
  PROVE  TypeOK'
BY ClientType, CommandType, DoType, Zenon DEF Connection

(* A step of c leaves the command of every other connection alone. *)
LEMMA Frame ==
  ASSUME TypeOK, NEW c \in Conns, Connection(c), NEW d \in Conns \ {c}
  PROVE  /\ pc'[d] = pc[d] /\ todo'[d] = todo[d] /\ plan'[d] = plan[d] /\ held'[d] = held[d]
         /\ start'[d] = start[d] /\ que'[d] = que[d]
         /\ diverged \subseteq diverged'
<1> DEFINE Same == /\ pc'[d] = pc[d] /\ todo'[d] = todo[d] /\ plan'[d] = plan[d] /\ held'[d] = held[d]
                   /\ start'[d] = start[d] /\ que'[d] = que[d]
                   /\ diverged \subseteq diverged'
<1> USE DEF TypeOK
<1>1. ASSUME NEW k \in Keys, WatchDo(c, k) PROVE Same
  BY <1>1 DEF WatchDo, store, running, locking
<1>2. ASSUME UnwatchDo(c) PROVE Same
  BY <1>2 DEF UnwatchDo, store, locking
<1>3. ASSUME MultiDo(c) PROVE Same
  BY <1>3 DEF MultiDo, store, running, locking
<1>4. ASSUME PushCmdToQue(c) PROVE Same
  BY <1>4 DEF PushCmdToQue, store, running, locking
<1>5. ASSUME InitCmdFails(c) PROVE Same
  BY <1>5 DEF InitCmdFails, store, running, locking
<1>6. ASSUME DiscardDo(c) PROVE Same
  BY <1>6 DEF DiscardDo, ExitTxn, ResetTxn, store, locking
<1>7. ASSUME CloseFd(c) PROVE Same
  BY <1>7 DEF CloseFd, ExitTxn, ResetTxn, store
<1>8. ASSUME SelectDo(c) PROVE Same
  BY <1>8 DEF SelectDo, store, txnState, running, locking
<1>9. ASSUME DoCmd(c) PROVE Same
  BY <1>9 DEF DoCmd, store, txnState
<1>10. ASSUME SetTxnWatchFailState(c) PROVE Same
  BY <1>10 DEF SetTxnWatchFailState, store
<1>11. ASSUME Exec(c) PROVE Same
  BY <1>11 DEF Exec, ExitTxn, ResetTxn, store, txnState
<1>12. ASSUME TakeLock(c) PROVE Same
  BY <1>12 DEF TakeLock, store, txnState
<1>13. ASSUME Locked(c) PROVE Same
  BY <1>13 DEF Locked, txnState, running, locking
<1>14. ASSUME Do(c) PROVE Same
  BY <1>14 DEF Do
<1>15. ASSUME DoBinlog(c) PROVE Same
  BY <1>15 DEF DoBinlog
<1>16. ASSUME ExecDone(c) PROVE Same
  BY <1>16 DEF ExecDone, ExitTxn, ResetTxn, store
<1> HIDE DEF TypeOK, Same
<1>17. Same
  BY <1>1, <1>2, <1>3, <1>4, <1>5, <1>6, <1>7, <1>8, <1>9, <1>10, <1>11, <1>12, <1>13, <1>14,
     <1>15, <1>16, Zenon DEF Connection
<1> QED BY <1>17 DEF Same

-----------------------------------------------------------------------------
(* Locks *)

ConnLocked(c) == PlainLocked(c) /\ ExecLocked(c) /\ PlanInv(c) /\ Ordered(c)

(* The other connections keep what they have. *)
LEMMA OthersLocked ==
  ASSUME TypeOK, NEW c \in Conns, Connection(c), NEW d \in Conns \ {c}, ConnLocked(d)
  PROVE  ConnLocked(d)'
<1>1. /\ pc'[d] = pc[d] /\ todo'[d] = todo[d] /\ plan'[d] = plan[d] /\ held'[d] = held[d]
      /\ start'[d] = start[d] /\ que'[d] = que[d]
      /\ diverged \subseteq diverged'
  BY Frame
<1>2. Mine(d)' = Mine(d)
  BY <1>1 DEF Mine
<1>3. PlainLocked(d)'
  BY <1>1, <1>2 DEF ConnLocked, PlainLocked
<1>4. ExecLocked(d)'
  BY <1>1, <1>2 DEF ConnLocked, ExecLocked
<1>5. PlanInv(d)'
  BY <1>1 DEF ConnLocked, PlanInv
<1>6. Ordered(d)'
  <2>1. Unordered(d)' <=> Unordered(d)
    BY <1>1 DEF Unordered
  <2> QED BY <1>1, <2>1 DEF ConnLocked, Ordered
<1> QED BY <1>3, <1>4, <1>5, <1>6 DEF ConnLocked

(* A connection that stays idle holds nothing and plans nothing. *)
LEMMA IdleLocked ==
  ASSUME NEW c \in Conns, PlanInv(c), pc[c] = "idle", pc'[c] = "idle",
         held'[c] = held[c], plan'[c] = plan[c],
         \A i \in DOMAIN que'[c] : que'[c][i].at = que'[c][i].db
  PROVE  ConnLocked(c)'
BY DEF ConnLocked, PlainLocked, ExecLocked, PlanInv, Ordered

(* The commands of a client that only change the state of its transaction. *)
LEMMA ClientLocked ==
  ASSUME TypeOK, NEW c \in Conns, ConnLocked(c)
  PROVE  /\ \A k \in Keys : WatchDo(c, k) => ConnLocked(c)'
         /\ UnwatchDo(c) => ConnLocked(c)'
         /\ MultiDo(c) => ConnLocked(c)'
         /\ PushCmdToQue(c) => ConnLocked(c)'
         /\ InitCmdFails(c) => ConnLocked(c)'
         /\ DiscardDo(c) => ConnLocked(c)'
         /\ CloseFd(c) => ConnLocked(c)'
         /\ SelectDo(c) => ConnLocked(c)'
<1>1. PlanInv(c) /\ (\A i \in DOMAIN que[c] : que[c][i].at = que[c][i].db)
  BY DEF ConnLocked, PlanInv
<1>2. ASSUME NEW k \in Keys, WatchDo(c, k) PROVE ConnLocked(c)'
  BY <1>1, <1>2, IdleLocked DEF WatchDo, Send, store, running, locking
<1>3. ASSUME UnwatchDo(c) PROVE ConnLocked(c)'
  BY <1>1, <1>3, IdleLocked DEF UnwatchDo, Send, store, locking
<1>4. ASSUME MultiDo(c) PROVE ConnLocked(c)'
  BY <1>1, <1>4, IdleLocked DEF MultiDo, Send, store, running, locking
<1>5. ASSUME PushCmdToQue(c) PROVE ConnLocked(c)'
  <2>1. PICK cmd \in Writes(cur[c]) \cup {Select(d) : d \in DBs \ {cur[c]}} :
          que' = [que EXCEPT ![c] = Append(@, cmd)]
    BY <1>5, Zenon DEF PushCmdToQue
  <2>2. cmd \in Command /\ cmd.at = cmd.db /\ que[c] \in Seq(Command)
    BY <2>1, SentCommands DEF TypeOK
  <2>3. que'[c] = Append(que[c], cmd)
    BY <2>1 DEF TypeOK
  <2>4. \A i \in DOMAIN que'[c] : que'[c][i].at = que'[c][i].db
    <3> TAKE i \in DOMAIN que'[c]
    <3>1. (i \in DOMAIN que[c] /\ que'[c][i] = que[c][i]) \/ que'[c][i] = cmd
      BY <2>2, <2>3
    <3> QED BY <3>1, <1>1, <2>2
  <2> QED BY <1>1, <1>5, <2>4, IdleLocked DEF PushCmdToQue, Send, store, running, locking
<1>6. ASSUME InitCmdFails(c) PROVE ConnLocked(c)'
  BY <1>1, <1>6, IdleLocked DEF InitCmdFails, Send, store, running, locking
<1>7. ASSUME DiscardDo(c) PROVE ConnLocked(c)'
  <2>1. que'[c] = <<>>
    BY <1>7 DEF DiscardDo, ExitTxn, ResetTxn, TypeOK
  <2> QED BY <1>1, <1>7, <2>1, IdleLocked DEF DiscardDo, Send, store, locking
<1>8. ASSUME CloseFd(c) PROVE ConnLocked(c)'
  <2>1. que'[c] = <<>>
    BY <1>8 DEF CloseFd, ExitTxn, ResetTxn, TypeOK
  <2> QED BY <1>1, <1>8, <2>1, IdleLocked DEF CloseFd, Send, store
<1>9. ASSUME SelectDo(c) PROVE ConnLocked(c)'
  BY <1>1, <1>9, IdleLocked DEF SelectDo, Send, store, txnState, running, locking
<1> QED BY <1>2, <1>3, <1>4, <1>5, <1>6, <1>7, <1>8, <1>9

(* A plain command plans its locks in the order of Before. *)
LEMMA CommandLocksInOrder ==
  ASSUME NEW cmd \in Command
  PROVE  InOrder(CommandLocks(cmd))
<1>1. cmd.db \in DBs /\ cmd.db # "rm" /\ cmd.name \in Names \cup {NoName}
  BY CommandFacts, TxnAssumption
<1>2. CASE cmd.type = "flushdb"
  <2> DEFINE a == Record(cmd.db, NoName)
             b == RmLock
             e == Exclusive(cmd.db)
  <2>1. CommandLocks(cmd) = <<a, b, e>>
    BY <1>2 DEF CommandLocks
  <2>2. Before(a, b) /\ Before(a, e) /\ Before(b, e)
    BY <1>1, LockFacts DEF Before
  <2> HIDE DEF a, b, e
  <2> QED BY <2>1, <2>2 DEF InOrder
<1>3. CASE cmd.type # "flushdb"
  <2> DEFINE a == Record(cmd.db, cmd.name)
             b == Shared(cmd.db)
  <2>1. CommandLocks(cmd) = <<a, b>>
    BY <1>3 DEF CommandLocks
  <2>2. Before(a, b)
    BY <1>1, LockFacts DEF Before
  <2> HIDE DEF a, b
  <2> QED BY <2>1, <2>2 DEF InOrder
<1> QED BY <1>2, <1>3

(* A plain command plans its locks before it has any. *)
LEMMA DoCmdLocked ==
  ASSUME TypeOK, NEW c \in Conns, ConnLocked(c), DoCmd(c)
  PROVE  ConnLocked(c)'
<1>1. PICK cmd \in Command :
        /\ cmd.type # "select" /\ cmd.at = cmd.db
        /\ todo' = [todo EXCEPT ![c] = <<cmd>>]
        /\ seen' = [seen EXCEPT ![c] = Endangered(cmd)]
        /\ involved' = [involved EXCEPT ![c] = Watchers(cmd)]
        /\ plan' = [plan EXCEPT ![c] = CommandLocks(cmd)]
  BY DoCmdFacts
<1>2. /\ pc[c] = "idle" /\ pc'[c] = "mark" /\ held'[c] = held[c] /\ ~start'[c] /\ que'[c] = que[c]
      /\ todo'[c] = <<cmd>> /\ plan'[c] = CommandLocks(cmd)
  BY <1>1 DEF DoCmd, Send, txnState, TypeOK
<1>3. held'[c] = {}
  BY <1>2 DEF ConnLocked, PlanInv
<1>4. Len(todo'[c]) = 1 /\ todo'[c][1] = cmd
  BY <1>2
<1>5. /\ NeededLocks(cmd) \subseteq ToSet(CommandLocks(cmd))
      /\ cmd.type = "flushdb" => Record(cmd.db, NoName) \in ToSet(CommandLocks(cmd))
  BY <1>1, CommandLocksFacts
<1>6. PlainLocked(c)'
  BY <1>1, <1>2, <1>4, <1>5 DEF PlainLocked, Mine
<1>7. ExecLocked(c)'
  BY <1>2 DEF ExecLocked
<1>8. PlanInv(c)'
  BY <1>2, <1>3 DEF ConnLocked, PlanInv
<1>9. Ordered(c)'
  BY <1>1, <1>2, <1>3, CommandLocksInOrder DEF Ordered
<1> QED BY <1>6, <1>7, <1>8, <1>9 DEF ConnLocked

(* Marking connections changes no lock. *)
LEMMA MarkLocked ==
  ASSUME TypeOK, NEW c \in Conns, ConnLocked(c), SetTxnWatchFailState(c)
  PROVE  ConnLocked(c)'
<1>1. /\ pc[c] = "mark" /\ pc'[c] \in {"mark", "lock"} /\ held'[c] = held[c] /\ start'[c] = start[c]
      /\ que'[c] = que[c] /\ todo'[c] = todo[c] /\ plan'[c] = plan[c] /\ ~start[c]
  BY DEF SetTxnWatchFailState, TypeOK, ConnLocked, ExecLocked
<1>2. Mine(c)' = Mine(c)
  BY <1>1 DEF Mine
<1>3. PlainLocked(c)'
  BY <1>1, <1>2 DEF ConnLocked, PlainLocked
<1>4. ExecLocked(c)'
  BY <1>1 DEF ExecLocked
<1>5. PlanInv(c)'
  BY <1>1 DEF ConnLocked, PlanInv
<1>6. Ordered(c)'
  BY <1>1 DEF ConnLocked, Ordered, Unordered
<1> QED BY <1>3, <1>4, <1>5, <1>6 DEF ConnLocked

(* EXEC plans the locks of every command that was queued. *)
LEMMA ExecLockedStep ==
  ASSUME TypeOK, NEW c \in Conns, ConnLocked(c), Exec(c)
  PROVE  ConnLocked(c)'
<1>1. pc[c] = "idle" /\ PlanInv(c) /\ held[c] = {} /\ held'[c] = {} /\ start[c]
  BY DEF Exec, Send, ConnLocked, PlanInv
<1>2. CASE /\ initFailed[c] \/ watchFailed[c]
           /\ ExitTxn(c)
           /\ UNCHANGED <<cur, pc, todo, plan>>
  <2>1. que'[c] = <<>>
    BY <1>2 DEF ExitTxn, ResetTxn, TypeOK
  <2>2. \A i \in DOMAIN que'[c] : que'[c][i].at = que'[c][i].db
    BY <2>1
  <2>3. pc'[c] = "idle" /\ plan'[c] = plan[c] /\ held'[c] = held[c]
    BY <1>1, <1>2
  <2> QED BY <1>1, <2>2, <2>3, IdleLocked
<1> DEFINE infos == CmdInfos(que[c], cur[c])
<1>3. CASE /\ ~initFailed[c] /\ ~watchFailed[c]
           /\ todo' = [todo EXCEPT ![c] = infos]
           /\ \E flushes \in SetToSeqs(DBsOf(infos, "flushdb")),
                 others \in SetToSeqs(DBsOf(infos, "write")) :
                plan' = [plan EXCEPT ![c] = ExecLocks(infos, flushes, others)]
           /\ pc' = [pc EXCEPT ![c] = "lock"]
           /\ UNCHANGED <<txnState, seen>>
  <2>1. que[c] \in Seq(Command) /\ cur[c] \in DBs
    BY DEF TypeOK
  <2>2. /\ infos \in Seq(Command) /\ DOMAIN infos = DOMAIN que[c]
        /\ \A i \in DOMAIN que[c] : SameCommand(infos[i], que[c][i]) /\ infos[i].at = CurrentAt(que[c], cur[c], i)
    BY <2>1, CmdInfosFacts DEF SameCommand
  <2>3. (\A i \in DOMAIN infos : infos[i].type = "write") =>
          \A i \in DOMAIN infos : infos[i].type = "write" /\ infos[i].at = cur[c]
    <3>1. ASSUME \A i \in DOMAIN infos : infos[i].type = "write", NEW i \in DOMAIN infos
          PROVE  infos[i].at = cur[c]
      <4>1. \A j \in DOMAIN que[c] : que[c][j].type # "select"
        BY <2>2, <3>1 DEF SameCommand
      <4>2. i \in 1..(Len(que[c]) + 1)
        BY <2>1, <2>2
      <4>3. CurrentAt(que[c], cur[c], i) = cur[c]
        BY <2>1, <4>1, <4>2, CurrentAtFacts
      <4> QED BY <2>2, <4>3
    <3> QED BY <3>1
  <2> HIDE DEF infos
  <2>4. PICK flushes \in SetToSeqs(DBsOf(infos, "flushdb")), others \in SetToSeqs(DBsOf(infos, "write")) :
          plan' = [plan EXCEPT ![c] = ExecLocks(infos, flushes, others)]
    BY <1>3
  <2> DEFINE E == ExecLocks(infos, flushes, others)
  <2>5. /\ pc'[c] = "lock" /\ start'[c] /\ que'[c] = que[c] /\ todo'[c] = infos /\ plan'[c] = E
    BY <1>1, <1>3, <2>4 DEF txnState, TypeOK
  <2>6. \A i \in DOMAIN infos : NeededLocks(infos[i]) \subseteq ToSet(E)
    BY <2>2, ExecLocksFacts
  <2>7. (\A i \in DOMAIN infos : infos[i].type = "write") => InOrder(E)
    BY <2>1, <2>2, <2>3, ExecLocksInOrder
  <2> HIDE DEF E
  <2>8. PlainLocked(c)'
    BY <2>5 DEF PlainLocked
  <2>9. ExecLocked(c)'
    BY <2>2, <2>5, <2>6 DEF ExecLocked, Mine
  <2>10. PlanInv(c)'
    BY <1>1, <2>5 DEF PlanInv
  <2>11. Ordered(c)'
    BY <1>1, <2>5, <2>7 DEF Ordered, Unordered
  <2> QED BY <2>8, <2>9, <2>10, <2>11 DEF ConnLocked
<1> QED BY <1>2, <1>3 DEF Exec

(* Taking a lock moves it from the plan to the locks held. *)
LEMMA TakeLockLocked ==
  ASSUME TypeOK, NEW c \in Conns, ConnLocked(c), TakeLock(c)
  PROVE  ConnLocked(c)'
<1> DEFINE s == plan[c]
<1>1. s \in Seq(Lock) /\ s # <<>> /\ pc[c] = "lock"
  BY DEF TakeLock, TypeOK
<1>2. /\ pc'[c] = pc[c] /\ start'[c] = start[c] /\ que'[c] = que[c] /\ todo'[c] = todo[c]
      /\ held'[c] = held[c] \cup {Head(s)} /\ plan'[c] = Tail(s) /\ diverged' = diverged
  BY DEF TakeLock, TypeOK, txnState, store
<1>3. ToSet(s) = {Head(s)} \cup ToSet(Tail(s))
  BY <1>1, TailElements
<1>4. Mine(c)' = Mine(c)
  BY <1>2, <1>3 DEF Mine
<1>5. PlainLocked(c)'
  BY <1>2, <1>4 DEF ConnLocked, PlainLocked
<1>6. ExecLocked(c)'
  BY <1>1, <1>2, <1>4 DEF ConnLocked, ExecLocked
<1>7. PlanInv(c)'
  BY <1>1, <1>2 DEF ConnLocked, PlanInv
<1>8. Ordered(c)'
  <2> SUFFICES ASSUME ~Unordered(c)
               PROVE  /\ InOrder(plan'[c])
                      /\ \A l \in held'[c], i \in DOMAIN plan'[c] : Before(l, plan'[c][i])
    BY <1>2 DEF Ordered, Unordered
  <2>1. /\ InOrder(s)
        /\ \A l \in held[c], i \in DOMAIN s : Before(l, s[i])
    BY <1>1 DEF ConnLocked, Ordered
  <2> HIDE DEF s
  <2>2. /\ \A i \in DOMAIN Tail(s) : i + 1 \in DOMAIN s /\ Tail(s)[i] = s[i + 1] /\ i \in Nat /\ 1 < i + 1
        /\ Head(s) = s[1] /\ 1 \in DOMAIN s
    BY <1>1
  <2>3. InOrder(Tail(s))
    BY <2>1, <2>2 DEF InOrder
  <2>4. \A i \in DOMAIN Tail(s) : Before(Head(s), Tail(s)[i])
    BY <2>1, <2>2 DEF InOrder
  <2>5. \A l \in held[c], i \in DOMAIN Tail(s) : Before(l, Tail(s)[i])
    BY <2>1, <2>2
  <2> QED BY <1>2, <2>3, <2>4, <2>5
<1> QED BY <1>5, <1>6, <1>7, <1>8 DEF ConnLocked

(* With its locks taken, an EXEC that works where it has locked holds the    *)
(* locks of everything that was queued.                                      *)
LEMMA LockedLocked ==
  ASSUME TypeOK, NEW c \in Conns, ConnLocked(c), Locked(c)
  PROVE  ConnLocked(c)'
<1>1. /\ pc[c] = "lock" /\ plan[c] = <<>> /\ plan'[c] = plan[c] /\ held'[c] = held[c]
      /\ start'[c] = start[c] /\ que'[c] = que[c] /\ todo'[c] = todo[c]
      /\ pc'[c] = IF todo[c] = <<>> THEN "exit" ELSE "do"
      /\ diverged' = IF Mislocked(c) THEN diverged \cup {"mislocked"} ELSE diverged
  BY DEF Locked, TypeOK, txnState, running, locking
<1>2. Mine(c)' = Mine(c) /\ Mine(c) = held[c]
  BY <1>1 DEF Mine, ToSet
<1>3. PlainLocked(c)'
  <2> SUFFICES ASSUME ~start[c]
               PROVE  PlainLocked(c)'
    BY <1>1 DEF PlainLocked
  <2>1. todo[c] # <<>>
    BY <1>1 DEF ConnLocked, PlainLocked
  <2>2. pc'[c] = "do"
    BY <1>1, <2>1
  <2> QED BY <1>1, <1>2, <2>2 DEF ConnLocked, PlainLocked
<1>4. ExecLocked(c)'
  <2> SUFFICES ASSUME start[c]
               PROVE  ExecLocked(c)'
    BY <1>1 DEF ExecLocked
  <2>1. /\ \A i \in DOMAIN todo[c] : NeededLocks(todo[c][i]) \subseteq held[c]
        /\ DOMAIN todo[c] = DOMAIN que[c]
        /\ \A i \in DOMAIN que[c] : SameCommand(todo[c][i], que[c][i]) /\ que[c][i].at = que[c][i].db
    BY <1>1, <1>2 DEF ConnLocked, ExecLocked, PlanInv
  <2>2. ASSUME "mislocked" \notin diverged'
        PROVE  /\ \A i \in DOMAIN todo[c] : todo[c][i].type # "select" => todo[c][i].at = todo[c][i].db
               /\ \A i \in DOMAIN que[c] : NeededLocks(que[c][i]) \subseteq held[c]
    <3>1. \A i \in DOMAIN todo[c] : todo[c][i].type # "select" => todo[c][i].at = todo[c][i].db
      BY <1>1, <2>2 DEF Mislocked
    <3>2. ASSUME NEW i \in DOMAIN que[c]
          PROVE  NeededLocks(que[c][i]) \subseteq held[c]
      <4>1. CASE que[c][i].type = "select"
        BY <4>1 DEF NeededLocks
      <4>2. CASE que[c][i].type # "select"
        <5>1. todo[c][i].type = que[c][i].type /\ todo[c][i].at = que[c][i].at /\ todo[c][i].name = que[c][i].name
          BY <2>1, <3>1, <4>2 DEF SameCommand
        <5>2. NeededLocks(todo[c][i]) = NeededLocks(que[c][i])
          BY <5>1 DEF NeededLocks
        <5> QED BY <2>1, <5>2
      <4> QED BY <4>1, <4>2
    <3> QED BY <3>1, <3>2
  <2>3. pc'[c] \in {"do", "exit"} /\ (pc'[c] = "do" => todo[c] # <<>>)
    BY <1>1
  <2> QED BY <1>1, <1>2, <2>1, <2>2, <2>3 DEF ExecLocked
<1>5. PlanInv(c)'
  BY <1>1 DEF ConnLocked, PlanInv
<1>6. Ordered(c)'
  BY <1>1 DEF Ordered
<1> QED BY <1>3, <1>4, <1>5, <1>6 DEF ConnLocked

(* Executing a command keeps the locks of the commands that are left; a      *)
(* FLUSHDB keeps the record "".                                              *)
LEMMA DoLocked ==
  ASSUME TypeOK, LockInv, NEW c \in Conns, Do(c)
  PROVE  ConnLocked(c)'
<1> DEFINE s == todo[c]
           cmd == s[1]
<1>1. /\ s \in Seq(Command) /\ s # <<>> /\ Head(s) = cmd /\ cmd \in Command
      /\ pc[c] = "do" /\ ConnLocked(c) /\ cmd.type \in {"write", "flushdb", "select"}
  BY CurrentCommand, CommandFacts DEF Do, LockInv, ConnLocked
<1>2. plan[c] = <<>> /\ plan'[c] = <<>> /\ start'[c] = start[c] /\ que'[c] = que[c]
  BY <1>1 DEF Do, ConnLocked, PlanInv
<1>3. Mine(c) = held[c] /\ Mine(c)' = held'[c]
  BY <1>2 DEF Mine, ToSet
<1>4. held'[c] = IF cmd.type = "select" THEN held[c] ELSE DoneLocks(c, cmd)
  BY <1>1 DEF Do, TypeOK
<1>5. "mislocked" \in diverged' <=> "mislocked" \in diverged
  BY DEF Do
<1>6. IF cmd.type = "write" \/ ~start[c]
      THEN pc'[c] = "binlog" /\ todo'[c] = s
      ELSE pc'[c] = (IF Tail(s) = <<>> THEN "exit" ELSE "do") /\ todo'[c] = Tail(s)
  <2>1. CASE cmd.type = "write" \/ ~start[c]
    BY <1>1, <2>1 DEF Do, TypeOK
  <2>2. CASE ~(cmd.type = "write" \/ ~start[c])
    BY <1>1, <2>2 DEF Do, TypeOK
  <2> QED BY <2>1, <2>2
<1>7. PlanInv(c)'
  <2>1. pc'[c] \in {"binlog", "exit", "do"}
    BY <1>6
  <2> QED BY <1>1, <1>2, <2>1 DEF ConnLocked, PlanInv
<1>8. Ordered(c)'
  <2>1. pc'[c] \in {"binlog", "exit", "do"}
    BY <1>6
  <2> QED BY <2>1 DEF Ordered
<1>9. CASE ~start[c]
  <2>1. /\ Len(s) = 1 /\ cmd.type # "select" /\ cmd.at = cmd.db
        /\ cmd.type = "flushdb" => Record(cmd.db, NoName) \in held[c]
        /\ NeededLocks(cmd) \subseteq held[c]
    BY <1>1, <1>3, <1>9 DEF ConnLocked, PlainLocked
  <2>2. pc'[c] = "binlog" /\ todo'[c] = s
    BY <1>6, <1>9
  <2>3. cmd.type = "flushdb" => Record(cmd.db, NoName) \in held'[c]
    <3>1. Record(cmd.db, NoName).kind = "record"
      BY <1>1, CommandFacts, LockFacts
    <3> QED BY <1>4, <2>1, <3>1 DEF DoneLocks
  <2>4. cmd.type = "write" => held'[c] = held[c]
    BY <1>4 DEF DoneLocks
  <2>5. PlainLocked(c)'
    BY <1>1, <1>2, <1>3, <2>1, <2>2, <2>3, <2>4 DEF PlainLocked
  <2>6. ExecLocked(c)'
    BY <1>2, <1>9 DEF ExecLocked
  <2> QED BY <2>5, <2>6, <1>7, <1>8 DEF ConnLocked
<1>10. CASE start[c]
  <2>1. held'[c] = held[c]
    BY <1>4, <1>10 DEF DoneLocks
  <2>2. PlainLocked(c)'
    BY <1>2, <1>10 DEF PlainLocked
  <2>3. ExecLocked(c)'
    <3>1. CASE cmd.type = "write"
      <4>1. pc'[c] = "binlog" /\ todo'[c] = s
        BY <1>6, <3>1
      <4> QED BY <1>1, <1>2, <1>3, <1>5, <1>10, <2>1, <3>1, <4>1 DEF ConnLocked, ExecLocked
    <3>2. CASE cmd.type # "write"
      <4>1. pc'[c] = (IF Tail(s) = <<>> THEN "exit" ELSE "do") /\ todo'[c] = Tail(s)
        BY <1>6, <1>10, <3>2
      <4>2. pc'[c] \in {"exit", "do"} /\ (pc'[c] = "do" => todo'[c] # <<>>)
        BY <4>1
      <4>3. \A i \in DOMAIN Tail(s) : i + 1 \in DOMAIN s /\ Tail(s)[i] = s[i + 1]
        BY <1>1
      <4>4. /\ \A i \in DOMAIN s : NeededLocks(s[i]) \subseteq held[c]
            /\ "mislocked" \notin diverged =>
                 /\ \A i \in DOMAIN s : s[i].type # "select" => s[i].at = s[i].db
                 /\ \A i \in DOMAIN que[c] : NeededLocks(que[c][i]) \subseteq held[c]
        BY <1>1, <1>3, <1>10 DEF ConnLocked, ExecLocked
      <4> HIDE DEF s
      <4>5. /\ \A i \in DOMAIN Tail(s) : NeededLocks(Tail(s)[i]) \subseteq held[c]
            /\ "mislocked" \notin diverged =>
                 \A i \in DOMAIN Tail(s) : Tail(s)[i].type # "select" => Tail(s)[i].at = Tail(s)[i].db
        BY <4>3, <4>4
      <4> QED BY <1>2, <1>3, <1>5, <2>1, <4>1, <4>2, <4>4, <4>5 DEF ExecLocked
    <3> QED BY <3>1, <3>2
  <2> QED BY <2>2, <2>3, <1>7, <1>8 DEF ConnLocked
<1> QED BY <1>9, <1>10, <1>1 DEF TypeOK

(* Logging a command ends it, or goes on with the next one of the EXEC. *)
LEMMA DoBinlogLocked ==
  ASSUME TypeOK, LockInv, NEW c \in Conns, DoBinlog(c)
  PROVE  ConnLocked(c)'
<1> DEFINE s == todo[c]
<1>1. /\ s \in Seq(Command) /\ s # <<>> /\ pc[c] = "binlog" /\ ConnLocked(c)
  BY CurrentCommand DEF DoBinlog, LockInv, ConnLocked
<1>2. plan[c] = <<>> /\ plan'[c] = <<>> /\ start'[c] = start[c] /\ que'[c] = que[c]
  BY <1>1 DEF DoBinlog, ConnLocked, PlanInv
<1>3. Mine(c) = held[c] /\ Mine(c)' = held'[c]
  BY <1>2 DEF Mine, ToSet
<1>4. "mislocked" \in diverged' <=> "mislocked" \in diverged
  BY DEF DoBinlog
<1>5. CASE ~start[c]
  <2>1. pc'[c] = "idle" /\ held'[c] = {}
    BY <1>5 DEF DoBinlog, TypeOK
  <2> QED BY <1>1, <1>2, <2>1 DEF ConnLocked, PlainLocked, ExecLocked, PlanInv, Ordered
<1>6. CASE start[c]
  <2>1. /\ pc'[c] = (IF Tail(s) = <<>> THEN "exit" ELSE "do") /\ todo'[c] = Tail(s)
        /\ held'[c] = held[c]
    BY <1>6 DEF DoBinlog, TypeOK
  <2>2. pc'[c] \in {"exit", "do"} /\ (pc'[c] = "do" => todo'[c] # <<>>)
    BY <2>1
  <2>3. \A i \in DOMAIN Tail(s) : i + 1 \in DOMAIN s /\ Tail(s)[i] = s[i + 1]
    BY <1>1
  <2>4. /\ \A i \in DOMAIN s : NeededLocks(s[i]) \subseteq held[c]
        /\ "mislocked" \notin diverged =>
             /\ \A i \in DOMAIN s : s[i].type # "select" => s[i].at = s[i].db
             /\ \A i \in DOMAIN que[c] : NeededLocks(que[c][i]) \subseteq held[c]
    BY <1>1, <1>3, <1>6 DEF ConnLocked, ExecLocked
  <2>5. PlanInv(c)' /\ Ordered(c)' /\ PlainLocked(c)'
    BY <1>1, <1>2, <1>6, <2>2 DEF ConnLocked, PlanInv, Ordered, PlainLocked
  <2> HIDE DEF s
  <2>6. /\ \A i \in DOMAIN Tail(s) : NeededLocks(Tail(s)[i]) \subseteq held[c]
        /\ "mislocked" \notin diverged =>
             \A i \in DOMAIN Tail(s) : Tail(s)[i].type # "select" => Tail(s)[i].at = Tail(s)[i].db
    BY <2>3, <2>4
  <2>7. ExecLocked(c)'
    BY <1>2, <1>3, <1>4, <2>1, <2>2, <2>4, <2>6 DEF ExecLocked
  <2> QED BY <2>5, <2>7 DEF ConnLocked
<1> QED BY <1>5, <1>6, <1>1 DEF TypeOK

(* The end of an EXEC. *)
LEMMA ExecDoneLocked ==
  ASSUME TypeOK, NEW c \in Conns, ConnLocked(c), ExecDone(c)
  PROVE  ConnLocked(c)'
<1>1. pc[c] = "exit" /\ pc'[c] = "idle" /\ held'[c] = {} /\ que'[c] = <<>> /\ plan'[c] = plan[c]
  BY DEF ExecDone, ExitTxn, ResetTxn, TypeOK
<1> QED BY <1>1 DEF ConnLocked, PlainLocked, ExecLocked, PlanInv, Ordered

(* Conflict is symmetric. *)
LEMMA ConflictSymmetric ==
  ASSUME NEW l \in Lock, NEW m \in Lock
  PROVE  Conflict(l, m) <=> Conflict(m, l)
BY DEF Conflict, Lock

(* TakeLock waits for the holders of conflicting locks: every other step     *)
(* only gives locks back.                                                    *)
LEMMA ExclusionStep ==
  ASSUME TypeOK, LockInv, NEW c \in Conns, Connection(c)
  PROVE  Exclusion'
<1>1. \A d \in Conns \ {c} : held'[d] = held[d]
  BY Frame
<1>2. CASE held'[c] \subseteq held[c]
  <2>1. \A d \in Conns : held'[d] \subseteq held[d]
    BY <1>1, <1>2
  <2> QED BY <2>1 DEF LockInv, Exclusion
<1>3. CASE TakeLock(c)
  <2> DEFINE h == Head(plan[c])
  <2>1. held'[c] = held[c] \cup {h} /\ h \in Lock /\ HoldersAgainst(h) = {}
    <3>1. plan[c] \in Seq(Lock) /\ plan[c] # <<>>
      BY <1>3 DEF TakeLock, TypeOK
    <3> QED BY <1>3, <3>1 DEF TakeLock, TypeOK
  <2> HIDE DEF h
  <2>2. \A d \in Conns : \A m \in held[d] : m \in Lock /\ ~Conflict(h, m) /\ ~Conflict(m, h)
    <3>1. \A d \in Conns : \A m \in held[d] : m \in Lock /\ ~Conflict(h, m)
      BY <2>1 DEF HoldersAgainst, TypeOK
    <3> QED BY <3>1, <2>1, ConflictSymmetric
  <2>3. ASSUME NEW a \in Conns, NEW b \in Conns, a # b, NEW l \in held'[a], NEW m \in held'[b]
        PROVE  ~Conflict(l, m)
    <3>1. CASE l \in held[a] /\ m \in held[b]
      BY <2>3, <3>1 DEF LockInv, Exclusion
    <3>2. CASE l \notin held[a]
      <4>1. a = c /\ l = h /\ m \in held[b]
        BY <2>3, <3>2, <1>1, <2>1
      <4> QED BY <4>1, <2>2
    <3>3. CASE m \notin held[b]
      <4>1. b = c /\ m = h /\ l \in held[a]
        BY <2>3, <3>3, <1>1, <2>1
      <4> QED BY <4>1, <2>2
    <3> QED BY <3>1, <3>2, <3>3
  <2> QED BY <2>3 DEF Exclusion
<1>4. CASE Do(c)
  <2>1. held'[c] \subseteq held[c]
    BY <1>4 DEF Do, DoneLocks, TypeOK
  <2> QED BY <2>1, <1>2
<1>5. CASE DoBinlog(c)
  <2>1. held'[c] \subseteq held[c]
    BY <1>5 DEF DoBinlog, TypeOK
  <2> QED BY <2>1, <1>2
<1>6. CASE ExecDone(c)
  <2>1. held'[c] \subseteq held[c]
    BY <1>6 DEF ExecDone, TypeOK
  <2> QED BY <2>1, <1>2
<1>7. CASE ~(TakeLock(c) \/ Do(c) \/ DoBinlog(c) \/ ExecDone(c))
  <2>1. held' = held
    <3>1. ASSUME NEW k \in Keys, WatchDo(c, k) PROVE held' = held
      BY <3>1 DEF WatchDo, running, locking
    <3>2. UnwatchDo(c) \/ DiscardDo(c) => held' = held
      BY DEF UnwatchDo, DiscardDo, locking
    <3>3. MultiDo(c) \/ PushCmdToQue(c) \/ InitCmdFails(c) \/ SelectDo(c) \/ Locked(c) => held' = held
      BY DEF MultiDo, PushCmdToQue, InitCmdFails, SelectDo, Locked, running, locking
    <3>4. CloseFd(c) \/ DoCmd(c) \/ SetTxnWatchFailState(c) \/ Exec(c) => held' = held
      BY DEF CloseFd, DoCmd, SetTxnWatchFailState, Exec
    <3> QED BY <1>7, <3>1, <3>2, <3>3, <3>4, Zenon DEF Connection
  <2>2. held'[c] \subseteq held[c]
    BY <2>1
  <2> QED BY <2>2, <1>2
<1> QED BY <1>3, <1>4, <1>5, <1>6, <1>7

(* The locks of all connections after a step. *)
LEMMA LockStep ==
  ASSUME TypeOK, LockInv, NEW c \in Conns, Connection(c)
  PROVE  LockInv'
<1>1. \A d \in Conns : ConnLocked(d)
  BY DEF LockInv, ConnLocked
<1>2. ConnLocked(c)'
  BY <1>1, ClientLocked, DoCmdLocked, MarkLocked, ExecLockedStep, TakeLockLocked, LockedLocked,
     DoLocked, DoBinlogLocked, ExecDoneLocked, Zenon DEF Connection
<1>3. ASSUME NEW d \in Conns
      PROVE  ConnLocked(d)'
  <2>1. CASE d = c
    BY <1>2, <2>1
  <2>2. CASE d # c
    BY <1>1, <2>2, OthersLocked
  <2> QED BY <2>1, <2>2
<1> QED BY <1>3, ExclusionStep DEF LockInv, ConnLocked

-----------------------------------------------------------------------------
(* Watched keys *)

(* The commands that end what c watches: nothing of it is left, for c and    *)
(* for the commands under way that had found c.                              *)
LEMMA ExitWatched ==
  ASSUME TypeOK, WatchInv, NEW c \in Conns, RemoveWatchedKeys(c),
         watchFailed' = [watchFailed EXCEPT ![c] = FALSE],
         late' = late \ {c},
         \/ UNCHANGED <<start, initFailed, que>>
         \/ /\ start' = [start EXCEPT ![c] = FALSE]
            /\ initFailed' = [initFailed EXCEPT ![c] = FALSE]
            /\ que' = [que EXCEPT ![c] = <<>>],
         \A d \in Conns \ {c} : pc'[d] = pc[d], pc'[c] # "mark", pc[c] # "mark",
         \A d \in Conns : involved[d] \ {c} \subseteq involved'[d] /\ involved'[d] \subseteq involved[d]
  PROVE  WatchInv'
<1>1. \A t \in Conns \ {c} : /\ watched'[t] = watched[t] /\ watchFailed'[t] = watchFailed[t]
                             /\ changed'[t] = changed[t] /\ start'[t] = start[t]
                             /\ que'[t] = que[t] /\ initFailed'[t] = initFailed[t]
                             /\ (t \in late' <=> t \in late)
  BY DEF RemoveWatchedKeys, TypeOK
<1>2. ~watchFailed'[c] /\ changed'[c] = {}
  BY DEF RemoveWatchedKeys, TypeOK
<1>3. MarksExplained'
  BY <1>1, <1>2 DEF WatchInv, MarksExplained
<1>4. QueueInv'
  <2>1. ~start'[c] => que'[c] = <<>> /\ ~initFailed'[c]
    BY DEF WatchInv, QueueInv, TypeOK
  <2> QED BY <1>1, <2>1 DEF WatchInv, QueueInv
<1>5. FoundInv'
  <2>1. ASSUME NEW d \in Conns, NEW t \in Conns, NEW k \in Keys, <<t, k>> \in seen'[d]
        PROVE  t \in involved'[d] \/ watchFailed'[t]
    <3>1. <<t, k>> \in seen[d] /\ t # c
      BY <2>1 DEF RemoveWatchedKeys, TypeOK
    <3>2. t \in involved[d] \/ watchFailed[t]
      BY <3>1 DEF WatchInv, FoundInv
    <3> QED BY <1>1, <3>1, <3>2
  <2>2. \A d \in Conns : pc'[d] # "mark" => involved'[d] = {}
    BY DEF WatchInv, FoundInv
  <2> QED BY <2>1, <2>2 DEF FoundInv
<1>6. HonouredInv'
  BY <1>1, <1>2 DEF WatchInv, HonouredInv
<1> QED BY <1>3, <1>4, <1>5, <1>6 DEF WatchInv

(* The commands of a client that only change the state of its transaction. *)
LEMMA ClientWatched ==
  ASSUME TypeOK, WatchInv, NEW c \in Conns
  PROVE  /\ \A k \in Keys : WatchDo(c, k) => WatchInv'
         /\ UnwatchDo(c) => WatchInv'
         /\ MultiDo(c) => WatchInv'
         /\ PushCmdToQue(c) => WatchInv'
         /\ InitCmdFails(c) => WatchInv'
         /\ DiscardDo(c) => WatchInv'
         /\ CloseFd(c) => WatchInv'
         /\ SelectDo(c) => WatchInv'
<1>1. ASSUME NEW k \in Keys, WatchDo(c, k) PROVE WatchInv'
  <2>1. \A t \in Conns : watched'[t] = {} => watched[t] = {}
    BY <1>1 DEF WatchDo, TypeOK
  <2>2. /\ UNCHANGED <<watchFailed, late, start, que, initFailed, seen, involved, pc, changed>>
    BY <1>1 DEF WatchDo, running, locking
  <2> QED BY <2>1, <2>2 DEF WatchInv, MarksExplained, QueueInv, FoundInv, HonouredInv
<1>2. ASSUME UnwatchDo(c) PROVE WatchInv'
  BY <1>2, ExitWatched DEF UnwatchDo, Send, locking
<1>3. ASSUME MultiDo(c) PROVE WatchInv'
  <2>1. /\ UNCHANGED <<watched, watchFailed, late, que, initFailed, seen, involved, pc, changed>>
        /\ pc[c] = "idle" /\ start' = [start EXCEPT ![c] = TRUE]
    BY <1>3 DEF MultiDo, Send, running, locking
  <2>2. \A t \in Conns \ {c} : start'[t] = start[t]
    BY <2>1 DEF TypeOK
  <2>3. start'[c] = TRUE
    BY <2>1 DEF TypeOK
  <2> QED BY <2>1, <2>2, <2>3 DEF WatchInv, MarksExplained, QueueInv, FoundInv, HonouredInv
<1>4. ASSUME PushCmdToQue(c) PROVE WatchInv'
  <2>1. /\ UNCHANGED <<watched, watchFailed, late, start, initFailed, seen, involved, pc, changed>>
        /\ start[c]
    BY <1>4 DEF PushCmdToQue, running, locking
  <2>2. \A t \in Conns \ {c} : que'[t] = que[t]
    BY <1>4 DEF PushCmdToQue, TypeOK
  <2> QED BY <2>1, <2>2 DEF WatchInv, MarksExplained, QueueInv, FoundInv, HonouredInv
<1>5. ASSUME InitCmdFails(c) PROVE WatchInv'
  <2>1. /\ UNCHANGED <<watched, watchFailed, late, start, que, seen, involved, pc, changed>>
        /\ start[c]
    BY <1>5 DEF InitCmdFails, running, locking
  <2>2. \A t \in Conns \ {c} : initFailed'[t] = initFailed[t]
    BY <1>5 DEF InitCmdFails, TypeOK
  <2> QED BY <2>1, <2>2 DEF WatchInv, MarksExplained, QueueInv, FoundInv, HonouredInv
<1>6. ASSUME DiscardDo(c) PROVE WatchInv'
  BY <1>6, ExitWatched DEF DiscardDo, ExitTxn, ResetTxn, Send, locking
<1>7. ASSUME CloseFd(c) PROVE WatchInv'
  <2>1. /\ RemoveWatchedKeys(c) /\ ResetTxn(c) /\ pc' = pc /\ pc[c] = "idle"
    BY <1>7 DEF CloseFd, ExitTxn, Send
  <2>2. \A d \in Conns : involved[d] \ {c} \subseteq involved'[d] /\ involved'[d] \subseteq involved[d]
    BY <1>7 DEF CloseFd
  <2> QED BY <2>1, <2>2, ExitWatched DEF ResetTxn
<1>8. ASSUME SelectDo(c) PROVE WatchInv'
  <2>1. UNCHANGED <<watched, watchFailed, late, start, que, initFailed, seen, involved, pc, changed>>
    BY <1>8 DEF SelectDo, txnState, running, locking
  <2> QED BY <2>1 DEF WatchInv, MarksExplained, QueueInv, FoundInv, HonouredInv
<1> QED BY <1>1, <1>2, <1>3, <1>4, <1>5, <1>6, <1>7, <1>8

(* A plain command has found everybody who watches one of its keys. *)
LEMMA DoCmdWatched ==
  ASSUME TypeOK, WatchInv, NEW c \in Conns, DoCmd(c)
  PROVE  WatchInv'
<1>1. PICK cmd \in Command :
        /\ cmd.type # "select" /\ cmd.at = cmd.db
        /\ todo' = [todo EXCEPT ![c] = <<cmd>>]
        /\ seen' = [seen EXCEPT ![c] = Endangered(cmd)]
        /\ involved' = [involved EXCEPT ![c] = Watchers(cmd)]
        /\ plan' = [plan EXCEPT ![c] = CommandLocks(cmd)]
  BY DoCmdFacts
<1>2. /\ UNCHANGED <<watched, watchFailed, late, start, que, initFailed, changed>>
      /\ pc' = [pc EXCEPT ![c] = "mark"] /\ ~start[c]
  BY DEF DoCmd, txnState
<1>3. \A d \in Conns \ {c} : pc'[d] = pc[d] /\ seen'[d] = seen[d] /\ involved'[d] = involved[d]
  BY <1>1, <1>2 DEF TypeOK
<1>4. pc'[c] = "mark" /\ seen'[c] = Endangered(cmd) /\ involved'[c] = Watchers(cmd)
  BY <1>1, <1>2 DEF TypeOK
<1>5. ASSUME NEW t \in Conns, NEW k \in Keys, <<t, k>> \in Endangered(cmd)
      PROVE  t \in Watchers(cmd)
  <2>1. k \in watched[t] /\ k \in Affected(cmd) /\ (cmd.type = "flushdb" => db[k] # 0)
    BY <1>5 DEF Endangered
  <2> QED BY <2>1 DEF Watchers
<1>6. FoundInv'
  BY <1>2, <1>3, <1>4, <1>5 DEF WatchInv, FoundInv
<1>7. HonouredInv'
  BY <1>2, <1>3, <1>4 DEF WatchInv, HonouredInv
<1> QED BY <1>2, <1>6, <1>7 DEF WatchInv, MarksExplained, QueueInv

(* SetTxnWatchFailState marks one after the other. *)
LEMMA MarkWatched ==
  ASSUME TypeOK, WatchInv, NEW c \in Conns, SetTxnWatchFailState(c)
  PROVE  WatchInv'
<1>1. UNCHANGED <<watched, start, initFailed, que, changed, seen>> /\ pc[c] = "mark"
  BY DEF SetTxnWatchFailState
<1>2. CASE involved[c] = {}
  <2>1. pc' = [pc EXCEPT ![c] = "lock"] /\ UNCHANGED <<watchFailed, late, involved>>
    BY <1>2 DEF SetTxnWatchFailState
  <2>2. \A d \in Conns \ {c} : pc'[d] = pc[d]
    BY <2>1 DEF TypeOK
  <2>3. HonouredInv'
    BY <1>1, <2>1, <2>2 DEF WatchInv, HonouredInv
  <2>4. FoundInv'
    BY <1>1, <1>2, <2>1, <2>2 DEF WatchInv, FoundInv
  <2> QED BY <1>1, <2>1, <2>3, <2>4 DEF WatchInv, MarksExplained, QueueInv
<1>3. CASE involved[c] # {}
  <2>1. PICK t \in involved[c] :
           /\ watchFailed' = [watchFailed EXCEPT ![t] = TRUE]
           /\ late' = IF watched[t] = {} THEN late \cup {t} ELSE late
           /\ involved' = [involved EXCEPT ![c] = @ \ {t}]
    BY <1>3 DEF SetTxnWatchFailState
  <2>2. pc' = pc
    BY <1>3 DEF SetTxnWatchFailState
  <2>3. t \in Conns
    BY <2>1 DEF TypeOK
  <2>4. /\ watchFailed'[t] = TRUE /\ \A d \in Conns \ {t} : watchFailed'[d] = watchFailed[d]
        /\ late \subseteq late' /\ (watched[t] = {} => t \in late')
    BY <2>1, <2>3 DEF TypeOK
  <2>5. /\ involved'[c] = involved[c] \ {t}
        /\ \A d \in Conns \ {c} : involved'[d] = involved[d]
    BY <2>1 DEF TypeOK
  <2>6. \A d \in Conns : watchFailed[d] => watchFailed'[d]
    BY <2>4
  <2>7. MarksExplained'
    BY <1>1, <2>4 DEF WatchInv, MarksExplained
  <2>8. FoundInv'
    BY <1>1, <2>2, <2>4, <2>5, <2>6 DEF WatchInv, FoundInv
  <2>9. HonouredInv'
    BY <1>1, <2>2, <2>6 DEF WatchInv, HonouredInv
  <2> QED BY <1>1, <2>7, <2>8, <2>9 DEF WatchInv, QueueInv
<1> QED BY <1>2, <1>3

(* EXEC does not start when it is marked. *)
LEMMA ExecWatched ==
  ASSUME TypeOK, WatchInv, NEW c \in Conns, Exec(c)
  PROVE  WatchInv'
<1>1. pc[c] = "idle" /\ involved' = involved
  BY DEF Exec, Send
<1>2. CASE /\ initFailed[c] \/ watchFailed[c]
           /\ ExitTxn(c)
           /\ UNCHANGED <<cur, pc, todo, plan>>
  BY <1>1, <1>2, ExitWatched DEF ExitTxn, ResetTxn
<1>3. CASE /\ ~initFailed[c] /\ ~watchFailed[c]
           /\ pc' = [pc EXCEPT ![c] = "lock"]
           /\ UNCHANGED <<txnState, seen>>
  <2>1. UNCHANGED <<watched, watchFailed, late, start, que, initFailed, changed, seen>>
    BY <1>3 DEF txnState
  <2>2. pc'[c] = "lock" /\ \A d \in Conns \ {c} : pc'[d] = pc[d]
    BY <1>3 DEF TypeOK
  <2>3. FoundInv'
    BY <1>1, <2>1, <2>2 DEF WatchInv, FoundInv
  <2>4. HonouredInv'
    BY <1>3, <2>1, <2>2 DEF WatchInv, HonouredInv
  <2> QED BY <2>1, <2>3, <2>4 DEF WatchInv, MarksExplained, QueueInv
<1> QED BY <1>2, <1>3 DEF Exec

(* Locks concern no watched key. *)
LEMMA LockWatched ==
  ASSUME TypeOK, WatchInv, NEW c \in Conns
  PROVE  /\ TakeLock(c) => WatchInv'
         /\ Locked(c) => WatchInv'
<1>1. ASSUME TakeLock(c) PROVE WatchInv'
  <2>1. UNCHANGED <<watched, watchFailed, late, start, que, initFailed, seen, involved, pc, changed>>
    BY <1>1 DEF TakeLock, txnState
  <2> QED BY <2>1 DEF WatchInv, MarksExplained, QueueInv, FoundInv, HonouredInv
<1>2. ASSUME Locked(c) PROVE WatchInv'
  <2>1. UNCHANGED <<watched, watchFailed, late, start, que, initFailed, seen, involved, changed>>
    BY <1>2 DEF Locked, txnState, running, locking
  <2>2. /\ pc[c] = "lock" /\ pc'[c] \in {"exit", "do"}
        /\ \A d \in Conns \ {c} : pc'[d] = pc[d]
    BY <1>2 DEF Locked, TypeOK
  <2>3. FoundInv'
    BY <2>1, <2>2 DEF WatchInv, FoundInv
  <2>4. HonouredInv'
    BY <2>1, <2>2 DEF WatchInv, HonouredInv
  <2> QED BY <2>1, <2>3, <2>4 DEF WatchInv, MarksExplained, QueueInv
<1> QED BY <1>1, <1>2

(* A change by a plain command that had found t counts only while t is idle, *)
(* and t has its mark.                                                       *)
LEMMA DoWatched ==
  ASSUME TypeOK, LockInv, WatchInv, NEW c \in Conns, Do(c)
  PROVE  WatchInv'
<1> DEFINE cmd == Head(todo[c])
<1>1. UNCHANGED <<watched, start, initFailed, que, late, involved, seen>> /\ pc[c] = "do"
  BY DEF Do
<1>2. /\ pc'[c] \in {"binlog", "exit", "do"}
      /\ \A d \in Conns \ {c} : pc'[d] = pc[d]
  BY <1>1 DEF Do, TypeOK
<1>3. QueueInv'
  BY <1>1 DEF WatchInv, QueueInv
<1>4. CASE cmd.type = "select"
  <2>1. UNCHANGED <<changed, watchFailed>>
    BY <1>4 DEF Do
  <2>2. FoundInv'
    BY <1>1, <1>2, <2>1 DEF WatchInv, FoundInv
  <2>3. HonouredInv'
    BY <1>1, <1>2, <2>1 DEF WatchInv, HonouredInv
  <2> QED BY <1>1, <1>3, <2>1, <2>2, <2>3 DEF WatchInv, MarksExplained
<1>5. CASE cmd.type # "select"
  <2>1. /\ changed' = ChangedBy(c, cmd)
        /\ watchFailed' = [t \in Conns |->
             \/ watchFailed[t]
             \/ /\ start[c] /\ cmd.type = "flushdb"
                /\ \E k \in watched[t] : k[1] = cmd.at /\ db'[k] # 0]
    BY <1>5, Zenon DEF Do
  <2>2. \A t \in Conns : watchFailed'[t] => watchFailed[t] \/ watched[t] # {}
    BY <2>1
  <2>3. \A t \in Conns : watchFailed[t] => watchFailed'[t]
    BY <2>1
  <2>4. MarksExplained'
    BY <1>1, <2>2 DEF WatchInv, MarksExplained
  <2>5. FoundInv'
    BY <1>1, <1>2, <2>3 DEF WatchInv, FoundInv
  <2>6. ASSUME NEW t \in Conns, NEW k \in Keys, <<k, "command">> \in changed'[t]
        PROVE  watchFailed'[t] /\ ~(start'[t] /\ pc'[t] # "idle")
    <3>1. CASE <<k, "command">> \in changed[t]
      <4>1. watchFailed[t] /\ ~(start[t] /\ pc[t] # "idle")
        BY <3>1 DEF WatchInv, HonouredInv
      <4>2. pc[t] = "idle" => pc'[t] = "idle"
        BY <1>1, <1>2
      <4> QED BY <4>1, <4>2, <2>3, <1>1
    <3>2. CASE <<k, "command">> \notin changed[t]
      <4>1. <<k, "command">> \in {<<x, HowChanged(c, t, x)>> :
               x \in {y \in Affected(cmd) \cap watched[t] : cmd.type = "flushdb" => db[y] # 0}}
        BY <2>1, <2>6, <3>2 DEF ChangedBy
      <4>2. HowChanged(c, t, k) = "command"
        BY <4>1
      <4>3. pc[t] = "idle" /\ <<t, k>> \in seen[c]
        BY <4>2 DEF HowChanged
      <4>4. watchFailed[t]
        BY <1>1, <4>3 DEF WatchInv, FoundInv
      <4>5. pc'[t] = "idle"
        BY <1>1, <1>2, <4>3
      <4> QED BY <2>3, <4>4, <4>5
    <3> QED BY <3>1, <3>2
  <2>7. HonouredInv'
    BY <2>6 DEF HonouredInv
  <2> QED BY <1>3, <2>4, <2>5, <2>7 DEF WatchInv
<1> QED BY <1>4, <1>5

(* An EXEC that reports its keys marks only who watches something. *)
LEMMA DoBinlogWatched ==
  ASSUME TypeOK, WatchInv, NEW c \in Conns, DoBinlog(c)
  PROVE  WatchInv'
<1> DEFINE cmd == Head(todo[c])
<1>1. UNCHANGED <<watched, start, initFailed, que, changed, late, involved>> /\ pc[c] = "binlog"
  BY DEF DoBinlog
<1>2. /\ \A d \in Conns \ {c} : pc'[d] = pc[d]
      /\ pc'[c] \in {"exit", "do", "idle"}
      /\ \A d \in Conns : seen'[d] \subseteq seen[d]
  <2>1. CASE start[c]
    BY <1>1, <2>1 DEF DoBinlog, TypeOK
  <2>2. CASE ~start[c]
    <3>1. pc' = [pc EXCEPT ![c] = "idle"] /\ seen' = [seen EXCEPT ![c] = {}]
      BY <2>2 DEF DoBinlog
    <3> QED BY <3>1 DEF TypeOK
  <2> QED BY <2>1, <2>2
<1>3. QueueInv'
  BY <1>1 DEF WatchInv, QueueInv
<1>4. \A t \in Conns : (watchFailed[t] => watchFailed'[t]) /\ (watchFailed'[t] => watchFailed[t] \/ watched[t] # {})
  <2>1. CASE start[c]
    <3>1. watchFailed' = [t \in Conns |->
             \/ watchFailed[t]
             \/ \E k \in watched[t] : WatchKey(k) \in {ExecKey(x) : x \in Affected(cmd)}]
      BY <2>1, Zenon DEF DoBinlog
    <3> QED BY <3>1
  <2>2. CASE ~start[c]
    BY <2>2 DEF DoBinlog
  <2> QED BY <2>1, <2>2
<1>5. MarksExplained'
  BY <1>1, <1>4 DEF WatchInv, MarksExplained
<1>6. FoundInv'
  BY <1>1, <1>2, <1>4 DEF WatchInv, FoundInv
<1>7. HonouredInv'
  BY <1>1, <1>2, <1>4 DEF WatchInv, HonouredInv
<1> QED BY <1>3, <1>5, <1>6, <1>7 DEF WatchInv

(* The watched keys after a step. *)
LEMMA WatchStep ==
  ASSUME TypeOK, LockInv, WatchInv, NEW c \in Conns, Connection(c)
  PROVE  WatchInv'
<1>1. ASSUME ExecDone(c) PROVE WatchInv'
  <2>1. \A d \in Conns \ {c} : pc'[d] = pc[d]
    BY <1>1 DEF ExecDone, TypeOK
  <2>2. pc'[c] = "idle" /\ pc[c] = "exit" /\ involved' = involved
    BY <1>1 DEF ExecDone, TypeOK
  <2> QED BY <1>1, <2>1, <2>2, ExitWatched DEF ExecDone, ExitTxn, ResetTxn
<1> QED BY <1>1, ClientWatched, DoCmdWatched, MarkWatched, ExecWatched, LockWatched, DoWatched,
           DoBinlogWatched, Zenon DEF Connection

-----------------------------------------------------------------------------
(* Database and binlog *)

(* A command that changes the database holds the locks of its change, and    *)
(* so does a write that is to be logged; a FLUSHDB that is to be logged is a *)
(* plain one and holds the record "".                                        *)
LEMMA LocksHeld ==
  ASSUME TypeOK, LockInv, "mislocked" \notin diverged, NEW c \in Conns, pc[c] \in {"do", "binlog"}
  PROVE  /\ todo[c][1].type = "write" \/ (pc[c] = "do" /\ todo[c][1].type # "select") =>
              /\ todo[c][1].at = todo[c][1].db
              /\ NeededLocks(todo[c][1]) \subseteq held[c]
         /\ todo[c][1].type = "flushdb" /\ (pc[c] = "binlog" \/ ~start[c]) =>
              Record(todo[c][1].db, NoName) \in held[c]
         /\ pc[c] = "binlog" => todo[c][1].type # "select"
<1>1. 1 \in DOMAIN todo[c] /\ start[c] \in BOOLEAN /\ todo[c][1] \in Command
  BY CurrentCommand DEF TypeOK
<1>2. plan[c] = <<>>
  BY DEF LockInv, PlanInv
<1>3. Mine(c) = held[c]
  BY <1>2 DEF Mine, ToSet
<1>4. CASE start[c]
  BY <1>1, <1>3, <1>4 DEF LockInv, ExecLocked
<1>5. CASE ~start[c]
  BY <1>1, <1>3, <1>5 DEF LockInv, PlainLocked
<1> QED BY <1>1, <1>4, <1>5

(* Two connections that hold the locks of their commands change different    *)
(* keys.                                                                     *)
LEMMA DisjointChanges ==
  ASSUME TypeOK, LockInv, NEW c \in Conns, NEW d \in Conns, c # d,
         NEW e \in Command, NEW f \in Command, e.type # "select", f.type # "select",
         e.at = e.db, f.at = f.db,
         NeededLocks(e) \subseteq held[c], NeededLocks(f) \subseteq held[d]
  PROVE  Affected(e) \cap Affected(f) = {}
<1> SUFFICES ASSUME NEW k \in Affected(e), k \in Affected(f)
             PROVE  FALSE
  OBVIOUS
<1>1. \A l \in held[c], m \in held[d] : ~Conflict(l, m)
  BY DEF LockInv, Exclusion
<1>2. /\ e.type \in {"write", "flushdb"} /\ f.type \in {"write", "flushdb"}
      /\ e.db \in DBs /\ f.db \in DBs
      /\ e.name \in Names \cup {NoName} /\ f.name \in Names \cup {NoName}
  BY CommandFacts
<1>3. e.db = f.db
  BY <1>2 DEF Affected
<1>4. CASE e.type = "write" /\ f.type = "write"
  <2>1. e.name = f.name
    BY <1>4 DEF Affected
  <2>2. Record(e.db, e.name) \in held[c] /\ Record(e.db, e.name) \in held[d]
    BY <1>3, <1>4, <2>1 DEF NeededLocks
  <2>3. Record(e.db, e.name).kind = "record"
    BY <1>2, LockFacts
  <2> QED BY <1>1, <2>2, <2>3 DEF Conflict
<1>5. CASE e.type = "write" /\ f.type = "flushdb"
  <2>1. Shared(e.db) \in held[c] /\ Exclusive(e.db) \in held[d]
    BY <1>3, <1>5 DEF NeededLocks
  <2>2. Conflict(Shared(e.db), Exclusive(e.db))
    BY <1>2, LockFacts DEF Conflict
  <2> QED BY <1>1, <2>1, <2>2
<1>6. CASE e.type = "flushdb" /\ f.type = "write"
  <2>1. Exclusive(e.db) \in held[c] /\ Shared(e.db) \in held[d]
    BY <1>3, <1>6 DEF NeededLocks
  <2>2. Conflict(Exclusive(e.db), Shared(e.db))
    BY <1>2, LockFacts DEF Conflict
  <2> QED BY <1>1, <2>1, <2>2
<1>7. CASE e.type = "flushdb" /\ f.type = "flushdb"
  <2>1. Exclusive(e.db) \in held[c] /\ Exclusive(e.db) \in held[d]
    BY <1>3, <1>7 DEF NeededLocks
  <2>2. Conflict(Exclusive(e.db), Exclusive(e.db))
    BY <1>2, LockFacts DEF Conflict
  <2> QED BY <1>1, <2>1, <2>2
<1> QED BY <1>2, <1>4, <1>5, <1>6, <1>7

(* A step that changes neither the database nor the binlog, nor which        *)
(* commands are to be logged.                                                *)
LEMMA QuietLog ==
  ASSUME LogInv, UNCHANGED <<db, logdb>>, diverged \subseteq diverged',
         \A d \in Conns : pc'[d] = "binlog" <=> pc[d] = "binlog",
         \A d \in Conns : pc[d] = "binlog" => todo'[d] = todo[d]
  PROVE  LogInv'
<1>1. \A d \in Conns : \A k \in Keys : Unlogged(d, k)' <=> Unlogged(d, k)
  BY DEF Unlogged
<1>2. \A d \in Conns : \A k \in Keys : Unlogged(d, k) => todo'[d] = todo[d]
  BY DEF Unlogged
<1> SUFFICES ASSUME diverged' = {}
             PROVE  LogInv'
  BY DEF LogInv
<1>3. diverged = {}
  OBVIOUS
<1>4. \A k \in Keys : db[k] = logdb[k] \/ \E d \in Conns : Unlogged(d, k)
  BY <1>3 DEF LogInv
<1>5. ASSUME NEW d \in Conns, NEW k \in Keys, Unlogged(d, k)
      PROVE  IF todo[d][1].type = "write" THEN db[k] = todo[d][1].val
             ELSE db[k] = 0 \/ \E e \in Conns : Unlogged(e, k) /\ todo[e][1].type = "write"
  BY <1>3, <1>5 DEF LogInv
<1>6. ASSUME NEW d \in Conns, NEW k \in Keys, Unlogged(d, k)'
      PROVE  IF todo'[d][1].type = "write" THEN db'[k] = todo'[d][1].val
             ELSE db'[k] = 0 \/ \E e \in Conns : Unlogged(e, k)' /\ todo'[e][1].type = "write"
  <2>1. Unlogged(d, k) /\ todo'[d] = todo[d] /\ db' = db
    BY <1>1, <1>2, <1>6
  <2>2. CASE todo[d][1].type = "write"
    BY <1>5, <2>1, <2>2
  <2>3. CASE todo[d][1].type # "write"
    <3>1. db[k] = 0 \/ \E e \in Conns : Unlogged(e, k) /\ todo[e][1].type = "write"
      BY <1>5, <2>1, <2>3
    <3>2. CASE db[k] = 0
      BY <3>2, <2>1, <2>3
    <3>3. CASE \E e \in Conns : Unlogged(e, k) /\ todo[e][1].type = "write"
      <4>1. PICK e \in Conns : Unlogged(e, k) /\ todo[e][1].type = "write"
        BY <3>3
      <4>2. Unlogged(e, k)' /\ todo'[e][1].type = "write"
        BY <1>1, <1>2, <4>1
      <4> QED BY <2>1, <2>3, <4>2
    <3> QED BY <3>1, <3>2, <3>3
  <2> QED BY <2>2, <2>3
<1>7. \A k \in Keys : db'[k] = logdb'[k] \/ \E d \in Conns : Unlogged(d, k)'
  BY <1>1, <1>4
<1> QED BY <1>6, <1>7 DEF LogInv

(* Everything but executing and logging a command leaves the log alone. *)
LEMMA QuietSteps ==
  ASSUME TypeOK, LogInv, NEW c \in Conns, Connection(c), ~Do(c), ~DoBinlog(c)
  PROVE  LogInv'
<1>1. \A d \in Conns \ {c} : pc'[d] = pc[d] /\ todo'[d] = todo[d]
  BY Frame
<1> DEFINE Quiet == UNCHANGED <<db, logdb>> /\ diverged \subseteq diverged' /\ pc[c] # "binlog" /\ pc'[c] # "binlog"
<1>2. ASSUME NEW k \in Keys, WatchDo(c, k) PROVE Quiet
  BY <1>2 DEF WatchDo, Send, store
<1>3. UnwatchDo(c) \/ DiscardDo(c) \/ CloseFd(c) => Quiet
  BY DEF UnwatchDo, DiscardDo, CloseFd, Send, store
<1>4. MultiDo(c) \/ PushCmdToQue(c) \/ InitCmdFails(c) \/ SelectDo(c) => Quiet
  BY DEF MultiDo, PushCmdToQue, InitCmdFails, SelectDo, Send, store
<1>5. ASSUME DoCmd(c) PROVE Quiet
  BY <1>5 DEF DoCmd, Send, store, TypeOK
<1>6. ASSUME SetTxnWatchFailState(c) PROVE Quiet
  BY <1>6 DEF SetTxnWatchFailState, store, TypeOK
<1>7. ASSUME Exec(c) PROVE Quiet
  BY <1>7 DEF Exec, Send, store, TypeOK
<1>8. ASSUME TakeLock(c) PROVE Quiet
  BY <1>8 DEF TakeLock, store
<1>9. ASSUME Locked(c) PROVE Quiet
  BY <1>9 DEF Locked, TypeOK
<1>10. ASSUME ExecDone(c) PROVE Quiet
  BY <1>10 DEF ExecDone, store, TypeOK
<1> HIDE DEF Quiet
<1>11. Quiet
  BY <1>2, <1>3, <1>4, <1>5, <1>6, <1>7, <1>8, <1>9, <1>10, Zenon DEF Connection
<1>12. \A d \in Conns : /\ pc'[d] = "binlog" <=> pc[d] = "binlog"
                        /\ pc[d] = "binlog" => todo'[d] = todo[d]
  BY <1>1, <1>11 DEF Quiet
<1> QED BY <1>11, <1>12, QuietLog DEF Quiet

(* Executing a command.  A write to a key whose own change is not logged yet *)
(* would need the lock of that change, or it comes after a FLUSHDB.          *)
LEMMA DoLog ==
  ASSUME TypeOK, LockInv, LogInv, NEW c \in Conns, Do(c)
  PROVE  LogInv'
<1> DEFINE cmd == todo[c][1]
<1>0. /\ todo[c] \in Seq(Command) /\ Head(todo[c]) = cmd /\ cmd \in Command
      /\ pc[c] = "do" /\ start[c] \in BOOLEAN /\ logdb' = logdb
      /\ ~start[c] => cmd.type # "select"
  BY CurrentCommand DEF Do, TypeOK
<1>1. \A d \in Conns \ {c} : pc'[d] = pc[d] /\ todo'[d] = todo[d]
  BY Frame DEF Connection
<1>2. cmd.type \in {"write", "flushdb", "select"} /\ cmd.val \in Val
      /\ (cmd.type # "write" => cmd.val = 0)
  BY <1>0, CommandFacts
<1>3. CASE cmd.type = "select"
  <2>1. UNCHANGED <<db, logdb, diverged>> /\ pc'[c] # "binlog"
    BY <1>0, <1>3 DEF Do, TypeOK
  <2>2. \A d \in Conns : /\ pc'[d] = "binlog" <=> pc[d] = "binlog"
                         /\ pc[d] = "binlog" => todo'[d] = todo[d]
    BY <1>0, <1>1, <2>1
  <2> QED BY <2>1, <2>2, QuietLog
<1>4. CASE cmd.type # "select"
  <2> SUFFICES ASSUME diverged' = {}
               PROVE  LogInv'
    BY DEF LogInv
  <2>1. /\ \A k \in Keys : db'[k] = IF k \in Affected(cmd) THEN cmd.val ELSE db[k]
        /\ diverged = {} /\ (cmd.type = "write" \/ ~start[c])
    BY <1>0, <1>2, <1>4 DEF Do
  <2>2. pc'[c] = "binlog" /\ todo' = todo
    BY <1>0, <2>1 DEF Do, TypeOK
  <2> HIDE DEF cmd
  <2>3. \A k \in Keys : /\ Unlogged(c, k)' <=> k \in Affected(cmd)
                        /\ ~Unlogged(c, k)
    BY <1>0, <2>2 DEF Unlogged, cmd
  <2>4. \A d \in Conns \ {c} : \A k \in Keys : Unlogged(d, k)' <=> Unlogged(d, k)
    BY <1>1 DEF Unlogged
  <2>5. ASSUME NEW k \in Keys
        PROVE  db'[k] = logdb'[k] \/ \E d \in Conns : Unlogged(d, k)'
    <3>1. CASE k \in Affected(cmd)
      BY <3>1, <2>3
    <3>2. CASE k \notin Affected(cmd)
      <4>1. db[k] = logdb[k] \/ \E d \in Conns : Unlogged(d, k)
        BY <2>1 DEF LogInv
      <4>2. CASE db[k] = logdb[k]
        BY <4>2, <3>2, <2>1, <1>0
      <4>3. CASE \E d \in Conns : Unlogged(d, k)
        BY <4>3, <2>3, <2>4
      <4> QED BY <4>1, <4>2, <4>3
    <3> QED BY <3>1, <3>2
  <2>6. ASSUME NEW d \in Conns, NEW k \in Keys, Unlogged(d, k)'
        PROVE  IF todo'[d][1].type = "write" THEN db'[k] = todo'[d][1].val
               ELSE db'[k] = 0 \/ \E e \in Conns : Unlogged(e, k)' /\ todo'[e][1].type = "write"
    <3>1. CASE d = c
      <4>1. k \in Affected(cmd) /\ todo'[d][1] = cmd
        BY <2>2, <2>3, <2>6, <3>1 DEF cmd
      <4> QED BY <4>1, <2>1, <1>2
    <3>2. CASE d # c
      <4>1. Unlogged(d, k) /\ todo'[d] = todo[d]
        BY <2>4, <2>6, <3>2, <2>2
      <4>2. IF todo[d][1].type = "write" THEN db[k] = todo[d][1].val
            ELSE db[k] = 0 \/ \E e \in Conns : Unlogged(e, k) /\ todo[e][1].type = "write"
        BY <2>1, <4>1 DEF LogInv
      <4>3. CASE k \notin Affected(cmd)
        <5>1. db'[k] = db[k]
          BY <4>3, <2>1
        <5>2. \A e \in Conns : Unlogged(e, k) => Unlogged(e, k)' /\ todo'[e] = todo[e]
          BY <2>2, <2>3, <2>4
        <5>3. CASE todo[d][1].type = "write"
          BY <4>1, <4>2, <5>1, <5>3
        <5>4. CASE todo[d][1].type # "write"
          <6>1. CASE db[k] = 0
            BY <6>1, <5>1, <5>4, <4>1
          <6>2. CASE \E e \in Conns : Unlogged(e, k) /\ todo[e][1].type = "write"
            <7>1. PICK e \in Conns : Unlogged(e, k) /\ todo[e][1].type = "write"
              BY <6>2
            <7>2. Unlogged(e, k)' /\ todo'[e][1].type = "write"
              BY <7>1, <5>2
            <7> QED BY <7>2, <5>4, <4>1
          <6> QED BY <6>1, <6>2, <5>4, <4>2
        <5> QED BY <5>3, <5>4
      <4>4. CASE k \in Affected(cmd)
        <5>1. CASE todo[d][1].type = "write"
          <6>1. pc[d] = "binlog" /\ k \in Affected(todo[d][1])
            BY <4>1 DEF Unlogged
          <6>2. todo[d][1] \in Command
            BY <6>1, CurrentCommand
          <6>3. todo[d][1].at = todo[d][1].db /\ NeededLocks(todo[d][1]) \subseteq held[d]
            BY <6>1, <2>1, <5>1, LocksHeld
          <6>4. cmd.at = cmd.db /\ NeededLocks(cmd) \subseteq held[c]
            BY <1>0, <1>4, <2>1, LocksHeld DEF cmd
          <6>5. Affected(cmd) \cap Affected(todo[d][1]) = {}
            BY <1>0, <1>4, <5>1, <6>2, <6>3, <6>4, <3>2, DisjointChanges
          <6> QED BY <6>1, <6>5, <4>4
        <5>2. CASE todo[d][1].type # "write"
          <6>1. CASE cmd.type = "write"
            <7>1. Unlogged(c, k)' /\ todo'[c][1].type = "write"
              BY <4>4, <2>2, <2>3, <6>1 DEF cmd
            <7> QED BY <7>1, <5>2, <4>1
          <6>2. CASE cmd.type # "write"
            BY <6>2, <1>2, <2>1, <4>4, <5>2, <4>1
          <6> QED BY <6>1, <6>2
        <5> QED BY <5>1, <5>2
      <4> QED BY <4>3, <4>4
    <3> QED BY <3>1, <3>2
  <2> QED BY <2>5, <2>6 DEF LogInv
<1> QED BY <1>3, <1>4

(* Logging a command: its record gives what the database holds, or what      *)
(* another command has changed since and will log.                           *)
LEMMA DoBinlogLog ==
  ASSUME TypeOK, LockInv, LogInv, NEW c \in Conns, DoBinlog(c)
  PROVE  LogInv'
<1> SUFFICES ASSUME diverged' = {}
             PROVE  LogInv'
  BY DEF LogInv
<1> DEFINE cmd == todo[c][1]
<1>0. /\ Head(todo[c]) = cmd /\ cmd \in Command /\ pc[c] = "binlog"
  BY CurrentCommand DEF DoBinlog
<1>1. \A d \in Conns \ {c} : pc'[d] = pc[d] /\ todo'[d] = todo[d]
  BY Frame DEF Connection
<1>2. cmd.type # "write" => cmd.val = 0
  BY <1>0, CommandFacts
<1>3. cmd.type # "select"
  <2>1. diverged = {}
    BY DEF DoBinlog
  <2> QED BY <1>0, <2>1, LocksHeld
<1>4. /\ \A k \in Keys : logdb'[k] = IF k \in Affected(cmd) THEN cmd.val ELSE logdb[k]
      /\ diverged = {} /\ ~FlushUnlogged(c, cmd.db) /\ db' = db /\ pc'[c] # "binlog"
  BY <1>0 DEF DoBinlog, TypeOK
<1> HIDE DEF cmd
<1>5. \A k \in Keys : ~Unlogged(c, k)'
  BY <1>4 DEF Unlogged
<1>6. \A k \in Keys : Unlogged(c, k) <=> k \in Affected(cmd)
  BY <1>0 DEF Unlogged, cmd
<1>7. \A d \in Conns \ {c} : \A k \in Keys : Unlogged(d, k)' <=> Unlogged(d, k)
  BY <1>1 DEF Unlogged
<1>8. \A d \in Conns : \A k \in Keys :
        Unlogged(d, k) => IF todo[d][1].type = "write" THEN db[k] = todo[d][1].val
                          ELSE db[k] = 0 \/ \E e \in Conns : Unlogged(e, k) /\ todo[e][1].type = "write"
  BY <1>4 DEF LogInv
<1>9. ASSUME NEW k \in Keys
      PROVE  db'[k] = logdb'[k] \/ \E d \in Conns : Unlogged(d, k)'
  <2>1. CASE k \notin Affected(cmd)
    <3>1. db[k] = logdb[k] \/ \E d \in Conns : Unlogged(d, k)
      BY <1>4 DEF LogInv
    <3>2. CASE db[k] = logdb[k]
      BY <3>2, <2>1, <1>4
    <3>3. CASE \E d \in Conns : Unlogged(d, k)
      <4>1. PICK d \in Conns : Unlogged(d, k)
        BY <3>3
      <4>2. d # c
        BY <4>1, <2>1, <1>6
      <4> QED BY <4>1, <4>2, <1>7
    <3> QED BY <3>1, <3>2, <3>3
  <2>2. CASE k \in Affected(cmd) /\ cmd.type = "write"
    BY <2>2, <1>4, <1>6, <1>8 DEF cmd
  <2>3. CASE k \in Affected(cmd) /\ cmd.type # "write"
    <3>1. db[k] = 0 \/ \E e \in Conns : Unlogged(e, k) /\ todo[e][1].type = "write"
      BY <2>3, <1>6, <1>8 DEF cmd
    <3>2. CASE db[k] = 0
      BY <3>2, <2>3, <1>2, <1>4
    <3>3. CASE \E e \in Conns : Unlogged(e, k) /\ todo[e][1].type = "write"
      <4>1. PICK e \in Conns : Unlogged(e, k) /\ todo[e][1].type = "write"
        BY <3>3
      <4>2. e # c
        BY <4>1, <2>3 DEF cmd
      <4> QED BY <4>1, <4>2, <1>7
    <3> QED BY <3>1, <3>2, <3>3
  <2> QED BY <2>1, <2>2, <2>3
<1>10. ASSUME NEW d \in Conns, NEW k \in Keys, Unlogged(d, k)'
       PROVE  IF todo'[d][1].type = "write" THEN db'[k] = todo'[d][1].val
              ELSE db'[k] = 0 \/ \E e \in Conns : Unlogged(e, k)' /\ todo'[e][1].type = "write"
  <2>1. d # c
    BY <1>5, <1>10
  <2>2. Unlogged(d, k) /\ todo'[d] = todo[d]
    BY <1>1, <1>7, <1>10, <2>1
  <2>3. CASE todo[d][1].type = "write"
    BY <2>2, <2>3, <1>4, <1>8
  <2>4. CASE todo[d][1].type # "write"
    <3>1. db[k] = 0 \/ \E e \in Conns : Unlogged(e, k) /\ todo[e][1].type = "write"
      BY <2>2, <2>4, <1>8
    <3>2. CASE db[k] = 0
      BY <3>2, <2>2, <2>4, <1>4
    <3>3. CASE \E e \in Conns : Unlogged(e, k) /\ todo[e][1].type = "write"
      <4>1. PICK e \in Conns : Unlogged(e, k) /\ todo[e][1].type = "write"
        BY <3>3
      <4>2. CASE e # c
        <5>1. Unlogged(e, k)' /\ todo'[e][1].type = "write"
          BY <4>1, <4>2, <1>1, <1>7
        <5> QED BY <5>1, <2>2, <2>4
      <4>3. CASE e = c
        <5>1. pc[d] = "binlog" /\ k \in Affected(todo[d][1])
          BY <2>2 DEF Unlogged
        <5>2. /\ Head(todo[d]) = todo[d][1] /\ todo[d][1] \in Command /\ todo[d][1].type # "select"
          BY <5>1, <1>4, CurrentCommand, LocksHeld
        <5>3. todo[d][1].type = "flushdb"
          BY <5>2, <2>4, CommandFacts
        <5>4. k \in Affected(cmd) /\ cmd.type = "write"
          BY <4>1, <4>3, <1>6 DEF cmd
        <5>5. cmd.db = todo[d][1].db
          BY <5>1, <5>3, <5>4 DEF Affected
        <5>6. FlushUnlogged(c, cmd.db)
          BY <5>1, <5>2, <5>3, <5>5, <2>1 DEF FlushUnlogged
        <5> QED BY <5>6, <1>4
      <4> QED BY <4>2, <4>3
    <3> QED BY <3>1, <3>2, <3>3
  <2> QED BY <2>3, <2>4
<1> QED BY <1>9, <1>10 DEF LogInv

-----------------------------------------------------------------------------
(* The theorems *)

(* Nothing is under way in the initial state, and nothing is watched. *)
LEMMA InvInit ==
  ASSUME Init
  PROVE  Inv
<1>1. TypeOK
  BY TypeInit
<1>2. LockInv
  <2>1. \A c \in Conns : /\ pc[c] = "idle" /\ plan[c] = <<>> /\ held[c] = {} /\ que[c] = <<>>
    BY DEF Init
  <2>2. \A c \in Conns : PlainLocked(c) /\ ExecLocked(c) /\ PlanInv(c) /\ Ordered(c)
    BY <2>1 DEF PlainLocked, ExecLocked, PlanInv, Ordered
  <2> QED BY <2>1, <2>2 DEF LockInv, Exclusion
<1>3. WatchInv
  BY DEF Init, WatchInv, MarksExplained, QueueInv, FoundInv, HonouredInv
<1>4. LogInv
  BY DEF Init, LogInv, Unlogged
<1> QED BY <1>1, <1>2, <1>3, <1>4 DEF Inv

(* A step of a connection keeps the invariant. *)
LEMMA InvStep ==
  ASSUME Inv, NEW c \in Conns, Connection(c)
  PROVE  Inv'
<1>1. TypeOK /\ LockInv /\ WatchInv /\ LogInv
  BY DEF Inv
<1>2. TypeOK' /\ LockInv' /\ WatchInv'
  BY <1>1, TypeStep, LockStep, WatchStep
<1>3. LogInv'
  BY <1>1, QuietSteps, DoLog, DoBinlogLog
<1> QED BY <1>2, <1>3 DEF Inv

(* A step that changes nothing keeps the invariant. *)
LEMMA InvStutter ==
  ASSUME Inv, UNCHANGED vars
  PROVE  Inv'
<1> USE DEF vars
<1>1. TypeOK'
  BY DEF Inv, TypeOK
<1>2. \A c \in Conns : PlainLocked(c)' /\ ExecLocked(c)' /\ PlanInv(c)' /\ Ordered(c)'
  <2> SUFFICES ASSUME NEW c \in Conns
               PROVE  PlainLocked(c)' /\ ExecLocked(c)' /\ PlanInv(c)' /\ Ordered(c)'
    OBVIOUS
  <2>1. PlainLocked(c) /\ ExecLocked(c) /\ PlanInv(c) /\ Ordered(c)
    BY DEF Inv, LockInv
  <2> QED BY <2>1 DEF PlainLocked, ExecLocked, PlanInv, Ordered, Mine, Unordered
<1>3. Exclusion'
  BY DEF Inv, LockInv, Exclusion
<1>4. WatchInv'
  BY DEF Inv, WatchInv, MarksExplained, QueueInv, FoundInv, HonouredInv
<1>5. LogInv'
  BY QuietLog DEF Inv
<1> QED BY <1>1, <1>2, <1>3, <1>4, <1>5 DEF Inv, LockInv

(* The inductive invariant holds in every reachable state. *)
THEOREM Invariant == Spec => []Inv
<1>1. Init => Inv
  BY InvInit
<1>2. Inv /\ [Next]_vars => Inv'
  BY InvStep, InvStutter DEF Next
<1> QED BY <1>1, <1>2, PTL DEF Spec

(* Every variable of the connections, the database and the histories keeps   *)
(* its type, for any number of connections, databases and keys.              *)
THEOREM TypeCorrect == Spec => []TypeOK
<1>1. Inv => TypeOK
  BY DEF Inv
<1> QED BY <1>1, Invariant, PTL

(* DoCmd, SetTxnFailedFromKeys and ExecCmd::Execute: no EXEC runs although a *)
(* plain command, sent after the WATCH, had changed a watched key before the *)
(* EXEC was sent.                                                            *)
THEOREM WatchIsHonoured == Spec => []WatchHonoured
<1>1. Inv => WatchHonoured
  BY DEF Inv, WatchInv, HonouredInv, WatchHonoured, Executing
<1> QED BY <1>1, Invariant, PTL

(* ExitTxn and UnwatchCmd::Do: outside a transaction a connection that       *)
(* watches nothing has an empty queue, no failed command, and no mark but a  *)
(* late one.                                                                 *)
THEOREM TransactionsStartFresh == Spec => []FreshTransaction
<1>1. Inv => FreshTransaction
  BY DEF Inv, WatchInv, MarksExplained, QueueInv, FreshTransaction
<1> QED BY <1>1, Invariant, PTL

(* Cmd::InternalProcessCommand and ExecCmd::Do: until the ways in which they *)
(* can diverge, executing the binlog gives the database, but for keys of a   *)
(* command whose record is about to be written.                              *)
THEOREM BinlogGivesDatabase == Spec => []TxnLogMatchesDatabase
<1>1. Inv => TxnLogMatchesDatabase
  <2> SUFFICES ASSUME Inv, diverged = {}, NEW k \in Keys
               PROVE  \/ db[k] = logdb[k]
                      \/ \E c \in Conns : pc[c] = "binlog" /\ k \in Affected(Head(todo[c]))
    BY DEF TxnLogMatchesDatabase
  <2>1. db[k] = logdb[k] \/ \E c \in Conns : Unlogged(c, k)
    BY DEF Inv, LogInv
  <2>2. ASSUME NEW c \in Conns, Unlogged(c, k)
        PROVE  pc[c] = "binlog" /\ k \in Affected(Head(todo[c]))
    <3>1. pc[c] = "binlog" /\ k \in Affected(todo[c][1])
      BY <2>2 DEF Unlogged
    <3>2. Head(todo[c]) = todo[c][1]
      BY <3>1, CurrentCommand DEF Inv
    <3> QED BY <3>1, <3>2
  <2> QED BY <2>1, <2>2
<1> QED BY <1>1, Invariant, PTL

(* Only Do changes the database. *)
LEMMA OnlyDoChanges ==
  ASSUME NEW c \in Conns, Connection(c), ~Do(c)
  PROVE  db' = db
<1>1. ASSUME NEW k \in Keys, WatchDo(c, k) PROVE db' = db
  BY <1>1 DEF WatchDo, store
<1>2. UnwatchDo(c) \/ DiscardDo(c) \/ CloseFd(c) \/ DoBinlog(c) \/ ExecDone(c) => db' = db
  BY DEF UnwatchDo, DiscardDo, CloseFd, DoBinlog, ExecDone, store
<1>3. MultiDo(c) \/ PushCmdToQue(c) \/ InitCmdFails(c) \/ SelectDo(c) \/ Locked(c) => db' = db
  BY DEF MultiDo, PushCmdToQue, InitCmdFails, SelectDo, Locked, store
<1>4. DoCmd(c) \/ SetTxnWatchFailState(c) \/ Exec(c) \/ TakeLock(c) => db' = db
  BY DEF DoCmd, SetTxnWatchFailState, Exec, TakeLock, store
<1> QED BY <1>1, <1>2, <1>3, <1>4, Zenon DEF Connection

(* ExecCmd::Lock and MultiRecordLock: while a transaction is executed, no    *)
(* step but its own changes a key that it changes, unless an EXEC works on a *)
(* database other than the one it locked.                                    *)
THEOREM ExecIsIsolated == Spec => ExecIsolated
<1> DEFINE A == \A t \in Conns :
                  Executing(t) /\ "mislocked" \notin diverged /\ pc'[t] = pc[t] /\ todo'[t] = todo[t] =>
                    \A k \in TxnKeys(t) : db'[k] = db[k]
<1>1. ASSUME Inv, NEW c \in Conns, Connection(c)
      PROVE  A
  <2> SUFFICES ASSUME NEW t \in Conns, Executing(t), "mislocked" \notin diverged,
                      pc'[t] = pc[t], todo'[t] = todo[t], NEW k \in TxnKeys(t)
               PROVE  db'[k] = db[k]
    OBVIOUS
  <2>0. TypeOK /\ LockInv
    BY <1>1 DEF Inv
  <2>1. CASE ~Do(c)
    BY <1>1, <2>1, OnlyDoChanges
  <2>2. CASE Do(c) /\ Head(todo[c]).type = "select"
    BY <2>2 DEF Do
  <2>3. CASE Do(c) /\ Head(todo[c]).type # "select"
    <3> DEFINE cmd == todo[c][1]
    <3>1. /\ pc[c] = "do" /\ todo[c] \in Seq(Command) /\ todo[c] # <<>>
          /\ Head(todo[c]) = cmd /\ cmd \in Command /\ cmd.type # "select"
      BY <2>0, <2>3, CurrentCommand DEF Do
    <3>2. c # t
      <4> SUFFICES ASSUME c = t
                   PROVE  FALSE
        OBVIOUS
      <4>1. pc'[c] = "do"
        BY <3>1
      <4>2. todo'[c] = Tail(todo[c])
        BY <2>0, <2>3, <4>1 DEF Do, TypeOK
      <4>3. Len(Tail(todo[c])) = Len(todo[c]) - 1 /\ Len(todo[c]) \in Nat
        BY <3>1
      <4>4. todo[c] = Tail(todo[c])
        BY <4>2
      <4>5. Len(todo[c]) = Len(todo[c]) - 1
        BY <4>3, <4>4, Zenon
      <4> QED BY <4>3, <4>5
    <3>3. PICK i \in DOMAIN que[t] : que[t][i].type # "select" /\ k \in Affected(que[t][i])
      BY DEF TxnKeys
    <3>4. que[t][i] \in Command
      BY <2>0 DEF TypeOK
    <3>5. que[t][i].at = que[t][i].db /\ NeededLocks(que[t][i]) \subseteq held[t]
      BY <2>0 DEF LockInv, PlanInv, ExecLocked, Executing
    <3>6. cmd.at = cmd.db /\ NeededLocks(cmd) \subseteq held[c]
      BY <2>0, <3>1, LocksHeld
    <3>7. k \in Keys
      BY <3>3, <3>4, AffectedKeys
    <3>8. db'[k] = IF k \in Affected(cmd) THEN cmd.val ELSE db[k]
      BY <2>3, <3>1, <3>7 DEF Do
    <3> HIDE DEF cmd
    <3>9. Affected(cmd) \cap Affected(que[t][i]) = {}
      BY <2>0, <3>1, <3>2, <3>3, <3>4, <3>5, <3>6, DisjointChanges
    <3> QED BY <3>3, <3>8, <3>9
  <2> QED BY <2>1, <2>2, <2>3
<1>2. Inv /\ [Next]_vars => [A]_vars
  BY <1>1 DEF Next
<1>3. Spec => [][A]_vars
  BY <1>2, Invariant, PTL DEF Spec
<1> QED BY <1>3 DEF ExecIsolated

(* A lock that a connection waits for is not taken in the order of Before,   *)
(* so no set of connections waits for itself: the databases are locked last, *)
(* the replica manager before them, and among records somebody waits for the *)
(* greatest name.                                                            *)
THEOREM DeadlockFree == Spec => []NoDeadlock
<1>1. Inv => NoDeadlock
  <2> SUFFICES ASSUME Inv, \A c \in Conns : ~Unordered(c), Deadlocked
               PROVE  FALSE
    BY DEF NoDeadlock
  <2>1. PICK S \in (SUBSET Conns) \ {{}} : \A c \in S : WaitsFor(c) \cap S # {}
    BY Zenon DEF Deadlocked
  <2>2. S \subseteq Conns /\ S # {}
    OBVIOUS
  <2> DEFINE h(c) == Head(plan[c])
  <2>3. ASSUME NEW c \in S
        PROVE  /\ h(c) \in Lock
               /\ \A l \in held[c] : l \in Lock /\ Before(l, h(c))
               /\ \E d \in S : \E m \in held[d] : Conflict(h(c), m)
    <3>1. pc[c] = "lock" /\ plan[c] # <<>> /\ WaitsFor(c) = HoldersAgainst(h(c))
      BY <2>1 DEF WaitsFor
    <3>2. c \in Conns /\ plan[c] \in Seq(Lock) /\ held[c] \subseteq Lock
      BY <2>2 DEF Inv, TypeOK
    <3>3. h(c) = plan[c][1] /\ 1 \in DOMAIN plan[c] /\ h(c) \in Lock
      BY <3>1, <3>2
    <3>4. Ordered(c) /\ ~Unordered(c)
      BY <3>2 DEF Inv, LockInv
    <3>5. \A l \in held[c] : Before(l, plan[c][1])
      BY <3>1, <3>3, <3>4 DEF Ordered
    <3>6. \E d \in S : d \in HoldersAgainst(h(c))
      BY <2>1, <3>1
    <3> QED BY <3>2, <3>3, <3>5, <3>6 DEF HoldersAgainst
  <2> HIDE DEF h
  <2>4. ASSUME NEW c \in S
        PROVE  \E d \in S : \E m \in Lock : Conflict(h(c), m) /\ Before(m, h(d))
    <3>1. PICK d \in S : \E m \in held[d] : Conflict(h(c), m)
      BY <2>3
    <3> QED BY <3>1, <2>3
  <2>5. \A c \in S : h(c).kind \in {"record", "shared", "exclusive"} /\ h(c).name \in Nat
    <3>1. Names \cup {NoName} \subseteq Nat
      BY TxnAssumption DEF NoName
    <3> QED BY <2>3, <3>1 DEF Lock
  <2>6. RmLock.kind = "exclusive" /\ RmLock.db = "rm"
    BY DEF RmLock, Exclusive
  <2>7. \A c \in S : h(c).kind # "record" =>
          \E d \in S : h(c).db = "rm" /\ h(d).kind # "record" /\ h(d).db # "rm"
    <3> SUFFICES ASSUME NEW c \in S, h(c).kind # "record"
                 PROVE  \E d \in S : h(c).db = "rm" /\ h(d).kind # "record" /\ h(d).db # "rm"
      OBVIOUS
    <3>1. PICK d \in S, m \in Lock : Conflict(h(c), m) /\ Before(m, h(d))
      BY <2>4
    <3>2. m.kind # "record" /\ m.db = h(c).db
      BY <3>1, <2>5 DEF Conflict
    <3>3. m = RmLock /\ h(d).kind # "record" /\ h(d).db # "rm"
      BY <3>1, <3>2 DEF Before
    <3> QED BY <2>6, <3>2, <3>3
  <2>8. \A c \in S : h(c).kind = "record"
    BY <2>7
  <2> DEFINE T == {h(c).name : c \in S}
  <2>9. IsFiniteSet(T)
    <3>1. IsFiniteSet(S)
      BY <2>2, TxnAssumption, FS_Subset
    <3> DEFINE f == [c \in S |-> h(c).name]
    <3>2. f \in Surjection(S, T)
      BY DEF Surjection
    <3> HIDE DEF f, T
    <3> QED BY <3>1, <3>2, FS_Surjection
  <2>10. T \in SUBSET Nat /\ T # {}
    BY <2>2, <2>5
  <2> HIDE DEF T
  <2>11. PICK n \in T : \A m \in T : m <= n
    BY <2>9, <2>10, GreatestNatural
  <2>12. PICK c \in S : h(c).name = n
    BY DEF T
  <2>13. PICK d \in S, m \in Lock : Conflict(h(c), m) /\ Before(m, h(d))
    BY <2>4
  <2>14. m = h(c) /\ h(c).kind = "record" /\ h(d).kind = "record"
    BY <2>8, <2>13 DEF Conflict
  <2>15. h(c).name < h(d).name
    BY <2>6, <2>13, <2>14 DEF Before
  <2>16. h(d).name \in T /\ n \in Nat /\ h(d).name \in Nat
    BY <2>5, <2>10 DEF T
  <2> QED BY <2>11, <2>12, <2>15, <2>16
<1> QED BY <1>1, Invariant, PTL

=============================================================================
