----------------------------- MODULE CommandLog -----------------------------
(***************************************************************************)
(* The binlog of one database as the sequence of commands it records.      *)
(* Every write command over several keys logs one record per key, so a     *)
(* record sets one key (a deletion sets it to NoValue) or is a FLUSHDB.    *)
(***************************************************************************)
EXTENDS Naturals, Sequences, FiniteSets

CONSTANTS
  Keys,     \* keys, numbered in the order std::sort gives them
  Values    \* values the clients write

NoValue == 0    \* the key does not exist
NoKey == 0      \* "", the key Cmd::current_key gives for FLUSHDB

ASSUME KeysAssumption ==
  Keys \subseteq Nat \ {NoKey} /\ Values \subseteq Nat \ {NoValue}

VARIABLE mlog   \* master: records of its binlog

Record ==
  [type: {"set"}, key: Keys, val: Values \cup {NoValue}]
    \cup [type: {"flushdb"}, key: {NoKey}, val: {NoValue}]

SetRecord(k, v) == [type |-> "set", key |-> k, val |-> v]
FlushRecord == [type |-> "flushdb", key |-> NoKey, val |-> NoValue]

Database == [Keys -> Values \cup {NoValue}]
EmptyDatabase == [k \in Keys |-> NoValue]

Touches(r, k) == r.type = "flushdb" \/ r.key = k

(* What executing the log in order leaves at key k. *)
IsValue(log, k, v) ==
  \/ v = NoValue /\ \A i \in DOMAIN log : ~Touches(log[i], k)
  \/ \E i \in DOMAIN log :
       /\ Touches(log[i], k) /\ v = log[i].val
       /\ \A j \in (i + 1)..Len(log) : ~Touches(log[j], k)

(* The database holds what the log says. *)
Agrees(db, log) == \A k \in Keys : IsValue(log, k, db[k])

=============================================================================
