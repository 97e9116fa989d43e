-------------------------- MODULE WriteReplication --------------------------
(***************************************************************************)
(* Clients writing on the master and the slave executing the binlog, which *)
(* is all the two share.                                                   *)
(***************************************************************************)
EXTENDS WritePath, ReplicaApply

vars == <<mlog, clientVars, replicaVars>>

TypeOK == WriteTypeOK /\ ReplicaTypeOK

Init == WriteInit /\ ReplicaInit

Next ==
  \/ \E c \in Clients : ClientThread(c) /\ UNCHANGED replicaVars
  \/ (BinlogWorker \/ Stop \/ Restart) /\ UNCHANGED clientVars
  \/ \E w \in Workers : WriteDBWorker(w) /\ UNCHANGED clientVars

Spec == Init /\ [][Next]_vars

FairSpec == Spec /\ ClientFairness /\ ReplicaFairness

(* Cmd::InternalProcessCommand and ProcessLeaderLog: once the clients stop    *)
(* writing, the slave's database becomes and stays the master's, unless the   *)
(* slave is shut down, a crash of it took a record that no later one made     *)
(* good, the master's binlog diverged from its database, or an MSET and a     *)
(* FLUSHDB wait for each other and the record of the MSET is never written.   *)
Converges ==
  <>[](sdb = mdb \/ stopping # "no" \/ lost # {} \/ diverged # {} \/ FlushDeadlock)

=============================================================================
