--------------------------- MODULE ReplicatedLog ---------------------------
(***************************************************************************)
(* What incremental replication promises: the slave's binlog is a copy of  *)
(* the master's that grows by the next record, one at a time, and in the   *)
(* end holds every record.  The promise is off once two synchronisation    *)
(* rounds have overlapped (`broken`).                                      *)
(***************************************************************************)
EXTENDS Naturals, Sequences

VARIABLES
  log,     \* number of records the master has written
  copy,    \* records the slave holds
  broken   \* synchronisation rounds have overlapped

vars == <<log, copy, broken>>

Init == log = 0 /\ copy = <<>> /\ broken = FALSE

(* The master writes its next record. *)
Propose == log' = log + 1 /\ UNCHANGED <<copy, broken>>

(* The slave receives the record that follows the ones it holds. *)
Copy ==
  /\ Len(copy) < log
  /\ copy' = Append(copy, Len(copy) + 1)
  /\ UNCHANGED <<log, broken>>

(* Rounds overlap; nothing is promised about the copy from then on. *)
Break == broken' = TRUE /\ UNCHANGED log

Next == Propose \/ Copy \/ Break

Safe == Init /\ [][Next \/ broken]_vars

(* Every record reaches the slave. *)
CaughtUp(k) == log >= k ~> (Len(copy) >= k \/ broken)

=============================================================================
