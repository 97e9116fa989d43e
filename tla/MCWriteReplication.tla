------------------------ MODULE MCWriteReplication ------------------------
(* Instances of WriteReplication for TLC. *)
EXTENDS WriteReplication

CONSTANTS w1, w2

(* Neighbouring keys are on different workers. *)
MCWorkerOf == [k \in Keys |-> IF k % 2 = 0 THEN w1 ELSE w2]

Symmetry == Permutations(Clients)

=============================================================================
