--------------------------- MODULE MCBinlogSync ---------------------------
(* Instances of BinlogSync for TLC. *)
EXTENDS BinlogSync, TLC

ThreadSymmetry == Permutations(Threads)

=============================================================================
