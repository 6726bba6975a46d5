---------------------------- MODULE MCSubReactor ----------------------------
(* SubReactor with interchangeable connections. *)
EXTENDS SubReactor, TLC

ConnSymmetry == Permutations(Conns)
=============================================================================
