------------------------- MODULE MCTreeHoleService -------------------------
(* Four names for a cache of three, and one that ends the process; a sound *)
(* message, and one of two lines with a time in the place of the key.      *)
EXTENDS TreeHoleService, TLC

CONSTANTS a, f

MCKeys == {Index, [from |-> 0, num |-> 1], [from |-> 1, num |-> 0],
           [from |-> 0, num |-> 0], [from |-> 0, num |-> -1]}

MCBroken == [m \in {f} |-> <<2, 0>>]

Symmetry == Permutations(Reactors)
=============================================================================
