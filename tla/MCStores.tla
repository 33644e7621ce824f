------------------------------ MODULE MCStores -------------------------------
(* An instance of the stores for TLC.  Ids of one aggregate are            *)
(* interchangeable.                                                        *)
EXTENDS Stores, TLC

Symmetry == Permutations(Ivs) \cup Permutations(Cs) \cup Permutations(Decs)
            \cup Permutations(Movers)
=============================================================================
