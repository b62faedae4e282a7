---------------------------- MODULE MCFilterStore ----------------------------
(***************************************************************************)
(* Small instances of FilterStore for TLC.  The configurations choose how  *)
(* many of the names, digests, maps and parameter sets below there are,    *)
(* and what the environment may do.                                        *)
(***************************************************************************)
EXTENDS FilterStoreImpl, Inspect, TLC

CONSTANTS a, b, d1, d2, m1, m2, m3, m4, p1, p2

(* All maps alike, two maps of one parameter set and one of another, or    *)
(* two of each.                                                            *)
OneParam    == [m \in Maps |-> p1]
MixedParams == (m1 :> p1) @@ (m2 :> p1) @@ (m3 :> p2)
TwoParams   == (m1 :> p1) @@ (m2 :> p1) @@ (m3 :> p2) @@ (m4 :> p2)

(* Digests, maps with equal parameters, and names are interchangeable: the *)
(* specification compares them and nothing else.                           *)
Symmetry      == Permutations(Digests) \cup Permutations(Maps)
MixedSymmetry == Permutations(Digests) \cup Permutations({m1, m2})
NameSymmetry  == Permutations(Names) \cup Permutations(Maps)
TwoSymmetry   == Permutations(Names) \cup Permutations({m1, m2}) \cup Permutations({m3, m4})
=============================================================================
