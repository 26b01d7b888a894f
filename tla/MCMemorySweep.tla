----------------------------- MODULE MCMemorySweep -----------------------------
(***************************************************************************)
(* The sweep for TLC: four pages of four addresses, a slice of six.        *)
(***************************************************************************)
EXTENDS MemorySweep, TLC

kPage == 4
MCLimit == 4 * kPage

MCLayouts == {[a \in Addresses |-> pages[a \div kPage]] :
                pages \in [0 .. (MCLimit \div kPage) - 1 -> Accesses]}

MCBlocks == {{a} : a \in Addresses}

Symmetry == Permutations(Heaps)
================================================================================
