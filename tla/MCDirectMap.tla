---------------------------- MODULE MCDirectMap -----------------------------
(* DirectMap on a few pages: requests of one page anywhere, of two aligned *)
(* pages and of one page inside a window; batches that remap, that unmap   *)
(* the middle of a range, that map without physical memory, and that map   *)
(* an address twice and unmap it in between.                               *)
EXTENDS DirectMap, TLC
CONSTANTS t1, t2

AnyPage == [lo |-> 0, hi |-> 0, len |-> 1, align |-> 1]
TwoAligned == [lo |-> 0, hi |-> 0, len |-> 2, align |-> 2]
InWindow == [lo |-> 1, hi |-> 3, len |-> 1, align |-> 1]

MCRequests == {AnyPage, TwoAligned, InWindow}

E(op, v, n, p) == [op |-> op, vaddr |-> v, size |-> n, phys |-> p, prot |-> 0]

MCMappings == {E("map", 0, 1, 0), E("map", 0, 2, 0), E("map", 1, 1, 1), E("map", 1, 2, 1), E("map", 1, 1, 2)}

MCBatches == {<<E("unmap", 1, 1, 0)>>,
              <<E("unmap", 0, 2, 0), E("map", 1, 1, NoPhys), E("map", 2, 1, NoPhys)>>,
              <<E("map", 0, 2, 0), E("unmap", 0, 1, 0), E("map", 1, 1, 2)>>}

Symmetry == Permutations(Threads)
=============================================================================
