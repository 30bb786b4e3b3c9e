--------------------------- MODULE ExtractorPoolMC ---------------------------
(* Calls are interchangeable, so are close() calls: the safety runs use it. *)
EXTENDS ExtractorPool, TLC

Symmetry == Permutations(Calls) \cup Permutations(Closers)
=============================================================================
