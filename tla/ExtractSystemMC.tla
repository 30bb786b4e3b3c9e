--------------------------- MODULE ExtractSystemMC ---------------------------
(* Requests are interchangeable: the safety runs use it. *)
EXTENDS ExtractSystem, TLC

Symmetry == Permutations(Calls)
=============================================================================
