--------------------------- MODULE MCMemoryManager ---------------------------
(***************************************************************************)
(* Instances of MemoryManager for TLC.  The starvation counter stays below *)
(* four times the base after every Request, so the constants alone make    *)
(* the state space finite.  Requests are interchangeable as long as all of *)
(* them may be canceled; the liveness run uses no symmetry.                *)
(***************************************************************************)
EXTENDS MemoryManager

Symmetry == Permutations(Requests)

=============================================================================
