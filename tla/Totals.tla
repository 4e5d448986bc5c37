------------------------------- MODULE Totals -------------------------------
(***************************************************************************)
(* The sum of a function to the naturals, as the number of units it hands  *)
(* out.  A sum defined by recursion over the domain could only be reasoned *)
(* about by induction; this one only needs facts about cardinalities.      *)
(***************************************************************************)
EXTENDS Integers, FiniteSets

\* One element per unit that f gives to an element of its domain.
Units(f) == UNION { {x} \X (1..f[x]) : x \in DOMAIN f }

\* f[x1] + f[x2] + ... over the domain of f.
Total(f) == Cardinality(Units(f))

=============================================================================
