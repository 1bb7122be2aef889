--------------------------- MODULE MCVerifierQueue ---------------------------
(***************************************************************************)
(* VerifierQueue on small instances; the .cfg files give the constants.    *)
(***************************************************************************)
EXTENDS VerifierQueue, TLC

\* 30, 120 and 600 seconds, in a unit in which nothing between them is lost: three
\* distinct offsets, the last gap the widest.
Offsets == <<1, 2, 4>>

Symmetry == Permutations(Task)
==============================================================================
