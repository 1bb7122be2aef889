--------------------------- MODULE MCApprovalFlow ---------------------------
(***************************************************************************)
(* ApprovalFlow on small instances; the .cfg files give the constants.     *)
(***************************************************************************)
EXTENDS ApprovalFlow, TLC

\* Reviewers are interchangeable; the rows of one kind are too.
Symmetry == Permutations(Reviewer) \cup Permutations(Diagnostic)
=============================================================================
