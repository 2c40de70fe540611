----------------------------- MODULE MCTeamThread -----------------------------
(* TeamThread on small sets.  Handlers are interchangeable. *)
EXTENDS TeamThread, TLC

MCSymmetry == Permutations(Workers)
=============================================================================
