----------------------------- MODULE MCProjectPlan -----------------------------
(* Instances of ProjectPlan for TLC. *)
EXTENDS ProjectPlan, TLC

\* Milestones and workers are interchangeable.
MCSymmetry == Permutations(Milestones) \cup Permutations(Workers)
=============================================================================
