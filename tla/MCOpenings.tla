------------------------------ MODULE MCOpenings ------------------------------
(* Instances of Openings for TLC. *)
EXTENDS Openings, TLC

\* Workers are interchangeable.
MCSymmetry == Permutations(Workers)
=============================================================================
