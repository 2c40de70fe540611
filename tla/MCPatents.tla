------------------------------- MODULE MCPatents -------------------------------
(* Instances of Patents for TLC. *)
EXTENDS Patents, TLC

\* Two numbers of one year, and the first of the next.
ThreeNumbers == {<<1, 1>>, <<1, 2>>, <<2, 1>>}
OneNumber == {<<1, 1>>}

\* Workers are interchangeable, and so are the records that are not followed.
MCSymmetry == Permutations(Records \ Followed) \cup Permutations(Workers)
=============================================================================
