--------------------------- MODULE MCSelectServer ---------------------------
(* Values for the constants of SelectServer that a cfg cannot write.       *)
EXTENDS SelectServer, TLC

CONSTANTS c1, c2, c3, a, nl, nul

\* One line of one character.
ShortLines == {<<a, nl>>}

Symmetry == Permutations(Conns)

\* All clients read.
AllRead == Spec /\ Fairness(Conns)
=============================================================================
