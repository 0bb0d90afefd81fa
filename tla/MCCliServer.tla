---------------------------- MODULE MCCliServer ----------------------------
(* Values for the constants of CliServer that a cfg cannot write.          *)
EXTENDS CliServer

CONSTANTS c1, c2, c3, s, d, x, nl, nul

\* "shutdown" is a word of two characters.
TheWord == <<s, d>>

\* Clients write whole lines.
WholeLines == {<<s, d, nl>>, <<x, nl>>}

\* ... or several of them at once.
Batches == WholeLines \cup {<<x, nl, s, d, nl>>}

\* TCP may deliver a line in two pieces.
Pieces == {<<s>>, <<d, nl>>}
=============================================================================
