------------------------------ MODULE Commands ------------------------------
(***************************************************************************)
(* What a buffer of client data means: the reference for the loop of       *)
(* pars_incomming_data, src/src/c/tcp_select/cli_server.c.                 *)
(***************************************************************************)
EXTENDS Bytes, Integers, Sequences, FiniteSetsExt

\* A C string: what comes before the first 0.
UpToNul(s) ==
    LET zeros == {m \in DOMAIN s : s[m] = NUL}
    IN  IF zeros = {} THEN s ELSE SubSeq(s, 1, Min(zeros) - 1)

Ends(s) == {p \in DOMAIN s : s[p] = NL}

\* The bytes that end before p and begin after the newline before it, if any.
Piece(s, p) == SubSeq(s, Max({q \in Ends(s) : q < p} \cup {0}) + 1, p - 1)

Nth(S, k) == CHOOSE p \in S : Cardinality({q \in S : q <= p}) = k

(***************************************************************************)
(* The commands of a buffer that ends in 0.  Each newline ends a piece;    *)
(* empty pieces are no commands, except that what follows the last newline *)
(* is one even if it is empty.                                             *)
(***************************************************************************)
CommandEnds(s) == {p \in Ends(s) : UpToNul(Piece(s, p)) # <<>>} \cup {Len(s) + 1}

Commands(s) ==
    LET ends == CommandEnds(s)
    IN  [k \in 1 .. Cardinality(ends) |-> UpToNul(Piece(s, Nth(ends, k)))]

\* The lines a client has written, the unfinished one left out.
LineEnds(s) == {p \in Ends(s) : Piece(s, p) # <<>>}

Lines(s) ==
    LET ends == LineEnds(s)
    IN  [k \in 1 .. Cardinality(ends) |-> Piece(s, Nth(ends, k))]
=============================================================================
