---------------------------- MODULE MCMulticast ----------------------------
(* Values for the constants of Multicast that a cfg cannot write.          *)
EXTENDS Multicast, TLC

CONSTANTS p1, p2, p3, h1, h2, a, b

\* Two processes on one host, and one of the other program on another.
Programs == p1 :> "mcast" @@ p2 :> "mcast" @@ p3 :> "socket"
Hosts == p1 :> h1 @@ p2 :> h2 @@ p3 :> h2

\* Empty, shorter than the buffer, and longer than it.
Texts == {<<>>, <<a>>, <<b, b, b>>}
=============================================================================
