----------------------------- MODULE MCHubCtrl -----------------------------
(* Values for the constants of HubCtrl that a cfg cannot write.            *)
EXTENDS HubCtrl

CONSTANT MaxArgs

\* 257 is a port that does not fit in a byte.
Numbers ==
    [a \in {"0", "1", "2", "-1", "257"} |->
        CASE a = "0" -> 0 [] a = "1" -> 1 [] a = "2" -> 2 [] a = "-1" -> -1 [] a = "257" -> 257]

Arguments == Options \cup {"-x"} \cup DOMAIN Numbers

\* All command lines of at most MaxArgs arguments, and some longer ones.
AllLines ==
    UNION {[1 .. n -> Arguments] : n \in 0 .. MaxArgs}
        \cup {<<"-b", b, "-d", v, o, "1">> : b \in {"1", "2"}, v \in {"1", "2"}, o \in {"-P", "-p", "-l"}}

ADevice(b, v, class) ==
    [bus |-> b, dev |-> v, class |-> class, opens |-> TRUE, length |-> "whole",
     portind |-> FALSE, lpsm |-> 0, nport |-> 1]

\* Two busses whose devices have the same numbers; devices that are no hubs,
\* cannot be opened, do not answer, or have nothing to control.
TwoBusses ==
    <<ADevice(1, 1, "other"),
      [ADevice(1, 2, "hub") EXCEPT !.lpsm = 2],
      ADevice(1, 1, "hub"),
      [ADevice(2, 1, "hub") EXCEPT !.lpsm = 3, !.portind = TRUE]>>

Unwilling ==
    <<[ADevice(1, 1, "hub") EXCEPT !.opens = FALSE],
      [ADevice(1, 2, "hub") EXCEPT !.length = "short"],
      [ADevice(2, 2, "hub") EXCEPT !.lpsm = 1]>>

\* A hub whose descriptor cannot be read, and what may stand in its place; and
\* one that is well.
Silent ==
    {<<[ADevice(1, 1, "hub") EXCEPT !.length = "negative", !.portind = p, !.lpsm = 2, !.nport = -3],
       ADevice(1, 2, "hub")>> : p \in BOOLEAN}

AllTopologies == {<<>>, TwoBusses, Unwilling} \cup Silent
=============================================================================
