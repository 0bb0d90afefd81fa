----------------------------- MODULE MCWlanTaps -----------------------------
(* Frames of two access points and two stations.                           *)
EXTENDS WlanTaps

CONSTANTS a1, a2, s1, s2

Frame(kind, ap, sta, rssi, channel) ==
    [kind |-> kind, ap |-> ap, sta |-> sta, rssi |-> rssi, channel |-> channel,
     retry |-> FALSE, air |-> 100, seq |-> 0]

Again(f) == [f EXCEPT !.retry = TRUE, !.rssi = None]

\* Channels 1 and 13, the Japanese channel 14 and a frame without radiotap
\* header; a signal below -100.
Air ==
    {Frame("beacon", a1, Everybody, -40, 2412), Frame("beacon", a1, Everybody, -70, 2484),
     Frame("beacon", a2, Everybody, -70, 2472),
     [Frame("beacon", a2, Everybody, None, None) EXCEPT !.air = None],
     Frame("ibss", a1, Everybody, -50, 2412),
     Frame("toDS", a1, s1, -60, 2412), Again(Frame("toDS", a1, s1, -60, 2412)),
     Frame("toDS", a2, s2, -50, 2412), Frame("fromDS", a1, s1, -30, 2412),
     Frame("fromDS", a1, Everybody, -30, 2412),
     Frame("auth", a1, s2, -20, 2412), Frame("auth", a1, s2, -110, 2412),
     Frame("ack", a1, s1, -40, 2412), Again(Frame("ack", a1, s1, -40, 2412))}

\* Numbers in steps of 4, one of them 0.
Wire ==
    {[Frame("udp", a1, s1, None, None) EXCEPT !.seq = q] : q \in {0, 4, 8, 12}}

AllFrames == Air \cup Wire
=============================================================================
