------------------------------ MODULE WlanTaps ------------------------------
(***************************************************************************)
(* The tap scripts of src/src/lua, loaded into one tshark that reads a     *)
(* file of frames: each frame is handed to every listener whose filter it  *)
(* matches, and at the end of the file the listings are written.           *)
(*                                                                         *)
(* A frame is a record of the fields the scripts ask for.  An error in a   *)
(* callback ends that call and nothing else.  Lua is version 5.1, in which *)
(* string.format("%s", nil) is an error.                                   *)
(***************************************************************************)
EXTENDS Integers, Sequences, FiniteSets, SequencesExt

CONSTANTS
    Frames,     \* what may be in the file (FrameAssumption)
    MaxFrames,  \* bound: the frames of a file
    Everybody,  \* ff:ff:ff:ff:ff:ff
    DUT,        \* the access point in the filter of wlan_rssi.lua
    None        \* nil, or a field that the frame does not have

\* An "ibss" is a beacon without ess; an "auth" any frame of wlan_list_sta's
\* filter; air is what calc_frame_time returns, None if it fails because the
\* frame has no radiotap header; rssi is a signed byte; seq is the word at
\* byte 42.
Kinds == {"beacon", "ibss", "toDS", "fromDS", "auth", "ack", "udp"}

ASSUME FrameAssumption ==
    /\ \A f \in Frames :
        /\ f.kind \in Kinds
        /\ f.retry \in BOOLEAN
        /\ f.rssi \in -128 .. 127 \cup {None}
        /\ f.channel \in Nat \cup {None}
        /\ f.air \in Nat \cup {None}
        /\ f.seq \in Nat
    /\ MaxFrames \in Nat
    /\ None \notin Int

VARIABLES
    pc,         \* "read" or "draw"
    ap_t,       \* ap_t[mac], of wlan_list_ap_sta.lua
    ap_sta_t,   \* ap_sta_t[<<ap_mac, sta_mac>>], of the same
    stats,      \* the four stats_ variables of wlan_rssi.lua and wlan_list_sta.lua
    time_total, \* time_total of wlan_nav.lua
    time_last,  \* time_last of the same: the number of a frame instead of its time
    prev_seq,   \* prev_seq of iperf_udp_ploss.lua
    gaps,       \* the frames (by their number) it has reported
    draw,       \* draw[l]: how far listing l is: "rows", "done", "error"
    rows,       \* rows[l]: the keys written in listing l
    frames      \* history: the frames read

tables == <<ap_t, ap_sta_t, stats, time_total, time_last, prev_seq, gaps>>
vars == <<pc, tables, draw, rows, frames>>

\* wlan_rssi.lua watches the beacons of one device, wlan_list_sta.lua all who
\* join.
Filter == [rssi |-> {f \in Frames : f.kind \in {"beacon", "ibss"} /\ f.ap = DUT},
           auth |-> {f \in Frames : f.kind = "auth"}]

\* The two listings of wlan_list_ap_sta.lua.
Listings == {"AP", "STA"}

Init ==
    /\ pc = "read"
    /\ ap_t = <<>> /\ ap_sta_t = <<>>
    /\ stats = [s \in DOMAIN Filter |-> [max |-> -100, min |-> 100, sum |-> 0, count |-> 0]]
    /\ time_total = 0 /\ time_last = 0
    /\ prev_seq = 0 /\ gaps = {}
    /\ draw = [l \in Listings |-> "rows"]
    /\ rows = [l \in Listings |-> {}]
    /\ frames = <<>>

Entry(t, k, e) == [x \in DOMAIN t \cup {k} |-> IF x = k THEN e ELSE t[x]]

-----------------------------------------------------------------------------
(* wlan_list_ap_sta.lua                                                    *)

\* Mutants: the channels are counted from 0; while i < 12.
get_channelFromZero(freq) ==
    IF freq \in {2412 + 5 * k : k \in 0 .. 12} THEN (freq - 2412) \div 5 ELSE None

get_channelTwelve(freq) ==
    IF freq \in {2412 + 5 * k : k \in 0 .. 11} THEN (freq - 2407) \div 5 ELSE None

\* The channels 1 to 13.  For any other, n in the last line is nil: an error.
get_channel(freq) ==
    IF freq \in {2412 + 5 * k : k \in 0 .. 12} THEN (freq - 2407) \div 5 ELSE None

\* When get_channel fails the entry is there already, without a channel.
ApPacket(f) ==
    ap_t' = IF f.kind # "beacon"
            THEN ap_t
            ELSE Entry(ap_t, f.ap,
                       IF f.ap \in DOMAIN ap_t
                       THEN [ap_t[f.ap] EXCEPT !.count = @ + 1]
                       ELSE [count |-> 1, channel |-> get_channel(f.channel)])

\* rssi is 0, or the string of what the station was first heard with.
ToDS(f) ==
    LET k == <<f.ap, f.sta>>
        e == IF k \in DOMAIN ap_sta_t
             THEN [ap_sta_t[k] EXCEPT !.count = @ + 1]
             ELSE [rssi |-> <<f.rssi>>, count |-> 1]
    IN  Entry(ap_sta_t, k, IF e.rssi = <<>> THEN [e EXCEPT !.rssi = <<f.rssi>>] ELSE e)

\* Mutant: the signal of the access point is taken for that of the station.
FromDSHeard(f) ==
    LET k == <<f.ap, f.sta>>
    IN  Entry(ap_sta_t, k,
              IF k \in DOMAIN ap_sta_t
              THEN [ap_sta_t[k] EXCEPT !.count = @ + 1]
              ELSE [rssi |-> <<f.rssi>>, count |-> 1])

FromDS(f) ==
    LET k == <<f.ap, f.sta>>
    IN  Entry(ap_sta_t, k,
              IF k \in DOMAIN ap_sta_t
              THEN [ap_sta_t[k] EXCEPT !.count = @ + 1]
              ELSE [rssi |-> <<>>, count |-> 1])

\* Mutant: frames to everybody are counted too.
IsNever(f) == FALSE

IsToEverybody(f) == f.sta = Everybody \/ f.ap = Everybody

StaPacket(f) ==
    ap_sta_t' = IF f.kind = "toDS" THEN ToDS(f)
                ELSE IF f.kind = "fromDS" /\ ~IsToEverybody(f) THEN FromDS(f)
                ELSE ap_sta_t

-----------------------------------------------------------------------------
(* wlan_rssi.lua and wlan_list_sta.lua                                     *)

\* Mutant: the minimum is only looked at when there is no new maximum.
WithElse(s, x) ==
    [max |-> IF x > s.max THEN x ELSE s.max,
     min |-> IF x < s.min /\ x <= s.max THEN x ELSE s.min,
     sum |-> s.sum + x,
     count |-> s.count + 1]

With(s, x) ==
    [max |-> IF x > s.max THEN x ELSE s.max,
     min |-> IF x < s.min THEN x ELSE s.min,
     sum |-> s.sum + x,
     count |-> s.count + 1]

\* A frame without rssi is an error before anything is changed.
StatsPacket(f) ==
    stats' = [s \in DOMAIN Filter |->
                IF f \in Filter[s] /\ f.rssi # None THEN With(stats[s], f.rssi) ELSE stats[s]]

-----------------------------------------------------------------------------
(* wlan_nav.lua: three listeners share time_total.                         *)

IsAir(f) == f.kind # "udp"

\* Mutant: the second filter does not leave out acks.
IsRetryOfAll(f) == IsAir(f) /\ f.retry

IsFirst(f) == IsAir(f) /\ f.kind # "ack" /\ ~f.retry
IsRetry(f) == IsAir(f) /\ f.kind # "ack" /\ f.retry
IsAck(f) == f.kind = "ack"

FirstTime(f) == IF IsFirst(f) /\ f.air # None THEN f.air + 68 ELSE 0
RetryTime(f) == IF IsRetry(f) /\ f.air # None THEN f.air + 2 * 68 ELSE 0
AckTime(f) == IF IsAck(f) THEN 10 + 40 ELSE 0

NavPacket(f) ==
    /\ time_total' = time_total + FirstTime(f) + RetryTime(f) + AckTime(f)
    /\ time_last' = IF FirstTime(f) + RetryTime(f) > 0 THEN Len(frames) + 1 ELSE time_last

-----------------------------------------------------------------------------
(* iperf_udp_ploss.lua: 0 stands for "no frame yet"; prev_ts goes with it.   *)

\* Mutant: the number is kept only when nothing was lost.
PrevInOrder(f) == IF prev_seq = 0 \/ f.seq - prev_seq = 4 THEN f.seq ELSE prev_seq

PrevSeq(f) == f.seq

PlossPacket(f) ==
    IF f.kind = "udp"
    THEN /\ prev_seq' = PrevSeq(f)
         /\ gaps' = gaps \cup
                {k \in {Len(frames) + 1} : prev_seq # 0 /\ f.seq - prev_seq # 4}
    ELSE UNCHANGED <<prev_seq, gaps>>

-----------------------------------------------------------------------------
(* tshark.                                                                 *)

Packet(f) ==
    /\ pc = "read"
    /\ Len(frames) < MaxFrames
    /\ frames' = Append(frames, f)
    /\ ApPacket(f) /\ StaPacket(f) /\ StatsPacket(f) /\ NavPacket(f) /\ PlossPacket(f)
    /\ UNCHANGED <<pc, draw, rows>>

EndOfFile ==
    /\ pc = "read"
    /\ pc' = "draw"
    /\ UNCHANGED <<tables, draw, rows, frames>>

\* The access points of a listing, in the order of pairs, which is any.
Keys(l) == IF l = "AP" THEN DOMAIN ap_t ELSE {k[1] : k \in DOMAIN ap_sta_t}

\* A missing entry cannot be indexed, a missing channel not be formatted.
IsPrintable(k) == k \in DOMAIN ap_t /\ ap_t[k].channel # None

Row(l, k) ==
    /\ pc = "draw" /\ draw[l] = "rows"
    /\ k \in Keys(l) \ rows[l]
    /\ IF IsPrintable(k)
       THEN rows' = [rows EXCEPT ![l] = @ \cup {k}] /\ UNCHANGED draw
       ELSE draw' = [draw EXCEPT ![l] = "error"] /\ UNCHANGED rows
    /\ UNCHANGED <<pc, tables, frames>>

DrawEnds(l) ==
    /\ pc = "draw" /\ draw[l] = "rows"
    /\ rows[l] = Keys(l)
    /\ draw' = [draw EXCEPT ![l] = "done"]
    /\ UNCHANGED <<pc, tables, rows, frames>>

Next ==
    \/ \E f \in Frames : Packet(f)
    \/ EndOfFile
    \/ \E l \in Listings : DrawEnds(l) \/ \E k \in Keys(l) : Row(l, k)

Spec == Init /\ [][Next]_vars

-----------------------------------------------------------------------------
(* Properties.                                                             *)
Number == DOMAIN frames
Are(P(_)) == {n \in Number : P(frames[n])}

\* Types.
TypeOK ==
    /\ pc \in {"read", "draw"}
    /\ \A k \in DOMAIN ap_t : ap_t[k].count \in Nat /\ ap_t[k].channel \in 1 .. 13 \cup {None}
    /\ \A k \in DOMAIN ap_sta_t :
        ap_sta_t[k].count \in Nat /\ Len(ap_sta_t[k].rssi) < 2
    /\ \A s \in DOMAIN stats : stats[s] \in [max : Int, min : Int, sum : Int, count : Nat]
    /\ time_total \in Nat /\ time_last \in 0 .. Len(frames) /\ prev_seq \in Nat
    /\ gaps \subseteq Number
    /\ draw \in [Listings -> {"rows", "done", "error"}]
    /\ \A l \in Listings : rows[l] \subseteq Keys(l)

(***************************************************************************)
(* Three listeners fill two tables, two of them the same one               *)
(* (wlan_list_ap_sta.lua:31-44, 73-86, 117-138): whatever the order of the *)
(* frames, an access point is counted by its beacons, and a station by     *)
(* what it sent to it and was sent by it alone; no other is listed.        *)
(***************************************************************************)
Beacons(a) == Are(LAMBDA f : f.kind = "beacon" /\ f.ap = a)

Exchanged(a, s) ==
    Are(LAMBDA f : /\ f.ap = a /\ f.sta = s
                   /\ \/ f.kind = "toDS"
                      \/ f.kind = "fromDS" /\ Everybody \notin {a, s})

TablesMatch ==
    /\ DOMAIN ap_t = {f.ap : f \in {g \in Range(frames) : g.kind = "beacon"}}
    /\ \A a \in DOMAIN ap_t : ap_t[a].count = Cardinality(Beacons(a))
    /\ \A n \in Number :
        Exchanged(frames[n].ap, frames[n].sta) # {} =>
            <<frames[n].ap, frames[n].sta>> \in DOMAIN ap_sta_t
    /\ \A k \in DOMAIN ap_sta_t :
        ap_sta_t[k].count = Cardinality(Exchanged(k[1], k[2])) /\ ap_sta_t[k].count > 0

(***************************************************************************)
(* The signal listed for a station (wlan_list_ap_sta.lua:79, 84-86, 132)   *)
(* is that of the first frame it sent itself, even if it was sent frames   *)
(* before, and 0 as long as it has sent none.                              *)
(***************************************************************************)
HeardRssi ==
    \A k \in DOMAIN ap_sta_t :
        LET own == Are(LAMBDA f : f.kind = "toDS" /\ f.ap = k[1] /\ f.sta = k[2])
        IN  ap_sta_t[k].rssi = IF own = {} THEN <<>> ELSE <<frames[Min(own)].rssi>>

(***************************************************************************)
(* A listing is written to its end if all it names were first heard in a   *)
(* beacon on one of the channels 1 to 13 (wlan_list_ap_sta.lua:15-21, 33,  *)
(* 38, 52, 96), whatever came before it, between and after.  It is cut     *)
(* short by any other: of a channel that is not known nothing is kept, as  *)
(* n of line 23 is not defined, and of an access point without a beacon    *)
(* ap_t[key] of line 96 is nil.                                            *)
(***************************************************************************)
FirstBeaconIsKnown(a) ==
    /\ Beacons(a) # {}
    /\ frames[Min(Beacons(a))].channel \in {2412, 2417, 2422, 2427, 2432, 2437, 2442,
                                           2447, 2452, 2457, 2462, 2467, 2472}

ListingsComplete ==
    \A l \in Listings : (\A k \in Keys(l) : FirstBeaconIsKnown(k)) => draw[l] # "error"

(***************************************************************************)
(* What is printed as minimum and maximum (wlan_rssi.lua:37-44, 50-53) was *)
(* measured, and nothing measured lies outside, if anything measured was   *)
(* on its side of 100 or -100, where the two start; if all were below      *)
(* -100, that is printed as the maximum and was never measured.  The sum   *)
(* and count behind the average are of the same frames.  With no frame the *)
(* average is 0/0.                                                         *)
(***************************************************************************)
Values(s) == {frames[n].rssi : n \in Are(LAMBDA f : f \in Filter[s] /\ f.rssi # None)}

StatsMatch ==
    \A s \in DOMAIN stats :
        LET heard == Are(LAMBDA f : f \in Filter[s] /\ f.rssi # None)
        IN  /\ stats[s].count = Cardinality(heard)
            /\ stats[s].sum = MapThenSumSet(LAMBDA n : frames[n].rssi, heard)
            /\ (\E x \in Values(s) : x <= 100) => stats[s].min = Min(Values(s))
            /\ (\E x \in Values(s) : x >= -100) => stats[s].max = Max(Values(s))

(***************************************************************************)
(* Each frame of the air is counted in time_total by exactly one of the    *)
(* three listeners (wlan_nav.lua:59, 85, 102), whose filters overlap if    *)
(* one is changed alone, and the time it is divided by is that of the last *)
(* frame that was no ack.                                                  *)
(***************************************************************************)
AirTimeAddsUp ==
    LET acks == Are(LAMBDA f : f.kind = "ack")
        timed == Are(LAMBDA f : f.kind \notin {"ack", "udp"} /\ f.air # None)
        again == Are(LAMBDA f : f.retry) \cap timed
    IN  /\ time_total = MapThenSumSet(LAMBDA n : frames[n].air, timed)
                          + 68 * Cardinality(timed) + 68 * Cardinality(again)
                          + 50 * Cardinality(acks)
        /\ time_last = Max(timed \cup {0})

(***************************************************************************)
(* A gap is reported at the frame that follows it, and only there          *)
(* (iperf_udp_ploss.lua:38-52), but for a frame after one numbered 0.      *)
(***************************************************************************)
GapsReported ==
    LET udp == Are(LAMBDA f : f.kind = "udp")
        before(n) == {m \in udp : m < n}
    IN  gaps = {n \in udp : /\ before(n) # {}
                            /\ frames[Max(before(n))].seq \notin {0, frames[n].seq - 4}}
=============================================================================
