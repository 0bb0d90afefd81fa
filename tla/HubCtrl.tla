------------------------------ MODULE HubCtrl ------------------------------
(***************************************************************************)
(* src/src/c/usb_hub/hub-ctrl.c: reads its options, makes a table of the   *)
(* USB hubs that have a feature to control, and sends one request to one   *)
(* of them.                                                                *)
(*                                                                         *)
(* An argument is a string of the command line; a device is a record of    *)
(* what libusb and the device tell of it.  Printing is left out; of the    *)
(* status report of -v remains what it asks.                               *)
(***************************************************************************)
EXTENDS Integers, Sequences, FiniteSetsExt

CONSTANTS
    CommandLines,   \* sequences of arguments, argv[1] and on
    Topologies,     \* sequences of devices, in the order of the busses
    Number          \* Number[a] is atoi(a); 0 for what is no number

(***************************************************************************)
(* length: what the request for the hub's descriptor returns, more than    *)
(* sizeof (struct usb_hub_descriptor) bytes, no more, or an error.  The    *)
(* last three are what buf then holds: the descriptor, or, after an error, *)
(* whatever the stack had there, so that they may have any value.  buf is  *)
(* of chars, which have a sign.                                            *)
(***************************************************************************)
Device ==
    [bus : Nat, dev : Nat, class : STRING, opens : BOOLEAN,
     length : {"whole", "short", "negative"},
     portind : BOOLEAN, lpsm : 0 .. 3, nport : -128 .. 127]

\* The kernel names its busses by their numbers.
ASSUME HubAssumption ==
    /\ \A line \in CommandLines : line \in Seq(STRING)
    /\ \A t \in Topologies : t \in Seq(Device)
    /\ \A a \in DOMAIN Number : Number[a] \in Int

VARIABLES
    argv, devices,  \* the inputs
    pc,             \* "args", "scan", "select", "control", "exited"
    i,              \* i: the next argument
    d,              \* the next device of usb_find_hubs
    busnum, devnum, cmd, port, value, listing, verbose, hub,
    hubs,           \* hubs[0 .. number_of_hubs_with_feature-1], as device indices
    sent,           \* the control messages sent
    reports,        \* the status reports of -v, and how many messages came before
    result          \* the exit status, -1 while the program runs

options == <<busnum, devnum, cmd, port, value, listing, verbose, hub>>
vars == <<argv, devices, pc, i, d, options, hubs, sent, reports, result>>

Options == {"-h", "-b", "-d", "-P", "-l", "-p", "-v"}

Init ==
    /\ argv \in CommandLines
    /\ devices \in Topologies
    /\ pc = "args"
    /\ i = 1 /\ d = 1
    /\ busnum = 0 /\ devnum = 0
    /\ cmd = "none" /\ port = 1 /\ value = 0
    /\ listing = (argv = <<>>)
    /\ verbose = FALSE
    /\ hub = -1
    /\ hubs = <<>>
    /\ sent = <<>> /\ reports = <<>>
    /\ result = -1

Exit(status) == pc' = "exited" /\ result' = status

-----------------------------------------------------------------------------
(* The options.                                                            *)
At(a) == pc = "args" /\ i <= Len(argv) /\ argv[i] = a

HasMore == i < Len(argv)
Atoi(a) == IF a \in DOMAIN Number THEN Number[a] ELSE 0

\* Mutant: i is incremented once more for the value.
TakeThree == i' = i + 3 /\ UNCHANGED <<pc, result>>

\* ++i, and the loop's own.
TakeTwo == i' = i + 2 /\ UNCHANGED <<pc, result>>

Rest == <<argv, devices, d, hubs, sent, reports>>

Usage == Exit(1) /\ UNCHANGED <<i, options>>

OptHub ==
    /\ At("-h")
    /\ IF ~HasMore \/ busnum > 0 \/ devnum > 0
       THEN Usage
       ELSE /\ TakeTwo
            /\ hub' = Atoi(argv[i + 1])
            /\ UNCHANGED <<busnum, devnum, cmd, port, value, listing, verbose>>
    /\ UNCHANGED Rest

OptBus ==
    /\ At("-b")
    /\ IF ~HasMore \/ hub >= 0
       THEN Usage
       ELSE /\ TakeTwo
            /\ busnum' = Atoi(argv[i + 1])
            /\ UNCHANGED <<devnum, cmd, port, value, listing, verbose, hub>>
    /\ UNCHANGED Rest

OptDev ==
    /\ At("-d")
    /\ IF ~HasMore \/ hub >= 0
       THEN Usage
       ELSE /\ TakeTwo
            /\ devnum' = Atoi(argv[i + 1])
            /\ UNCHANGED <<busnum, cmd, port, value, listing, verbose, hub>>
    /\ UNCHANGED Rest

OptPort ==
    /\ At("-P")
    /\ IF ~HasMore
       THEN Usage
       ELSE /\ TakeTwo
            /\ port' = Atoi(argv[i + 1])
            /\ UNCHANGED <<busnum, devnum, cmd, value, listing, verbose, hub>>
    /\ UNCHANGED Rest

\* -l and -p take the argument that follows, if there is one.
OptCommand(a, command, default) ==
    /\ At(a)
    /\ IF cmd # "none"
       THEN Usage
       ELSE /\ TakeTwo
            /\ value' = IF HasMore THEN Atoi(argv[i + 1]) ELSE default
            /\ cmd' = command
            /\ UNCHANGED <<busnum, devnum, port, listing, verbose, hub>>
    /\ UNCHANGED Rest

OptLed == OptCommand("-l", "led", 2)
OptPower == OptCommand("-p", "power", 0)

OptVerbose ==
    /\ At("-v")
    /\ verbose' = TRUE
    /\ listing' = (listing \/ Len(argv) = 1)
    /\ i' = i + 1
    /\ UNCHANGED <<pc, result, busnum, devnum, cmd, port, value, hub, Rest>>

OptUnknown ==
    /\ pc = "args" /\ i <= Len(argv) /\ argv[i] \notin Options
    /\ Usage
    /\ UNCHANGED Rest

EndArgs ==
    /\ pc = "args" /\ i > Len(argv)
    /\ IF (busnum > 0 /\ devnum <= 0) \/ (busnum <= 0 /\ devnum > 0)
       THEN Usage
       ELSE /\ hub' = IF hub < 0 /\ busnum = 0 THEN 0 ELSE hub
            /\ cmd' = IF cmd = "none" THEN "power" ELSE cmd
            /\ pc' = "scan"
            /\ UNCHANGED <<result, i, busnum, devnum, port, value, listing, verbose>>
    /\ UNCHANGED Rest

-----------------------------------------------------------------------------
(* usb_find_hubs, a device at a time.                                      *)
IsHub(v) == v.class = "hub" /\ v.opens

\* len is an int and sizeof a size_t: an error, negative, is "greater" too.
IsTakenForGood(v) == v.length # "short"

\* No port indicators and no power switching.
IsWithoutFeature(v) == ~v.portind /\ v.lpsm >= 2

Done == /\ d' = d + 1
        /\ UNCHANGED <<argv, devices, pc, i, options, sent, result>>

\* The status of each port in turn, until one cannot be read.
hub_port_status(k, messages) ==
    {[hub |-> k, ports |-> n, after |-> messages] : n \in {0} \cup 0 .. devices[k].nport}

\* Mutant: the report is part of a listing.
IsReportListed == verbose /\ listing

IsReporting == verbose

Report(k, messages) ==
    IF IsReporting
    THEN \E r \in hub_port_status(k, messages) : reports' = Append(reports, r)
    ELSE UNCHANGED reports

\* "failed to access USB"
ScanFails ==
    /\ pc = "scan" /\ d = 1
    /\ Exit(1)
    /\ UNCHANGED <<argv, devices, i, d, options, hubs, sent, reports>>

\* No hub, or it cannot be opened; "Can't get hub descriptor", although not
\* when there is none at all; nothing to control.
ScanSkips ==
    /\ pc = "scan" /\ d <= Len(devices)
    /\ \/ ~IsHub(devices[d])
       \/ ~IsTakenForGood(devices[d])
       \/ IsWithoutFeature(devices[d])
    /\ Done
    /\ UNCHANGED <<hubs, reports>>

ScanAdds ==
    /\ pc = "scan" /\ d <= Len(devices)
    /\ IsHub(devices[d]) /\ IsTakenForGood(devices[d]) /\ ~IsWithoutFeature(devices[d])
    /\ Done
    /\ hubs' = Append(hubs, d)
    /\ Report(d, 0)

EndScan ==
    /\ pc = "scan" /\ d > Len(devices)
    /\ IF hubs = <<>> \/ listing
       THEN Exit(IF hubs = <<>> THEN 1 ELSE 0)
       ELSE pc' = "select" /\ UNCHANGED result
    /\ UNCHANGED <<argv, devices, i, d, options, hubs, sent, reports>>

-----------------------------------------------------------------------------
IsAt(k, bus, dev) == devices[hubs[k]].bus = bus /\ devices[hubs[k]].dev = dev

\* Mutant: the bus number is not compared.
GetHubByDev(bus, dev) ==
    LET at == {k \in DOMAIN hubs : devices[hubs[k]].dev = dev}
    IN  IF at = {} THEN -1 ELSE Min(at) - 1

get_hub(bus, dev) ==
    LET at == {k \in DOMAIN hubs : IsAt(k, bus, dev)}
    IN  IF at = {} THEN -1 ELSE Min(at) - 1

\* get_hub, the range check and usb_open, which may fail this time.
SelectHub ==
    /\ pc = "select"
    /\ hub' = IF hub < 0 THEN get_hub(busnum, devnum) ELSE hub
    /\ \/ /\ hub' \in 0 .. Len(hubs) - 1
          /\ pc' = "control"
          /\ UNCHANGED result
       \/ Exit(1)    \* "Device not found."
    /\ UNCHANGED <<argv, devices, i, d, busnum, devnum, cmd, port, value, listing, verbose>>
    /\ UNCHANGED <<hubs, sent, reports>>

\* The 16 bits that a request has for its index, as the set of those that are
\* 1, each by its weight.
LowByte == {1, 2, 4, 8, 16, 32, 64, 128}
HighByte == {256, 512, 1024, 2048, 4096, 8192, 16384, 32768}
Bits(x) == {w \in LowByte \cup HighByte : (x \div w) % 2 = 1}

\* (value << 8) | port
Index(v, p) == Bits(v * 256) \cup Bits(p)

\* Mutant: the value and the port change places in the index.
MessageSwapped ==
    [to |-> hubs[hub + 1], set |-> cmd = "led" \/ value # 0,
     feature |-> IF cmd = "led" THEN "indicator" ELSE "power",
     index |-> IF cmd = "led" THEN Index(port, value) ELSE Bits(port)]

Message ==
    IF cmd = "power"
    THEN [to |-> hubs[hub + 1], set |-> value # 0, feature |-> "power", index |-> Bits(port)]
    ELSE [to |-> hubs[hub + 1], set |-> TRUE, feature |-> "indicator", index |-> Index(value, port)]

\* The device may refuse; then the exit status is 1.
Control ==
    /\ pc = "control"
    /\ sent' = Append(sent, Message)
    /\ Report(hubs[hub + 1], Len(sent'))
    /\ Exit(0) \/ Exit(1)
    /\ UNCHANGED <<argv, devices, i, d, options, hubs>>

Next ==
    \/ OptHub \/ OptBus \/ OptDev \/ OptPort \/ OptLed \/ OptPower
    \/ OptVerbose \/ OptUnknown \/ EndArgs
    \/ ScanFails \/ ScanSkips \/ ScanAdds \/ EndScan
    \/ SelectHub \/ Control

Spec == Init /\ [][Next]_vars

-----------------------------------------------------------------------------
\* Types.
TypeOK ==
    /\ pc \in {"args", "scan", "select", "control", "exited"}
    /\ i \in 1 .. Len(argv) + 2
    /\ d \in 1 .. Len(devices) + 1
    /\ cmd \in {"none", "led", "power"}
    /\ {busnum, devnum, port, value} \subseteq Int
    /\ {listing, verbose} \subseteq BOOLEAN
    /\ hub \in Int
    /\ \A k \in DOMAIN hubs : hubs[k] \in DOMAIN devices
    /\ \A k \in DOMAIN reports :
        reports[k].hub \in DOMAIN devices /\ reports[k].ports \in Nat
    /\ result \in {-1, 0, 1}

(***************************************************************************)
(* What a command line asks for, read as a whole.  An option stands where  *)
(* the one before it, with its argument, ends; the last of several counts. *)
(***************************************************************************)
OptionAt[k \in Nat] ==
    \/ k = 1
    \/ k > 1 /\ OptionAt[k - 1] /\ argv[k - 1] = "-v"
    \/ k > 2 /\ OptionAt[k - 2] /\ argv[k - 2] # "-v"

Places(a) == {k \in DOMAIN argv : OptionAt[k] /\ argv[k] = a}

ValueOf(a, default) ==
    IF \E k \in Places(a) : k < Len(argv) THEN Atoi(argv[Max(Places(a)) + 1]) ELSE default

\* The hubs that can be opened, give their descriptor, and have something to
\* control; and those that give none but an error.
Controllable ==
    {k \in DOMAIN devices :
        /\ devices[k].class = "hub"
        /\ devices[k].opens /\ devices[k].length = "whole"
        /\ devices[k].portind \/ devices[k].lpsm < 2}

Unread ==
    {k \in DOMAIN devices :
        devices[k].class = "hub" /\ devices[k].opens /\ devices[k].length = "negative"}

HubNumber(k) == Cardinality({m \in Controllable : m < k})

\* The hub of -b and -d, by its address; that of -h by its number, or else the
\* first.
IsAddressed(k) == devices[k].bus = ValueOf("-b", 0) /\ devices[k].dev = ValueOf("-d", 0)
NumberAsked == IF ValueOf("-h", 0) > 0 THEN ValueOf("-h", 0) ELSE 0

(***************************************************************************)
(* A request (hub-ctrl.c:374-398) goes to the hub that the command line    *)
(* names, by address (hub-ctrl.c:223-233) or by number, in whatever order  *)
(* the options come and whatever devices the scan has passed over; and the *)
(* hub is one that can be controlled (hub-ctrl.c:165).  A mere listing     *)
(* (hub-ctrl.c:259, 327) sends none.                                       *)
(*                                                                         *)
(* All but the address presumes that no hub fails to give its descriptor:  *)
(* the comparison of hub-ctrl.c:159-163 lets such a hub through, and what  *)
(* was in buf before decides whether it is numbered with the others and    *)
(* may be sent the request.                                                *)
(***************************************************************************)
AsksTheRightHub ==
    \A n \in DOMAIN sent :
        /\ argv \notin {<<>>, <<"-v">>}
        /\ Unread = {} => sent[n].to \in Controllable
        /\ IF ValueOf("-b", 0) > 0
           THEN IsAddressed(sent[n].to)
           ELSE Unread = {} => HubNumber(sent[n].to) = NumberAsked

(***************************************************************************)
(* A request carries what the last of each option says (hub-ctrl.c:30-32): *)
(* the port in the low byte of its index (hub-ctrl.c:379, 391), and for an *)
(* indicator its value in the high one.  That is so for ports and values   *)
(* that fit in a byte; the code does not check them, and others run into   *)
(* each other: -l 2 -P 257 asks for the indicator 3 at port 1.  Nor is the *)
(* port that of the last example (hub-ctrl.c:241), "-P 2 -l ... LED on at  *)
(* port 1": it is 2, as -P says.                                           *)
(***************************************************************************)
IsLed == Places("-l") # {}
PortAsked == ValueOf("-P", 1)
ColourAsked == IF IsLed THEN ValueOf("-l", 2) ELSE 0

SaysWhatWasAsked ==
    \A n \in DOMAIN sent :
        /\ Cardinality(Places("-l") \cup Places("-p")) < 2
        /\ sent[n].feature = IF IsLed THEN "indicator" ELSE "power"
        /\ sent[n].set = (IsLed \/ ValueOf("-p", 0) # 0)
        /\ PortAsked \in 0 .. 255 /\ ColourAsked \in 0 .. 255 =>
            /\ sent[n].index \cap LowByte = Bits(PortAsked)
            /\ {w \in LowByte : w * 256 \in sent[n].index} = Bits(ColourAsked)

(***************************************************************************)
(* -v, wherever it stands (hub-ctrl.c:212, 405), reports every hub as it   *)
(* is numbered for -h, before any message, and at the end the hub that was *)
(* sent one, which then shows what the message did.                        *)
(***************************************************************************)
ReportsEachHub ==
    LET reported == hubs \o [m \in DOMAIN sent |-> sent[m].to]
    IN  IF Places("-v") = {}
        THEN reports = <<>>
        ELSE /\ Len(reports) = Len(reported)
             /\ \A n \in DOMAIN reports :
                 /\ reports[n].hub = reported[n]
                 /\ reports[n].after = IF n > Len(hubs) THEN 1 ELSE 0
=============================================================================
