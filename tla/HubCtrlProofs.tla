--------------------------- MODULE HubCtrlProofs ---------------------------
(***************************************************************************)
(* Proofs about HubCtrl for any command lines, any devices and any meaning *)
(* of the arguments as numbers.  The properties read the line as a whole,  *)
(* the program one argument at a time: the invariant says what is known of *)
(* the options before i, and then that the table of hubs is numbered like  *)
(* the devices that can be controlled.                                     *)
(***************************************************************************)
EXTENDS HubCtrl, SequenceTheorems, FiniteSetTheorems, WellFoundedInduction, TLAPS

-----------------------------------------------------------------------------
(* Sets of numbers.                                                        *)

LEMMA HasLeast ==
    ASSUME NEW T, T \subseteq Nat, T # {}
    PROVE  \E m \in T : \A n \in T : m <= n
<1>1. PICK m \in T : \A n \in T : ~(<<n, m>> \in OpToRel(<, Nat))
    BY NatLessThanWellFounded, WFMin
<1>2. \A n \in T : ~(n < m)
    BY <1>1 DEF OpToRel
<1>3. QED
    BY <1>2

LEMMA MinOfNats ==
    ASSUME NEW T, T \subseteq Nat, T # {}
    PROVE  Min(T) \in Int /\ Min(T) \in T /\ \A n \in T : Min(T) <= n
<1>1. PICK m \in T : \A n \in T : m <= n
    BY HasLeast
<1>2. Min(T) \in T /\ \A n \in T : Min(T) <= n
    BY <1>1 DEF Min
<1>3. Min(T) \in Nat
    BY <1>2, Zenon
<1>4. QED
    BY <1>2, <1>3

-----------------------------------------------------------------------------
(* OptionAt, a recursive function, satisfies its equation: the least set   *)
(* of positions that is closed under going on to the next option is a      *)
(* solution of it.                                                         *)

FollowsOption(f, k, a) ==
    \/ k = 1
    \/ k > 1 /\ f[k - 1] /\ a[k - 1] = "-v"
    \/ k > 2 /\ f[k - 2] /\ a[k - 2] # "-v"

IsClosed(S, a) ==
    /\ 1 \in S
    /\ \A k \in S : IF a[k] = "-v" THEN k + 1 \in S ELSE k + 2 \in S

LEMMA HasSolution ==
    ASSUME NEW a
    PROVE  \E f : f = [k \in Nat |-> FollowsOption(f, k, a)]
<1>1. PICK R : R = {k \in Nat \ {0} : \A S \in SUBSET Nat : IsClosed(S, a) => k \in S}
    OBVIOUS
<1>2. PICK f : f = [k \in Nat |-> k \in R]
    OBVIOUS
<1>3. \A k \in Nat : f[k] = (k \in R)
    BY <1>2, Zenon
<1>4. R \subseteq Nat /\ \A k \in R : k \in Nat /\ k >= 1
    BY <1>1
<1>5. IsClosed(R, a)
    <2>1. 1 \in R
        BY <1>1 DEF IsClosed
    <2>2. ASSUME NEW k \in R, a[k] = "-v" PROVE k + 1 \in R
        <3>1. \A S \in SUBSET Nat : IsClosed(S, a) => k + 1 \in S
            BY <1>1, <2>2 DEF IsClosed
        <3>2. k + 1 \in Nat \ {0}
            BY <1>4
        <3>3. QED
            BY <1>1, <3>1, <3>2
    <2>3. ASSUME NEW k \in R, a[k] # "-v" PROVE k + 2 \in R
        <3>1. \A S \in SUBSET Nat : IsClosed(S, a) => k + 2 \in S
            BY <1>1, <2>3 DEF IsClosed
        <3>2. k + 2 \in Nat \ {0}
            BY <1>4
        <3>3. QED
            BY <1>1, <3>1, <3>2
    <2>4. QED
        BY <2>1, <2>2, <2>3 DEF IsClosed
\* A position that is not reached from another could be left out.
<1>6. ASSUME NEW k \in R
      PROVE  \/ k = 1
             \/ k > 1 /\ k - 1 \in R /\ a[k - 1] = "-v"
             \/ k > 2 /\ k - 2 \in R /\ a[k - 2] # "-v"
    <2>1. SUFFICES ASSUME k # 1,
                          ~(k > 1 /\ k - 1 \in R /\ a[k - 1] = "-v"),
                          ~(k > 2 /\ k - 2 \in R /\ a[k - 2] # "-v")
                   PROVE  FALSE
        OBVIOUS
    <2>2. PICK S : S = R \ {k}
        OBVIOUS
    <2>3. 1 \in S
        BY <1>5, <2>1, <2>2 DEF IsClosed
    <2>4. ASSUME NEW m \in S, a[m] = "-v" PROVE m + 1 \in S
        <3>1. m \in R /\ m + 1 \in R /\ m \in Nat /\ m >= 1
            BY <1>4, <1>5, <2>2, <2>4 DEF IsClosed
        <3>2. m + 1 # k
            <4>1. SUFFICES ASSUME m + 1 = k PROVE FALSE
                OBVIOUS
            <4>2. m = k - 1 /\ k > 1
                BY <3>1, <4>1
            <4>3. QED
                BY <2>1, <2>4, <3>1, <4>2
        <3>3. QED
            BY <2>2, <3>1, <3>2
    <2>5. ASSUME NEW m \in S, a[m] # "-v" PROVE m + 2 \in S
        <3>1. m \in R /\ m + 2 \in R /\ m \in Nat /\ m >= 1
            BY <1>4, <1>5, <2>2, <2>5 DEF IsClosed
        <3>2. m + 2 # k
            <4>1. SUFFICES ASSUME m + 2 = k PROVE FALSE
                OBVIOUS
            <4>2. m = k - 2 /\ k > 2
                BY <3>1, <4>1
            <4>3. QED
                BY <2>1, <2>5, <3>1, <4>2
        <3>3. QED
            BY <2>2, <3>1, <3>2
    <2>6. IsClosed(S, a) /\ S \in SUBSET Nat
        BY <1>4, <2>2, <2>3, <2>4, <2>5 DEF IsClosed
    <2>7. k \in S
        BY <1>1, <2>6
    <2>8. QED
        BY <2>2, <2>7
<1>7. ASSUME NEW k \in Nat PROVE f[k] = FollowsOption(f, k, a)
    <2>1. k > 1 => k - 1 \in Nat
        OBVIOUS
    <2>2. k > 2 => k - 2 \in Nat
        OBVIOUS
    <2>3. (k > 1 => f[k - 1] = (k - 1 \in R)) /\ (k > 2 => f[k - 2] = (k - 2 \in R))
        BY <1>3, <2>1, <2>2
    <2>4. FollowsOption(f, k, a) => k \in R
        <3>1. CASE k = 1
            BY <1>5, <3>1 DEF IsClosed
        <3>2. CASE k > 1 /\ f[k - 1] /\ a[k - 1] = "-v"
            <4>1. (k - 1) + 1 = k /\ k - 1 \in R
                <5>1. (k - 1) + 1 = k
                    OBVIOUS
                <5>2. QED
                    BY <2>3, <3>2, <5>1, Zenon
            <4>2. (k - 1) + 1 \in R
                BY <1>5, <3>2, <4>1 DEF IsClosed
            <4>3. QED
                BY <4>1, <4>2
        <3>3. CASE k > 2 /\ f[k - 2] /\ a[k - 2] # "-v"
            <4>1. (k - 2) + 2 = k /\ k - 2 \in R
                <5>1. (k - 2) + 2 = k
                    OBVIOUS
                <5>2. QED
                    BY <2>3, <3>3, <5>1, Zenon
            <4>2. (k - 2) + 2 \in R
                BY <1>5, <3>3, <4>1 DEF IsClosed
            <4>3. QED
                BY <4>1, <4>2
        <3>4. QED
            BY <3>1, <3>2, <3>3 DEF FollowsOption
    <2>5. k \in R => FollowsOption(f, k, a)
        BY <1>6, <2>3, Zenon DEF FollowsOption
    <2>6. FollowsOption(f, k, a) = (k \in R)
        <3>1. FollowsOption(f, k, a) \in BOOLEAN
            BY DEF FollowsOption
        <3>2. QED
            BY <2>4, <2>5, <3>1
    <2>7. QED
        BY <1>3, <2>6, Zenon
<1>8. f = [k \in Nat |-> FollowsOption(f, k, a)]
    BY <1>2, <1>7, Zenon
<1>9. QED
    BY <1>8

LEMMA OptionAtIs == OptionAt = [k \in Nat |-> FollowsOption(OptionAt, k, argv)]
<1>1. PICK f : f = [k \in Nat |-> FollowsOption(f, k, argv)]
    BY HasSolution
<1>2. QED
    BY <1>1, Zenon DEF OptionAt, FollowsOption

LEMMA SameOptions ==
    ASSUME argv' = argv
    PROVE  OptionAt' = OptionAt
BY DEF OptionAt

-----------------------------------------------------------------------------
(* The command line as far as it has been read.                            *)

Seen(a) == {k \in Places(a) : k < i}

\* What the argument after the last place of S says.
LastOf(S, default) == IF S = {} THEN default ELSE Atoi(argv[Max(S) + 1])

LEMMA SameLine ==
    ASSUME argv' = argv, NEW a, NEW v
    PROVE  Places(a)' = Places(a) /\ ValueOf(a, v)' = ValueOf(a, v)
BY SameOptions DEF Places, ValueOf, Atoi

LEMMA SeenSame ==
    ASSUME argv' = argv, i' = i, NEW a
    PROVE  Seen(a)' = Seen(a)
BY SameLine DEF Seen

LEMMA PlacesType ==
    ASSUME argv \in Seq(STRING), NEW a
    PROVE  /\ Places(a) \subseteq 1 .. Len(argv) /\ Places(a) \subseteq Int
           /\ Len(argv) \in Nat
BY DEF Places

LEMMA MaxIs ==
    ASSUME NEW T, T \subseteq Int, NEW m \in T, \A n \in T : n <= m
    PROVE  Max(T) = m
<1>1. Max(T) \in T /\ \A n \in T : Max(T) >= n
    BY DEF Max
<1>2. Max(T) <= m /\ m <= Max(T) /\ m \in Int /\ Max(T) \in Int
    BY <1>1
<1>3. QED
    BY <1>2

LEMMA AtoiType ==
    ASSUME \A a \in DOMAIN Number : Number[a] \in Int, NEW a
    PROVE  Atoi(a) \in Int
BY DEF Atoi

\* The last of several counts.
LEMMA LastOfMore ==
    ASSUME NEW S, S \subseteq Int, NEW k \in Int, \A m \in S : m < k, NEW v
    PROVE  LastOf(S \cup {k}, v) = Atoi(argv[k + 1])
<1>1. Max(S \cup {k}) = k
    <2>1. S \cup {k} \subseteq Int /\ k \in S \cup {k} /\ \A m \in S \cup {k} : m <= k
        OBVIOUS
    <2>2. QED
        BY <2>1, MaxIs
<1>2. QED
    BY <1>1 DEF LastOf

LEMMA SeenIsInt ==
    ASSUME argv \in Seq(STRING), NEW a
    PROVE  Seen(a) \subseteq Int /\ (\A k \in Seen(a) : k < i) /\ Seen(a) \subseteq Places(a)
BY PlacesType DEF Seen

\* An option stands at i, and none was passed over.
AtOption ==
    i <= Len(argv) => OptionAt[i] /\ (i > 1 /\ OptionAt[i - 1] => argv[i - 1] = "-v")

\* Reading an option goes on to the next one.
LEMMA OptionNext ==
    ASSUME argv \in Seq(STRING), i \in 1 .. Len(argv) + 2, i <= Len(argv), AtOption,
           argv' = argv, i' = IF argv[i] = "-v" THEN i + 1 ELSE i + 2
    PROVE  /\ AtOption'
           /\ \A a : Seen(a)' = IF argv[i] = a THEN Seen(a) \cup {i} ELSE Seen(a)
<1>1. i \in DOMAIN argv /\ i \in Nat \ {0} /\ Len(argv) \in Nat /\ DOMAIN argv = 1 .. Len(argv)
    OBVIOUS
<1>2. OptionAt[i] /\ (i > 1 /\ OptionAt[i - 1] => argv[i - 1] = "-v")
    BY DEF AtOption
<1>3. \A k \in Nat : OptionAt[k] = FollowsOption(OptionAt, k, argv)
    BY OptionAtIs, Zenon
<1>4. OptionAt[i + 1] = (argv[i] = "-v")
    <2>1. PICK k : k = i + 1
        OBVIOUS
    <2>2. k \in Nat /\ k > 1 /\ k # 1 /\ k - 1 = i /\ k - 2 = i - 1 /\ (k > 2 <=> i > 1)
        BY <1>1, <2>1
    <2>3. OptionAt[k] = FollowsOption(OptionAt, k, argv)
        BY <1>3, <2>2
    <2>4. FollowsOption(OptionAt, k, argv) = (argv[i] = "-v")
        BY <1>2, <2>2, Zenon DEF FollowsOption
    <2>5. QED
        BY <2>1, <2>3, <2>4, Zenon
<1>5. argv[i] # "-v" => OptionAt[i + 2]
    <2>1. SUFFICES ASSUME argv[i] # "-v" PROVE OptionAt[i + 2]
        OBVIOUS
    <2>2. PICK k : k = i + 2
        OBVIOUS
    <2>3. k \in Nat /\ k > 2 /\ k - 2 = i
        BY <1>1, <2>2
    <2>4. OptionAt[k] = FollowsOption(OptionAt, k, argv)
        BY <1>3, <2>3
    <2>5. FollowsOption(OptionAt, k, argv)
        BY <1>2, <2>1, <2>3, Zenon DEF FollowsOption
    <2>6. QED
        BY <2>2, <2>4, <2>5, Zenon
<1>6. AtOption'
    <2>1. CASE argv[i] = "-v"
        <3>1. i' = i + 1 /\ i' - 1 = i /\ i' > 1
            BY <1>1, <2>1
        <3>2. OptionAt[i'] /\ argv[i' - 1] = "-v"
            BY <1>4, <2>1, <3>1
        <3>3. QED
            BY <3>2, SameOptions DEF AtOption
    <2>2. CASE argv[i] # "-v"
        <3>1. i' = i + 2 /\ i' - 1 = i + 1
            BY <1>1, <2>2
        <3>2. OptionAt[i'] /\ ~OptionAt[i' - 1]
            BY <1>4, <1>5, <2>2, <3>1, Zenon
        <3>3. QED
            BY <3>2, SameOptions DEF AtOption
    <2>3. QED
        BY <2>1, <2>2
<1>7. ASSUME NEW a PROVE Seen(a)' = IF argv[i] = a THEN Seen(a) \cup {i} ELSE Seen(a)
    <2>1. Seen(a)' = {k \in Places(a) : k < i'}
        BY SameLine DEF Seen
    <2>2. Seen(a) = {k \in Places(a) : k < i} /\ Places(a) \subseteq Int
        BY PlacesType DEF Seen
    <2>3. i \in Places(a) <=> argv[i] = a
        BY <1>1, <1>2 DEF Places
    <2>4. ASSUME NEW k \in Places(a), k < i' PROVE k < i \/ k = i
        <3>1. CASE argv[i] = "-v"
            BY <1>1, <2>2, <2>4, <3>1
        <3>2. CASE argv[i] # "-v"
            <4>1. k # i + 1
                <5>1. OptionAt[k]
                    BY <2>4 DEF Places
                <5>2. QED
                    BY <1>4, <3>2, <5>1, Zenon
            <4>2. QED
                BY <1>1, <2>2, <2>4, <3>2, <4>1
        <3>3. QED
            BY <3>1, <3>2
    <2>5. i < i' /\ \A k \in Int : k < i => k < i'
        BY <1>1
    <2>6. QED
        BY <2>1, <2>2, <2>3, <2>4, <2>5
<1>8. QED
    BY <1>6, <1>7

-----------------------------------------------------------------------------
(* Types.                                                                  *)

InputTypes ==
    /\ argv \in Seq(STRING) /\ devices \in Seq(Device)
    /\ \A a \in DOMAIN Number : Number[a] \in Int

Types ==
    /\ InputTypes
    /\ TypeOK
    /\ hubs \in Seq(DOMAIN devices)
    /\ reports \in Seq([hub : DOMAIN devices, ports : Nat, after : Nat])

SentLast == pc # "exited" => sent = <<>>

ChosenIsHub == pc = "control" => hub \in 0 .. Len(hubs) - 1

LEMMA ElementsType ==
    ASSUME NEW S, NEW s \in Seq(S)
    PROVE  /\ DOMAIN s = 1 .. Len(s) /\ Len(s) \in Nat
           /\ \A k \in DOMAIN s : s[k] \in S
OBVIOUS

LEMMA TypesInit == Init => Types
<1>1. SUFFICES ASSUME Init PROVE Types
    OBVIOUS
<1>2. InputTypes
    BY <1>1, HubAssumption DEF Init, InputTypes
<1>3. Len(argv) \in Nat /\ Len(devices) \in Nat
    BY <1>2, LenProperties DEF InputTypes
<1>4. \A R : <<>> \in Seq(R)
    OBVIOUS
<1>5. TypeOK
    <2>1. 1 \in 1 .. Len(argv) + 2 /\ 1 \in 1 .. Len(devices) + 1
        BY <1>3
    <2>2. (\A k \in DOMAIN hubs : FALSE) /\ (\A k \in DOMAIN reports : FALSE)
        BY <1>1 DEF Init
    <2>3. /\ i \in 1 .. Len(argv) + 2 /\ d \in 1 .. Len(devices) + 1
          /\ pc \in {"args", "scan", "select", "control", "exited"}
          /\ cmd \in {"none", "led", "power"} /\ result \in {-1, 0, 1} /\ hub \in Int
        BY <1>1, <2>1 DEF Init
    <2>4. {busnum, devnum, port, value} \subseteq Int
        BY <1>1 DEF Init
    <2>5. {listing, verbose} \subseteq BOOLEAN
        BY <1>1, Zenon DEF Init
    <2>6. QED
        BY <2>2, <2>3, <2>4, <2>5, Zenon DEF TypeOK
<1>6. QED
    BY <1>1, <1>2, <1>4, <1>5, Zenon DEF Types, Init

\* What an option leaves alone, and what it may change.
LEMMA OptionTypes ==
    ASSUME Types, UNCHANGED Rest, pc' \in {"args", "exited"}, result' \in {result, 1},
           i' = i \/ (i <= Len(argv) /\ (i' = i + 1 \/ i' = i + 2)),
           cmd' \in {"none", "led", "power"}, listing' \in BOOLEAN, verbose' \in BOOLEAN,
           busnum' \in Int, devnum' \in Int, port' \in Int, value' \in Int, hub' \in Int
    PROVE  Types'
<1>1. UNCHANGED <<argv, devices, d, hubs, reports>>
    BY DEF Rest
<1>2. i' \in 1 .. Len(argv) + 2
    <2>1. i \in 1 .. Len(argv) + 2 /\ Len(argv) \in Nat
        BY LenProperties DEF Types, TypeOK, InputTypes
    <2>2. QED
        BY <2>1
<1>3. TypeOK'
    BY <1>1, <1>2 DEF Types, TypeOK
<1>4. QED
    BY <1>1, <1>3 DEF Types, InputTypes

LEMMA ReportTypes ==
    ASSUME Types, NEW k \in DOMAIN devices, NEW messages \in Nat, Report(k, messages)
    PROVE  reports' \in Seq([hub : DOMAIN devices, ports : Nat, after : Nat])
<1>1. PICK R : R = [hub : DOMAIN devices, ports : Nat, after : Nat]
    OBVIOUS
<1>2. devices[k].nport \in Int
    <2>1. devices[k] \in Device
        BY ElementOfSeq DEF Types, InputTypes
    <2>2. QED
        BY <2>1 DEF Device
<1>3. hub_port_status(k, messages) \subseteq R
    BY <1>1, <1>2 DEF hub_port_status
<1>4. reports \in Seq(R)
    BY <1>1 DEF Types
<1>5. CASE IsReporting
    <2>1. PICK r \in hub_port_status(k, messages) : reports' = Append(reports, r)
        BY <1>5 DEF Report
    <2>2. QED
        BY <1>1, <1>3, <1>4, <2>1, AppendProperties
<1>6. CASE ~IsReporting
    BY <1>1, <1>4, <1>6 DEF Report
<1>7. QED
    BY <1>5, <1>6

\* What TypeOK says of the reports.
LEMMA ReportsOK ==
    ASSUME NEW D, NEW r \in Seq([hub : D, ports : Nat, after : Nat])
    PROVE  \A k \in DOMAIN r : r[k].hub \in D /\ r[k].ports \in Nat
<1>1. ASSUME NEW k \in DOMAIN r PROVE r[k] \in [hub : D, ports : Nat, after : Nat]
    BY <1>1, ElementsType, Zenon
<1>2. QED
    BY <1>1

LEMMA TypesNext ==
    ASSUME Types, ChosenIsHub, SentLast, [Next]_vars
    PROVE  Types'
<1>1. /\ InputTypes /\ i \in 1 .. Len(argv) + 2 /\ Len(argv) \in Nat
      /\ cmd \in {"none", "led", "power"} /\ listing \in BOOLEAN /\ verbose \in BOOLEAN
      /\ busnum \in Int /\ devnum \in Int /\ port \in Int /\ value \in Int /\ hub \in Int
    BY DEF Types, TypeOK, InputTypes
<1>2. \A a : Atoi(a) \in Int
    BY <1>1, AtoiType DEF InputTypes
<1>3. CASE OptHub
    <2>1. /\ UNCHANGED Rest /\ pc' \in {"args", "exited"} /\ result' \in {result, 1}
          /\ i' = i \/ (i <= Len(argv) /\ (i' = i + 1 \/ i' = i + 2))
        BY <1>3, Zenon DEF OptHub, At, Usage, Exit, TakeTwo, HasMore
    <2>2. /\ cmd' \in {"none", "led", "power"} /\ listing' \in BOOLEAN /\ verbose' \in BOOLEAN
          /\ busnum' \in Int /\ devnum' \in Int /\ port' \in Int /\ value' \in Int /\ hub' \in Int
        BY <1>1, <1>2, <1>3 DEF OptHub, Usage, TakeTwo, options
    <2>3. QED
        BY <2>1, <2>2, OptionTypes
<1>4. CASE OptBus
    <2>1. /\ UNCHANGED Rest /\ pc' \in {"args", "exited"} /\ result' \in {result, 1}
          /\ i' = i \/ (i <= Len(argv) /\ (i' = i + 1 \/ i' = i + 2))
        BY <1>4, Zenon DEF OptBus, At, Usage, Exit, TakeTwo, HasMore
    <2>2. /\ cmd' \in {"none", "led", "power"} /\ listing' \in BOOLEAN /\ verbose' \in BOOLEAN
          /\ busnum' \in Int /\ devnum' \in Int /\ port' \in Int /\ value' \in Int /\ hub' \in Int
        BY <1>1, <1>2, <1>4 DEF OptBus, Usage, TakeTwo, options
    <2>3. QED
        BY <2>1, <2>2, OptionTypes
<1>5. CASE OptDev
    <2>1. /\ UNCHANGED Rest /\ pc' \in {"args", "exited"} /\ result' \in {result, 1}
          /\ i' = i \/ (i <= Len(argv) /\ (i' = i + 1 \/ i' = i + 2))
        BY <1>5, Zenon DEF OptDev, At, Usage, Exit, TakeTwo, HasMore
    <2>2. /\ cmd' \in {"none", "led", "power"} /\ listing' \in BOOLEAN /\ verbose' \in BOOLEAN
          /\ busnum' \in Int /\ devnum' \in Int /\ port' \in Int /\ value' \in Int /\ hub' \in Int
        BY <1>1, <1>2, <1>5 DEF OptDev, Usage, TakeTwo, options
    <2>3. QED
        BY <2>1, <2>2, OptionTypes
<1>6. CASE OptPort
    <2>1. /\ UNCHANGED Rest /\ pc' \in {"args", "exited"} /\ result' \in {result, 1}
          /\ i' = i \/ (i <= Len(argv) /\ (i' = i + 1 \/ i' = i + 2))
        BY <1>6, Zenon DEF OptPort, At, Usage, Exit, TakeTwo, HasMore
    <2>2. /\ cmd' \in {"none", "led", "power"} /\ listing' \in BOOLEAN /\ verbose' \in BOOLEAN
          /\ busnum' \in Int /\ devnum' \in Int /\ port' \in Int /\ value' \in Int /\ hub' \in Int
        BY <1>1, <1>2, <1>6 DEF OptPort, Usage, TakeTwo, options
    <2>3. QED
        BY <2>1, <2>2, OptionTypes
<1>7. CASE OptLed
    <2>1. /\ UNCHANGED Rest /\ pc' \in {"args", "exited"} /\ result' \in {result, 1}
          /\ i' = i \/ (i <= Len(argv) /\ (i' = i + 1 \/ i' = i + 2))
        BY <1>7, Zenon DEF OptLed, OptCommand, At, Usage, Exit, TakeTwo, HasMore
    <2>2. /\ cmd' \in {"none", "led", "power"} /\ listing' \in BOOLEAN /\ verbose' \in BOOLEAN
          /\ busnum' \in Int /\ devnum' \in Int /\ port' \in Int /\ value' \in Int /\ hub' \in Int
        BY <1>1, <1>2, <1>7 DEF OptLed, OptCommand, Usage, TakeTwo, options
    <2>3. QED
        BY <2>1, <2>2, OptionTypes
<1>8. CASE OptPower
    <2>1. /\ UNCHANGED Rest /\ pc' \in {"args", "exited"} /\ result' \in {result, 1}
          /\ i' = i \/ (i <= Len(argv) /\ (i' = i + 1 \/ i' = i + 2))
        BY <1>8, Zenon DEF OptPower, OptCommand, At, Usage, Exit, TakeTwo, HasMore
    <2>2. /\ cmd' \in {"none", "led", "power"} /\ listing' \in BOOLEAN /\ verbose' \in BOOLEAN
          /\ busnum' \in Int /\ devnum' \in Int /\ port' \in Int /\ value' \in Int /\ hub' \in Int
        BY <1>1, <1>2, <1>8 DEF OptPower, OptCommand, Usage, TakeTwo, options
    <2>3. QED
        BY <2>1, <2>2, OptionTypes
<1>9. CASE OptVerbose
    BY <1>1, <1>9, OptionTypes DEF OptVerbose, At, Rest
<1>10. CASE OptUnknown
    <2>1. /\ UNCHANGED Rest /\ pc' \in {"args", "exited"} /\ result' \in {result, 1}
          /\ i' = i \/ (i <= Len(argv) /\ (i' = i + 1 \/ i' = i + 2))
        BY <1>10, Zenon DEF OptUnknown, Usage, Exit
    <2>2. /\ cmd' \in {"none", "led", "power"} /\ listing' \in BOOLEAN /\ verbose' \in BOOLEAN
          /\ busnum' \in Int /\ devnum' \in Int /\ port' \in Int /\ value' \in Int /\ hub' \in Int
        BY <1>1, <1>2, <1>10 DEF OptUnknown, Usage, options
    <2>3. QED
        BY <2>1, <2>2, OptionTypes
<1>11. CASE EndArgs
    <2>1. UNCHANGED <<argv, devices, d, hubs, reports, i>>
        BY <1>11 DEF EndArgs, Usage, Rest
    <2>2. /\ pc' \in {"args", "scan", "select", "control", "exited"}
          /\ cmd' \in {"none", "led", "power"} /\ listing' \in BOOLEAN /\ verbose' \in BOOLEAN
          /\ busnum' \in Int /\ devnum' \in Int /\ port' \in Int /\ value' \in Int /\ hub' \in Int
          /\ result' \in {-1, 0, 1}
        BY <1>1, <1>11 DEF EndArgs, Usage, Exit, options, Types, TypeOK
    <2>3. TypeOK'
        BY <2>1, <2>2 DEF Types, TypeOK
    <2>4. QED
        BY <2>1, <2>3 DEF Types, InputTypes
<1>12. CASE ScanFails \/ EndScan
    <2>1. /\ UNCHANGED <<argv, devices, i, d, hubs, reports>> /\ UNCHANGED options
          /\ pc' \in {"exited", "select"} /\ result' \in {-1, 0, 1}
        BY <1>12 DEF ScanFails, EndScan, Exit, Types, TypeOK
    <2>2. TypeOK'
        BY <2>1 DEF Types, TypeOK, options
    <2>3. QED
        BY <2>1, <2>2 DEF Types, InputTypes
<1>13. CASE ScanSkips
    <2>1. /\ UNCHANGED <<argv, devices, pc, i, hubs, reports, result>> /\ UNCHANGED options
          /\ d' \in 1 .. Len(devices) + 1
        BY <1>1, <1>13 DEF ScanSkips, Done, Types, TypeOK, InputTypes
    <2>2. TypeOK'
        BY <2>1 DEF Types, TypeOK, options
    <2>3. QED
        BY <2>1, <2>2 DEF Types, InputTypes
<1>14. CASE ScanAdds
    <2>1. /\ UNCHANGED <<argv, devices, pc, i, result>> /\ UNCHANGED options
          /\ d \in DOMAIN devices /\ d' \in 1 .. Len(devices) + 1
          /\ hubs' = Append(hubs, d) /\ Report(d, 0)
        BY <1>1, <1>14 DEF ScanAdds, Done, Types, TypeOK, InputTypes
    <2>2. reports' \in Seq([hub : DOMAIN devices, ports : Nat, after : Nat])
        BY <2>1, ReportTypes
    <2>3. hubs' \in Seq(DOMAIN devices)
        BY <2>1, AppendProperties DEF Types
    <2>4. TypeOK'
        <3>1. /\ \A k \in DOMAIN reports' :
                    reports'[k].hub \in DOMAIN devices /\ reports'[k].ports \in Nat
              /\ \A k \in DOMAIN hubs' : hubs'[k] \in DOMAIN devices
            BY <2>2, <2>3, ReportsOK
        <3>2. QED
            BY <2>1, <3>1 DEF Types, TypeOK, options
    <2>5. QED
        BY <2>1, <2>2, <2>3, <2>4 DEF Types, InputTypes
<1>15. CASE SelectHub
    <2>1. /\ UNCHANGED <<argv, devices, i, d, busnum, devnum, cmd, port, value, listing, verbose>>
          /\ UNCHANGED <<hubs, reports>>
          /\ pc' \in {"control", "exited"} /\ result' \in {-1, 0, 1}
        BY <1>15 DEF SelectHub, Exit, Types, TypeOK
    <2>2. hub' \in Int
        <3>1. get_hub(busnum, devnum) \in Int
            <4>1. PICK A : A = {k \in DOMAIN hubs : IsAt(k, busnum, devnum)}
                OBVIOUS
            <4>2. A # {} => Min(A) \in Int
                <5>1. DOMAIN hubs = 1 .. Len(hubs) /\ Len(hubs) \in Nat
                    BY LenProperties DEF Types
                <5>2. A \subseteq Nat
                    <6>1. A \subseteq DOMAIN hubs
                        BY <4>1, Zenon
                    <6>2. QED
                        BY <5>1, <6>1
                <5>3. QED
                    BY <5>2, MinOfNats, Zenon
            <4>3. get_hub(busnum, devnum) = IF A = {} THEN -1 ELSE Min(A) - 1
                BY <4>1, Zenon DEF get_hub
            <4>4. QED
                BY <4>2, <4>3
        <3>2. QED
            BY <1>1, <1>15, <3>1 DEF SelectHub
    <2>3. TypeOK'
        BY <2>1, <2>2 DEF Types, TypeOK
    <2>4. QED
        BY <2>1, <2>3 DEF Types, InputTypes
<1>16. CASE Control
    <2>1. /\ UNCHANGED <<argv, devices, i, d, hubs>> /\ UNCHANGED options
          /\ pc' = "exited" /\ result' \in {0, 1}
          /\ Report(hubs[hub + 1], Len(sent'))
        BY <1>16 DEF Control, Exit
    <2>2. reports' \in Seq([hub : DOMAIN devices, ports : Nat, after : Nat])
        <3>1. hubs[hub + 1] \in DOMAIN devices
            BY <1>16 DEF Control, ChosenIsHub, Types
        <3>2. PICK m : m = Len(sent')
            OBVIOUS
        <3>3. m = 1
            BY <1>16, <3>2 DEF Control, SentLast
        <3>4. QED
            BY <2>1, <3>1, <3>2, <3>3, ReportTypes
    <2>3. TypeOK'
        <3>1. \A k \in DOMAIN reports' :
                    reports'[k].hub \in DOMAIN devices /\ reports'[k].ports \in Nat
            BY <2>2, ReportsOK
        <3>2. QED
            BY <2>1, <3>1 DEF Types, TypeOK, options
    <2>4. QED
        BY <2>1, <2>2, <2>3 DEF Types, InputTypes
<1>17. CASE UNCHANGED vars
    BY <1>17 DEF vars, options, Types, InputTypes, TypeOK
<1>18. QED
    BY <1>3, <1>4, <1>5, <1>6, <1>7, <1>8, <1>9, <1>10, <1>11, <1>12, <1>13, <1>14,
       <1>15, <1>16, <1>17 DEF Next

-----------------------------------------------------------------------------
(* Reading the options.                                                    *)

\* What has been read of an option that takes an argument.
Read(option, setting, default) ==
    /\ \A k \in Seen(option) : k < Len(argv)
    /\ setting = LastOf(Seen(option), default)

\* -l and -p stand only once, and only one of them.
CommandRead ==
    \/ cmd = "none" /\ value = 0 /\ Seen("-l") = {} /\ Seen("-p") = {}
    \/ /\ cmd = "led" /\ Seen("-p") = {}
       /\ \E k \in Places("-l") :
            /\ Seen("-l") = {k}
            /\ value = IF k < Len(argv) THEN Atoi(argv[k + 1]) ELSE 2
    \/ /\ cmd = "power" /\ Seen("-l") = {}
       /\ \E k \in Places("-p") :
            /\ Seen("-p") = {k}
            /\ value = IF k < Len(argv) THEN Atoi(argv[k + 1]) ELSE 0

VerboseRead == verbose <=> Seen("-v") # {}

IsListing == argv = <<>> \/ (argv = <<"-v">> /\ i > 1) => listing

HubOrBus == busnum > 0 => hub < 0

NotScanned == hubs = <<>> /\ d = 1 /\ reports = <<>>

Reading ==
    pc = "args" =>
        /\ AtOption
        /\ Read("-h", hub, -1) /\ Read("-b", busnum, 0) /\ Read("-d", devnum, 0)
        /\ Read("-P", port, 1)
        /\ CommandRead /\ VerboseRead /\ IsListing /\ HubOrBus /\ NotScanned

\* An option is read with the argument that follows.
LEMMA ReadMore ==
    ASSUME argv \in Seq(STRING), NEW a, NEW v, i \in Nat, i < Len(argv)
    PROVE  /\ \A k \in Seen(a) : k < Len(argv)
           /\ LastOf(Seen(a) \cup {i}, v) = Atoi(argv[i + 1])
<1>1. Seen(a) \subseteq Int /\ (\A k \in Seen(a) : k < i) /\ Len(argv) \in Nat
    BY SeenIsInt, PlacesType
<1>2. \A k \in Seen(a) : k < Len(argv)
    BY <1>1
<1>3. i \in Int
    OBVIOUS
<1>4. QED
    BY <1>1, <1>2, <1>3, LastOfMore, Zenon

\* The other settings stay what they are.
LEMMA ReadKept ==
    ASSUME argv' = argv
    PROVE  /\ Seen("-h")' = Seen("-h") /\ hub' = hub /\ Read("-h", hub, -1)
                => Read("-h", hub, -1)'
           /\ Seen("-b")' = Seen("-b") /\ busnum' = busnum /\ Read("-b", busnum, 0)
                => Read("-b", busnum, 0)'
           /\ Seen("-d")' = Seen("-d") /\ devnum' = devnum /\ Read("-d", devnum, 0)
                => Read("-d", devnum, 0)'
           /\ Seen("-P")' = Seen("-P") /\ port' = port /\ Read("-P", port, 1)
                => Read("-P", port, 1)'
           /\ UNCHANGED <<cmd, value>> /\ Seen("-l")' = Seen("-l") /\ Seen("-p")' = Seen("-p")
              /\ CommandRead
                => CommandRead'
           /\ Seen("-v")' = Seen("-v") /\ verbose' = verbose /\ VerboseRead => VerboseRead'
<1>1. \A a, v : Seen(a)' = Seen(a) => LastOf(Seen(a), v)' = LastOf(Seen(a), v)
    BY Zenon DEF LastOf, Atoi
<1>2. Places("-l")' = Places("-l") /\ Places("-p")' = Places("-p")
    BY SameLine
<1>3. UNCHANGED <<cmd, value>> /\ Seen("-l")' = Seen("-l") /\ Seen("-p")' = Seen("-p")
      /\ CommandRead
        => CommandRead'
    BY <1>2, Zenon DEF CommandRead, Atoi
<1>4. Seen("-h")' = Seen("-h") /\ hub' = hub /\ Read("-h", hub, -1) => Read("-h", hub, -1)'
    BY <1>1, Zenon DEF Read
<1>5. Seen("-b")' = Seen("-b") /\ busnum' = busnum /\ Read("-b", busnum, 0) => Read("-b", busnum, 0)'
    BY <1>1, Zenon DEF Read
<1>6. Seen("-d")' = Seen("-d") /\ devnum' = devnum /\ Read("-d", devnum, 0) => Read("-d", devnum, 0)'
    BY <1>1, Zenon DEF Read
<1>7. Seen("-P")' = Seen("-P") /\ port' = port /\ Read("-P", port, 1) => Read("-P", port, 1)'
    BY <1>1, Zenon DEF Read
<1>8. Seen("-v")' = Seen("-v") /\ verbose' = verbose /\ VerboseRead => VerboseRead'
    <2>1. SUFFICES ASSUME Seen("-v")' = Seen("-v"), verbose' = verbose, verbose <=> Seen("-v") # {}
                   PROVE  verbose' <=> Seen("-v")' # {}
        BY DEF VerboseRead
    <2>2. QED
        BY <2>1, Zenon
<1>9. QED
    BY <1>3, <1>4, <1>5, <1>6, <1>7, <1>8, Zenon

\* Between the options -v and the others nothing changes for a listing.
LEMMA ListingKept ==
    ASSUME argv \in Seq(STRING), i \in Nat \ {0}, i <= Len(argv), argv' = argv, argv[i] # "-v"
    PROVE  IsListing'
<1>1. argv # <<>>
    OBVIOUS
<1>2. argv # <<"-v">>
    <2>1. SUFFICES ASSUME argv = <<"-v">> PROVE FALSE
        OBVIOUS
    <2>2. Len(argv) = 1 /\ argv[1] = "-v"
        BY <2>1
    <2>3. i = 1
        BY <2>2
    <2>4. QED
        BY <2>2, <2>3
<1>3. QED
    BY <1>1, <1>2, Zenon DEF IsListing

\* What every option reads of the line.
LEMMA OptionReads ==
    ASSUME Types, Reading, pc = "args", i <= Len(argv), argv' = argv,
           i' = IF argv[i] = "-v" THEN i + 1 ELSE i + 2
    PROVE  /\ AtOption'
           /\ \A a : argv[i] # a => Seen(a)' = Seen(a)
           /\ \A a : argv[i] = a => Seen(a)' = Seen(a) \cup {i}
           /\ i \in Places(argv[i])
           /\ argv \in Seq(STRING) /\ i \in Nat \ {0} /\ i \in Nat
<1>1. argv \in Seq(STRING) /\ i \in 1 .. Len(argv) + 2
    BY DEF Types, InputTypes, TypeOK
<1>2. AtOption /\ OptionAt[i]
    BY DEF Reading, AtOption
<1>3. /\ AtOption'
      /\ \A a : Seen(a)' = IF argv[i] = a THEN Seen(a) \cup {i} ELSE Seen(a)
    BY <1>1, <1>2, OptionNext
<1>4. i \in Nat \ {0} /\ i \in Nat /\ i \in DOMAIN argv
    BY <1>1
<1>5. i \in Places(argv[i])
    BY <1>2, <1>4, Zenon DEF Places
<1>6. QED
    BY <1>1, <1>3, <1>4, <1>5, Zenon

\* What an option with an argument reads, whichever it is.
LEMMA ArgumentReads ==
    ASSUME Types, Reading, pc = "args", i < Len(argv), argv' = argv, i' = i + 2,
           argv[i] # "-v"
    PROVE  /\ AtOption' /\ IsListing'
           /\ \A a : argv[i] # a => Seen(a)' = Seen(a)
           /\ \A a, v : argv[i] = a =>
                /\ \A k \in Seen(a)' : k < Len(argv')
                /\ LastOf(Seen(a), v)' = Atoi(argv[i + 1])
<1>1. argv \in Seq(STRING) /\ Len(argv) \in Nat /\ i \in Nat \ {0} /\ i <= Len(argv)
    BY DEF Types, InputTypes, TypeOK
<1>2. /\ AtOption'
      /\ \A a : argv[i] # a => Seen(a)' = Seen(a)
      /\ \A a : argv[i] = a => Seen(a)' = Seen(a) \cup {i}
    BY <1>1, OptionReads
<1>3. IsListing'
    BY <1>1, ListingKept
<1>4. ASSUME NEW a, NEW v, argv[i] = a
      PROVE  /\ \A k \in Seen(a)' : k < Len(argv')
             /\ LastOf(Seen(a), v)' = Atoi(argv[i + 1])
    <2>1. Seen(a)' = Seen(a) \cup {i}
        BY <1>2, <1>4
    <2>2. /\ \A k \in Seen(a) : k < Len(argv)
          /\ LastOf(Seen(a) \cup {i}, v) = Atoi(argv[i + 1])
        BY <1>1, ReadMore
    <2>3. \A k \in Seen(a)' : k < Len(argv')
        BY <2>1, <2>2
    <2>4. LastOf(Seen(a), v)' = LastOf(Seen(a) \cup {i}, v)
        BY <2>1, Zenon DEF LastOf, Atoi
    <2>5. QED
        BY <2>2, <2>3, <2>4
<1>5. QED
    BY <1>2, <1>3, <1>4

\* An option with an argument that is read leaves the others as they were.
LEMMA OptHubReads ==
    ASSUME Types, Reading, OptHub
    PROVE  Reading'
<1>1. SUFFICES ASSUME pc' = "args" PROVE Reading'
    BY Zenon DEF Reading
<1>2. /\ pc = "args" /\ i < Len(argv) /\ argv[i] = "-h"
      /\ i' = i + 2 /\ hub' = Atoi(argv[i + 1])
      /\ UNCHANGED <<busnum, devnum, cmd, port, value, listing, verbose>>
      /\ UNCHANGED <<argv, devices, d, hubs, sent, reports>>
    BY <1>1, Zenon DEF OptHub, At, Usage, Exit, TakeTwo, HasMore, Rest
<1>3. /\ AtOption' /\ IsListing'
      /\ \A a : argv[i] # a => Seen(a)' = Seen(a)
      /\ \A k \in Seen("-h")' : k < Len(argv')
      /\ LastOf(Seen("-h"), -1)' = Atoi(argv[i + 1])
    BY <1>2, ArgumentReads
<1>4. /\ Read("-h", hub, -1) /\ Read("-b", busnum, 0) /\ Read("-d", devnum, 0)
      /\ Read("-P", port, 1)
      /\ CommandRead /\ VerboseRead /\ HubOrBus /\ NotScanned
    BY <1>2, Zenon DEF Reading
<1>5. Read("-h", hub, -1)'
    BY <1>2, <1>3, Zenon DEF Read
<1>6. Seen("-b")' = Seen("-b") /\ Seen("-d")' = Seen("-d") /\ Seen("-P")' = Seen("-P")
      /\ Seen("-l")' = Seen("-l") /\ Seen("-p")' = Seen("-p") /\ Seen("-v")' = Seen("-v")
    BY <1>2, <1>3
<1>7. Read("-b", busnum, 0)' /\ Read("-d", devnum, 0)' /\ Read("-P", port, 1)'
      /\ CommandRead' /\ VerboseRead'
    BY <1>2, <1>4, <1>6, ReadKept, Zenon
<1>8. HubOrBus'
    BY <1>1, <1>2 DEF OptHub, HubOrBus, Usage, Exit
<1>9. NotScanned'
    BY <1>2, <1>4, Zenon DEF NotScanned
<1>10. QED
    BY <1>3, <1>5, <1>7, <1>8, <1>9, Zenon DEF Reading

LEMMA OptBusReads ==
    ASSUME Types, Reading, OptBus
    PROVE  Reading'
<1>1. SUFFICES ASSUME pc' = "args" PROVE Reading'
    BY Zenon DEF Reading
<1>2. /\ pc = "args" /\ i < Len(argv) /\ argv[i] = "-b"
      /\ i' = i + 2 /\ busnum' = Atoi(argv[i + 1])
      /\ UNCHANGED <<devnum, cmd, port, value, listing, verbose, hub>>
      /\ UNCHANGED <<argv, devices, d, hubs, sent, reports>>
    BY <1>1, Zenon DEF OptBus, At, Usage, Exit, TakeTwo, HasMore, Rest
<1>3. /\ AtOption' /\ IsListing'
      /\ \A a : argv[i] # a => Seen(a)' = Seen(a)
      /\ \A k \in Seen("-b")' : k < Len(argv')
      /\ LastOf(Seen("-b"), 0)' = Atoi(argv[i + 1])
    BY <1>2, ArgumentReads
<1>4. /\ Read("-h", hub, -1) /\ Read("-b", busnum, 0) /\ Read("-d", devnum, 0)
      /\ Read("-P", port, 1)
      /\ CommandRead /\ VerboseRead /\ HubOrBus /\ NotScanned
    BY <1>2, Zenon DEF Reading
<1>5. Read("-b", busnum, 0)'
    BY <1>2, <1>3, Zenon DEF Read
<1>6. Seen("-h")' = Seen("-h") /\ Seen("-d")' = Seen("-d") /\ Seen("-P")' = Seen("-P")
      /\ Seen("-l")' = Seen("-l") /\ Seen("-p")' = Seen("-p") /\ Seen("-v")' = Seen("-v")
    BY <1>2, <1>3
<1>7. Read("-h", hub, -1)' /\ Read("-d", devnum, 0)' /\ Read("-P", port, 1)'
      /\ CommandRead' /\ VerboseRead'
    BY <1>2, <1>4, <1>6, ReadKept, Zenon
<1>8. HubOrBus'
    BY <1>1, <1>2 DEF OptBus, HubOrBus, Usage, Exit, Types, TypeOK
<1>9. NotScanned'
    BY <1>2, <1>4, Zenon DEF NotScanned
<1>10. QED
    BY <1>3, <1>5, <1>7, <1>8, <1>9, Zenon DEF Reading

LEMMA OptDevReads ==
    ASSUME Types, Reading, OptDev
    PROVE  Reading'
<1>1. SUFFICES ASSUME pc' = "args" PROVE Reading'
    BY Zenon DEF Reading
<1>2. /\ pc = "args" /\ i < Len(argv) /\ argv[i] = "-d"
      /\ i' = i + 2 /\ devnum' = Atoi(argv[i + 1])
      /\ UNCHANGED <<busnum, cmd, port, value, listing, verbose, hub>>
      /\ UNCHANGED <<argv, devices, d, hubs, sent, reports>>
    BY <1>1, Zenon DEF OptDev, At, Usage, Exit, TakeTwo, HasMore, Rest
<1>3. /\ AtOption' /\ IsListing'
      /\ \A a : argv[i] # a => Seen(a)' = Seen(a)
      /\ \A k \in Seen("-d")' : k < Len(argv')
      /\ LastOf(Seen("-d"), 0)' = Atoi(argv[i + 1])
    BY <1>2, ArgumentReads
<1>4. /\ Read("-h", hub, -1) /\ Read("-b", busnum, 0) /\ Read("-d", devnum, 0)
      /\ Read("-P", port, 1)
      /\ CommandRead /\ VerboseRead /\ HubOrBus /\ NotScanned
    BY <1>2, Zenon DEF Reading
<1>5. Read("-d", devnum, 0)'
    BY <1>2, <1>3, Zenon DEF Read
<1>6. Seen("-h")' = Seen("-h") /\ Seen("-b")' = Seen("-b") /\ Seen("-P")' = Seen("-P")
      /\ Seen("-l")' = Seen("-l") /\ Seen("-p")' = Seen("-p") /\ Seen("-v")' = Seen("-v")
    BY <1>2, <1>3
<1>7. Read("-h", hub, -1)' /\ Read("-b", busnum, 0)' /\ Read("-P", port, 1)'
      /\ CommandRead' /\ VerboseRead'
    BY <1>2, <1>4, <1>6, ReadKept, Zenon
<1>8. HubOrBus'
    BY <1>2, <1>4, Zenon DEF HubOrBus
<1>9. NotScanned'
    BY <1>2, <1>4, Zenon DEF NotScanned
<1>10. QED
    BY <1>3, <1>5, <1>7, <1>8, <1>9, Zenon DEF Reading

LEMMA OptPortReads ==
    ASSUME Types, Reading, OptPort
    PROVE  Reading'
<1>1. SUFFICES ASSUME pc' = "args" PROVE Reading'
    BY Zenon DEF Reading
<1>2. /\ pc = "args" /\ i < Len(argv) /\ argv[i] = "-P"
      /\ i' = i + 2 /\ port' = Atoi(argv[i + 1])
      /\ UNCHANGED <<busnum, devnum, cmd, value, listing, verbose, hub>>
      /\ UNCHANGED <<argv, devices, d, hubs, sent, reports>>
    BY <1>1, Zenon DEF OptPort, At, Usage, Exit, TakeTwo, HasMore, Rest
<1>3. /\ AtOption' /\ IsListing'
      /\ \A a : argv[i] # a => Seen(a)' = Seen(a)
      /\ \A k \in Seen("-P")' : k < Len(argv')
      /\ LastOf(Seen("-P"), 1)' = Atoi(argv[i + 1])
    BY <1>2, ArgumentReads
<1>4. /\ Read("-h", hub, -1) /\ Read("-b", busnum, 0) /\ Read("-d", devnum, 0)
      /\ Read("-P", port, 1)
      /\ CommandRead /\ VerboseRead /\ HubOrBus /\ NotScanned
    BY <1>2, Zenon DEF Reading
<1>5. Read("-P", port, 1)'
    BY <1>2, <1>3, Zenon DEF Read
<1>6. Seen("-h")' = Seen("-h") /\ Seen("-b")' = Seen("-b") /\ Seen("-d")' = Seen("-d")
      /\ Seen("-l")' = Seen("-l") /\ Seen("-p")' = Seen("-p") /\ Seen("-v")' = Seen("-v")
    BY <1>2, <1>3
<1>7. Read("-h", hub, -1)' /\ Read("-b", busnum, 0)' /\ Read("-d", devnum, 0)'
      /\ CommandRead' /\ VerboseRead'
    BY <1>2, <1>4, <1>6, ReadKept, Zenon
<1>8. HubOrBus'
    BY <1>2, <1>4, Zenon DEF HubOrBus
<1>9. NotScanned'
    BY <1>2, <1>4, Zenon DEF NotScanned
<1>10. QED
    BY <1>3, <1>5, <1>7, <1>8, <1>9, Zenon DEF Reading

LEMMA OptLedReads ==
    ASSUME Types, Reading, OptLed
    PROVE  Reading'
<1>1. SUFFICES ASSUME pc' = "args" PROVE Reading'
    BY Zenon DEF Reading
<1>2. /\ pc = "args" /\ i <= Len(argv) /\ argv[i] = "-l" /\ cmd = "none"
      /\ i' = i + 2 /\ cmd' = "led"
      /\ value' = IF i < Len(argv) THEN Atoi(argv[i + 1]) ELSE 2
      /\ UNCHANGED <<busnum, devnum, port, listing, verbose, hub>>
      /\ UNCHANGED <<argv, devices, d, hubs, sent, reports>>
    BY <1>1, Zenon DEF OptLed, OptCommand, At, Usage, Exit, TakeTwo, HasMore, Rest
<1>3. /\ AtOption' /\ argv \in Seq(STRING) /\ i \in Nat \ {0} /\ i \in Nat
      /\ \A a : argv[i] # a => Seen(a)' = Seen(a)
      /\ \A a : argv[i] = a => Seen(a)' = Seen(a) \cup {i}
      /\ i \in Places(argv[i])
    BY <1>2, OptionReads
<1>4. /\ Read("-h", hub, -1) /\ Read("-b", busnum, 0) /\ Read("-d", devnum, 0)
      /\ Read("-P", port, 1)
      /\ CommandRead /\ VerboseRead /\ IsListing /\ HubOrBus /\ NotScanned
    BY <1>2, Zenon DEF Reading
<1>5. Seen("-l")' = Seen("-l") \cup {i} /\ Seen("-p")' = Seen("-p")
    BY <1>2, <1>3
<1>6. CommandRead'
    <2>1. Seen("-l") = {} /\ Seen("-p") = {}
        BY <1>2, <1>4 DEF CommandRead
    <2>2. Seen("-l")' = {i} /\ Seen("-p")' = {}
        BY <1>5, <2>1
    <2>3. i \in Places("-l")'
        BY <1>2, <1>3, SameLine
    <2>4. value' = IF i < Len(argv') THEN Atoi(argv'[i + 1]) ELSE 2
        BY <1>2
    <2>5. QED
        BY <1>2, <2>2, <2>3, <2>4, Zenon DEF CommandRead, Atoi
<1>7. /\ Seen("-h")' = Seen("-h") /\ Seen("-b")' = Seen("-b") /\ Seen("-d")' = Seen("-d")
      /\ Seen("-P")' = Seen("-P") /\ Seen("-v")' = Seen("-v")
    BY <1>2, <1>3
<1>8. /\ Read("-h", hub, -1)' /\ Read("-b", busnum, 0)' /\ Read("-d", devnum, 0)'
      /\ Read("-P", port, 1)' /\ VerboseRead'
    BY <1>2, <1>4, <1>7, ReadKept, Zenon
<1>9. IsListing'
    BY <1>2, <1>3, ListingKept
<1>10. HubOrBus' /\ NotScanned'
    BY <1>2, <1>4, Zenon DEF HubOrBus, NotScanned
<1>11. QED
    BY <1>3, <1>6, <1>8, <1>9, <1>10, Zenon DEF Reading

LEMMA OptPowerReads ==
    ASSUME Types, Reading, OptPower
    PROVE  Reading'
<1>1. SUFFICES ASSUME pc' = "args" PROVE Reading'
    BY Zenon DEF Reading
<1>2. /\ pc = "args" /\ i <= Len(argv) /\ argv[i] = "-p" /\ cmd = "none"
      /\ i' = i + 2 /\ cmd' = "power"
      /\ value' = IF i < Len(argv) THEN Atoi(argv[i + 1]) ELSE 0
      /\ UNCHANGED <<busnum, devnum, port, listing, verbose, hub>>
      /\ UNCHANGED <<argv, devices, d, hubs, sent, reports>>
    BY <1>1, Zenon DEF OptPower, OptCommand, At, Usage, Exit, TakeTwo, HasMore, Rest
<1>3. /\ AtOption' /\ argv \in Seq(STRING) /\ i \in Nat \ {0} /\ i \in Nat
      /\ \A a : argv[i] # a => Seen(a)' = Seen(a)
      /\ \A a : argv[i] = a => Seen(a)' = Seen(a) \cup {i}
      /\ i \in Places(argv[i])
    BY <1>2, OptionReads
<1>4. /\ Read("-h", hub, -1) /\ Read("-b", busnum, 0) /\ Read("-d", devnum, 0)
      /\ Read("-P", port, 1)
      /\ CommandRead /\ VerboseRead /\ IsListing /\ HubOrBus /\ NotScanned
    BY <1>2, Zenon DEF Reading
<1>5. Seen("-p")' = Seen("-p") \cup {i} /\ Seen("-l")' = Seen("-l")
    BY <1>2, <1>3
<1>6. CommandRead'
    <2>1. Seen("-p") = {} /\ Seen("-l") = {}
        BY <1>2, <1>4 DEF CommandRead
    <2>2. Seen("-p")' = {i} /\ Seen("-l")' = {}
        BY <1>5, <2>1
    <2>3. i \in Places("-p")'
        BY <1>2, <1>3, SameLine
    <2>4. value' = IF i < Len(argv') THEN Atoi(argv'[i + 1]) ELSE 0
        BY <1>2
    <2>5. QED
        BY <1>2, <2>2, <2>3, <2>4, Zenon DEF CommandRead, Atoi
<1>7. /\ Seen("-h")' = Seen("-h") /\ Seen("-b")' = Seen("-b") /\ Seen("-d")' = Seen("-d")
      /\ Seen("-P")' = Seen("-P") /\ Seen("-v")' = Seen("-v")
    BY <1>2, <1>3
<1>8. /\ Read("-h", hub, -1)' /\ Read("-b", busnum, 0)' /\ Read("-d", devnum, 0)'
      /\ Read("-P", port, 1)' /\ VerboseRead'
    BY <1>2, <1>4, <1>7, ReadKept, Zenon
<1>9. IsListing'
    BY <1>2, <1>3, ListingKept
<1>10. HubOrBus' /\ NotScanned'
    BY <1>2, <1>4, Zenon DEF HubOrBus, NotScanned
<1>11. QED
    BY <1>3, <1>6, <1>8, <1>9, <1>10, Zenon DEF Reading

LEMMA OptVerboseReads ==
    ASSUME Types, Reading, OptVerbose
    PROVE  Reading'
<1>1. /\ pc = "args" /\ i <= Len(argv) /\ argv[i] = "-v"
      /\ i' = i + 1 /\ verbose' = TRUE /\ listing' = (listing \/ Len(argv) = 1)
      /\ UNCHANGED <<busnum, devnum, cmd, port, value, hub>>
      /\ UNCHANGED <<argv, devices, d, hubs, sent, reports>>
    BY Zenon DEF OptVerbose, At, Rest
<1>2. /\ AtOption' /\ argv \in Seq(STRING) /\ i \in Nat \ {0}
      /\ \A a : argv[i] # a => Seen(a)' = Seen(a)
      /\ \A a : argv[i] = a => Seen(a)' = Seen(a) \cup {i}
    BY <1>1, OptionReads
<1>3. /\ Read("-h", hub, -1) /\ Read("-b", busnum, 0) /\ Read("-d", devnum, 0)
      /\ Read("-P", port, 1)
      /\ CommandRead /\ HubOrBus /\ NotScanned
    BY <1>1, Zenon DEF Reading
<1>4. /\ Seen("-h")' = Seen("-h") /\ Seen("-b")' = Seen("-b") /\ Seen("-d")' = Seen("-d")
      /\ Seen("-P")' = Seen("-P") /\ Seen("-l")' = Seen("-l") /\ Seen("-p")' = Seen("-p")
    BY <1>1, <1>2
<1>5. /\ Read("-h", hub, -1)' /\ Read("-b", busnum, 0)' /\ Read("-d", devnum, 0)'
      /\ Read("-P", port, 1)' /\ CommandRead'
    BY <1>1, <1>3, <1>4, ReadKept, Zenon
<1>6. VerboseRead'
    <2>1. Seen("-v")' # {}
        BY <1>1, <1>2
    <2>2. QED
        BY <1>1, <2>1, Zenon DEF VerboseRead
<1>7. IsListing'
    <2>1. argv # <<>>
        BY <1>1, <1>2
    <2>2. argv = <<"-v">> => Len(argv) = 1
        OBVIOUS
    <2>3. QED
        BY <1>1, <2>1, <2>2, Zenon DEF IsListing
<1>8. HubOrBus' /\ NotScanned'
    BY <1>1, <1>3, Zenon DEF HubOrBus, NotScanned
<1>9. QED
    BY <1>2, <1>5, <1>6, <1>7, <1>8, Zenon DEF Reading

LEMMA ReadingInit ==
    ASSUME Init
    PROVE  Reading
<1>1. argv \in Seq(STRING) /\ i = 1
    BY HubAssumption DEF Init
<1>2. \A a : Seen(a) = {}
    <2>1. ASSUME NEW a, NEW k \in Seen(a) PROVE FALSE
        <3>1. k \in Places(a) /\ k < i
            BY <2>1 DEF Seen
        <3>2. Places(a) \subseteq 1 .. Len(argv) /\ Len(argv) \in Nat
            BY <1>1, PlacesType
        <3>3. QED
            BY <1>1, <3>1, <3>2
    <2>2. QED
        BY <2>1
<1>3. AtOption
    <2>1. PICK k : k = 1
        OBVIOUS
    <2>2. k \in Nat /\ \A m \in Nat : OptionAt[m] = FollowsOption(OptionAt, m, argv)
        BY <2>1, OptionAtIs, Zenon
    <2>3. OptionAt[k]
        BY <2>1, <2>2, Zenon DEF FollowsOption
    <2>4. ~(i > 1)
        BY <1>1
    <2>5. QED
        BY <1>1, <2>1, <2>3, <2>4, Zenon DEF AtOption
<1>4. /\ Read("-h", hub, -1) /\ Read("-b", busnum, 0) /\ Read("-d", devnum, 0)
      /\ Read("-P", port, 1)
    BY <1>2, Zenon DEF Init, Read, LastOf
<1>5. CommandRead
    BY <1>2, Zenon DEF Init, CommandRead
<1>6. VerboseRead
    BY <1>2, Zenon DEF Init, VerboseRead
<1>7. IsListing
    <2>1. ~(i > 1)
        BY <1>1
    <2>2. QED
        BY <2>1, Zenon DEF Init, IsListing
<1>8. HubOrBus /\ NotScanned
    BY DEF Init, HubOrBus, NotScanned
<1>9. QED
    BY <1>3, <1>4, <1>5, <1>6, <1>7, <1>8, Zenon DEF Reading

\* The variables of Reading, in a step that leaves them alone.
LEMMA ReadingKept ==
    ASSUME Reading, UNCHANGED vars
    PROVE  Reading'
<1>1. /\ argv' = argv /\ i' = i /\ pc' = pc /\ UNCHANGED options /\ d' = d
      /\ hubs' = hubs /\ reports' = reports
    BY Zenon DEF vars
<1>2. \A a : Seen(a)' = Seen(a)
    BY <1>1, SeenSame
<1>3. UNCHANGED <<busnum, devnum, cmd, port, value, listing, verbose, hub>>
    BY <1>1, Zenon DEF options
<1>4. SUFFICES ASSUME pc = "args" PROVE Reading'
    BY <1>1, Zenon DEF Reading
<1>5. /\ Read("-h", hub, -1) /\ Read("-b", busnum, 0) /\ Read("-d", devnum, 0)
      /\ Read("-P", port, 1)
      /\ AtOption /\ CommandRead /\ VerboseRead /\ IsListing /\ HubOrBus /\ NotScanned
    BY <1>4, Zenon DEF Reading
<1>6. /\ Read("-h", hub, -1)' /\ Read("-b", busnum, 0)' /\ Read("-d", devnum, 0)'
      /\ Read("-P", port, 1)' /\ CommandRead' /\ VerboseRead'
    BY <1>1, <1>2, <1>3, <1>5, ReadKept, Zenon
<1>7. AtOption'
    BY <1>1, <1>5, SameOptions, Zenon DEF AtOption
<1>8. IsListing' /\ HubOrBus' /\ NotScanned'
    BY <1>1, <1>3, <1>5, Zenon DEF IsListing, HubOrBus, NotScanned
<1>9. QED
    BY <1>6, <1>7, <1>8, Zenon DEF Reading

LEMMA ReadingNext ==
    ASSUME Types, Reading, [Next]_vars
    PROVE  Reading'
<1>1. CASE \/ OptHub \/ OptBus \/ OptDev \/ OptPort \/ OptLed \/ OptPower \/ OptVerbose
    BY <1>1, OptHubReads, OptBusReads, OptDevReads, OptPortReads, OptLedReads,
       OptPowerReads, OptVerboseReads, Zenon
<1>2. CASE UNCHANGED vars
    BY <1>2, ReadingKept
<1>3. CASE OptUnknown \/ EndArgs \/ ScanFails \/ EndScan \/ SelectHub \/ Control
    <2>1. pc' # "args"
        BY <1>3 DEF OptUnknown, EndArgs, ScanFails, EndScan, SelectHub, Control, Usage, Exit
    <2>2. QED
        BY <2>1, Zenon DEF Reading
<1>4. CASE ScanSkips \/ ScanAdds
    <2>1. pc' # "args"
        BY <1>4 DEF ScanSkips, ScanAdds, Done
    <2>2. QED
        BY <2>1, Zenon DEF Reading
<1>5. QED
    BY <1>1, <1>2, <1>3, <1>4, Zenon DEF Next

-----------------------------------------------------------------------------
(* What is known when all arguments have been read.                        *)

LEMMA AllSeen ==
    ASSUME Types, i > Len(argv), NEW a
    PROVE  Seen(a) = Places(a)
<1>1. argv \in Seq(STRING) /\ i \in Int
    BY DEF Types, InputTypes, TypeOK
<1>2. Places(a) \subseteq 1 .. Len(argv) /\ Len(argv) \in Nat
    BY <1>1, PlacesType
<1>3. \A k \in Places(a) : k < i
    BY <1>1, <1>2
<1>4. QED
    BY <1>3, Zenon DEF Seen

\* What was read last is the value of the option.
LEMMA ReadIsValue ==
    ASSUME NEW a, NEW v, \A k \in Places(a) : k < Len(argv)
    PROVE  ValueOf(a, v) = LastOf(Places(a), v)
BY Zenon DEF ValueOf, LastOf

\* The options as the line gives them.
Understood ==
    pc \in {"scan", "select", "control"} =>
        /\ busnum = ValueOf("-b", 0) /\ devnum = ValueOf("-d", 0) /\ port = ValueOf("-P", 1)
        /\ Cardinality(Places("-l") \cup Places("-p")) < 2
        /\ IF Places("-l") = {}
           THEN cmd = "power" /\ value = ValueOf("-p", 0)
           ELSE cmd = "led" /\ value = ValueOf("-l", 2)
        /\ verbose <=> Places("-v") # {}
        /\ argv \in {<<>>, <<"-v">>} => listing
        /\ pc # "scan" => ~listing

(***************************************************************************)
(* The devices that the scan puts into its table: the controllable hubs,   *)
(* and of those that give no descriptor the ones that buf speaks for.      *)
(***************************************************************************)
Listed ==
    {k \in DOMAIN devices :
        /\ IsHub(devices[k]) /\ IsTakenForGood(devices[k])
        /\ devices[k].portind \/ devices[k].lpsm < 2}

ListNumber(k) == Cardinality({m \in Listed : m < k})

IsPicked(k) ==
    IF ValueOf("-b", 0) > 0 THEN IsAddressed(k) ELSE ListNumber(k) = NumberAsked

HubChosen ==
    /\ pc \in {"scan", "select"} =>
        IF busnum > 0 THEN hub < 0 ELSE hub >= 0 => hub = NumberAsked
    /\ pc \in {"scan", "select"} /\ hub < 0 => busnum # 0
    /\ pc = "control" => IsPicked(hubs[hub + 1])

\* A command that stands once says what it asks for.
LEMMA OneCommand ==
    ASSUME NEW a, NEW k, k \in Int, Places(a) = {k}, NEW v
    PROVE  ValueOf(a, v) = IF k < Len(argv) THEN Atoi(argv[k + 1]) ELSE v
<1>1. Max({k}) = k
    BY MaxIs
<1>2. QED
    BY <1>1, Zenon DEF ValueOf

LEMMA CommandUnderstood ==
    ASSUME Types, CommandRead, i > Len(argv)
    PROVE  /\ Cardinality(Places("-l") \cup Places("-p")) < 2
           /\ IF Places("-l") = {}
              THEN cmd \in {"none", "power"} /\ value = ValueOf("-p", 0)
              ELSE cmd = "led" /\ value = ValueOf("-l", 2)
<1>1. argv \in Seq(STRING)
    BY DEF Types, InputTypes
<1>2. /\ Seen("-l") = Places("-l") /\ Seen("-p") = Places("-p")
      /\ Places("-l") \subseteq Int /\ Places("-p") \subseteq Int
    BY <1>1, AllSeen, PlacesType
<1>3. CASE cmd = "none" /\ value = 0 /\ Places("-l") = {} /\ Places("-p") = {}
    <2>1. ValueOf("-p", 0) = 0
        BY <1>3, Zenon DEF ValueOf
    <2>2. Places("-l") \cup Places("-p") = {}
        BY <1>3
    <2>3. Cardinality(Places("-l") \cup Places("-p")) < 2
        BY <2>2, FS_EmptySet
    <2>4. QED
        BY <1>3, <2>1, <2>3, Zenon
<1>4. ASSUME NEW k \in Places("-l"), Places("-l") = {k}, cmd = "led", Places("-p") = {},
             value = IF k < Len(argv) THEN Atoi(argv[k + 1]) ELSE 2
      PROVE  /\ Cardinality(Places("-l") \cup Places("-p")) < 2
             /\ Places("-l") # {} /\ value = ValueOf("-l", 2)
    <2>1. value = ValueOf("-l", 2)
        BY <1>2, <1>4, OneCommand
    <2>2. Places("-l") \cup Places("-p") = {k}
        BY <1>4
    <2>3. Cardinality(Places("-l") \cup Places("-p")) < 2
        <3>1. Cardinality(Places("-l") \cup Places("-p")) = 1
            BY <2>2, FS_Singleton, Zenon
        <3>2. QED
            BY <3>1
    <2>4. QED
        BY <1>4, <2>1, <2>3, Zenon
<1>5. ASSUME NEW k \in Places("-p"), Places("-p") = {k}, cmd = "power", Places("-l") = {},
             value = IF k < Len(argv) THEN Atoi(argv[k + 1]) ELSE 0
      PROVE  /\ Cardinality(Places("-l") \cup Places("-p")) < 2
             /\ value = ValueOf("-p", 0)
    <2>1. value = ValueOf("-p", 0)
        BY <1>2, <1>5, OneCommand
    <2>2. Places("-l") \cup Places("-p") = {k}
        BY <1>5
    <2>3. Cardinality(Places("-l") \cup Places("-p")) < 2
        <3>1. Cardinality(Places("-l") \cup Places("-p")) = 1
            BY <2>2, FS_Singleton, Zenon
        <3>2. QED
            BY <3>1
    <2>4. QED
        BY <1>5, <2>1, <2>3, Zenon
<1>6. QED
    BY <1>2, <1>3, <1>4, <1>5, Zenon DEF CommandRead

LEMMA EndArgsUnderstands ==
    ASSUME Types, Reading, EndArgs
    PROVE  Understood' /\ HubChosen'
<1>1. SUFFICES ASSUME pc' \in {"scan", "select", "control"} PROVE Understood' /\ HubChosen'
    BY Zenon DEF Understood, HubChosen
<1>2. /\ pc = "args" /\ i > Len(argv) /\ pc' = "scan" /\ argv' = argv /\ i' = i
      /\ hub' = IF hub < 0 /\ busnum = 0 THEN 0 ELSE hub
      /\ cmd' = IF cmd = "none" THEN "power" ELSE cmd
      /\ UNCHANGED <<busnum, devnum, port, value, listing, verbose>>
    BY <1>1 DEF EndArgs, Usage, Exit, Rest
<1>3. /\ Read("-h", hub, -1) /\ Read("-b", busnum, 0) /\ Read("-d", devnum, 0)
      /\ Read("-P", port, 1)
      /\ CommandRead /\ VerboseRead /\ IsListing /\ HubOrBus
    BY <1>2, Zenon DEF Reading
<1>4. \A a : Seen(a) = Places(a)
    BY <1>2, AllSeen
<1>5. \A a, v : ValueOf(a, v)' = ValueOf(a, v) /\ Places(a)' = Places(a)
    BY <1>2, SameLine
<1>6. busnum = ValueOf("-b", 0) /\ devnum = ValueOf("-d", 0) /\ port = ValueOf("-P", 1)
    BY <1>3, <1>4, ReadIsValue, Zenon DEF Read
<1>7. Understood'
    <2>1. /\ busnum' = ValueOf("-b", 0)' /\ devnum' = ValueOf("-d", 0)'
          /\ port' = ValueOf("-P", 1)'
        BY <1>2, <1>5, <1>6, Zenon
    <2>2. /\ Cardinality(Places("-l") \cup Places("-p")) < 2
          /\ IF Places("-l") = {}
             THEN cmd \in {"none", "power"} /\ value = ValueOf("-p", 0)
             ELSE cmd = "led" /\ value = ValueOf("-l", 2)
        BY <1>2, <1>3, CommandUnderstood, Zenon
    <2>3. Cardinality(Places("-l") \cup Places("-p"))' < 2
        <3>1. Places("-l")' = Places("-l") /\ Places("-p")' = Places("-p")
            BY <1>5
        <3>2. QED
            BY <2>2, <3>1
    <2>4. /\ Places("-l")' = {} => cmd' = "power" /\ value' = ValueOf("-p", 0)'
          /\ Places("-l")' # {} => cmd' = "led" /\ value' = ValueOf("-l", 2)'
        BY <1>2, <1>5, <2>2
    <2>5. verbose' <=> Places("-v")' # {}
        <3>1. verbose' = verbose /\ Places("-v")' = Seen("-v") /\ (verbose <=> Seen("-v") # {})
            BY <1>2, <1>3, <1>4, <1>5, Zenon DEF VerboseRead
        <3>2. QED
            BY <3>1, Zenon
    <2>6. argv \in {<<>>, <<"-v">>} => listing'
        <3>1. argv = <<"-v">> => i > 1
            BY <1>2
        <3>2. QED
            BY <1>2, <1>3, <3>1, Zenon DEF IsListing
    <2>7. QED
        BY <1>2, <2>1, <2>3, <2>4, <2>5, <2>6, Zenon DEF Understood
<1>8. HubChosen'
    <2>1. busnum \in Int /\ hub \in Int
        BY DEF Types, TypeOK
    <2>2. busnum > 0 => hub' < 0
        BY <1>2, <1>3, <2>1 DEF HubOrBus
    <2>3. hub' < 0 => busnum # 0
        BY <1>2
    <2>4. ~(busnum > 0) /\ hub' >= 0 => hub' = NumberAsked
        <3>1. PICK x : x = ValueOf("-h", 0)
            OBVIOUS
        <3>2. CASE Places("-h") = {}
            <4>1. hub = -1 /\ x = 0
                BY <1>3, <1>4, <3>1, <3>2, Zenon DEF Read, LastOf, ValueOf
            <4>2. hub' >= 0 => hub' = 0
                BY <1>2, <4>1
            <4>3. QED
                BY <3>1, <4>1, <4>2 DEF NumberAsked
        <3>3. CASE Places("-h") # {}
            <4>1. hub = x
                BY <1>3, <1>4, <3>1, <3>3, ReadIsValue, Zenon DEF Read, LastOf
            <4>2. hub' >= 0 => hub' = IF x > 0 THEN x ELSE 0
                BY <1>2, <2>1, <4>1
            <4>3. QED
                BY <3>1, <4>2, Zenon DEF NumberAsked
        <3>4. QED
            BY <3>2, <3>3
    <2>5. NumberAsked' = NumberAsked
        BY <1>5, Zenon DEF NumberAsked
    <2>6. QED
        BY <1>2, <2>2, <2>3, <2>4, <2>5, Zenon DEF HubChosen
<1>9. QED
    BY <1>7, <1>8

-----------------------------------------------------------------------------
(* The hubs of the table.                                                  *)

LEMMA SameDevices ==
    ASSUME devices' = devices
    PROVE  /\ Listed' = Listed
           /\ \A k : ListNumber(k)' = ListNumber(k)
BY DEF Listed, ListNumber

\* Where every descriptor is read, the controllable hubs make the table.
LEMMA ListedIfRead ==
    ASSUME Types, Unread = {}
    PROVE  Listed = Controllable /\ \A k : ListNumber(k) = HubNumber(k)
<1>1. ASSUME NEW k \in DOMAIN devices PROVE k \in Listed <=> k \in Controllable
    <2>1. devices[k] \in Device
        BY ElementsType DEF Types, InputTypes
    <2>2. devices[k].length \in {"whole", "short", "negative"}
        BY <2>1 DEF Device
    <2>3. k \notin Unread
        OBVIOUS
    <2>4. QED
        BY <2>2, <2>3 DEF Listed, Controllable, Unread, IsHub, IsTakenForGood
<1>2. Listed = Controllable
    BY <1>1, Zenon DEF Listed, Controllable
<1>3. QED
    BY <1>2, Zenon DEF ListNumber, HubNumber

LEMMA SameAsked ==
    ASSUME devices' = devices, argv' = argv
    PROVE  NumberAsked' = NumberAsked /\ \A k : IsPicked(k)' = IsPicked(k)
<1>1. \A a, v : ValueOf(a, v)' = ValueOf(a, v)
    BY SameLine
<1>2. QED
    BY <1>1, SameDevices, Zenon DEF IsPicked, IsAddressed, NumberAsked

LEMMA ListedType ==
    ASSUME Types, NEW m \in Nat
    PROVE  /\ Listed \subseteq 1 .. Len(devices) /\ Listed \subseteq Int
           /\ IsFiniteSet({k \in Listed : k < m})
           /\ Cardinality({k \in Listed : k < m}) \in Nat
<1>1. DOMAIN devices = 1 .. Len(devices) /\ Len(devices) \in Nat
    BY ElementsType DEF Types, InputTypes
<1>2. Listed \subseteq 1 .. Len(devices)
    BY <1>1, Zenon DEF Listed
<1>3. PICK S : S = {k \in Listed : k < m}
    OBVIOUS
<1>4. S \subseteq 1 .. Len(devices)
    BY <1>2, <1>3, Zenon
<1>5. IsFiniteSet(1 .. Len(devices))
    BY <1>1, FS_Interval
<1>6. IsFiniteSet(S) /\ Cardinality(S) \in Nat
    BY <1>4, <1>5, FS_Subset, FS_CardinalityType
<1>7. Listed \subseteq Int
    BY <1>1, <1>2
<1>8. QED
    BY <1>2, <1>3, <1>6, <1>7, Zenon

\* The hubs are the listed ones before d, in order.
Numbered ==
    /\ \A n \in DOMAIN hubs : hubs[n] \in Listed /\ ListNumber(hubs[n]) = n - 1
    /\ Len(hubs) = Cardinality({m \in Listed : m < d})

LEMMA NumberedInit ==
    ASSUME Init
    PROVE  Numbered
<1>1. Types /\ d = 1 /\ hubs = <<>>
    BY TypesInit DEF Init
<1>2. {m \in Listed : m < d} = {}
    <2>1. Listed \subseteq 1 .. Len(devices)
        BY <1>1, ListedType
    <2>2. \A m \in Listed : ~(m < d)
        BY <1>1, <2>1
    <2>3. QED
        BY <2>2, Zenon
<1>3. Len(hubs) = 0 /\ \A n \in DOMAIN hubs : FALSE
    BY <1>1
<1>4. QED
    BY <1>2, <1>3, FS_EmptySet, Zenon DEF Numbered

LEMMA NumberedKept ==
    ASSUME Numbered, devices' = devices, hubs' = hubs, d' = d
    PROVE  Numbered'
BY SameDevices, Zenon DEF Numbered

\* What comes before the device after next.
LEMMA BeforeNext ==
    ASSUME Types, NEW S, S \subseteq Int
    PROVE  /\ d \in S => {m \in S : m < d + 1} = {m \in S : m < d} \cup {d}
           /\ d \notin S => {m \in S : m < d + 1} = {m \in S : m < d}
<1>1. d \in Int
    BY DEF Types, TypeOK
<1>2. \A m \in S : m < d + 1 <=> m < d \/ m = d
    BY <1>1
<1>3. QED
    BY <1>2, Zenon

LEMMA ScanSkipsNumbers ==
    ASSUME Types, Numbered, ScanSkips
    PROVE  Numbered'
<1>1. devices' = devices /\ hubs' = hubs /\ d' = d + 1
    BY DEF ScanSkips, Done
<1>2. d \notin Listed
    <2>1. SUFFICES ASSUME d \in Listed PROVE FALSE
        OBVIOUS
    <2>2. devices[d] \in Device
        BY <2>1, ElementsType DEF Types, InputTypes, Listed
    <2>3. devices[d].lpsm \in 0 .. 3
        BY <2>2 DEF Device
    <2>4. ~(devices[d].lpsm >= 2 /\ devices[d].lpsm < 2)
        BY <2>3
    <2>5. QED
        BY <2>1, <2>4, Zenon DEF ScanSkips, Listed, IsWithoutFeature
<1>3. Listed \subseteq Int
    <2>1. d \in Nat
        BY ElementsType DEF Types, TypeOK, InputTypes
    <2>2. QED
        BY <2>1, ListedType
<1>4. {m \in Listed : m < d'} = {m \in Listed : m < d}
    BY <1>1, <1>2, <1>3, BeforeNext, Zenon
<1>5. {m \in Listed : m < d}' = {m \in Listed : m < d}
    BY <1>1, <1>4, SameDevices, Zenon
<1>6. QED
    BY <1>1, <1>5, SameDevices, Zenon DEF Numbered

LEMMA ScanAddsNumbers ==
    ASSUME Types, Numbered, ScanAdds
    PROVE  Numbered'
<1>1. devices' = devices /\ hubs' = Append(hubs, d) /\ d' = d + 1 /\ d <= Len(devices)
    BY DEF ScanAdds, Done
<1>2. d \in Nat /\ d \in DOMAIN devices
    BY <1>1, ElementsType DEF Types, TypeOK, InputTypes
<1>3. Listed \subseteq Int
    BY <1>2, ListedType
<1>4. d \in Listed
    <2>1. devices[d] \in Device
        BY <1>2, ElementsType DEF Types, InputTypes
    <2>2. devices[d].lpsm \in 0 .. 3
        BY <2>1 DEF Device
    <2>3. ~(devices[d].lpsm >= 2) => devices[d].lpsm < 2
        BY <2>2
    <2>4. QED
        BY <1>2, <2>3, Zenon DEF ScanAdds, Listed, IsWithoutFeature
<1>5. PICK S : S = {m \in Listed : m < d}
    OBVIOUS
<1>6. IsFiniteSet(S) /\ d \notin S /\ Cardinality(S) = Len(hubs) /\ ListNumber(d) = Len(hubs)
    <2>1. d \notin S
        BY <1>2, <1>5
    <2>2. IsFiniteSet(S)
        BY <1>2, <1>5, ListedType, Zenon
    <2>3. QED
        BY <1>5, <2>1, <2>2, Zenon DEF Numbered, ListNumber
<1>7. Cardinality(S \cup {d}) = Len(hubs) + 1
    BY <1>6, FS_AddElement, Zenon
<1>8. {m \in Listed : m < d}' = S \cup {d}
    <2>1. {m \in Listed : m < d + 1} = S \cup {d}
        BY <1>3, <1>4, <1>5, BeforeNext, Zenon
    <2>2. QED
        BY <1>1, <2>1, SameDevices, Zenon
<1>9. /\ Len(hubs') = Len(hubs) + 1 /\ DOMAIN hubs' = DOMAIN hubs \cup {Len(hubs) + 1}
      /\ \A n \in DOMAIN hubs : hubs'[n] = hubs[n]
      /\ hubs'[Len(hubs) + 1] = d /\ Len(hubs) \in Nat
    BY <1>1, <1>2, AppendProperties, ElementsType DEF Types
<1>10. ASSUME NEW n \in DOMAIN hubs'
       PROVE  hubs'[n] \in Listed /\ ListNumber(hubs'[n]) = n - 1
    <2>1. CASE n \in DOMAIN hubs
        BY <1>9, <2>1, Zenon DEF Numbered
    <2>2. CASE n = Len(hubs) + 1
        <3>1. hubs'[n] = d /\ n - 1 = Len(hubs)
            BY <1>9, <2>2
        <3>2. QED
            BY <1>4, <1>6, <3>1, Zenon
    <2>3. QED
        BY <1>9, <1>10, <2>1, <2>2
<1>11. \A n \in DOMAIN hubs' : hubs'[n] \in Listed' /\ ListNumber(hubs[n])' = n - 1
    <2>1. Listed' = Listed
        BY <1>1, SameDevices
    <2>2. ASSUME NEW n \in DOMAIN hubs' PROVE ListNumber(hubs[n])' = ListNumber(hubs'[n])
        BY <2>1, Zenon DEF ListNumber
    <2>3. QED
        BY <1>10, <2>1, <2>2, Zenon
<1>12. QED
    BY <1>7, <1>8, <1>9, <1>11, Zenon DEF Numbered

LEMMA NumberedNext ==
    ASSUME Types, Numbered, [Next]_vars
    PROVE  Numbered'
<1>1. CASE \/ OptHub \/ OptBus \/ OptDev \/ OptPort \/ OptLed \/ OptPower
           \/ OptVerbose \/ OptUnknown \/ EndArgs
    <2>1. UNCHANGED Rest
        BY <1>1, Zenon DEF OptHub, OptBus, OptDev, OptPort, OptLed, OptPower, OptCommand,
           OptVerbose, OptUnknown, EndArgs, Rest
    <2>2. devices' = devices /\ hubs' = hubs /\ d' = d
        BY <2>1 DEF Rest
    <2>3. QED
        BY <2>2, NumberedKept
<1>2. CASE ScanFails \/ EndScan \/ SelectHub \/ Control \/ UNCHANGED vars
    <2>1. devices' = devices /\ hubs' = hubs /\ d' = d
        BY <1>2, Zenon DEF ScanFails, EndScan, SelectHub, Control, vars
    <2>2. QED
        BY <2>1, NumberedKept
<1>3. QED
    BY <1>1, <1>2, ScanSkipsNumbers, ScanAddsNumbers, Zenon DEF Next

-----------------------------------------------------------------------------
(* The hub of the message.                                                 *)

LEMMA SelectHubChooses ==
    ASSUME Types, Understood, HubChosen, Numbered, SelectHub
    PROVE  HubChosen'
<1>1. SUFFICES ASSUME pc' \in {"scan", "select", "control"} PROVE HubChosen'
    BY Zenon DEF HubChosen
<1>2. /\ pc = "select" /\ pc' = "control" /\ hub' \in 0 .. Len(hubs) - 1
      /\ hub' = IF hub < 0 THEN get_hub(busnum, devnum) ELSE hub
      /\ UNCHANGED <<argv, devices, hubs, busnum>>
    BY <1>1 DEF SelectHub, Exit
<1>3. /\ DOMAIN hubs = 1 .. Len(hubs) /\ Len(hubs) \in Nat
      /\ \A k \in DOMAIN hubs : hubs[k] \in DOMAIN devices
      /\ \A k \in DOMAIN devices : devices[k] \in Device
    BY ElementsType DEF Types, InputTypes
<1>4. busnum \in Int /\ hub \in Int /\ ValueOf("-b", 0) = busnum /\ ValueOf("-d", 0) = devnum
    BY <1>2 DEF Types, TypeOK, Understood
<1>5. IsPicked(hubs[hub' + 1])
    <2>1. CASE hub < 0
        <3>1. PICK A : A = {k \in DOMAIN hubs : IsAt(k, busnum, devnum)}
            OBVIOUS
        <3>2. hub' = IF A = {} THEN -1 ELSE Min(A) - 1
            BY <1>2, <2>1, <3>1, Zenon DEF get_hub
        <3>3. A # {}
            BY <1>2, <3>2
        <3>4. A \subseteq Nat
            <4>1. A \subseteq DOMAIN hubs
                BY <3>1, Zenon
            <4>2. QED
                BY <1>3, <4>1
        <3>5. Min(A) \in A /\ Min(A) \in Int
            BY <3>3, <3>4, MinOfNats, Zenon
        <3>6. hub' + 1 = Min(A)
            <4>1. PICK m : m = Min(A)
                OBVIOUS
            <4>2. QED
                BY <3>2, <3>3, <3>5, <4>1
        <3>7. PICK k : k = hub' + 1
            OBVIOUS
        <3>8. k \in DOMAIN hubs /\ devices[hubs[k]].bus = busnum /\ devices[hubs[k]].dev = devnum
            BY <3>1, <3>5, <3>6, <3>7, Zenon DEF IsAt
        <3>9. devices[hubs[k]].bus \in Nat
            <4>1. devices[hubs[k]] \in Device
                BY <1>3, <3>8, Zenon
            <4>2. QED
                BY <4>1 DEF Device
        <3>10. busnum > 0
            BY <1>2, <1>4, <2>1, <3>8, <3>9 DEF HubChosen
        <3>11. QED
            BY <1>4, <3>7, <3>8, <3>10, Zenon DEF IsPicked, IsAddressed
    <2>2. CASE hub >= 0
        <3>1. ~(busnum > 0) /\ hub = NumberAsked /\ hub' = hub
            BY <1>2, <1>4, <2>2 DEF HubChosen
        <3>2. PICK k : k = hub' + 1
            OBVIOUS
        <3>3. k \in DOMAIN hubs /\ k - 1 = hub
            BY <1>2, <1>3, <1>4, <3>1, <3>2
        <3>4. ListNumber(hubs[k]) = hub
            BY <3>3, Zenon DEF Numbered
        <3>5. QED
            BY <1>4, <3>1, <3>2, <3>4, Zenon DEF IsPicked, NumberAsked
    <2>3. QED
        BY <1>4, <2>1, <2>2
<1>6. IsPicked(hubs[hub + 1])'
    <2>1. \A k : IsPicked(k)' = IsPicked(k)
        BY <1>2, SameAsked
    <2>2. PICK k : k = hubs[hub' + 1]
        OBVIOUS
    <2>3. IsPicked(hubs[hub + 1])' = IsPicked(k)'
        BY <1>2, <2>2, Zenon DEF IsPicked, IsAddressed, ListNumber
    <2>4. QED
        BY <1>5, <2>1, <2>2, <2>3, Zenon
<1>7. QED
    BY <1>2, <1>6 DEF HubChosen

\* What was understood stays so while the options and the line are the same.
LEMMA UnderstoodKept ==
    ASSUME Understood, argv' = argv, UNCHANGED <<busnum, devnum, cmd, port, value, listing, verbose>>,
           pc \in {"scan", "select", "control"},
           pc' \notin {"scan", "exited"} => pc = pc' \/ ~listing
    PROVE  Understood'
<1>1. \A a, v : ValueOf(a, v)' = ValueOf(a, v) /\ Places(a)' = Places(a)
    BY SameLine
<1>2. /\ busnum = ValueOf("-b", 0) /\ devnum = ValueOf("-d", 0) /\ port = ValueOf("-P", 1)
      /\ Cardinality(Places("-l") \cup Places("-p")) < 2
      /\ IF Places("-l") = {}
         THEN cmd = "power" /\ value = ValueOf("-p", 0)
         ELSE cmd = "led" /\ value = ValueOf("-l", 2)
      /\ verbose <=> Places("-v") # {}
      /\ argv \in {<<>>, <<"-v">>} => listing
      /\ pc # "scan" => ~listing
    BY Zenon DEF Understood
<1>3. /\ busnum' = ValueOf("-b", 0)' /\ devnum' = ValueOf("-d", 0)' /\ port' = ValueOf("-P", 1)'
      /\ IF Places("-l")' = {}
         THEN cmd' = "power" /\ value' = ValueOf("-p", 0)'
         ELSE cmd' = "led" /\ value' = ValueOf("-l", 2)'
    BY <1>1, <1>2, Zenon
<1>4. Cardinality(Places("-l") \cup Places("-p"))' < 2
    <2>1. Places("-l")' = Places("-l") /\ Places("-p")' = Places("-p")
        BY <1>1
    <2>2. QED
        BY <1>2, <2>1
<1>5. verbose' <=> Places("-v")' # {}
    <2>1. verbose' = verbose /\ Places("-v")' = Places("-v") /\ (verbose <=> Places("-v") # {})
        BY <1>1, <1>2, Zenon
    <2>2. QED
        BY <2>1, Zenon
<1>6. pc' \in {"scan", "select", "control"} /\ pc' # "scan" => ~listing'
    BY <1>2
<1>7. argv' \in {<<>>, <<"-v">>} => listing'
    BY <1>2, Zenon
<1>8. QED
    BY <1>3, <1>4, <1>5, <1>6, <1>7, Zenon DEF Understood

LEMMA UnderstoodNext ==
    ASSUME Types, Reading, Understood, [Next]_vars
    PROVE  Understood'
<1>1. SUFFICES ASSUME pc' \in {"scan", "select", "control"} PROVE Understood'
    BY Zenon DEF Understood
<1>2. CASE EndArgs
    BY <1>2, EndArgsUnderstands
<1>3. CASE ScanSkips \/ ScanAdds \/ EndScan \/ SelectHub
    <2>1. /\ argv' = argv /\ UNCHANGED <<busnum, devnum, cmd, port, value, listing, verbose>>
          /\ pc \in {"scan", "select", "control"}
          /\ pc' \notin {"scan", "exited"} => pc = pc' \/ ~listing
        <3>1. CASE ScanSkips \/ ScanAdds
            BY <3>1 DEF ScanSkips, ScanAdds, Done, options
        <3>2. CASE EndScan
            BY <1>1, <3>2 DEF EndScan, Exit, options
        <3>3. CASE SelectHub
            BY <1>1, <3>3 DEF SelectHub, Exit, Understood
        <3>4. QED
            BY <1>3, <3>1, <3>2, <3>3
    <2>2. QED
        BY <2>1, UnderstoodKept
<1>4. CASE UNCHANGED vars
    <2>1. pc' = pc /\ argv' = argv /\ UNCHANGED options
        BY <1>4, Zenon DEF vars
    <2>2. UNCHANGED <<busnum, devnum, cmd, port, value, listing, verbose>>
        BY <2>1, Zenon DEF options
    <2>3. QED
        BY <1>1, <2>1, <2>2, UnderstoodKept
<1>5. CASE \/ OptHub \/ OptBus \/ OptDev \/ OptPort \/ OptLed \/ OptPower
           \/ OptVerbose \/ OptUnknown
    BY <1>1, <1>5 DEF OptHub, OptBus, OptDev, OptPort, OptLed, OptPower, OptCommand,
       OptVerbose, OptUnknown, At, Usage, Exit, TakeTwo
<1>6. CASE ScanFails \/ Control
    BY <1>1, <1>6 DEF ScanFails, Control, Exit
<1>7. QED
    BY <1>2, <1>3, <1>4, <1>5, <1>6, Zenon DEF Next

\* The choice stays while the options, the line and the devices are the same.
LEMMA HubChosenKept ==
    ASSUME HubChosen, argv' = argv, devices' = devices, busnum' = busnum, hub' = hub,
           pc' \in {"scan", "select"} => pc \in {"scan", "select"},
           pc' = "control" => pc = "control" /\ hubs' = hubs
    PROVE  HubChosen'
<1>1. NumberAsked' = NumberAsked /\ \A k : IsPicked(k)' = IsPicked(k)
    BY SameAsked
<1>2. pc' = "control" => IsPicked(hubs[hub + 1])'
    <2>1. PICK k : k = hubs[hub + 1]
        OBVIOUS
    <2>2. pc' = "control" => IsPicked(hubs[hub + 1])' = IsPicked(k)'
        BY <2>1, Zenon DEF IsPicked, IsAddressed, ListNumber
    <2>3. pc' = "control" => IsPicked(k)
        BY <2>1, Zenon DEF HubChosen
    <2>4. QED
        BY <1>1, <2>2, <2>3, Zenon
<1>3. QED
    BY <1>1, <1>2, Zenon DEF HubChosen

LEMMA HubChosenNext ==
    ASSUME Types, Reading, Understood, HubChosen, Numbered, [Next]_vars
    PROVE  HubChosen'
<1>1. SUFFICES ASSUME pc' \in {"scan", "select", "control"} PROVE HubChosen'
    BY Zenon DEF HubChosen
<1>2. CASE EndArgs
    BY <1>2, EndArgsUnderstands
<1>3. CASE SelectHub
    BY <1>3, SelectHubChooses
<1>4. CASE ScanSkips \/ ScanAdds
    <2>1. /\ argv' = argv /\ devices' = devices /\ busnum' = busnum /\ hub' = hub
          /\ pc = "scan" /\ pc' = "scan"
        BY <1>4 DEF ScanSkips, ScanAdds, Done, options
    <2>2. QED
        BY <2>1, HubChosenKept
<1>5. CASE EndScan
    <2>1. /\ argv' = argv /\ devices' = devices /\ busnum' = busnum /\ hub' = hub
          /\ pc = "scan" /\ pc' = "select"
        BY <1>1, <1>5 DEF EndScan, Exit, options
    <2>2. QED
        BY <2>1, HubChosenKept
<1>6. CASE UNCHANGED vars
    <2>1. pc' = pc /\ argv' = argv /\ devices' = devices /\ UNCHANGED options /\ hubs' = hubs
        BY <1>6, Zenon DEF vars
    <2>2. busnum' = busnum /\ hub' = hub
        BY <2>1, Zenon DEF options
    <2>3. QED
        BY <2>1, <2>2, HubChosenKept
<1>7. CASE \/ OptHub \/ OptBus \/ OptDev \/ OptPort \/ OptLed \/ OptPower
           \/ OptVerbose \/ OptUnknown
    BY <1>1, <1>7 DEF OptHub, OptBus, OptDev, OptPort, OptLed, OptPower, OptCommand,
       OptVerbose, OptUnknown, At, Usage, Exit, TakeTwo
<1>8. CASE ScanFails \/ Control
    BY <1>1, <1>8 DEF ScanFails, Control, Exit
<1>9. QED
    BY <1>2, <1>3, <1>4, <1>5, <1>6, <1>7, <1>8, Zenon DEF Next

\* The hub of the message is one of the table.
LEMMA ChosenIsHubNext ==
    ASSUME ChosenIsHub, [Next]_vars
    PROVE  ChosenIsHub'
<1>1. SUFFICES ASSUME pc' = "control" PROVE hub' \in 0 .. Len(hubs') - 1
    BY DEF ChosenIsHub
<1>2. CASE SelectHub
    BY <1>1, <1>2, Zenon DEF SelectHub, Exit
<1>3. CASE UNCHANGED vars
    BY <1>1, <1>3, Zenon DEF vars, options, ChosenIsHub
<1>4. CASE \/ OptHub \/ OptBus \/ OptDev \/ OptPort \/ OptLed \/ OptPower
           \/ OptVerbose \/ OptUnknown \/ EndArgs
    BY <1>1, <1>4 DEF OptHub, OptBus, OptDev, OptPort, OptLed, OptPower, OptCommand,
       OptVerbose, OptUnknown, EndArgs, At, Usage, Exit, TakeTwo
<1>5. CASE ScanFails \/ ScanSkips \/ ScanAdds \/ EndScan \/ Control
    BY <1>1, <1>5 DEF ScanFails, ScanSkips, ScanAdds, EndScan, Control, Done, Exit
<1>6. QED
    BY <1>2, <1>3, <1>4, <1>5, Zenon DEF Next

-----------------------------------------------------------------------------
(* The message and the reports.                                            *)

\* What the line says of the message.
LEMMA SameCommand ==
    ASSUME argv' = argv
    PROVE  /\ (IsLed' <=> IsLed) /\ PortAsked' = PortAsked /\ ColourAsked' = ColourAsked
           /\ ValueOf("-p", 0)' = ValueOf("-p", 0)
           /\ Cardinality(Places("-l") \cup Places("-p"))' = Cardinality(Places("-l") \cup Places("-p"))
<1>1. \A a, v : ValueOf(a, v)' = ValueOf(a, v) /\ Places(a)' = Places(a)
    BY SameLine
<1>2. (IsLed' <=> IsLed) /\ PortAsked' = PortAsked
    BY <1>1, Zenon DEF IsLed, PortAsked
<1>3. ColourAsked' = ColourAsked
    <2>1. CASE IsLed
        BY <1>1, <1>2, <2>1, Zenon DEF ColourAsked
    <2>2. CASE ~IsLed
        BY <1>1, <1>2, <2>2, Zenon DEF ColourAsked
    <2>3. QED
        BY <2>1, <2>2, Zenon
<1>4. ValueOf("-p", 0)' = ValueOf("-p", 0)
    BY <1>1, Zenon
<1>5. Places("-l")' = Places("-l") /\ Places("-p")' = Places("-p")
    BY <1>1, Zenon
<1>6. Cardinality(Places("-l") \cup Places("-p"))' = Cardinality(Places("-l") \cup Places("-p"))
    BY <1>5, Zenon
<1>7. QED
    BY <1>2, <1>3, <1>4, <1>6

\* A number that fits in a byte, and the same number a byte further up.
LEMMA LowBits ==
    ASSUME NEW p \in 0 .. 255
    PROVE  Bits(p) \subseteq LowByte
<1>1. \A w \in HighByte : p \div w = 0
    BY DEF HighByte
<1>2. \A w \in HighByte : (p \div w) % 2 # 1
    BY <1>1
<1>3. QED
    BY <1>2, Zenon DEF Bits

LEMMA PlainBytes ==
    ASSUME NEW p \in 0 .. 255
    PROVE  /\ Bits(p) \cap LowByte = Bits(p)
           /\ {w \in LowByte : w * 256 \in Bits(p)} = Bits(0)
<1>1. Bits(p) \subseteq LowByte
    BY LowBits
<1>2. \A w \in LowByte : w * 256 \notin LowByte
    BY DEF LowByte
<1>3. Bits(0) = {}
    <2>1. \A w \in LowByte \cup HighByte : (0 \div w) % 2 # 1
        BY DEF LowByte, HighByte
    <2>2. QED
        BY <2>1, Zenon DEF Bits
<1>4. QED
    BY <1>1, <1>2, <1>3, Zenon

LEMMA ShiftedBits ==
    ASSUME NEW v \in 0 .. 255
    PROVE  /\ Bits(v * 256) \cap LowByte = {}
           /\ \A w \in LowByte : w * 256 \in Bits(v * 256) <=> w \in Bits(v)
<1>1. \A w \in LowByte : ((v * 256) \div w) % 2 = 0
    BY DEF LowByte
<1>2. \A w \in LowByte : (v * 256) \div (w * 256) = v \div w
    BY DEF LowByte
<1>3. \A w \in LowByte : w * 256 \in HighByte
    BY DEF LowByte, HighByte
<1>4. Bits(v * 256) \cap LowByte = {}
    <2>1. \A w \in LowByte : ((v * 256) \div w) % 2 # 1
        BY <1>1
    <2>2. QED
        BY <2>1, Zenon DEF Bits
<1>5. ASSUME NEW w \in LowByte
      PROVE  w * 256 \in Bits(v * 256) <=> w \in Bits(v)
    <2>1. w * 256 \in LowByte \cup HighByte /\ w \in LowByte \cup HighByte
        BY <1>3, Zenon
    <2>2. w * 256 \in Bits(v * 256) <=> ((v * 256) \div (w * 256)) % 2 = 1
        BY <2>1, Zenon DEF Bits
    <2>3. w \in Bits(v) <=> (v \div w) % 2 = 1
        BY <2>1, Zenon DEF Bits
    <2>4. (v * 256) \div (w * 256) = v \div w
        BY <1>2
    <2>5. QED
        BY <2>2, <2>3, <2>4, Zenon
<1>6. QED
    BY <1>4, <1>5

\* The two bytes of an index do not meet.
LEMMA IndexBytes ==
    ASSUME NEW p \in 0 .. 255, NEW v \in 0 .. 255
    PROVE  /\ Index(v, p) \cap LowByte = Bits(p)
           /\ {w \in LowByte : w * 256 \in Index(v, p)} = Bits(v)
<1>2. Bits(p) \subseteq LowByte /\ Bits(v) \subseteq LowByte
    BY LowBits
<1>3. \A w \in LowByte : w * 256 \notin LowByte
    BY DEF LowByte
<1>4. /\ Bits(v * 256) \cap LowByte = {}
      /\ \A w \in LowByte : w * 256 \in Bits(v * 256) <=> w \in Bits(v)
    BY ShiftedBits
<1>5. \A w : w \in Index(v, p) \cap LowByte <=> w \in Bits(p)
    BY <1>2, <1>4, Zenon DEF Index
<1>6. ASSUME NEW w \in LowByte
      PROVE  w * 256 \in Index(v, p) <=> w \in Bits(v)
    <2>1. w * 256 \notin Bits(p)
        BY <1>2, <1>3, Zenon
    <2>2. w * 256 \in Index(v, p) <=> w * 256 \in Bits(v * 256)
        BY <2>1, Zenon DEF Index
    <2>3. QED
        BY <1>4, <2>2, Zenon
<1>7. QED
    BY <1>2, <1>5, <1>6, Zenon

LEMMA AsksInControl ==
    ASSUME Types, Understood, HubChosen, ChosenIsHub, Numbered, SentLast, Control
    PROVE  AsksTheRightHub' /\ SaysWhatWasAsked'
<1>1. /\ pc = "control" /\ sent = <<>> /\ sent' = <<Message>>
      /\ UNCHANGED <<argv, devices, hubs>>
    BY DEF Control, SentLast
<1>2. PICK M : M = Message
    OBVIOUS
<1>3. DOMAIN sent' = {1} /\ sent'[1] = M
    BY <1>1, <1>2
<1>4. PICK k : k = hubs[hub + 1]
    OBVIOUS
<1>5. k \in Listed /\ IsPicked(k)
    <2>1. hub + 1 \in DOMAIN hubs
        BY <1>1, ElementsType DEF Types, TypeOK, ChosenIsHub
    <2>2. QED
        BY <1>1, <1>4, <2>1, Zenon DEF Numbered, HubChosen
<1>6. M.to = k
    BY <1>2, <1>4 DEF Message
<1>7. /\ port = ValueOf("-P", 1)
      /\ Cardinality(Places("-l") \cup Places("-p")) < 2
      /\ IF Places("-l") = {}
         THEN cmd = "power" /\ value = ValueOf("-p", 0)
         ELSE cmd = "led" /\ value = ValueOf("-l", 2)
      /\ argv \notin {<<>>, <<"-v">>}
    BY <1>1, Zenon DEF Understood
<1>8. \A a, v : ValueOf(a, v)' = ValueOf(a, v) /\ Places(a)' = Places(a)
    BY <1>1, SameLine
<1>9. /\ ValueOf("-b", 0) > 0 => IsAddressed(k)
      /\ Unread = {} => k \in Controllable
      /\ ~(ValueOf("-b", 0) > 0) /\ Unread = {} => HubNumber(k) = NumberAsked
    BY <1>5, ListedIfRead, Zenon DEF IsPicked
<1>10. AsksTheRightHub'
    <2>1. /\ Controllable' = Controllable /\ Unread' = Unread /\ NumberAsked' = NumberAsked
          /\ argv' = argv /\ devices' = devices
        BY <1>1, <1>8, Zenon DEF Controllable, Unread, NumberAsked
    <2>2. ASSUME NEW n \in DOMAIN sent'
          PROVE  /\ sent'[n].to = k
                 /\ IsAddressed(sent[n].to)' <=> IsAddressed(k)
                 /\ HubNumber(sent[n].to)' = HubNumber(k)
        <3>1. sent'[n].to = k
            BY <1>3, <1>6
        <3>2. QED
            BY <1>8, <2>1, <3>1, Zenon DEF IsAddressed, HubNumber
    <2>3. QED
        BY <1>7, <1>8, <1>9, <2>1, <2>2, Zenon DEF AsksTheRightHub
<1>11. SaysWhatWasAsked'
    <2>1. \A n \in DOMAIN sent' : sent'[n] = M
        BY <1>3
    <2>2. /\ (IsLed' <=> IsLed) /\ PortAsked' = PortAsked /\ ColourAsked' = ColourAsked
          /\ ValueOf("-p", 0)' = ValueOf("-p", 0)
          /\ Cardinality(Places("-l") \cup Places("-p"))' = Cardinality(Places("-l") \cup Places("-p"))
        BY <1>1, SameCommand
    <2>3. /\ M.feature = IF IsLed THEN "indicator" ELSE "power"
          /\ M.set = (IsLed \/ ValueOf("-p", 0) # 0)
          /\ PortAsked \in 0 .. 255 /\ ColourAsked \in 0 .. 255 =>
              /\ M.index \cap LowByte = Bits(PortAsked)
              /\ {w \in LowByte : w * 256 \in M.index} = Bits(ColourAsked)
        <3>1. PICK p, v, s : /\ p = ValueOf("-P", 1) /\ v = ValueOf("-l", 2)
                             /\ s = ValueOf("-p", 0)
            OBVIOUS
        <3>2. CASE IsLed
            <4>1. cmd # "power" /\ port = p /\ value = v
                BY <1>7, <3>1, <3>2 DEF IsLed
            <4>2. M.feature = "indicator" /\ M.set = TRUE /\ M.index = Index(v, p)
                BY <1>2, <4>1 DEF Message
            <4>3. PortAsked = p /\ ColourAsked = v
                BY <3>1, <3>2, Zenon DEF PortAsked, ColourAsked
            <4>4. ASSUME p \in 0 .. 255, v \in 0 .. 255
                  PROVE  /\ Index(v, p) \cap LowByte = Bits(p)
                         /\ {w \in LowByte : w * 256 \in Index(v, p)} = Bits(v)
                BY <4>4, IndexBytes
            <4>5. PortAsked \in 0 .. 255 /\ ColourAsked \in 0 .. 255 =>
                      /\ M.index \cap LowByte = Bits(PortAsked)
                      /\ {w \in LowByte : w * 256 \in M.index} = Bits(ColourAsked)
                <5>1. SUFFICES ASSUME PortAsked \in 0 .. 255, ColourAsked \in 0 .. 255
                               PROVE  /\ M.index \cap LowByte = Bits(PortAsked)
                                      /\ {w \in LowByte : w * 256 \in M.index}
                                             = Bits(ColourAsked)
                    OBVIOUS
                <5>2. p \in 0 .. 255 /\ v \in 0 .. 255
                    BY <4>3, <5>1, Zenon
                <5>3. /\ Index(v, p) \cap LowByte = Bits(p)
                      /\ {w \in LowByte : w * 256 \in Index(v, p)} = Bits(v)
                    BY <4>4, <5>2, Zenon
                <5>4. M.index \cap LowByte = Bits(PortAsked)
                    BY <4>2, <4>3, <5>3, Zenon
                <5>5. {w \in LowByte : w * 256 \in M.index} = Bits(ColourAsked)
                    BY <4>2, <4>3, <5>3, Zenon
                <5>6. QED
                    BY <5>4, <5>5
            <4>6. QED
                BY <3>1, <3>2, <4>2, <4>5, Zenon
        <3>3. CASE ~IsLed
            <4>1. cmd = "power" /\ port = p /\ value = s
                BY <1>7, <3>1, <3>3 DEF IsLed
            <4>2. M.feature = "power" /\ M.set = (s # 0) /\ M.index = Bits(p)
                BY <1>2, <4>1 DEF Message
            <4>3. PortAsked = p /\ ColourAsked = 0
                BY <3>1, <3>3, Zenon DEF PortAsked, ColourAsked
            <4>4. ASSUME p \in 0 .. 255
                  PROVE  /\ Bits(p) \cap LowByte = Bits(p)
                         /\ {w \in LowByte : w * 256 \in Bits(p)} = Bits(0)
                BY <4>4, PlainBytes
            <4>5. PortAsked \in 0 .. 255 /\ ColourAsked \in 0 .. 255 =>
                      /\ M.index \cap LowByte = Bits(PortAsked)
                      /\ {w \in LowByte : w * 256 \in M.index} = Bits(ColourAsked)
                <5>1. SUFFICES ASSUME PortAsked \in 0 .. 255, ColourAsked \in 0 .. 255
                               PROVE  /\ M.index \cap LowByte = Bits(PortAsked)
                                      /\ {w \in LowByte : w * 256 \in M.index}
                                             = Bits(ColourAsked)
                    OBVIOUS
                <5>2. p \in 0 .. 255
                    BY <4>3, <5>1, Zenon
                <5>3. /\ Bits(p) \cap LowByte = Bits(p)
                      /\ {w \in LowByte : w * 256 \in Bits(p)} = Bits(0)
                    BY <4>4, <5>2, Zenon
                <5>4. M.index \cap LowByte = Bits(PortAsked)
                    BY <4>2, <4>3, <5>3, Zenon
                <5>5. {w \in LowByte : w * 256 \in M.index} = Bits(ColourAsked)
                    BY <4>2, <4>3, <5>3, Zenon
                <5>6. QED
                    BY <5>4, <5>5
            <4>6. QED
                BY <3>1, <3>3, <4>2, <4>5, Zenon
        <3>4. QED
            BY <3>2, <3>3, Zenon
    <2>4. QED
        BY <1>7, <2>1, <2>2, <2>3, Zenon DEF SaysWhatWasAsked
<1>12. QED
    BY <1>10, <1>11

\* The reports p of the hubs h and of the messages s, entry by entry.
ReportsOf(p, h, s) ==
    /\ Len(p) = Len(h) + Len(s)
    /\ \A n \in DOMAIN p :
        /\ p[n].hub = IF n > Len(h) THEN s[n - Len(h)].to ELSE h[n]
        /\ p[n].after = IF n > Len(h) THEN 1 ELSE 0

\* The same as ReportsEachHub says it.
ReportsAll(p, h, s) ==
    LET reported == h \o [m \in DOMAIN s |-> s[m].to]
    IN  /\ Len(p) = Len(reported)
        /\ \A n \in DOMAIN p :
            /\ p[n].hub = reported[n]
            /\ p[n].after = IF n > Len(h) THEN 1 ELSE 0

LEMMA ReportedIs ==
    ASSUME NEW D, NEW h \in Seq(D), NEW M, NEW s \in Seq(M), NEW R, NEW p \in Seq(R)
    PROVE  ReportsOf(p, h, s) <=> ReportsAll(p, h, s)
<1>1. PICK t : t = [m \in DOMAIN s |-> s[m].to]
    OBVIOUS
<1>2. PICK T : T = {s[m].to : m \in DOMAIN s}
    OBVIOUS
<1>3. DOMAIN s = 1 .. Len(s) /\ Len(s) \in Nat /\ DOMAIN h = 1 .. Len(h) /\ Len(h) \in Nat
      /\ DOMAIN p = 1 .. Len(p) /\ Len(p) \in Nat
    BY ElementsType
<1>4. DOMAIN t = 1 .. Len(s) /\ \A m \in 1 .. Len(s) : t[m] = s[m].to /\ t[m] \in T
    BY <1>1, <1>2, <1>3, Zenon
<1>5. t = [m \in 1 .. Len(s) |-> t[m]]
    BY <1>1, <1>3, <1>4, Zenon
<1>6. t \in Seq(T) /\ Len(t) = Len(s)
    <2>1. t \in [1 .. Len(s) -> T]
        BY <1>4, <1>5
    <2>2. QED
        BY <1>3, <1>4, <2>1
<1>7. PICK U : U = D \cup T
    OBVIOUS
<1>8. h \in Seq(U) /\ t \in Seq(U)
    <2>1. D \subseteq U /\ T \subseteq U
        BY <1>7
    <2>2. h \in Seq(U)
        BY <2>1
    <2>3. t \in Seq(U)
        BY <1>6, <2>1
    <2>4. QED
        BY <2>2, <2>3
<1>9. Len(h \o t) = Len(h) + Len(s)
    <2>1. Len(h \o t) = Len(h) + Len(t)
        BY <1>8, ConcatProperties
    <2>2. QED
        BY <1>6, <2>1
<1>10. ASSUME NEW n \in 1 .. Len(h) + Len(s)
       PROVE  (h \o t)[n] = IF n > Len(h) THEN s[n - Len(h)].to ELSE h[n]
    <2>1. CASE n > Len(h)
        <3>1. PICK k : k = n - Len(h)
            OBVIOUS
        <3>2. k \in 1 .. Len(s)
            BY <1>3, <1>10, <2>1, <3>1
        <3>3. (h \o t)[n] = t[k]
            BY <1>3, <1>6, <1>8, <1>10, <2>1, <3>1, ConcatProperties
        <3>4. QED
            BY <1>4, <2>1, <3>1, <3>2, <3>3, Zenon
    <2>2. CASE ~(n > Len(h))
        BY <1>3, <1>6, <1>8, <1>10, <2>2, ConcatProperties
    <2>3. QED
        BY <2>1, <2>2
<1>11. PICK c : c = h \o t
    OBVIOUS
<1>12. Len(c) = Len(h) + Len(s)
       /\ \A n \in 1 .. Len(h) + Len(s) : c[n] = IF n > Len(h) THEN s[n - Len(h)].to ELSE h[n]
    BY <1>9, <1>10, <1>11, Zenon
<1>13. ReportsOf(p, h, s)
         <=> /\ Len(p) = Len(c)
             /\ \A n \in DOMAIN p : p[n].hub = c[n] /\ p[n].after = IF n > Len(h) THEN 1 ELSE 0
    BY <1>3, <1>12, Zenon DEF ReportsOf
<1>14. QED
    BY <1>1, <1>11, <1>13, Zenon DEF ReportsAll

\* One more hub, with its report.
LEMMA ReportsHub ==
    ASSUME NEW D, NEW h \in Seq(D), NEW x \in D, NEW R, NEW p \in Seq(R), NEW r \in R,
           ReportsOf(p, h, <<>>), r.hub = x, r.after = 0
    PROVE  ReportsOf(Append(p, r), Append(h, x), <<>>)
<1>1. PICK q, g : q = Append(p, r) /\ g = Append(h, x)
    OBVIOUS
<1>2. /\ Len(p) = Len(h) /\ Len(h) \in Nat /\ DOMAIN p = 1 .. Len(h)
      /\ \A n \in 1 .. Len(h) : p[n].hub = h[n] /\ p[n].after = 0
    BY ElementsType DEF ReportsOf
<1>3. /\ Len(q) = Len(h) + 1 /\ DOMAIN q = 1 .. Len(h) + 1 /\ q[Len(h) + 1] = r
      /\ \A n \in 1 .. Len(h) : q[n] = p[n]
    BY <1>1, <1>2, AppendProperties
<1>4. Len(g) = Len(h) + 1 /\ g[Len(h) + 1] = x /\ \A n \in 1 .. Len(h) : g[n] = h[n]
    BY <1>1, <1>2, AppendProperties
<1>5. ASSUME NEW n \in DOMAIN q PROVE ~(n > Len(g)) /\ q[n].hub = g[n] /\ q[n].after = 0
    <2>1. n \in 1 .. Len(h) \/ n = Len(h) + 1
        BY <1>2, <1>3
    <2>2. ~(n > Len(g))
        BY <1>2, <1>3, <1>4
    <2>3. CASE n \in 1 .. Len(h)
        BY <1>2, <1>3, <1>4, <2>2, <2>3, Zenon
    <2>4. CASE n = Len(h) + 1
        BY <1>3, <1>4, <2>2, <2>4, Zenon
    <2>5. QED
        BY <2>1, <2>3, <2>4
<1>6. Len(q) = Len(g) + Len(<<>>)
    BY <1>2, <1>3, <1>4
<1>7. QED
    BY <1>1, <1>5, <1>6, Zenon DEF ReportsOf

\* The message, with its report.
LEMMA ReportsMessage ==
    ASSUME NEW D, NEW h \in Seq(D), NEW m, NEW R, NEW p \in Seq(R), NEW r \in R,
           ReportsOf(p, h, <<>>), r.hub = m.to, r.after = 1
    PROVE  ReportsOf(Append(p, r), h, <<m>>)
<1>1. PICK q : q = Append(p, r)
    OBVIOUS
<1>2. /\ Len(p) = Len(h) /\ Len(h) \in Nat /\ DOMAIN p = 1 .. Len(h)
      /\ \A n \in 1 .. Len(h) : p[n].hub = h[n] /\ p[n].after = 0
    BY ElementsType DEF ReportsOf
<1>3. /\ Len(q) = Len(h) + 1 /\ DOMAIN q = 1 .. Len(h) + 1 /\ q[Len(h) + 1] = r
      /\ \A n \in 1 .. Len(h) : q[n] = p[n]
    BY <1>1, <1>2, AppendProperties
<1>4. PICK s : s = <<m>>
    OBVIOUS
<1>5. Len(s) = 1 /\ s[1] = m
    BY <1>4
<1>6. ASSUME NEW n \in DOMAIN q
      PROVE  /\ q[n].hub = IF n > Len(h) THEN s[n - Len(h)].to ELSE h[n]
             /\ q[n].after = IF n > Len(h) THEN 1 ELSE 0
    <2>1. n \in 1 .. Len(h) \/ n = Len(h) + 1
        BY <1>2, <1>3
    <2>2. CASE n \in 1 .. Len(h)
        <3>1. ~(n > Len(h))
            BY <1>2, <2>2
        <3>2. QED
            BY <1>2, <1>3, <2>2, <3>1, Zenon
    <2>3. CASE n = Len(h) + 1
        <3>1. n > Len(h) /\ n - Len(h) = 1
            BY <1>2, <2>3
        <3>2. QED
            BY <1>3, <1>5, <2>3, <3>1, Zenon
    <2>4. QED
        BY <2>1, <2>2, <2>3
<1>7. Len(q) = Len(h) + Len(s)
    BY <1>2, <1>3, <1>5
<1>8. QED
    BY <1>1, <1>4, <1>6, <1>7, Zenon DEF ReportsOf

\* ReportsEachHub, entry by entry.
LEMMA ReportsAre ==
    ASSUME Types, NEW M, sent \in Seq(M)
    PROVE  ReportsEachHub
             <=> IF Places("-v") = {} THEN reports = <<>> ELSE ReportsOf(reports, hubs, sent)
<1>1. PICK R : reports \in Seq(R)
    BY DEF Types
<1>2. PICK D : hubs \in Seq(D)
    BY DEF Types
<1>3. ReportsOf(reports, hubs, sent) <=> ReportsAll(reports, hubs, sent)
    BY <1>1, <1>2, ReportedIs
<1>4. QED
    BY <1>3, Zenon DEF ReportsEachHub, ReportsAll

LEMMA ReportsAreNext ==
    ASSUME Types', NEW M, sent' \in Seq(M)
    PROVE  ReportsEachHub'
             <=> IF Places("-v")' = {} THEN reports' = <<>> ELSE ReportsOf(reports', hubs', sent')
<1>1. PICK R : reports' \in Seq(R)
    BY DEF Types
<1>2. PICK D : hubs' \in Seq(D)
    BY DEF Types
<1>3. ReportsOf(reports', hubs', sent') <=> ReportsAll(reports', hubs', sent')
    BY <1>1, <1>2, ReportedIs
<1>4. QED
    BY <1>3, Zenon DEF ReportsEachHub, ReportsAll

LEMMA SeqOfMore ==
    ASSUME NEW S, NEW T, S \subseteq T, NEW s \in Seq(S)
    PROVE  s \in Seq(T)
OBVIOUS

\* With -v a report is made, and otherwise none.
LEMMA ReportIs ==
    ASSUME NEW k, NEW messages, Report(k, messages), verbose <=> Places("-v") # {}
    PROVE  IF Places("-v") = {}
           THEN reports' = reports
           ELSE \E r : reports' = Append(reports, r) /\ r.hub = k /\ r.after = messages
<1>1. CASE ~verbose
    BY <1>1, Zenon DEF Report, IsReporting
<1>2. CASE verbose
    <2>1. PICK r \in hub_port_status(k, messages) : reports' = Append(reports, r)
        BY <1>2, Zenon DEF Report, IsReporting
    <2>2. r.hub = k /\ r.after = messages
        BY <2>1 DEF hub_port_status
    <2>3. Places("-v") # {}
        BY <1>2, Zenon
    <2>4. QED
        BY <2>1, <2>2, <2>3, Zenon
<1>3. QED
    BY <1>1, <1>2, Zenon

LEMMA ScanAddsReports ==
    ASSUME Types, Types', Understood, SentLast, ReportsEachHub, ScanAdds
    PROVE  ReportsEachHub'
<1>1. /\ pc = "scan" /\ argv' = argv /\ sent = <<>> /\ sent' = sent
      /\ hubs' = Append(hubs, d) /\ Report(d, 0) /\ d <= Len(devices)
    BY DEF ScanAdds, Done, SentLast
<1>2. verbose <=> Places("-v") # {}
    BY <1>1, Zenon DEF Understood
<1>3. sent \in Seq({}) /\ sent' \in Seq({})
    BY <1>1
<1>4. Places("-v")' = Places("-v")
    BY <1>1, SameLine
<1>5. CASE Places("-v") = {}
    <2>1. reports = <<>> /\ reports' = reports
        BY <1>1, <1>2, <1>5, ReportIs, Zenon DEF ReportsEachHub
    <2>2. QED
        BY <1>4, <1>5, <2>1, Zenon DEF ReportsEachHub
<1>6. CASE Places("-v") # {}
    <2>1. PICK r : reports' = Append(reports, r) /\ r.hub = d /\ r.after = 0
        BY <1>1, <1>2, <1>6, ReportIs, Zenon
    <2>2. ReportsOf(reports, hubs, <<>>)
        BY <1>1, <1>3, <1>6, ReportsAre, Zenon
    <2>3. d \in DOMAIN devices
        <3>1. DOMAIN devices = 1 .. Len(devices) /\ Len(devices) \in Nat
            BY ElementsType DEF Types, InputTypes
        <3>2. d \in 1 .. Len(devices) + 1
            BY DEF Types, TypeOK
        <3>3. QED
            BY <1>1, <3>1, <3>2
    <2>4. PICK R : R = [hub : DOMAIN devices, ports : Nat, after : Nat] \cup {r}
        OBVIOUS
    <2>5. reports \in Seq(R) /\ hubs \in Seq(DOMAIN devices) /\ r \in R
        <3>1. r \in R /\ [hub : DOMAIN devices, ports : Nat, after : Nat] \subseteq R
            BY <2>4, Zenon
        <3>2. QED
            BY <3>1, SeqOfMore, Zenon DEF Types
    <2>6. ReportsOf(Append(reports, r), Append(hubs, d), <<>>)
        BY <2>1, <2>2, <2>3, <2>5, ReportsHub, Zenon
    <2>7. ReportsOf(reports', hubs', sent')
        BY <1>1, <2>1, <2>6, Zenon
    <2>8. QED
        BY <1>3, <1>4, <1>6, <2>7, ReportsAreNext, Zenon
<1>7. QED
    BY <1>5, <1>6

LEMMA ControlReports ==
    ASSUME Types, Types', Understood, SentLast, ReportsEachHub, Control
    PROVE  ReportsEachHub'
<1>1. /\ pc = "control" /\ argv' = argv /\ sent = <<>> /\ sent' = <<Message>>
      /\ hubs' = hubs /\ Report(hubs[hub + 1], Len(sent'))
    BY DEF Control, SentLast
<1>2. verbose <=> Places("-v") # {}
    BY <1>1, Zenon DEF Understood
<1>3. PICK m : m = Message
    OBVIOUS
<1>4. sent \in Seq({m}) /\ sent' = <<m>> /\ sent' \in Seq({m}) /\ Len(sent') = 1
    BY <1>1, <1>3
<1>5. m.to = hubs[hub + 1]
    BY <1>3 DEF Message
<1>6. Report(m.to, 1)
    BY <1>1, <1>4, <1>5, Zenon
<1>7. Places("-v")' = Places("-v")
    BY <1>1, SameLine
<1>8. CASE Places("-v") = {}
    <2>1. reports = <<>> /\ reports' = reports
        BY <1>2, <1>6, <1>8, ReportIs, Zenon DEF ReportsEachHub
    <2>2. QED
        BY <1>7, <1>8, <2>1, Zenon DEF ReportsEachHub
<1>9. CASE Places("-v") # {}
    <2>1. PICK r : reports' = Append(reports, r) /\ r.hub = m.to /\ r.after = 1
        BY <1>2, <1>6, <1>9, ReportIs, Zenon
    <2>2. ReportsOf(reports, hubs, <<>>)
        BY <1>1, <1>4, <1>9, ReportsAre, Zenon
    <2>3. PICK R : R = [hub : DOMAIN devices, ports : Nat, after : Nat] \cup {r}
        OBVIOUS
    <2>4. reports \in Seq(R) /\ hubs \in Seq(DOMAIN devices) /\ r \in R
        <3>1. r \in R /\ [hub : DOMAIN devices, ports : Nat, after : Nat] \subseteq R
            BY <2>3, Zenon
        <3>2. QED
            BY <3>1, SeqOfMore, Zenon DEF Types
    <2>5. ReportsOf(Append(reports, r), hubs, <<m>>)
        BY <2>1, <2>2, <2>4, ReportsMessage, Zenon
    <2>6. ReportsOf(reports', hubs', sent')
        BY <1>1, <1>4, <2>1, <2>5, Zenon
    <2>7. QED
        BY <1>4, <1>7, <1>9, <2>6, ReportsAreNext, Zenon
<1>10. QED
    BY <1>8, <1>9

\* What a step that sends and reports nothing leaves as it was.
LEMMA PropertiesKept ==
    ASSUME AsksTheRightHub, SaysWhatWasAsked, ReportsEachHub,
           UNCHANGED <<argv, devices, hubs, sent, reports>>
    PROVE  AsksTheRightHub' /\ SaysWhatWasAsked' /\ ReportsEachHub'
<1>1. /\ argv' = argv /\ devices' = devices /\ hubs' = hubs /\ sent' = sent
      /\ reports' = reports
    OBVIOUS
<1>2. \A a, v : ValueOf(a, v)' = ValueOf(a, v) /\ Places(a)' = Places(a)
    BY <1>1, SameLine
<1>3. Controllable' = Controllable /\ Unread' = Unread /\ NumberAsked' = NumberAsked
    BY <1>1, <1>2, Zenon DEF Controllable, Unread, NumberAsked
<1>4. AsksTheRightHub'
    <2>1. ASSUME NEW n \in DOMAIN sent
          PROVE  /\ IsAddressed(sent[n].to)' <=> IsAddressed(sent[n].to)
                 /\ HubNumber(sent[n].to)' = HubNumber(sent[n].to)
        BY <1>1, <1>2, <1>3, Zenon DEF IsAddressed, HubNumber
    <2>2. QED
        BY <1>1, <1>2, <1>3, <2>1, Zenon DEF AsksTheRightHub
<1>5. SaysWhatWasAsked'
    <2>1. /\ (IsLed' <=> IsLed) /\ PortAsked' = PortAsked /\ ColourAsked' = ColourAsked
          /\ ValueOf("-p", 0)' = ValueOf("-p", 0)
          /\ Cardinality(Places("-l") \cup Places("-p"))' = Cardinality(Places("-l") \cup Places("-p"))
        BY <1>1, SameCommand
    <2>2. SUFFICES ASSUME NEW n \in DOMAIN sent
                   PROVE  (/\ Cardinality(Places("-l") \cup Places("-p")) < 2
                           /\ sent[n].feature = IF IsLed THEN "indicator" ELSE "power"
                           /\ sent[n].set = (IsLed \/ ValueOf("-p", 0) # 0)
                           /\ PortAsked \in 0 .. 255 /\ ColourAsked \in 0 .. 255 =>
                               /\ sent[n].index \cap LowByte = Bits(PortAsked)
                               /\ {w \in LowByte : w * 256 \in sent[n].index}
                                      = Bits(ColourAsked))'
        BY <1>1, Zenon DEF SaysWhatWasAsked
    <2>3. /\ Cardinality(Places("-l") \cup Places("-p")) < 2
          /\ sent[n].feature = IF IsLed THEN "indicator" ELSE "power"
          /\ sent[n].set = (IsLed \/ ValueOf("-p", 0) # 0)
          /\ PortAsked \in 0 .. 255 /\ ColourAsked \in 0 .. 255 =>
              /\ sent[n].index \cap LowByte = Bits(PortAsked)
              /\ {w \in LowByte : w * 256 \in sent[n].index} = Bits(ColourAsked)
        BY Zenon DEF SaysWhatWasAsked
    <2>4. (Cardinality(Places("-l") \cup Places("-p")) < 2)'
        BY <2>1, <2>3, Zenon
    <2>5. (sent[n].feature = IF IsLed THEN "indicator" ELSE "power")'
        BY <1>1, <2>1, <2>3
    <2>6. (sent[n].set = (IsLed \/ ValueOf("-p", 0) # 0))'
        BY <1>1, <2>1, <2>3
    <2>7. (PortAsked \in 0 .. 255 /\ ColourAsked \in 0 .. 255 =>
              /\ sent[n].index \cap LowByte = Bits(PortAsked)
              /\ {w \in LowByte : w * 256 \in sent[n].index} = Bits(ColourAsked))'
        BY <1>1, <2>1, <2>3, Zenon DEF Bits
    <2>8. QED
        BY <2>4, <2>5, <2>6, <2>7, Zenon
<1>6. ReportsEachHub'
    BY <1>1, <1>2, Zenon DEF ReportsEachHub
<1>7. QED
    BY <1>4, <1>5, <1>6

\* Until the message there is nothing to say of it.
LEMMA NothingSent ==
    ASSUME sent = <<>>
    PROVE  AsksTheRightHub /\ SaysWhatWasAsked
<1>1. \A n \in DOMAIN sent : FALSE
    OBVIOUS
<1>2. QED
    BY <1>1, Zenon DEF AsksTheRightHub, SaysWhatWasAsked

IInv ==
    /\ Types /\ Reading /\ Understood /\ HubChosen /\ ChosenIsHub /\ Numbered /\ SentLast
    /\ AsksTheRightHub /\ SaysWhatWasAsked /\ ReportsEachHub

LEMMA IInvInit == Init => IInv
<1>1. SUFFICES ASSUME Init PROVE IInv
    OBVIOUS
<1>2. Types /\ Reading /\ Numbered
    BY <1>1, TypesInit, ReadingInit, NumberedInit
<1>3. pc = "args" /\ sent = <<>> /\ hubs = <<>> /\ reports = <<>>
    BY <1>1 DEF Init
<1>4. Understood /\ HubChosen /\ ChosenIsHub /\ SentLast
    BY <1>3 DEF Understood, HubChosen, ChosenIsHub, SentLast
<1>5. AsksTheRightHub /\ SaysWhatWasAsked
    BY <1>3, NothingSent
<1>6. ReportsEachHub
    <2>1. sent \in Seq({})
        BY <1>3
    <2>2. ReportsOf(reports, hubs, sent)
        BY <1>3 DEF ReportsOf
    <2>3. QED
        BY <1>2, <1>3, <2>1, <2>2, ReportsAre, Zenon
<1>7. QED
    BY <1>2, <1>4, <1>5, <1>6 DEF IInv

LEMMA SentLastNext ==
    ASSUME SentLast, [Next]_vars
    PROVE  SentLast'
<1>1. SUFFICES ASSUME pc' # "exited" PROVE sent' = <<>>
    BY DEF SentLast
<1>2. CASE \/ OptHub \/ OptBus \/ OptDev \/ OptPort \/ OptLed \/ OptPower
           \/ OptVerbose \/ OptUnknown \/ EndArgs
    <2>1. UNCHANGED Rest /\ pc = "args"
        BY <1>2, Zenon DEF OptHub, OptBus, OptDev, OptPort, OptLed, OptPower, OptCommand,
           OptVerbose, OptUnknown, EndArgs, At, Rest
    <2>2. sent' = sent
        BY <2>1 DEF Rest
    <2>3. QED
        BY <2>1, <2>2 DEF SentLast
<1>3. CASE ScanSkips \/ ScanAdds \/ ScanFails \/ EndScan \/ SelectHub
    BY <1>3 DEF ScanSkips, ScanAdds, ScanFails, EndScan, SelectHub, Done, SentLast
<1>4. CASE Control
    BY <1>1, <1>4 DEF Control, Exit
<1>5. CASE UNCHANGED vars
    BY <1>1, <1>5, Zenon DEF vars, SentLast
<1>6. QED
    BY <1>2, <1>3, <1>4, <1>5, Zenon DEF Next

LEMMA IInvNext == IInv /\ [Next]_vars => IInv'
<1>1. SUFFICES ASSUME IInv, [Next]_vars PROVE IInv'
    OBVIOUS
<1>2. /\ Types /\ Reading /\ Understood /\ HubChosen /\ ChosenIsHub /\ Numbered /\ SentLast
      /\ AsksTheRightHub /\ SaysWhatWasAsked /\ ReportsEachHub
    BY <1>1 DEF IInv
<1>3. Types'
    BY <1>1, <1>2, TypesNext
<1>4. Reading' /\ Understood'
    BY <1>1, <1>2, ReadingNext, UnderstoodNext
<1>5. HubChosen' /\ ChosenIsHub'
    BY <1>1, <1>2, HubChosenNext, ChosenIsHubNext
<1>6. Numbered' /\ SentLast'
    BY <1>1, <1>2, NumberedNext, SentLastNext
<1>7. AsksTheRightHub' /\ SaysWhatWasAsked' /\ ReportsEachHub'
    <2>1. CASE \/ OptHub \/ OptBus \/ OptDev \/ OptPort \/ OptLed \/ OptPower
               \/ OptVerbose \/ OptUnknown \/ EndArgs
        <3>1. UNCHANGED Rest
            BY <2>1, Zenon DEF OptHub, OptBus, OptDev, OptPort, OptLed, OptPower, OptCommand,
               OptVerbose, OptUnknown, EndArgs, Rest
        <3>2. UNCHANGED <<argv, devices, hubs, sent, reports>>
            BY <3>1 DEF Rest
        <3>3. QED
            BY <1>2, <3>2, PropertiesKept
    <2>2. CASE ScanFails \/ ScanSkips \/ EndScan \/ SelectHub \/ UNCHANGED vars
        <3>1. UNCHANGED <<argv, devices, hubs, sent, reports>>
            BY <2>2, Zenon DEF ScanFails, ScanSkips, EndScan, SelectHub, Done, vars
        <3>2. QED
            BY <1>2, <3>1, PropertiesKept
    <2>3. CASE ScanAdds
        <3>1. sent' = <<>>
            BY <1>2, <2>3 DEF ScanAdds, Done, SentLast
        <3>2. AsksTheRightHub' /\ SaysWhatWasAsked'
            <4>1. \A n \in DOMAIN sent' : FALSE
                BY <3>1
            <4>2. QED
                BY <4>1, Zenon DEF AsksTheRightHub, SaysWhatWasAsked
        <3>3. QED
            BY <1>2, <1>3, <2>3, <3>2, ScanAddsReports
    <2>4. CASE Control
        BY <1>2, <1>3, <2>4, AsksInControl, ControlReports
    <2>5. QED
        BY <1>1, <2>1, <2>2, <2>3, <2>4, Zenon DEF Next
<1>8. QED
    BY <1>3, <1>4, <1>5, <1>6, <1>7, Zenon DEF IInv

LEMMA IInvHolds == Spec => []IInv
<1>1. QED
    BY IInvInit, IInvNext, PTL DEF Spec

(***************************************************************************)
(* Whatever is on the command line and whatever devices there are, i stays *)
(* within two of the arguments' end, the table holds only devices that     *)
(* were found, and each status report is of one of them.                   *)
(***************************************************************************)
THEOREM HubTypes == Spec => []TypeOK
<1>1. IInv => TypeOK
    BY DEF IInv, Types
<1>2. QED
    BY <1>1, IInvHolds, PTL

(***************************************************************************)
(* A request (hub-ctrl.c:374-398) goes to the device with the address that *)
(* the command line gives, and where no hub fails to give its descriptor,  *)
(* to the controllable hub with the address or number it gives; a mere     *)
(* listing sends none.                                                     *)
(***************************************************************************)
THEOREM HubAsksTheRightHub == Spec => []AsksTheRightHub
<1>1. IInv => AsksTheRightHub
    BY DEF IInv
<1>2. QED
    BY <1>1, IInvHolds, PTL

(***************************************************************************)
(* A request says what the last of each option says (hub-ctrl.c:276-334,   *)
(* 374-392), the port and the indicator each in its own byte if they fit   *)
(* in one, and there is none if more than one command stands on the line   *)
(* (hub-ctrl.c:305, 315).                                                  *)
(***************************************************************************)
THEOREM HubSaysWhatWasAsked == Spec => []SaysWhatWasAsked
<1>1. IInv => SaysWhatWasAsked
    BY DEF IInv
<1>2. QED
    BY <1>1, IInvHolds, PTL

(***************************************************************************)
(* With -v anywhere on the line each hub is reported once as it is         *)
(* numbered (hub-ctrl.c:212), and the one that was sent a request once     *)
(* more, after it (hub-ctrl.c:405); without -v there are no reports.       *)
(***************************************************************************)
THEOREM HubReports == Spec => []ReportsEachHub
<1>1. IInv => ReportsEachHub
    BY DEF IInv
<1>2. QED
    BY <1>1, IInvHolds, PTL
=============================================================================
