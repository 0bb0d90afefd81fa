--------------------------- MODULE TapLoopProofs ---------------------------
(***************************************************************************)
(* Proofs about TapLoop for any timeout, any number of frames to wait for, *)
(* any queue length and any number of signals.                             *)
(***************************************************************************)
EXTENDS TapLoop, SequenceTheorems, TLAPS

USE TapAssumption

-----------------------------------------------------------------------------
(* The ways a frame moves on.                                              *)

LEMMA TakeHead ==
    ASSUME NEW s \in Seq(Nat), NEW q \in Seq(Nat), q # <<>>
    PROVE  (s \o <<>>) \o q = (s \o <<Head(q)>>) \o Tail(q)
<1>1. PICK h \in Nat, t \in Seq(Nat) : h = Head(q) /\ t = Tail(q)
    <2>1. Head(q) \in Nat /\ Tail(q) \in Seq(Nat)
        OBVIOUS
    <2>2. QED
        BY <2>1
<1>2. q = <<h>> \o t /\ <<h>> \in Seq(Nat)
    BY <1>1
<1>3. s \o <<>> = s
    OBVIOUS
<1>4. (s \o <<h>>) \o t = s \o (<<h>> \o t)
    BY <1>2, ConcatAssociative
<1>5. (s \o <<>>) \o q = (s \o <<h>>) \o t
    BY ONLY <1>2, <1>3, <1>4
<1>6. QED
    BY ONLY <1>1, <1>5

LEMMA PutBack ==
    ASSUME NEW s \in Seq(Nat), NEW q \in Seq(Nat), NEW b \in Nat
    PROVE  (s \o <<b>>) \o q = (Append(s, b) \o <<>>) \o q
<1>1. Append(s, b) = s \o <<b>>
    OBVIOUS
<1>2. Append(s, b) \o <<>> = Append(s, b)
    OBVIOUS
<1>3. QED
    BY <1>1, <1>2

\* A frame that is lost leaves the others as they are.
LEMMA RemoveOne ==
    ASSUME NEW s \in Seq(Nat), NEW q \in Seq(Nat), NEW b \in Nat,
           Increasing((s \o <<b>>) \o q)
    PROVE  /\ Increasing((s \o <<>>) \o q)
           /\ Range((s \o <<>>) \o q) = Range((s \o <<b>>) \o q) \ {b}
<1> DEFINE t == (s \o <<b>>) \o q
           u == (s \o <<>>) \o q
           Place(k) == IF k <= Len(s) THEN k ELSE k + 1
<1>1. PICK n \in Nat, m \in Nat : n = Len(s) /\ m = Len(q)
    OBVIOUS
<1>2. /\ s \o <<b>> \in Seq(Nat) /\ Len(s \o <<b>>) = n + 1
      /\ \A k \in 1 .. n : (s \o <<b>>)[k] = s[k]
      /\ (s \o <<b>>)[n + 1] = b
    BY <1>1
<1>3. /\ t \in Seq(Nat) /\ DOMAIN t = 1 .. n + 1 + m
      /\ \A k \in 1 .. n : t[k] = s[k]
      /\ t[n + 1] = b
      /\ \A k \in 1 .. m : t[n + 1 + k] = q[k]
    BY <1>1, <1>2, ConcatProperties
<1>4. /\ u \in Seq(Nat) /\ DOMAIN u = 1 .. n + m
      /\ \A k \in 1 .. n : u[k] = s[k]
      /\ \A k \in 1 .. m : u[n + k] = q[k]
    <2>1. u = s \o q
        OBVIOUS
    <2>2. QED
        BY <1>1, <2>1, ConcatProperties
<1>5. \A k \in 1 .. n + m : u[k] = t[Place(k)] /\ Place(k) \in (1 .. n + 1 + m) \ {n + 1}
    <2> SUFFICES ASSUME NEW k \in 1 .. n + m
                 PROVE  u[k] = t[Place(k)] /\ Place(k) \in (1 .. n + 1 + m) \ {n + 1}
        OBVIOUS
    <2>1. CASE k <= n
        <3>1. Place(k) = k /\ k \in 1 .. n
            BY <2>1, <1>1
        <3>2. QED
            BY <3>1, <1>3, <1>4
    <2>2. CASE ~(k <= n)
        <3>1. PICK j \in 1 .. m : k = n + j
            <4>1. k - n \in 1 .. m /\ k = n + (k - n)
                BY <2>2
            <4>2. QED
                BY <4>1
        <3>2. Place(k) = n + 1 + j
            BY <3>1, <2>2, <1>1
        <3>3. u[n + j] = q[j] /\ t[n + 1 + j] = q[j]
            BY <1>3, <1>4
        <3>4. Place(k) \in (1 .. n + 1 + m) \ {n + 1}
            BY <3>2
        <3>5. QED
            BY ONLY <3>1, <3>2, <3>3, <3>4
    <2>3. QED
        BY <2>1, <2>2
<1>6. \A j \in (1 .. n + 1 + m) \ {n + 1} : \E k \in 1 .. n + m : Place(k) = j
    <2> SUFFICES ASSUME NEW j \in (1 .. n + 1 + m) \ {n + 1}
                 PROVE  \E k \in 1 .. n + m : Place(k) = j
        OBVIOUS
    <2>1. CASE j <= n
        <3>1. j \in 1 .. n + m /\ Place(j) = j
            BY <2>1, <1>1
        <3>2. QED
            BY <3>1
    <2>2. CASE ~(j <= n)
        <3>1. j - 1 \in 1 .. n + m /\ Place(j - 1) = j
            BY <2>2, <1>1
        <3>2. QED
            BY <3>1
    <2>3. QED
        BY <2>1, <2>2
<1>7. \A k, j \in 1 .. n + 1 + m : k < j => t[k] < t[j]
    BY <1>3 DEF Increasing
<1>8. \A k, j \in 1 .. n + m : k < j => Place(k) < Place(j)
    BY <1>1
<1>9. Increasing(u)
    <2> SUFFICES ASSUME NEW k \in 1 .. n + m, NEW j \in 1 .. n + m, k < j
                 PROVE  u[k] < u[j]
        BY <1>4 DEF Increasing
    <2> HIDE DEF Place, t, u
    <2>1. Place(k) < Place(j) /\ Place(k) \in 1 .. n + 1 + m /\ Place(j) \in 1 .. n + 1 + m
        BY <1>5, <1>8
    <2>2. QED
        BY <2>1, <1>5, <1>7
<1>10. Range(u) = Range(t) \ {b}
    <2> HIDE DEF Place, t, u
    <2>1. \A j \in (1 .. n + 1 + m) \ {n + 1} : t[j] # b
        <3>1. \A k \in 1 .. n + 1 + m : t[k] \in Nat
            <4>1. Len(t) = n + 1 + m /\ t \in Seq(Nat)
                BY <1>3, LenProperties
            <4>2. QED
                BY <4>1, ElementOfSeq
        <3>2. DOMAIN t = 1 .. n + 1 + m /\ t[n + 1] = b
            BY <1>3
        <3>3. QED
            BY <3>1, <3>2, <1>7
    <2>2. Range(u) = {u[k] : k \in 1 .. n + m}
        BY <1>4 DEF Range
    <2>3. Range(t) = {t[k] : k \in 1 .. n + 1 + m}
        BY <1>3 DEF Range
    <2>4. ASSUME NEW x \in Range(u) PROVE x \in Range(t) \ {b}
        <3>1. PICK k \in 1 .. n + m : x = u[k]
            BY <2>2
        <3>2. PICK j \in (1 .. n + 1 + m) \ {n + 1} : x = t[j]
            BY <3>1, <1>5
        <3>3. QED
            BY <3>2, <2>1, <2>3
    <2>5. ASSUME NEW x \in Range(t), x # b PROVE x \in Range(u)
        <3>1. PICK j \in 1 .. n + 1 + m : x = t[j]
            BY <2>3
        <3>2. j # n + 1
            BY <3>1, <2>5, <1>3
        <3>3. PICK k \in 1 .. n + m : Place(k) = j
            BY <3>2, <1>6
        <3>4. x = u[k]
            BY <3>1, <3>3, <1>5
        <3>5. QED
            BY <3>4, <2>2
    <2>6. QED
        BY <2>4, <2>5
<1>11. QED
    BY <1>9, <1>10

LEMMA InTheMiddle ==
    ASSUME NEW s \in Seq(Nat), NEW q \in Seq(Nat), NEW b \in Nat
    PROVE  b \in Range((s \o <<b>>) \o q)
<1>1. /\ s \o <<b>> \in Seq(Nat) /\ Len(s \o <<b>>) = Len(s) + 1
      /\ (s \o <<b>>)[Len(s) + 1] = b
    OBVIOUS
<1>2. /\ Len(s) + 1 \in DOMAIN ((s \o <<b>>) \o q)
      /\ ((s \o <<b>>) \o q)[Len(s) + 1] = b
    BY <1>1, ConcatProperties
<1>3. QED
    BY <1>2 DEF Range

\* A frame that arrives comes last.
LEMMA OneMore ==
    ASSUME NEW s \in Seq(Nat), NEW q \in Seq(Nat), NEW c \in Nat,
           Increasing(s \o q), \A x \in Range(s \o q) : x < c
    PROVE  /\ Increasing(s \o Append(q, c))
           /\ \A x : x \in Range(s \o Append(q, c)) <=> x \in Range(s \o q) \/ x = c
<1> DEFINE t == s \o q
           u == s \o Append(q, c)
<1>1. PICK n \in Nat, m \in Nat : n = Len(s) /\ m = Len(q)
    OBVIOUS
<1>2. /\ t \in Seq(Nat) /\ DOMAIN t = 1 .. n + m
      /\ \A k \in 1 .. n : t[k] = s[k]
      /\ \A k \in 1 .. m : t[n + k] = q[k]
    BY <1>1, ConcatProperties
<1>3. /\ Append(q, c) \in Seq(Nat) /\ Len(Append(q, c)) = m + 1
      /\ \A k \in 1 .. m : Append(q, c)[k] = q[k]
      /\ Append(q, c)[m + 1] = c
    BY <1>1, AppendProperties
<1>4. /\ u \in Seq(Nat) /\ DOMAIN u = 1 .. n + m + 1
      /\ \A k \in 1 .. n : u[k] = s[k]
      /\ \A k \in 1 .. m : u[n + k] = q[k]
      /\ u[n + m + 1] = c
    BY <1>1, <1>3, ConcatProperties
<1>5. \A k \in 1 .. n + m : u[k] = t[k]
    <2> SUFFICES ASSUME NEW k \in 1 .. n + m PROVE u[k] = t[k]
        OBVIOUS
    <2>1. CASE k <= n
        BY <2>1, <1>2, <1>4
    <2>2. CASE ~(k <= n)
        <3>1. k - n \in 1 .. m /\ k = n + (k - n)
            BY <2>2
        <3>2. QED
            BY <3>1, <1>2, <1>4
    <2>3. QED
        BY <2>1, <2>2
<1> HIDE DEF t, u
<1>6. Range(t) = {t[k] : k \in 1 .. n + m} /\ Range(u) = {u[k] : k \in 1 .. n + m + 1}
    BY <1>2, <1>4 DEF Range
<1>7. Increasing(t) /\ \A x \in Range(t) : x < c
    BY DEF t
<1>8. \A k \in 1 .. n + m : t[k] < c
    BY <1>6, <1>7
<1>9. Increasing(u)
    <2>1. DOMAIN t = 1 .. n + m /\ DOMAIN u = 1 .. n + m + 1 /\ u[n + m + 1] = c
        BY <1>2, <1>4
    <2>2. \A k, j \in 1 .. n + m : k < j => t[k] < t[j]
        BY <2>1, <1>7 DEF Increasing
    <2>3. SUFFICES ASSUME NEW k \in 1 .. n + m + 1, NEW j \in 1 .. n + m + 1, k < j
                   PROVE  u[k] < u[j]
        BY <2>1 DEF Increasing
    <2>4. k \in 1 .. n + m /\ u[k] = t[k] /\ t[k] < c
        BY <2>3, <1>5, <1>8
    <2>5. CASE j \in 1 .. n + m
        BY <2>3, <2>4, <2>5, <2>2, <1>5
    <2>6. CASE j = n + m + 1
        BY <2>4, <2>6, <2>1
    <2>7. QED
        BY <2>5, <2>6
<1>10. \A x : x \in Range(u) <=> x \in Range(t) \/ x = c
    <2>1. ASSUME NEW x \in Range(t) PROVE x \in Range(u)
        <3>1. PICK k \in 1 .. n + m : x = t[k]
            BY <1>6
        <3>2. k \in 1 .. n + m + 1 /\ x = u[k]
            BY <3>1, <1>5
        <3>3. QED
            BY <3>2, <1>6
    <2>2. c \in Range(u)
        BY <1>4, <1>6
    <2>3. ASSUME NEW x \in Range(u) PROVE x \in Range(t) \/ x = c
        <3>1. PICK k \in 1 .. n + m + 1 : x = u[k]
            BY <1>6
        <3>2. CASE k = n + m + 1
            BY <3>1, <3>2, <1>4
        <3>3. CASE k # n + m + 1
            <4>1. k \in 1 .. n + m
                BY <3>3
            <4>2. QED
                BY <4>1, <3>1, <1>5, <1>6
        <3>4. QED
            BY <3>2, <3>3
    <2>4. QED
        BY <2>1, <2>2, <2>3
<1>11. QED
    BY <1>9, <1>10 DEF t, u

-----------------------------------------------------------------------------
(***************************************************************************)
(* The count of frames read has not passed its limit (test.c:76) before    *)
(* the loop ends, read is called only when select has said so, all frames  *)
(* are where they should be, and those lost did arrive.                    *)
(***************************************************************************)
Inv ==
    /\ TypeOK
    /\ pc \in {"open", "up", "select", "read"} => rx_count <= Enough
    /\ NeverBlocksInRead
    /\ EchoesInOrder
    /\ dropped \subseteq 1 .. arrived

LEMMA InvInit == Init => Inv
<1> SUFFICES ASSUME Init PROVE Inv
    OBVIOUS
<1>1. TypeOK
    <2>1. <<>> \in Seq(Nat) /\ {} \subseteq {"IFF_UP", "IFF_RUNNING"} /\ FALSE \in BOOLEAN
        OBVIOUS
    <2>2. Timeout \in 0 .. Timeout /\ 0 \in 0 .. Enough + 1
        OBVIOUS
    <2>3. QED
        BY <2>1, <2>2 DEF Init, TypeOK
<1>2. EchoesInOrder
    <2>1. echoed \o InHand \o queue = <<>> /\ arrived = 0 /\ dropped = {}
        BY DEF Init, InHand
    <2>2. Increasing(<<>>) /\ Range(<<>>) = {}
        BY DEF Increasing, Range
    <2>3. QED
        BY <2>1, <2>2 DEF EchoesInOrder
<1>3. QED
    BY <1>1, <1>2 DEF Inv, Init, NeverBlocksInRead

LEMMA InvNext ==
    ASSUME Inv, [Next]_vars
    PROVE  Inv'
<1> USE DEF Inv, TypeOK, NeverBlocksInRead, history
<1>1. CASE TapOpen
    BY <1>1 DEF TapOpen, EchoesInOrder, InHand
<1>2. CASE SetUp
    BY <1>2 DEF SetUp, SetIf, EchoesInOrder, InHand
<1>3. CASE SetDown
    BY <1>3 DEF SetDown, SetIf, EchoesInOrder, InHand
<1>4. CASE SetDownFails
    BY <1>4 DEF SetDownFails, EchoesInOrder, InHand
<1>5. CASE TapClose
    BY <1>5 DEF TapClose, EchoesInOrder
<1>6. CASE SelectReady
    BY <1>6 DEF SelectReady, IsReady, EchoesInOrder, InHand
<1>7. CASE SelectTimeout
    BY <1>7 DEF SelectTimeout, AfterTimeout, EchoesInOrder, InHand
<1>8. CASE Read
    <2>1. queue \in Seq(Nat) /\ queue # <<>> /\ pc = "read" /\ pc' = "write"
          /\ queue' = Tail(queue) /\ buf' = Head(queue) /\ UNCHANGED history
        BY <1>8 DEF Read
    <2>2. EchoesInOrder'
        BY <2>1, TakeHead DEF EchoesInOrder, InHand
    <2>3. buf' \in Nat /\ queue' \in Seq(Nat)
        BY <2>1
    <2>4. QED
        BY <1>8, <2>2, <2>3 DEF Read
<1>9. CASE Write
    <2>1. pc = "write" /\ pc' \in {"down", "select"} /\ UNCHANGED <<queue, arrived>>
        BY <1>9 DEF Write
    <2>2. /\ Increasing((echoed \o <<buf>>) \o queue)
          /\ Range((echoed \o <<buf>>) \o queue) = (1 .. arrived) \ dropped
        BY <2>1 DEF EchoesInOrder, InHand
    <2>3. EchoesInOrder' /\ (dropped \subseteq 1 .. arrived)' /\ echoed' \in Seq(Nat)
        <3>1. CASE echoed' = Append(echoed, buf) /\ UNCHANGED dropped
            <4>1. EchoesInOrder'
                BY <2>1, <2>2, <3>1, PutBack DEF EchoesInOrder, InHand
            <4>2. QED
                BY <2>1, <3>1, <4>1
        <3>2. CASE dropped' = dropped \cup {buf} /\ UNCHANGED echoed
            <4>1. /\ Increasing((echoed \o <<>>) \o queue)
                  /\ Range((echoed \o <<>>) \o queue) = ((1 .. arrived) \ dropped) \ {buf}
                BY <2>2, RemoveOne
            <4>2. EchoesInOrder'
                BY <2>1, <3>2, <4>1 DEF EchoesInOrder, InHand
            <4>3. buf \in Range((echoed \o <<buf>>) \o queue)
                BY InTheMiddle
            <4>4. QED
                BY <2>1, <2>2, <3>2, <4>2, <4>3
        <3>3. QED
            BY <1>9, <3>1, <3>2 DEF Write, Written
    <2>4. QED
        BY <1>9, <2>1, <2>3 DEF Write, IsEnough
<1>14. CASE ReadFails
    <2>1. queue # <<>> /\ pc = "read" /\ pc' = "select" /\ UNCHANGED <<echoed, arrived>>
        BY <1>14 DEF ReadFails
    <2>2. EchoesInOrder' /\ (dropped \subseteq 1 .. arrived)' /\ queue' \in Seq(Nat)
        <3>1. CASE UNCHANGED <<queue, dropped>>
            BY <2>1, <3>1 DEF EchoesInOrder, InHand
        <3>2. CASE queue' = Tail(queue) /\ dropped' = dropped \cup {Head(queue)}
            <4>1. Head(queue) \in Nat /\ Tail(queue) \in Seq(Nat)
                BY <2>1
            <4>2. /\ Increasing((echoed \o <<Head(queue)>>) \o Tail(queue))
                  /\ Range((echoed \o <<Head(queue)>>) \o Tail(queue)) = (1 .. arrived) \ dropped
                BY <2>1, TakeHead DEF EchoesInOrder, InHand
            <4>3. PICK b \in Nat, q \in Seq(Nat) : b = Head(queue) /\ q = Tail(queue)
                BY <4>1
            <4>4. /\ Increasing((echoed \o <<b>>) \o q)
                  /\ Range((echoed \o <<b>>) \o q) = (1 .. arrived) \ dropped
                BY <4>2, <4>3
            <4>5. /\ Increasing((echoed \o <<>>) \o q)
                  /\ Range((echoed \o <<>>) \o q) = ((1 .. arrived) \ dropped) \ {b}
                BY <4>4, RemoveOne
            <4>6. EchoesInOrder'
                BY <2>1, <3>2, <4>3, <4>5 DEF EchoesInOrder, InHand
            <4>7. b \in Range((echoed \o <<b>>) \o q)
                BY InTheMiddle
            <4>8. QED
                BY <2>1, <3>2, <4>1, <4>2, <4>3, <4>6, <4>7
        <3>3. QED
            BY <1>14, <3>1, <3>2 DEF ReadFails
    <2>3. QED
        BY <1>14, <2>1, <2>2 DEF ReadFails
<1>10. CASE SelectInterrupted
    BY <1>10 DEF SelectInterrupted, SetAfterError, EchoesInOrder, InHand
<1>11. CASE Tick
    BY <1>11 DEF Tick, EchoesInOrder, InHand
<1>12. CASE FrameArrives
    <2>1. pc # "end" /\ arrived' = arrived + 1 /\ queue' = Append(queue, arrived + 1)
          /\ UNCHANGED <<pc, buf, echoed, dropped>>
        BY <1>12 DEF FrameArrives
    <2>2. echoed \o InHand \in Seq(Nat) /\ InHand' = InHand
        BY <2>1 DEF InHand
    <2>3. EchoesInOrder'
        <3>1. PICK h \in Seq(Nat) : h = echoed \o InHand
            BY <2>2
        <3>2. Increasing(h \o queue) /\ Range(h \o queue) = (1 .. arrived) \ dropped
            BY <2>1, <3>1 DEF EchoesInOrder
        <3>3. PICK q \in Seq(Nat), c \in Nat : q = queue /\ c = arrived + 1
            <4>1. queue \in Seq(Nat) /\ arrived + 1 \in Nat
                OBVIOUS
            <4>2. QED
                BY <4>1
        <3>4. Increasing(h \o q) /\ \A x \in Range(h \o q) : x < c
            BY <3>2, <3>3
        <3>5. /\ Increasing(h \o Append(q, c))
              /\ \A x : x \in Range(h \o Append(q, c)) <=> x \in Range(h \o q) \/ x = c
            BY <3>4, OneMore
        <3>6. Range(h \o Append(q, c)) = (1 .. arrived + 1) \ dropped
            BY <3>2, <3>3, <3>5
        <3>7. QED
            BY <2>1, <2>2, <3>1, <3>3, <3>5, <3>6 DEF EchoesInOrder
    <2>4. queue' \in Seq(Nat) /\ queue' # <<>>
        <3>1. queue \in Seq(Nat) /\ arrived + 1 \in Nat
            BY DEF TypeOK
        <3>2. QED
            BY <2>1, <3>1, AppendProperties
    <2>5. QED
        BY <1>12, <2>3, <2>4 DEF FrameArrives
<1>13. CASE UNCHANGED vars
    BY <1>13 DEF vars, EchoesInOrder, InHand
<1>15. QED
    BY <1>1, <1>2, <1>3, <1>4, <1>5, <1>6, <1>7, <1>8, <1>9, <1>10, <1>11, <1>12,
       <1>13, <1>14 DEF Next, Main

(***************************************************************************)
(* Types; the loop reads at most one frame more than Enough.               *)
(***************************************************************************)
THEOREM TapTypes == Spec => []TypeOK
<1>1. Inv => TypeOK
    BY DEF Inv
<1>2. QED
    BY <1>1, InvInit, InvNext, PTL DEF Spec

(***************************************************************************)
(* Of the frames that came, those that read and write did not fail on are  *)
(* written back, once and in order, for any interleaving of frames,        *)
(* timeouts, signals and failures (test.c:61-77).                          *)
(***************************************************************************)
THEOREM TapEchoes == Spec => []EchoesInOrder
<1>1. Inv => EchoesInOrder
    BY DEF Inv
<1>2. QED
    BY <1>1, InvInit, InvNext, PTL DEF Spec

(***************************************************************************)
(* read never waits (test.c:63), although the device blocks.               *)
(***************************************************************************)
THEOREM TapNeverBlocks == Spec => []NeverBlocksInRead
<1>1. Inv => NeverBlocksInRead
    BY DEF Inv
<1>2. QED
    BY <1>1, InvInit, InvNext, PTL DEF Spec
=============================================================================
