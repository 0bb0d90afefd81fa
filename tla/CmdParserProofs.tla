-------------------------- MODULE CmdParserProofs --------------------------
(***************************************************************************)
(* The loop of pars_incomming_data on buffers of any length and content    *)
(* that end in 0.                                                          *)
(***************************************************************************)
EXTENDS CmdParser, SequenceTheorems, FiniteSetTheorems, TLAPS

USE DelimiterAssumption, ByteAssumption, BufferAssumption
USE DEF Cut, IsNotEmpty, PieceNext, StepOne

\* A string the callback may be given.
IsWord(w) == \A x \in DOMAIN w : w[x] \notin {NL, NUL}

(***************************************************************************)
(* The last byte stays 0 and is therefore never a newline, so the piece    *)
(* that begins after a newline begins inside the buffer; and there is no   *)
(* newline between the beginning of the piece and the loop's byte.         *)
(***************************************************************************)
LoopInv ==
    pc = "loop" =>
        /\ Len(in) > 0 /\ in[Len(in)] = NUL
        /\ i <= j /\ i <= Len(in)
        /\ \A x \in i .. j - 1 : in[x] # NL

Inv == TypeOK /\ LoopInv /\ CallsAreCommands

LEMMA InvInit == Init => Inv
BY DEF Init, Inv, TypeOK, LoopInv, CallsAreCommands

\* What strlen measures, up to the first 0 in s[k .. Len(s)].
LEMMA CutString ==
    ASSUME NEW s \in Seq(Byte), NEW k \in 1 .. Len(s), NEW m \in 1 .. Len(s),
           StringEndsAt(s, k, m),
           \A x \in k .. m - 1 : s[x] # NL
    PROVE  /\ SubSeq(s, k, m - 1) \in Seq(Byte)
           /\ IsWord(SubSeq(s, k, m - 1))
           /\ m > k => SubSeq(s, k, m - 1) # <<>>
<1>1. k <= m /\ \A x \in k .. m - 1 : s[x] # NUL
    BY DEF StringEndsAt
<1>2. k \in Int /\ m - 1 \in Int /\ \A x \in k .. m - 1 : s[x] \in Byte
    OBVIOUS
<1>3. /\ SubSeq(s, k, m - 1) \in Seq(Byte)
      /\ Len(SubSeq(s, k, m - 1)) = IF k <= m - 1 THEN m - 1 - k + 1 ELSE 0
      /\ \A x \in 1 .. m - 1 - k + 1 : SubSeq(s, k, m - 1)[x] = s[k + x - 1]
    BY <1>2, SubSeqProperties
<1> DEFINE t == SubSeq(s, k, m - 1)
<1>4. Len(t) = m - k
    BY <1>1, <1>3
<1>5. ASSUME NEW x \in DOMAIN t PROVE t[x] \notin {NL, NUL}
    <2>1. DOMAIN t = 1 .. Len(t)
        BY <1>3
    <2>2. x \in 1 .. m - k /\ x \in 1 .. m - 1 - k + 1
        BY <2>1, <1>4, <1>5
    <2>3. t[x] = s[k + x - 1] /\ k + x - 1 \in k .. m - 1
        BY <1>3, <2>2
    <2>4. QED
        BY <1>1, <2>3
<1>6. m > k => t # <<>>
    BY <1>4
<1>7. QED
    BY <1>3, <1>5, <1>6 DEF IsWord

\* A callback with a word, empty only if it is the last one of all.
LEMMA OneMoreCall ==
    ASSUME TypeOK, CallsAreCommands, pc = "loop",
           NEW w \in Seq(Byte), IsWord(w), calls' = Append(calls, w),
           w = <<>> => pc' = "done"
    PROVE  calls' \in Seq(Seq(Byte)) /\ CallsAreCommands'
<1>1. calls \in Seq(Seq(Byte)) /\ Len(calls) \in Nat
    BY DEF TypeOK
<1>2. /\ calls' \in Seq(Seq(Byte)) /\ Len(calls') = Len(calls) + 1
      /\ calls'[Len(calls) + 1] = w
      /\ \A k \in 1 .. Len(calls) : calls'[k] = calls[k]
    BY <1>1, AppendProperties
<1>3. \A k \in DOMAIN calls : IsWord(calls[k]) /\ calls[k] # <<>>
    BY DEF CallsAreCommands, IsWord
<1>4. ASSUME NEW k \in DOMAIN calls' PROVE IsWord(calls'[k]) /\ (calls'[k] = <<>> => pc' = "done" /\ k = Len(calls'))
    <2>1. k \in 1 .. Len(calls) \/ k = Len(calls) + 1
        BY <1>1, <1>2
    <2>2. CASE k \in 1 .. Len(calls)
        <3>1. k \in DOMAIN calls
            BY <1>1, <2>2
        <3>2. QED
            BY <1>2, <1>3, <2>2, <3>1
    <2>3. CASE k = Len(calls) + 1
        BY <1>2, <2>3
    <2>4. QED
        BY <2>1, <2>2, <2>3
<1>5. QED
    BY <1>2, <1>4 DEF CallsAreCommands, IsWord

LEMMA InvNext ==
    ASSUME Inv, [Next]_vars
    PROVE  Inv'
<1>0. /\ in \in Seq(Byte) /\ Len(in) \in Nat /\ i \in 1 .. Len(in) + 1 /\ j \in 1 .. Len(in) + 1
      /\ TypeOK /\ LoopInv /\ CallsAreCommands
    BY DEF Inv, TypeOK
<1>1. ASSUME OtherByte PROVE Inv'
    BY <1>0, <1>1 DEF OtherByte, Inv, TypeOK, LoopInv, CallsAreCommands
<1>2. ASSUME NEW m \in DOMAIN in, Newline(m) PROVE Inv'
    <2>1. /\ pc = "loop" /\ pc' = "loop" /\ j <= Len(in) /\ in[j] = NL
          /\ in' = [in EXCEPT ![j] = NUL] /\ i' = j + 1 /\ j' = j + 1 /\ data' = data
          /\ StringEndsAt(in', i, m)
          /\ calls' = IF m > i THEN Append(calls, SubSeq(in', i, m - 1)) ELSE calls
        BY <1>2 DEF Newline
    <2>2. /\ in' \in Seq(Byte) /\ Len(in') = Len(in) /\ j \in 1 .. Len(in)
          /\ \A x \in 1 .. Len(in) : in'[x] = IF x = j THEN NUL ELSE in[x]
        BY <1>0, <2>1
    <2>3. Len(in) > 0 /\ in[Len(in)] = NUL /\ i <= j /\ i <= Len(in) /\ \A x \in i .. j - 1 : in[x] # NL
        BY <1>0, <2>1 DEF LoopInv
    <2>4. j < Len(in) /\ in'[Len(in)] = NUL
        <3>1. j # Len(in)
            BY <2>1, <2>3
        <3>2. j < Len(in) /\ Len(in) \in 1 .. Len(in)
            BY <1>0, <2>1, <2>3, <3>1
        <3>3. QED
            BY <2>2, <2>3, <3>1, <3>2
    <2>5. m <= j
        <3>1. \A x \in i .. m - 1 : in'[x] # NUL
            BY <2>1 DEF StringEndsAt
        <3>2. in'[j] = NUL
            BY <2>2
        <3>3. m \in Int
            BY <1>0
        <3>4. QED
            BY <1>0, <2>3, <3>1, <3>2, <3>3
    <2>6. \A x \in i .. m - 1 : in'[x] # NL
        <3>1. \A x \in i .. m - 1 : x \in i .. j - 1 /\ x \in 1 .. Len(in) /\ x # j
            BY <1>0, <2>3, <2>4, <2>5
        <3>2. QED
            BY <2>2, <2>3, <3>1
    <2>7. calls' \in Seq(Seq(Byte)) /\ CallsAreCommands'
        <3>1. CASE m > i
            <4>1. i \in 1 .. Len(in') /\ m \in 1 .. Len(in')
                BY <1>0, <2>2, <2>3
            <4> DEFINE w == SubSeq(in', i, m - 1)
            <4>2. w \in Seq(Byte) /\ IsWord(w) /\ w # <<>>
                BY <2>1, <2>2, <2>6, <3>1, <4>1, CutString
            <4> HIDE DEF w
            <4>3. calls' = Append(calls, w)
                BY <2>1, <3>1 DEF w
            <4>4. QED
                BY <1>0, <2>1, <4>2, <4>3, OneMoreCall
        <3>2. CASE ~(m > i)
            BY <1>0, <2>1, <3>2 DEF TypeOK, CallsAreCommands
        <3>3. QED
            BY <3>1, <3>2
    <2>8. LoopInv'
        <3>1. i' <= j' /\ i' <= Len(in') /\ Len(in') > 0 /\ in'[Len(in')] = NUL
            <4>1. i' = j + 1 /\ j' = j + 1 /\ j \in Int
                BY <1>0, <2>1
            <4>2. Len(in') = Len(in) /\ Len(in) \in Int /\ Len(in) > 0
                BY <1>0, <2>2, <2>3
            <4>3. QED
                BY <2>4, <4>1, <4>2
        <3>2. \A x \in i' .. j' - 1 : FALSE
            <4>1. i' = j + 1 /\ j' - 1 = j /\ j \in Int
                BY <1>0, <2>1
            <4>2. QED
                BY <4>1
        <3>3. QED
            BY <3>1, <3>2 DEF LoopInv
    <2>9. TypeOK'
        BY <1>0, <2>1, <2>2, <2>4, <2>7 DEF TypeOK
    <2>10. QED
        BY <2>7, <2>8, <2>9 DEF Inv
<1>3. ASSUME Finish PROVE Inv'
    <2>1. pc = "loop" /\ pc' = "done" /\ j > Len(in) /\ UNCHANGED <<data, in, i, j>>
        BY <1>3 DEF Finish
    <2>2. j = Len(in) + 1 /\ i <= Len(in) /\ \A x \in i .. Len(in) : in[x] # NL
        <3>1. i <= Len(in) /\ \A x \in i .. j - 1 : in[x] # NL
            BY <1>0, <2>1 DEF LoopInv
        <3>2. j = Len(in) + 1 /\ j - 1 = Len(in)
            BY <1>0, <2>1
        <3>3. QED
            BY <3>1, <3>2
    <2>3. PICK m \in DOMAIN in : StringEndsAt(in, i, m) /\ calls' = Append(calls, SubSeq(in, i, m - 1))
        <3>1. i # j
            BY <1>0, <2>2
        <3>2. QED
            BY <1>3, <3>1 DEF Finish
    <2> DEFINE w == SubSeq(in, i, m - 1)
    <2>4. w \in Seq(Byte) /\ IsWord(w)
        <3>1. i \in 1 .. Len(in) /\ m \in 1 .. Len(in) /\ \A x \in i .. m - 1 : in[x] # NL
            BY <1>0, <2>2
        <3>2. QED
            BY <1>0, <2>3, <3>1, CutString
    <2> HIDE DEF w
    <2>5. calls' = Append(calls, w)
        BY <2>3 DEF w
    <2>6. calls' \in Seq(Seq(Byte)) /\ CallsAreCommands'
        BY <1>0, <2>1, <2>4, <2>5, OneMoreCall
    <2>7. QED
        BY <2>1, <2>6 DEF Inv, TypeOK, LoopInv
<1>4. ASSUME UNCHANGED vars PROVE Inv'
    BY <1>4 DEF vars, Inv, TypeOK, LoopInv, CallsAreCommands
<1>5. QED
    BY <1>1, <1>2, <1>3, <1>4 DEF Next

(***************************************************************************)
(* Type correctness: in[j] (cli_server.c:92-94) is always a byte of the    *)
(* buffer.                                                                 *)
(***************************************************************************)
THEOREM ParserTypes == Spec => []TypeOK
<1>1. Inv => TypeOK
    BY DEF Inv
<1>2. QED
    BY <1>1, InvInit, InvNext, PTL DEF Spec

(***************************************************************************)
(* strlen never runs past the received bytes (cli_server.c:96, 104).       *)
(***************************************************************************)
THEOREM ParserStaysInside == Spec => []StrlenStaysInside
<1>1. Inv => StrlenStaysInside
    <2>1. ASSUME Inv, pc = "loop" PROVE i <= Len(in) /\ \E m \in i .. Len(in) : in[m] = NUL
        <3>1. i <= Len(in) /\ in[Len(in)] = NUL /\ i \in Nat /\ Len(in) \in Nat
            BY <2>1 DEF Inv, LoopInv, TypeOK
        <3>2. Len(in) \in i .. Len(in)
            BY <3>1
        <3>3. QED
            BY <3>1, <3>2
    <2>2. QED
        BY <2>1 DEF StrlenStaysInside
<1>2. QED
    BY <1>1, InvInit, InvNext, PTL DEF Spec

(***************************************************************************)
(* The callback is never given a newline or a 0, and an empty command only *)
(* at the end (cli_server.c:98, 106).                                      *)
(***************************************************************************)
THEOREM ParserCalls == Spec => []CallsAreCommands
<1>1. Inv => CallsAreCommands
    BY DEF Inv
<1>2. QED
    BY <1>1, InvInit, InvNext, PTL DEF Spec

-----------------------------------------------------------------------------
(* The pieces of a buffer in order: Nth counts, which is laborious to      *)
(* reason about; an increasing enumeration says the same.                  *)

Enumerates(g, n, S) ==
    /\ n \in Nat /\ g \in [1 .. n -> S]
    /\ \A p \in S : \E k \in 1 .. n : g[k] = p
    /\ \A k, m \in 1 .. n : k < m => g[k] < g[m]

LEMMA EnumerationIsNth ==
    ASSUME NEW S, S \subseteq Int, NEW n, NEW g, Enumerates(g, n, S)
    PROVE  /\ Cardinality(S) = n
           /\ \A k \in 1 .. n : Nth(S, k) = g[k]
<1>1. /\ n \in Nat /\ g \in [1 .. n -> S]
      /\ \A p \in S : \E k \in 1 .. n : g[k] = p
      /\ \A k, m \in 1 .. n : k < m => g[k] < g[m]
    BY DEF Enumerates
<1>2. \A k \in 1 .. n : g[k] \in S /\ g[k] \in Int
    BY <1>1
<1>3. \A k, m \in 1 .. n : (g[k] <= g[m]) <=> (k <= m)
    <2>1. SUFFICES ASSUME NEW k \in 1 .. n, NEW m \in 1 .. n
                   PROVE  (g[k] <= g[m]) <=> (k <= m)
        OBVIOUS
    <2>2. k < m \/ k = m \/ m < k
        BY <1>1
    <2>3. (k < m => g[k] < g[m]) /\ (m < k => g[m] < g[k])
        BY <1>1
    <2>4. g[k] \in Int /\ g[m] \in Int /\ k \in Int /\ m \in Int
        BY <1>1, <1>2
    <2>5. QED
        BY <2>2, <2>3, <2>4
<1>4. \A k, m \in 1 .. n : g[k] = g[m] => k = m
    <2>1. SUFFICES ASSUME NEW k \in 1 .. n, NEW m \in 1 .. n, g[k] = g[m]
                   PROVE  k = m
        OBVIOUS
    <2>2. g[k] <= g[m] /\ g[m] <= g[k]
        BY <1>2, <2>1
    <2>3. k <= m /\ m <= k /\ k \in Int /\ m \in Int
        BY <1>1, <1>3, <2>2
    <2>4. QED
        BY <2>3
<1>5. ASSUME NEW m \in 0 .. n, NEW T, T \subseteq S,
             \A k \in 1 .. n : g[k] \in T <=> k <= m
      PROVE  Cardinality(T) = m
    <2>1. m \in Nat /\ \A k \in 1 .. m : k \in 1 .. n /\ k <= m
        BY <1>1
    <2>2. \A k \in 1 .. m : g[k] \in T
        BY <1>5, <2>1
    <2> DEFINE h == [k \in 1 .. m |-> g[k]]
    <2>3. h \in [1 .. m -> T]
        BY <2>2
    <2>4. \A k, l \in 1 .. m : h[k] = h[l] => k = l
        BY <1>4, <2>1
    <2>5. \A p \in T : \E k \in 1 .. m : h[k] = p
        <3>1. SUFFICES ASSUME NEW p \in T PROVE \E k \in 1 .. m : h[k] = p
            OBVIOUS
        <3>2. PICK k \in 1 .. n : g[k] = p
            BY <1>1, <1>5
        <3>3. k \in 1 .. m
            BY <1>1, <1>5, <2>1, <3>2
        <3>4. QED
            BY <3>2, <3>3
    <2>6. h \in Bijection(1 .. m, T)
        BY <2>3, <2>4, <2>5 DEF Bijection, Injection, Surjection, IsInjective
    <2>7. QED
        BY <2>1, <2>6, FS_CountingElements DEF ExistsBijection
<1>6. Cardinality(S) = n
    <2>1. n \in 0 .. n /\ \A k \in 1 .. n : g[k] \in S /\ k <= n
        BY <1>1, <1>2
    <2>2. QED
        BY <1>5, <2>1
<1>7. ASSUME NEW k \in 1 .. n PROVE Nth(S, k) = g[k]
    <2>1. \A m \in 1 .. n : Cardinality({q \in S : q <= g[m]}) = m
        <3>1. SUFFICES ASSUME NEW m \in 1 .. n
                       PROVE  Cardinality({q \in S : q <= g[m]}) = m
            OBVIOUS
        <3>2. PICK T : T = {q \in S : q <= g[m]}
            OBVIOUS
        <3>3. m \in 0 .. n /\ T \subseteq S
            BY <3>2
        <3>4. \A l \in 1 .. n : g[l] \in T <=> l <= m
            BY <1>2, <1>3, <3>2
        <3>5. QED
            BY <1>5, <3>2, <3>3, <3>4
    <2>2. \A p \in S : Cardinality({q \in S : q <= p}) = k => p = g[k]
        <3>1. SUFFICES ASSUME NEW p \in S, Cardinality({q \in S : q <= p}) = k
                       PROVE  p = g[k]
            OBVIOUS
        <3>2. PICK m \in 1 .. n : g[m] = p
            BY <1>1
        <3>3. QED
            BY <2>1, <3>1, <3>2
    <2>3. g[k] \in S /\ Cardinality({q \in S : q <= g[k]}) = k
        BY <1>2, <2>1
    <2>4. QED
        BY <2>2, <2>3 DEF Nth
<1>8. QED
    BY <1>6, <1>7

LEMMA EnumerationGrows ==
    ASSUME NEW S, S \subseteq Int, NEW n, NEW g, Enumerates(g, n, S),
           NEW p \in Int, \A q \in S : q < p
    PROVE  Enumerates([k \in 1 .. n + 1 |-> IF k = n + 1 THEN p ELSE g[k]], n + 1, S \cup {p})
<1>1. /\ n \in Nat /\ g \in [1 .. n -> S]
      /\ \A q \in S : \E k \in 1 .. n : g[k] = q
      /\ \A k, m \in 1 .. n : k < m => g[k] < g[m]
    BY DEF Enumerates
<1> DEFINE h == [k \in 1 .. n + 1 |-> IF k = n + 1 THEN p ELSE g[k]]
<1>2. \A k \in 1 .. n + 1 : k = n + 1 \/ (k # n + 1 /\ k \in 1 .. n)
    BY <1>1
<1>3. h[n + 1] = p /\ \A k \in 1 .. n : h[k] = g[k] /\ g[k] \in S /\ k # n + 1 /\ k \in 1 .. n + 1
    BY <1>1
<1>4. h \in [1 .. n + 1 -> S \cup {p}]
    BY <1>2, <1>3
<1>5. \A q \in S \cup {p} : \E k \in 1 .. n + 1 : h[k] = q
    <2>1. n + 1 \in 1 .. n + 1
        BY <1>1
    <2>2. QED
        BY <1>1, <1>3, <2>1
<1> HIDE DEF h
<1>6. \A k, m \in 1 .. n + 1 : k < m => h[k] < h[m]
    <2>1. SUFFICES ASSUME NEW k \in 1 .. n + 1, NEW m \in 1 .. n + 1, k < m
                   PROVE  h[k] < h[m]
        OBVIOUS
    <2>2. k \in 1 .. n
        BY <1>1, <2>1
    <2>3. CASE m = n + 1
        BY <1>3, <2>2, <2>3
    <2>4. CASE m \in 1 .. n
        BY <1>1, <1>3, <2>1, <2>2, <2>4
    <2>5. QED
        BY <1>2, <2>3, <2>4
<1>7. QED
    BY <1>1, <1>4, <1>5, <1>6 DEF Enumerates, h

LEMMA MinIs ==
    ASSUME NEW T, T \subseteq Int, NEW m \in T, \A n \in T : m <= n
    PROVE  Min(T) = m
<1>1. Min(T) \in T /\ \A n \in T : Min(T) <= n
    BY DEF Min
<1>2. Min(T) <= m /\ m <= Min(T) /\ m \in Int /\ Min(T) \in Int
    BY <1>1
<1>3. QED
    BY <1>2

LEMMA MaxIs ==
    ASSUME NEW T, T \subseteq Int, NEW m \in T, \A n \in T : n <= m
    PROVE  Max(T) = m
<1>1. Max(T) \in T /\ \A n \in T : Max(T) >= n
    BY DEF Max
<1>2. Max(T) >= m /\ Max(T) <= m /\ m \in Int /\ Max(T) \in Int
    BY <1>1
<1>3. QED
    BY <1>2

\* A C string that begins at a, cut where strlen stops.
LEMMA UpToNulCuts ==
    ASSUME NEW B, NEW s \in Seq(B), NEW a \in 1 .. Len(s) + 1, NEW b \in 0 .. Len(s),
           NEW m \in a .. b + 1,
           \A x \in a .. m - 1 : s[x] # NUL,
           m <= b => s[m] = NUL
    PROVE  UpToNul(SubSeq(s, a, b)) = SubSeq(s, a, m - 1)
<1>1. Len(s) \in Nat /\ a \in Int /\ b \in Int /\ m \in Int /\ a <= m /\ m <= b + 1
    OBVIOUS
<1>2. \A x \in a .. b : s[x] \in B
    OBVIOUS
<1> PICK t : t = SubSeq(s, a, b)
    OBVIOUS
<1>3. t \in Seq(B) /\ Len(t) = b - a + 1 /\ \A x \in 1 .. b - a + 1 : t[x] = s[a + x - 1]
    <2>1. /\ SubSeq(s, a, b) \in Seq(B)
          /\ Len(SubSeq(s, a, b)) = IF a <= b THEN b - a + 1 ELSE 0
          /\ \A x \in 1 .. b - a + 1 : SubSeq(s, a, b)[x] = s[a + x - 1]
        BY <1>1, <1>2, SubSeqProperties
    <2>2. QED
        BY <1>1, <2>1
<1>4. DOMAIN t = 1 .. b - a + 1
    BY <1>3
<1>5. \A x \in 1 .. m - a : t[x] # NUL
    <2>1. SUFFICES ASSUME NEW x \in 1 .. m - a PROVE t[x] # NUL
        OBVIOUS
    <2>2. x \in 1 .. b - a + 1 /\ a + x - 1 \in a .. m - 1
        BY <1>1
    <2>3. QED
        BY <1>3, <2>2
<1> PICK Z : Z = {x \in DOMAIN t : t[x] = NUL}
    OBVIOUS
<1>6. CASE m = b + 1
    <2>1. Z = {}
        BY <1>1, <1>4, <1>5, <1>6
    <2>2. UpToNul(t) = t
        BY <2>1 DEF UpToNul
    <2>3. QED
        BY <1>1, <1>6, <2>2
<1>7. CASE m <= b
    <2>1. m - a + 1 \in 1 .. b - a + 1 /\ t[m - a + 1] = s[m] /\ s[m] = NUL
        <3>1. m - a + 1 \in 1 .. b - a + 1
            BY <1>1, <1>7
        <3>2. \A x \in 1 .. b - a + 1 : x = m - a + 1 => t[x] = s[m]
            BY <1>1, <1>3
        <3>3. s[m] = NUL
            BY <1>7
        <3>4. QED
            BY <3>1, <3>2, <3>3
    <2>2. m - a + 1 \in Z /\ Z \subseteq Int
        BY <1>4, <2>1
    <2>3. \A x \in Z : m - a + 1 <= x
        <3>1. SUFFICES ASSUME NEW x \in Z PROVE m - a + 1 <= x
            OBVIOUS
        <3>2. x \in 1 .. b - a + 1 /\ t[x] = NUL
            BY <1>4
        <3>3. x \notin 1 .. m - a
            BY <1>5, <3>2
        <3>4. QED
            BY <1>1, <3>2, <3>3
    <2>4. Min(Z) = m - a + 1 /\ Z # {}
        BY <2>2, <2>3, MinIs
    <2>5. UpToNul(t) = SubSeq(t, 1, m - a)
        <3>1. m - a + 1 - 1 = m - a
            BY <1>1
        <3>2. UpToNul(t) = IF Z = {} THEN t ELSE SubSeq(t, 1, Min(Z) - 1)
            BY Zenon DEF UpToNul
        <3>3. UpToNul(t) = SubSeq(t, 1, Min(Z) - 1)
            BY <2>4, <3>2, Zenon
        <3>4. QED
            BY <2>4, <3>1, <3>3
    <2>6. /\ SubSeq(t, 1, m - a) \in Seq(B)
          /\ Len(SubSeq(t, 1, m - a)) = IF 1 <= m - a THEN m - a - 1 + 1 ELSE 0
          /\ \A x \in 1 .. m - a - 1 + 1 : SubSeq(t, 1, m - a)[x] = t[1 + x - 1]
        <3>1. 1 \in Int /\ m - a \in Int /\ \A x \in 1 .. m - a : t[x] \in B
            <4>1. m - a <= b - a + 1
                BY <1>1
            <4>2. QED
                BY <1>1, <1>3, <4>1
        <3>2. QED
            BY <3>1, SubSeqProperties
    <2>7. /\ SubSeq(s, a, m - 1) \in Seq(B)
          /\ Len(SubSeq(s, a, m - 1)) = IF a <= m - 1 THEN m - 1 - a + 1 ELSE 0
          /\ \A x \in 1 .. m - 1 - a + 1 : SubSeq(s, a, m - 1)[x] = s[a + x - 1]
        <3>1. m - 1 \in Int /\ \A x \in a .. m - 1 : s[x] \in B
            BY <1>1, <1>2, <1>7
        <3>2. QED
            BY <1>1, <3>1, SubSeqProperties
    <2>8. \A x \in 1 .. m - a : SubSeq(t, 1, m - a)[x] = SubSeq(s, a, m - 1)[x]
        <3>1. SUFFICES ASSUME NEW x \in 1 .. m - a
                       PROVE  SubSeq(t, 1, m - a)[x] = SubSeq(s, a, m - 1)[x]
            OBVIOUS
        <3>2. /\ x \in 1 .. m - a - 1 + 1 /\ x \in 1 .. m - 1 - a + 1 /\ x \in 1 .. b - a + 1
              /\ 1 + x - 1 = x
            BY <1>1
        <3>3. QED
            BY <1>3, <2>6, <2>7, <3>2
    <2>9. SubSeq(t, 1, m - a) = SubSeq(s, a, m - 1)
        <3>1. Len(SubSeq(t, 1, m - a)) = m - a /\ Len(SubSeq(s, a, m - 1)) = m - a
            BY <1>1, <2>6, <2>7
        <3>2. QED
            BY <2>6, <2>7, <2>8, <3>1, SeqEqual
    <2>10. QED
        BY <2>5, <2>9
<1>8. QED
    BY <1>1, <1>6, <1>7

\* What strlen measures does not depend on the rest of the buffer.
LEMMA SamePiece ==
    ASSUME NEW B, NEW s \in Seq(B), NEW u \in Seq(B), NEW a \in 1 .. Len(s) + 1,
           NEW b \in Int, b <= Len(s), Len(u) = Len(s), \A x \in a .. b : u[x] = s[x]
    PROVE  SubSeq(u, a, b) = SubSeq(s, a, b)
<1>1. a \in Int /\ \A x \in a .. b : s[x] \in B /\ u[x] \in B
    OBVIOUS
<1>2. /\ SubSeq(s, a, b) \in Seq(B)
      /\ Len(SubSeq(s, a, b)) = IF a <= b THEN b - a + 1 ELSE 0
      /\ \A x \in 1 .. b - a + 1 : SubSeq(s, a, b)[x] = s[a + x - 1]
    BY <1>1, SubSeqProperties
<1>3. /\ SubSeq(u, a, b) \in Seq(B)
      /\ Len(SubSeq(u, a, b)) = IF a <= b THEN b - a + 1 ELSE 0
      /\ \A x \in 1 .. b - a + 1 : SubSeq(u, a, b)[x] = u[a + x - 1]
    BY <1>1, SubSeqProperties
<1>4. \A x \in 1 .. Len(SubSeq(u, a, b)) : SubSeq(u, a, b)[x] = SubSeq(s, a, b)[x]
    <2>1. SUFFICES ASSUME NEW x \in 1 .. Len(SubSeq(u, a, b))
                   PROVE  SubSeq(u, a, b)[x] = SubSeq(s, a, b)[x]
        OBVIOUS
    <2>2. x \in 1 .. b - a + 1 /\ a + x - 1 \in a .. b
        BY <1>1, <1>3
    <2>3. QED
        BY <1>2, <1>3, <2>2
<1>5. QED
    BY <1>2, <1>3, <1>4, SeqEqual

\* The strings of c are those that end in S.
Listed(c, s, S) ==
    \E g : /\ Enumerates(g, Len(c), S)
           /\ \A k \in 1 .. Len(c) : c[k] = UpToNul(Piece(s, g[k]))

LEMMA ListedGrows ==
    ASSUME NEW W, NEW c \in Seq(W), NEW s, NEW S, S \subseteq Int, Listed(c, s, S),
           NEW p \in Int, \A q \in S : q < p, UpToNul(Piece(s, p)) \in W
    PROVE  Listed(Append(c, UpToNul(Piece(s, p))), s, S \cup {p})
<1>1. PICK g : /\ Enumerates(g, Len(c), S)
               /\ \A k \in 1 .. Len(c) : c[k] = UpToNul(Piece(s, g[k]))
    BY DEF Listed
<1>2. Len(c) \in Nat
    OBVIOUS
<1> PICK w : w = UpToNul(Piece(s, p))
    OBVIOUS
<1>3. /\ Len(Append(c, w)) = Len(c) + 1 /\ Append(c, w)[Len(c) + 1] = w
      /\ \A k \in 1 .. Len(c) : Append(c, w)[k] = c[k]
    BY AppendProperties
<1> PICK h : h = [k \in 1 .. Len(c) + 1 |-> IF k = Len(c) + 1 THEN p ELSE g[k]]
    OBVIOUS
<1>4. Enumerates(h, Len(c) + 1, S \cup {p})
    BY <1>1, EnumerationGrows
<1>5. h[Len(c) + 1] = p /\ \A k \in 1 .. Len(c) : h[k] = g[k]
    BY <1>2
<1>6. \A k \in 1 .. Len(c) + 1 : Append(c, w)[k] = UpToNul(Piece(s, h[k]))
    <2>1. SUFFICES ASSUME NEW k \in 1 .. Len(c) + 1
                   PROVE  Append(c, w)[k] = UpToNul(Piece(s, h[k]))
        OBVIOUS
    <2>2. k = Len(c) + 1 \/ k \in 1 .. Len(c)
        BY <1>2
    <2>3. QED
        BY <1>1, <1>3, <1>5, <2>2
<1>7. QED
    BY <1>3, <1>4, <1>6 DEF Listed

LEMMA ListedIsAll ==
    ASSUME NEW W, NEW c \in Seq(W), NEW s, CommandEnds(s) \subseteq Int,
           Listed(c, s, CommandEnds(s))
    PROVE  c = Commands(s)
<1>1. PICK g : /\ Enumerates(g, Len(c), CommandEnds(s))
               /\ \A k \in 1 .. Len(c) : c[k] = UpToNul(Piece(s, g[k]))
    BY DEF Listed
<1>2. /\ Cardinality(CommandEnds(s)) = Len(c)
      /\ \A k \in 1 .. Len(c) : Nth(CommandEnds(s), k) = g[k]
    BY <1>1, EnumerationIsNth
<1>3. Commands(s) = [k \in 1 .. Len(c) |-> UpToNul(Piece(s, Nth(CommandEnds(s), k)))]
    BY <1>2 DEF Commands
<1>4. \A k \in 1 .. Len(c) : c[k] = UpToNul(Piece(s, Nth(CommandEnds(s), k)))
    BY <1>1, <1>2
<1>5. c = [k \in 1 .. Len(c) |-> c[k]]
    OBVIOUS
<1>6. QED
    BY <1>3, <1>4, <1>5

(***************************************************************************)
(* What has been handed over are the strings that end before the loop's    *)
(* byte; the newlines up to there have been overwritten, and the piece at  *)
(* hand begins after the last of them.                                     *)
(***************************************************************************)
EndsBefore(n) == {p \in Ends(data) : p < n /\ UpToNul(Piece(data, p)) # <<>>}

Progress ==
    /\ \A x \in 1 .. Len(data) : in[x] = IF x < j /\ data[x] = NL THEN NUL ELSE data[x]
    /\ i - 1 \in Ends(data) \cup {0}
    /\ \A x \in i .. j - 1 : data[x] # NL
    /\ Listed(calls, data, EndsBefore(j))

MatchInv ==
    /\ pc = "loop" => data[Len(data)] = NUL /\ Progress
    /\ CallsMatchReference

LEMMA MatchInit == Init => MatchInv
<1> SUFFICES ASSUME Init PROVE MatchInv
    OBVIOUS
<1>1. /\ pc = "loop" /\ data \in Seq(Byte) /\ data[Len(data)] = NUL /\ in = data
      /\ i = 1 /\ j = 1 /\ calls = <<>>
    BY DEF Init
<1>2. EndsBefore(1) = {}
    BY <1>1 DEF EndsBefore, Ends
<1>3. Listed(calls, data, {})
    <2>1. Enumerates([k \in 1 .. 0 |-> 0], 0, {}) /\ Len(calls) = 0
        BY <1>1 DEF Enumerates
    <2>2. \A k \in 1 .. Len(calls) : FALSE
        BY <1>1
    <2>3. QED
        BY <2>1, <2>2 DEF Listed
<1>4. /\ \A x \in 1 .. Len(data) : in[x] = IF x < j /\ data[x] = NL THEN NUL ELSE data[x]
      /\ i - 1 = 0
      /\ \A x \in i .. j - 1 : FALSE
    BY <1>1
<1>5. Progress
    BY <1>1, <1>2, <1>3, <1>4 DEF Progress
<1>6. QED
    BY <1>1, <1>5 DEF MatchInv, CallsMatchReference

\* What strlen measures from i on is the string that ends in j.
LEMMA PieceAtHand ==
    ASSUME Inv, pc = "loop", Progress,
           NEW u \in Seq(Byte), Len(u) = Len(data), \A x \in i .. j - 1 : u[x] = in[x],
           NEW m \in i .. j, StringEndsAt(u, i, m)
    PROVE  SubSeq(u, i, m - 1) = UpToNul(Piece(data, j))
<1>1. /\ data \in Seq(Byte) /\ Len(data) \in Nat /\ Len(in) = Len(data)
      /\ i \in 1 .. Len(data) /\ j \in 1 .. Len(data) + 1 /\ i <= j
    BY DEF Inv, TypeOK, LoopInv
<1>2. /\ \A x \in 1 .. Len(data) : in[x] = IF x < j /\ data[x] = NL THEN NUL ELSE data[x]
      /\ i - 1 \in Ends(data) \cup {0}
      /\ \A x \in i .. j - 1 : data[x] # NL
    BY DEF Progress
<1>3. \A x \in i .. j - 1 : u[x] = data[x] /\ x \in 1 .. Len(data)
    <2>1. SUFFICES ASSUME NEW x \in i .. j - 1
                   PROVE  u[x] = data[x] /\ x \in 1 .. Len(data)
        OBVIOUS
    <2>2. x \in 1 .. Len(data)
        BY <1>1
    <2>3. data[x] # NL /\ u[x] = in[x]
        BY <1>2
    <2>4. in[x] = data[x]
        BY <1>2, <2>2, <2>3
    <2>5. QED
        BY <2>2, <2>3, <2>4
<1>4. Piece(data, j) = SubSeq(data, i, j - 1)
    <2> PICK T : T = {q \in Ends(data) : q < j} \cup {0}
        OBVIOUS
    <2>1. T \subseteq Int /\ i - 1 \in T
        BY <1>1, <1>2 DEF Ends
    <2>2. \A q \in T : q <= i - 1
        <3>1. SUFFICES ASSUME NEW q \in T PROVE q <= i - 1
            OBVIOUS
        <3>2. q = 0 \/ (q \in 1 .. Len(data) /\ data[q] = NL /\ q < j)
            BY <1>1 DEF Ends
        <3>3. q \notin i .. j - 1 \/ q = 0
            BY <1>2, <3>2
        <3>4. QED
            BY <1>1, <3>2, <3>3
    <2>3. Max(T) = i - 1
        BY <2>1, <2>2, MaxIs
    <2>4. Piece(data, j) = SubSeq(data, Max(T) + 1, j - 1)
        BY Zenon DEF Piece
    <2>5. Max(T) + 1 = i
        BY <1>1, <2>3
    <2>6. QED
        BY <2>4, <2>5
<1>5. m \in Int /\ i <= m /\ m <= j
    BY <1>1
<1>6. u[m] = NUL /\ \A x \in i .. m - 1 : u[x] # NUL
    BY DEF StringEndsAt
<1>7. UpToNul(SubSeq(data, i, j - 1)) = SubSeq(data, i, m - 1)
    <2>1. \A x \in i .. m - 1 : data[x] # NUL
        <3>1. \A x \in i .. m - 1 : x \in i .. j - 1
            BY <1>1, <1>5
        <3>2. QED
            BY <1>3, <1>6, <3>1
    <2>2. m <= j - 1 => data[m] = NUL
        <3>1. m <= j - 1 => m \in i .. j - 1
            BY <1>1, <1>5
        <3>2. QED
            BY <1>3, <1>6, <3>1
    <2>3. i \in 1 .. Len(data) + 1 /\ j - 1 \in 0 .. Len(data) /\ m \in i .. (j - 1) + 1
        BY <1>1, <1>5
    <2>4. QED
        BY <1>1, <2>1, <2>2, <2>3, UpToNulCuts
<1>8. SubSeq(u, i, m - 1) = SubSeq(data, i, m - 1)
    <2>1. /\ i \in 1 .. Len(data) + 1 /\ m - 1 \in Int /\ m - 1 <= Len(data)
          /\ \A x \in i .. m - 1 : x \in i .. j - 1
        BY <1>1, <1>5
    <2>2. QED
        BY <1>1, <1>3, <2>1, SamePiece
<1>9. QED
    BY <1>4, <1>7, <1>8

LEMMA MatchNewline ==
    ASSUME Inv, MatchInv, NEW m \in DOMAIN in, Newline(m)
    PROVE  MatchInv'
<1>1. /\ pc = "loop" /\ pc' = "loop" /\ in[j] = NL /\ j <= Len(in)
      /\ in' = [in EXCEPT ![j] = NUL] /\ i' = j + 1 /\ j' = j + 1 /\ data' = data
      /\ StringEndsAt(in', i, m)
      /\ calls' = IF m > i THEN Append(calls, SubSeq(in', i, m - 1)) ELSE calls
    BY DEF Newline
<1>2. /\ data \in Seq(Byte) /\ Len(data) \in Nat /\ Len(in) = Len(data) /\ in \in Seq(Byte)
      /\ calls \in Seq(Seq(Byte))
      /\ i \in 1 .. Len(data) /\ j \in 1 .. Len(data) /\ i <= j
    BY <1>1 DEF Inv, TypeOK, LoopInv
<1>3. Progress /\ data[Len(data)] = NUL
    BY <1>1 DEF MatchInv
<1>4. /\ \A x \in 1 .. Len(data) : in[x] = IF x < j /\ data[x] = NL THEN NUL ELSE data[x]
      /\ Listed(calls, data, EndsBefore(j))
    BY <1>3 DEF Progress
<1>5. /\ in' \in Seq(Byte) /\ Len(in') = Len(data)
      /\ \A x \in 1 .. Len(data) : in'[x] = IF x = j THEN NUL ELSE in[x]
    BY <1>1, <1>2
<1>6. data[j] = NL /\ j \in Ends(data)
    <2>1. in[j] = data[j]
        BY <1>2, <1>4
    <2>2. QED
        BY <1>1, <1>2, <2>1 DEF Ends
<1>7. m \in i .. j
    <2>1. m \in Int /\ i <= m /\ \A x \in i .. m - 1 : in'[x] # NUL
        BY <1>1, <1>2 DEF StringEndsAt
    <2>2. in'[j] = NUL /\ j \notin i .. m - 1
        BY <1>2, <1>5, <2>1
    <2>3. QED
        BY <1>2, <2>1, <2>2
<1>8. PICK t : t = SubSeq(in', i, m - 1)
    OBVIOUS
<1>9. t = UpToNul(Piece(data, j))
    <2>1. \A x \in i .. j - 1 : x \in 1 .. Len(data) /\ x # j
        BY <1>2
    <2>2. \A x \in i .. j - 1 : in'[x] = in[x]
        BY <1>5, <2>1
    <2>3. QED
        BY <1>1, <1>3, <1>5, <1>7, <1>8, <2>2, PieceAtHand
<1>10. t \in Seq(Byte) /\ (t = <<>> <=> ~(m > i))
    <2>1. i \in Int /\ m - 1 \in Int /\ \A x \in i .. m - 1 : in'[x] \in Byte
        <3>1. i \in Int /\ m - 1 \in Int /\ \A x \in i .. m - 1 : x \in 1 .. Len(data)
            BY <1>2, <1>7
        <3>2. QED
            BY <1>5, <3>1
    <2>2. t \in Seq(Byte) /\ Len(t) = IF i <= m - 1 THEN m - 1 - i + 1 ELSE 0
        BY <1>8, <2>1, SubSeqProperties
    <2>3. m > i <=> Len(t) # 0
        BY <1>2, <1>7, <2>2
    <2>4. Len(t) = 0 <=> t = <<>>
        BY <2>2, EmptySeq
    <2>5. QED
        BY <2>2, <2>3, <2>4
<1>11. Listed(calls', data, EndsBefore(j + 1))
    <2>1. EndsBefore(j) \subseteq Int /\ \A q \in EndsBefore(j) : q < j
        BY <1>2 DEF EndsBefore, Ends
    <2>2. CASE m > i
        <3>1. EndsBefore(j + 1) = EndsBefore(j) \cup {j}
            <4>1. UpToNul(Piece(data, j)) # <<>>
                BY <1>9, <1>10, <2>2
            <4>2. \A q \in Ends(data) : q < j + 1 <=> q < j \/ q = j
                BY <1>2 DEF Ends
            <4>3. j < j + 1
                BY <1>2
            <4>4. QED
                BY <1>6, <4>1, <4>2, <4>3 DEF EndsBefore
        <3>2. j \in Int /\ UpToNul(Piece(data, j)) \in Seq(Byte)
            BY <1>2, <1>9, <1>10
        <3>3. calls' = Append(calls, UpToNul(Piece(data, j)))
            <4>1. calls' = Append(calls, t)
                BY <1>1, <1>8, <2>2
            <4>2. QED
                BY <1>9, <4>1
        <3>4. Listed(calls, data, EndsBefore(j)) /\ calls \in Seq(Seq(Byte))
            BY <1>2, <1>4
        <3>5. Listed(Append(calls, UpToNul(Piece(data, j))), data, EndsBefore(j) \cup {j})
            BY <2>1, <3>2, <3>4, ListedGrows
        <3>6. QED
            BY <3>1, <3>3, <3>5
    <2>3. CASE ~(m > i)
        <3>1. EndsBefore(j + 1) = EndsBefore(j)
            <4>1. UpToNul(Piece(data, j)) = <<>>
                BY <1>9, <1>10, <2>3
            <4>2. \A q \in Ends(data) : q < j + 1 <=> q < j \/ q = j
                BY <1>2 DEF Ends
            <4>3. QED
                BY <4>1, <4>2 DEF EndsBefore
        <3>2. QED
            BY <1>1, <1>4, <2>3, <3>1
    <2>4. QED
        BY <2>2, <2>3
<1>12. Progress'
    <2>1. \A x \in 1 .. Len(data) : in'[x] = IF x < j + 1 /\ data[x] = NL THEN NUL ELSE data[x]
        <3>1. SUFFICES ASSUME NEW x \in 1 .. Len(data)
                       PROVE  in'[x] = IF x < j + 1 /\ data[x] = NL THEN NUL ELSE data[x]
            OBVIOUS
        <3>2. x < j + 1 <=> x < j \/ x = j
            BY <1>2
        <3>3. QED
            BY <1>4, <1>5, <1>6, <3>2
    <2>2. i' - 1 = j /\ \A x \in i' .. j' - 1 : FALSE
        BY <1>1, <1>2
    <2>3. EndsBefore(j)' = EndsBefore(j + 1) /\ Ends(data)' = Ends(data)
        BY <1>1 DEF EndsBefore
    <2>4. QED
        BY <1>1, <1>6, <1>11, <2>1, <2>2, <2>3 DEF Progress
<1>13. QED
    BY <1>1, <1>3, <1>12 DEF MatchInv, CallsMatchReference

LEMMA MatchFinish ==
    ASSUME Inv, MatchInv, Finish
    PROVE  MatchInv'
<1>1. pc = "loop" /\ pc' = "done" /\ j > Len(in) /\ data' = data
    BY DEF Finish
<1>2. /\ data \in Seq(Byte) /\ Len(data) \in Nat /\ Len(in) = Len(data) /\ in \in Seq(Byte)
      /\ calls \in Seq(Seq(Byte))
      /\ i \in 1 .. Len(data) /\ j = Len(data) + 1
    BY <1>1 DEF Inv, TypeOK, LoopInv
<1>3. Progress
    BY <1>1 DEF MatchInv
<1>4. PICK m \in DOMAIN in : StringEndsAt(in, i, m) /\ calls' = Append(calls, SubSeq(in, i, m - 1))
    <2>1. i # j
        BY <1>2
    <2>2. QED
        BY <2>1 DEF Finish
<1>5. m \in i .. j /\ m \in 1 .. Len(data)
    <2>1. i <= m /\ m \in 1 .. Len(in)
        BY <1>2, <1>4 DEF StringEndsAt
    <2>2. QED
        BY <1>2, <2>1
<1>6. SubSeq(in, i, m - 1) = UpToNul(Piece(data, j))
    BY <1>1, <1>2, <1>3, <1>4, <1>5, PieceAtHand
<1>7. UpToNul(Piece(data, j)) \in Seq(Byte)
    <2>1. i \in Int /\ m - 1 \in Int /\ \A x \in i .. m - 1 : x \in 1 .. Len(in)
        BY <1>2, <1>5
    <2>2. \A x \in i .. m - 1 : in[x] \in Byte
        BY <1>2, <2>1
    <2>3. SubSeq(in, i, m - 1) \in Seq(Byte)
        BY <2>1, <2>2, SubSeqProperties
    <2>4. QED
        BY <1>6, <2>3
<1>8. EndsBefore(j) \subseteq Int /\ j \in Int /\ \A q \in EndsBefore(j) : q < j
    BY <1>2 DEF EndsBefore, Ends
<1>9. Listed(calls', data, EndsBefore(j) \cup {j}) /\ calls' \in Seq(Seq(Byte))
    <2>1. calls' = Append(calls, UpToNul(Piece(data, j)))
        BY <1>4, <1>6
    <2>2. Listed(calls, data, EndsBefore(j))
        BY <1>3 DEF Progress
    <2>3. Listed(calls', data, EndsBefore(j) \cup {j})
        BY <1>2, <1>7, <1>8, <2>1, <2>2, ListedGrows
    <2>4. QED
        BY <1>2, <1>7, <2>1, <2>3, AppendProperties
<1>10. CommandEnds(data) = EndsBefore(j) \cup {j}
    <2>1. \A q \in Ends(data) : q < j
        BY <1>2 DEF Ends
    <2>2. QED
        BY <1>2, <2>1 DEF CommandEnds, EndsBefore
<1>11. calls' = Commands(data)
    <2>1. CommandEnds(data) \subseteq Int
        BY <1>8, <1>10
    <2>2. QED
        BY <1>9, <1>10, <2>1, ListedIsAll
<1>12. QED
    BY <1>1, <1>11 DEF MatchInv, CallsMatchReference

LEMMA MatchNext ==
    ASSUME Inv, MatchInv, [Next]_vars
    PROVE  MatchInv'
<1>1. CASE OtherByte
    <2>1. /\ pc = "loop" /\ j <= Len(in) /\ in[j] # NL /\ j' = j + 1
          /\ UNCHANGED <<pc, data, in, i, calls>>
        BY <1>1 DEF OtherByte
    <2>2. /\ data \in Seq(Byte) /\ Len(data) \in Nat /\ Len(in) = Len(data)
          /\ j \in 1 .. Len(data) /\ i \in Int
        BY <2>1 DEF Inv, TypeOK
    <2>3. /\ \A x \in 1 .. Len(data) : in[x] = IF x < j /\ data[x] = NL THEN NUL ELSE data[x]
          /\ i - 1 \in Ends(data) \cup {0}
          /\ \A x \in i .. j - 1 : data[x] # NL
          /\ Listed(calls, data, EndsBefore(j))
          /\ data[Len(data)] = NUL
        BY <2>1 DEF MatchInv, Progress
    <2>4. data[j] # NL
        BY <2>1, <2>2, <2>3
    <2>5. EndsBefore(j + 1) = EndsBefore(j)
        <3>1. \A q \in Ends(data) : q < j + 1 <=> q < j
            BY <2>2, <2>4 DEF Ends
        <3>2. QED
            BY <3>1 DEF EndsBefore
    <2>6. \A x \in 1 .. Len(data) : in[x] = IF x < j + 1 /\ data[x] = NL THEN NUL ELSE data[x]
        <3>1. SUFFICES ASSUME NEW x \in 1 .. Len(data)
                       PROVE  in[x] = IF x < j + 1 /\ data[x] = NL THEN NUL ELSE data[x]
            OBVIOUS
        <3>2. x < j + 1 <=> x < j \/ x = j
            BY <2>2
        <3>3. QED
            BY <2>3, <2>4, <3>2
    <2>7. \A x \in i .. (j + 1) - 1 : data[x] # NL
        <3>1. \A x \in i .. (j + 1) - 1 : x \in i .. j - 1 \/ x = j
            BY <2>2
        <3>2. QED
            BY <2>3, <2>4, <3>1
    <2>8. Progress'
        BY <2>1, <2>3, <2>5, <2>6, <2>7 DEF Progress, EndsBefore
    <2>9. QED
        BY <2>1, <2>3, <2>8 DEF MatchInv, CallsMatchReference
<1>2. CASE UNCHANGED vars
    BY <1>2 DEF vars, MatchInv, Progress, EndsBefore, CallsMatchReference
<1>3. QED
    BY <1>1, <1>2, MatchNewline, MatchFinish DEF Next

(***************************************************************************)
(* The callbacks are the commands of the buffer, in order                  *)
(* (cli_server.c:91-107), for buffers of any length and content.           *)
(***************************************************************************)
THEOREM ParserMatches == Spec => []CallsMatchReference
<1>1. MatchInv => CallsMatchReference
    BY DEF MatchInv
<1>2. QED
    BY <1>1, InvInit, InvNext, MatchInit, MatchNext, PTL DEF Spec
=============================================================================
