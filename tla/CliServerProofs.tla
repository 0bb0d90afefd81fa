-------------------------- MODULE CliServerProofs --------------------------
(***************************************************************************)
(* Proofs about CliServer for any number of clients and descriptors, any   *)
(* buffer sizes, any event and any faults.                                 *)
(***************************************************************************)
EXTENDS CliServer, SequenceTheorems, FiniteSetTheorems, WellFoundedInduction, TLAPS

-----------------------------------------------------------------------------
(* The pieces of a buffer in order: Nth counts, which is laborious to      *)
(* reason about; an increasing enumeration says the same.                  *)

Enumerates(g, n, S) ==
    /\ n \in Nat /\ g \in [1 .. n -> S]
    /\ \A p \in S : \E k \in 1 .. n : g[k] = p
    /\ \A k, m \in 1 .. n : k < m => g[k] < g[m]

LEMMA EnumerationIsNth ==
    ASSUME NEW S, S \subseteq Int, NEW n, NEW g, Enumerates(g, n, S)
    PROVE  /\ Cardinality(S) = n
           /\ \A k \in 1 .. n : Nth(S, k) = g[k]
<1>1. /\ n \in Nat /\ g \in [1 .. n -> S]
      /\ \A p \in S : \E k \in 1 .. n : g[k] = p
      /\ \A k, m \in 1 .. n : k < m => g[k] < g[m]
    BY DEF Enumerates
<1>2. \A k \in 1 .. n : g[k] \in S /\ g[k] \in Int
    BY <1>1
<1>3. \A k, m \in 1 .. n : (g[k] <= g[m]) <=> (k <= m)
    <2>1. SUFFICES ASSUME NEW k \in 1 .. n, NEW m \in 1 .. n
                   PROVE  (g[k] <= g[m]) <=> (k <= m)
        OBVIOUS
    <2>2. k < m \/ k = m \/ m < k
        BY <1>1
    <2>3. (k < m => g[k] < g[m]) /\ (m < k => g[m] < g[k])
        BY <1>1
    <2>4. g[k] \in Int /\ g[m] \in Int /\ k \in Int /\ m \in Int
        BY <1>1, <1>2
    <2>5. QED
        BY <2>2, <2>3, <2>4
<1>4. \A k, m \in 1 .. n : g[k] = g[m] => k = m
    <2>1. SUFFICES ASSUME NEW k \in 1 .. n, NEW m \in 1 .. n, g[k] = g[m]
                   PROVE  k = m
        OBVIOUS
    <2>2. g[k] <= g[m] /\ g[m] <= g[k]
        BY <1>2, <2>1
    <2>3. k <= m /\ m <= k /\ k \in Int /\ m \in Int
        BY <1>1, <1>3, <2>2
    <2>4. QED
        BY <2>3
<1>5. ASSUME NEW m \in 0 .. n, NEW T, T \subseteq S,
             \A k \in 1 .. n : g[k] \in T <=> k <= m
      PROVE  Cardinality(T) = m
    <2>1. m \in Nat /\ \A k \in 1 .. m : k \in 1 .. n /\ k <= m
        BY <1>1
    <2>2. \A k \in 1 .. m : g[k] \in T
        BY <1>5, <2>1
    <2> DEFINE h == [k \in 1 .. m |-> g[k]]
    <2>3. h \in [1 .. m -> T]
        BY <2>2
    <2>4. \A k, l \in 1 .. m : h[k] = h[l] => k = l
        BY <1>4, <2>1
    <2>5. \A p \in T : \E k \in 1 .. m : h[k] = p
        <3>1. SUFFICES ASSUME NEW p \in T PROVE \E k \in 1 .. m : h[k] = p
            OBVIOUS
        <3>2. PICK k \in 1 .. n : g[k] = p
            BY <1>1, <1>5
        <3>3. k \in 1 .. m
            BY <1>1, <1>5, <2>1, <3>2
        <3>4. QED
            BY <3>2, <3>3
    <2>6. h \in Bijection(1 .. m, T)
        BY <2>3, <2>4, <2>5 DEF Bijection, Injection, Surjection, IsInjective
    <2>7. QED
        BY <2>1, <2>6, FS_CountingElements DEF ExistsBijection
<1>6. Cardinality(S) = n
    <2>1. n \in 0 .. n /\ \A k \in 1 .. n : g[k] \in S /\ k <= n
        BY <1>1, <1>2
    <2>2. QED
        BY <1>5, <2>1
<1>7. ASSUME NEW k \in 1 .. n PROVE Nth(S, k) = g[k]
    <2>1. \A m \in 1 .. n : Cardinality({q \in S : q <= g[m]}) = m
        <3>1. SUFFICES ASSUME NEW m \in 1 .. n
                       PROVE  Cardinality({q \in S : q <= g[m]}) = m
            OBVIOUS
        <3>2. PICK T : T = {q \in S : q <= g[m]}
            OBVIOUS
        <3>3. m \in 0 .. n /\ T \subseteq S
            BY <3>2
        <3>4. \A l \in 1 .. n : g[l] \in T <=> l <= m
            BY <1>2, <1>3, <3>2
        <3>5. QED
            BY <1>5, <3>2, <3>3, <3>4
    <2>2. \A p \in S : Cardinality({q \in S : q <= p}) = k => p = g[k]
        <3>1. SUFFICES ASSUME NEW p \in S, Cardinality({q \in S : q <= p}) = k
                       PROVE  p = g[k]
            OBVIOUS
        <3>2. PICK m \in 1 .. n : g[m] = p
            BY <1>1
        <3>3. QED
            BY <2>1, <3>1, <3>2
    <2>3. g[k] \in S /\ Cardinality({q \in S : q <= g[k]}) = k
        BY <1>2, <2>1
    <2>4. QED
        BY <2>2, <2>3 DEF Nth
<1>8. QED
    BY <1>6, <1>7

LEMMA EnumerationGrows ==
    ASSUME NEW S, S \subseteq Int, NEW n, NEW g, Enumerates(g, n, S),
           NEW p \in Int, \A q \in S : q < p
    PROVE  Enumerates([k \in 1 .. n + 1 |-> IF k = n + 1 THEN p ELSE g[k]], n + 1, S \cup {p})
<1>1. /\ n \in Nat /\ g \in [1 .. n -> S]
      /\ \A q \in S : \E k \in 1 .. n : g[k] = q
      /\ \A k, m \in 1 .. n : k < m => g[k] < g[m]
    BY DEF Enumerates
<1> DEFINE h == [k \in 1 .. n + 1 |-> IF k = n + 1 THEN p ELSE g[k]]
<1>2. \A k \in 1 .. n + 1 : k = n + 1 \/ (k # n + 1 /\ k \in 1 .. n)
    BY <1>1
<1>3. h[n + 1] = p /\ \A k \in 1 .. n : h[k] = g[k] /\ g[k] \in S /\ k # n + 1 /\ k \in 1 .. n + 1
    BY <1>1
<1>4. h \in [1 .. n + 1 -> S \cup {p}]
    BY <1>2, <1>3
<1>5. \A q \in S \cup {p} : \E k \in 1 .. n + 1 : h[k] = q
    <2>1. n + 1 \in 1 .. n + 1
        BY <1>1
    <2>2. QED
        BY <1>1, <1>3, <2>1
<1> HIDE DEF h
<1>6. \A k, m \in 1 .. n + 1 : k < m => h[k] < h[m]
    <2>1. SUFFICES ASSUME NEW k \in 1 .. n + 1, NEW m \in 1 .. n + 1, k < m
                   PROVE  h[k] < h[m]
        OBVIOUS
    <2>2. k \in 1 .. n
        BY <1>1, <2>1
    <2>3. CASE m = n + 1
        BY <1>3, <2>2, <2>3
    <2>4. CASE m \in 1 .. n
        BY <1>1, <1>3, <2>1, <2>2, <2>4
    <2>5. QED
        BY <1>2, <2>3, <2>4
<1>7. QED
    BY <1>1, <1>4, <1>5, <1>6 DEF Enumerates, h

LEMMA MinIs ==
    ASSUME NEW T, T \subseteq Int, NEW m \in T, \A n \in T : m <= n
    PROVE  Min(T) = m
<1>1. Min(T) \in T /\ \A n \in T : Min(T) <= n
    BY DEF Min
<1>2. Min(T) <= m /\ m <= Min(T) /\ m \in Int /\ Min(T) \in Int
    BY <1>1
<1>3. QED
    BY <1>2

LEMMA MaxIs ==
    ASSUME NEW T, T \subseteq Int, NEW m \in T, \A n \in T : n <= m
    PROVE  Max(T) = m
<1>1. Max(T) \in T /\ \A n \in T : Max(T) >= n
    BY DEF Max
<1>2. Max(T) >= m /\ Max(T) <= m /\ m \in Int /\ Max(T) \in Int
    BY <1>1
<1>3. QED
    BY <1>2

\* A C string that begins at a, cut where strlen stops.
LEMMA UpToNulCuts ==
    ASSUME NEW B, NEW s \in Seq(B), NEW a \in 1 .. Len(s) + 1, NEW b \in 0 .. Len(s),
           NEW m \in a .. b + 1,
           \A x \in a .. m - 1 : s[x] # NUL,
           m <= b => s[m] = NUL
    PROVE  UpToNul(SubSeq(s, a, b)) = SubSeq(s, a, m - 1)
<1>1. Len(s) \in Nat /\ a \in Int /\ b \in Int /\ m \in Int /\ a <= m /\ m <= b + 1
    OBVIOUS
<1>2. \A x \in a .. b : s[x] \in B
    OBVIOUS
<1> PICK t : t = SubSeq(s, a, b)
    OBVIOUS
<1>3. t \in Seq(B) /\ Len(t) = b - a + 1 /\ \A x \in 1 .. b - a + 1 : t[x] = s[a + x - 1]
    <2>1. /\ SubSeq(s, a, b) \in Seq(B)
          /\ Len(SubSeq(s, a, b)) = IF a <= b THEN b - a + 1 ELSE 0
          /\ \A x \in 1 .. b - a + 1 : SubSeq(s, a, b)[x] = s[a + x - 1]
        BY <1>1, <1>2, SubSeqProperties
    <2>2. QED
        BY <1>1, <2>1
<1>4. DOMAIN t = 1 .. b - a + 1
    BY <1>3
<1>5. \A x \in 1 .. m - a : t[x] # NUL
    <2>1. SUFFICES ASSUME NEW x \in 1 .. m - a PROVE t[x] # NUL
        OBVIOUS
    <2>2. x \in 1 .. b - a + 1 /\ a + x - 1 \in a .. m - 1
        BY <1>1
    <2>3. QED
        BY <1>3, <2>2
<1> PICK Z : Z = {x \in DOMAIN t : t[x] = NUL}
    OBVIOUS
<1>6. CASE m = b + 1
    <2>1. Z = {}
        BY <1>1, <1>4, <1>5, <1>6
    <2>2. UpToNul(t) = t
        BY <2>1 DEF UpToNul
    <2>3. QED
        BY <1>1, <1>6, <2>2
<1>7. CASE m <= b
    <2>1. m - a + 1 \in 1 .. b - a + 1 /\ t[m - a + 1] = s[m] /\ s[m] = NUL
        <3>1. m - a + 1 \in 1 .. b - a + 1
            BY <1>1, <1>7
        <3>2. \A x \in 1 .. b - a + 1 : x = m - a + 1 => t[x] = s[m]
            BY <1>1, <1>3
        <3>3. s[m] = NUL
            BY <1>7
        <3>4. QED
            BY <3>1, <3>2, <3>3
    <2>2. m - a + 1 \in Z /\ Z \subseteq Int
        BY <1>4, <2>1
    <2>3. \A x \in Z : m - a + 1 <= x
        <3>1. SUFFICES ASSUME NEW x \in Z PROVE m - a + 1 <= x
            OBVIOUS
        <3>2. x \in 1 .. b - a + 1 /\ t[x] = NUL
            BY <1>4
        <3>3. x \notin 1 .. m - a
            BY <1>5, <3>2
        <3>4. QED
            BY <1>1, <3>2, <3>3
    <2>4. Min(Z) = m - a + 1 /\ Z # {}
        BY <2>2, <2>3, MinIs
    <2>5. UpToNul(t) = SubSeq(t, 1, m - a)
        <3>1. m - a + 1 - 1 = m - a
            BY <1>1
        <3>2. UpToNul(t) = IF Z = {} THEN t ELSE SubSeq(t, 1, Min(Z) - 1)
            BY Zenon DEF UpToNul
        <3>3. UpToNul(t) = SubSeq(t, 1, Min(Z) - 1)
            BY <2>4, <3>2, Zenon
        <3>4. QED
            BY <2>4, <3>1, <3>3
    <2>6. /\ SubSeq(t, 1, m - a) \in Seq(B)
          /\ Len(SubSeq(t, 1, m - a)) = IF 1 <= m - a THEN m - a - 1 + 1 ELSE 0
          /\ \A x \in 1 .. m - a - 1 + 1 : SubSeq(t, 1, m - a)[x] = t[1 + x - 1]
        <3>1. 1 \in Int /\ m - a \in Int /\ \A x \in 1 .. m - a : t[x] \in B
            <4>1. m - a <= b - a + 1 /\ m - a \in Int
                BY <1>1
            <4>2. SUFFICES ASSUME NEW x \in 1 .. m - a
                           PROVE  t[x] \in B
                BY <4>1
            <4>3. x \in 1 .. Len(t)
                BY <1>1, <1>3, <4>1
            <4>4. QED
                BY <1>3, <4>3
        <3>2. QED
            BY <3>1, SubSeqProperties
    <2>7. /\ SubSeq(s, a, m - 1) \in Seq(B)
          /\ Len(SubSeq(s, a, m - 1)) = IF a <= m - 1 THEN m - 1 - a + 1 ELSE 0
          /\ \A x \in 1 .. m - 1 - a + 1 : SubSeq(s, a, m - 1)[x] = s[a + x - 1]
        <3>1. m - 1 \in Int /\ \A x \in a .. m - 1 : s[x] \in B
            BY <1>1, <1>2, <1>7
        <3>2. QED
            BY <1>1, <3>1, SubSeqProperties
    <2>8. \A x \in 1 .. m - a : SubSeq(t, 1, m - a)[x] = SubSeq(s, a, m - 1)[x]
        <3>1. SUFFICES ASSUME NEW x \in 1 .. m - a
                       PROVE  SubSeq(t, 1, m - a)[x] = SubSeq(s, a, m - 1)[x]
            OBVIOUS
        <3>2. /\ x \in 1 .. m - a - 1 + 1 /\ x \in 1 .. m - 1 - a + 1 /\ x \in 1 .. b - a + 1
              /\ 1 + x - 1 = x
            BY <1>1
        <3>3. QED
            BY <1>3, <2>6, <2>7, <3>2
    <2>9. SubSeq(t, 1, m - a) = SubSeq(s, a, m - 1)
        <3>1. Len(SubSeq(t, 1, m - a)) = m - a /\ Len(SubSeq(s, a, m - 1)) = m - a
            BY <1>1, <2>6, <2>7
        <3>2. QED
            BY <2>6, <2>7, <2>8, <3>1, SeqEqual
    <2>10. QED
        BY <2>5, <2>9
<1>8. QED
    BY <1>1, <1>6, <1>7

-----------------------------------------------------------------------------
(* Every buffer has such an enumeration.  What the provers lack is         *)
(* induction over it; the least length without one takes its place.        *)

LEMMA HasLeast ==
    ASSUME NEW T, T \subseteq Nat, T # {}
    PROVE  \E m \in T : \A n \in T : m <= n
<1>1. PICK m \in T : \A n \in T : ~(<<n, m>> \in OpToRel(<, Nat))
    BY NatLessThanWellFounded, WFMin
<1>2. \A n \in T : ~(n < m)
    BY <1>1 DEF OpToRel
<1>3. QED
    BY <1>2

LEMMA HasGreatest ==
    ASSUME NEW N \in Nat, NEW T, T \subseteq 0 .. N, T # {}
    PROVE  \E m \in T : \A n \in T : n <= m
<1> PICK U : U = {n \in 0 .. N : N - n \in T}
    OBVIOUS
<1>1. U \subseteq Nat /\ \A n \in T : N - n \in U
    <2>1. \A n \in T : n \in 0 .. N /\ N - n \in 0 .. N /\ N - (N - n) = n
        OBVIOUS
    <2>2. QED
        BY <2>1
<1>2. PICK m \in U : \A n \in U : m <= n
    BY <1>1, HasLeast
<1>3. \A n \in T : m <= N - n
    BY <1>1, <1>2
<1>4. N - m \in T /\ m \in 0 .. N
    OBVIOUS
<1>5. \A n \in T : n <= N - m
    BY <1>3, <1>4
<1>6. QED
    BY <1>4, <1>5

HasEnumeration(S) == \E g, n : Enumerates(g, n, S)

LEMMA Enumerable ==
    ASSUME NEW N \in Nat, NEW S, S \subseteq 1 .. N
    PROVE  HasEnumeration(S)
<1> DEFINE Bad == {n \in Nat : \E T \in SUBSET (1 .. n) : ~HasEnumeration(T)}
<1>1. Bad = {}
    <2>1. SUFFICES ASSUME Bad # {} PROVE FALSE
        OBVIOUS
    <2>2. PICK n \in Bad : \A m \in Bad : n <= m
        BY <2>1, HasLeast
    <2>3. PICK T \in SUBSET (1 .. n) : ~HasEnumeration(T)
        <3>1. \E T \in SUBSET (1 .. n) : ~HasEnumeration(T)
            BY <2>2
        <3>2. QED
            BY <3>1
    <2>4. n \in Nat /\ \A m \in Nat : m < n => m \notin Bad
        <3> HIDE DEF Bad
        <3>1. n \in Nat
            BY <2>2 DEF Bad
        <3>2. QED
            BY <2>2, <3>1
    <2>5. T # {}
        <3>1. Enumerates([k \in 1 .. 0 |-> 0], 0, {})
            BY DEF Enumerates
        <3>2. HasEnumeration({})
            BY <3>1 DEF HasEnumeration
        <3>3. T = {} => HasEnumeration(T)
            BY <3>2, Zenon
        <3>4. QED
            BY <2>3, <3>3, Zenon
    <2>6. n - 1 \in Nat /\ n - 1 < n /\ n \in Int
        <3>1. PICK x : x \in T
            BY <2>5
        <3>2. x \in 1 .. n /\ n \in Nat
            BY <2>3, <2>4, <3>1
        <3>3. QED
            BY <3>2
    <2>7. \A U \in SUBSET (1 .. n - 1) : HasEnumeration(U)
        BY <2>4, <2>6
    <2> HIDE DEF Bad
    <2>8. T \ {n} \in SUBSET (1 .. n - 1)
        BY <2>3, <2>6
    <2>9. PICK g, k : Enumerates(g, k, T \ {n})
        BY <2>7, <2>8 DEF HasEnumeration
    <2>10. n \in T
        <3>1. n \notin T => T \ {n} = T
            OBVIOUS
        <3>2. QED
            BY <2>3, <2>9, <3>1 DEF HasEnumeration
    <2>11. T \ {n} \subseteq Int /\ \A q \in T \ {n} : q < n
        BY <2>6, <2>8
    <2>12. Enumerates([l \in 1 .. k + 1 |-> IF l = k + 1 THEN n ELSE g[l]], k + 1, (T \ {n}) \cup {n})
        BY <2>6, <2>9, <2>11, EnumerationGrows
    <2>13. (T \ {n}) \cup {n} = T
        BY <2>10
    <2>14. QED
        BY <2>3, <2>12, <2>13 DEF HasEnumeration
<1>2. QED
    BY <1>1

-----------------------------------------------------------------------------
(* The pieces themselves.                                                  *)

\* The piece of s that ends before p begins after l.
BeginsAfter(s, p, l) ==
    /\ l \in 0 .. p - 1
    /\ l # 0 => s[l] = NL
    /\ \A x \in l + 1 .. p - 1 : s[x] # NL

LEMMA PieceIs ==
    ASSUME NEW B, NEW s \in Seq(B), NEW p \in 1 .. Len(s) + 1, NEW l, BeginsAfter(s, p, l)
    PROVE  Piece(s, p) = SubSeq(s, l + 1, p - 1)
<1>1. l \in 0 .. p - 1 /\ (l # 0 => s[l] = NL) /\ \A x \in l + 1 .. p - 1 : s[x] # NL
    BY DEF BeginsAfter
<1>2. Len(s) \in Nat /\ p \in Int /\ p <= Len(s) + 1 /\ l \in Int /\ 0 <= l /\ l <= p - 1
    BY <1>1
<1> PICK T : T = {q \in Ends(s) : q < p} \cup {0}
    OBVIOUS
<1>3. T \subseteq Int /\ l \in T
    BY <1>1, <1>2 DEF Ends
<1>4. \A q \in T : q <= l
    <2>1. SUFFICES ASSUME NEW q \in T PROVE q <= l
        OBVIOUS
    <2>2. q = 0 \/ (q \in 1 .. Len(s) /\ s[q] = NL /\ q < p)
        BY DEF Ends
    <2>3. q = 0 \/ q \notin l + 1 .. p - 1
        BY <1>1, <2>2
    <2>4. QED
        BY <1>2, <2>2, <2>3
<1>5. Max(T) = l
    BY <1>3, <1>4, MaxIs
<1>6. Piece(s, p) = SubSeq(s, Max(T) + 1, p - 1)
    BY Zenon DEF Piece
<1>7. QED
    BY <1>5, <1>6

LEMMA PieceBegins ==
    ASSUME NEW B, NEW s \in Seq(B), NEW p \in 1 .. Len(s) + 1
    PROVE  \E l : BeginsAfter(s, p, l)
<1> PICK T : T = {q \in Ends(s) : q < p} \cup {0}
    OBVIOUS
<1>1. T \subseteq 0 .. Len(s) /\ T # {} /\ Len(s) \in Nat /\ p \in Int
    BY DEF Ends
<1>2. PICK l \in T : \A q \in T : q <= l
    BY <1>1, HasGreatest
<1>3. l \in 0 .. p - 1 /\ (l # 0 => s[l] = NL)
    BY <1>1 DEF Ends
<1>4. \A x \in l + 1 .. p - 1 : s[x] # NL
    <2>1. SUFFICES ASSUME NEW x \in l + 1 .. p - 1, s[x] = NL PROVE FALSE
        OBVIOUS
    <2>2. x \in T
        BY <1>1, <1>3, <2>1 DEF Ends
    <2>3. QED
        BY <1>1, <1>2, <1>3, <2>2
<1>5. QED
    BY <1>3, <1>4 DEF BeginsAfter

LEMMA PieceType ==
    ASSUME NEW B, NEW s \in Seq(B), NEW p \in 1 .. Len(s) + 1, NEW l, BeginsAfter(s, p, l)
    PROVE  /\ Piece(s, p) \in Seq(B)
           /\ Len(Piece(s, p)) = p - 1 - l
           /\ \A x \in 1 .. p - 1 - l : Piece(s, p)[x] = s[l + x]
<1>1. Piece(s, p) = SubSeq(s, l + 1, p - 1)
    BY PieceIs
<1>2. l \in Int /\ 0 <= l /\ l <= p - 1 /\ p \in Int /\ p <= Len(s) + 1 /\ Len(s) \in Nat
    BY DEF BeginsAfter
<1>3. l + 1 \in Int /\ p - 1 \in Int /\ \A x \in l + 1 .. p - 1 : s[x] \in B
    <2>1. \A x \in l + 1 .. p - 1 : x \in 1 .. Len(s)
        BY <1>2
    <2>2. QED
        BY <1>2, <2>1
<1> PICK t : t = SubSeq(s, l + 1, p - 1)
    OBVIOUS
<1>4. /\ t \in Seq(B)
      /\ Len(t) = IF l + 1 <= p - 1 THEN p - 1 - (l + 1) + 1 ELSE 0
      /\ \A x \in 1 .. p - 1 - (l + 1) + 1 : t[x] = s[(l + 1) + x - 1]
    BY <1>3, SubSeqProperties
<1>5. Len(t) = p - 1 - l
    BY <1>2, <1>4
<1>6. \A x \in 1 .. p - 1 - l : t[x] = s[l + x]
    <2>1. SUFFICES ASSUME NEW x \in 1 .. p - 1 - l PROVE t[x] = s[l + x]
        OBVIOUS
    <2>2. x \in 1 .. p - 1 - (l + 1) + 1 /\ (l + 1) + x - 1 = l + x
        BY <1>2
    <2>3. QED
        BY <1>4, <2>2
<1>7. QED
    BY <1>1, <1>4, <1>5, <1>6

LEMMA UpToNulType ==
    ASSUME NEW B, NEW s \in Seq(B)
    PROVE  /\ UpToNul(s) \in Seq(B)
           /\ (\A x \in 1 .. Len(s) : s[x] # NUL) => UpToNul(s) = s
<1> PICK Z : Z = {m \in DOMAIN s : s[m] = NUL}
    OBVIOUS
<1>1. UpToNul(s) = IF Z = {} THEN s ELSE SubSeq(s, 1, Min(Z) - 1)
    BY Zenon DEF UpToNul
<1>2. DOMAIN s = 1 .. Len(s) /\ Len(s) \in Nat
    OBVIOUS
<1>3. ASSUME Z # {} PROVE SubSeq(s, 1, Min(Z) - 1) \in Seq(B)
    <2>1. Z \subseteq Nat /\ Z \subseteq Int
        BY <1>2
    <2>2. PICK m \in Z : \A n \in Z : m <= n
        BY <1>3, <2>1, HasLeast
    <2>3. Min(Z) = m /\ m \in 1 .. Len(s)
        BY <1>2, <2>1, <2>2, MinIs
    <2>4. 1 \in Int /\ m - 1 \in Int /\ \A x \in 1 .. m - 1 : s[x] \in B
        <3>1. \A x \in 1 .. m - 1 : x \in 1 .. Len(s)
            BY <1>2, <2>3
        <3>2. QED
            BY <2>3, <3>1
    <2>5. QED
        BY <2>3, <2>4, SubSeqProperties
<1>4. (\A x \in 1 .. Len(s) : s[x] # NUL) => Z = {}
    BY <1>2
<1>5. QED
    BY <1>1, <1>3, <1>4

-----------------------------------------------------------------------------
(* Commands and Lines by an enumeration.                                   *)

LEMMA CommandsBy ==
    ASSUME NEW s, CommandEnds(s) \subseteq Int, NEW g, NEW n, Enumerates(g, n, CommandEnds(s))
    PROVE  Commands(s) = [k \in 1 .. n |-> UpToNul(Piece(s, g[k]))]
<1>1. /\ Cardinality(CommandEnds(s)) = n
      /\ \A k \in 1 .. n : Nth(CommandEnds(s), k) = g[k]
    BY EnumerationIsNth
<1>2. Commands(s) = [k \in 1 .. n |-> UpToNul(Piece(s, Nth(CommandEnds(s), k)))]
    BY <1>1 DEF Commands
<1>3. QED
    BY <1>1, <1>2

LEMMA LinesBy ==
    ASSUME NEW s, LineEnds(s) \subseteq Int, NEW g, NEW n, Enumerates(g, n, LineEnds(s))
    PROVE  Lines(s) = [k \in 1 .. n |-> Piece(s, g[k])]
<1>1. /\ Cardinality(LineEnds(s)) = n
      /\ \A k \in 1 .. n : Nth(LineEnds(s), k) = g[k]
    BY EnumerationIsNth
<1>2. Lines(s) = [k \in 1 .. n |-> Piece(s, Nth(LineEnds(s), k))]
    BY <1>1 DEF Lines
<1>3. QED
    BY <1>1, <1>2

LEMMA CommandsType ==
    ASSUME NEW B, NEW s \in Seq(B)
    PROVE  Commands(s) \in Seq(Seq(B))
<1>1. Len(s) + 1 \in Nat /\ CommandEnds(s) \subseteq 1 .. Len(s) + 1
    BY DEF CommandEnds, Ends
<1>2. PICK g, n : Enumerates(g, n, CommandEnds(s))
    BY <1>1, Enumerable DEF HasEnumeration
<1>3. CommandEnds(s) \subseteq Int
    BY <1>1
<1>4. Commands(s) = [k \in 1 .. n |-> UpToNul(Piece(s, g[k]))]
    BY <1>2, <1>3, CommandsBy
<1>5. n \in Nat /\ \A k \in 1 .. n : g[k] \in CommandEnds(s)
    BY <1>2 DEF Enumerates
<1>6. \A p \in 1 .. Len(s) + 1 : UpToNul(Piece(s, p)) \in Seq(B)
    <2>1. SUFFICES ASSUME NEW p \in 1 .. Len(s) + 1 PROVE UpToNul(Piece(s, p)) \in Seq(B)
        OBVIOUS
    <2>2. PICK l : BeginsAfter(s, p, l)
        BY PieceBegins
    <2>3. Piece(s, p) \in Seq(B)
        BY <2>2, PieceType
    <2>4. QED
        BY <2>3, UpToNulType
<1>7. \A k \in 1 .. n : UpToNul(Piece(s, g[k])) \in Seq(B)
    BY <1>1, <1>5, <1>6
<1>8. [k \in 1 .. n |-> UpToNul(Piece(s, g[k]))] \in [1 .. n -> Seq(B)]
    BY <1>7
<1>9. \A f \in [1 .. n -> Seq(B)] : f \in Seq(Seq(B))
    BY <1>5
<1>10. QED
    BY <1>4, <1>8, <1>9

LEMMA LinesType ==
    ASSUME NEW B, NEW s \in Seq(B)
    PROVE  Lines(s) \in Seq(Seq(B))
<1>1. Len(s) \in Nat /\ LineEnds(s) \subseteq 1 .. Len(s)
    BY DEF LineEnds, Ends
<1>2. PICK g, n : Enumerates(g, n, LineEnds(s))
    BY <1>1, Enumerable DEF HasEnumeration
<1>3. LineEnds(s) \subseteq Int
    BY <1>1
<1>4. Lines(s) = [k \in 1 .. n |-> Piece(s, g[k])]
    BY <1>2, <1>3, LinesBy
<1>5. n \in Nat /\ \A k \in 1 .. n : g[k] \in LineEnds(s)
    BY <1>2 DEF Enumerates
<1>6. \A p \in 1 .. Len(s) : Piece(s, p) \in Seq(B)
    <2>1. SUFFICES ASSUME NEW p \in 1 .. Len(s) PROVE Piece(s, p) \in Seq(B)
        OBVIOUS
    <2>2. p \in 1 .. Len(s) + 1
        BY <1>1
    <2>3. PICK l : BeginsAfter(s, p, l)
        BY <2>2, PieceBegins
    <2>4. QED
        BY <2>2, <2>3, PieceType
<1>7. \A k \in 1 .. n : Piece(s, g[k]) \in Seq(B)
    BY <1>1, <1>5, <1>6
<1>8. [k \in 1 .. n |-> Piece(s, g[k])] \in [1 .. n -> Seq(B)]
    BY <1>7
<1>9. \A f \in [1 .. n -> Seq(B)] : f \in Seq(Seq(B))
    BY <1>5
<1>10. QED
    BY <1>4, <1>8, <1>9

(***************************************************************************)
(* The lines of two texts one after the other, when the first is complete. *)
(***************************************************************************)
LEMMA LinesConcat ==
    ASSUME NEW B, NEW a \in Seq(B), NEW b \in Seq(B), a # <<>> => a[Len(a)] = NL
    PROVE  Lines(a \o b) = Lines(a) \o Lines(b)
<1>1. PICK s, la, lb : s = a \o b /\ la = Len(a) /\ lb = Len(b)
    OBVIOUS
<1>2. la \in Nat /\ lb \in Nat /\ s \in Seq(B) /\ Len(s) = la + lb
    BY <1>1
<1>3. /\ \A x \in 1 .. la : s[x] = a[x]
      /\ \A x \in 1 .. lb : s[la + x] = b[x]
    <2>1. \A x \in 1 .. la + lb : s[x] = IF x <= la THEN a[x] ELSE b[x - la]
        BY <1>1, ConcatProperties
    <2>2. \A x \in 1 .. la : x \in 1 .. la + lb /\ x <= la
        BY <1>2
    <2>3. ASSUME NEW x \in 1 .. lb PROVE s[la + x] = b[x]
        <3>1. PICK y : y = la + x
            OBVIOUS
        <3>2. y \in 1 .. la + lb /\ ~(y <= la) /\ y - la = x
            BY <1>2, <3>1
        <3>3. s[y] = b[x]
            BY <2>1, <3>2
        <3>4. QED
            BY <3>1, <3>3
    <2>4. \A x \in 1 .. la : s[x] = a[x]
        BY <2>1, <2>2
    <2>5. QED
        BY <2>3, <2>4
<1>4. \A p \in 1 .. la : Piece(s, p) = Piece(a, p)
    <2>1. SUFFICES ASSUME NEW p \in 1 .. la PROVE Piece(s, p) = Piece(a, p)
        OBVIOUS
    <2>2. p \in 1 .. Len(a) + 1 /\ p \in 1 .. Len(s) + 1 /\ p \in Int
        BY <1>1, <1>2
    <2>3. PICK l : BeginsAfter(a, p, l)
        BY <2>2, PieceBegins
    <2>4. l \in 0 .. p - 1 /\ (l # 0 => a[l] = NL) /\ \A x \in l + 1 .. p - 1 : a[x] # NL
        BY <2>3 DEF BeginsAfter
    <2>5. BeginsAfter(s, p, l)
        <3>1. (l # 0 => l \in 1 .. la) /\ \A x \in l + 1 .. p - 1 : x \in 1 .. la
            BY <1>2, <2>2, <2>4
        <3>2. QED
            BY <1>3, <2>4, <3>1 DEF BeginsAfter
    <2>6. /\ Piece(a, p) \in Seq(B) /\ Len(Piece(a, p)) = p - 1 - l
          /\ \A x \in 1 .. p - 1 - l : Piece(a, p)[x] = a[l + x]
        BY <2>2, <2>3, PieceType
    <2>7. /\ Piece(s, p) \in Seq(B) /\ Len(Piece(s, p)) = p - 1 - l
          /\ \A x \in 1 .. p - 1 - l : Piece(s, p)[x] = s[l + x]
        BY <1>2, <2>2, <2>5, PieceType
    <2>8. \A x \in 1 .. p - 1 - l : Piece(s, p)[x] = Piece(a, p)[x]
        <3>1. \A x \in 1 .. p - 1 - l : l + x \in 1 .. la
            BY <1>2, <2>2, <2>4
        <3>2. QED
            BY <1>3, <2>6, <2>7, <3>1
    <2>9. QED
        BY <2>6, <2>7, <2>8, SeqEqual
<1>5. \A q \in 1 .. lb : Piece(s, la + q) = Piece(b, q)
    <2>1. SUFFICES ASSUME NEW q \in 1 .. lb PROVE Piece(s, la + q) = Piece(b, q)
        OBVIOUS
    <2>2. q \in 1 .. Len(b) + 1 /\ la + q \in 1 .. Len(s) + 1 /\ q \in Int
        BY <1>1, <1>2
    <2>3. PICK l : BeginsAfter(b, q, l)
        BY <2>2, PieceBegins
    <2>4. l \in 0 .. q - 1 /\ (l # 0 => b[l] = NL) /\ \A x \in l + 1 .. q - 1 : b[x] # NL
        BY <2>3 DEF BeginsAfter
    <2>5. BeginsAfter(s, la + q, la + l)
        <3>1. PICK p, k : p = la + q /\ k = la + l
            OBVIOUS
        <3>2. k \in 0 .. p - 1
            BY <1>2, <2>2, <2>4, <3>1
        <3>3. k # 0 => s[k] = NL
            <4>1. CASE l = 0
                <5>1. k = la
                    BY <1>2, <3>1, <4>1
                <5>2. la # 0 => s[la] = NL
                    BY <1>1, <1>2, <1>3
                <5>3. QED
                    BY <5>1, <5>2
            <4>2. CASE l # 0
                <5>1. l \in 1 .. lb
                    BY <1>2, <2>2, <2>4, <4>2
                <5>2. QED
                    BY <1>3, <2>4, <3>1, <4>2, <5>1
            <4>3. QED
                BY <4>1, <4>2
        <3>4. \A x \in k + 1 .. p - 1 : s[x] # NL
            <4>1. SUFFICES ASSUME NEW x \in k + 1 .. p - 1 PROVE s[x] # NL
                OBVIOUS
            <4>2. PICK y : y = x - la
                OBVIOUS
            <4>3. y \in 1 .. lb /\ y \in l + 1 .. q - 1 /\ x = la + y
                BY <1>2, <2>2, <2>4, <3>1, <4>2
            <4>4. s[la + y] = b[y] /\ b[y] # NL
                BY <1>3, <2>4, <4>3
            <4>5. QED
                BY <4>3, <4>4
        <3>5. BeginsAfter(s, p, k)
            BY <3>2, <3>3, <3>4 DEF BeginsAfter
        <3>6. QED
            BY <3>1, <3>5
    <2>6. /\ Piece(b, q) \in Seq(B) /\ Len(Piece(b, q)) = q - 1 - l
          /\ \A x \in 1 .. q - 1 - l : Piece(b, q)[x] = b[l + x]
        BY <2>2, <2>3, PieceType
    <2>7. /\ Piece(s, la + q) \in Seq(B) /\ Len(Piece(s, la + q)) = (la + q) - 1 - (la + l)
          /\ \A x \in 1 .. (la + q) - 1 - (la + l) : Piece(s, la + q)[x] = s[(la + l) + x]
        BY <1>2, <2>2, <2>5, PieceType
    <2>8. (la + q) - 1 - (la + l) = q - 1 - l
        BY <1>2, <2>2, <2>4
    <2>9. \A x \in 1 .. q - 1 - l : Piece(s, la + q)[x] = Piece(b, q)[x]
        <3>1. SUFFICES ASSUME NEW x \in 1 .. q - 1 - l
                       PROVE  Piece(s, la + q)[x] = Piece(b, q)[x]
            OBVIOUS
        <3>2. l + x \in 1 .. lb /\ (la + l) + x = la + (l + x)
            BY <1>2, <2>2, <2>4
        <3>3. s[la + (l + x)] = b[l + x]
            BY <1>3, <3>2
        <3>4. Piece(s, la + q)[x] = s[la + (l + x)]
            BY <2>7, <2>8, <3>2
        <3>5. QED
            BY <2>6, <3>3, <3>4
    <2>10. QED
        BY <2>6, <2>7, <2>8, <2>9, SeqEqual
<1>6. /\ LineEnds(a) \subseteq 1 .. la /\ LineEnds(b) \subseteq 1 .. lb
      /\ LineEnds(a) \subseteq Int /\ LineEnds(b) \subseteq Int
    BY <1>1, <1>2 DEF LineEnds, Ends
<1>7. \A p : p \in LineEnds(s) <=> p \in LineEnds(a) \/ (p - la \in LineEnds(b) /\ p \in la + 1 .. la + lb)
    <2>1. ASSUME NEW p \in 1 .. la PROVE p \in LineEnds(s) <=> p \in LineEnds(a)
        <3>1. p \in Ends(s) <=> p \in Ends(a)
            <4>1. p \in DOMAIN s /\ p \in DOMAIN a
                BY <1>1, <1>2
            <4>2. s[p] = a[p]
                BY <1>3
            <4>3. QED
                BY <4>1, <4>2 DEF Ends
        <3>2. QED
            BY <1>4, <3>1 DEF LineEnds
    <2>2. ASSUME NEW p \in la + 1 .. la + lb PROVE p \in LineEnds(s) <=> p - la \in LineEnds(b)
        <3>1. PICK q : q = p - la
            OBVIOUS
        <3>2. q \in 1 .. lb /\ p = la + q
            BY <1>2, <3>1
        <3>3. p \in Ends(s) <=> q \in Ends(b)
            <4>1. p \in DOMAIN s /\ q \in DOMAIN b
                BY <1>1, <1>2, <3>2
            <4>2. s[p] = b[q]
                BY <1>3, <3>2
            <4>3. QED
                BY <4>1, <4>2 DEF Ends
        <3>4. Piece(s, p) = Piece(b, q)
            BY <1>5, <3>2
        <3>5. QED
            BY <3>1, <3>3, <3>4 DEF LineEnds
    <2>3. \A p \in LineEnds(s) : p \in 1 .. la \/ p \in la + 1 .. la + lb
        BY <1>2 DEF LineEnds, Ends
    <2>4. \A p \in 1 .. la : p \notin la + 1 .. la + lb
        BY <1>2
    <2>5. QED
        BY <1>6, <2>1, <2>2, <2>3, <2>4
<1>8. PICK g, n : Enumerates(g, n, LineEnds(a))
    BY <1>2, <1>6, Enumerable DEF HasEnumeration
<1>9. PICK h, m : Enumerates(h, m, LineEnds(b))
    BY <1>2, <1>6, Enumerable DEF HasEnumeration
<1>10. /\ n \in Nat /\ g \in [1 .. n -> LineEnds(a)]
       /\ \A p \in LineEnds(a) : \E k \in 1 .. n : g[k] = p
       /\ \A k, l \in 1 .. n : k < l => g[k] < g[l]
    BY <1>8 DEF Enumerates
<1>11. /\ m \in Nat /\ h \in [1 .. m -> LineEnds(b)]
       /\ \A p \in LineEnds(b) : \E k \in 1 .. m : h[k] = p
       /\ \A k, l \in 1 .. m : k < l => h[k] < h[l]
    BY <1>9 DEF Enumerates
<1>12. PICK f : f = [k \in 1 .. n + m |-> IF k <= n THEN g[k] ELSE la + h[k - n]]
    OBVIOUS
<1>13. \A k \in 1 .. n : f[k] = g[k] /\ g[k] \in LineEnds(a) /\ g[k] \in 1 .. la /\ k \in 1 .. n + m
    <2>1. \A k \in 1 .. n : g[k] \in LineEnds(a) /\ k \in 1 .. n + m /\ k <= n
        BY <1>10, <1>11
    <2>2. QED
        BY <1>6, <1>12, <2>1
<1>14. \A k \in 1 .. m : f[n + k] = la + h[k] /\ h[k] \in LineEnds(b) /\ h[k] \in 1 .. lb /\ n + k \in 1 .. n + m
    <2>1. SUFFICES ASSUME NEW k \in 1 .. m
                   PROVE  /\ f[n + k] = la + h[k] /\ h[k] \in LineEnds(b)
                          /\ h[k] \in 1 .. lb /\ n + k \in 1 .. n + m
        OBVIOUS
    <2>2. PICK x : x = n + k
        OBVIOUS
    <2>3. x \in 1 .. n + m /\ ~(x <= n) /\ x - n = k
        BY <1>10, <1>11, <2>2
    <2>4. f[x] = la + h[k]
        BY <1>12, <2>3
    <2>5. h[k] \in LineEnds(b)
        BY <1>11
    <2>6. QED
        BY <1>6, <2>2, <2>3, <2>4, <2>5
<1>15. \A k \in 1 .. n + m : k \in 1 .. n \/ \E l \in 1 .. m : k = n + l
    <2>1. SUFFICES ASSUME NEW k \in 1 .. n + m, ~(k <= n)
                   PROVE  \E l \in 1 .. m : k = n + l
        BY <1>10
    <2>2. k - n \in 1 .. m /\ k = n + (k - n)
        BY <1>10, <1>11, <2>1
    <2>3. QED
        BY <2>2
<1>16. Enumerates(f, n + m, LineEnds(s))
    <2>1. \A k \in 1 .. m : la + h[k] \in LineEnds(s)
        <3>1. SUFFICES ASSUME NEW k \in 1 .. m PROVE la + h[k] \in LineEnds(s)
            OBVIOUS
        <3>2. la + h[k] \in la + 1 .. la + lb /\ (la + h[k]) - la = h[k]
            BY <1>2, <1>14
        <3>3. QED
            BY <1>7, <1>14, <3>2
    <2>2. \A k \in 1 .. n + m : f[k] \in LineEnds(s)
        BY <1>7, <1>13, <1>14, <1>15, <2>1
    <2>3. f \in [1 .. n + m -> LineEnds(s)]
        BY <1>12, <2>2
    <2>4. \A p \in LineEnds(s) : \E k \in 1 .. n + m : f[k] = p
        <3>1. SUFFICES ASSUME NEW p \in LineEnds(s) PROVE \E k \in 1 .. n + m : f[k] = p
            OBVIOUS
        <3>2. CASE p \in LineEnds(a)
            BY <1>10, <1>13, <3>2
        <3>3. CASE p - la \in LineEnds(b) /\ p \in la + 1 .. la + lb
            <4>1. PICK k \in 1 .. m : h[k] = p - la
                BY <1>11, <3>3
            <4>2. f[n + k] = p /\ n + k \in 1 .. n + m
                BY <1>2, <1>14, <3>3, <4>1
            <4>3. QED
                BY <4>2
        <3>4. QED
            BY <1>7, <3>2, <3>3
    <2>5. \A k, l \in 1 .. n + m : k < l => f[k] < f[l]
        <3>1. SUFFICES ASSUME NEW k \in 1 .. n + m, NEW l \in 1 .. n + m, k < l
                       PROVE  f[k] < f[l]
            OBVIOUS
        <3>2. CASE l \in 1 .. n
            <4>1. k \in 1 .. n
                BY <1>10, <3>1, <3>2
            <4>2. QED
                BY <1>10, <1>13, <3>1, <3>2, <4>1
        <3>3. CASE k \in 1 .. n /\ l \notin 1 .. n
            <4>1. PICK x \in 1 .. m : l = n + x
                BY <1>15, <3>3
            <4>2. f[k] \in 1 .. la /\ f[l] = la + h[x] /\ h[x] \in 1 .. lb
                BY <1>13, <1>14, <3>3, <4>1
            <4>3. QED
                BY <1>2, <4>2
        <3>4. CASE k \notin 1 .. n
            <4>1. PICK x \in 1 .. m : k = n + x
                BY <1>15, <3>4
            <4>2. l \notin 1 .. n
                BY <1>10, <3>1, <3>4
            <4>3. PICK y \in 1 .. m : l = n + y
                BY <1>15, <4>2
            <4>4. x < y
                BY <1>10, <1>11, <3>1, <4>1, <4>3
            <4>5. h[x] < h[y] /\ h[x] \in 1 .. lb /\ h[y] \in 1 .. lb
                BY <1>11, <1>14, <4>4
            <4>6. f[k] = la + h[x] /\ f[l] = la + h[y]
                BY <1>14, <4>1, <4>3
            <4>7. QED
                BY <1>2, <4>5, <4>6
        <3>5. QED
            BY <3>2, <3>3, <3>4
    <2>6. QED
        BY <1>10, <1>11, <2>3, <2>4, <2>5 DEF Enumerates
<1>17. Lines(a) = [k \in 1 .. n |-> Piece(a, g[k])] /\ Lines(b) = [k \in 1 .. m |-> Piece(b, h[k])]
    BY <1>6, <1>8, <1>9, LinesBy
<1>18. Lines(s) = [k \in 1 .. n + m |-> Piece(s, f[k])]
    <2>1. LineEnds(s) \subseteq Int
        BY <1>2 DEF LineEnds, Ends
    <2>2. QED
        BY <1>16, <2>1, LinesBy
<1>19. Lines(a) \in Seq(Seq(B)) /\ Lines(b) \in Seq(Seq(B)) /\ Lines(s) \in Seq(Seq(B))
    BY <1>2, LinesType
<1>20. Len(Lines(a)) = n /\ Len(Lines(b)) = m /\ Len(Lines(s)) = n + m
    BY <1>10, <1>11, <1>17, <1>18
<1>21. \A k \in 1 .. n + m : Lines(s)[k] = (Lines(a) \o Lines(b))[k]
    <2>1. \A k \in 1 .. n + m : (Lines(a) \o Lines(b))[k] = IF k <= n THEN Lines(a)[k] ELSE Lines(b)[k - n]
        BY <1>19, <1>20, ConcatProperties
    <2>2. ASSUME NEW k \in 1 .. n PROVE Lines(s)[k] = (Lines(a) \o Lines(b))[k]
        <3>1. k \in 1 .. n + m /\ k <= n
            BY <1>13, <1>10
        <3>2. Lines(s)[k] = Piece(s, g[k]) /\ Lines(a)[k] = Piece(a, g[k])
            BY <1>13, <1>17, <1>18, <3>1
        <3>3. QED
            BY <1>4, <1>13, <2>1, <3>1, <3>2
    <2>3. ASSUME NEW l \in 1 .. m PROVE Lines(s)[n + l] = (Lines(a) \o Lines(b))[n + l]
        <3>1. n + l \in 1 .. n + m
            BY <1>10, <1>14
        <3>2. Lines(s)[n + l] = Piece(s, la + h[l]) /\ Lines(b)[l] = Piece(b, h[l])
            BY <1>14, <1>17, <1>18, <3>1
        <3>3. Piece(s, la + h[l]) = Piece(b, h[l])
            BY <1>5, <1>14
        <3>4. PICK x : x = n + l
            OBVIOUS
        <3>5. x \in 1 .. n + m /\ ~(x <= n) /\ x - n = l
            BY <1>10, <1>11, <3>4
        <3>6. (Lines(a) \o Lines(b))[x] = Lines(b)[l]
            BY <2>1, <3>5
        <3>7. QED
            BY <3>2, <3>3, <3>4, <3>6
    <2>4. QED
        BY <1>15, <2>2, <2>3
<1>22. Lines(a) \o Lines(b) \in Seq(Seq(B)) /\ Len(Lines(a) \o Lines(b)) = n + m
    BY <1>19, <1>20, ConcatProperties
<1>23. QED
    BY <1>1, <1>19, <1>20, <1>21, <1>22, SeqEqual

(***************************************************************************)
(* A text of whole lines without a 0 in it, the last of them not empty:    *)
(* with a 0 in place of its last newline, its commands are its lines.      *)
(***************************************************************************)
WholeLines(s) ==
    /\ s # <<>> => Len(s) > 1 /\ s[Len(s)] = NL /\ s[Len(s) - 1] # NL
    /\ \A x \in 1 .. Len(s) : s[x] # NUL

LEMMA WholeLinesConcat ==
    ASSUME NEW B, NEW a \in Seq(B), NEW b \in Seq(B), WholeLines(a), WholeLines(b)
    PROVE  WholeLines(a \o b)
<1>1. PICK s, la, lb : s = a \o b /\ la = Len(a) /\ lb = Len(b)
    OBVIOUS
<1>2. la \in Nat /\ lb \in Nat /\ s \in Seq(B) /\ Len(s) = la + lb
    BY <1>1
<1>3. \A x \in 1 .. la + lb : s[x] = IF x <= la THEN a[x] ELSE b[x - la]
    BY <1>1, ConcatProperties
<1>4. CASE b = <<>>
    <2>1. s = a
        BY <1>1, <1>4
    <2>2. QED
        BY <1>1, <2>1
<1>5. CASE b # <<>>
    <2>1. lb > 1 /\ b[lb] = NL /\ b[lb - 1] # NL
        BY <1>1, <1>5 DEF WholeLines
    <2>2. PICK p, q : p = la + lb /\ q = la + lb - 1
        OBVIOUS
    <2>3. /\ p \in 1 .. la + lb /\ ~(p <= la) /\ p - la = lb
          /\ q \in 1 .. la + lb /\ ~(q <= la) /\ q - la = lb - 1
        BY <1>2, <2>1, <2>2
    <2>4. s[p] = NL /\ s[q] # NL
        BY <1>3, <2>1, <2>3
    <2>5. \A x \in 1 .. la + lb : s[x] # NUL
        <3>1. SUFFICES ASSUME NEW x \in 1 .. la + lb PROVE s[x] # NUL
            OBVIOUS
        <3>2. CASE x <= la
            <4>1. x \in 1 .. la
                BY <1>2, <3>2
            <4>2. a[x] # NUL
                BY <1>1, <4>1 DEF WholeLines
            <4>3. QED
                BY <1>3, <3>2, <4>2
        <3>3. CASE ~(x <= la)
            <4>1. x - la \in 1 .. lb
                BY <1>2, <3>3
            <4>2. b[x - la] # NUL
                BY <1>1, <4>1 DEF WholeLines
            <4>3. QED
                BY <1>3, <3>3, <4>2
        <3>4. QED
            BY <3>2, <3>3
    <2>6. Len(s) = p /\ Len(s) - 1 = q /\ Len(s) > 1
        BY <1>2, <2>1, <2>2
    <2>7. WholeLines(s)
        BY <1>2, <2>4, <2>5, <2>6 DEF WholeLines
    <2>8. QED
        BY <1>1, <2>7
<1>6. QED
    BY <1>4, <1>5

LEMMA CommandsAreLines ==
    ASSUME NEW B, NEW s \in Seq(B), s # <<>>, WholeLines(s),
           NEW t \in Seq(B), Len(t) = Len(s), t[Len(s)] = NUL,
           \A x \in 1 .. Len(s) - 1 : t[x] = s[x]
    PROVE  Commands(t) = Lines(s)
<1>1. PICK n : n = Len(s)
    OBVIOUS
<1>2. /\ n \in Nat /\ n > 1 /\ s[n] = NL /\ s[n - 1] # NL
      /\ \A x \in 1 .. n : s[x] # NUL
    BY <1>1 DEF WholeLines
<1>3. Len(t) = n
    BY <1>1
<1>4. t[n] = NUL /\ \A x \in 1 .. n - 1 : t[x] = s[x]
    BY <1>1
<1> PICK E : E = LineEnds(s) \ {n}
    OBVIOUS
<1>5. \A p \in 1 .. n - 1 : /\ p \in Ends(t) <=> p \in Ends(s)
                            /\ UpToNul(Piece(t, p)) = Piece(s, p)
    <2>1. SUFFICES ASSUME NEW p \in 1 .. n - 1
                   PROVE  (p \in Ends(t) <=> p \in Ends(s)) /\ UpToNul(Piece(t, p)) = Piece(s, p)
        OBVIOUS
    <2>2. p \in 1 .. Len(s) + 1 /\ p \in 1 .. Len(t) + 1 /\ p \in Int /\ p \in DOMAIN s /\ p \in DOMAIN t
        BY <1>1, <1>2, <1>3
    <2>3. PICK l : BeginsAfter(s, p, l)
        BY <2>2, PieceBegins
    <2>4. l \in 0 .. p - 1 /\ (l # 0 => s[l] = NL) /\ \A x \in l + 1 .. p - 1 : s[x] # NL
        BY <2>3 DEF BeginsAfter
    <2>5. BeginsAfter(t, p, l)
        <3>1. (l # 0 => l \in 1 .. n - 1) /\ \A x \in l + 1 .. p - 1 : x \in 1 .. n - 1
            BY <1>2, <2>2, <2>4
        <3>2. QED
            BY <1>4, <2>4, <3>1 DEF BeginsAfter
    <2>6. /\ Piece(s, p) \in Seq(B) /\ Len(Piece(s, p)) = p - 1 - l
          /\ \A x \in 1 .. p - 1 - l : Piece(s, p)[x] = s[l + x]
        BY <2>2, <2>3, PieceType
    <2>7. /\ Piece(t, p) \in Seq(B) /\ Len(Piece(t, p)) = p - 1 - l
          /\ \A x \in 1 .. p - 1 - l : Piece(t, p)[x] = t[l + x]
        BY <1>3, <2>2, <2>5, PieceType
    <2>8. \A x \in 1 .. p - 1 - l : Piece(t, p)[x] = Piece(s, p)[x] /\ Piece(s, p)[x] # NUL
        <3>1. \A x \in 1 .. p - 1 - l : l + x \in 1 .. n - 1 /\ l + x \in 1 .. n
            BY <1>2, <2>2, <2>4
        <3>2. QED
            BY <1>2, <1>4, <2>6, <2>7, <3>1
    <2>9. Piece(t, p) = Piece(s, p)
        BY <2>6, <2>7, <2>8, SeqEqual
    <2>10. UpToNul(Piece(s, p)) = Piece(s, p)
        BY <2>6, <2>8, UpToNulType
    <2>11. p \in Ends(t) <=> p \in Ends(s)
        BY <1>4, <2>2 DEF Ends
    <2>12. QED
        BY <2>9, <2>10, <2>11
<1>6. UpToNul(Piece(t, n + 1)) = Piece(s, n) /\ Piece(s, n) # <<>>
    <2>1. n \in 1 .. Len(s) + 1 /\ n + 1 \in 1 .. Len(t) + 1
        BY <1>1, <1>2, <1>3
    <2>2. PICK l : BeginsAfter(s, n, l)
        BY <2>1, PieceBegins
    <2>3. l \in 0 .. n - 1 /\ (l # 0 => s[l] = NL) /\ \A x \in l + 1 .. n - 1 : s[x] # NL
        BY <2>2 DEF BeginsAfter
    <2>4. l < n - 1
        BY <1>2, <2>3
    <2>5. Piece(s, n) = SubSeq(s, l + 1, n - 1)
        BY <2>1, <2>2, PieceIs
    <2>6. BeginsAfter(t, n + 1, l)
        <3>1. l \in 0 .. (n + 1) - 1 /\ (l # 0 => l \in 1 .. n - 1)
            BY <1>2, <2>3, <2>4
        <3>2. \A x \in l + 1 .. (n + 1) - 1 : (x \in 1 .. n - 1 /\ x \in l + 1 .. n - 1) \/ x = n
            BY <1>2, <2>3
        <3>3. l # 0 => t[l] = NL
            BY <1>4, <2>3, <3>1
        <3>4. \A x \in l + 1 .. (n + 1) - 1 : t[x] # NL
            BY <1>4, <2>3, <3>2, DelimiterAssumption
        <3>5. QED
            BY <3>1, <3>3, <3>4 DEF BeginsAfter
    <2>7. Piece(t, n + 1) = SubSeq(t, l + 1, n)
        <3>1. Piece(t, n + 1) = SubSeq(t, l + 1, (n + 1) - 1)
            BY <1>3, <2>1, <2>6, PieceIs
        <3>2. QED
            BY <1>2, <3>1
    <2>8. UpToNul(SubSeq(t, l + 1, n)) = SubSeq(t, l + 1, n - 1)
        <3>1. l + 1 \in 1 .. Len(t) + 1 /\ n \in 0 .. Len(t) /\ n \in (l + 1) .. n + 1
            BY <1>2, <1>3, <2>3
        <3>2. \A x \in l + 1 .. n - 1 : x \in 1 .. n - 1 /\ x \in 1 .. n
            BY <1>2, <2>3
        <3>3. \A x \in l + 1 .. n - 1 : t[x] # NUL
            BY <1>2, <1>4, <3>2
        <3>4. QED
            BY <1>3, <1>4, <3>1, <3>3, UpToNulCuts
    <2>9. /\ Piece(s, n) \in Seq(B) /\ Len(Piece(s, n)) = n - 1 - l
          /\ \A x \in 1 .. n - 1 - l : Piece(s, n)[x] = s[l + x]
        BY <2>1, <2>2, PieceType
    <2>10. SubSeq(t, l + 1, n - 1) = SubSeq(s, l + 1, n - 1)
        <3>1. l + 1 \in Int /\ n - 1 \in Int
            BY <1>2, <2>3
        <3>2. \A x \in l + 1 .. n - 1 : x \in 1 .. n - 1 /\ x \in 1 .. n
            BY <1>2, <2>3
        <3>3. \A x \in l + 1 .. n - 1 : s[x] \in B /\ t[x] = s[x]
            BY <1>1, <1>4, <3>2
        <3>4. \A x \in l + 1 .. n - 1 : t[x] \in B
            BY <3>3
        <3>5. PICK u, v : u = SubSeq(s, l + 1, n - 1) /\ v = SubSeq(t, l + 1, n - 1)
            OBVIOUS
        <3>6. /\ u \in Seq(B)
              /\ Len(u) = IF l + 1 <= n - 1 THEN n - 1 - (l + 1) + 1 ELSE 0
              /\ \A x \in 1 .. n - 1 - (l + 1) + 1 : u[x] = s[(l + 1) + x - 1]
            BY <3>1, <3>3, <3>5, SubSeqProperties
        <3>7. /\ v \in Seq(B)
              /\ Len(v) = IF l + 1 <= n - 1 THEN n - 1 - (l + 1) + 1 ELSE 0
              /\ \A x \in 1 .. n - 1 - (l + 1) + 1 : v[x] = t[(l + 1) + x - 1]
            BY <3>1, <3>4, <3>5, SubSeqProperties
        <3>8. \A x \in 1 .. Len(v) : v[x] = u[x]
            <4>1. SUFFICES ASSUME NEW x \in 1 .. Len(v) PROVE v[x] = u[x]
                OBVIOUS
            <4>2. PICK y : y = (l + 1) + x - 1
                OBVIOUS
            <4>3. x \in 1 .. n - 1 - (l + 1) + 1 /\ y \in l + 1 .. n - 1
                BY <1>2, <2>3, <2>4, <3>7, <4>2
            <4>4. v[x] = t[y] /\ u[x] = s[y]
                BY <3>6, <3>7, <4>2, <4>3
            <4>5. t[y] = s[y]
                BY <3>3, <4>3
            <4>6. QED
                BY <4>4, <4>5
        <3>9. v \in Seq(B) /\ u \in Seq(B) /\ Len(v) = Len(u)
            BY <3>6, <3>7
        <3>10. v = u
            BY <3>8, <3>9, SeqEqual
        <3>11. QED
            BY <3>5, <3>10
    <2>11. Piece(s, n) # <<>>
        BY <1>2, <2>3, <2>4, <2>9
    <2>12. QED
        BY <2>5, <2>7, <2>8, <2>10, <2>11
<1>7. n \in LineEnds(s) /\ LineEnds(s) \subseteq 1 .. n
    BY <1>1, <1>2, <1>6 DEF LineEnds, Ends
<1>8. E \subseteq 1 .. n - 1 /\ E \subseteq Int /\ LineEnds(s) = E \cup {n}
    BY <1>2, <1>7
<1>9. CommandEnds(t) = E \cup {n + 1}
    <2>1. Ends(t) \subseteq 1 .. n - 1
        <3>1. \A p \in Ends(t) : p \in 1 .. n /\ p # n
            BY <1>3, <1>4, DelimiterAssumption DEF Ends
        <3>2. QED
            BY <1>2, <3>1
    <2>2. \A p \in 1 .. n - 1 : p \in E <=> p \in Ends(t) /\ UpToNul(Piece(t, p)) # <<>>
        <3>1. SUFFICES ASSUME NEW p \in 1 .. n - 1
                       PROVE  p \in E <=> p \in Ends(t) /\ UpToNul(Piece(t, p)) # <<>>
            OBVIOUS
        <3>2. p # n
            BY <1>2
        <3>3. QED
            BY <1>5, <3>2 DEF LineEnds
    <2>3. E = {p \in Ends(t) : UpToNul(Piece(t, p)) # <<>>}
        BY <1>8, <2>1, <2>2
    <2>4. QED
        BY <1>3, <2>3 DEF CommandEnds
<1>10. PICK g, m : Enumerates(g, m, E)
    <2>1. n - 1 \in Nat
        BY <1>2
    <2>2. QED
        BY <1>8, <2>1, Enumerable DEF HasEnumeration
<1>11. m \in Nat /\ g \in [1 .. m -> E]
    BY <1>10 DEF Enumerates
<1>12. PICK f, h : /\ f = [k \in 1 .. m + 1 |-> IF k = m + 1 THEN n ELSE g[k]]
                   /\ h = [k \in 1 .. m + 1 |-> IF k = m + 1 THEN n + 1 ELSE g[k]]
    OBVIOUS
<1>13. Enumerates(f, m + 1, LineEnds(s)) /\ Enumerates(h, m + 1, CommandEnds(t))
    <2>1. n \in Int /\ n + 1 \in Int /\ \A q \in E : q < n /\ q < n + 1
        BY <1>2, <1>8
    <2>2. Enumerates(f, m + 1, E \cup {n})
        BY <1>8, <1>10, <1>12, <2>1, EnumerationGrows
    <2>3. Enumerates(h, m + 1, E \cup {n + 1})
        BY <1>8, <1>10, <1>12, <2>1, EnumerationGrows
    <2>4. QED
        BY <1>8, <1>9, <2>2, <2>3
<1>14. Lines(s) = [k \in 1 .. m + 1 |-> Piece(s, f[k])]
    <2>1. LineEnds(s) \subseteq Int
        BY <1>2, <1>8
    <2>2. QED
        BY <1>13, <2>1, LinesBy
<1>15. Commands(t) = [k \in 1 .. m + 1 |-> UpToNul(Piece(t, h[k]))]
    <2>1. CommandEnds(t) \subseteq Int
        BY <1>2, <1>8, <1>9
    <2>2. QED
        BY <1>13, <2>1, CommandsBy
<1>16. \A k \in 1 .. m + 1 : UpToNul(Piece(t, h[k])) = Piece(s, f[k])
    <2>1. SUFFICES ASSUME NEW k \in 1 .. m + 1
                   PROVE  UpToNul(Piece(t, h[k])) = Piece(s, f[k])
        OBVIOUS
    <2>2. CASE k = m + 1
        <3>1. h[k] = n + 1 /\ f[k] = n
            BY <1>12, <2>2
        <3>2. QED
            BY <1>6, <3>1
    <2>3. CASE k # m + 1
        <3>1. h[k] = g[k] /\ f[k] = g[k] /\ k \in 1 .. m
            BY <1>11, <1>12, <2>3
        <3>2. g[k] \in 1 .. n - 1
            BY <1>8, <1>11, <3>1
        <3>3. QED
            BY <1>5, <3>1, <3>2
    <2>4. QED
        BY <2>2, <2>3
<1>17. QED
    BY <1>14, <1>15, <1>16

-----------------------------------------------------------------------------
(* The sockets: what every step of the server may rely on, as in           *)
(* SelectServerProofs.                                                     *)

USE FdAssumption, SizeAssumption, ClientAssumption

\* The loops of the servers go on after a descriptor.
LEMMA NextFd == \A k \in Fds : k \in 0 .. NumFds /\ k + 1 \in 0 .. NumFds
BY DEF Fds

LEMMA SubSeqType ==
    ASSUME NEW S, NEW s \in Seq(S), NEW m \in 1 .. Len(s) + 1, NEW n \in 0 .. Len(s),
           m <= n + 1
    PROVE  SubSeq(s, m, n) \in Seq(S) /\ Len(SubSeq(s, m, n)) = n - m + 1
OBVIOUS

LEMMA RecvLenType ==
    ASSUME SockTypeOK, NEW c \in Conns, inq[c] # <<>>
    PROVE  /\ inq[c] \in Seq(Byte) /\ Len(inq[c]) \in Nat
           /\ RecvLen(c) \in 1 .. BufSize /\ RecvLen(c) \in 1 .. Len(inq[c])
<1>1. inq[c] \in Seq(Byte) /\ Len(inq[c]) \in Nat \ {0}
    BY DEF SockTypeOK
<1>2. QED
    BY <1>1 DEF RecvLen

-----------------------------------------------------------------------------
(* Types of the sockets.                                                   *)

LEMMA SockAcceptTypes ==
    ASSUME SockTypeOK, NEW c \in Conns, NEW n \in Fds, SockAccept(c, n)
    PROVE  SockTypeOK'
BY DEF SockAccept, SockTypeOK

LEMMA SockRecvTypes ==
    ASSUME SockTypeOK, NEW c \in Conns, SockRecv(c)
    PROVE  SockTypeOK'
<1>1. SubSeq(inq[c], RecvLen(c) + 1, Len(inq[c])) \in Seq(Byte)
    <2>1. inq[c] \in Seq(Byte) /\ RecvLen(c) + 1 \in 1 .. Len(inq[c]) + 1
          /\ Len(inq[c]) \in 0 .. Len(inq[c]) /\ RecvLen(c) + 1 <= Len(inq[c]) + 1
        BY RecvLenType DEF SockRecv
    <2>2. QED
        BY <2>1, SubSeqType
<1>2. QED
    BY <1>1 DEF SockRecv, SockTypeOK

LEMMA SockCloseTypes ==
    ASSUME SockTypeOK, NEW c \in Conns, SockClose(c)
    PROVE  SockTypeOK'
<1>1. <<>> \in Seq(Byte) /\ 0 \in 0 .. SndBuf /\ "closed" \in LinkState
    BY DEF LinkState
<1>2. QED
    BY <1>1 DEF SockClose, SockTypeOK

LEMMA SockSendTypes ==
    ASSUME SockTypeOK, NEW c \in Conns, NEW n \in Nat, SockSend(c, n)
    PROVE  SockTypeOK'
<1>1. outq[c] + n \in 0 .. SndBuf
    BY DEF SockSend, SockTypeOK
<1>2. QED
    BY <1>1 DEF SockSend, SockTypeOK

LEMMA SockSendFailsTypes ==
    ASSUME SockTypeOK, NEW c \in Conns, SockSendFails(c)
    PROVE  SockTypeOK'
BY DEF SockSendFails, SockTypeOK, LinkState

LEMMA SockSame ==
    ASSUME SockTypeOK, UNCHANGED sockVars
    PROVE  SockTypeOK'
BY DEF sockVars, SockTypeOK

\* Steps of the clients and of the network.
LEMMA ClientTypes ==
    ASSUME SockTypeOK, NEW c \in Conns, Client(c)
    PROVE  SockTypeOK'
<1>1. CASE Connect(c)
    BY <1>1 DEF Connect, SockTypeOK, LinkState
<1>2. CASE \E w \in Writes : ClientWrite(c, w)
    <2>1. PICK w \in Writes : ClientWrite(c, w)
        BY <1>2
    <2>2. w \in Seq(Byte) /\ inq[c] \o w \in Seq(Byte)
        BY DEF SockTypeOK
    <2>3. QED
        BY <2>1, <2>2 DEF ClientWrite, SockTypeOK
<1>3. CASE ClientRead(c)
    BY <1>3 DEF ClientRead, SockTypeOK
<1>4. CASE ClientShutdown(c)
    BY <1>4 DEF ClientShutdown, SockTypeOK, LinkState
<1>5. CASE ClientClose(c)
    BY <1>5 DEF ClientClose, SockTypeOK, LinkState
<1>6. CASE ClientAbort(c)
    BY <1>6 DEF ClientAbort, SockTypeOK, LinkState
<1>7. CASE ResetArrives(c)
    BY <1>7 DEF ResetArrives, SockTypeOK, LinkState
<1>8. QED
    BY <1>1, <1>2, <1>3, <1>4, <1>5, <1>6, <1>7 DEF Client, OtherThanWrite

-----------------------------------------------------------------------------
(* The descriptor table and the backlog.                                   *)

(***************************************************************************)
(* What the kernel guarantees: a connection waits in the backlog once, and *)
(* has no descriptor before it is accepted.                                *)
(***************************************************************************)
SockInv ==
    /\ \A c \in Conns : listener = NoFd => cli[c] = "idle"
    /\ \A c \in Conns : cli[c] = "idle" => fd[c] = NoFd
    /\ \A k \in DOMAIN backlog : cli[backlog[k]] # "idle" /\ fd[backlog[k]] = NoFd
    /\ \A k, l \in DOMAIN backlog : backlog[k] = backlog[l] => k = l

\* Clients change neither descriptors nor the listener.
LEMMA ClientSockInv ==
    ASSUME SockTypeOK, SockInv, NEW c \in Conns, Client(c)
    PROVE  SockInv' /\ UNCHANGED <<listener, fd>>
<1>1. CASE Connect(c)
    <2>1. backlog' = Append(backlog, c) /\ backlog \in Seq(Conns)
        BY <1>1 DEF Connect, SockTypeOK
    <2>2. /\ DOMAIN backlog' = 1 .. Len(backlog) + 1 /\ DOMAIN backlog = 1 .. Len(backlog)
          /\ Len(backlog) \in Nat
          /\ backlog'[Len(backlog) + 1] = c
          /\ \A k \in DOMAIN backlog : backlog'[k] = backlog[k] /\ backlog[k] \in Conns
        BY <2>1, AppendProperties
    <2>3. \A k \in DOMAIN backlog : backlog[k] # c
        BY <1>1 DEF Connect, SockInv
    <2>4. \A d \in Conns : cli'[d] = IF d = c THEN "open" ELSE cli[d]
        BY <1>1 DEF Connect, SockTypeOK
    <2>5. fd[c] = NoFd /\ listener # NoFd /\ UNCHANGED <<listener, fd>>
        BY <1>1 DEF Connect, SockInv
    <2>6. \A k \in DOMAIN backlog' : k \in DOMAIN backlog \/ k = Len(backlog) + 1
        BY <2>2
    <2>7. \A k \in DOMAIN backlog' : cli'[backlog'[k]] # "idle" /\ fd'[backlog'[k]] = NoFd
        BY <2>2, <2>4, <2>5, <2>6 DEF SockInv
    <2>8. \A k, l \in DOMAIN backlog' : backlog'[k] = backlog'[l] => k = l
        BY <2>2, <2>3, <2>6 DEF SockInv
    <2>9. QED
        BY <2>4, <2>5, <2>7, <2>8 DEF SockInv
<1>2. CASE UNCHANGED <<listener, fd, backlog>> /\ \A d \in Conns : cli'[d] = "idle" <=> cli[d] = "idle"
    <2>1. \A k \in DOMAIN backlog : backlog[k] \in Conns
        BY DEF SockTypeOK
    <2>2. QED
        BY <1>2, <2>1 DEF SockInv
<1>3. CASE ~Connect(c)
    <2>1. UNCHANGED <<listener, fd, backlog>>
        BY <1>3 DEF Client, OtherThanWrite, ClientWrite, ClientRead, ClientShutdown,
            ClientClose, ClientAbort, ResetArrives
    <2>2. cli' = cli \/ (cli[c] # "idle" /\ (cli' = [cli EXCEPT ![c] = "half"] \/ cli' = [cli EXCEPT ![c] = "gone"]))
        BY <1>3 DEF Client, OtherThanWrite, ClientWrite, ClientRead, ClientShutdown,
            ClientClose, ClientAbort, ResetArrives
    <2>3. \A d \in Conns : cli'[d] = "idle" <=> cli[d] = "idle"
        BY <2>2 DEF SockTypeOK
    <2>4. QED
        BY <1>2, <2>1, <2>3
<1>4. QED
    BY <1>1, <1>3

LEMMA SockFrame ==
    ASSUME SockInv, UNCHANGED <<listener, fd, cli, backlog>>
    PROVE  SockInv'
BY DEF SockInv

\* A lowest free descriptor is nobody's.
LEMMA FreshFd ==
    ASSUME SockTypeOK, NEW n \in Fds, IsLowestFree(n)
    PROVE  /\ n \notin Inherited /\ n # listener /\ n # NoFd
           /\ \A c \in Conns : fd[c] # n
<1>1. n \notin OpenFds /\ n # NoFd
    BY DEF IsLowestFree, Fds, NoFd
<1>2. QED
    BY <1>1 DEF OpenFds, IsOpen

(***************************************************************************)
(* accept gives a connection that had none a number that nobody else has.  *)
(***************************************************************************)
LEMMA AcceptFresh ==
    ASSUME SockTypeOK, SockInv, NEW c \in Conns, NEW n \in Fds, SockAccept(c, n)
    PROVE  /\ listener # NoFd /\ fd[c] = NoFd
           /\ n \notin Inherited /\ n # listener /\ n # NoFd
           /\ \A d \in Conns : fd[d] # n
           /\ \A d \in Conns : fd'[d] = IF d = c THEN n ELSE fd[d]
           /\ SockInv'
<1>1. backlog \in Seq(Conns) /\ backlog # <<>> /\ backlog' = Tail(backlog)
      /\ c = Head(backlog) /\ UNCHANGED <<listener, cli>>
    BY DEF SockTypeOK, SockAccept
<1>2. c = backlog[1] /\ 1 \in DOMAIN backlog
    BY <1>1
<1>3. fd[c] = NoFd /\ cli[c] # "idle" /\ listener # NoFd
    BY <1>2 DEF SockInv
<1>4. n \notin Inherited /\ n # listener /\ n # NoFd /\ \A d \in Conns : fd[d] # n
    BY FreshFd DEF SockAccept
<1>5. \A d \in Conns : fd'[d] = IF d = c THEN n ELSE fd[d]
    BY DEF SockTypeOK, SockAccept
<1>6. SockInv'
    <2>1. \A k \in DOMAIN backlog' :
            /\ k \in Nat /\ k >= 1
            /\ k + 1 \in DOMAIN backlog
            /\ backlog'[k] = backlog[k + 1]
            /\ backlog[k + 1] \in Conns
        BY <1>1
    <2>2. \A k \in DOMAIN backlog' : backlog'[k] # c
        BY <2>1, <1>2 DEF SockInv
    <2>3. \A k \in DOMAIN backlog' : cli'[backlog'[k]] # "idle" /\ fd'[backlog'[k]] = NoFd
        BY <1>1, <1>5, <2>1, <2>2 DEF SockInv
    <2>4. \A k, l \in DOMAIN backlog' : backlog'[k] = backlog'[l] => k = l
        BY <2>1 DEF SockInv
    <2>5. QED
        BY <1>1, <1>3, <1>5, <2>3, <2>4 DEF SockInv
<1>7. QED
    BY <1>3, <1>4, <1>5, <1>6

LEMMA CloseSockInv ==
    ASSUME SockTypeOK, SockInv, NEW c \in Conns, SockClose(c)
    PROVE  SockInv' /\ \A d \in Conns : fd'[d] = IF d = c THEN NoFd ELSE fd[d]
<1>1. \A k \in DOMAIN backlog : backlog[k] \in Conns
    BY DEF SockTypeOK
<1>2. UNCHANGED <<listener, cli, backlog>>
      /\ \A d \in Conns : fd'[d] = IF d = c THEN NoFd ELSE fd[d]
    BY DEF SockTypeOK, SockClose
<1>3. QED
    BY <1>1, <1>2 DEF SockInv

-----------------------------------------------------------------------------
(* What select has reported and a call does not touch stays worth a call.  *)

Ready(c) == inq[c] # <<>> \/ Hangup(c)

\* Nothing a client does takes back what select has reported.
LEMMA ClientReady ==
    ASSUME SockTypeOK, SockInv, NEW c \in Conns, Client(c)
    PROVE  \A k \in Fds : Readable(k) => Readable(k)'
<1>1. UNCHANGED <<listener, fd>>
    BY ClientSockInv
<1>2. backlog # <<>> => backlog' # <<>>
    <2>1. CASE Connect(c)
        <3>1. backlog \in Seq(Conns) /\ backlog' = Append(backlog, c)
            BY <2>1 DEF Connect, SockTypeOK
        <3>2. QED
            BY <3>1, AppendProperties
    <2>2. CASE ~Connect(c)
        BY <2>2 DEF Client, OtherThanWrite, ClientWrite, ClientRead, ClientShutdown,
            ClientClose, ClientAbort, ResetArrives
    <2>3. QED
        BY <2>1, <2>2
<1>3. ASSUME NEW d \in Conns, fd[d] # NoFd, Ready(d) PROVE Ready(d)'
    <2>1. CASE Connect(c)
        <3>1. d # c
            BY <1>3, <2>1 DEF Connect, SockInv
        <3>2. QED
            BY <1>3, <2>1, <3>1 DEF Connect, SockTypeOK, Ready, Hangup
    <2>2. ASSUME NEW w \in Writes, ClientWrite(c, w) PROVE Ready(d)'
        <3>1. w \in Seq(Byte) /\ w # <<>> /\ inq \in [Conns -> Seq(Byte)]
            BY DEF SockTypeOK
        <3>2. inq[c] \o w # <<>>
            BY <3>1, ConcatEqualIffEmpty
        <3>3. QED
            BY <1>3, <2>2, <3>1, <3>2 DEF ClientWrite, Ready, Hangup
    <2>3. CASE ClientRead(c)
        BY <1>3, <2>3 DEF ClientRead, Ready, Hangup
    <2>4. CASE ClientShutdown(c)
        BY <1>3, <2>4 DEF ClientShutdown, SockTypeOK, Ready, Hangup
    <2>5. CASE ClientClose(c)
        BY <1>3, <2>5 DEF ClientClose, SockTypeOK, Ready, Hangup
    <2>6. CASE ClientAbort(c)
        BY <1>3, <2>6 DEF ClientAbort, SockTypeOK, Ready, Hangup
    <2>7. CASE ResetArrives(c)
        BY <1>3, <2>7 DEF ResetArrives, SockTypeOK, Ready, Hangup
    <2>8. QED
        BY <2>1, <2>2, <2>3, <2>4, <2>5, <2>6, <2>7 DEF Client, OtherThanWrite
<1>4. QED
    BY <1>1, <1>2, <1>3 DEF Readable, IsOpen, Ready

LEMMA AcceptReadable ==
    ASSUME SockTypeOK, SockInv, NEW c \in Conns, NEW n \in Fds, SockAccept(c, n),
           NEW k \in Fds, k # listener, Readable(k)
    PROVE  Readable(k)'
<1>1. fd[c] = NoFd /\ \A d \in Conns : fd'[d] = IF d = c THEN n ELSE fd[d]
    BY AcceptFresh
<1>2. PICK d \in Conns : IsOpen(d) /\ fd[d] = k /\ (inq[d] # <<>> \/ Hangup(d))
    BY DEF Readable
<1>3. d # c
    BY <1>1, <1>2 DEF IsOpen
<1>4. QED
    BY <1>1, <1>2, <1>3 DEF SockAccept, Readable, IsOpen, Hangup

LEMMA CloseReadable ==
    ASSUME SockTypeOK, NEW c \in Conns, SockClose(c), NEW k \in Fds, k # fd[c], Readable(k)
    PROVE  Readable(k)'
<1>1. UNCHANGED <<listener, backlog>>
      /\ \A d \in Conns : d # c => fd'[d] = fd[d] /\ link'[d] = link[d] /\ inq'[d] = inq[d]
    BY DEF SockClose, SockTypeOK
<1>2. CASE k = listener /\ backlog # <<>>
    BY <1>1, <1>2 DEF Readable
<1>3. CASE \E d \in Conns : IsOpen(d) /\ fd[d] = k /\ (inq[d] # <<>> \/ Hangup(d))
    BY <1>1, <1>3 DEF Readable, IsOpen, Hangup
<1>4. QED
    BY <1>2, <1>3 DEF Readable

LEMMA RecvReadable ==
    ASSUME SockTypeOK, NEW c \in Conns, SockRecv(c), NEW k \in Fds, k # fd[c], Readable(k)
    PROVE  Readable(k)'
<1>1. UNCHANGED <<listener, backlog, fd, link>>
      /\ \A d \in Conns : d # c => inq'[d] = inq[d]
    BY DEF SockRecv, SockTypeOK
<1>2. QED
    BY <1>1 DEF Readable, IsOpen, Hangup

-----------------------------------------------------------------------------
(* Types of what the descriptors depend on.                                *)

USE EventAssumption DEF FdmaxWith, IsReported

\* The types of what the descriptors depend on.
FdTypes ==
    /\ SockTypeOK
    /\ pc \in {"start", "check", "send", "select", "scan", "exited", "killed"}
    /\ master \subseteq Fds
    /\ read_fds \subseteq Fds
    /\ fdmax \in Fds \cup {NoFd}
    /\ i \in 0 .. NumFds
    /\ j \in 0 .. NumFds

LEMMA FdTypesInit == Init => FdTypes
BY DEF Init, SockInit, FdTypes, SockTypeOK, NoFd, LinkState, Fds

LEMMA FdTypesNext ==
    ASSUME FdTypes, [Next]_vars
    PROVE  FdTypes'
<1> USE DEF FdTypes
<1>1. ASSUME NEW n \in Fds, InitOk(n) PROVE FdTypes'
    <2>1. SockTypeOK'
        BY <1>1 DEF InitOk, SockTypeOK
    <2>2. QED
        BY <1>1, <2>1 DEF InitOk
<1>2. CASE InitFails
    BY <1>2, SockSame DEF InitFails
<1>3. CASE Check
    <2>1. 0 \in 0 .. NumFds /\ pc' \in {"exited", "send"}
        BY <1>3 DEF Check
    <2>2. QED
        BY <1>3, <2>1, SockSame DEF Check
<1>4. ASSUME NEW c \in Conns, SendOk(c) PROVE FdTypes'
    <2>1. fd[c] + 1 \in 0 .. NumFds
        BY <1>4, NextFd DEF SendOk, IsNextTarget, Targets
    <2>2. SockTypeOK'
        <3>1. EventLen \in Nat /\ SockSend(c, EventLen)
            BY <1>4 DEF SendOk
        <3>2. QED
            BY <3>1, SockSendTypes
    <2>3. QED
        BY <1>4, <2>1, <2>2 DEF SendOk
<1>5. ASSUME NEW c \in Conns, SendError(c) PROVE FdTypes'
    <2>1. fd[c] + 1 \in 0 .. NumFds
        BY <1>5, NextFd DEF SendError, IsNextTarget, Targets
    <2>2. SockTypeOK'
        BY <1>5, SockSendFailsTypes DEF SendError
    <2>3. QED
        BY <1>5, <2>1, <2>2 DEF SendError
<1>6. ASSUME NEW c \in Conns, SendSigpipe(c) PROVE FdTypes'
    BY <1>6, SockSame DEF SendSigpipe
<1>7. CASE EndSend
    BY <1>7, SockSame DEF EndSend
<1>8. CASE Select
    <2>1. pc' \in {"exited", "scan"} /\ i' \in 0 .. NumFds
        BY <1>8 DEF Select
    <2>2. read_fds' \subseteq Fds
        BY <1>8 DEF Select
    <2>3. QED
        BY <1>8, <2>1, <2>2, SockSame DEF Select
<1>9. ASSUME NEW c \in Conns, NEW n \in Fds, Accept(c, n) PROVE FdTypes'
    <2>1. SockTypeOK'
        BY <1>9, SockAcceptTypes DEF Accept
    <2>2. listener + 1 \in 0 .. NumFds
        BY <1>9, NextFd DEF Accept, IsNextReady
    <2>3. QED
        BY <1>9, <2>1, <2>2 DEF Accept
<1>10. CASE AcceptFails
    <2>1. listener + 1 \in 0 .. NumFds
        BY <1>10, NextFd DEF AcceptFails, IsNextReady
    <2>2. QED
        BY <1>10, <2>1, SockSame DEF AcceptFails
<1>11. ASSUME NEW c \in Conns, RecvClosed(c) PROVE FdTypes'
    <2>1. SockTypeOK'
        BY <1>11, SockCloseTypes DEF RecvClosed
    <2>2. fd[c] + 1 \in 0 .. NumFds
        BY <1>11, NextFd DEF RecvClosed, IsNextReady
    <2>3. QED
        BY <1>11, <2>1, <2>2 DEF RecvClosed
<1>12. ASSUME NEW c \in Conns, RecvData(c) PROVE FdTypes'
    <2>1. SockTypeOK'
        BY <1>12, SockRecvTypes DEF RecvData
    <2>2. fd[c] + 1 \in 0 .. NumFds
        BY <1>12, NextFd DEF RecvData, IsNextReady
    <2>3. QED
        BY <1>12, <2>1, <2>2 DEF RecvData
<1>13. CASE EndScan
    BY <1>13, SockSame DEF EndScan
<1>14. CASE Clients
    <2>1. SockTypeOK'
        BY <1>14, ClientTypes DEF Clients, Client
    <2>2. QED
        BY <1>14, <2>1 DEF Clients, srvVars
<1>15. CASE UNCHANGED vars
    <2>1. SockTypeOK'
        BY <1>15, SockSame DEF vars
    <2>2. QED
        BY <1>15, <2>1 DEF vars, srvVars
<1>16. QED
    BY <1>1, <1>2, <1>3, <1>4, <1>5, <1>6, <1>7, <1>8, <1>9, <1>10, <1>11,
       <1>12, <1>13, <1>14, <1>15 DEF Next, Server

-----------------------------------------------------------------------------
(* The descriptor bookkeeping.                                             *)

WatchInv ==
    /\ pc = "start" => listener = NoFd
    /\ listener = NoFd => pc \in {"start", "exited"}
    /\ WatchedExactly

Inv == FdTypes /\ SockInv /\ WatchInv

LEMMA InvInit == Init => Inv
<1>1. Init => SockInv /\ WatchInv
    BY DEF Init, SockInit, SockInv, WatchInv, WatchedExactly
<1>2. QED
    BY <1>1, FdTypesInit DEF Inv

LEMMA WatchFrame ==
    ASSUME WatchInv, UNCHANGED <<listener, fd, master, fdmax>>,
           \/ pc \notin {"start", "exited"} /\ pc' # "start"
           \/ pc' \in {pc, "exited"}
    PROVE  WatchInv'
<1>1. WatchedExactly'
    BY DEF WatchInv, WatchedExactly, IsOpen
<1>2. QED
    BY <1>1 DEF WatchInv

(***************************************************************************)
(* The new connection is watched under a number nobody else has            *)
(* (cli_server.c:155-168).                                                 *)
(***************************************************************************)
LEMMA WatchAccept ==
    ASSUME Inv, NEW c \in Conns, NEW n \in Fds, Accept(c, n)
    PROVE  SockInv' /\ WatchInv'
<1>1. /\ listener # NoFd /\ fd[c] = NoFd
      /\ n \notin Inherited /\ n # listener /\ n # NoFd
      /\ \A d \in Conns : fd[d] # n
      /\ \A d \in Conns : fd'[d] = IF d = c THEN n ELSE fd[d]
      /\ SockInv'
    BY AcceptFresh DEF Inv, FdTypes, Accept
<1>2. /\ master' = master \cup {n}
      /\ fdmax' = IF n > fdmax THEN n ELSE fdmax
      /\ listener' = listener /\ pc' = "scan" /\ pc = "scan"
    BY DEF Accept, SockAccept
<1>3. fdmax \in Int /\ n \in Int /\ master \subseteq Fds /\ WatchedExactly
    BY DEF Inv, FdTypes, WatchInv, Fds, NoFd
<1>4. master' = {listener'} \cup {fd'[d] : d \in {e \in Conns : fd'[e] # NoFd}}
    BY <1>1, <1>2, <1>3 DEF WatchedExactly, IsOpen
<1>5. \A k \in master' : k <= fdmax' /\ k \notin Inherited
    <2>1. \A k \in master : k <= fdmax /\ k \in Int /\ k \notin Inherited
        BY <1>1, <1>3 DEF WatchedExactly, Fds
    <2>2. QED
        BY <1>1, <1>2, <1>3, <2>1
<1>6. \A d \in Conns : fd'[d] # listener'
    BY <1>1, <1>2, <1>3 DEF WatchedExactly
<1>7. \A d, e \in Conns : fd'[d] # NoFd /\ fd'[d] = fd'[e] => d = e
    BY <1>1, <1>3 DEF WatchedExactly, IsOpen
<1>8. QED
    BY <1>1, <1>2, <1>4, <1>5, <1>6, <1>7 DEF WatchInv, WatchedExactly, IsOpen

\* The closed connection, and no other, is no longer watched
\* (cli_server.c:185-186).
LEMMA WatchClose ==
    ASSUME Inv, NEW c \in Conns, RecvClosed(c)
    PROVE  SockInv' /\ WatchInv'
<1>1. SockInv' /\ \A d \in Conns : fd'[d] = IF d = c THEN NoFd ELSE fd[d]
    BY CloseSockInv DEF Inv, FdTypes, RecvClosed
<1>2. /\ UNCHANGED <<listener, pc, fdmax>>
      /\ master' = master \ {fd[c]}
      /\ fd[c] # NoFd /\ pc = "scan"
    BY DEF RecvClosed, SockClose, IsOpen
<1>3. listener # NoFd /\ WatchedExactly
    BY <1>2 DEF Inv, WatchInv
<1>4. WatchedExactly'
    BY <1>1, <1>2, <1>3 DEF WatchedExactly, IsOpen
<1>5. QED
    BY <1>1, <1>2, <1>3, <1>4 DEF WatchInv

LEMMA InvNext ==
    ASSUME Inv, [Next]_vars
    PROVE  Inv'
<1> USE DEF Inv
<1>0. FdTypes'
    BY FdTypesNext
<1>1. ASSUME NEW n \in Fds, InitOk(n) PROVE SockInv' /\ WatchInv'
    <2>1. \A c \in Conns : cli[c] = "idle" /\ fd[c] = NoFd
        BY <1>1 DEF InitOk, SockInv, WatchInv
    <2>2. n \notin Inherited /\ n # NoFd /\ n \in Int
        BY <1>1, FreshFd DEF InitOk, FdTypes, Fds
    <2>3. listener' = n /\ master' = {n} /\ fdmax' = n /\ pc' = "check"
          /\ UNCHANGED <<fd, cli, backlog>>
        BY <1>1 DEF InitOk
    <2>4. SockInv'
        BY <2>1, <2>2, <2>3 DEF SockInv
    <2>5. WatchedExactly'
        BY <2>1, <2>2, <2>3 DEF WatchedExactly, IsOpen
    <2>6. QED
        BY <2>2, <2>3, <2>4, <2>5 DEF WatchInv
<1>2. CASE InitFails
    BY <1>0, <1>2, SockFrame, WatchFrame DEF InitFails, sockVars
<1>3. CASE Check
    <2>1. pc = "check" /\ pc' # "start" /\ UNCHANGED <<sockVars, master, fdmax>>
        BY <1>3 DEF Check
    <2>2. QED
        BY <1>0, <2>1, SockFrame, WatchFrame DEF sockVars
<1>4. ASSUME NEW c \in Conns, SendOk(c) PROVE SockInv' /\ WatchInv'
    BY <1>4, SockFrame, WatchFrame DEF SendOk, SockSend
<1>5. ASSUME NEW c \in Conns, SendError(c) PROVE SockInv' /\ WatchInv'
    BY <1>5, SockFrame, WatchFrame DEF SendError, SockSendFails
<1>6. ASSUME NEW c \in Conns, SendSigpipe(c) PROVE SockInv' /\ WatchInv'
    BY <1>6, SockFrame, WatchFrame DEF SendSigpipe, sockVars
<1>7. CASE EndSend
    BY <1>0, <1>7, SockFrame, WatchFrame DEF EndSend, sockVars
<1>8. CASE Select
    <2>1. pc = "select" /\ pc' # "start" /\ UNCHANGED <<sockVars, master, fdmax>>
        BY <1>8 DEF Select
    <2>2. QED
        BY <1>0, <2>1, SockFrame, WatchFrame DEF sockVars
<1>9. ASSUME NEW c \in Conns, NEW n \in Fds, Accept(c, n) PROVE SockInv' /\ WatchInv'
    BY <1>9, WatchAccept
<1>10. CASE AcceptFails
    BY <1>0, <1>10, SockFrame, WatchFrame DEF AcceptFails, sockVars
<1>11. ASSUME NEW c \in Conns, RecvClosed(c) PROVE SockInv' /\ WatchInv'
    BY <1>11, WatchClose
<1>12. ASSUME NEW c \in Conns, RecvData(c) PROVE SockInv' /\ WatchInv'
    <2>1. pc = "scan" /\ pc' = "scan" /\ UNCHANGED <<listener, fd, cli, backlog, master, fdmax>>
        BY <1>12 DEF RecvData, SockRecv
    <2>2. QED
        BY <1>0, <2>1, SockFrame, WatchFrame
<1>13. CASE EndScan
    BY <1>0, <1>13, SockFrame, WatchFrame DEF EndScan, sockVars
<1>14. CASE Clients
    <2>1. SockInv' /\ UNCHANGED <<listener, fd>>
        BY <1>14, ClientSockInv DEF Clients, FdTypes, Client
    <2>2. UNCHANGED <<pc, master, fdmax>>
        BY <1>14 DEF Clients, srvVars
    <2>3. QED
        BY <1>0, <2>1, <2>2, WatchFrame
<1>15. CASE UNCHANGED vars
    <2>1. UNCHANGED <<listener, fd, cli, backlog, pc, master, fdmax>>
        BY <1>15 DEF vars, sockVars, srvVars
    <2>2. QED
        BY <1>0, <2>1, SockFrame, WatchFrame
<1>16. QED
    BY <1>0, <1>1, <1>2, <1>3, <1>4, <1>5, <1>6, <1>7, <1>8, <1>9, <1>10, <1>11,
       <1>12, <1>13, <1>14, <1>15 DEF Next, Server

(***************************************************************************)
(* ctx->master is exactly the listener and the open connections, for any   *)
(* number of clients and descriptors.                                      *)
(***************************************************************************)
THEOREM CliWatches == Spec => []WatchedExactly
<1>1. Inv => WatchedExactly
    BY DEF Inv, WatchInv
<1>2. QED
    BY <1>1, InvInit, InvNext, PTL DEF Spec

-----------------------------------------------------------------------------
(* The scan.                                                               *)

StillToScan == {k \in read_fds : i <= k}

\* A step that leaves fewer descriptors to scan, and those as they were.
LEMMA ScanFrame ==
    ASSUME NeverBlocksInScan, pc = "scan", StillToScan' \subseteq StillToScan,
           \A k \in StillToScan' : k \in master /\ Readable(k) => k \in master' /\ Readable(k)'
    PROVE  NeverBlocksInScan'
BY DEF NeverBlocksInScan, StillToScan

LEMMA ScanNext ==
    ASSUME Inv, NeverBlocksInScan, [Next]_vars
    PROVE  NeverBlocksInScan'
<1>1. read_fds \subseteq Fds /\ i \in Int /\ \A k \in Fds : k \in Int /\ k # NoFd
    BY DEF Inv, FdTypes, Fds, NoFd
<1>2. SockTypeOK /\ SockInv /\ WatchInv
    BY DEF Inv, FdTypes
<1>3. ASSUME pc' # "scan" PROVE NeverBlocksInScan'
    BY <1>3 DEF NeverBlocksInScan
<1>4. CASE Select
    BY <1>4 DEF Select, NeverBlocksInScan, Readable, sockVars, IsOpen, Hangup
<1>5. ASSUME NEW c \in Conns, NEW n \in Fds, Accept(c, n) PROVE NeverBlocksInScan'
    <2>1. /\ pc = "scan" /\ pc' = "scan" /\ read_fds' = read_fds
          /\ listener \in read_fds /\ i <= listener /\ i' = listener + 1
          /\ master \subseteq master'
        BY <1>5 DEF Accept, IsNextReady
    <2>2. \A k \in StillToScan' : k \in StillToScan /\ k # listener /\ k \in Fds
        BY <1>1, <2>1 DEF StillToScan
    <2>3. \A k \in StillToScan' : Readable(k) => Readable(k)'
        BY <1>2, <1>5, <2>2, AcceptReadable DEF Accept
    <2>4. QED
        BY <2>1, <2>2, <2>3, ScanFrame
<1>6. CASE AcceptFails
    <2>1. /\ pc = "scan" /\ i <= listener /\ i' = listener + 1 /\ listener \in read_fds
          /\ UNCHANGED <<sockVars, pc, master, read_fds>>
        BY <1>6 DEF AcceptFails, IsNextReady
    <2>2. StillToScan' \subseteq StillToScan
        BY <1>1, <2>1 DEF StillToScan
    <2>3. \A k : Readable(k) => Readable(k)'
        BY <2>1 DEF sockVars, Readable, IsOpen, Hangup
    <2>4. QED
        BY <2>1, <2>2, <2>3, ScanFrame
<1>7. ASSUME NEW c \in Conns, RecvClosed(c) PROVE NeverBlocksInScan'
    <2>1. /\ pc = "scan" /\ pc' = "scan" /\ read_fds' = read_fds
          /\ fd[c] \in read_fds /\ i <= fd[c] /\ i' = fd[c] + 1
          /\ master' = master \ {fd[c]}
        BY <1>7 DEF RecvClosed, IsNextReady
    <2>2. \A k \in StillToScan' : k \in StillToScan /\ k # fd[c] /\ k \in Fds
        BY <1>1, <2>1 DEF StillToScan
    <2>3. \A k \in StillToScan' : Readable(k) => Readable(k)'
        BY <1>2, <1>7, <2>2, CloseReadable DEF RecvClosed
    <2>4. QED
        BY <2>1, <2>2, <2>3, ScanFrame
<1>8. ASSUME NEW c \in Conns, RecvData(c) PROVE NeverBlocksInScan'
    <2>1. /\ pc = "scan" /\ pc' = "scan" /\ read_fds' = read_fds
          /\ fd[c] \in read_fds /\ i <= fd[c] /\ i' = fd[c] + 1 /\ master' = master
        BY <1>8 DEF RecvData, IsNextReady
    <2>2. \A k \in StillToScan' : k \in StillToScan /\ k # fd[c] /\ k \in Fds
        BY <1>1, <2>1 DEF StillToScan
    <2>3. \A k \in StillToScan' : Readable(k) => Readable(k)'
        BY <1>2, <1>8, <2>2, RecvReadable DEF RecvData
    <2>4. QED
        BY <2>1, <2>2, <2>3, ScanFrame
<1>9. CASE Clients
    <2>1. UNCHANGED <<pc, read_fds, i, master>>
        BY <1>9 DEF Clients, srvVars
    <2>2. StillToScan' = StillToScan /\ StillToScan \subseteq Fds
        BY <1>1, <2>1 DEF StillToScan
    <2>3. \A k \in Fds : Readable(k) => Readable(k)'
        BY <1>2, <1>9, ClientReady DEF Clients, Client
    <2>4. QED
        BY <1>3, <2>1, <2>2, <2>3, ScanFrame
<1>10. CASE UNCHANGED vars
    BY <1>10 DEF vars, sockVars, srvVars, NeverBlocksInScan, Readable, IsOpen, Hangup
<1>11. CASE \/ InitFails \/ Check \/ EndSend \/ EndScan \/ \E n \in Fds : InitOk(n)
            \/ \E c \in Conns : SendOk(c) \/ SendError(c) \/ SendSigpipe(c)
    <2>1. pc' # "scan"
        BY <1>11 DEF InitFails, Check, EndSend, EndScan, InitOk, SendOk, SendError, SendSigpipe
    <2>2. QED
        BY <1>3, <2>1
<1>12. QED
    BY <1>4, <1>5, <1>6, <1>7, <1>8, <1>9, <1>10, <1>11 DEF Next, Server

(***************************************************************************)
(* "don't block" (cli_server.c:131): no accept and no recv of a run ever   *)
(* waits, for any number of clients and whatever they do meanwhile.        *)
(***************************************************************************)
THEOREM CliNeverBlocks == Spec => []NeverBlocksInScan
<1>1. Init => NeverBlocksInScan
    BY DEF Init, NeverBlocksInScan
<1>2. QED
    BY <1>1, InvInit, InvNext, ScanNext, PTL DEF Spec

-----------------------------------------------------------------------------
(* Types of the counter and of the histories.                              *)

DataTypes ==
    /\ shutdown \in Nat
    /\ said \in [Conns -> Seq(Byte)]
    /\ cmds \in [Conns -> Seq(Seq(Byte))]

LEMMA ShutdownsType ==
    ASSUME NEW W, NEW words \in Seq(W)
    PROVE  Shutdowns(words) \in Nat
<1> PICK S : S = {k \in DOMAIN words : words[k] = ShutdownWord}
    OBVIOUS
<1>1. S \subseteq 1 .. Len(words) /\ Len(words) \in Int /\ 1 \in Int
    OBVIOUS
<1>2. IsFiniteSet(S)
    BY <1>1, FS_Interval, FS_Subset
<1>3. Cardinality(S) \in Nat
    BY <1>2, FS_CardinalityType
<1>4. QED
    BY <1>3 DEF Shutdowns

\* What recv has stored, with the 0 (cli_server.c:175, 190-193).
LEMMA Received ==
    ASSUME SockTypeOK, NEW c \in Conns, inq[c] # <<>>,
           NEW buf, buf = Terminated(SubSeq(inq[c], 1, RecvLen(c)))
    PROVE  /\ buf \in Seq(Byte) /\ Len(buf) = RecvLen(c) /\ buf[RecvLen(c)] = NUL
           /\ \A x \in 1 .. RecvLen(c) - 1 : buf[x] = inq[c][x]
<1>1. /\ inq[c] \in Seq(Byte) /\ Len(inq[c]) \in Nat
      /\ RecvLen(c) \in 1 .. Len(inq[c]) /\ NUL \in Byte
    BY RecvLenType DEF Byte
<1>2. PICK n, s : n = RecvLen(c) /\ s = SubSeq(inq[c], 1, n)
    OBVIOUS
<1>3. s \in Seq(Byte) /\ Len(s) = n /\ \A x \in 1 .. n : s[x] = inq[c][x]
    <2>1. 1 \in Int /\ n \in Int /\ \A x \in 1 .. n : inq[c][x] \in Byte
        BY <1>1, <1>2
    <2>2. /\ s \in Seq(Byte) /\ Len(s) = IF 1 <= n THEN n - 1 + 1 ELSE 0
          /\ \A x \in 1 .. n - 1 + 1 : s[x] = inq[c][1 + x - 1]
        BY <1>2, <2>1, SubSeqProperties
    <2>3. n \in Nat /\ 1 <= n
        BY <1>1, <1>2
    <2>4. QED
        BY <2>2, <2>3
<1>4. buf = [s EXCEPT ![Len(s)] = NUL]
    BY <1>2 DEF Terminated
<1>5. n \in Nat /\ 1 <= n
    BY <1>1, <1>2
<1>6. buf \in Seq(Byte) /\ Len(buf) = n /\ buf[n] = NUL /\ \A x \in 1 .. n - 1 : buf[x] = s[x]
    <2>1. NUL \in Byte /\ Len(s) \in 1 .. Len(s) /\ s \in Seq(Byte)
        BY <1>1, <1>3, <1>5
    <2>2. /\ buf \in Seq(Byte) /\ Len(buf) = Len(s)
          /\ \A x \in 1 .. Len(s) : buf[x] = IF x = Len(s) THEN NUL ELSE s[x]
        BY <1>4, <2>1, ExceptSeq
    <2>3. \A x \in 1 .. n - 1 : x \in 1 .. Len(s) /\ x # Len(s)
        BY <1>3, <1>5
    <2>4. QED
        BY <1>3, <2>1, <2>2, <2>3
<1>7. \A x \in 1 .. n - 1 : s[x] = inq[c][x]
    BY <1>3, <1>5
<1>8. QED
    BY <1>2, <1>6, <1>7

LEMMA DataSame ==
    ASSUME [Next]_vars, ~Clients, \A c \in Conns : ~RecvData(c)
    PROVE  UNCHANGED <<shutdown, said, cmds>>
<1>1. CASE UNCHANGED vars
    BY <1>1 DEF vars, srvVars, history
<1>2. CASE Server
    BY <1>2 DEF Server, history, InitOk, InitFails, Check, SendOk, SendError, SendSigpipe,
        EndSend, Select, Accept, AcceptFails, RecvClosed, EndScan
<1>3. QED
    BY <1>1, <1>2 DEF Next

LEMMA DataTypesNext ==
    ASSUME FdTypes, DataTypes, [Next]_vars
    PROVE  DataTypes'
<1>1. SockTypeOK
    BY DEF FdTypes
<1>2. ASSUME NEW c \in Conns, RecvData(c) PROVE DataTypes'
    <2>1. inq[c] # <<>> /\ said' = said
        BY <1>2 DEF RecvData, SockRecv
    <2>2. PICK buf, words : /\ buf = Terminated(SubSeq(inq[c], 1, RecvLen(c)))
                            /\ words = Commands(buf)
                            /\ cmds' = [cmds EXCEPT ![c] = @ \o words]
                            /\ shutdown' = shutdown + Shutdowns(words)
        BY <1>2 DEF RecvData
    <2>3. buf \in Seq(Byte)
        BY <1>1, <2>1, <2>2, Received
    <2>4. words \in Seq(Seq(Byte))
        BY <2>2, <2>3, CommandsType
    <2>5. Shutdowns(words) \in Nat
        BY <2>4, ShutdownsType
    <2>6. cmds[c] \o words \in Seq(Seq(Byte))
        <3>1. cmds[c] \in Seq(Seq(Byte))
            BY DEF DataTypes
        <3>2. QED
            BY <2>4, <3>1, ConcatProperties
    <2>7. QED
        BY <2>1, <2>2, <2>5, <2>6 DEF DataTypes
<1>3. CASE Clients
    <2>1. shutdown' = shutdown /\ cmds' = cmds
        BY <1>3 DEF Clients, srvVars
    <2>2. PICK c \in Conns : \/ \E w \in Writes : said' = [said EXCEPT ![c] = @ \o w]
                             \/ said' = said
        BY <1>3 DEF Clients
    <2>3. ASSUME NEW w \in Writes, said' = [said EXCEPT ![c] = @ \o w]
          PROVE  said' \in [Conns -> Seq(Byte)]
        <3>1. w \in Seq(Byte) /\ said[c] \in Seq(Byte) /\ said \in [Conns -> Seq(Byte)]
            BY DEF DataTypes
        <3>2. said[c] \o w \in Seq(Byte)
            BY <3>1, ConcatProperties
        <3>3. QED
            BY <2>3, <3>1, <3>2
    <2>4. QED
        BY <2>1, <2>2, <2>3 DEF DataTypes
<1>4. CASE ~Clients /\ \A c \in Conns : ~RecvData(c)
    BY <1>4, DataSame DEF DataTypes
<1>5. QED
    BY <1>2, <1>3, <1>4

(***************************************************************************)
(* Type correctness; what the callback is given are sequences of bytes     *)
(* (cli_server.c:98, 106) for data of any length and content.              *)
(***************************************************************************)
THEOREM CliTypes == Spec => []TypeOK
<1>1. Init => FdTypes /\ DataTypes
    BY FdTypesInit DEF Init, DataTypes
<1>2. FdTypes /\ DataTypes => TypeOK
    BY DEF FdTypes, DataTypes, TypeOK
<1>3. QED
    BY <1>1, <1>2, FdTypesNext, DataTypesNext, PTL DEF Spec

-----------------------------------------------------------------------------
(* The commands of a connection.                                           *)

\* A closed connection is not accepted again.
ClosedForGood ==
    \A c \in Conns : link[c] = "closed" =>
        /\ fd[c] = NoFd /\ cli[c] # "idle"
        /\ \A k \in DOMAIN backlog : backlog[k] # c

LEMMA ClosedNext ==
    ASSUME Inv, ClosedForGood, [Next]_vars
    PROVE  ClosedForGood'
<1>1. /\ SockTypeOK /\ SockInv
      /\ fd \in [Conns -> Fds \cup {NoFd}] /\ link \in [Conns -> LinkState]
      /\ cli \in [Conns -> {"idle", "open", "half", "gone"}]
      /\ backlog \in Seq(Conns)
    BY DEF Inv, FdTypes, SockTypeOK
<1>2. CASE UNCHANGED <<fd, cli, backlog, link>>
    BY <1>2 DEF ClosedForGood
<1>3. ASSUME NEW c \in Conns, SockSend(c, EventLen) \/ SockSendFails(c) \/ SockRecv(c)
      PROVE  ClosedForGood'
    <2>1. UNCHANGED <<fd, cli, backlog>>
        BY <1>3 DEF SockSend, SockSendFails, SockRecv
    <2>2. \A d \in Conns : link'[d] = "closed" => link[d] = "closed"
        BY <1>1, <1>3 DEF SockSend, SockSendFails, SockRecv
    <2>3. QED
        BY <2>1, <2>2 DEF ClosedForGood
<1>4. ASSUME NEW c \in Conns, NEW n \in Fds, SockAccept(c, n) PROVE ClosedForGood'
    <2>1. /\ backlog # <<>> /\ c = Head(backlog) /\ backlog' = Tail(backlog)
          /\ fd' = [fd EXCEPT ![c] = n] /\ UNCHANGED <<cli, link>>
        BY <1>4 DEF SockAccept
    <2>2. c = backlog[1] /\ 1 \in DOMAIN backlog
        BY <1>1, <2>1
    <2>3. \A k \in DOMAIN backlog' : k + 1 \in DOMAIN backlog /\ backlog'[k] = backlog[k + 1]
        BY <1>1, <2>1
    <2>4. link[c] # "closed"
        BY <2>2 DEF ClosedForGood
    <2>5. \A d \in Conns : d # c => fd'[d] = fd[d]
        BY <1>1, <2>1
    <2>6. QED
        BY <2>1, <2>3, <2>4, <2>5 DEF ClosedForGood
<1>5. ASSUME NEW c \in Conns, IsOpen(c), SockClose(c) PROVE ClosedForGood'
    <2>1. /\ fd' = [fd EXCEPT ![c] = NoFd] /\ link' = [link EXCEPT ![c] = "closed"]
          /\ UNCHANGED <<cli, backlog>>
        BY <1>5 DEF SockClose
    <2>2. fd[c] # NoFd /\ cli[c] # "idle" /\ \A k \in DOMAIN backlog : backlog[k] # c
        BY <1>1, <1>5 DEF SockInv, IsOpen
    <2>3. /\ fd'[c] = NoFd
          /\ \A d \in Conns : d # c => fd'[d] = fd[d] /\ link'[d] = link[d]
        BY <1>1, <2>1
    <2>4. QED
        BY <2>1, <2>2, <2>3 DEF ClosedForGood
<1>6. ASSUME NEW c \in Conns, Client(c) PROVE ClosedForGood'
    <2>1. fd' = fd
        BY <1>1, <1>6, ClientSockInv
    <2>2. \A d \in Conns : link'[d] = "closed" => link[d] = "closed"
        BY <1>1, <1>6 DEF Client, OtherThanWrite, Connect, ClientWrite, ClientRead,
            ClientShutdown, ClientClose, ClientAbort, ResetArrives
    <2>3. \A d \in Conns : cli[d] # "idle" => cli'[d] # "idle"
        BY <1>1, <1>6 DEF Client, OtherThanWrite, Connect, ClientWrite, ClientRead,
            ClientShutdown, ClientClose, ClientAbort, ResetArrives
    <2>4. backlog' = backlog \/ (backlog' = Append(backlog, c) /\ cli[c] = "idle")
        BY <1>6 DEF Client, OtherThanWrite, Connect, ClientWrite, ClientRead,
            ClientShutdown, ClientClose, ClientAbort, ResetArrives
    <2>5. \A k \in DOMAIN backlog' : (k \in DOMAIN backlog /\ backlog'[k] = backlog[k])
                                     \/ (backlog'[k] = c /\ cli[c] = "idle")
        <3>1. CASE backlog' = backlog
            BY <3>1
        <3>2. CASE backlog' = Append(backlog, c) /\ cli[c] = "idle"
            BY <1>1, <3>2, AppendProperties
        <3>3. QED
            BY <2>4, <3>1, <3>2
    <2>6. QED
        BY <2>1, <2>2, <2>3, <2>5 DEF ClosedForGood
<1>7. CASE Clients
    BY <1>6, <1>7 DEF Clients, Client
<1>8. CASE \/ InitFails \/ Check \/ EndSend \/ Select \/ AcceptFails \/ EndScan
           \/ \E n \in Fds : InitOk(n)
           \/ \E c \in Conns : SendSigpipe(c)
           \/ UNCHANGED vars
    <2>1. UNCHANGED <<fd, cli, backlog, link>>
        BY <1>8 DEF InitFails, Check, EndSend, Select, AcceptFails, EndScan, InitOk,
            SendSigpipe, vars, sockVars
    <2>2. QED
        BY <1>2, <2>1
<1>9. CASE \E c \in Conns : SendOk(c) \/ SendError(c) \/ RecvData(c)
    BY <1>3, <1>9 DEF SendOk, SendError, RecvData
<1>10. CASE \E c \in Conns, n \in Fds : Accept(c, n)
    BY <1>4, <1>10 DEF Accept
<1>11. CASE \E c \in Conns : RecvClosed(c)
    BY <1>5, <1>11 DEF RecvClosed
<1>12. QED
    BY <1>7, <1>8, <1>9, <1>10, <1>11 DEF Next, Server

(***************************************************************************)
(* Each recv returns whole lines (of which the last is not empty): the     *)
(* pieces in which the lines are sent do not matter, nor how many of them  *)
(* come at once.                                                           *)
(***************************************************************************)
ReadsWholeLines ==
    \A c \in Conns : RecvData(c) => WholeLines(SubSeq(inq[c], 1, RecvLen(c)))

\* What has been read of a connection is whole lines, each called back.
Intact(c) ==
    link[c] # "closed" =>
        \E r \in Seq(Byte) :
            /\ WholeLines(r)
            /\ said[c] = r \o inq[c]
            /\ cmds[c] = Lines(r)

LEMMA NoLines == Lines(<<>>) = <<>>
<1> PICK g, s : g = [k \in 1 .. 0 |-> 0] /\ s = <<>>
    OBVIOUS
<1>1. LineEnds(s) = {}
    BY DEF LineEnds, Ends
<1>2. Enumerates(g, 0, LineEnds(s)) /\ LineEnds(s) \subseteq Int
    BY <1>1 DEF Enumerates
<1>3. Lines(s) = [k \in 1 .. 0 |-> Piece(s, g[k])]
    BY <1>2, LinesBy
<1>4. QED
    BY <1>3

\* Nothing that concerns the commands of c happens.
LEMMA IntactFrame ==
    ASSUME NEW c \in Conns, Intact(c), link'[c] # "closed" => link[c] # "closed",
           inq'[c] = inq[c], said'[c] = said[c], cmds'[c] = cmds[c]
    PROVE  Intact(c)'
BY DEF Intact

\* A client writes: what has been read stays what it is.
LEMMA IntactWrite ==
    ASSUME SockTypeOK, DataTypes, NEW c \in Conns, Intact(c),
           NEW w \in Writes, ClientWrite(c, w), said' = [said EXCEPT ![c] = @ \o w],
           cmds' = cmds
    PROVE  Intact(c)'
<1>1. w \in Seq(Byte) /\ inq[c] \in Seq(Byte)
    BY DEF SockTypeOK
<1>2. /\ link[c] # "closed" /\ inq'[c] = inq[c] \o w
      /\ said'[c] = said[c] \o w /\ cmds'[c] = cmds[c]
    BY DEF ClientWrite, SockTypeOK, DataTypes
<1>3. PICK r \in Seq(Byte) : WholeLines(r) /\ said[c] = r \o inq[c] /\ cmds[c] = Lines(r)
    BY <1>2 DEF Intact
<1>4. (r \o inq[c]) \o w = r \o (inq[c] \o w)
    <2>1. PICK B, q : B = Byte /\ q = inq[c]
        OBVIOUS
    <2>2. r \in Seq(B) /\ q \in Seq(B) /\ w \in Seq(B)
        BY <1>1, <2>1
    <2>3. (r \o q) \o w = r \o (q \o w)
        BY <2>2, ConcatAssociative, SMTT(30)
    <2>4. QED
        BY <2>1, <2>3
<1>5. said'[c] = r \o inq'[c]
    BY <1>2, <1>3, <1>4, Zenon
<1>6. QED
    BY <1>2, <1>3, <1>5 DEF Intact

\* A sequence is what comes up to a place and what comes after it.
LEMMA CutInTwo ==
    ASSUME NEW B, NEW q, NEW n, NEW head, NEW rest,
           q \in Seq(B), n \in 1 .. Len(q),
           head = SubSeq(q, 1, n), rest = SubSeq(q, n + 1, Len(q))
    PROVE  /\ head \in Seq(B) /\ Len(head) = n
           /\ \A x \in 1 .. n : head[x] = q[x]
           /\ rest \in Seq(B)
           /\ q = head \o rest
<1>1. PICK m : m = Len(q)
    OBVIOUS
<1>2. m \in Nat /\ n \in 1 .. m /\ n + 1 \in 1 .. m + 1 /\ m - n \in Nat
    BY <1>1
<1>3. head \in Seq(B) /\ Len(head) = n /\ \A x \in 1 .. n : head[x] = q[x]
    BY <1>1, <1>2
<1>4. rest \in Seq(B) /\ Len(rest) = m - n /\ \A x \in 1 .. m - n : rest[x] = q[n + x]
    BY <1>1, <1>2
<1>5. PICK t : t = head \o rest
    OBVIOUS
<1>6. t \in Seq(B) /\ Len(t) = m
    BY <1>2, <1>3, <1>4, <1>5, ConcatProperties
<1>7. \A x \in 1 .. m : t[x] = IF x <= n THEN head[x] ELSE rest[x - n]
    BY <1>2, <1>3, <1>4, <1>5, ConcatProperties
<1>8. \A x \in 1 .. m : t[x] = q[x]
    <2>1. SUFFICES ASSUME NEW x \in 1 .. m PROVE t[x] = q[x]
        OBVIOUS
    <2>2. CASE x <= n
        BY <1>2, <1>3, <1>7, <2>1, <2>2
    <2>3. CASE ~(x <= n)
        <3>1. PICK y : y = x - n
            OBVIOUS
        <3>2. y \in 1 .. m - n /\ n + y = x
            BY <1>2, <2>1, <2>3, <3>1
        <3>3. rest[y] = q[x]
            BY <1>4, <3>2
        <3>4. QED
            BY <1>7, <2>1, <2>3, <3>1, <3>3
    <2>4. QED
        BY <2>2, <2>3
<1>9. t = q
    BY <1>1, <1>6, <1>8, SeqEqual
<1>10. QED
    BY <1>3, <1>4, <1>5, <1>9

\* recv takes whole lines, and the callback is given them.
LEMMA IntactRecv ==
    ASSUME Inv, ClosedForGood, DataTypes, NEW c \in Conns, Intact(c), RecvData(c),
           WholeLines(SubSeq(inq[c], 1, RecvLen(c)))
    PROVE  Intact(c)'
<1>1. /\ SockTypeOK /\ inq[c] # <<>> /\ said' = said
      /\ inq' = [inq EXCEPT ![c] = SubSeq(inq[c], RecvLen(c) + 1, Len(inq[c]))]
    BY DEF Inv, FdTypes, SockTypeOK, RecvData, SockRecv
<1>2. link[c] # "closed"
    BY DEF RecvData, ClosedForGood, IsOpen
<1>3. PICK r \in Seq(Byte) : WholeLines(r) /\ said[c] = r \o inq[c] /\ cmds[c] = Lines(r)
    BY <1>2 DEF Intact
<1>4. PICK n, q, head, rest :
          n = RecvLen(c) /\ q = inq[c] /\ head = SubSeq(q, 1, n) /\ rest = SubSeq(q, n + 1, Len(q))
    OBVIOUS
<1>5. q \in Seq(Byte) /\ Len(q) \in Nat /\ n \in 1 .. Len(q)
    BY <1>1, <1>4, RecvLenType
<1>6. /\ head \in Seq(Byte) /\ Len(head) = n /\ rest \in Seq(Byte) /\ q = head \o rest
      /\ \A x \in 1 .. n : head[x] = q[x]
    <2>1. PICK B : B = Byte
        OBVIOUS
    <2>2. head = SubSeq(q, 1, n) /\ rest = SubSeq(q, n + 1, Len(q))
        BY <1>4
    <2>3. q \in Seq(B) /\ n \in 1 .. Len(q)
        BY <1>5, <2>1
    <2>4. /\ head \in Seq(B) /\ Len(head) = n
          /\ \A x \in 1 .. n : head[x] = q[x]
          /\ rest \in Seq(B)
          /\ q = head \o rest
        BY ONLY <2>2, <2>3, CutInTwo
    <2>5. QED
        BY <2>1, <2>4
<1>7. WholeLines(head) /\ head # <<>> /\ inq'[c] = rest
    <2>1. head # <<>>
        BY ONLY <1>5, <1>6
    <2>2. WholeLines(head)
        BY <1>4, Zenon
    <2>3. inq'[c] = rest
        BY <1>1, <1>4 DEF SockTypeOK
    <2>4. QED
        BY <2>1, <2>2, <2>3
<1>8. PICK buf : /\ buf = Terminated(SubSeq(inq[c], 1, RecvLen(c)))
                 /\ cmds' = [cmds EXCEPT ![c] = @ \o Commands(buf)]
    BY DEF RecvData
<1>9. Commands(buf) = Lines(head)
    <2>1. /\ buf \in Seq(Byte) /\ Len(buf) = n /\ buf[n] = NUL
          /\ \A x \in 1 .. n - 1 : buf[x] = q[x]
        BY <1>1, <1>4, <1>8, Received
    <2>2. \A x \in 1 .. n - 1 : buf[x] = head[x]
        BY <1>5, <1>6, <2>1
    <2>3. QED
        BY <1>6, <1>7, <2>1, <2>2, CommandsAreLines
<1>10. WholeLines(r \o head) /\ r \o head \in Seq(Byte)
    BY <1>3, <1>6, <1>7, WholeLinesConcat
<1>11. cmds'[c] = Lines(r \o head)
    <2>1. cmds'[c] = Lines(r) \o Lines(head)
        BY <1>3, <1>8, <1>9 DEF DataTypes
    <2>2. r # <<>> => r[Len(r)] = NL
        BY <1>3 DEF WholeLines
    <2>3. QED
        BY <1>6, <2>1, <2>2, LinesConcat
<1>12. said'[c] = (r \o head) \o inq'[c]
    <2>1. (r \o head) \o rest = r \o (head \o rest)
        BY <1>6, ConcatAssociative, SMTT(30)
    <2>2. QED
        BY <1>1, <1>3, <1>4, <1>6, <1>7, <2>1, Zenon
<1>13. QED
    BY <1>10, <1>11, <1>12 DEF Intact

LEMMA IntactNext ==
    ASSUME Inv, ClosedForGood, DataTypes, \A c \in Conns : Intact(c),
           [Next]_vars, [ReadsWholeLines]_vars
    PROVE  \A c \in Conns : Intact(c)'
<1> SUFFICES ASSUME NEW c \in Conns PROVE Intact(c)'
    OBVIOUS
<1>1. /\ SockTypeOK /\ Intact(c)
      /\ inq \in [Conns -> Seq(Byte)] /\ link \in [Conns -> LinkState]
      /\ said \in [Conns -> Seq(Byte)] /\ cmds \in [Conns -> Seq(Seq(Byte))]
    BY DEF Inv, FdTypes, SockTypeOK, DataTypes
<1>2. ASSUME UNCHANGED <<inq, said, cmds>>, link'[c] # "closed" => link[c] # "closed"
      PROVE  Intact(c)'
    BY <1>1, <1>2, IntactFrame
<1>3. ASSUME NEW d \in Conns, RecvData(d) PROVE Intact(c)'
    <2>1. CASE d = c
        <3>1. UNCHANGED vars \/ ReadsWholeLines
            OBVIOUS
        <3>2. CASE ReadsWholeLines
            <4>1. WholeLines(SubSeq(inq[c], 1, RecvLen(c)))
                BY <1>3, <2>1, <3>2 DEF ReadsWholeLines
            <4>2. QED
                BY <1>1, <1>3, <2>1, <4>1, IntactRecv
        <3>3. CASE UNCHANGED vars
            BY <1>2, <3>3 DEF vars, sockVars, history
        <3>4. QED
            BY <3>1, <3>2, <3>3
    <2>2. CASE d # c
        <3>1. /\ inq'[c] = inq[c] /\ link' = link /\ said' = said
            BY <1>1, <1>3, <2>2 DEF RecvData, SockRecv
        <3>2. cmds'[c] = cmds[c]
            BY <1>1, <1>3, <2>2 DEF RecvData
        <3>3. QED
            BY <1>1, <3>1, <3>2, IntactFrame
    <2>3. QED
        BY <2>1, <2>2
<1>4. ASSUME NEW d \in Conns, RecvClosed(d) PROVE Intact(c)'
    <2>1. SockClose(d) /\ UNCHANGED <<said, cmds>>
        BY <1>4 DEF RecvClosed, SockClose, history
    <2>2. CASE d = c
        <3>1. link'[c] = "closed"
            BY <1>1, <2>1, <2>2 DEF SockClose
        <3>2. QED
            BY <3>1 DEF Intact
    <2>3. CASE d # c
        <3>1. inq'[c] = inq[c] /\ link'[c] = link[c]
            BY <1>1, <2>1, <2>3 DEF SockClose
        <3>2. QED
            BY <1>1, <2>1, <3>1, IntactFrame
    <2>4. QED
        BY <2>2, <2>3
<1>5. ASSUME NEW d \in Conns, NEW w \in Writes, ClientWrite(d, w),
             said' = [said EXCEPT ![d] = @ \o w], cmds' = cmds
      PROVE  Intact(c)'
    <2>1. CASE d = c
        BY <1>1, <1>5, <2>1, IntactWrite
    <2>2. CASE d # c
        <3>1. inq'[c] = inq[c] /\ link' = link /\ said'[c] = said[c]
            BY <1>1, <1>5, <2>2 DEF ClientWrite
        <3>2. QED
            BY <1>1, <1>5, <3>1, IntactFrame
    <2>3. QED
        BY <2>1, <2>2
<1>6. ASSUME NEW d \in Conns, OtherThanWrite(d), UNCHANGED <<said, cmds>>
      PROVE  Intact(c)'
    <2>1. inq' = inq
        BY <1>6 DEF OtherThanWrite, Connect, ClientRead, ClientShutdown, ClientClose,
            ClientAbort, ResetArrives
    <2>2. link'[c] # "closed" => link[c] # "closed"
        <3>1. CASE Connect(d)
            BY <1>1, <3>1 DEF Connect, ClosedForGood
        <3>2. CASE ~Connect(d)
            BY <1>1, <1>6, <3>2 DEF OtherThanWrite, ClientRead, ClientShutdown,
                ClientClose, ClientAbort, ResetArrives
        <3>3. QED
            BY <3>1, <3>2
    <2>3. QED
        BY <1>2, <1>6, <2>1, <2>2
<1>7. CASE Clients
    BY <1>5, <1>6, <1>7 DEF Clients
<1>8. ASSUME NEW d \in Conns, SendOk(d) \/ SendError(d) PROVE Intact(c)'
    <2>1. UNCHANGED <<inq, said, cmds>>
        BY <1>8 DEF SendOk, SendError, SockSend, SockSendFails, history
    <2>2. link' = link \/ (link[d] = "reset" /\ link' = [link EXCEPT ![d] = "broken"])
        BY <1>8 DEF SendOk, SendError, SockSend, SockSendFails
    <2>3. link'[c] # "closed" => link[c] # "closed"
        BY <1>1, <2>2
    <2>4. QED
        BY <1>2, <2>1, <2>3
<1>9. CASE \/ InitFails \/ Check \/ EndSend \/ Select \/ AcceptFails \/ EndScan
           \/ \E m \in Fds : InitOk(m)
           \/ \E d \in Conns : SendSigpipe(d)
           \/ \E d \in Conns, m \in Fds : Accept(d, m)
           \/ UNCHANGED vars
    <2>1. UNCHANGED <<inq, said, cmds, link>>
        BY <1>9 DEF InitFails, Check, EndSend, Select, AcceptFails, EndScan, InitOk,
            SendSigpipe, Accept, SockAccept, vars, sockVars, history
    <2>2. QED
        BY <1>2, <2>1
<1>10. QED
    BY <1>3, <1>4, <1>7, <1>8, <1>9 DEF Next, Server

(***************************************************************************)
(* "this will not truncate commands" (cli_server.c:81) is true as long as  *)
(* each recv returns whole lines: what the callback is given, with the     *)
(* lines still to be read, is what the client wrote, for any number of     *)
(* clients, any lines, sent in any pieces, and any size of the buffer.     *)
(***************************************************************************)
THEOREM CliIntactIfWhole == Spec /\ [][ReadsWholeLines]_vars => []CommandsIntact
<1> DEFINE AllIntact == \A c \in Conns : Intact(c)
<1>1. Init => DataTypes /\ ClosedForGood
    BY DEF Init, SockInit, DataTypes, ClosedForGood
<1>2. Init => AllIntact
    <2>1. SUFFICES ASSUME Init, NEW c \in Conns PROVE Intact(c)
        OBVIOUS
    <2>2. said[c] = <<>> /\ inq[c] = <<>> /\ cmds[c] = <<>>
        BY <2>1 DEF Init, SockInit
    <2>3. WholeLines(<<>>) /\ <<>> \in Seq(Byte) /\ <<>> \o <<>> = <<>>
        BY DEF WholeLines
    <2>4. QED
        BY <2>2, <2>3, NoLines DEF Intact
<1>3. Inv /\ DataTypes /\ ClosedForGood /\ AllIntact => CommandsIntact
    <2>1. SUFFICES ASSUME Inv, ClosedForGood, AllIntact, NEW c \in Conns, IsOpen(c)
                   PROVE  cmds[c] \o Lines(inq[c]) = Lines(said[c])
        BY DEF CommandsIntact
    <2>2. inq[c] \in Seq(Byte)
        BY <2>1 DEF Inv, FdTypes, SockTypeOK
    <2>3. PICK r \in Seq(Byte) : WholeLines(r) /\ said[c] = r \o inq[c] /\ cmds[c] = Lines(r)
        BY <2>1 DEF ClosedForGood, IsOpen, Intact
    <2>4. r # <<>> => r[Len(r)] = NL
        BY <2>3 DEF WholeLines
    <2>5. Lines(r \o inq[c]) = Lines(r) \o Lines(inq[c])
        BY <2>2, <2>4, LinesConcat
    <2>6. QED
        BY <2>3, <2>5
<1>4. Inv /\ DataTypes /\ ClosedForGood /\ AllIntact /\ [Next]_vars /\ [ReadsWholeLines]_vars
      => DataTypes' /\ ClosedForGood' /\ AllIntact'
    <2>1. SUFFICES ASSUME Inv, DataTypes, ClosedForGood, AllIntact, [Next]_vars,
                          [ReadsWholeLines]_vars
                   PROVE  DataTypes' /\ ClosedForGood' /\ AllIntact'
        OBVIOUS
    <2>2. DataTypes'
        BY <2>1, DataTypesNext DEF Inv
    <2>3. QED
        BY <2>1, <2>2, ClosedNext, IntactNext
<1> HIDE DEF AllIntact
<1>5. QED
    BY <1>1, <1>2, <1>3, <1>4, InvInit, InvNext, PTL DEF Spec
=============================================================================
