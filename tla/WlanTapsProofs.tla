--------------------------- MODULE WlanTapsProofs ---------------------------
(***************************************************************************)
(* Proofs about the tap scripts (WlanTaps) for any file of frames of any   *)
(* length.  Every property compares what a script has accumulated with     *)
(* what can be said of the file so far, so each proof follows the file one *)
(* frame at a time.                                                        *)
(***************************************************************************)
EXTENDS WlanTaps, SequenceTheorems, FiniteSetTheorems, WellFoundedInduction, TLAPS

-----------------------------------------------------------------------------
(* Sets of numbers.                                                        *)

LEMMA HasLeast ==
    ASSUME NEW T, T \subseteq Nat, T # {}
    PROVE  \E m \in T : \A n \in T : m <= n
<1>1. PICK m \in T : \A n \in T : ~(<<n, m>> \in OpToRel(<, Nat))
    BY NatLessThanWellFounded, WFMin
<1>2. \A n \in T : ~(n < m)
    BY <1>1 DEF OpToRel
<1>3. QED
    BY <1>2

LEMMA MinIs ==
    ASSUME NEW T, T \subseteq Int, NEW m \in T, \A n \in T : m <= n
    PROVE  Min(T) = m
<1>1. Min(T) \in T /\ \A n \in T : Min(T) <= n
    BY DEF Min
<1>2. Min(T) <= m /\ m <= Min(T) /\ m \in Int /\ Min(T) \in Int
    BY <1>1
<1>3. QED
    BY <1>2

LEMMA MaxIs ==
    ASSUME NEW T, T \subseteq Int, NEW m \in T, \A n \in T : n <= m
    PROVE  Max(T) = m
<1>1. Max(T) \in T /\ \A n \in T : Max(T) >= n
    BY DEF Max
<1>2. Max(T) >= m /\ Max(T) <= m /\ m \in Int /\ Max(T) \in Int
    BY <1>1
<1>3. QED
    BY <1>2

LEMMA MinOfNats ==
    ASSUME NEW T, T \subseteq Nat, T # {}
    PROVE  Min(T) \in T /\ \A n \in T : Min(T) <= n
<1>1. PICK m \in T : \A n \in T : m <= n
    BY HasLeast
<1>2. QED
    BY <1>1 DEF Min

-----------------------------------------------------------------------------
(* The frames of a file that lie in a set G, by their numbers.             *)

WhereIn(fr, G) == {n \in DOMAIN fr : fr[n] \in G}

LEMMA WhereType ==
    ASSUME NEW fr \in Seq(Frames), NEW G
    PROVE  /\ WhereIn(fr, G) \subseteq 1 .. Len(fr)
           /\ WhereIn(fr, G) \subseteq Nat
           /\ IsFiniteSet(WhereIn(fr, G))
           /\ Cardinality(WhereIn(fr, G)) \in Nat
           /\ Cardinality(WhereIn(fr, G)) = 0 <=> WhereIn(fr, G) = {}
<1>1. WhereIn(fr, G) \subseteq 1 .. Len(fr) /\ Len(fr) \in Nat
    BY LenProperties DEF WhereIn
<1>2. IsFiniteSet(1 .. Len(fr))
    BY <1>1, FS_Interval
<1>3. IsFiniteSet(WhereIn(fr, G))
    BY <1>1, <1>2, FS_Subset
<1>4. QED
    BY <1>1, <1>3, FS_CardinalityType, FS_EmptySet

LEMMA WhereEmpty == \A G : WhereIn(<<>>, G) = {}
BY DEF WhereIn

\* One more frame.
LEMMA WhereAppend ==
    ASSUME NEW fr \in Seq(Frames), NEW f \in Frames, NEW G
    PROVE  /\ Append(fr, f) \in Seq(Frames)
           /\ Len(Append(fr, f)) = Len(fr) + 1
           /\ Append(fr, f)[Len(fr) + 1] = f
           /\ \A n \in DOMAIN fr : Append(fr, f)[n] = fr[n]
           /\ f \in G => WhereIn(Append(fr, f), G) = WhereIn(fr, G) \cup {Len(fr) + 1}
           /\ f \notin G => WhereIn(Append(fr, f), G) = WhereIn(fr, G)
           /\ Len(fr) + 1 \notin WhereIn(fr, G)
<1>1. /\ Append(fr, f) \in Seq(Frames)
      /\ Len(Append(fr, f)) = Len(fr) + 1
      /\ \A n \in 1 .. Len(fr) : Append(fr, f)[n] = fr[n]
      /\ Append(fr, f)[Len(fr) + 1] = f
    BY AppendProperties
<1>2. DOMAIN fr = 1 .. Len(fr) /\ Len(fr) \in Nat
    BY LenProperties
<1>3. DOMAIN Append(fr, f) = 1 .. Len(fr) + 1
    BY <1>1, LenProperties
<1>4. DOMAIN Append(fr, f) = DOMAIN fr \cup {Len(fr) + 1} /\ Len(fr) + 1 \notin DOMAIN fr
    BY <1>2, <1>3
<1>5. \A n \in DOMAIN fr : Append(fr, f)[n] = fr[n]
    BY <1>1, <1>2
<1>6. f \in G => WhereIn(Append(fr, f), G) = WhereIn(fr, G) \cup {Len(fr) + 1}
    BY <1>1, <1>4, <1>5 DEF WhereIn
<1>7. f \notin G => WhereIn(Append(fr, f), G) = WhereIn(fr, G)
    BY <1>1, <1>4, <1>5 DEF WhereIn
<1>8. QED
    BY <1>1, <1>4, <1>5, <1>6, <1>7 DEF WhereIn

LEMMA CountAppend ==
    ASSUME NEW fr \in Seq(Frames), NEW f \in Frames, NEW G
    PROVE  Cardinality(WhereIn(Append(fr, f), G)) =
               Cardinality(WhereIn(fr, G)) + (IF f \in G THEN 1 ELSE 0)
<1>1. IsFiniteSet(WhereIn(fr, G)) /\ Cardinality(WhereIn(fr, G)) \in Nat
    BY WhereType
<1>2. CASE f \in G
    <2>1. /\ WhereIn(Append(fr, f), G) = WhereIn(fr, G) \cup {Len(fr) + 1}
          /\ Len(fr) + 1 \notin WhereIn(fr, G)
        BY <1>2, WhereAppend
    <2>2. QED
        BY <1>1, <1>2, <2>1, FS_AddElement
<1>3. CASE f \notin G
    <2>1. WhereIn(Append(fr, f), G) = WhereIn(fr, G)
        BY <1>3, WhereAppend
    <2>2. QED
        BY <1>1, <1>3, <2>1
<1>4. QED
    BY <1>2, <1>3

\* The first frame of G stays the first; ...
FirstIn(fr, G) == fr[Min(WhereIn(fr, G))]

LEMMA FirstAppend ==
    ASSUME NEW fr \in Seq(Frames), NEW f \in Frames, NEW G
    PROVE  /\ WhereIn(fr, G) # {} => FirstIn(Append(fr, f), G) = FirstIn(fr, G)
           /\ WhereIn(fr, G) = {} /\ f \in G => FirstIn(Append(fr, f), G) = f
<1> DEFINE W == WhereIn(fr, G)
           V == WhereIn(Append(fr, f), G)
           N == Len(fr)
<1>1. W \subseteq 1 .. N /\ W \subseteq Nat /\ N \in Nat
    BY WhereType, LenProperties
<1>2. /\ V = W \cup {N + 1} \/ V = W
      /\ f \in G => V = W \cup {N + 1}
      /\ Append(fr, f)[N + 1] = f
      /\ \A n \in W : Append(fr, f)[n] = fr[n]
    <2>1. \A n \in W : n \in DOMAIN fr
        BY DEF WhereIn
    <2>2. QED
        BY <2>1, WhereAppend
<1> HIDE DEF W, V, N
<1>3. ASSUME W # {} PROVE Append(fr, f)[Min(V)] = fr[Min(W)]
    <2>1. PICK m \in W : Min(W) = m /\ \A n \in W : m <= n
        BY <1>1, <1>3, MinOfNats
    <2>2. m \in V /\ m <= N + 1 /\ V \subseteq Int
        <3>1. m <= N + 1
            BY <1>1
        <3>2. V \subseteq W \cup {N + 1} /\ m \in V
            BY <1>2
        <3>3. V \subseteq Int
            BY <1>1, <3>2
        <3>4. QED
            BY <3>1, <3>2, <3>3
    <2>3. \A n \in V : m <= n
        BY <1>2, <2>1, <2>2
    <2>4. Min(V) = m
        BY <2>2, <2>3, MinIs
    <2>5. QED
        BY <1>2, <2>1, <2>4
<1>4. ASSUME W = {}, f \in G PROVE Append(fr, f)[Min(V)] = f
    <2>1. V = {N + 1}
        BY <1>2, <1>4
    <2>2. Min(V) = N + 1
        BY <1>1, <2>1, MinIs
    <2>3. QED
        BY <1>2, <2>2
<1>5. QED
    BY <1>3, <1>4 DEF FirstIn, W, V

\* ... and a new one is the last.
LastAfter(fr, G) == Max(WhereIn(fr, G) \cup {0})

LEMMA LastAppend ==
    ASSUME NEW fr \in Seq(Frames), NEW f \in Frames, NEW G
    PROVE  LastAfter(Append(fr, f), G) = IF f \in G THEN Len(fr) + 1 ELSE LastAfter(fr, G)
<1> DEFINE W == WhereIn(fr, G)
           V == WhereIn(Append(fr, f), G)
           N == Len(fr)
<1>1. W \subseteq 1 .. N /\ N \in Nat
    BY WhereType, LenProperties
<1>2. CASE f \in G
    <2>1. V = W \cup {N + 1}
        BY <1>2, WhereAppend
    <2> HIDE DEF W, V, N
    <2>2. V \cup {0} \subseteq Int /\ N + 1 \in V \cup {0} /\ \A n \in V \cup {0} : n <= N + 1
        BY <1>1, <2>1
    <2>3. Max(V \cup {0}) = N + 1
        BY <2>2, MaxIs
    <2>4. QED
        BY <1>2, <2>3 DEF LastAfter, V, N
<1>3. CASE f \notin G
    <2>1. V = W
        BY <1>3, WhereAppend
    <2>2. QED
        BY <1>3, <2>1 DEF LastAfter
<1>4. QED
    BY <1>2, <1>3

-----------------------------------------------------------------------------
(***************************************************************************)
(* Sums.  MapThenSumSet takes an element away at a time, in the order of   *)
(* CHOOSE; what a proof needs is that the order does not matter.  g is the *)
(* sum of v over each subset of S.  What is shown of g for every subset is *)
(* shown of a smallest one for which it would fail.                        *)
(***************************************************************************)
Some(s) == CHOOSE x \in s : TRUE

IsSum(g, v, S) ==
    /\ g[{}] = 0
    /\ \A s \in SUBSET S : s # {} => g[s] = v[Some(s)] + g[s \ {Some(s)}]

LEMMA SomeIn == \A s : s # {} => Some(s) \in s
BY DEF Some

LEMMA Smaller ==
    ASSUME NEW S, IsFiniteSet(S), NEW s \in SUBSET S
    PROVE  /\ IsFiniteSet(s) /\ Cardinality(s) \in Nat
           /\ Cardinality(s) = 0 <=> s = {}
           /\ \A x \in s : /\ s \ {x} \in SUBSET S
                           /\ Cardinality(s \ {x}) \in Nat
                           /\ Cardinality(s \ {x}) = Cardinality(s) - 1
<1>1. IsFiniteSet(s) /\ Cardinality(s) \in Nat
    BY FS_Subset, FS_CardinalityType
<1>2. \A x \in s : IsFiniteSet(s \ {x}) /\ Cardinality(s \ {x}) = Cardinality(s) - 1
    BY <1>1, FS_RemoveElement
<1>3. \A x \in s : Cardinality(s \ {x}) \in Nat
    BY <1>2, FS_CardinalityType
<1>4. QED
    BY <1>1, <1>2, <1>3, FS_EmptySet

\* A bad subset has a smallest bad one.
LEMMA SmallestBad ==
    ASSUME NEW S, IsFiniteSet(S), NEW Bad \in SUBSET SUBSET S, Bad # {}
    PROVE  \E s \in Bad : \A t \in Bad : Cardinality(s) <= Cardinality(t)
<1> DEFINE T == {Cardinality(s) : s \in Bad}
<1>1. T \subseteq Nat /\ T # {}
    BY Smaller
<1>2. PICK m \in T : \A n \in T : m <= n
    BY <1>1, HasLeast
<1>3. QED
    BY <1>2

\* There is such a g: it is found for the subsets of up to n elements, n = 0, 1, ...
SumUpTo(g, v, S, n) ==
    /\ g[{}] = 0
    /\ \A s \in SUBSET S : s # {} /\ Cardinality(s) <= n =>
        g[s] = v[Some(s)] + g[s \ {Some(s)}]

SumStep(g, v, S) == [s \in SUBSET S |-> IF s = {} THEN 0 ELSE v[Some(s)] + g[s \ {Some(s)}]]

LEMMA SumOneMore ==
    ASSUME NEW S, IsFiniteSet(S), NEW v, NEW n \in Nat, NEW g, SumUpTo(g, v, S, n)
    PROVE  SumUpTo(SumStep(g, v, S), v, S, n + 1)
<1> DEFINE h == SumStep(g, v, S)
<1>1. h[{}] = 0
    BY DEF SumStep
<1>2. ASSUME NEW s \in SUBSET S, s # {}, Cardinality(s) <= n + 1
      PROVE  h[s] = v[Some(s)] + h[s \ {Some(s)}]
    <2> DEFINE t == s \ {Some(s)}
    <2>1. t \in SUBSET S /\ Cardinality(t) <= n
        BY <1>2, Smaller, SomeIn
    <2>2. h[s] = v[Some(s)] + g[t]
        BY <1>2 DEF SumStep
    <2>3. CASE t = {}
        BY <1>1, <2>2, <2>3 DEF SumUpTo
    <2>4. CASE t # {}
        <3>1. g[t] = v[Some(t)] + g[t \ {Some(t)}]
            BY <2>1, <2>4 DEF SumUpTo
        <3>2. h[t] = v[Some(t)] + g[t \ {Some(t)}]
            BY <2>1, <2>4 DEF SumStep
        <3>3. QED
            BY <2>2, <3>1, <3>2
    <2>5. QED
        BY <2>3, <2>4
<1>3. QED
    BY <1>1, <1>2 DEF SumUpTo

LEMMA SumExists ==
    ASSUME NEW S, IsFiniteSet(S), NEW v
    PROVE  \E g : g = SumStep(g, v, S)
<1> DEFINE Without == {n \in Nat : ~\E g : SumUpTo(g, v, S, n)}
<1>1. Without = {}
    <2> SUFFICES ASSUME Without # {} PROVE FALSE
        OBVIOUS
    <2>1. PICK m \in Without : \A n \in Without : m <= n
        BY HasLeast
    <2>2. m # 0
        <3>1. SumUpTo([s \in SUBSET S |-> 0], v, S, 0)
            BY Smaller DEF SumUpTo
        <3>2. QED
            BY <3>1, <2>1
    <2>3. m \in Nat /\ m - 1 \in Nat /\ ~(m <= m - 1)
        BY <2>2
    <2>4. m - 1 \notin Without
        BY <2>1, <2>3
    <2>5. PICK g : SumUpTo(g, v, S, m - 1)
        BY <2>3, <2>4
    <2>6. SumUpTo(SumStep(g, v, S), v, S, (m - 1) + 1) /\ (m - 1) + 1 = m
        BY <2>3, <2>5, SumOneMore
    <2>7. QED
        BY <2>1, <2>6
<1>2. Cardinality(S) \in Nat
    BY FS_CardinalityType
<1>3. PICK g : SumUpTo(g, v, S, Cardinality(S))
    BY <1>1, <1>2
<1> DEFINE h == SumStep(g, v, S)
<1>4. \A s \in SUBSET S : s # {} => g[s] = v[Some(s)] + g[s \ {Some(s)}]
    BY <1>3, FS_Subset DEF SumUpTo
<1>5. \A s \in SUBSET S : h[s] = g[s]
    BY <1>3, <1>4 DEF SumStep, SumUpTo
<1>6. \A s \in SUBSET S : s # {} => s \ {Some(s)} \in SUBSET S
    OBVIOUS
<1>7. SumStep(h, v, S) = SumStep(g, v, S)
    BY <1>5, <1>6 DEF SumStep
<1>8. QED
    BY <1>7

LEMMA SumStepIsSum ==
    ASSUME NEW S, NEW v, NEW g, g = SumStep(g, v, S)
    PROVE  IsSum(g, v, S)
<1>1. \A s \in SUBSET S : g[s] = IF s = {} THEN 0 ELSE v[Some(s)] + g[s \ {Some(s)}]
    BY DEF SumStep
<1>2. {} \in SUBSET S
    OBVIOUS
<1>3. QED
    BY <1>1, <1>2 DEF IsSum

LEMMA SumType ==
    ASSUME NEW S, IsFiniteSet(S), NEW v, \A x \in S : v[x] \in Int, NEW g, IsSum(g, v, S)
    PROVE  \A s \in SUBSET S : g[s] \in Int
<1> DEFINE Bad == {s \in SUBSET S : g[s] \notin Int}
<1> SUFFICES ASSUME Bad # {} PROVE FALSE
    OBVIOUS
<1>1. PICK s \in Bad : \A t \in Bad : Cardinality(s) <= Cardinality(t)
    BY SmallestBad
<1>2. s # {}
    <2>1. g[{}] \in Int /\ g[s] \notin Int
        BY DEF IsSum
    <2>2. QED
        BY <2>1
<1> DEFINE t == s \ {Some(s)}
<1>3. t \in SUBSET S /\ ~(Cardinality(s) <= Cardinality(t)) /\ Some(s) \in S
    BY <1>2, Smaller, SomeIn
<1>4. g[t] \in Int
    BY <1>1, <1>3
<1>5. g[s] = v[Some(s)] + g[t]
    BY <1>2 DEF IsSum
<1>6. QED
    BY <1>3, <1>4, <1>5

\* Any element may be taken away first.
LEMMA SumRemove ==
    ASSUME NEW S, IsFiniteSet(S), NEW v, \A x \in S : v[x] \in Int, NEW g, IsSum(g, v, S)
    PROVE  \A s \in SUBSET S : \A x \in s : g[s] = v[x] + g[s \ {x}]
<1> DEFINE Bad == {s \in SUBSET S : \E x \in s : g[s] # v[x] + g[s \ {x}]}
<1> SUFFICES ASSUME Bad # {} PROVE FALSE
    OBVIOUS
<1>1. PICK s \in Bad : \A t \in Bad : Cardinality(s) <= Cardinality(t)
    BY SmallestBad
<1>2. PICK x \in s : g[s] # v[x] + g[s \ {x}]
    OBVIOUS
<1> DEFINE y == Some(s)
<1>3. y \in s /\ g[s] = v[y] + g[s \ {y}]
    BY SomeIn DEF IsSum
<1>4. x # y
    BY <1>2, <1>3
<1>5. \A z \in s : s \ {z} \in SUBSET S /\ ~(Cardinality(s) <= Cardinality(s \ {z}))
    BY Smaller
<1>6. \A z \in s : s \ {z} \notin Bad
    BY <1>1, <1>5
<1> HIDE DEF y
<1>7. g[s \ {y}] = v[x] + g[(s \ {y}) \ {x}]
    BY <1>3, <1>4, <1>5, <1>6
<1>8. g[s \ {x}] = v[y] + g[(s \ {x}) \ {y}]
    BY <1>3, <1>4, <1>5, <1>6
<1>9. (s \ {x}) \ {y} = (s \ {y}) \ {x}
    OBVIOUS
<1>10. g[(s \ {y}) \ {x}] \in Int /\ v[x] \in Int /\ v[y] \in Int
    BY <1>3, <1>5, SumType
<1>11. PICK r \in Int : r = g[(s \ {y}) \ {x}]
    BY <1>10
<1>12. g[s] = v[y] + (v[x] + r) /\ v[x] + g[s \ {x}] = v[x] + (v[y] + r)
    BY <1>3, <1>7, <1>8, <1>9, <1>11
<1>13. v[y] + (v[x] + r) = v[x] + (v[y] + r)
    BY <1>10
<1>14. QED
    BY <1>2, <1>12, <1>13

\* A sum depends on nothing but the values.
LEMMA SumSame ==
    ASSUME NEW S, IsFiniteSet(S), NEW v, NEW w, \A x \in S : v[x] = w[x],
           NEW V, NEW W, S \subseteq V, S \subseteq W,
           NEW g, IsSum(g, v, V), NEW h, IsSum(h, w, W)
    PROVE  \A s \in SUBSET S : g[s] = h[s]
<1> DEFINE Bad == {s \in SUBSET S : g[s] # h[s]}
<1> SUFFICES ASSUME Bad # {} PROVE FALSE
    OBVIOUS
<1>1. PICK s \in Bad : \A t \in Bad : Cardinality(s) <= Cardinality(t)
    BY SmallestBad
<1>2. s # {}
    BY <1>1 DEF IsSum
<1> DEFINE t == s \ {Some(s)}
<1>3. t \in SUBSET S /\ ~(Cardinality(s) <= Cardinality(t)) /\ Some(s) \in S
    BY <1>2, Smaller, SomeIn
<1>4. g[t] = h[t]
    BY <1>1, <1>3
<1>5. g[s] = v[Some(s)] + g[t] /\ h[s] = w[Some(s)] + h[t]
    <2>1. s \in SUBSET V /\ s \in SUBSET W
        OBVIOUS
    <2>2. QED
        BY <1>2, <2>1 DEF IsSum
<1>6. QED
    BY <1>1, <1>3, <1>4, <1>5

Total(v, S) == (CHOOSE g : g = SumStep(g, v, S))[S]

LEMMA TotalIs ==
    ASSUME NEW S, IsFiniteSet(S), NEW v
    PROVE  \E g : IsSum(g, v, S) /\ Total(v, S) = g[S]
<1> DEFINE g == CHOOSE g : g = SumStep(g, v, S)
<1>1. g = SumStep(g, v, S)
    BY SumExists
<1>2. IsSum(g, v, S)
    BY <1>1, SumStepIsSum
<1>3. QED
    BY <1>2 DEF Total

LEMMA TotalEmpty == \A v : Total(v, {}) = 0
<1> TAKE v
<1>1. PICK g : IsSum(g, v, {}) /\ Total(v, {}) = g[{}]
    BY TotalIs, FS_EmptySet
<1>2. QED
    BY <1>1 DEF IsSum

LEMMA TotalType ==
    ASSUME NEW S, IsFiniteSet(S), NEW v, \A x \in S : v[x] \in Int
    PROVE  Total(v, S) \in Int
<1>1. PICK g : IsSum(g, v, S) /\ Total(v, S) = g[S]
    BY TotalIs
<1>2. QED
    BY <1>1, SumType

Agree(v, w, S) == \A y \in S : v[y] = w[y] /\ v[y] \in Int

LEMMA TotalAdd ==
    ASSUME NEW S, IsFiniteSet(S), NEW x, x \notin S,
           NEW v, NEW w, Agree(v, w, S), Agree(w, w, {x})
    PROVE  Total(w, S \cup {x}) = Total(v, S) + w[x]
<1> DEFINE T == S \cup {x}
<1>1. IsFiniteSet(T)
    BY FS_AddElement
<1>2. PICK g : IsSum(g, v, S) /\ Total(v, S) = g[S]
    BY TotalIs
<1>3. PICK h : IsSum(h, w, T) /\ Total(w, T) = h[T]
    BY <1>1, TotalIs
<1>4. \A y \in T : w[y] \in Int
    BY DEF Agree
<1>5. h[T] = w[x] + h[T \ {x}] /\ T \ {x} = S
    <2>1. T \in SUBSET T /\ x \in T /\ T \ {x} = S
        OBVIOUS
    <2> HIDE DEF T
    <2>2. QED
        BY <1>1, <1>3, <1>4, <2>1, SumRemove
<1>6. g[S] = h[S]
    <2>1. S \subseteq T /\ S \in SUBSET S /\ \A y \in S : v[y] = w[y]
        BY DEF Agree
    <2> HIDE DEF T
    <2>2. QED
        BY <1>2, <1>3, <2>1, SumSame
<1>7. g[S] \in Int
    <2>1. S \in SUBSET S /\ \A y \in S : v[y] \in Int
        BY DEF Agree
    <2>2. QED
        BY <1>2, <2>1, SumType
<1>8. Total(w, T) = w[x] + g[S]
    BY <1>3, <1>5, <1>6
<1>9. w[x] + g[S] = g[S] + w[x]
    BY <1>4, <1>7
<1>10. QED
    BY <1>2, <1>8, <1>9

-----------------------------------------------------------------------------
(* What each script has accumulated, as a function of the file so far.     *)

Macs == {g.ap : g \in Frames}
Pairs == {<<g.ap, g.sta>> : g \in Frames}

BeaconsOf(a) == {g \in Frames : g.kind = "beacon" /\ g.ap = a}

Between(k) == {g \in Frames : /\ g.ap = k[1] /\ g.sta = k[2]
                              /\ g.kind = "toDS" \/ (g.kind = "fromDS" /\ ~IsToEverybody(g))}

SentBy(k) == {g \in Frames : g.kind = "toDS" /\ g.ap = k[1] /\ g.sta = k[2]}

\* The entry of each access point, by its beacons and the first of them ...
ApTable(fr, t) ==
    /\ DOMAIN t \subseteq Macs
    /\ \A a \in Macs : a \in DOMAIN t <=> WhereIn(fr, BeaconsOf(a)) # {}
    /\ \A a \in DOMAIN t :
        t[a] = [count |-> Cardinality(WhereIn(fr, BeaconsOf(a))),
                channel |-> get_channel(FirstIn(fr, BeaconsOf(a)).channel)]

\* ... and of each station.
SignalIn(fr, k) ==
    IF WhereIn(fr, SentBy(k)) = {} THEN <<>> ELSE <<FirstIn(fr, SentBy(k)).rssi>>

StaTable(fr, t) ==
    /\ DOMAIN t \subseteq Pairs
    /\ \A k \in Pairs : k \in DOMAIN t <=> WhereIn(fr, Between(k)) # {}
    /\ \A k \in DOMAIN t :
        t[k] = [rssi |-> SignalIn(fr, k), count |-> Cardinality(WhereIn(fr, Between(k)))]

LEMMA ApTableInit == ApTable(<<>>, <<>>)
BY WhereEmpty DEF ApTable

LEMMA ApTableStep ==
    ASSUME NEW fr \in Seq(Frames), NEW f \in Frames, ApTable(fr, ap_t), ApPacket(f)
    PROVE  ApTable(Append(fr, f), ap_t')
<1> DEFINE fs == Append(fr, f)
<1>1. ASSUME NEW a, f \notin BeaconsOf(a)
      PROVE  /\ WhereIn(fs, BeaconsOf(a)) = WhereIn(fr, BeaconsOf(a))
             /\ WhereIn(fr, BeaconsOf(a)) # {} =>
                    FirstIn(fs, BeaconsOf(a)) = FirstIn(fr, BeaconsOf(a))
    BY <1>1, WhereAppend, FirstAppend
<1>2. CASE f.kind # "beacon"
    <2>1. ap_t' = ap_t
        BY <1>2 DEF ApPacket
    <2>2. \A a : f \notin BeaconsOf(a)
        BY <1>2 DEF BeaconsOf
    <2>3. QED
        BY <1>1, <2>1, <2>2 DEF ApTable
<1>3. CASE f.kind = "beacon"
    <2> DEFINE m == f.ap
               B == BeaconsOf(m)
               e == IF m \in DOMAIN ap_t
                    THEN [ap_t[m] EXCEPT !.count = @ + 1]
                    ELSE [count |-> 1, channel |-> get_channel(f.channel)]
    <2>1. ap_t' = [x \in DOMAIN ap_t \cup {m} |-> IF x = m THEN e ELSE ap_t[x]]
        BY <1>3 DEF ApPacket, Entry
    <2>2. m \in Macs /\ f \in B /\ \A a : a # m => f \notin BeaconsOf(a)
        BY <1>3 DEF Macs, BeaconsOf
    <2>3. /\ WhereIn(fs, B) # {}
          /\ Cardinality(WhereIn(fs, B)) = Cardinality(WhereIn(fr, B)) + 1
        BY <2>2, WhereAppend, CountAppend
    <2>4. e = [count |-> Cardinality(WhereIn(fs, B)), channel |-> get_channel(FirstIn(fs, B).channel)]
        <3>1. CASE m \in DOMAIN ap_t
            <4>1. /\ WhereIn(fr, B) # {}
                  /\ ap_t[m] = [count |-> Cardinality(WhereIn(fr, B)),
                                channel |-> get_channel(FirstIn(fr, B).channel)]
                BY <2>2, <3>1 DEF ApTable
            <4>2. FirstIn(fs, B) = FirstIn(fr, B)
                BY <4>1, FirstAppend
            <4> HIDE DEF B, fs
            <4>3. QED
                BY <2>3, <3>1, <4>1, <4>2
        <3>2. CASE m \notin DOMAIN ap_t
            <4>1. WhereIn(fr, B) = {}
                BY <2>2, <3>2 DEF ApTable
            <4>2. FirstIn(fs, B) = f
                BY <2>2, <4>1, FirstAppend
            <4>3. Cardinality(WhereIn(fr, B)) = 0
                BY <4>1, FS_EmptySet
            <4> HIDE DEF B, fs
            <4>4. QED
                BY <2>3, <3>2, <4>2, <4>3
        <3>3. QED
            BY <3>1, <3>2
    <2> HIDE DEF e
    <2>5. DOMAIN ap_t' = DOMAIN ap_t \cup {m} /\ ap_t'[m] = e
        BY <2>1
    <2>6. \A a \in DOMAIN ap_t : a # m => ap_t'[a] = ap_t[a]
        BY <2>1
    <2>7. ASSUME NEW a \in Macs
          PROVE  a \in DOMAIN ap_t' <=> WhereIn(fs, BeaconsOf(a)) # {}
        BY <1>1, <2>2, <2>3, <2>5 DEF ApTable
    <2>8. ASSUME NEW a \in DOMAIN ap_t'
          PROVE  ap_t'[a] = [count |-> Cardinality(WhereIn(fs, BeaconsOf(a))),
                             channel |-> get_channel(FirstIn(fs, BeaconsOf(a)).channel)]
        <3>1. CASE a = m
            BY <2>4, <2>5, <3>1
        <3>2. CASE a # m
            <4>1. /\ a \in DOMAIN ap_t /\ a \in Macs /\ f \notin BeaconsOf(a)
                  /\ ap_t'[a] = ap_t[a]
                BY <2>2, <2>5, <2>6, <3>2 DEF ApTable
            <4>2. /\ WhereIn(fr, BeaconsOf(a)) # {}
                  /\ ap_t[a] = [count |-> Cardinality(WhereIn(fr, BeaconsOf(a))),
                                channel |-> get_channel(FirstIn(fr, BeaconsOf(a)).channel)]
                BY <4>1 DEF ApTable
            <4>3. QED
                BY <1>1, <4>1, <4>2
        <3>3. QED
            BY <3>1, <3>2
    <2>9. QED
        BY <2>2, <2>5, <2>7, <2>8 DEF ApTable
<1>4. QED
    BY <1>2, <1>3

LEMMA StaTableInit == StaTable(<<>>, <<>>)
BY WhereEmpty DEF StaTable

\* A station that has sent something has been heard.
LEMMA SentIsBetween ==
    ASSUME NEW fr, NEW k
    PROVE  WhereIn(fr, SentBy(k)) \subseteq WhereIn(fr, Between(k))
<1>1. SentBy(k) \subseteq Between(k)
    BY DEF SentBy, Between
<1>2. QED
    BY <1>1 DEF WhereIn


\* One entry is made or changed.
Becomes(t, u, k, e) ==
    /\ DOMAIN u = DOMAIN t \cup {k}
    /\ u[k] = e
    /\ \A x \in DOMAIN t : x # k => u[x] = t[x]

LEMMA OthersStay ==
    ASSUME NEW fr \in Seq(Frames), NEW f \in Frames, NEW x \in Pairs, x # <<f.ap, f.sta>>
    PROVE  /\ WhereIn(Append(fr, f), Between(x)) = WhereIn(fr, Between(x))
           /\ SignalIn(Append(fr, f), x) = SignalIn(fr, x)
<1>1. f \notin Between(x) /\ f \notin SentBy(x)
    <2> SUFFICES ASSUME f \in Between(x) \/ f \in SentBy(x) PROVE x = <<f.ap, f.sta>>
        OBVIOUS
    <2>1. PICK g \in Frames : x = <<g.ap, g.sta>>
        BY DEF Pairs
    <2>2. f.ap = x[1] /\ f.sta = x[2]
        BY DEF Between, SentBy
    <2>3. QED
        BY <2>1, <2>2
<1>2. /\ WhereIn(Append(fr, f), Between(x)) = WhereIn(fr, Between(x))
      /\ WhereIn(Append(fr, f), SentBy(x)) = WhereIn(fr, SentBy(x))
    BY <1>1, WhereAppend
<1>3. WhereIn(fr, SentBy(x)) # {} => FirstIn(Append(fr, f), SentBy(x)) = FirstIn(fr, SentBy(x))
    BY FirstAppend
<1>4. QED
    BY <1>2, <1>3 DEF SignalIn

LEMMA StaTableEntry ==
    ASSUME NEW fr \in Seq(Frames), NEW f \in Frames, NEW t, StaTable(fr, t),
           NEW k \in Pairs, k = <<f.ap, f.sta>>, f \in Between(k),
           NEW u, NEW e, Becomes(t, u, k, e),
           e = [rssi |-> SignalIn(Append(fr, f), k),
                count |-> Cardinality(WhereIn(Append(fr, f), Between(k)))]
    PROVE  StaTable(Append(fr, f), u)
<1> DEFINE fs == Append(fr, f)
<1>1. WhereIn(fs, Between(k)) # {}
    <2>1. WhereIn(fs, Between(k)) = WhereIn(fr, Between(k)) \cup {Len(fr) + 1}
        BY WhereAppend
    <2>2. QED
        BY <2>1
<1>2. \A x \in Pairs : x # k => /\ WhereIn(fs, Between(x)) = WhereIn(fr, Between(x))
                                /\ SignalIn(fs, x) = SignalIn(fr, x)
    BY OthersStay
<1> HIDE DEF fs
<1>3. ASSUME NEW x \in Pairs
      PROVE  x \in DOMAIN u <=> WhereIn(fs, Between(x)) # {}
    <2>1. CASE x = k
        BY <1>1, <2>1 DEF Becomes
    <2>2. CASE x # k
        <3>1. x \in DOMAIN u <=> x \in DOMAIN t
            BY <2>2 DEF Becomes
        <3>2. x \in DOMAIN t <=> WhereIn(fr, Between(x)) # {}
            BY DEF StaTable
        <3>3. QED
            BY <1>2, <2>2, <3>1, <3>2
    <2>3. QED
        BY <2>1, <2>2
<1>4. ASSUME NEW x \in DOMAIN u
      PROVE  u[x] = [rssi |-> SignalIn(fs, x), count |-> Cardinality(WhereIn(fs, Between(x)))]
    <2>1. CASE x = k
        BY <2>1 DEF Becomes, fs
    <2>2. CASE x # k
        <3>1. x \in DOMAIN t /\ u[x] = t[x]
            BY <2>2 DEF Becomes
        <3>2. /\ x \in Pairs
              /\ t[x] = [rssi |-> SignalIn(fr, x), count |-> Cardinality(WhereIn(fr, Between(x)))]
            BY <3>1 DEF StaTable
        <3>3. QED
            BY <1>2, <2>2, <3>1, <3>2
    <2>3. QED
        BY <2>1, <2>2
<1>5. DOMAIN u \subseteq Pairs
    BY DEF Becomes, StaTable
<1>6. QED
    BY <1>3, <1>4, <1>5 DEF StaTable, fs

LEMMA StaTableStep ==
    ASSUME NEW fr \in Seq(Frames), NEW f \in Frames, StaTable(fr, ap_sta_t), StaPacket(f)
    PROVE  StaTable(Append(fr, f), ap_sta_t')
<1>1. PICK k \in Pairs : k = <<f.ap, f.sta>> /\ k[1] = f.ap /\ k[2] = f.sta
    <2>1. <<f.ap, f.sta>> \in Pairs
        BY DEF Pairs
    <2>2. QED
        BY <2>1
<1> DEFINE fs == Append(fr, f)
           before == Cardinality(WhereIn(fr, Between(k)))
           after == Cardinality(WhereIn(fs, Between(k)))
<1>2. CASE f.kind = "toDS"
    <2>1. f \in Between(k) /\ f \in SentBy(k)
        BY <1>1, <1>2 DEF Between, SentBy
    <2>2. after = before + 1 /\ before \in Nat
        BY <2>1, CountAppend, WhereType
    <2>3. WhereIn(fs, SentBy(k)) # {}
        BY <2>1, WhereAppend
    <2>4. SignalIn(fs, k) = IF WhereIn(fr, SentBy(k)) = {} THEN <<f.rssi>> ELSE SignalIn(fr, k)
        BY <2>1, <2>3, FirstAppend DEF SignalIn
    <2> DEFINE d == IF k \in DOMAIN ap_sta_t
                    THEN [ap_sta_t[k] EXCEPT !.count = @ + 1]
                    ELSE [rssi |-> <<f.rssi>>, count |-> 1]
               e == IF d.rssi = <<>> THEN [d EXCEPT !.rssi = <<f.rssi>>] ELSE d
    <2>5. ap_sta_t' = Entry(ap_sta_t, k, e)
        BY <1>1, <1>2 DEF StaPacket, ToDS
    <2>6. e = [rssi |-> SignalIn(fs, k), count |-> after]
        <3>1. <<f.rssi>> # <<>>
            OBVIOUS
        <3>2. CASE k \in DOMAIN ap_sta_t
            <4>1. ap_sta_t[k] = [rssi |-> SignalIn(fr, k), count |-> before]
                BY <3>2 DEF StaTable
            <4>2. d = [rssi |-> SignalIn(fr, k), count |-> after]
                BY <2>2, <3>2, <4>1
            <4>3. SignalIn(fr, k) = <<>> <=> WhereIn(fr, SentBy(k)) = {}
                BY DEF SignalIn
            <4> HIDE DEF d, after, before, fs
            <4>4. QED
                BY <2>4, <4>2, <4>3
        <3>3. CASE k \notin DOMAIN ap_sta_t
            <4>1. WhereIn(fr, Between(k)) = {}
                BY <1>1, <3>3 DEF StaTable
            <4>2. WhereIn(fr, SentBy(k)) = {} /\ before = 0
                BY <4>1, SentIsBetween, FS_EmptySet
            <4>3. d = [rssi |-> <<f.rssi>>, count |-> 1]
                BY <3>3
            <4> HIDE DEF d, after, before, fs
            <4>4. QED
                BY <2>2, <2>4, <3>1, <4>2, <4>3
        <3>4. QED
            BY <3>2, <3>3
    <2> HIDE DEF d, e
    <2>7. Becomes(ap_sta_t, ap_sta_t', k, e)
        BY <2>5 DEF Entry, Becomes
    <2>8. QED
        BY <1>1, <2>1, <2>6, <2>7, StaTableEntry
<1>3. CASE f.kind = "fromDS" /\ ~IsToEverybody(f)
    <2>1. f \in Between(k) /\ f \notin SentBy(k)
        BY <1>1, <1>3 DEF Between, SentBy
    <2>2. after = before + 1 /\ before \in Nat
        BY <2>1, CountAppend, WhereType
    <2>3. SignalIn(fs, k) = SignalIn(fr, k)
        <3>1. WhereIn(fs, SentBy(k)) = WhereIn(fr, SentBy(k))
            BY <2>1, WhereAppend
        <3>2. QED
            BY <3>1, FirstAppend DEF SignalIn
    <2> DEFINE e == IF k \in DOMAIN ap_sta_t
                    THEN [ap_sta_t[k] EXCEPT !.count = @ + 1]
                    ELSE [rssi |-> <<>>, count |-> 1]
    <2>4. ap_sta_t' = Entry(ap_sta_t, k, e)
        BY <1>1, <1>3 DEF StaPacket, FromDS
    <2>5. e = [rssi |-> SignalIn(fs, k), count |-> after]
        <3>1. CASE k \in DOMAIN ap_sta_t
            <4>1. ap_sta_t[k] = [rssi |-> SignalIn(fr, k), count |-> before]
                BY <3>1 DEF StaTable
            <4> HIDE DEF after, before, fs
            <4>2. QED
                BY <2>2, <2>3, <3>1, <4>1
        <3>2. CASE k \notin DOMAIN ap_sta_t
            <4>1. WhereIn(fr, Between(k)) = {}
                BY <1>1, <3>2 DEF StaTable
            <4>2. WhereIn(fr, SentBy(k)) = {} /\ before = 0
                BY <4>1, SentIsBetween, FS_EmptySet
            <4>3. SignalIn(fr, k) = <<>>
                BY <4>2 DEF SignalIn
            <4> HIDE DEF after, before, fs
            <4>4. QED
                BY <2>2, <2>3, <3>2, <4>2, <4>3
        <3>3. QED
            BY <3>1, <3>2
    <2> HIDE DEF e
    <2>6. Becomes(ap_sta_t, ap_sta_t', k, e)
        BY <2>4 DEF Entry, Becomes
    <2>7. QED
        BY <1>1, <2>1, <2>5, <2>6, StaTableEntry
<1>4. CASE f.kind # "toDS" /\ ~(f.kind = "fromDS" /\ ~IsToEverybody(f))
    <2>1. ap_sta_t' = ap_sta_t
        BY <1>4 DEF StaPacket
    <2>2. \A x : f \notin Between(x) /\ f \notin SentBy(x)
        BY <1>4 DEF Between, SentBy
    <2>3. \A x : /\ WhereIn(fs, Between(x)) = WhereIn(fr, Between(x))
                 /\ WhereIn(fs, SentBy(x)) = WhereIn(fr, SentBy(x))
        BY <2>2, WhereAppend
    <2>4. \A x : SignalIn(fs, x) = SignalIn(fr, x)
        BY <2>3, FirstAppend DEF SignalIn
    <2>5. QED
        BY <2>1, <2>3, <2>4 DEF StaTable
<1>5. QED
    BY <1>2, <1>3, <1>4

-----------------------------------------------------------------------------
(* wlan_rssi.lua and wlan_list_sta.lua.                                    *)

Signals == -128 .. 127
Stats == [max : Int, min : Int, sum : Int, count : Nat]

\* What has been gathered of the values v of the frames numbered W; all else
\* the minimum and maximum can be is what they start with.
Stat(W, v, e) ==
    /\ e \in Stats
    /\ e.count = Cardinality(W)
    /\ e.sum = Total(v, W)
    /\ e.min <= 100 /\ -100 <= e.max
    /\ e.min = 100 \/ \E n \in W : v[n] = e.min
    /\ e.max = -100 \/ \E n \in W : v[n] = e.max
    /\ \A n \in W : e.min <= v[n] /\ v[n] <= e.max

LEMMA StatNone ==
    ASSUME NEW v
    PROVE  Stat({}, v, [max |-> -100, min |-> 100, sum |-> 0, count |-> 0])
<1>1. Cardinality({}) = 0 /\ Total(v, {}) = 0
    BY FS_EmptySet, TotalEmpty
<1> DEFINE e == [max |-> -100, min |-> 100, sum |-> 0, count |-> 0]
<1>2. e \in Stats /\ e.min = 100 /\ e.max = -100 /\ e.sum = 0 /\ e.count = 0
    BY DEF Stats
<1> HIDE DEF e
<1>3. Stat({}, v, e)
    BY <1>1, <1>2 DEF Stat
<1>4. QED
    BY <1>3 DEF e

LEMMA WithIs ==
    ASSUME NEW e \in Stats, NEW x \in Signals
    PROVE  /\ With(e, x) \in Stats
           /\ With(e, x).count = e.count + 1
           /\ With(e, x).sum = e.sum + x
           /\ With(e, x).max = IF x > e.max THEN x ELSE e.max
           /\ With(e, x).min = IF x < e.min THEN x ELSE e.min
BY DEF With, Stats, Signals

\* One value more.
LEMMA StatMore ==
    ASSUME NEW W, IsFiniteSet(W), NEW k, k \notin W, NEW x \in Signals,
           NEW v \in [W -> Signals], NEW w \in [W \cup {k} -> Signals],
           \A n \in W : w[n] = v[n], w[k] = x,
           NEW e, Stat(W, v, e)
    PROVE  Stat(W \cup {k}, w, With(e, x))
<1> DEFINE d == With(e, x)
           V == W \cup {k}
<1>1. /\ e \in Stats /\ d \in Stats
      /\ d.count = e.count + 1 /\ d.sum = e.sum + x
      /\ d.max = IF x > e.max THEN x ELSE e.max
      /\ d.min = IF x < e.min THEN x ELSE e.min
    BY WithIs DEF Stat
<1>2. e.min \in Int /\ e.max \in Int /\ d.min \in Int /\ d.max \in Int /\ x \in Int
    BY <1>1 DEF Stats, Signals
<1>3. d.count = Cardinality(V)
    <2>1. Cardinality(V) = Cardinality(W) + 1
        BY FS_AddElement
    <2>2. QED
        BY <1>1, <2>1 DEF Stat
<1>4. d.sum = Total(w, V)
    <2>1. Agree(v, w, W) /\ Agree(w, w, {k})
        BY DEF Agree, Signals
    <2>2. Total(w, V) = Total(v, W) + x
        BY <1>2, <2>1, TotalAdd
    <2>3. QED
        BY <1>1, <2>2 DEF Stat
<1> HIDE DEF d
<1>5. d.min <= e.min /\ e.max <= d.max /\ d.min <= x /\ x <= d.max
    BY <1>1, <1>2
<1>6. ASSUME NEW n \in V PROVE d.min <= w[n] /\ w[n] <= d.max
    <2>1. CASE n = k
        BY <1>5, <2>1
    <2>2. CASE n # k
        <3>1. n \in W /\ w[n] = v[n] /\ v[n] \in Int
            BY <2>2 DEF Signals
        <3>2. e.min <= v[n] /\ v[n] <= e.max
            BY <3>1 DEF Stat
        <3>3. QED
            BY <1>2, <1>5, <3>1, <3>2
    <2>3. QED
        BY <2>1, <2>2
<1>7. d.min <= 100 /\ -100 <= d.max
    BY <1>1, <1>2 DEF Stat
<1>8. (d.min = 100 \/ \E n \in V : w[n] = d.min) /\ (d.max = -100 \/ \E n \in V : w[n] = d.max)
    <2>1. k \in V /\ w[k] = x /\ \A n \in W : n \in V /\ w[n] = v[n]
        OBVIOUS
    <2>2. d.min \in {x, e.min} /\ d.max \in {x, e.max}
        BY <1>1
    <2>3. (e.min = 100 \/ \E n \in W : v[n] = e.min) /\ (e.max = -100 \/ \E n \in W : v[n] = e.max)
        BY DEF Stat
    <2> HIDE DEF V
    <2>4. d.min = 100 \/ \E n \in V : w[n] = d.min
        BY <2>1, <2>2, <2>3
    <2>5. d.max = -100 \/ \E n \in V : w[n] = d.max
        BY <2>1, <2>2, <2>3
    <2>6. QED
        BY <2>4, <2>5
<1> HIDE DEF V
<1>9. Stat(V, w, d)
    BY <1>1, <1>3, <1>4, <1>6, <1>7, <1>8 DEF Stat
<1>10. QED
    BY <1>9 DEF d, V

Measured(s) == {g \in Filter[s] : g.rssi # None}
RssiOf(fr, G) == [n \in WhereIn(fr, G) |-> fr[n].rssi]

LEMMA RssiType ==
    ASSUME NEW s \in DOMAIN Filter, NEW fr
    PROVE  RssiOf(fr, Measured(s)) \in [WhereIn(fr, Measured(s)) -> Signals]
<1>1. Filter[s] \subseteq Frames
    BY DEF Filter
<1>2. \A g \in Measured(s) : g.rssi \in Signals
    BY <1>1, FrameAssumption DEF Measured, Signals
<1>3. QED
    BY <1>2 DEF RssiOf, WhereIn

StatTable(fr, t) ==
    /\ t = [s \in DOMAIN Filter |-> t[s]]
    /\ \A s \in DOMAIN Filter : Stat(WhereIn(fr, Measured(s)), RssiOf(fr, Measured(s)), t[s])

LEMMA StatTableStep ==
    ASSUME NEW fr \in Seq(Frames), NEW f \in Frames, StatTable(fr, stats), StatsPacket(f)
    PROVE  StatTable(Append(fr, f), stats')
<1> DEFINE fs == Append(fr, f)
<1>1. stats' = [s \in DOMAIN Filter |->
                  IF f \in Measured(s) THEN With(stats[s], f.rssi) ELSE stats[s]]
    BY DEF StatsPacket, Measured
<1>2. ASSUME NEW s \in DOMAIN Filter
      PROVE  Stat(WhereIn(fs, Measured(s)), RssiOf(fs, Measured(s)), stats'[s])
    <2> DEFINE G == Measured(s)
               W == WhereIn(fr, G)
               V == WhereIn(fs, G)
    <2>1. stats'[s] = IF f \in G THEN With(stats[s], f.rssi) ELSE stats[s]
        BY <1>1
    <2>2. Stat(W, RssiOf(fr, G), stats[s])
        BY DEF StatTable
    <2>3. \A n \in W : fs[n] = fr[n]
        BY WhereAppend DEF WhereIn
    <2>4. RssiOf(fr, G) \in [W -> Signals] /\ RssiOf(fs, G) \in [V -> Signals]
        BY RssiType
    <2>5. CASE f \in G
        <3>1. V = W \cup {Len(fr) + 1} /\ Len(fr) + 1 \notin W /\ fs[Len(fr) + 1] = f
            BY <2>5, WhereAppend
        <3>2. IsFiniteSet(W)
            BY WhereType
        <3>3. \A n \in W : RssiOf(fs, G)[n] = RssiOf(fr, G)[n]
            BY <2>3, <3>1 DEF RssiOf
        <3>4. RssiOf(fs, G)[Len(fr) + 1] = f.rssi /\ f.rssi \in Signals
            BY <2>4, <3>1 DEF RssiOf
        <3> HIDE DEF G, W, V, fs
        <3>5. Stat(V, RssiOf(fs, G), With(stats[s], f.rssi))
            BY <2>2, <2>4, <3>1, <3>2, <3>3, <3>4, StatMore
        <3>6. QED
            BY <2>1, <2>5, <3>5 DEF G, V
    <2>6. CASE f \notin G
        <3>1. V = W
            BY <2>6, WhereAppend
        <3>2. RssiOf(fs, G) = RssiOf(fr, G)
            BY <2>3, <3>1 DEF RssiOf
        <3>3. QED
            BY <2>1, <2>2, <2>6, <3>1, <3>2
    <2>7. QED
        BY <2>5, <2>6
<1>3. stats' = [s \in DOMAIN Filter |-> stats'[s]]
    BY <1>1
<1>4. QED
    BY <1>2, <1>3 DEF StatTable

-----------------------------------------------------------------------------
(* wlan_nav.lua.                                                           *)

Acks == {g \in Frames : g.kind = "ack"}
Timed == {g \in Frames : g.kind \notin {"ack", "udp"} /\ g.air # None}
Again == {g \in Timed : g.retry}
AirOf(fr) == [n \in WhereIn(fr, Timed) |-> fr[n].air]

Count(fr, G) == Cardinality(WhereIn(fr, G))

NavTimes(fr, total, last) ==
    /\ total \in Nat
    /\ total = Total(AirOf(fr), WhereIn(fr, Timed)) + 68 * Count(fr, Timed)
                 + 68 * Count(fr, Again) + 50 * Count(fr, Acks)
    /\ last = LastAfter(fr, Timed)

\* What the three listeners add for one frame.
LEMMA TimeAdded ==
    ASSUME NEW f \in Frames
    PROVE  /\ f \in Timed => /\ f.air \in Nat /\ f \notin Acks
                             /\ FirstTime(f) + RetryTime(f) + AckTime(f) =
                                    f.air + 68 + (IF f \in Again THEN 68 ELSE 0)
                             /\ FirstTime(f) + RetryTime(f) > 0
           /\ f \notin Timed => /\ f \notin Again
                                /\ FirstTime(f) + RetryTime(f) + AckTime(f) =
                                       IF f \in Acks THEN 50 ELSE 0
                                /\ FirstTime(f) + RetryTime(f) = 0
           /\ FirstTime(f) \in Nat /\ RetryTime(f) \in Nat /\ AckTime(f) \in Nat
<1>1. f.air \in Nat \cup {None} /\ None \notin Nat /\ f.retry \in BOOLEAN
    BY FrameAssumption
<1>2. f \in Timed <=> f.kind # "ack" /\ f.kind # "udp" /\ f.air # None
    BY DEF Timed
<1>3. f \in Again <=> f \in Timed /\ f.retry
    BY DEF Again, Timed
<1>4. f \in Acks <=> f.kind = "ack"
    BY DEF Acks
<1>5. FirstTime(f) = IF f \in Timed /\ ~f.retry THEN f.air + 68 ELSE 0
    BY <1>1, <1>2 DEF FirstTime, IsFirst, IsAir
<1>6. RetryTime(f) = IF f \in Timed /\ f.retry THEN f.air + 2 * 68 ELSE 0
    BY <1>1, <1>2 DEF RetryTime, IsRetry, IsAir
<1>7. AckTime(f) = IF f \in Acks THEN 50 ELSE 0
    BY <1>4 DEF AckTime, IsAck
<1>8. f \in Timed => f.air \in Nat /\ f \notin Acks
    BY <1>1, <1>2, <1>4
<1>9. QED
    BY <1>1, <1>3, <1>5, <1>6, <1>7, <1>8

LEMMA NavInit == NavTimes(<<>>, 0, 0)
<1>1. \A G : WhereIn(<<>>, G) = {} /\ Count(<<>>, G) = 0
    BY WhereEmpty, FS_EmptySet DEF Count
<1>2. Total(AirOf(<<>>), {}) = 0
    BY TotalEmpty
<1>3. LastAfter(<<>>, Timed) = 0
    <2>1. Max({0}) = 0
        BY MaxIs
    <2>2. QED
        BY <1>1, <2>1 DEF LastAfter
<1>4. QED
    BY <1>1, <1>2, <1>3 DEF NavTimes

LEMMA AirType ==
    ASSUME NEW fr
    PROVE  AirOf(fr) \in [WhereIn(fr, Timed) -> Nat]
<1>1. \A g \in Timed : g.air \in Nat
    BY FrameAssumption DEF Timed
<1>2. QED
    BY <1>1 DEF AirOf, WhereIn

LEMMA TotalOfNats ==
    ASSUME NEW W, IsFiniteSet(W), NEW v \in [W -> Nat]
    PROVE  /\ Total(v, W) \in Int
           /\ \A k, V, w : k \notin W /\ V = W \cup {k} /\ w \in [V -> Nat]
                             /\ (\A n \in W : w[n] = v[n]) => Total(w, V) = Total(v, W) + w[k]
<1>1. Total(v, W) \in Int
    <2>1. \A x \in W : v[x] \in Int
        OBVIOUS
    <2>2. QED
        BY <2>1, TotalType
<1>2. ASSUME NEW k, k \notin W, NEW w \in [W \cup {k} -> Nat], \A n \in W : w[n] = v[n]
      PROVE  Total(w, W \cup {k}) = Total(v, W) + w[k]
    <2>1. Agree(v, w, W) /\ Agree(w, w, {k})
        BY <1>2 DEF Agree
    <2>2. QED
        BY <1>2, <2>1, TotalAdd
<1>3. QED
    BY <1>1, <1>2

LEMMA AirStep ==
    ASSUME NEW fr \in Seq(Frames), NEW f \in Frames
    PROVE  LET before == Total(AirOf(fr), WhereIn(fr, Timed))
               after == Total(AirOf(Append(fr, f)), WhereIn(Append(fr, f), Timed))
           IN  /\ before \in Int
               /\ f \in Timed => after = before + f.air
               /\ f \notin Timed => after = before
<1> DEFINE fs == Append(fr, f)
           W == WhereIn(fr, Timed)
           V == WhereIn(fs, Timed)
           v == AirOf(fr)
           w == AirOf(fs)
           k == Len(fr) + 1
<1>1. v \in [W -> Nat] /\ w \in [V -> Nat] /\ IsFiniteSet(W)
    BY AirType, WhereType
<1>2. \A n \in W : fs[n] = fr[n]
    BY WhereAppend DEF WhereIn
<1>3. ASSUME f \in Timed
      PROVE  k \notin W /\ V = W \cup {k} /\ w[k] = f.air /\ \A n \in W : w[n] = v[n]
    <2>1. k \notin W /\ V = W \cup {k} /\ fs[k] = f
        BY <1>3, WhereAppend
    <2>2. QED
        BY <1>2, <2>1 DEF AirOf
<1>4. ASSUME f \notin Timed PROVE V = W /\ w = v
    <2>1. V = W
        BY <1>4, WhereAppend
    <2>2. QED
        BY <1>2, <2>1 DEF AirOf
<1> HIDE DEF fs, W, V, v, w, k
<1>5. Total(v, W) \in Int
    BY <1>1, TotalOfNats
<1>6. f \in Timed => Total(w, V) = Total(v, W) + f.air
    <2>1. ASSUME f \in Timed PROVE Total(w, V) = Total(v, W) + w[k]
        BY <1>1, <1>3, <2>1, TotalOfNats
    <2>2. QED
        BY <1>3, <2>1
<1>7. QED
    BY <1>4, <1>5, <1>6 DEF fs, W, V, v, w

\* 68 for each frame that is no ack, once more for a retry, 50 for an ack.
LEMMA TimeSum ==
    ASSUME NEW s \in Int, NEW a \in Nat, NEW b \in Nat, NEW c \in Nat,
           NEW x \in Nat, NEW k \in {0, 1}
    PROVE  /\ (s + 68 * a + 68 * b + 50 * c) + (x + 68 + 68 * k) =
                   (s + x) + 68 * (a + 1) + 68 * (b + k) + 50 * c
           /\ (s + 68 * a + 68 * b + 50 * c) + 50 * k =
                   s + 68 * a + 68 * b + 50 * (c + k)
OBVIOUS

LEMMA NavStep ==
    ASSUME frames \in Seq(Frames), NEW f \in Frames,
           NavTimes(frames, time_total, time_last), NavPacket(f)
    PROVE  NavTimes(Append(frames, f), time_total', time_last')
<1> DEFINE fs == Append(frames, f)
           s == Total(AirOf(frames), WhereIn(frames, Timed))
           s2 == Total(AirOf(fs), WhereIn(fs, Timed))
           a == Count(frames, Timed)
           b == Count(frames, Again)
           c == Count(frames, Acks)
           a2 == Count(fs, Timed)
           b2 == Count(fs, Again)
           c2 == Count(fs, Acks)
           more == FirstTime(f) + RetryTime(f) + AckTime(f)
           N == Len(frames)
<1>1. /\ time_total' = time_total + FirstTime(f) + RetryTime(f) + AckTime(f)
      /\ time_last' = IF FirstTime(f) + RetryTime(f) > 0 THEN N + 1 ELSE time_last
    BY DEF NavPacket
<1>2. \A G : /\ Count(fs, G) = Count(frames, G) + (IF f \in G THEN 1 ELSE 0)
             /\ Count(frames, G) \in Nat
    BY CountAppend, WhereType DEF Count
<1>3. LastAfter(fs, Timed) = IF f \in Timed THEN N + 1 ELSE LastAfter(frames, Timed)
    BY LastAppend
<1>4. /\ time_total \in Nat /\ time_last = LastAfter(frames, Timed)
      /\ time_total = s + 68 * a + 68 * b + 50 * c
    BY DEF NavTimes
<1>5. s \in Int /\ (f \in Timed => s2 = s + f.air) /\ (f \notin Timed => s2 = s)
    BY AirStep
<1>6. a \in Nat /\ b \in Nat /\ c \in Nat
    BY <1>2
<1>7. /\ a2 = a + (IF f \in Timed THEN 1 ELSE 0)
      /\ b2 = b + (IF f \in Again THEN 1 ELSE 0)
      /\ c2 = c + (IF f \in Acks THEN 1 ELSE 0)
    BY <1>2
<1>8. time_total' = time_total + more /\ time_total' \in Nat
    <2>1. FirstTime(f) \in Nat /\ RetryTime(f) \in Nat /\ AckTime(f) \in Nat
        BY TimeAdded
    <2>2. QED
        BY <1>1, <1>4, <2>1
<1>9. time_last' = LastAfter(fs, Timed)
    <2>1. FirstTime(f) + RetryTime(f) > 0 <=> f \in Timed
        BY TimeAdded
    <2>2. QED
        BY <1>1, <1>3, <1>4, <2>1
<1>10. f \in Timed => /\ f.air \in Nat /\ f \notin Acks
                      /\ more = f.air + 68 + (IF f \in Again THEN 68 ELSE 0)
    BY TimeAdded
<1>11. f \notin Timed => f \notin Again /\ more = IF f \in Acks THEN 50 ELSE 0
    BY TimeAdded
<1> HIDE DEF s, s2, a, b, c, a2, b2, c2, more, N, fs
<1>12. time_total' = s2 + 68 * a2 + 68 * b2 + 50 * c2
    <2>1. CASE f \in Timed
        <3>1. PICK x \in Nat : x = f.air
            BY <1>10, <2>1
        <3>2. PICK k \in {0, 1} : k = IF f \in Again THEN 1 ELSE 0
            OBVIOUS
        <3>3. more = x + 68 + 68 * k
            BY <1>10, <2>1, <3>1, <3>2
        <3>4. s2 = s + x /\ a2 = a + 1 /\ b2 = b + k /\ c2 = c
            <4>1. s2 = s + x
                BY <1>5, <2>1, <3>1
            <4>2. a2 = a + 1 /\ b2 = b + k
                BY <1>7, <2>1, <3>2
            <4>3. c2 = c + 0
                BY <1>7, <1>10, <2>1
            <4>4. QED
                BY <1>6, <4>1, <4>2, <4>3
        <3>5. (s + 68 * a + 68 * b + 50 * c) + (x + 68 + 68 * k) =
                  (s + x) + 68 * (a + 1) + 68 * (b + k) + 50 * c
            BY <1>5, <1>6, TimeSum
        <3>6. QED
            BY <1>4, <1>8, <3>3, <3>4, <3>5
    <2>2. CASE f \notin Timed
        <3>1. PICK k \in {0, 1} : k = IF f \in Acks THEN 1 ELSE 0
            OBVIOUS
        <3>2. more = 50 * k
            BY <1>11, <2>2, <3>1
        <3>3. s2 = s /\ a2 = a /\ b2 = b /\ c2 = c + k
            BY <1>5, <1>6, <1>7, <1>11, <2>2, <3>1
        <3>4. (s + 68 * a + 68 * b + 50 * c) + 50 * k = s + 68 * a + 68 * b + 50 * (c + k)
            BY <1>5, <1>6, TimeSum
        <3>5. QED
            BY <1>4, <1>8, <3>2, <3>3, <3>4
    <2>3. QED
        BY <2>1, <2>2
<1>13. NavTimes(fs, time_total', time_last')
    BY <1>8, <1>9, <1>12 DEF NavTimes, a2, b2, c2, s2
<1>14. QED
    BY <1>13 DEF fs

-----------------------------------------------------------------------------
(* iperf_udp_ploss.lua.                                                    *)

LEMMA MaxOfSome ==
    ASSUME NEW N \in Nat, NEW T, T \subseteq 1 .. N
    PROVE  Max(T \cup {0}) \in T \cup {0} /\ \A n \in T \cup {0} : n <= Max(T \cup {0})
<1> DEFINE S == T \cup {0}
           D == {N - n : n \in S}
<1>1. S \subseteq 0 .. N /\ S # {}
    OBVIOUS
<1> HIDE DEF S
<1>2. D \subseteq Nat /\ D # {}
    <2>1. PICK n \in S : TRUE
        BY <1>1
    <2>2. N - n \in D
        OBVIOUS
    <2>3. \A m \in S : N - m \in Nat
        BY <1>1
    <2>4. QED
        BY <2>2, <2>3
<1>3. PICK d \in D : \A n \in D : d <= n
    BY <1>2, HasLeast
<1>4. PICK m \in S : d = N - m
    BY <1>3
<1>5. \A n \in S : n <= m
    <2> TAKE n \in S
    <2>1. N - n \in D /\ n \in Int /\ m \in Int
        BY <1>1, <1>4
    <2>2. N - m <= N - n
        BY <1>3, <1>4, <2>1
    <2>3. QED
        BY <2>1, <2>2
<1>6. S \subseteq Int
    BY <1>1
<1>7. Max(S) = m
    BY <1>4, <1>5, <1>6, MaxIs
<1>8. Max(S) \in S /\ \A n \in S : n <= Max(S)
    BY <1>5, <1>7
<1>9. QED
    BY <1>8 DEF S

LEMMA LastIn ==
    ASSUME NEW fr \in Seq(Frames), NEW G
    PROVE  LastAfter(fr, G) \in WhereIn(fr, G) \cup {0} /\ LastAfter(fr, G) \in 0 .. Len(fr)
<1>1. WhereIn(fr, G) \subseteq 1 .. Len(fr) /\ Len(fr) \in Nat
    BY WhereType, LenProperties
<1> DEFINE T == WhereIn(fr, G)
<1> HIDE DEF T
<1>2. Max(T \cup {0}) \in T \cup {0}
    BY <1>1, MaxOfSome DEF T
<1>3. QED
    BY <1>1, <1>2 DEF LastAfter, T

Udp == {g \in Frames : g.kind = "udp"}
SeqAt(fr, n) == IF n = 0 THEN 0 ELSE fr[n].seq
Earlier(fr, n) == {m \in WhereIn(fr, Udp) : m < n}
Before(fr, n) == Max(Earlier(fr, n) \cup {0})
Gaps(fr) == {n \in WhereIn(fr, Udp) : SeqAt(fr, Before(fr, n)) \notin {0, SeqAt(fr, n) - 4}}

Ploss(fr, prev, g) == prev = SeqAt(fr, LastAfter(fr, Udp)) /\ g = Gaps(fr)

LEMMA SeqType ==
    ASSUME NEW fr \in Seq(Frames), NEW n \in WhereIn(fr, Udp) \cup {0}
    PROVE  SeqAt(fr, n) \in Nat
<1>1. \A g \in Udp : g.seq \in Nat
    BY FrameAssumption DEF Udp
<1>2. n # 0 => fr[n] \in Udp
    BY DEF WhereIn
<1>3. QED
    BY <1>1, <1>2 DEF SeqAt

LEMMA BeforeIn ==
    ASSUME NEW fr \in Seq(Frames), NEW n
    PROVE  Before(fr, n) \in WhereIn(fr, Udp) \cup {0}
<1>1. Earlier(fr, n) \subseteq WhereIn(fr, Udp)
    BY DEF Earlier
<1>2. Earlier(fr, n) \subseteq 1 .. Len(fr) /\ Len(fr) \in Nat
    BY <1>1, WhereType, LenProperties
<1>3. Before(fr, n) \in Earlier(fr, n) \cup {0}
    BY <1>2, MaxOfSome DEF Before
<1>4. QED
    BY <1>1, <1>3

LEMMA PlossInit == Ploss(<<>>, 0, {})
<1>1. WhereIn(<<>>, Udp) = {}
    BY WhereEmpty
<1>2. LastAfter(<<>>, Udp) = 0
    BY <1>1, MaxIs DEF LastAfter
<1>3. QED
    BY <1>1, <1>2 DEF Ploss, Gaps, SeqAt

LEMMA PlossStep ==
    ASSUME frames \in Seq(Frames), NEW f \in Frames, Ploss(frames, prev_seq, gaps),
           PlossPacket(f)
    PROVE  Ploss(Append(frames, f), prev_seq', gaps')
<1> DEFINE fr == frames
           fs == Append(fr, f)
           W == WhereIn(fr, Udp)
           V == WhereIn(fs, Udp)
           k == Len(fr) + 1
<1>1. \A n \in W \cup {0} : SeqAt(fs, n) = SeqAt(fr, n)
    BY WhereAppend DEF WhereIn, SeqAt
<1>2. W \subseteq 1 .. Len(fr) /\ Len(fr) \in Nat /\ k \in Nat /\ k # 0
    BY WhereType, LenProperties
<1>3. ~(k < k) /\ \A n \in W : n < k /\ ~(k < n)
    BY <1>2
<1>4. LastAfter(fr, Udp) \in W \cup {0} /\ \A n : Before(fr, n) \in W \cup {0}
    BY LastIn, BeforeIn
<1>5. LastAfter(fs, Udp) = IF f \in Udp THEN k ELSE LastAfter(fr, Udp)
    BY LastAppend
<1>6. prev_seq = SeqAt(fr, LastAfter(fr, Udp)) /\ gaps = Gaps(fr) /\ prev_seq \in Nat
    BY <1>4, SeqType DEF Ploss
<1>7. CASE f \notin Udp
    <2>1. V = W
        BY <1>7, WhereAppend
    <2>2. prev_seq' = prev_seq /\ gaps' = gaps
        BY <1>7 DEF PlossPacket, Udp
    <2>3. \A n : Before(fs, n) = Before(fr, n)
        BY <2>1 DEF Before, Earlier
    <2>4. Gaps(fs) = Gaps(fr)
        BY <1>1, <1>4, <2>1, <2>3 DEF Gaps
    <2>5. QED
        BY <1>1, <1>4, <1>5, <1>6, <1>7, <2>2, <2>4 DEF Ploss
<1>8. CASE f \in Udp
    <2>1. V = W \cup {k} /\ fs[k] = f
        BY <1>8, WhereAppend
    <2>2. /\ prev_seq' = f.seq
          /\ gaps' = gaps \cup {n \in {k} : prev_seq # 0 /\ f.seq - prev_seq # 4}
        BY <1>8 DEF PlossPacket, Udp, PrevSeq
    <2>3. SeqAt(fs, k) = f.seq /\ f.seq \in Nat
        BY <1>2, <2>1, FrameAssumption DEF SeqAt
    <2> HIDE DEF fs, W, V, k
    <2>4. \A n \in W : Before(fs, n) = Before(fr, n)
        <3> TAKE n \in W
        <3>1. {m \in V : m < n} = {m \in W : m < n}
            BY <1>3, <2>1
        <3>2. QED
            BY <3>1 DEF Before, Earlier, V, W
    <2>5. Before(fs, k) = LastAfter(fr, Udp)
        <3>1. {m \in V : m < k} = W
            BY <1>3, <2>1
        <3>2. QED
            BY <3>1 DEF Before, Earlier, LastAfter, V, W
    <2>6. SeqAt(fs, Before(fs, k)) = prev_seq
        BY <1>1, <1>4, <1>6, <2>5
    <2>7. SeqAt(fs, Before(fs, k)) \notin {0, SeqAt(fs, k) - 4}
              <=> prev_seq # 0 /\ f.seq - prev_seq # 4
        BY <1>6, <2>3, <2>6
    <2>8. \A n \in W : /\ SeqAt(fs, Before(fs, n)) = SeqAt(fr, Before(fr, n))
                       /\ SeqAt(fs, n) = SeqAt(fr, n)
        BY <1>1, <1>4, <2>4
    <2>9. Gaps(fr) = {n \in W : SeqAt(fr, Before(fr, n)) \notin {0, SeqAt(fr, n) - 4}}
        BY DEF Gaps, W
    <2>10. Gaps(fs) = {n \in V : SeqAt(fs, Before(fs, n)) \notin {0, SeqAt(fs, n) - 4}}
        BY DEF Gaps, V
    <2>11. Gaps(fs) = gaps'
        <3> DEFINE old(n) == SeqAt(fr, Before(fr, n)) \notin {0, SeqAt(fr, n) - 4}
                   new(n) == SeqAt(fs, Before(fs, n)) \notin {0, SeqAt(fs, n) - 4}
        <3>1. \A n \in W : new(n) <=> old(n)
            BY <2>8
        <3>2. new(k) <=> prev_seq # 0 /\ f.seq - prev_seq # 4
            BY <2>7
        <3>3. Gaps(fr) = {n \in W : old(n)} /\ Gaps(fs) = {n \in V : new(n)}
            BY <2>9, <2>10
        <3> HIDE DEF old, new
        <3>4. {n \in V : new(n)} = {n \in W : old(n)} \cup {n \in {k} : new(k)}
            BY <2>1, <3>1
        <3>5. QED
            BY <1>6, <2>2, <3>2, <3>3, <3>4
    <2>12. LastAfter(fs, Udp) = k
        BY <1>5, <1>8
    <2>13. Ploss(fs, prev_seq', gaps')
        BY <2>2, <2>3, <2>11, <2>12 DEF Ploss
    <2>14. QED
        BY <2>13 DEF fs
<1>9. QED
    BY <1>7, <1>8

-----------------------------------------------------------------------------
(***************************************************************************)
(* The listings.  While the file is read nothing is written; what has been *)
(* written could be, and a listing has ended for a reason that still       *)
(* stands, as the tables no longer change.                                 *)
(***************************************************************************)
Listed ==
    /\ rows = [l \in Listings |-> rows[l]]
    /\ draw \in [Listings -> {"rows", "done", "error"}]
    /\ \A l \in Listings :
        /\ pc = "read" => draw[l] = "rows" /\ rows[l] = {}
        /\ rows[l] \subseteq {k \in Keys(l) : IsPrintable(k)}
        /\ draw[l] = "done" => rows[l] = Keys(l)
        /\ draw[l] = "error" => \E k \in Keys(l) : ~IsPrintable(k)

LEMMA ListedInit == Init => Listed
BY DEF Init, Listed

LEMMA ListedNext == Listed /\ [Next]_vars => Listed'
<1> SUFFICES ASSUME Listed, [Next]_vars PROVE Listed'
    OBVIOUS
<1>1. ASSUME NEW f \in Frames, Packet(f) PROVE Listed'
    <2>1. pc = "read" /\ pc' = pc /\ draw' = draw /\ rows' = rows
        BY <1>1 DEF Packet
    <2>2. \A l \in Listings : draw'[l] = "rows" /\ rows'[l] = {}
        BY <2>1 DEF Listed
    <2>3. rows' = [l \in Listings |-> rows'[l]] /\ draw' \in [Listings -> {"rows", "done", "error"}]
        BY <2>1 DEF Listed
    <2>4. QED
        BY <2>2, <2>3 DEF Listed
<1>2. ASSUME UNCHANGED <<ap_t, ap_sta_t>>
      PROVE  (\A l : Keys(l)' = Keys(l)) /\ \A k : IsPrintable(k)' <=> IsPrintable(k)
    BY <1>2 DEF Keys, IsPrintable
<1>3. ASSUME EndOfFile PROVE Listed'
    <2>1. pc' = "draw" /\ UNCHANGED <<ap_t, ap_sta_t>> /\ draw' = draw /\ rows' = rows
        BY <1>3 DEF EndOfFile, tables
    <2>2. QED
        BY <1>2, <2>1 DEF Listed
<1>4. ASSUME NEW l \in Listings, NEW k \in Keys(l), Row(l, k) PROVE Listed'
    <2>1. /\ pc = "draw" /\ pc' = pc /\ draw[l] = "rows" /\ k \notin rows[l]
          /\ UNCHANGED <<ap_t, ap_sta_t>>
        BY <1>4 DEF Row, tables
    <2>2. CASE IsPrintable(k)
        <3>1. rows' = [rows EXCEPT ![l] = @ \cup {k}] /\ draw' = draw
            BY <1>4, <2>2 DEF Row
        <3>2. /\ rows' = [m \in Listings |-> rows'[m]]
              /\ rows'[l] = rows[l] \cup {k}
              /\ \A m \in Listings : m # l => rows'[m] = rows[m]
            BY <3>1 DEF Listed
        <3>3. QED
            BY <1>2, <2>1, <2>2, <3>1, <3>2 DEF Listed
    <2>3. CASE ~IsPrintable(k)
        <3>1. draw' = [draw EXCEPT ![l] = "error"] /\ rows' = rows
            BY <1>4, <2>3 DEF Row
        <3>2. /\ draw' \in [Listings -> {"rows", "done", "error"}]
              /\ draw'[l] = "error"
              /\ \A m \in Listings : m # l => draw'[m] = draw[m]
            BY <3>1 DEF Listed
        <3>3. QED
            BY <1>2, <2>1, <2>3, <3>1, <3>2 DEF Listed
    <2>4. QED
        BY <2>2, <2>3
<1>5. ASSUME NEW l \in Listings, DrawEnds(l) PROVE Listed'
    <2>1. /\ pc = "draw" /\ pc' = pc /\ rows[l] = Keys(l) /\ rows' = rows
          /\ draw' = [draw EXCEPT ![l] = "done"]
          /\ UNCHANGED <<ap_t, ap_sta_t>>
        BY <1>5 DEF DrawEnds, tables
    <2>2. /\ draw' \in [Listings -> {"rows", "done", "error"}]
          /\ draw'[l] = "done"
          /\ \A m \in Listings : m # l => draw'[m] = draw[m]
        BY <2>1 DEF Listed
    <2>3. QED
        BY <1>2, <2>1, <2>2 DEF Listed
<1>6. CASE UNCHANGED vars
    <2>1. pc' = pc /\ UNCHANGED <<ap_t, ap_sta_t>> /\ draw' = draw /\ rows' = rows
        BY <1>6 DEF vars, tables
    <2>2. QED
        BY <1>2, <2>1 DEF Listed
<1>7. QED
    BY <1>1, <1>3, <1>4, <1>5, <1>6 DEF Next

-----------------------------------------------------------------------------
(***************************************************************************)
(* The inductive invariant: every table and every variable is what it says *)
(* of the file read so far.                                                *)
(***************************************************************************)
IInv ==
    /\ pc \in {"read", "draw"}
    /\ frames \in Seq(Frames)
    /\ ApTable(frames, ap_t)
    /\ StaTable(frames, ap_sta_t)
    /\ StatTable(frames, stats)
    /\ NavTimes(frames, time_total, time_last)
    /\ Ploss(frames, prev_seq, gaps)
    /\ Listed

LEMMA StatTableInit ==
    StatTable(<<>>, [s \in DOMAIN Filter |-> [max |-> -100, min |-> 100, sum |-> 0, count |-> 0]])
<1> DEFINE e == [max |-> -100, min |-> 100, sum |-> 0, count |-> 0]
           t == [s \in DOMAIN Filter |-> e]
<1>1. \A s \in DOMAIN Filter : t[s] = e
    OBVIOUS
<1>2. \A s : WhereIn(<<>>, Measured(s)) = {}
    BY WhereEmpty
<1>3. \A v : Stat({}, v, e)
    BY StatNone
<1>4. t = [s \in DOMAIN Filter |-> t[s]]
    OBVIOUS
<1> HIDE DEF t, e
<1>5. StatTable(<<>>, t)
    BY <1>1, <1>2, <1>3, <1>4 DEF StatTable
<1>6. QED
    BY <1>5 DEF t, e

LEMMA IInvInit == Init => IInv
<1> SUFFICES ASSUME Init PROVE IInv
    OBVIOUS
<1>1. frames = <<>> /\ pc = "read" /\ frames \in Seq(Frames)
    BY EmptySeq DEF Init
<1>2. ApTable(frames, ap_t) /\ StaTable(frames, ap_sta_t)
    BY ApTableInit, StaTableInit DEF Init
<1>3. StatTable(frames, stats)
    BY StatTableInit DEF Init
<1>4. NavTimes(frames, time_total, time_last) /\ Ploss(frames, prev_seq, gaps)
    BY NavInit, PlossInit DEF Init
<1>5. QED
    BY <1>1, <1>2, <1>3, <1>4, ListedInit DEF IInv

LEMMA IInvNext == IInv /\ [Next]_vars => IInv'
<1> SUFFICES ASSUME IInv, [Next]_vars PROVE IInv'
    OBVIOUS
<1>1. Listed'
    BY ListedNext DEF IInv
<1>2. ASSUME NEW f \in Frames, Packet(f) PROVE IInv'
    <2>1. frames' = Append(frames, f) /\ pc' = pc /\ frames \in Seq(Frames)
        BY <1>2 DEF Packet, IInv
    <2>2. frames' \in Seq(Frames)
        BY <2>1, WhereAppend
    <2>3. ApPacket(f) /\ StaPacket(f) /\ StatsPacket(f) /\ NavPacket(f) /\ PlossPacket(f)
        BY <1>2 DEF Packet
    <2>4. ApTable(frames', ap_t') /\ StaTable(frames', ap_sta_t')
        BY <2>1, <2>3, ApTableStep, StaTableStep DEF IInv
    <2>5. StatTable(frames', stats')
        BY <2>1, <2>3, StatTableStep DEF IInv
    <2>6. NavTimes(frames', time_total', time_last')
        BY <2>1, <2>3, NavStep DEF IInv
    <2>7. Ploss(frames', prev_seq', gaps')
        BY <2>1, <2>3, PlossStep DEF IInv
    <2>8. QED
        BY <1>1, <2>1, <2>2, <2>4, <2>5, <2>6, <2>7 DEF IInv
<1>3. ASSUME UNCHANGED <<tables, frames>>, pc' \in {"read", "draw"} PROVE IInv'
    BY <1>1, <1>3 DEF IInv, tables
<1>4. CASE EndOfFile
    BY <1>3, <1>4 DEF EndOfFile
<1>5. ASSUME NEW l \in Listings, DrawEnds(l) PROVE IInv'
    BY <1>3, <1>5 DEF DrawEnds
<1>6. ASSUME NEW l \in Listings, NEW k \in Keys(l), Row(l, k) PROVE IInv'
    BY <1>3, <1>6 DEF Row
<1>7. CASE UNCHANGED vars
    BY <1>3, <1>7 DEF vars, IInv
<1>8. QED
    BY <1>2, <1>4, <1>5, <1>6, <1>7 DEF Next

LEMMA AlwaysIInv == Spec => []IInv
BY IInvInit, IInvNext, PTL DEF Spec

-----------------------------------------------------------------------------
(***************************************************************************)
(* The properties are said with Number, Are and the sums of the community  *)
(* modules; these are the sets and the sums of above.                      *)
(***************************************************************************)
LEMMA FramesIn ==
    ASSUME frames \in Seq(Frames)
    PROVE  \A n \in Number : n \in Nat /\ frames[n] \in Frames
BY LenProperties, ElementOfSeq DEF Number

LEMMA BeaconsAre ==
    ASSUME frames \in Seq(Frames), NEW a
    PROVE  Beacons(a) = WhereIn(frames, BeaconsOf(a))
BY FramesIn DEF Beacons, Are, WhereIn, BeaconsOf, Number

LEMMA ExchangedAre ==
    ASSUME frames \in Seq(Frames), NEW a, NEW s
    PROVE  Exchanged(a, s) = WhereIn(frames, Between(<<a, s>>))
<1> DEFINE k == <<a, s>>
<1>1. k[1] = a /\ k[2] = s
    OBVIOUS
<1>2. ASSUME NEW f \in Frames
      PROVE  f \in Between(k) <=>
                 f.ap = a /\ f.sta = s /\ (f.kind = "toDS" \/ (f.kind = "fromDS" /\ Everybody \notin {a, s}))
    BY <1>1 DEF Between, IsToEverybody
<1> HIDE DEF k
<1> DEFINE P(f) == f.ap = a /\ f.sta = s /\ (f.kind = "toDS" \/ (f.kind = "fromDS" /\ Everybody \notin {a, s}))
<1>3. Exchanged(a, s) = {n \in Number : P(frames[n])}
    BY DEF Exchanged, Are
<1>4. \A n \in Number : P(frames[n]) <=> frames[n] \in Between(k)
    BY <1>2, FramesIn
<1> HIDE DEF P
<1>5. Exchanged(a, s) = WhereIn(frames, Between(k))
    BY <1>3, <1>4 DEF WhereIn, Number
<1>6. QED
    BY <1>5 DEF k

\* MapThenSumSet takes away one element after the other, as Total does.
LEMMA RssiSum ==
    ASSUME NEW fr, NEW S, IsFiniteSet(S), NEW v \in [S -> Int], \A n \in S : v[n] = fr[n].rssi
    PROVE  MapThenSumSet(LAMBDA n : fr[n].rssi, S) = Total(v, S)
<1> DEFINE F(g) == [s \in SUBSET S |->
                       IF s = {} THEN 0
                       ELSE fr[CHOOSE x \in s : TRUE].rssi + g[s \ {CHOOSE x \in s : TRUE}]]
           c == CHOOSE g : g = F(g)
<1>1. MapThenSumSet(LAMBDA n : fr[n].rssi, S) = c[S]
    BY DEF MapThenSumSet, MapThenFoldSet
<1>2. ASSUME NEW g PROVE F(g) = SumStep(g, v, S)
    <2>1. \A s \in SUBSET S : s # {} => v[Some(s)] = fr[CHOOSE x \in s : TRUE].rssi
        <3>1. \A s \in SUBSET S : s # {} => v[Some(s)] = fr[Some(s)].rssi
            BY SomeIn
        <3>2. QED
            BY <3>1 DEF Some
    <2>2. F(g) = [s \in SUBSET S |->
                    IF s = {} THEN 0 ELSE v[Some(s)] + g[s \ {CHOOSE x \in s : TRUE}]]
        BY <2>1
    <2>3. QED
        BY <2>2 DEF SumStep, Some
<1>3. PICK g : g = SumStep(g, v, S)
    BY SumExists
<1>4. g = F(g)
    BY <1>2, <1>3
<1>5. c = F(c)
    <2> HIDE DEF F
    <2>1. QED
        BY <1>4
<1> HIDE DEF c, F
<1>6. IsSum(c, v, S)
    BY <1>2, <1>5, SumStepIsSum
<1>7. PICK h : IsSum(h, v, S) /\ Total(v, S) = h[S]
    BY TotalIs
<1>8. S \subseteq S /\ S \in SUBSET S
    OBVIOUS
<1>9. c[S] = h[S]
    BY <1>6, <1>7, <1>8, SumSame
<1>10. QED
    BY <1>1, <1>7, <1>9

LEMMA AirSum ==
    ASSUME NEW fr, NEW S, IsFiniteSet(S), NEW v \in [S -> Int], \A n \in S : v[n] = fr[n].air
    PROVE  MapThenSumSet(LAMBDA n : fr[n].air, S) = Total(v, S)
<1> DEFINE F(g) == [s \in SUBSET S |->
                       IF s = {} THEN 0
                       ELSE fr[CHOOSE x \in s : TRUE].air + g[s \ {CHOOSE x \in s : TRUE}]]
           c == CHOOSE g : g = F(g)
<1>1. MapThenSumSet(LAMBDA n : fr[n].air, S) = c[S]
    BY DEF MapThenSumSet, MapThenFoldSet
<1>2. ASSUME NEW g PROVE F(g) = SumStep(g, v, S)
    <2>1. \A s \in SUBSET S : s # {} => v[Some(s)] = fr[CHOOSE x \in s : TRUE].air
        <3>1. \A s \in SUBSET S : s # {} => v[Some(s)] = fr[Some(s)].air
            BY SomeIn
        <3>2. QED
            BY <3>1 DEF Some
    <2>2. F(g) = [s \in SUBSET S |->
                    IF s = {} THEN 0 ELSE v[Some(s)] + g[s \ {CHOOSE x \in s : TRUE}]]
        BY <2>1
    <2>3. QED
        BY <2>2 DEF SumStep, Some
<1>3. PICK g : g = SumStep(g, v, S)
    BY SumExists
<1>4. g = F(g)
    BY <1>2, <1>3
<1>5. c = F(c)
    <2> HIDE DEF F
    <2>1. QED
        BY <1>4
<1> HIDE DEF c, F
<1>6. IsSum(c, v, S)
    BY <1>2, <1>5, SumStepIsSum
<1>7. PICK h : IsSum(h, v, S) /\ Total(v, S) = h[S]
    BY TotalIs
<1>8. S \subseteq S /\ S \in SUBSET S
    OBVIOUS
<1>9. c[S] = h[S]
    BY <1>6, <1>7, <1>8, SumSame
<1>10. QED
    BY <1>1, <1>7, <1>9

-----------------------------------------------------------------------------
(* The theorems.                                                           *)

LEMMA ChannelType == \A freq : get_channel(freq) \in 1 .. 13 \cup {None}
<1> TAKE freq
<1>1. CASE freq \in {2412 + 5 * k : k \in 0 .. 12}
    <2>1. PICK k \in 0 .. 12 : freq = 2412 + 5 * k
        BY <1>1
    <2>2. (freq - 2407) \div 5 = k + 1
        BY <2>1
    <2>3. QED
        BY <1>1, <2>1, <2>2 DEF get_channel
<1>2. CASE freq \notin {2412 + 5 * k : k \in 0 .. 12}
    BY <1>2 DEF get_channel
<1>3. QED
    BY <1>1, <1>2

(***************************************************************************)
(* Types, for files of any length.                                         *)
(***************************************************************************)
THEOREM WlanTypes == Spec => []TypeOK
<1>1. ASSUME IInv PROVE TypeOK
    <2>1. pc \in {"read", "draw"} /\ frames \in Seq(Frames)
        BY <1>1 DEF IInv
    <2>2. \A k \in DOMAIN ap_t : ap_t[k].count \in Nat /\ ap_t[k].channel \in 1 .. 13 \cup {None}
        <3>1. ApTable(frames, ap_t)
            BY <1>1 DEF IInv
        <3> TAKE k \in DOMAIN ap_t
        <3>2. ap_t[k] = [count |-> Cardinality(WhereIn(frames, BeaconsOf(k))),
                         channel |-> get_channel(FirstIn(frames, BeaconsOf(k)).channel)]
            BY <3>1 DEF ApTable
        <3>3. QED
            BY <2>1, <3>2, WhereType, ChannelType
    <2>3. \A k \in DOMAIN ap_sta_t : ap_sta_t[k].count \in Nat /\ Len(ap_sta_t[k].rssi) < 2
        <3>1. StaTable(frames, ap_sta_t)
            BY <1>1 DEF IInv
        <3> TAKE k \in DOMAIN ap_sta_t
        <3>2. ap_sta_t[k] = [rssi |-> SignalIn(frames, k),
                             count |-> Cardinality(WhereIn(frames, Between(k)))]
            BY <3>1 DEF StaTable
        <3>3. Len(SignalIn(frames, k)) < 2
            BY DEF SignalIn
        <3>4. QED
            BY <2>1, <3>2, <3>3, WhereType
    <2>4. \A s \in DOMAIN stats : stats[s] \in [max : Int, min : Int, sum : Int, count : Nat]
        <3>1. StatTable(frames, stats)
            BY <1>1 DEF IInv
        <3>2. DOMAIN stats = DOMAIN Filter
            BY <3>1 DEF StatTable
        <3>3. QED
            BY <3>1, <3>2 DEF StatTable, Stat, Stats
    <2>5. time_total \in Nat /\ time_last \in 0 .. Len(frames)
        BY <1>1, <2>1, LastIn DEF IInv, NavTimes
    <2>6. prev_seq \in Nat
        BY <1>1, <2>1, LastIn, SeqType DEF IInv, Ploss
    <2>7. gaps \subseteq Number
        BY <1>1 DEF IInv, Ploss, Gaps, WhereIn, Number
    <2>8. draw \in [Listings -> {"rows", "done", "error"}] /\ \A l \in Listings : rows[l] \subseteq Keys(l)
        BY <1>1 DEF IInv, Listed
    <2>9. QED
        BY <2>1, <2>2, <2>3, <2>4, <2>5, <2>6, <2>7, <2>8 DEF TypeOK
<1>2. QED
    BY AlwaysIInv, <1>1, PTL

(***************************************************************************)
(* The two tables agree with the file: every access point is counted by    *)
(* its beacons, every station by what it exchanged with it alone           *)
(* (wlan_list_ap_sta.lua:31-44, 73-86, 117-138).                           *)
(***************************************************************************)
THEOREM TablesAlwaysMatch == Spec => []TablesMatch
<1>1. ASSUME IInv PROVE TablesMatch
    <2>1. frames \in Seq(Frames) /\ ApTable(frames, ap_t) /\ StaTable(frames, ap_sta_t)
        BY <1>1 DEF IInv
    <2>2. \A n \in Number : frames[n] \in Frames
        BY <2>1, FramesIn
    <2>3. DOMAIN ap_t = {f.ap : f \in {g \in Range(frames) : g.kind = "beacon"}}
        <3>1. ASSUME NEW a \in DOMAIN ap_t
              PROVE  \E f \in Range(frames) : f.kind = "beacon" /\ a = f.ap
            <4>1. WhereIn(frames, BeaconsOf(a)) # {}
                BY <2>1 DEF ApTable
            <4>2. PICK n \in DOMAIN frames : frames[n] \in BeaconsOf(a)
                BY <4>1 DEF WhereIn
            <4>3. frames[n].kind = "beacon" /\ frames[n].ap = a
                BY <4>2 DEF BeaconsOf
            <4>4. frames[n] \in Range(frames)
                BY <4>2 DEF Range
            <4>5. QED
                BY <4>3, <4>4
        <3>2. ASSUME NEW f \in Range(frames), f.kind = "beacon" PROVE f.ap \in DOMAIN ap_t
            <4>1. PICK n \in DOMAIN frames : frames[n] = f
                BY DEF Range
            <4>2. f \in Frames
                BY <2>2, <4>1 DEF Number
            <4>3. f.ap \in Macs /\ f \in BeaconsOf(f.ap)
                BY <3>2, <4>2 DEF Macs, BeaconsOf
            <4>4. n \in WhereIn(frames, BeaconsOf(f.ap))
                BY <4>1, <4>3 DEF WhereIn
            <4>5. QED
                BY <2>1, <4>3, <4>4 DEF ApTable
        <3>3. QED
            BY <3>1, <3>2
    <2>4. \A a \in DOMAIN ap_t : ap_t[a].count = Cardinality(Beacons(a))
        BY <2>1, BeaconsAre DEF ApTable
    <2>5. ASSUME NEW n \in Number, Exchanged(frames[n].ap, frames[n].sta) # {}
          PROVE  <<frames[n].ap, frames[n].sta>> \in DOMAIN ap_sta_t
        <3>1. PICK k \in Pairs : k = <<frames[n].ap, frames[n].sta>>
            BY <2>2 DEF Pairs
        <3>2. WhereIn(frames, Between(k)) # {}
            BY <2>1, <2>5, <3>1, ExchangedAre
        <3>3. QED
            BY <2>1, <3>1, <3>2 DEF StaTable
    <2>6. ASSUME NEW k \in DOMAIN ap_sta_t
          PROVE  ap_sta_t[k].count = Cardinality(Exchanged(k[1], k[2])) /\ ap_sta_t[k].count > 0
        <3>1. k \in Pairs /\ WhereIn(frames, Between(k)) # {}
            BY <2>1 DEF StaTable
        <3>2. k = <<k[1], k[2]>>
            BY <3>1 DEF Pairs
        <3>3. WhereIn(frames, Between(k)) = Exchanged(k[1], k[2])
            BY <2>1, <3>2, ExchangedAre
        <3>4. ap_sta_t[k].count = Cardinality(WhereIn(frames, Between(k)))
            BY <2>1 DEF StaTable
        <3>5. Cardinality(WhereIn(frames, Between(k))) > 0
            <4>1. /\ Cardinality(WhereIn(frames, Between(k))) \in Nat
                  /\ Cardinality(WhereIn(frames, Between(k))) # 0
                BY <2>1, <3>1, WhereType
            <4>2. QED
                BY <4>1
        <3>6. QED
            BY <3>3, <3>4, <3>5
    <2>7. QED
        BY <2>3, <2>4, <2>5, <2>6 DEF TablesMatch
<1>2. QED
    BY AlwaysIInv, <1>1, PTL

(***************************************************************************)
(* The signal of a station is that of the first frame it sent itself       *)
(* (wlan_list_ap_sta.lua:79, 84-86, 132).                                  *)
(***************************************************************************)
THEOREM AlwaysHeardRssi == Spec => []HeardRssi
<1>1. ASSUME IInv PROVE HeardRssi
    <2>1. frames \in Seq(Frames) /\ StaTable(frames, ap_sta_t)
        BY <1>1 DEF IInv
    <2>2. ASSUME NEW k \in DOMAIN ap_sta_t, NEW own,
                 own = Are(LAMBDA f : f.kind = "toDS" /\ f.ap = k[1] /\ f.sta = k[2])
          PROVE  ap_sta_t[k].rssi = IF own = {} THEN <<>> ELSE <<frames[Min(own)].rssi>>
        <3>1. own = WhereIn(frames, SentBy(k))
            BY <2>1, <2>2, FramesIn DEF Are, WhereIn, SentBy, Number
        <3>2. ap_sta_t[k].rssi = SignalIn(frames, k)
            BY <2>1 DEF StaTable
        <3>3. QED
            BY <3>1, <3>2 DEF SignalIn, FirstIn
    <2>3. QED
        BY <2>2 DEF HeardRssi
<1>2. QED
    BY AlwaysIInv, <1>1, PTL

LEMMA KnownChannel ==
    ASSUME NEW freq \in {2412, 2417, 2422, 2427, 2432, 2437, 2442,
                        2447, 2452, 2457, 2462, 2467, 2472}
    PROVE  get_channel(freq) # None
<1>1. freq \in {2412 + 5 * k : k \in 0 .. 12}
    <2>1. \A k \in 0 .. 12 : freq = 2412 + 5 * k => freq \in {2412 + 5 * j : j \in 0 .. 12}
        OBVIOUS
    <2>2. (freq - 2412) \div 5 \in 0 .. 12 /\ freq = 2412 + 5 * ((freq - 2412) \div 5)
        OBVIOUS
    <2>3. QED
        BY <2>1, <2>2
<1>2. PICK k \in 0 .. 12 : freq = 2412 + 5 * k
    BY <1>1
<1>3. (freq - 2407) \div 5 \in Int
    BY <1>2
<1>4. QED
    BY <1>1, <1>3, FrameAssumption DEF get_channel

(***************************************************************************)
(* A listing is written to its end if the first beacon of all it names was *)
(* on a known channel (wlan_list_ap_sta.lua:15-21, 33, 38, 52, 96).        *)
(***************************************************************************)
THEOREM ListingsAreComplete == Spec => []ListingsComplete
<1>1. ASSUME IInv PROVE ListingsComplete
    <2>1. frames \in Seq(Frames) /\ ApTable(frames, ap_t) /\ StaTable(frames, ap_sta_t) /\ Listed
        BY <1>1 DEF IInv
    <2>2. ASSUME NEW l \in Listings PROVE Keys(l) \subseteq Macs
        <3>1. DOMAIN ap_t \subseteq Macs /\ DOMAIN ap_sta_t \subseteq Pairs
            BY <2>1 DEF ApTable, StaTable
        <3>2. \A k \in Pairs : k[1] \in Macs
            BY DEF Pairs, Macs
        <3>3. QED
            BY <3>1, <3>2 DEF Keys
    <2>3. ASSUME NEW k \in Macs PROVE FirstBeaconIsKnown(k) => IsPrintable(k)
        <3>1. Beacons(k) = WhereIn(frames, BeaconsOf(k))
            BY <2>1, BeaconsAre
        <3>2. k \in DOMAIN ap_t <=> Beacons(k) # {}
            BY <2>1, <3>1 DEF ApTable
        <3>3. k \in DOMAIN ap_t =>
                  ap_t[k].channel = get_channel(frames[Min(Beacons(k))].channel)
            BY <2>1, <3>1 DEF ApTable, FirstIn
        <3>4. QED
            BY <3>2, <3>3, KnownChannel DEF IsPrintable, FirstBeaconIsKnown
    <2>4. \A l \in Listings : draw[l] = "error" => \E k \in Keys(l) : ~IsPrintable(k)
        BY <2>1 DEF Listed
    <2>5. QED
        BY <2>2, <2>3, <2>4 DEF ListingsComplete
<1>2. QED
    BY AlwaysIInv, <1>1, PTL

(***************************************************************************)
(* The minimum and maximum printed were measured and nothing measured lies *)
(* outside, unless all were beyond 100 or -100; count and sum are of the   *)
(* same frames (wlan_rssi.lua:37-44).                                      *)
(***************************************************************************)
THEOREM StatsAlwaysMatch == Spec => []StatsMatch
<1>1. ASSUME IInv PROVE StatsMatch
    <2>1. frames \in Seq(Frames) /\ StatTable(frames, stats)
        BY <1>1 DEF IInv
    <2>2. DOMAIN stats = DOMAIN Filter
        BY <2>1 DEF StatTable
    <2> SUFFICES ASSUME NEW s \in DOMAIN stats
                 PROVE  LET heard == Are(LAMBDA f : f \in Filter[s] /\ f.rssi # None)
                        IN  /\ stats[s].count = Cardinality(heard)
                            /\ stats[s].sum = MapThenSumSet(LAMBDA n : frames[n].rssi, heard)
                            /\ (\E x \in Values(s) : x <= 100) => stats[s].min = Min(Values(s))
                            /\ (\E x \in Values(s) : x >= -100) => stats[s].max = Max(Values(s))
        BY DEF StatsMatch
    <2>3. ASSUME NEW heard, NEW values,
                 heard = Are(LAMBDA f : f \in Filter[s] /\ f.rssi # None),
                 values = {frames[n].rssi : n \in heard}
          PROVE  /\ stats[s].count = Cardinality(heard)
                 /\ stats[s].sum = MapThenSumSet(LAMBDA n : frames[n].rssi, heard)
                 /\ (\E x \in values : x <= 100) => stats[s].min = Min(values)
                 /\ (\E x \in values : x >= -100) => stats[s].max = Max(values)
        <3> DEFINE v == RssiOf(frames, Measured(s))
                   e == stats[s]
        <3>1. heard = WhereIn(frames, Measured(s))
            BY <2>3 DEF Are, WhereIn, Measured, Number
        <3>2. Stat(heard, v, e)
            BY <2>1, <2>2, <3>1 DEF StatTable
        <3>3. v \in [heard -> Signals] /\ v \in [heard -> Int] /\ IsFiniteSet(heard)
            <4>1. v \in [heard -> Signals] /\ IsFiniteSet(heard)
                BY <2>1, <2>2, <3>1, RssiType, WhereType
            <4>2. Signals \subseteq Int
                BY DEF Signals
            <4>3. QED
                BY <4>1, <4>2
        <3>4. \A n \in heard : v[n] = frames[n].rssi
            BY <3>1 DEF RssiOf
        <3>5. MapThenSumSet(LAMBDA n : frames[n].rssi, heard) = Total(v, heard)
            BY <3>3, <3>4, RssiSum
        <3> HIDE DEF v, e
        <3>6. values = {v[n] : n \in heard}
            BY <2>3, <3>4
        <3>7. values \subseteq Int /\ e.min \in Int /\ e.max \in Int
            BY <3>2, <3>3, <3>6 DEF Stat, Stats
        <3>8. \A x \in values : e.min <= x /\ x <= e.max
            BY <3>2, <3>6 DEF Stat
        <3>9. ASSUME NEW x \in values, x <= 100 PROVE e.min = Min(values)
            <4>1. e.min <= 100 /\ (e.min = 100 \/ e.min \in values)
                BY <3>2, <3>6 DEF Stat
            <4>2. e.min \in values
                BY <3>7, <3>8, <3>9, <4>1
            <4>3. QED
                BY <3>7, <3>8, <4>2, MinIs
        <3>10. ASSUME NEW x \in values, x >= -100 PROVE e.max = Max(values)
            <4>1. -100 <= e.max /\ (e.max = -100 \/ e.max \in values)
                BY <3>2, <3>6 DEF Stat
            <4>2. e.max \in values
                BY <3>7, <3>8, <3>10, <4>1
            <4>3. QED
                BY <3>7, <3>8, <4>2, MaxIs
        <3>11. e.count = Cardinality(heard) /\ e.sum = Total(v, heard)
            BY <3>2 DEF Stat
        <3>12. QED
            BY <3>5, <3>9, <3>10, <3>11 DEF e
    <2>4. QED
        BY <2>3 DEF Values
<1>2. QED
    BY AlwaysIInv, <1>1, PTL

(***************************************************************************)
(* Each frame of the air is counted by exactly one of the three listeners, *)
(* and the time divided by is that of the last frame that was no ack       *)
(* (wlan_nav.lua:59, 85, 102).                                             *)
(***************************************************************************)
THEOREM AirTimeAlwaysAddsUp == Spec => []AirTimeAddsUp
<1>1. ASSUME IInv PROVE AirTimeAddsUp
    <2>1. frames \in Seq(Frames) /\ NavTimes(frames, time_total, time_last)
        BY <1>1 DEF IInv
    <2>2. ASSUME NEW acks, NEW timed, NEW again,
                 acks = Are(LAMBDA f : f.kind = "ack"),
                 timed = Are(LAMBDA f : f.kind \notin {"ack", "udp"} /\ f.air # None),
                 again = Are(LAMBDA f : f.retry) \cap timed
          PROVE  /\ time_total = MapThenSumSet(LAMBDA n : frames[n].air, timed)
                                     + 68 * Cardinality(timed) + 68 * Cardinality(again)
                                     + 50 * Cardinality(acks)
                 /\ time_last = Max(timed \cup {0})
        <3>1. \A n \in Number : frames[n] \in Frames
            BY <2>1, FramesIn
        <3>2. acks = WhereIn(frames, Acks)
            BY <2>2, <3>1 DEF Are, WhereIn, Acks, Number
        <3>3. timed = WhereIn(frames, Timed)
            BY <2>2, <3>1 DEF Are, WhereIn, Timed, Number
        <3>4. again = WhereIn(frames, Again)
            <4>1. again = {n \in timed : frames[n].retry}
                BY <2>2 DEF Are
            <4>2. QED
                BY <3>3, <4>1 DEF WhereIn, Again
        <3> DEFINE v == AirOf(frames)
        <3>5. v \in [timed -> Int] /\ IsFiniteSet(timed)
            <4>1. v \in [timed -> Nat] /\ IsFiniteSet(timed)
                BY <2>1, <3>3, AirType, WhereType
            <4>2. QED
                BY <4>1
        <3>6. \A n \in timed : v[n] = frames[n].air
            BY <3>3 DEF AirOf
        <3>7. MapThenSumSet(LAMBDA n : frames[n].air, timed) = Total(v, timed)
            BY <3>5, <3>6, AirSum
        <3>8. time_total = Total(v, timed) + 68 * Cardinality(timed) + 68 * Cardinality(again)
                               + 50 * Cardinality(acks)
            BY <2>1, <3>2, <3>3, <3>4 DEF NavTimes, Count
        <3>9. time_last = Max(timed \cup {0})
            BY <2>1, <3>3 DEF NavTimes, LastAfter
        <3>10. QED
            BY <3>7, <3>8, <3>9
    <2>3. QED
        BY <2>2 DEF AirTimeAddsUp
<1>2. QED
    BY AlwaysIInv, <1>1, PTL

(***************************************************************************)
(* A gap is reported at the frame that follows it, and only there, but for *)
(* a frame after one numbered 0 (iperf_udp_ploss.lua:38-52).               *)
(***************************************************************************)
THEOREM GapsAlwaysReported == Spec => []GapsReported
<1>1. ASSUME IInv PROVE GapsReported
    <2>1. frames \in Seq(Frames) /\ Ploss(frames, prev_seq, gaps)
        BY <1>1 DEF IInv
    <2>2. ASSUME NEW udp, udp = Are(LAMBDA f : f.kind = "udp")
          PROVE  gaps = {n \in udp : LET before == {m \in udp : m < n}
                                     IN  /\ before # {}
                                         /\ frames[Max(before)].seq \notin {0, frames[n].seq - 4}}
        <3>1. udp = WhereIn(frames, Udp) /\ udp \subseteq 1 .. Len(frames) /\ Len(frames) \in Nat
            <4>1. udp = WhereIn(frames, Udp)
                BY <2>1, <2>2, FramesIn DEF Are, WhereIn, Udp, Number
            <4>2. QED
                BY <2>1, <4>1, WhereType, LenProperties
        <3>2. ASSUME NEW n \in udp, NEW before, before = {m \in udp : m < n}
              PROVE  SeqAt(frames, Before(frames, n)) \notin {0, SeqAt(frames, n) - 4}
                         <=> before # {} /\ frames[Max(before)].seq \notin {0, frames[n].seq - 4}
            <4>1. before = Earlier(frames, n)
                BY <3>1, <3>2 DEF Earlier
            <4>2. SeqAt(frames, n) = frames[n].seq
                <5>1. n # 0
                    BY <3>1
                <5>2. QED
                    BY <5>1 DEF SeqAt
            <4>3. CASE before = {}
                <5>1. Before(frames, n) = 0
                    BY <4>1, <4>3, MaxIs DEF Before
                <5>2. QED
                    BY <4>3, <5>1 DEF SeqAt
            <4>4. CASE before # {}
                <5>1. PICK x : x \in before
                    BY <4>4
                <5>2. before \subseteq 1 .. Len(frames) /\ before \subseteq Int /\ before \subseteq udp
                    BY <3>1, <3>2
                <5>3. PICK m : m = Max(before \cup {0})
                    OBVIOUS
                <5>4. m \in before \cup {0} /\ \A k \in before : k <= m
                    BY <3>1, <5>2, <5>3, MaxOfSome
                <5>5. m # 0 /\ m \in before
                    <6>1. x <= m /\ x \in 1 .. Len(frames)
                        BY <5>1, <5>2, <5>4
                    <6>2. m # 0
                        BY <3>1, <6>1
                    <6>3. QED
                        BY <5>4, <6>2
                <5>6. Max(before) = m
                    BY <5>2, <5>4, <5>5, MaxIs
                <5>7. SeqAt(frames, Before(frames, n)) = frames[m].seq
                    BY <4>1, <5>3, <5>5 DEF Before, SeqAt
                <5>8. QED
                    BY <4>2, <4>4, <5>6, <5>7
            <4>5. QED
                BY <4>3, <4>4
        <3>3. gaps = {n \in udp : SeqAt(frames, Before(frames, n)) \notin {0, SeqAt(frames, n) - 4}}
            BY <2>1, <3>1 DEF Ploss, Gaps
        <3>4. QED
            BY <3>2, <3>3
    <2>3. QED
        BY <2>2 DEF GapsReported
<1>2. QED
    BY AlwaysIInv, <1>1, PTL
=============================================================================
