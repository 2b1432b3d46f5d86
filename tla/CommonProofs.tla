---------------------------- MODULE CommonProofs ----------------------------
(***************************************************************************)
(* Lemmas that the proofs about several modules share: how a send and a    *)
(* receive change what stands in a channel, and induction and recursion    *)
(* over numbers and finite sets.  These are stated of sets and functions,  *)
(* so that a proof cites them with the set of the numbers that have a      *)
(* property where others instantiate an operator.                          *)
(***************************************************************************)
EXTENDS Channels, Integers, SequencesExt, SequenceTheorems, FiniteSetTheorems,
        WellFoundedInduction, TLAPS

-----------------------------------------------------------------------------
(* Channels.                                                                *)

LEMMA PlacesFinite ==
    ASSUME NEW S, NEW q \in Seq(S), NEW x
    PROVE  IsFiniteSet(Places(q, x)) /\ Cardinality(Places(q, x)) \in Nat
<1>1. IsFiniteSet(1 .. Len(q))
  BY FS_Interval
<1>2. IsFiniteSet(Places(q, x))
  BY <1>1, FS_Subset DEF Places
<1> QED
  BY <1>2, FS_CardinalityType

LEMMA QueuedNat ==
    ASSUME NEW S, NEW q \in Seq(S), NEW x
    PROVE  Queued(q, x) \in Nat
BY PlacesFinite DEF Queued

LEMMA QueuedEmpty ==
    ASSUME NEW x
    PROVE  Queued(<<>>, x) = 0
<1>1. Places(<<>>, x) = {}
  BY DEF Places
<1> QED
  BY <1>1, FS_EmptySet DEF Queued

LEMMA QueuedAppend ==
    ASSUME NEW S, NEW q \in Seq(S), NEW y \in S, NEW x
    PROVE  Queued(Append(q, y), x) = Queued(q, x) + Count(y = x)
<1>1. Places(Append(q, y), x) =
        IF y = x THEN Places(q, x) \cup {Len(q) + 1} ELSE Places(q, x)
  BY DEF Places
<1>2. Len(q) + 1 \notin Places(q, x)
  BY DEF Places
<1>3. Cardinality(Places(q, x) \cup {Len(q) + 1}) = Cardinality(Places(q, x)) + 1
  BY <1>2, PlacesFinite, FS_AddElement
<1> QED
  BY <1>1, <1>3, PlacesFinite DEF Count, Queued

LEMMA QueuedTail ==
    ASSUME NEW S, NEW q \in Seq(S), q # <<>>, NEW x
    PROVE  Queued(q, x) = Queued(Tail(q), x) + Count(Head(q) = x)
<1> DEFINE f == [i \in Places(Tail(q), x) |-> i + 1]
<1>1. Tail(q) \in Seq(S) /\ Len(Tail(q)) = Len(q) - 1 /\ Len(q) \in Nat \ {0}
  OBVIOUS
<1>2. Cardinality(Places(q, x) \ {1}) = Cardinality(Places(Tail(q), x))
  <2>1. \A i \in Places(Tail(q), x) : i + 1 \in Places(q, x) \ {1}
    BY <1>1 DEF Places
  <2>2. \A j \in Places(q, x) \ {1} : j - 1 \in Places(Tail(q), x) /\ f[j - 1] = j
    BY <1>1 DEF Places
  <2>3. f \in Bijection(Places(Tail(q), x), Places(q, x) \ {1})
    <3>1. \A i, j \in Places(Tail(q), x) : f[i] = f[j] => i = j
      BY DEF Places
    <3>2. f \in [Places(Tail(q), x) -> Places(q, x) \ {1}]
      BY <2>1
    <3> QED
      BY <2>2, <3>1, <3>2 DEF Bijection, Injection, Surjection, IsInjective
  <2>4. ExistsBijection(Places(Tail(q), x), Places(q, x) \ {1})
    BY <2>3 DEF ExistsBijection
  <2>5. IsFiniteSet(Places(Tail(q), x))
    BY <1>1, PlacesFinite
  <2> HIDE DEF f
  <2> QED
    BY <2>4, <2>5, FS_Bijection
<1>3. 1 \in Places(q, x) <=> Head(q) = x
  BY <1>1 DEF Places
<1>4. Cardinality(Places(q, x) \ {1}) =
        IF 1 \in Places(q, x) THEN Cardinality(Places(q, x)) - 1 ELSE Cardinality(Places(q, x))
  BY PlacesFinite, FS_RemoveElement
<1> QED
  BY <1>1, <1>2, <1>3, <1>4, PlacesFinite DEF Count, Queued

LEMMA QueuedShorter ==
    ASSUME NEW S, NEW q \in Seq(S), q # <<>>, NEW x
    PROVE  Queued(q, x) = Queued(SubSeq(q, 1, Len(q) - 1), x) + Count(q[Len(q)] = x)
<1>1. PICK n \in Nat : n = Len(q) /\ n >= 1
  OBVIOUS
<1> DEFINE r == SubSeq(q, 1, n - 1)
<1>2. Len(r) = n - 1 /\ \A i \in 1 .. n - 1 : r[i] = q[i]
  <2>1. \A i \in 1 .. n - 1 : q[i] \in S
    BY <1>1
  <2>2. /\ Len(r) = IF 1 <= n - 1 THEN (n - 1) - 1 + 1 ELSE 0
        /\ \A i \in 1 .. (n - 1) - 1 + 1 : r[i] = q[1 + i - 1]
    BY <1>1, <2>1, SubSeqProperties
  <2> HIDE DEF r
  <2> QED
    BY <1>1, <2>2
<1> HIDE DEF r
<1>3. Places(r, x) = Places(q, x) \ {n}
  BY <1>1, <1>2 DEF Places
<1>4. n \in Places(q, x) <=> q[n] = x
  BY <1>1 DEF Places
<1>5. Cardinality(Places(q, x) \ {n}) =
        IF n \in Places(q, x) THEN Cardinality(Places(q, x)) - 1 ELSE Cardinality(Places(q, x))
  BY PlacesFinite, FS_RemoveElement
<1>6. Queued(q, x) = Queued(r, x) + Count(q[n] = x)
  BY <1>3, <1>4, <1>5, PlacesFinite DEF Count, Queued
<1> QED
  BY <1>1, <1>6 DEF r

LEMMA QueuedSomewhere ==
    ASSUME NEW S, NEW q \in Seq(S), NEW x
    PROVE  Queued(q, x) > 0 <=> \E i \in 1 .. Len(q) : q[i] = x
<1>1. Places(q, x) = {} <=> Cardinality(Places(q, x)) = 0
  BY PlacesFinite, FS_EmptySet
<1>2. Places(q, x) # {} <=> \E i \in 1 .. Len(q) : q[i] = x
  BY DEF Places
<1> QED
  BY <1>1, <1>2, PlacesFinite DEF Queued

LEMMA QueuedSwapped ==
    ASSUME NEW S, NEW q \in Seq(S), NEW i \in 1 .. Len(q), NEW j \in 1 .. Len(q), NEW x
    PROVE  Queued([q EXCEPT ![i] = q[j], ![j] = q[i]], x) = Queued(q, x)
<1> DEFINE r == [q EXCEPT ![i] = q[j], ![j] = q[i]]
           other(k) == IF k = i THEN j ELSE IF k = j THEN i ELSE k
           f == [k \in Places(q, x) |-> other(k)]
<1>1. /\ Len(r) = Len(q) /\ Len(q) \in Nat
      /\ \A k \in 1 .. Len(q) : r[k] = q[other(k)] /\ other(k) \in 1 .. Len(q) /\ other(other(k)) = k
  OBVIOUS
<1> HIDE DEF r, other
<1>2. \A k \in 1 .. Len(q) : k \in Places(r, x) <=> other(k) \in Places(q, x)
  BY <1>1 DEF Places
<1>3. Places(q, x) \subseteq 1 .. Len(q) /\ Places(r, x) \subseteq 1 .. Len(q)
  BY <1>1 DEF Places
<1>4. f \in Bijection(Places(q, x), Places(r, x))
  <2>1. f \in [Places(q, x) -> Places(r, x)]
    BY <1>1, <1>2, <1>3
  <2>2. \A k, l \in Places(q, x) : f[k] = f[l] => k = l
    BY <1>1, <1>3
  <2>3. \A l \in Places(r, x) : other(l) \in Places(q, x) /\ f[other(l)] = l
    BY <1>1, <1>2, <1>3
  <2> QED
    BY <2>1, <2>2, <2>3 DEF Bijection, Injection, Surjection, IsInjective
<1> HIDE DEF f
<1>5. Cardinality(Places(r, x)) = Cardinality(Places(q, x))
  BY <1>4, PlacesFinite, FS_Bijection DEF ExistsBijection
<1> QED
  BY <1>5 DEF Queued, r

-----------------------------------------------------------------------------
(* Induction and recursion.                                                 *)

LEMMA NatLeast ==
    ASSUME NEW T, T \subseteq Nat, T # {}
    PROVE  \E m \in T : \A n \in T : m <= n
<1> DEFINE R == {p \in Nat \X Nat : p[1] < p[2]}
<1>1. IsWellFoundedOn(R, Nat)
  BY NatLessThanWellFounded DEF OpToRel
<1>2. PICK m \in T : \A n \in T : ~ (<<n, m>> \in R)
  <2> HIDE DEF R
  <2> QED
    BY <1>1, WFMin
<1>3. ASSUME NEW n \in T PROVE m <= n
  <2>1. ~ (n < m)
    BY <1>2, <1>3
  <2> QED
    BY <2>1
<1> QED
  BY <1>3

LEMMA NatSteps ==
    ASSUME NEW T, 0 \in T, \A n \in Nat : n \in T => n + 1 \in T
    PROVE  Nat \subseteq T
<1> SUFFICES ASSUME Nat \ T # {}
             PROVE  FALSE
  OBVIOUS
<1>1. PICK m \in Nat \ T : \A n \in Nat \ T : m <= n
  BY NatLeast
<1>2. m # 0 /\ m - 1 \in Nat
  BY <1>1
<1>3. m - 1 \in T
  BY <1>1, <1>2
<1> QED
  BY <1>1, <1>2, <1>3

LEMMA IntervalSteps ==
    ASSUME NEW n \in Nat, NEW T, 0 \in T, \A k \in 0 .. n - 1 : k \in T => k + 1 \in T
    PROVE  \A k \in 0 .. n : k \in T
<1> DEFINE U == {k \in Nat : k \in 0 .. n => k \in T}
<1>1. 0 \in U /\ \A k \in Nat : k \in U => k + 1 \in U
  OBVIOUS
<1>2. Nat \subseteq U
  <2> HIDE DEF U
  <2> QED
    BY <1>1, NatSteps
<1> QED
  BY <1>2

\* A set of sets that has {} and, with a set, all that have one element more.
LEMMA FiniteSteps ==
    ASSUME NEW S, IsFiniteSet(S), NEW T, {} \in T,
           \A A \in SUBSET S, x \in S : A \in T /\ x \notin A => A \cup {x} \in T
    PROVE  S \in T
<1> DEFINE U == {n \in Nat : \A A \in SUBSET S : Cardinality(A) = n => A \in T}
<1>0. \A A \in SUBSET S : IsFiniteSet(A) /\ Cardinality(A) \in Nat
  BY FS_Subset, FS_CardinalityType
<1>1. 0 \in U
  BY <1>0, FS_EmptySet
<1>2. ASSUME NEW n \in Nat, n \in U PROVE n + 1 \in U
  <2> SUFFICES ASSUME NEW A \in SUBSET S, Cardinality(A) = n + 1
               PROVE  A \in T
    OBVIOUS
  <2>0. A # {}
    <3>1. Cardinality({}) = 0
      BY FS_EmptySet
    <3>2. CASE A = {}
      <4>1. Cardinality(A) = 0
        BY <3>1, <3>2
      <4> QED
        BY <4>1
    <3> QED
      BY <3>2
  <2>1. PICK x \in A : TRUE
    BY <2>0
  <2>2. Cardinality(A \ {x}) = n
    <3>1. IsFiniteSet(A)
      BY <1>0
    <3>2. Cardinality(A \ {x}) = IF x \in A THEN Cardinality(A) - 1 ELSE Cardinality(A)
      BY <3>1, FS_RemoveElement
    <3> QED
      BY <3>2
  <2>3. A \ {x} \in T
    BY <1>2, <2>2
  <2>4. (A \ {x}) \cup {x} = A
    OBVIOUS
  <2> QED
    BY <2>3, <2>4
<1>3. Nat \subseteq U
  <2> HIDE DEF U
  <2> QED
    BY <1>1, <1>2, NatSteps
<1> QED
  BY <1>0, <1>3

\* The functions over 0 .. n with a given first value of which each value makes
\* the next one.
Recursions(n, S, first, next) ==
    {f \in [0 .. n -> S] : f[0] = first /\ \A k \in 1 .. n : f[k] = next[k][f[k - 1]]}

LEMMA RecursionExists ==
    ASSUME NEW n \in Nat, NEW S, NEW first \in S, NEW next \in [1 .. n -> [S -> S]]
    PROVE  Recursions(n, S, first, next) # {}
<1> DEFINE Upto(m, f) == f[0] = first /\ \A k \in 1 .. m : f[k] = next[k][f[k - 1]]
           T == {m \in Nat : m <= n => \E f \in [0 .. m -> S] : Upto(m, f)}
<1>1. 0 \in T
  <2>1. [k \in 0 .. 0 |-> first] \in [0 .. 0 -> S] /\ Upto(0, [k \in 0 .. 0 |-> first])
    OBVIOUS
  <2> QED
    BY <2>1
<1>2. ASSUME NEW m \in Nat, m \in T PROVE m + 1 \in T
  <2> SUFFICES ASSUME m + 1 <= n
               PROVE  \E g \in [0 .. m + 1 -> S] : Upto(m + 1, g)
    OBVIOUS
  <2>1. PICK f \in [0 .. m -> S] : Upto(m, f)
    BY <1>2
  <2> DEFINE g == [k \in 0 .. m + 1 |-> IF k = m + 1 THEN next[m + 1][f[m]] ELSE f[k]]
  <2>2. f[m] \in S /\ m + 1 \in 1 .. n
    BY <2>1
  <2>3. next[m + 1][f[m]] \in S
    BY <2>2
  <2>4. g \in [0 .. m + 1 -> S]
    BY <2>1, <2>3
  <2>5. g[0] = first
    BY <2>1
  <2>6. ASSUME NEW k \in 1 .. m + 1 PROVE g[k] = next[k][g[k - 1]]
    <3>1. CASE k = m + 1
      <4>1. m \in 0 .. m + 1 /\ m # m + 1
        OBVIOUS
      <4>2. g[k] = next[m + 1][f[m]] /\ g[m] = f[m] /\ k - 1 = m
        BY <3>1, <4>1
      <4> QED
        BY <3>1, <4>2
    <3>2. CASE k # m + 1
      <4>1. k \in 1 .. m /\ k - 1 \in 0 .. m
        BY <3>2
      <4>2. g[k] = f[k] /\ g[k - 1] = f[k - 1]
        BY <4>1
      <4> QED
        BY <2>1, <4>1, <4>2
    <3> QED
      BY <3>1, <3>2
  <2> HIDE DEF g
  <2> QED
    BY <2>4, <2>5, <2>6
<1>3. n \in T
  <2> HIDE DEF T
  <2> QED
    BY <1>1, <1>2, NatSteps
<1> QED
  BY <1>3 DEF Recursions

-----------------------------------------------------------------------------
(* Counts and sums over finite sets.                                        *)

LEMMA DisjointUnion ==
    ASSUME NEW S, IsFiniteSet(S), NEW T, IsFiniteSet(T), S \cap T = {}
    PROVE  Cardinality(S \cup T) = Cardinality(S) + Cardinality(T) /\ IsFiniteSet(S \cup T)
<1>1. /\ IsFiniteSet(S \cup T)
      /\ Cardinality(S \cup T) = Cardinality(S) + Cardinality(T) - Cardinality(S \cap T)
  BY FS_Union
<1>2. Cardinality(S \cap T) = 0
  BY FS_EmptySet
<1>3. Cardinality(S) \in Nat /\ Cardinality(T) \in Nat
  BY FS_CardinalityType
<1> QED
  BY <1>1, <1>2, <1>3

\* The sum lies between as many times the least and as many times the greatest
\* value as there are values, and is no less than any of them if none is
\* negative.
LEMMA SumBounds ==
    ASSUME NEW S, IsFiniteSet(S), NEW f \in [S -> Int], NEW lo \in Int, NEW hi \in Int,
           \A x \in S : lo <= f[x] /\ f[x] <= hi
    PROVE  /\ SumFunction(f) \in Int
           /\ Cardinality(S) * lo <= SumFunction(f)
           /\ SumFunction(f) <= Cardinality(S) * hi
           /\ lo >= 0 => \A x \in S : f[x] <= SumFunction(f)
<1> DEFINE c(s) == CHOOSE x \in s : TRUE
           Turn(g, s) == IF s = {} THEN 0 ELSE f[c(s)] + g[s \ {c(s)}]
           Step(g) == [s \in SUBSET S |-> Turn(g, s)]
           iter == CHOOSE g : g = Step(g)
<1>1. SumFunction(f) = iter[S]
  BY DEF SumFunction, SumFunctionOnSet, FoldFunctionOnSet, MapThenFoldSet
<1>2. ASSUME NEW s \in SUBSET S
      PROVE  /\ IsFiniteSet(s) /\ Cardinality(s) \in Nat
             /\ s # {} => /\ c(s) \in s /\ f[c(s)] \in Int
                          /\ s \ {c(s)} \in SUBSET S
                          /\ Cardinality(s \ {c(s)}) = Cardinality(s) - 1
             /\ s # {} <=> Cardinality(s) # 0
  <2>1. IsFiniteSet(s) /\ Cardinality(s) \in Nat
    BY FS_Subset, FS_CardinalityType
  <2>2. s # {} => c(s) \in s
    OBVIOUS
  <2> HIDE DEF c
  <2>3. s # {} => Cardinality(s \ {c(s)}) = Cardinality(s) - 1
    BY <2>1, <2>2, FS_RemoveElement
  <2>4. s # {} <=> Cardinality(s) # 0
    BY <2>1, FS_EmptySet
  <2> QED
    BY <2>1, <2>2, <2>3, <2>4
<1> HIDE DEF c
<1>2a. \A s \in SUBSET S : Cardinality(s) \in Nat
  BY <1>2
<1>2b. \A s \in SUBSET S : Cardinality(s) = 0 => s = {}
  BY <1>2
<1>3. PICK n \in Nat : n = Cardinality(S)
  BY FS_CardinalityType
<1>4. \A s \in SUBSET S : Cardinality(s) <= n
  BY <1>3, FS_Subset
<1>5. \E g : g = Step(g)
  <2> DEFINE T == {m \in Nat : \E g \in [SUBSET S -> Int] :
                                  \A s \in SUBSET S : Cardinality(s) <= m => g[s] = Turn(g, s)}
  <2>1. 0 \in T
    <3> DEFINE g == [s \in SUBSET S |-> 0]
    <3>1. ASSUME NEW s \in SUBSET S, Cardinality(s) <= 0 PROVE g[s] = Turn(g, s)
      <4>1. s = {}
        BY <1>2a, <1>2b, <3>1
      <4>2. g[s] = 0
        OBVIOUS
      <4>3. Turn(g, s) = 0
        BY <4>1
      <4> HIDE DEF g, Turn
      <4> QED
        BY <4>2, <4>3
    <3>2. g \in [SUBSET S -> Int]
      OBVIOUS
    <3> HIDE DEF g, Turn
    <3> QED
      BY <3>1, <3>2
  <2>2. ASSUME NEW m \in Nat, m \in T PROVE m + 1 \in T
    <3>1. PICK g \in [SUBSET S -> Int] :
                 \A s \in SUBSET S : Cardinality(s) <= m => g[s] = Turn(g, s)
      BY <2>2
    <3> DEFINE h == [s \in SUBSET S |-> IF Cardinality(s) = m + 1 THEN Turn(g, s) ELSE g[s]]
    <3>2. \A s \in SUBSET S : Turn(g, s) \in Int
      BY <1>2
    <3>3. h \in [SUBSET S -> Int]
      BY <3>2
    <3>4. ASSUME NEW s \in SUBSET S, Cardinality(s) <= m + 1 PROVE h[s] = Turn(h, s)
      <4>1. s # {} => h[s \ {c(s)}] = g[s \ {c(s)}]
        <5> SUFFICES ASSUME s # {} PROVE h[s \ {c(s)}] = g[s \ {c(s)}]
          OBVIOUS
        <5>1. s \ {c(s)} \in SUBSET S /\ Cardinality(s \ {c(s)}) # m + 1
          BY <1>2, <3>4
        <5> QED
          BY <5>1
      <4>2. Turn(h, s) = Turn(g, s)
        BY <4>1
      <4>3. h[s] = Turn(g, s)
        <5>1. Cardinality(s) # m + 1 => Cardinality(s) <= m
          BY <1>2a, <3>4
        <5>2. h[s] = IF Cardinality(s) = m + 1 THEN Turn(g, s) ELSE g[s]
          OBVIOUS
        <5>3. Cardinality(s) <= m => g[s] = Turn(g, s)
          BY ONLY <3>1, s \in SUBSET S
        <5> HIDE DEF Turn, h
        <5> QED
          BY <5>1, <5>2, <5>3
      <4> QED
        BY <4>2, <4>3
    <3> HIDE DEF h, Turn
    <3> QED
      BY <3>3, <3>4
  <2>3. n \in T
    <3> HIDE DEF T
    <3> QED
      BY <2>1, <2>2, NatSteps
  <2>4. PICK g \in [SUBSET S -> Int] : \A s \in SUBSET S : g[s] = Turn(g, s)
    BY <1>4, <2>3
  <2>5. g = Step(g)
    BY <2>4
  <2> QED
    BY <2>5
<1>6. iter = Step(iter)
  BY <1>5
<1> HIDE DEF iter
<1>7. \A s \in SUBSET S : iter[s] = IF s = {} THEN 0 ELSE f[c(s)] + iter[s \ {c(s)}]
  BY <1>6
<1> DEFINE Bounded(s) == /\ iter[s] \in Int
                         /\ Cardinality(s) * lo <= iter[s]
                         /\ iter[s] <= Cardinality(s) * hi
                         /\ lo >= 0 => \A x \in s : f[x] <= iter[s]
           T == {m \in Nat : \A s \in SUBSET S : Cardinality(s) = m => Bounded(s)}
<1>8. 0 \in T
  <2> SUFFICES ASSUME NEW s \in SUBSET S, Cardinality(s) = 0 PROVE Bounded(s)
    OBVIOUS
  <2>1. s = {} /\ iter[s] = 0
    BY <1>2, <1>7
  <2> QED
    BY <2>1
<1>9. ASSUME NEW m \in Nat, m \in T PROVE m + 1 \in T
  <2> SUFFICES ASSUME NEW s \in SUBSET S, Cardinality(s) = m + 1 PROVE Bounded(s)
    OBVIOUS
  <2> DEFINE r == s \ {c(s)}
  <2>1. /\ s # {} /\ c(s) \in s /\ f[c(s)] \in Int /\ r \in SUBSET S /\ Cardinality(r) = m
        /\ iter[s] = f[c(s)] + iter[r]
    BY <1>2, <1>7
  <2>2. Bounded(r)
    BY <1>9, <2>1
  <2>3. lo <= f[c(s)] /\ f[c(s)] <= hi
    BY <2>1
  <2>4. m * lo <= iter[r] /\ iter[r] <= m * hi /\ iter[r] \in Int
    BY <2>1, <2>2
  <2>5. (m + 1) * lo = m * lo + lo /\ (m + 1) * hi = m * hi + hi
    OBVIOUS
  <2>6. m * lo \in Int /\ m * hi \in Int
    OBVIOUS
  <2>7. iter[s] \in Int /\ (m + 1) * lo <= iter[s] /\ iter[s] <= (m + 1) * hi
    BY <2>1, <2>3, <2>4, <2>5, <2>6
  <2>8. ASSUME lo >= 0, NEW x \in s PROVE f[x] <= iter[s]
    <3>1. m * lo >= 0
      BY <2>8
    <3>2. iter[r] >= 0
      BY <2>4, <2>6, <3>1
    <3>3. CASE x = c(s)
      BY <2>1, <2>4, <3>2, <3>3
    <3>4. CASE x # c(s)
      <4>1. f[x] <= iter[r] /\ f[x] \in Int
        BY <2>2, <2>8, <3>4
      <4> QED
        BY <2>1, <2>3, <2>4, <2>8, <4>1
    <3> QED
      BY <3>3, <3>4
  <2> QED
    BY <2>7, <2>8
<1>10. n \in T
  <2> HIDE DEF T
  <2> QED
    BY <1>8, <1>9, NatSteps
<1>11. Bounded(S)
  BY <1>3, <1>10
<1> QED
  BY <1>1, <1>11

-----------------------------------------------------------------------------
(* Listings of a finite set.                                                *)

LEMMA CountUpto ==
    ASSUME NEW n \in Nat
    PROVE  IsFiniteSet(1 .. n) /\ Cardinality(1 .. n) = n
<1>1. IsFiniteSet(1 .. n) /\ Cardinality(1 .. n) = IF 1 > n THEN 0 ELSE n - 1 + 1
  BY FS_Interval
<1> QED
  BY <1>1

\* s lists the n elements of S.
IsListing(s, S, n) ==
    /\ s \in [1 .. n -> S] /\ s \in Seq(S) /\ Len(s) = n
    /\ \A i, j \in 1 .. n : s[i] = s[j] => i = j
    /\ \A x \in S : \E i \in 1 .. n : s[i] = x

LEMMA ListingOfAll ==
    ASSUME NEW S, IsFiniteSet(S), NEW n \in Nat, n = Cardinality(S), NEW s \in SetToSeqs(S)
    PROVE  IsListing(s, S, n)
<1>1. s \in [1 .. n -> S] /\ \A i, j \in 1 .. n : s[i] = s[j] => i = j
  BY DEF SetToSeqs
<1>2. s \in Injection(1 .. n, S)
  BY <1>1 DEF Injection, IsInjective
<1>3. Cardinality(1 .. n) = n
  BY FS_Interval
<1>4. s \in Surjection(1 .. n, S)
  BY <1>2, <1>3, FS_Injection
<1>5. \A x \in S : \E i \in 1 .. n : s[i] = x
  BY <1>4 DEF Surjection
<1> QED
  BY <1>1, <1>5 DEF IsListing

\* before[x] are the elements that x comes before.  No entry of the listing
\* comes before an earlier one.
InOrder(s, before) == \A i, j \in DOMAIN s : i < j => s[i] \notin before[s[j]]

LEMMA SortedListing ==
    ASSUME NEW S, IsFiniteSet(S), NEW before \in [S -> SUBSET S],
           \A x, y \in S : y \in before[x] => x \notin before[y],
           \A x, y, z \in S : y \in before[x] /\ z \in before[y] => z \in before[x]
    PROVE  \E s \in SetToSeqs(S) : InOrder(s, before)
<1> DEFINE T == {A \in SUBSET S : \E s \in SetToSeqs(A) : InOrder(s, before)}
<1>1. {} \in T
  <2>1. <<>> \in SetToSeqs({})
    BY FS_EmptySet DEF SetToSeqs
  <2>2. InOrder(<<>>, before)
    BY DEF InOrder
  <2> QED
    BY <2>1, <2>2
<1>2. ASSUME NEW A \in SUBSET S, NEW x \in S, A \in T, x \notin A
      PROVE  A \cup {x} \in T
  <2>1. IsFiniteSet(A)
    BY FS_Subset
  <2>2. PICK n \in Nat : n = Cardinality(A)
    BY <2>1, FS_CardinalityType
  <2>3. Cardinality(A \cup {x}) = n + 1
    BY <1>2, <2>1, <2>2, FS_AddElement
  <2>4. PICK s \in SetToSeqs(A) : InOrder(s, before)
    BY <1>2
  <2>5. s \in [1 .. n -> A] /\ \A i, j \in 1 .. n : s[i] = s[j] => i = j
    BY <2>2 DEF SetToSeqs
  <2> DEFINE Later == {k \in 1 .. n + 1 : k = n + 1 \/ s[k] \in before[x]}
  <2>6. PICK p \in Later : \A k \in Later : p <= k
    <3>1. Later \subseteq Nat /\ n + 1 \in Later
      OBVIOUS
    <3> HIDE DEF Later
    <3> QED
      BY <3>1, NatLeast
  <2>7. p \in 1 .. n + 1 /\ \A k \in 1 .. n : k < p => s[k] \notin before[x]
    BY <2>6
  <2>8. p = n + 1 \/ s[p] \in before[x]
    OBVIOUS
  <2> HIDE DEF Later
  <2> DEFINE r == [k \in 1 .. n + 1 |-> IF k < p THEN s[k] ELSE IF k = p THEN x ELSE s[k - 1]]
  <2>9. /\ \A k \in 1 .. n + 1 : k < p => r[k] = s[k] /\ k \in 1 .. n
        /\ r[p] = x
        /\ \A k \in 1 .. n + 1 : k > p => r[k] = s[k - 1] /\ k - 1 \in 1 .. n /\ k - 1 >= p
    BY <2>7
  <2>10. r \in [1 .. n + 1 -> A \cup {x}]
    BY <2>5, <2>7
  <2>11. DOMAIN r = 1 .. n + 1
    OBVIOUS
  <2> HIDE DEF r
  <2>12. ASSUME NEW i \in 1 .. n + 1, NEW j \in 1 .. n + 1, i < j
         PROVE  r[i] # r[j] /\ r[i] \notin before[r[j]]
    <3>1. \A k, l \in 1 .. n : k < l => s[k] # s[l] /\ s[k] \notin before[s[l]]
      BY <2>4, <2>5 DEF InOrder
    <3>2. \A k \in 1 .. n : s[k] \in A /\ s[k] \in S
      BY <2>5
    <3>3. CASE j < p
      <4>1. i < p /\ r[i] = s[i] /\ i \in 1 .. n /\ r[j] = s[j] /\ j \in 1 .. n
        BY <2>7, <2>9, <2>12, <3>3
      <4> QED
        BY <2>12, <3>1, <4>1
    <3>4. CASE j = p
      BY <1>2, <2>7, <2>9, <2>12, <3>2, <3>4
    <3>5. CASE i = p /\ j > p
      <4>1. r[i] = x /\ r[j] = s[j - 1] /\ j - 1 \in 1 .. n /\ j - 1 >= p
        BY <2>9, <3>5
      <4>2. p \in 1 .. n /\ s[p] \in before[x]
        BY <2>7, <2>8, <4>1
      <4>3. x \notin before[s[j - 1]]
        <5>1. CASE j - 1 = p
          BY <3>2, <4>2, <5>1
        <5>2. CASE j - 1 > p
          BY <3>1, <3>2, <4>1, <4>2, <5>2
        <5> QED
          BY <4>1, <4>2, <5>1, <5>2
      <4> QED
        BY <1>2, <3>2, <4>1, <4>3
    <3>6. CASE i < p /\ j > p
      <4>1. /\ r[i] = s[i] /\ i \in 1 .. n
            /\ r[j] = s[j - 1] /\ j - 1 \in 1 .. n /\ i < j - 1
        BY <2>7, <2>9, <3>6
      <4> QED
        BY <3>1, <4>1
    <3>7. CASE i > p
      <4>1. /\ r[i] = s[i - 1] /\ i - 1 \in 1 .. n
            /\ r[j] = s[j - 1] /\ j - 1 \in 1 .. n /\ i - 1 < j - 1
        BY <2>7, <2>9, <2>12, <3>7
      <4> QED
        BY <3>1, <4>1
    <3> QED
      BY <2>7, <2>12, <3>3, <3>4, <3>5, <3>6, <3>7
  <2>13. r \in SetToSeqs(A \cup {x})
    <3>1. \A i, j \in 1 .. n + 1 : i # j => r[i] # r[j]
      BY <2>12
    <3> QED
      BY <2>3, <2>10, <3>1 DEF SetToSeqs
  <2>14. InOrder(r, before)
    BY <2>11, <2>12 DEF InOrder
  <2> QED
    BY <2>13, <2>14
<1>3. S \in T
  <2> HIDE DEF T
  <2> QED
    BY <1>1, <1>2, FiniteSteps
<1> QED
  BY <1>3

\* There is one such listing if of any two elements one comes before the other.
LEMMA SortedOnce ==
    ASSUME NEW S, IsFiniteSet(S), NEW before \in [S -> SUBSET S],
           \A x, y \in S : x # y => y \in before[x] \/ x \in before[y],
           NEW s \in SetToSeqs(S), InOrder(s, before),
           NEW r \in SetToSeqs(S), InOrder(r, before)
    PROVE  s = r
<1>1. PICK n \in Nat : n = Cardinality(S)
  BY FS_CardinalityType
<1>2. IsListing(s, S, n) /\ IsListing(r, S, n)
  BY <1>1, ListingOfAll
<1>3. /\ s \in [1 .. n -> S] /\ r \in [1 .. n -> S]
      /\ \A i, j \in 1 .. n : s[i] = s[j] => i = j
      /\ \A i, j \in 1 .. n : r[i] = r[j] => i = j
      /\ \A x \in S : (\E i \in 1 .. n : s[i] = x) /\ (\E i \in 1 .. n : r[i] = x)
  BY <1>2 DEF IsListing
<1>4. \A i, j \in 1 .. n : i < j => s[i] \notin before[s[j]] /\ r[i] \notin before[r[j]]
  BY <1>3 DEF InOrder
<1> DEFINE Apart == {i \in 1 .. n : s[i] # r[i]}
<1>5. ASSUME Apart # {} PROVE FALSE
  <2>1. PICK m \in Apart : \A i \in Apart : m <= i
    <3>1. Apart \subseteq Nat
      OBVIOUS
    <3> HIDE DEF Apart
    <3> QED
      BY <1>5, <3>1, NatLeast
  <2>2. m \in 1 .. n /\ s[m] # r[m] /\ \A i \in 1 .. n : i < m => s[i] = r[i]
    BY <2>1
  <2>3. s[m] \in S /\ r[m] \in S
    BY <1>3, <2>2
  <2>4. PICK j \in 1 .. n : r[j] = s[m]
    BY <1>3, <2>3
  <2>5. PICK k \in 1 .. n : s[k] = r[m]
    BY <1>3, <2>3
  <2>6. m < j /\ m < k
    <3>1. ~ (j < m) /\ ~ (k < m)
      <4>1. ASSUME j < m PROVE FALSE
        <5>1. s[j] = s[m]
          BY <2>2, <2>4, <4>1
        <5>2. j = m
          BY <1>3, <2>2, <5>1
        <5> QED
          BY <4>1, <5>2
      <4>2. ASSUME k < m PROVE FALSE
        <5>1. r[k] = r[m]
          BY <2>2, <2>5, <4>2
        <5>2. k = m
          BY <1>3, <2>2, <5>1
        <5> QED
          BY <4>2, <5>2
      <4> QED
        BY <4>1, <4>2
    <3>2. j # m /\ k # m
      BY <2>2, <2>4, <2>5
    <3> QED
      BY <2>2, <3>1, <3>2
  <2>7. s[m] \notin before[r[m]] /\ r[m] \notin before[s[m]]
    BY <1>4, <2>2, <2>4, <2>5, <2>6
  <2> QED
    BY <2>2, <2>3, <2>7
<1>6. \A i \in 1 .. n : s[i] = r[i]
  BY <1>5
<1> QED
  BY <1>3, <1>6

=============================================================================
