--------------------------- MODULE DataIndexProofs ---------------------------
(***************************************************************************)
(* SearchData answers right for any data, fields, values and queries, and  *)
(* the pages of searches and listings are what they should be.             *)
(***************************************************************************)
EXTENDS DataIndex, CommonProofs

\* What an index entry holds.  SearchExact alone is not inductive: a query
\* shows an entry only through the filters that go with it.
IndexInv ==
    /\ archiveStatus \in [Data -> ArchiveStatus \cup {"absent"}]
    /\ index = [f \in Fields |-> [v \in Values |-> {d \in Data : Kept(d) /\ FieldOf[d][f] = v}]]

LEMMA IndexInvInit == DataIndexInit => IndexInv
  BY DEF DataIndexInit, IndexInv, Kept

LEMMA IndexInvStep == IndexInv /\ [DataIndexNext]_dataVars => IndexInv'
<1> SUFFICES ASSUME IndexInv, [DataIndexNext]_dataVars
             PROVE  IndexInv'
  OBVIOUS
<1>1. ASSUME NEW d \in Data, AddData(d) PROVE IndexInv'
  <2>1. /\ archiveStatus' \in [Data -> ArchiveStatus \cup {"absent"}]
        /\ \A e \in Data : Kept(e)' <=> Kept(e) \/ e = d
    BY <1>1 DEF AddData, IndexInv, ArchiveStatus, Kept
  <2>2. \A f \in Fields, v \in Values :
          index[f][v] = {e \in Data : Kept(e) /\ FieldOf[e][f] = v}
    BY DEF IndexInv
  <2>3. \A f \in Fields, v \in Values :
          (IF FieldOf[d][f] = v THEN index[f][v] \cup {d} ELSE index[f][v])
            = {e \in Data : Kept(e)' /\ FieldOf[e][f] = v}
    BY <2>1, <2>2
  <2> QED
    BY <1>1, <2>1, <2>3 DEF AddData, addToIndexes, IndexInv
<1>2. ASSUME NEW d \in Data, Mark(d, "archived") \/ Mark(d, "failed") PROVE IndexInv'
  <2>1. /\ archiveStatus' \in [Data -> ArchiveStatus \cup {"absent"}]
        /\ \A e \in Data : Kept(e)' <=> Kept(e)
        /\ index' = index
    BY <1>2 DEF Mark, IndexInv, ArchiveStatus, Kept
  <2> QED
    BY <2>1 DEF IndexInv
<1>3. CASE UNCHANGED dataVars
  BY <1>3 DEF dataVars, IndexInv, Kept
<1> QED
  BY <1>1, <1>2, <1>3 DEF DataIndexNext

LEMMA IndexInvSuffices == IndexInv => SearchExact
<1> SUFFICES ASSUME IndexInv
             PROVE  SearchExact
  OBVIOUS
<1>1. \A f \in Fields, v \in Values :
        index[f][v] = {d \in Data : Kept(d) /\ FieldOf[d][f] = v}
  BY DEF IndexInv
<1>2. ASSUME NEW q \in SearchQueries
      PROVE  Results(q) = {d \in Data : Satisfies(d, q)}
  <2> DEFINE named == {f \in Fields : q.wanted[f] # Unset}
  <2>1. \A f \in named : q.wanted[f] \in Values
    BY DEF SearchQueries
  <2>2. q.min \in Nat /\ q.max \in Nat
    BY DataAssumption DEF SearchQueries
  <2>3. ASSUME NEW d \in Data, Kept(d)
        PROVE  d \in Candidates(q)
                 <=> \A f \in Fields : q.wanted[f] = Unset \/ FieldOf[d][f] = q.wanted[f]
    <3>1. CASE named = {}
      BY <2>3, <3>1 DEF Candidates
    <3>2. CASE named # {}
      BY <1>1, <2>1, <2>3, <3>2 DEF Candidates
    <3> QED
      BY <3>1, <3>2
  <2>4. Candidates(q) \subseteq Data
    BY DEF Candidates
  <2>5. \A d \in Data : SizeOf[d] \in Int
    BY DataAssumption
  <2> QED
    BY <2>2, <2>3, <2>4, <2>5 DEF Results, Satisfies
<1>3. ASSUME NEW f \in Fields, NEW v \in Offered(f)
      PROVE  \E d \in Data : Kept(d) /\ FieldOf[d][f] = v
  BY <1>1 DEF Offered
<1> QED
  BY <1>2, <1>3 DEF SearchExact

\* A search that goes through the index maps finds exactly the data that a
\* walk over the whole map would find, and no offered value finds nothing.
THEOREM SearchAlwaysExact == DataIndexSpec => []SearchExact
<1>1. DataIndexInit => IndexInv
  BY IndexInvInit
<1>2. IndexInv /\ [DataIndexNext]_dataVars => IndexInv'
  BY IndexInvStep
<1>3. IndexInv => SearchExact
  BY IndexInvSuffices
<1> QED
  BY <1>1, <1>2, <1>3, PTL DEF DataIndexSpec

-----------------------------------------------------------------------------
(* Pages.                                                                   *)

LEMMA GreaterOfTwo ==
    ASSUME NEW a \in Int, NEW b \in Int
    PROVE  Max({a, b}) = IF a >= b THEN a ELSE b
BY DEF Max

LEMMA LesserOfTwo ==
    ASSUME NEW a \in Int, NEW b \in Int
    PROVE  Min({a, b}) = IF a <= b THEN a ELSE b
BY DEF Min

\* The number of records before a page, and the page's own.
Skipped(offset) == IF offset > 0 THEN offset ELSE 0

Shown(n, limit, offset) ==
    IF offset >= n THEN 0
    ELSE IF 0 < limit /\ limit < n - Skipped(offset) THEN limit ELSE n - Skipped(offset)

LEMMA PageLengths ==
    ASSUME NEW n \in Nat, NEW limit \in Int, NEW offset \in Int
    PROVE  /\ Max({0, offset}) = Skipped(offset)
           /\ PageLength(n, limit, offset) = Shown(n, limit, offset)
           /\ Shown(n, limit, offset) \in Nat
           /\ \A i \in 1 .. Shown(n, limit, offset) : Skipped(offset) + i \in 1 .. n
<1>1. Max({0, offset}) = Skipped(offset) /\ Skipped(offset) \in Nat
  BY GreaterOfTwo DEF Skipped
<1>2. Max({0, n - Skipped(offset)}) = IF n >= Skipped(offset) THEN n - Skipped(offset) ELSE 0
  BY <1>1, GreaterOfTwo
<1>3. \A left \in Int : Min({limit, left}) = IF limit <= left THEN limit ELSE left
  BY LesserOfTwo
<1>4. PageLength(n, limit, offset) = Shown(n, limit, offset)
  BY <1>1, <1>2, <1>3 DEF PageLength, Shown, Skipped
<1> QED
  BY <1>1, <1>4 DEF Shown, Skipped

LEMMA CutTypes ==
    ASSUME NEW S, NEW s \in Seq(S), NEW limit \in Int, NEW offset \in Int
    PROVE  /\ Cut(s, limit, offset) =
                 [i \in 1 .. Shown(Len(s), limit, offset) |-> s[Skipped(offset) + i]]
           /\ Cut(s, limit, offset) \in Seq(S)
           /\ Len(Cut(s, limit, offset)) = Shown(Len(s), limit, offset)
<1>1. PICK n \in Nat : n = Len(s)
  OBVIOUS
<1>2. \A i \in 1 .. n : s[i] \in S
  BY <1>1
<1>3. PICK m \in Nat : m = Shown(n, limit, offset)
  BY PageLengths
<1>4. Cut(s, limit, offset) = [i \in 1 .. m |-> s[Skipped(offset) + i]]
  BY <1>1, <1>3, PageLengths DEF Cut
<1>5. \A i \in 1 .. m : s[Skipped(offset) + i] \in S
  BY <1>2, <1>3, PageLengths
<1> QED
  BY <1>1, <1>3, <1>4, <1>5

\* What SearchData cuts out of its result.
LEMMA SliceIsCut ==
    ASSUME NEW S, NEW s \in Seq(S), NEW limit \in Int, NEW offset \in Int
    PROVE  SlicePage(s, limit, offset) = Cut(s, limit, offset)
<1>1. PICK n \in Nat : n = Len(s)
  OBVIOUS
<1>2. \A i \in 1 .. n : s[i] \in S
  BY <1>1
<1> DEFINE o == Skipped(offset)
           m == Shown(n, limit, offset)
<1>3. o \in Nat /\ m \in Nat
  <2>1. m \in Nat
    BY PageLengths
  <2> QED
    BY <2>1 DEF Skipped
<1>4. Cut(s, limit, offset) = [i \in 1 .. m |-> s[o + i]]
  BY <1>1, CutTypes
<1>5. CASE offset >= n
  <2>1. m = 0
    BY <1>5 DEF Shown
  <2>2. Cut(s, limit, offset) = <<>>
    BY <1>4, <2>1
  <2> QED
    BY <1>1, <1>5, <2>2 DEF SlicePage
<1>6. CASE offset < n
  <2> DEFINE rest == IF offset > 0 THEN SubSeq(s, offset + 1, n) ELSE s
  <2>1. rest \in Seq(S) /\ Len(rest) = n - o /\ \A i \in 1 .. n - o : rest[i] = s[o + i]
    <3>1. CASE offset > 0
      <4>1. \A i \in offset + 1 .. n : s[i] \in S
        BY <1>2, <3>1
      <4>2. /\ SubSeq(s, offset + 1, n) \in Seq(S)
            /\ Len(SubSeq(s, offset + 1, n)) = IF offset + 1 <= n THEN n - (offset + 1) + 1 ELSE 0
            /\ \A i \in 1 .. n - (offset + 1) + 1 :
                  SubSeq(s, offset + 1, n)[i] = s[(offset + 1) + i - 1]
        BY <1>1, <4>1, SubSeqProperties
      <4>3. o = offset /\ rest = SubSeq(s, offset + 1, n)
        BY <3>1 DEF Skipped
      <4>4. n - (offset + 1) + 1 = n - o /\ offset + 1 <= n
        BY <1>6, <3>1, <4>3
      <4> HIDE DEF rest, o
      <4>5. \A i \in 1 .. n - o : (offset + 1) + i - 1 = o + i
        BY <3>1, <4>3
      <4> QED
        BY <4>2, <4>3, <4>4, <4>5
    <3>2. CASE ~ (offset > 0)
      BY <1>1, <1>6, <3>2 DEF Skipped
    <3> QED
      BY <3>1, <3>2
  <2>2. SlicePage(s, limit, offset) =
          IF 0 < limit /\ limit < Len(rest) THEN SubSeq(rest, 1, limit) ELSE rest
    BY <1>1, <1>6 DEF SlicePage
  <2> HIDE DEF rest
  <2>3. CASE 0 < limit /\ limit < n - o
    <3>1. m = limit
      BY <1>6, <2>3 DEF Shown
    <3>2. \A i \in 1 .. limit : rest[i] \in S
      BY <1>2, <1>3, <2>1, <2>3
    <3>3. /\ SubSeq(rest, 1, limit) \in Seq(S)
          /\ Len(SubSeq(rest, 1, limit)) = IF 1 <= limit THEN limit - 1 + 1 ELSE 0
          /\ \A i \in 1 .. limit - 1 + 1 : SubSeq(rest, 1, limit)[i] = rest[1 + i - 1]
      BY <2>1, <3>2, SubSeqProperties
    <3>4. PICK page : page = SubSeq(rest, 1, limit)
      OBVIOUS
    <3>5. page \in Seq(S) /\ Len(page) = m /\ \A i \in 1 .. m : page[i] = s[o + i]
      BY <1>3, <2>1, <2>3, <3>1, <3>3, <3>4
    <3>6. page = [i \in 1 .. m |-> s[o + i]]
      BY <3>5
    <3> QED
      BY <1>4, <2>1, <2>2, <2>3, <3>4, <3>6
  <2>4. CASE ~ (0 < limit /\ limit < n - o)
    <3>1. m = n - o
      BY <1>6, <2>4 DEF Shown
    <3>2. rest = [i \in 1 .. m |-> s[o + i]]
      BY <2>1, <3>1
    <3> QED
      BY <1>4, <2>1, <2>2, <2>4, <3>2
  <2> QED
    BY <2>3, <2>4
<1> QED
  BY <1>5, <1>6

\* What ListData collects while it counts.
LEMMA ListIsCut ==
    ASSUME NEW S, NEW s \in Seq(S), NEW limit \in Int, NEW offset \in Int
    PROVE  ListPage(s, limit, offset) = Cut(s, limit, offset)
<1>1. PICK n \in Nat : n = Len(s)
  OBVIOUS
<1>2. \A i \in 1 .. n : s[i] \in S
  BY <1>1
<1> DEFINE o == Skipped(offset)
           m(i) == Shown(i, limit, offset)
           Page == [count : Nat, result : Seq(S)]
           first == [count |-> 0, result |-> <<>>]
           Visit(page, x) ==
               IF page.count < offset THEN [page EXCEPT !.count = @ + 1]
               ELSE IF limit > 0 /\ Len(page.result) >= limit THEN page
               ELSE [count |-> page.count + 1, result |-> Append(page.result, x)]
           Step(g) == [i \in 0 .. n |-> IF i = 0 THEN first ELSE Visit(g[i - 1], s[i])]
           next == [i \in 1 .. n |-> [page \in Page |-> Visit(page, s[i])]]
           walk == CHOOSE g : g = Step(g)
<1>3. \A page \in Page, x \in S : Visit(page, x) \in Page
  OBVIOUS
<1>4. ListPage(s, limit, offset) = walk[n].result
  BY <1>1 DEF ListPage
<1> HIDE DEF Visit
<1>5. \E g : g = Step(g)
  <2>1. PICK f \in Recursions(n, Page, first, next) : TRUE
    <3>1. next \in [1 .. n -> [Page -> Page]] /\ first \in Page
      BY <1>2, <1>3
    <3> HIDE DEF next, first, Page
    <3> QED
      BY <3>1, RecursionExists
  <2>2. \A i \in 1 .. n : f[i] = Visit(f[i - 1], s[i])
    <3> TAKE i \in 1 .. n
    <3> HIDE DEF Page
    <3>1. f[i - 1] \in Page
      BY DEF Recursions
    <3> QED
      BY <3>1 DEF Recursions
  <2>3. \A i \in 0 .. n : f[i] = IF i = 0 THEN first ELSE Visit(f[i - 1], s[i])
    BY <2>2 DEF Recursions
  <2> QED
    BY <2>3 DEF Recursions
<1>6. walk = Step(walk)
  BY <1>5
<1> HIDE DEF walk
<1>7. walk[0] = first /\ \A i \in 1 .. n : walk[i] = Visit(walk[i - 1], s[i])
  BY <1>6
<1>8. o \in Nat /\ (offset <= o) /\ (o > 0 => o = offset)
  BY DEF Skipped
<1>9. \A i \in Nat : m(i) = IF i <= o THEN 0 ELSE IF 0 < limit /\ limit < i - o THEN limit ELSE i - o
  BY DEF Shown, Skipped
<1> DEFINE Prefix(l) == [k \in 1 .. l |-> s[o + k]]
           At(c, l) == [count |-> c, result |-> Prefix(l)]
           c(i) == IF i <= o THEN i ELSE o + m(i)
           T == {i \in 0 .. n : walk[i] = At(c(i), m(i))}
<1> HIDE DEF o, m
<1>10. 0 \in T
  <2>1. m(0) = 0 /\ 0 <= o
    BY <1>8, <1>9
  <2>2. Prefix(0) = <<>>
    OBVIOUS
  <2> QED
    BY <1>7, <2>1, <2>2
<1>11. ASSUME NEW i \in 0 .. n - 1, i \in T PROVE i + 1 \in T
  <2>1. walk[i + 1] = Visit(walk[i], s[i + 1]) /\ i + 1 \in 0 .. n
    BY <1>7
  <2>2. walk[i] = At(c(i), m(i))
    BY <1>11
  <2>3. m(i) \in Nat /\ m(i + 1) \in Nat
    BY <1>8, <1>9
  <2>4. \A l \in Nat : Len(Prefix(l)) = l
    OBVIOUS
  <2>5. \A d, l : At(d, l).count = d /\ At(d, l).result = Prefix(l)
    OBVIOUS
  <2>6. ASSUME NEW d \in Nat, NEW l \in Nat
        PROVE  [At(d, l) EXCEPT !.count = @ + 1] = At(d + 1, l)
    <3> HIDE DEF Prefix
    <3> QED
      OBVIOUS
  <2>7. CASE i < o
    <3>1. m(i) = 0 /\ m(i + 1) = 0 /\ c(i) = i /\ c(i + 1) = i + 1
      BY <1>8, <1>9, <2>7
    <3> HIDE DEF At, Prefix, c
    <3>2. Visit(At(i, 0), s[i + 1]) = At(i + 1, 0)
      BY <1>8, <2>5, <2>6, <2>7 DEF Visit
    <3> QED
      BY <2>1, <2>2, <3>1, <3>2
  <2>8. CASE i >= o /\ limit > 0 /\ m(i) >= limit
    <3>1. m(i + 1) = m(i) /\ i > o /\ c(i) = o + m(i) /\ c(i + 1) = c(i)
      BY <1>8, <1>9, <2>8
    <3> HIDE DEF At, Prefix, c
    <3>2. ~ (c(i) < offset)
      BY <1>8, <2>3, <3>1
    <3>3. Visit(At(c(i), m(i)), s[i + 1]) = At(c(i), m(i))
      BY <2>3, <2>4, <2>5, <2>8, <3>2 DEF Visit
    <3> QED
      BY <2>1, <2>2, <3>1, <3>3
  <2>9. CASE i >= o /\ ~ (limit > 0 /\ m(i) >= limit)
    <3>1. m(i) = i - o /\ m(i + 1) = m(i) + 1
      BY <1>8, <1>9, <2>9
    <3>2. c(i) = i /\ c(i + 1) = i + 1 /\ o + (m(i) + 1) = i + 1
      BY <1>8, <2>9, <3>1
    <3>3. \A k \in Nat : Append(Prefix(k), s[o + (k + 1)]) = Prefix(k + 1)
      OBVIOUS
    <3> HIDE DEF At, Prefix, c
    <3>4. ~ (i < offset)
      BY <1>8, <2>9
    <3>5. Visit(At(i, m(i)), s[i + 1]) = [count |-> i + 1, result |-> Append(Prefix(m(i)), s[i + 1])]
      BY <2>3, <2>4, <2>5, <2>9, <3>4 DEF Visit
    <3>6. Append(Prefix(m(i)), s[i + 1]) = Prefix(m(i) + 1)
      BY <2>3, <3>2, <3>3
    <3> QED
      BY <2>1, <2>2, <3>1, <3>2, <3>5, <3>6 DEF At
  <2> QED
    BY <1>8, <2>7, <2>8, <2>9
<1>12. n \in T
  <2> HIDE DEF T
  <2>1. \A i \in 0 .. n : i \in T
    BY <1>10, <1>11, IntervalSteps
  <2> QED
    BY <2>1
<1>13. Cut(s, limit, offset) = Prefix(m(n))
  BY <1>1, CutTypes DEF m, o
<1>14. walk[n] = At(c(n), m(n))
  BY <1>12
<1>15. At(c(n), m(n)).result = Prefix(m(n))
  <2> HIDE DEF Prefix, c
  <2> QED
    OBVIOUS
<1> HIDE DEF At, Prefix, c
<1> QED
  BY <1>4, <1>13, <1>14, <1>15

LEMMA CutIsPage ==
    ASSUME NEW S, NEW n \in Nat, n = Cardinality(S), NEW s, IsListing(s, S, n),
           NEW limit \in Int, NEW offset \in Int
    PROVE  PageOf(Cut(s, limit, offset), S, limit, offset)
<1>1. /\ s \in Seq(S) /\ Len(s) = n /\ (\A i \in 1 .. n : s[i] \in S)
      /\ \A i, j \in 1 .. n : s[i] = s[j] => i = j
  BY DEF IsListing
<1>2. PICK m \in Nat : m = Shown(n, limit, offset)
  BY PageLengths
<1>3. Skipped(offset) \in Nat /\ \A i \in 1 .. m : Skipped(offset) + i \in 1 .. n
  <2>1. \A i \in 1 .. m : Skipped(offset) + i \in 1 .. n
    BY <1>2, PageLengths
  <2> QED
    BY <2>1 DEF Skipped
<1>4. PICK page : page = Cut(s, limit, offset)
  OBVIOUS
<1>5. /\ page = [i \in 1 .. m |-> s[Skipped(offset) + i]]
      /\ Len(page) = m
  BY <1>1, <1>2, <1>4, CutTypes
<1>6. Range(page) \subseteq S
  BY <1>1, <1>3, <1>5 DEF Range
<1>7. IsInjective(page)
  <2>1. ASSUME NEW i \in 1 .. m, NEW j \in 1 .. m, page[i] = page[j]
        PROVE  i = j
    <3>1. Skipped(offset) + i = Skipped(offset) + j
      BY <1>1, <1>3, <1>5, <2>1
    <3> QED
      BY <1>3, <3>1
  <2> QED
    BY <1>5, <2>1 DEF IsInjective
<1>8. PageLength(Cardinality(S), limit, offset) = m
  BY <1>2, PageLengths
<1> QED
  BY <1>4, <1>5, <1>6, <1>7, <1>8 DEF PageOf

\* The page on which the k-th of n records is, if every page shows `size`.
LEMMA OnePage ==
    ASSUME NEW n \in Nat, NEW k \in 1 .. n, NEW size \in Nat, size > 0
    PROVE  \E p \in 0 .. n :
              /\ p * size < k /\ k <= p * size + size
              /\ \A q \in Nat : q * size < k /\ k <= q * size + size => q = p
<1> DEFINE T == {p \in Nat : k <= p * size + size}
<1>1. k - 1 \in T
  <2>1. k - 1 \in Nat /\ k - 1 <= (k - 1) * size
    OBVIOUS
  <2>2. (k - 1) * size \in Nat
    BY <2>1
  <2> QED
    BY <2>1, <2>2
<1>2. PICK p \in T : \A q \in T : p <= q
  <2>1. T \subseteq Nat
    OBVIOUS
  <2> HIDE DEF T
  <2> QED
    BY <1>1, <2>1, NatLeast
<1>3. p \in 0 .. n
  BY <1>1, <1>2
<1>4. p * size < k
  <2>1. CASE p = 0
    BY <2>1
  <2>2. CASE p # 0
    <3>1. p - 1 \in Nat /\ p - 1 \notin T
      BY <1>2, <1>3, <2>2
    <3>2. (p - 1) * size + size = p * size /\ (p - 1) * size \in Nat
      BY <1>3, <3>1
    <3> QED
      BY <3>1, <3>2
  <2> QED
    BY <2>1, <2>2
<1>5. ASSUME NEW q \in Nat, q * size < k, k <= q * size + size
      PROVE  q = p
  <2>1. p <= q
    BY <1>2, <1>5
  <2>2. ~ (p + 1 <= q)
    <3>1. p \in Nat /\ k <= p * size + size
      BY <1>2
    <3>2. SUFFICES ASSUME p + 1 <= q PROVE FALSE
      OBVIOUS
    <3>3. (p + 1) * size <= q * size
      BY <3>1, <3>2
    <3>4. (p + 1) * size = p * size + size
      BY <3>1
    <3>5. p * size \in Nat /\ q * size \in Nat
      BY <3>1
    <3> QED
      BY <1>5, <3>1, <3>3, <3>4, <3>5
  <2> QED
    BY <1>3, <2>1, <2>2
<1> QED
  BY <1>2, <1>3, <1>4, <1>5

\* Only finitely many records are kept at any time, whatever Data is.
KeptInv ==
    /\ archiveStatus \in [Data -> ArchiveStatus \cup {"absent"}]
    /\ IsFiniteSet({d \in Data : Kept(d)})

LEMMA ResultsOfAll ==
    Results(AllData) = {d \in Data : Kept(d)}
<1>1. Candidates(AllData) = {d \in Data : Kept(d)}
  BY DEF Candidates, AllData
<1> QED
  BY <1>1 DEF Results, AllData, Matches

LEMMA TotalsAgree ==
    KeptInv => DataStats.total = DataStats.count["pending"] + DataStats.count["archived"]
                                    + DataStats.count["failed"]
<1> SUFFICES ASSUME KeptInv
             PROVE  DataStats.total = DataStats.count["pending"] + DataStats.count["archived"]
                                        + DataStats.count["failed"]
  OBVIOUS
<1> DEFINE kept == {d \in Data : Kept(d)}
           In(s) == {d \in Data : archiveStatus[d] = s}
<1>1. \A s \in ArchiveStatus : In(s) \subseteq kept
  BY DEF Kept, ArchiveStatus
<1>2. kept = (In("pending") \cup In("archived")) \cup In("failed")
  BY <1>1 DEF KeptInv, Kept, ArchiveStatus
<1>3. IsFiniteSet(kept)
  BY DEF KeptInv
<1>4. /\ In("pending") \cap In("archived") = {}
      /\ (In("pending") \cup In("archived")) \cap In("failed") = {}
  OBVIOUS
<1>5. /\ DataStats.total = Cardinality(kept)
      /\ \A s \in ArchiveStatus : DataStats.count[s] = Cardinality(In(s))
  BY DEF DataStats
<1> HIDE DEF kept, In
<1>6. \A s \in ArchiveStatus : IsFiniteSet(In(s)) /\ Cardinality(In(s)) \in Nat
  BY <1>1, <1>3, FS_Subset, FS_CardinalityType
<1>7. "pending" \in ArchiveStatus /\ "archived" \in ArchiveStatus /\ "failed" \in ArchiveStatus
  BY DEF ArchiveStatus
<1>8. /\ Cardinality(In("pending") \cup In("archived"))
           = Cardinality(In("pending")) + Cardinality(In("archived"))
      /\ IsFiniteSet(In("pending") \cup In("archived"))
  BY <1>4, <1>6, <1>7, DisjointUnion
<1>9. Cardinality(kept) = Cardinality(In("pending") \cup In("archived")) + Cardinality(In("failed"))
  BY <1>2, <1>4, <1>6, <1>7, <1>8, DisjointUnion
<1> QED
  BY <1>5, <1>7, <1>8, <1>9

\* One page out of one order, whichever way it is cut.
LEMMA PagesCut ==
    ASSUME KeptInv, NEW limit \in Int, NEW offset \in Int
    PROVE  /\ \A s \in SetToSeqs(Results(AllData)) :
                 /\ SlicePage(s, limit, offset) = Cut(s, limit, offset)
                 /\ ListPage(s, limit, offset) = Cut(s, limit, offset)
           /\ \A page \in ListData("any", limit, offset) :
                 PageOf(page, {d \in Data : Kept(d)}, limit, offset)
           /\ \A answer \in SearchData(AllData, "size", TRUE, limit, offset) :
                 /\ answer.total = DataStats.total
                 /\ PageOf(answer.page, {d \in Data : Kept(d)}, limit, offset)
                 /\ \A i, j \in DOMAIN answer.page :
                       i < j => SizeOf[answer.page[i]] <= SizeOf[answer.page[j]]
<1> DEFINE kept == {d \in Data : Kept(d)}
<1>1. IsFiniteSet(kept) /\ kept \subseteq Data
  BY DEF KeptInv
<1>2. PICK n \in Nat : n = Cardinality(kept)
  BY <1>1, FS_CardinalityType
<1>3. Results(AllData) = kept /\ DataStats.total = n
  BY <1>2, ResultsOfAll DEF DataStats
<1>4. {d \in Data : Kept(d) /\ Matches("any", archiveStatus[d])} = kept
  BY DEF Matches
<1>5. \A answer \in SearchData(AllData, "size", TRUE, limit, offset) :
         \E s \in SetToSeqs(kept) :
            /\ answer = [page |-> SlicePage(s, limit, offset), total |-> Len(s)]
            /\ \A i, j \in DOMAIN s : i < j => ~ (SizeOf[s[j]] < SizeOf[s[i]])
  BY <1>3 DEF SearchData, Sortings, Before
<1>6. \A page \in ListData("any", limit, offset) :
         \E s \in SetToSeqs(kept) : page = ListPage(s, limit, offset)
  BY <1>4 DEF ListData
<1> HIDE DEF kept
<1>7. ASSUME NEW s \in SetToSeqs(kept)
      PROVE  /\ IsListing(s, kept, n)
             /\ s \in Seq(kept) /\ Len(s) = n
             /\ SlicePage(s, limit, offset) = Cut(s, limit, offset)
             /\ ListPage(s, limit, offset) = Cut(s, limit, offset)
             /\ PageOf(Cut(s, limit, offset), kept, limit, offset)
  <2>1. IsListing(s, kept, n)
    BY <1>1, <1>2, ListingOfAll
  <2>2. s \in Seq(kept) /\ Len(s) = n
    BY <2>1 DEF IsListing
  <2>3. PageOf(Cut(s, limit, offset), kept, limit, offset)
    BY <1>2, <2>1, CutIsPage
  <2> QED
    BY <2>1, <2>2, <2>3, SliceIsCut, ListIsCut
<1>8. ASSUME NEW answer \in SearchData(AllData, "size", TRUE, limit, offset)
      PROVE  /\ answer.total = n
             /\ PageOf(answer.page, kept, limit, offset)
             /\ \A i, j \in DOMAIN answer.page :
                   i < j => SizeOf[answer.page[i]] <= SizeOf[answer.page[j]]
  <2>1. PICK s \in SetToSeqs(kept) :
              /\ answer = [page |-> SlicePage(s, limit, offset), total |-> Len(s)]
              /\ \A i, j \in DOMAIN s : i < j => ~ (SizeOf[s[j]] < SizeOf[s[i]])
    BY <1>5
  <2>2. answer.total = n /\ answer.page = Cut(s, limit, offset)
    BY <1>7, <2>1
  <2>3. s \in [1 .. n -> kept]
    BY <1>7 DEF IsListing
  <2>4. PICK m \in Nat : m = Shown(n, limit, offset)
    BY PageLengths
  <2>5. answer.page = [i \in 1 .. m |-> s[Skipped(offset) + i]]
    BY <1>7, <2>2, <2>4, CutTypes
  <2>6. ASSUME NEW i \in 1 .. m, NEW j \in 1 .. m, i < j
        PROVE  SizeOf[answer.page[i]] <= SizeOf[answer.page[j]]
    <3>1. Skipped(offset) + i \in 1 .. n /\ Skipped(offset) + j \in 1 .. n
      BY <2>4, PageLengths
    <3>2. Skipped(offset) + i < Skipped(offset) + j
      BY <2>6 DEF Skipped
    <3>3. PICK k \in 1 .. n, l \in 1 .. n :
                k < l /\ answer.page[i] = s[k] /\ answer.page[j] = s[l]
      BY <2>5, <3>1, <3>2
    <3>4. SizeOf[s[k]] \in Int /\ SizeOf[s[l]] \in Int
      BY <1>1, <2>3, DataAssumption
    <3>5. ~ (SizeOf[s[l]] < SizeOf[s[k]])
      BY <2>1, <2>3, <3>3
    <3> QED
      BY <3>3, <3>4, <3>5
  <2> QED
    BY <1>7, <2>2, <2>5, <2>6
<1>9. \A s \in SetToSeqs(Results(AllData)) :
         /\ SlicePage(s, limit, offset) = Cut(s, limit, offset)
         /\ ListPage(s, limit, offset) = Cut(s, limit, offset)
  BY <1>3, <1>7
<1>10. \A page \in ListData("any", limit, offset) : PageOf(page, kept, limit, offset)
  BY <1>6, <1>7
<1> QED
  BY <1>3, <1>8, <1>9, <1>10 DEF kept

Untied == \A d, e \in {d \in Data : Kept(d)} : CreationOf[d] = CreationOf[e] => d = e

\* Records that do not tie are sorted in one way only.
LEMMA SortedInOneWay ==
    ASSUME KeptInv, Untied, NEW ascending \in BOOLEAN
    PROVE  \E s \in SetToSeqs({d \in Data : Kept(d)}) :
              Sortings(Results(AllData), "created_at", ascending) = {s}
<1> DEFINE kept == {d \in Data : Kept(d)}
           before == [d \in kept |-> {e \in kept : Before(d, e, "created_at", ascending)}]
<1>1. IsFiniteSet(kept) /\ \A d \in kept : CreationOf[d] \in Int
  BY DataAssumption DEF KeptInv
<1>2. Results(AllData) = kept
  BY ResultsOfAll
<1>3. \A d, e \in kept : Before(d, e, "created_at", ascending) <=>
                           IF ascending THEN CreationOf[d] < CreationOf[e] ELSE CreationOf[d] > CreationOf[e]
  BY DEF Before
<1>4. before \in [kept -> SUBSET kept]
  OBVIOUS
<1>5. \A d, e \in kept : e \in before[d] <=> Before(d, e, "created_at", ascending)
  OBVIOUS
<1>6. \A d, e \in kept : CreationOf[d] = CreationOf[e] => d = e
  BY DEF Untied
<1> HIDE DEF kept, before
<1>7. \A d, e \in kept : e \in before[d] => d \notin before[e]
  BY <1>1, <1>3, <1>5
<1>8. \A d, e, f \in kept : e \in before[d] /\ f \in before[e] => f \in before[d]
  BY <1>1, <1>3, <1>5
<1>9. \A d, e \in kept : d # e => e \in before[d] \/ d \in before[e]
  BY <1>1, <1>3, <1>5, <1>6
<1>10. PICK s \in SetToSeqs(kept) : InOrder(s, before)
  BY <1>1, <1>4, <1>7, <1>8, SortedListing
<1>11. \A r \in SetToSeqs(kept) : InOrder(r, before) => r = s
  BY <1>1, <1>4, <1>9, <1>10, SortedOnce
<1>12. ASSUME NEW r \in SetToSeqs(kept)
       PROVE  r \in Sortings(kept, "created_at", ascending) <=> InOrder(r, before)
  <2>1. PICK n \in Nat : n = Cardinality(kept)
    BY <1>1, FS_CardinalityType
  <2>2. r \in [1 .. n -> kept]
    BY <1>1, <2>1, ListingOfAll DEF IsListing
  <2>3. \A i, j \in DOMAIN r : r[i] \in before[r[j]] <=> Before(r[j], r[i], "created_at", ascending)
    BY <1>5, <2>2
  <2> QED
    BY <2>3 DEF Sortings, InOrder
<1>13. Sortings(kept, "created_at", ascending) = {s}
  <2>1. \A r \in Sortings(kept, "created_at", ascending) : r \in SetToSeqs(kept)
    BY DEF Sortings
  <2> QED
    BY <1>10, <1>11, <1>12, <2>1
<1> QED
  BY <1>2, <1>10, <1>13 DEF kept

Numbered(size, ascending) == [p \in 0 .. DataStats.total |-> NumberedPage(p, size, ascending)]

MeetAll(pages) ==
    /\ \A p \in DOMAIN pages : Cardinality(pages[p]) = 1
    /\ \A d \in {d \in Data : Kept(d)} :
          Cardinality({p \in DOMAIN pages : \E page \in pages[p] : d \in Range(page)}) = 1

LEMMA BrowsingMeetsAll ==
    ASSUME KeptInv, Untied, NEW ascending \in BOOLEAN, NEW size \in Nat, size > 0
    PROVE  MeetAll(Numbered(size, ascending))
<1> DEFINE kept == {d \in Data : Kept(d)}
<1>0. PICK pages : pages = Numbered(size, ascending)
  OBVIOUS
<1>1. IsFiniteSet(kept)
  BY DEF KeptInv
<1>2. PICK n \in Nat : n = Cardinality(kept)
  BY <1>1, FS_CardinalityType
<1>3. DOMAIN pages = 0 .. n /\ \A p \in 0 .. n : pages[p] = NumberedPage(p, size, ascending)
  BY <1>0, <1>2 DEF DataStats, Numbered
<1>4. PICK s \in SetToSeqs(kept) : Sortings(Results(AllData), "created_at", ascending) = {s}
  BY SortedInOneWay
<1>5. \A p \in 0 .. n : pages[p] = {SlicePage(s, size, p * size)}
  <2> TAKE p \in 0 .. n
  <2>1. PICK o, answer : o = p * size /\ answer = [page |-> SlicePage(s, size, o), total |-> Len(s)]
    OBVIOUS
  <2>2. SearchData(AllData, "created_at", ascending, size, o) = {answer}
    BY <1>4, <2>1 DEF SearchData
  <2>3. NumberedPage(p, size, ascending)
          = {a.page : a \in SearchData(AllData, "created_at", ascending, size, o)}
    BY <2>1 DEF NumberedPage
  <2>4. {a.page : a \in {answer}} = {answer.page}
    OBVIOUS
  <2>5. answer.page = SlicePage(s, size, o)
    BY <2>1
  <2> QED
    BY <1>3, <2>1, <2>2, <2>3, <2>4, <2>5
<1> HIDE DEF kept
<1>6. IsListing(s, kept, n)
  BY <1>1, <1>2, ListingOfAll
<1>7. /\ s \in Seq(kept) /\ Len(s) = n
      /\ \A i, j \in 1 .. n : s[i] = s[j] => i = j
      /\ \A d \in kept : \E i \in 1 .. n : s[i] = d
  BY <1>6 DEF IsListing
<1>8. ASSUME NEW p \in 0 .. n
      PROVE  /\ pages[p] = {Cut(s, size, p * size)}
             /\ \A k \in 1 .. n : s[k] \in Range(Cut(s, size, p * size))
                                     <=> p * size < k /\ k <= p * size + size
  <2>1. PICK o \in Nat : o = p * size
    OBVIOUS
  <2>2. PICK m \in Nat : m = Shown(n, size, o)
    <3>1. size \in Int /\ o \in Int
      OBVIOUS
    <3> QED
      BY <3>1, PageLengths
  <2>3. Skipped(o) = o
    BY DEF Skipped
  <2>4. SlicePage(s, size, o) = Cut(s, size, o)
    BY <1>7, SliceIsCut
  <2>5. Cut(s, size, o) = [i \in 1 .. m |-> s[o + i]]
    BY <1>7, <2>2, <2>3, CutTypes
  <2>6. ASSUME NEW k \in 1 .. n
        PROVE  s[k] \in Range(Cut(s, size, o)) <=> o < k /\ k <= o + size
    <3>1. s[k] \in Range(Cut(s, size, o)) <=> \E i \in 1 .. m : s[o + i] = s[k]
      BY <2>5 DEF Range
    <3>2. \A i \in 1 .. m : o + i \in 1 .. n
      <4>1. size \in Int /\ o \in Int
        OBVIOUS
      <4> QED
        BY <2>2, <2>3, <4>1, PageLengths
    <3>3. (\E i \in 1 .. m : s[o + i] = s[k]) <=> \E i \in 1 .. m : o + i = k
      BY <1>7, <3>2
    <3>4. m = IF o >= n THEN 0 ELSE IF size < n - o THEN size ELSE n - o
      BY <2>2, <2>3 DEF Shown
    <3>5. (\E i \in 1 .. m : o + i = k) <=> k - o \in 1 .. m
      OBVIOUS
    <3>6. k - o \in 1 .. m <=> o < k /\ k <= o + size
      BY <3>4
    <3> QED
      BY <3>1, <3>3, <3>5, <3>6
  <2>7. pages[p] = {Cut(s, size, o)}
    BY <1>5, <2>1, <2>4
  <2> QED
    BY <2>1, <2>6, <2>7
<1>9. \A p \in DOMAIN pages : Cardinality(pages[p]) = 1
  BY <1>3, <1>8, FS_Singleton
<1>10. ASSUME NEW d \in kept
       PROVE  Cardinality({p \in DOMAIN pages : \E page \in pages[p] : d \in Range(page)}) = 1
  <2>1. PICK k \in 1 .. n : s[k] = d
    BY <1>7
  <2>2. PICK p \in 0 .. n :
              /\ p * size < k /\ k <= p * size + size
              /\ \A q \in Nat : q * size < k /\ k <= q * size + size => q = p
    BY OnePage
  <2>3. ASSUME NEW q \in 0 .. n
        PROVE  (\E page \in pages[q] : d \in Range(page)) <=> q * size < k /\ k <= q * size + size
    <3>1. pages[q] = {Cut(s, size, q * size)}
      BY <1>8
    <3>2. d \in Range(Cut(s, size, q * size)) <=> q * size < k /\ k <= q * size + size
      BY <1>8, <2>1
    <3> QED
      BY <3>1, <3>2
  <2>4. \A q \in 0 .. n : (\E page \in pages[q] : d \in Range(page)) <=> q = p
    <3> TAKE q \in 0 .. n
    <3>1. q \in Nat
      OBVIOUS
    <3> QED
      BY <2>2, <2>3, <3>1
  <2>5. {q \in DOMAIN pages : \E page \in pages[q] : d \in Range(page)} = {p}
    BY <1>3, <2>4
  <2> QED
    BY <2>5, FS_Singleton
<1> QED
  BY <1>0, <1>9, <1>10 DEF kept, MeetAll

LEMMA KeptInvSuffices == KeptInv => PagesExact
<1> SUFFICES ASSUME KeptInv
             PROVE  PagesExact
  OBVIOUS
<1>1. \A limit \in Limits : limit \in Int /\ PageLimit(limit) \in Int
  BY DataAssumption DEF PageLimit
<1>2. \A offset \in Offsets : offset \in Int
  BY DataAssumption
<1>3. ASSUME NEW limit \in Limits, NEW offset \in Offsets
      PROVE  /\ \A s \in SetToSeqs(Results(AllData)) :
                   /\ SlicePage(s, limit, offset) = Cut(s, limit, offset)
                   /\ ListPage(s, limit, offset) = Cut(s, limit, offset)
             /\ \A page \in ListData("any", limit, offset) :
                   PageOf(page, {d \in Data : Kept(d)}, limit, offset)
  BY <1>1, <1>2, PagesCut
<1>4. ASSUME NEW limit \in Limits, NEW offset \in Offsets,
             NEW answer \in SearchData(AllData, "size", TRUE, PageLimit(limit), offset)
      PROVE  /\ answer.total = DataStats.total
             /\ PageOf(answer.page, {d \in Data : Kept(d)}, PageLimit(limit), offset)
             /\ \A i, j \in DOMAIN answer.page :
                   i < j => SizeOf[answer.page[i]] <= SizeOf[answer.page[j]]
  BY <1>1, <1>2, <1>4, PagesCut
<1>5. ASSUME Untied, NEW limit \in Limits, NEW ascending \in BOOLEAN, PageLimit(limit) > 0
      PROVE  MeetAll(Numbered(PageLimit(limit), ascending))
  <2>1. PageLimit(limit) \in Nat
    BY <1>1, <1>5
  <2> QED
    BY <1>5, <2>1, BrowsingMeetsAll
<1>6. Untied => \A limit \in Limits, ascending \in BOOLEAN :
                   PageLimit(limit) > 0 => MeetAll(Numbered(PageLimit(limit), ascending))
  BY <1>5
<1> QED
  BY <1>3, <1>4, <1>6, TotalsAgree DEF PagesExact, Untied, MeetAll, Numbered

LEMMA KeptInvStep == KeptInv /\ [DataIndexNext]_dataVars => KeptInv'
<1> SUFFICES ASSUME KeptInv, [DataIndexNext]_dataVars
             PROVE  KeptInv'
  OBVIOUS
<1> DEFINE kept == {d \in Data : Kept(d)}
<1>1. ASSUME NEW d \in Data, AddData(d) PROVE KeptInv'
  <2>1. archiveStatus' \in [Data -> ArchiveStatus \cup {"absent"}] /\ kept' = kept \cup {d}
    BY <1>1 DEF AddData, KeptInv, ArchiveStatus, Kept
  <2>2. IsFiniteSet(kept \cup {d})
    BY FS_AddElement DEF KeptInv
  <2> QED
    BY <2>1, <2>2 DEF KeptInv
<1>2. ASSUME NEW d \in Data, Mark(d, "archived") \/ Mark(d, "failed") PROVE KeptInv'
  <2>1. archiveStatus' \in [Data -> ArchiveStatus \cup {"absent"}] /\ kept' = kept
    BY <1>2 DEF Mark, KeptInv, ArchiveStatus, Kept
  <2> QED
    BY <2>1 DEF KeptInv
<1>3. CASE UNCHANGED dataVars
  BY <1>3 DEF dataVars, KeptInv, Kept
<1> QED
  BY <1>1, <1>2, <1>3 DEF DataIndexNext

\* Listing and searching cut the same pages, each as long as it should be, and
\* whoever reads the pages of a search by date one after another meets every
\* record exactly once, if no two are of the same date.
THEOREM PagesAlwaysExact == DataIndexSpec => []PagesExact
<1>1. DataIndexInit => KeptInv
  <2>1. DataIndexInit => {d \in Data : Kept(d)} = {}
    BY DEF DataIndexInit, Kept
  <2> QED
    BY <2>1, FS_EmptySet DEF DataIndexInit, KeptInv
<1>2. KeptInv /\ [DataIndexNext]_dataVars => KeptInv'
  BY KeptInvStep
<1>3. KeptInv => PagesExact
  BY KeptInvSuffices
<1> QED
  BY <1>1, <1>2, <1>3, PTL DEF DataIndexSpec

=============================================================================
