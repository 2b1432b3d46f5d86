--------------------------- MODULE TaskHeapProofs ---------------------------
(***************************************************************************)
(* The slice of queue.go under container/heap is the bag of ReadyQueue,    *)
(* for any tasks, priorities and times, and for slices of any length.      *)
(***************************************************************************)
EXTENDS TaskHeap, CommonProofs

\* What the loops of up and down carry from turn to turn.
LoopState == {s \in [q : Seq(Tasks), at : Nat] : s.at \in 1 .. Len(s.q)}

-----------------------------------------------------------------------------
(* The order of the queue.                                                  *)

LEMMA LessWeak ==
    ASSUME NEW t \in Tasks, NEW u \in Tasks, NEW v \in Tasks
    PROVE  /\ ~Ready!Less(t, t)
           /\ Ready!Less(t, u) => ~Ready!Less(u, t)
           /\ ~Ready!Less(t, u) /\ ~Ready!Less(u, v) => ~Ready!Less(t, v)
<1>1. \A w \in Tasks : Priority[w] \in Int /\ CreatedAt[w] \in Nat
  BY HeapAssumption
<1> QED
  BY <1>1 DEF Ready!Less

-----------------------------------------------------------------------------
(* One turn and all turns of a loop.                                        *)

\* r is q with the entries i and j changed about.
IsSwap(r, q, i, j) ==
    /\ r \in Seq(Tasks)
    /\ Len(r) = Len(q)
    /\ \A k \in 1 .. Len(q) : r[k] = IF k = j THEN q[i] ELSE IF k = i THEN q[j] ELSE q[k]
    /\ \A t \in Tasks : Queued(r, t) = Queued(q, t)

LEMMA SwapSwaps ==
    ASSUME NEW q \in Seq(Tasks), NEW i \in 1 .. Len(q), NEW j \in 1 .. Len(q)
    PROVE  IsSwap(Swap(q, i, j), q, i, j)
<1>1. \A t \in Tasks : Queued(Swap(q, i, j), t) = Queued(q, t)
  BY QueuedSwapped DEF Swap
<1>2. q[i] \in Tasks /\ q[j] \in Tasks
  OBVIOUS
<1>3. Swap(q, i, j) \in Seq(Tasks) /\ Len(Swap(q, i, j)) = Len(q)
  BY <1>2 DEF Swap
<1>4. \A k \in 1 .. Len(q) :
        Swap(q, i, j)[k] = IF k = j THEN q[i] ELSE IF k = i THEN q[j] ELSE q[k]
  BY <1>2 DEF Swap
<1> QED
  BY <1>1, <1>3, <1>4 DEF IsSwap

LEMMA UpTurnType ==
    ASSUME NEW s \in LoopState
    PROVE  UpTurn(s) \in LoopState
<1>1. s.q \in Seq(Tasks) /\ s.at \in 1 .. Len(s.q)
  BY DEF LoopState
<1>2. CASE UpTurn(s) = s
  BY <1>2
<1>3. CASE s.at \div 2 # 0 /\ UpTurn(s) = [q |-> Swap(s.q, s.at \div 2, s.at), at |-> s.at \div 2]
  <2>1. s.at \div 2 \in 1 .. Len(s.q)
    BY <1>1, <1>3
  <2> QED
    BY <1>1, <1>3, <2>1, SwapSwaps DEF IsSwap, LoopState
<1> QED
  BY <1>2, <1>3 DEF UpTurn

LEMMA DownTurnType ==
    ASSUME NEW s \in LoopState, NEW n \in Nat, n <= Len(s.q)
    PROVE  DownTurn(s, n) \in LoopState /\ Len(DownTurn(s, n).q) = Len(s.q)
<1> DEFINE j == SmallerChild(s.q, s.at, n)
<1>1. s.q \in Seq(Tasks) /\ s.at \in 1 .. Len(s.q)
  BY DEF LoopState
<1>2. CASE DownTurn(s, n) = s
  BY <1>2
<1>3. CASE 2 * s.at <= n /\ DownTurn(s, n) = [q |-> Swap(s.q, s.at, j), at |-> j]
  <2>1. j \in 1 .. Len(s.q)
    BY <1>1, <1>3 DEF SmallerChild
  <2> HIDE DEF j
  <2>2. Swap(s.q, s.at, j) \in Seq(Tasks) /\ Len(Swap(s.q, s.at, j)) = Len(s.q)
    BY <1>1, <2>1, SwapSwaps DEF IsSwap
  <2>3. j \in Nat
    BY <1>1, <2>1
  <2> QED
    BY <1>3, <2>1, <2>2, <2>3 DEF LoopState
<1>4. ~(2 * s.at > n) => 2 * s.at <= n
  BY <1>1
<1> QED
  BY <1>2, <1>3, <1>4 DEF DownTurn

LEMMA UpTurns ==
    ASSUME NEW q \in Seq(Tasks), NEW n \in Nat, n = Len(q), n >= 1
    PROVE  \E turn \in [0 .. n -> LoopState] :
              /\ turn[0] = [q |-> q, at |-> n]
              /\ \A k \in 1 .. n : turn[k] = UpTurn(turn[k - 1])
              /\ Up(q, n) = turn[n].q
<1> DEFINE first == [q |-> q, at |-> n]
           next == [k \in 1 .. n |-> [s \in LoopState |-> UpTurn(s)]]
           Step(g) == [k \in 0 .. n |-> IF k = 0 THEN first ELSE UpTurn(g[k - 1])]
           turn == CHOOSE g : g = Step(g)
<1>1. first \in LoopState
  BY DEF LoopState
<1>2. next \in [1 .. n -> [LoopState -> LoopState]]
  BY UpTurnType
<1>3. Up(q, n) = turn[n].q
  BY DEF Up
<1> HIDE DEF first
<1>4. \E f : f = Step(f)
  <2>1. PICK f \in Recursions(n, LoopState, first, next) : TRUE
    <3> HIDE DEF next
    <3>1. Recursions(n, LoopState, first, next) # {}
      BY <1>1, <1>2, RecursionExists
    <3> QED
      BY <3>1
  <2>2. \A k \in 1 .. n : f[k] = UpTurn(f[k - 1])
    <3> TAKE k \in 1 .. n
    <3>1. f[k - 1] \in LoopState
      BY DEF Recursions
    <3> QED
      BY <3>1 DEF Recursions
  <2>3. \A k \in 0 .. n : f[k] = IF k = 0 THEN first ELSE UpTurn(f[k - 1])
    BY <2>2 DEF Recursions
  <2> QED
    BY <2>3 DEF Recursions
<1>5. turn = Step(turn)
  BY <1>4
<1> HIDE DEF turn
<1>6. turn[0] = first /\ \A k \in 1 .. n : turn[k] = UpTurn(turn[k - 1])
  BY <1>5
<1>7. \A k \in 0 .. n : turn[k] \in LoopState
  <2> DEFINE T == {k \in 0 .. n : turn[k] \in LoopState}
  <2>1. 0 \in T
    BY <1>1, <1>6
  <2>2. \A k \in 0 .. n - 1 : k \in T => k + 1 \in T
    BY <1>6, UpTurnType
  <2> HIDE DEF T
  <2>3. \A k \in 0 .. n : k \in T
    BY <2>1, <2>2, IntervalSteps
  <2> QED
    BY <2>3 DEF T
<1>8. turn \in [0 .. n -> LoopState]
  BY <1>5, <1>7
<1> QED
  BY <1>3, <1>6, <1>8 DEF first

LEMMA DownTurns ==
    ASSUME NEW q \in Seq(Tasks), q # <<>>, NEW n \in Nat, n <= Len(q)
    PROVE  \E turn \in [0 .. n -> {s \in LoopState : Len(s.q) = Len(q)}] :
              /\ turn[0] = [q |-> q, at |-> 1]
              /\ \A k \in 1 .. n : turn[k] = DownTurn(turn[k - 1], n)
              /\ Down(q, 1, n) = turn[n].q
<1> DEFINE S == {s \in LoopState : Len(s.q) = Len(q)}
           first == [q |-> q, at |-> 1]
           next == [k \in 1 .. n |-> [s \in S |-> DownTurn(s, n)]]
           Step(g) == [k \in 0 .. n |-> IF k = 0 THEN first ELSE DownTurn(g[k - 1], n)]
           turn == CHOOSE g : g = Step(g)
<1>1. first \in S
  BY DEF LoopState
<1>2. \A s \in S : DownTurn(s, n) \in S
  BY DownTurnType
<1>3. Down(q, 1, n) = turn[n].q
  BY DEF Down
<1> HIDE DEF first, S
<1>4. \E f : f = Step(f)
  <2>1. PICK f \in Recursions(n, S, first, next) : TRUE
    <3>1. next \in [1 .. n -> [S -> S]]
      BY <1>2
    <3> HIDE DEF next
    <3> QED
      BY <1>1, <3>1, RecursionExists
  <2>2. \A k \in 1 .. n : f[k] = DownTurn(f[k - 1], n)
    <3> TAKE k \in 1 .. n
    <3>1. f[k - 1] \in S
      BY DEF Recursions
    <3> QED
      BY <3>1 DEF Recursions
  <2>3. \A k \in 0 .. n : f[k] = IF k = 0 THEN first ELSE DownTurn(f[k - 1], n)
    BY <2>2 DEF Recursions
  <2> QED
    BY <2>3 DEF Recursions
<1>5. turn = Step(turn)
  BY <1>4
<1> HIDE DEF turn
<1>6. turn[0] = first /\ \A k \in 1 .. n : turn[k] = DownTurn(turn[k - 1], n)
  BY <1>5
<1>7. \A k \in 0 .. n : turn[k] \in S
  <2> DEFINE T == {k \in 0 .. n : turn[k] \in S}
  <2>1. 0 \in T
    BY <1>1, <1>6
  <2>2. \A k \in 0 .. n - 1 : k \in T => k + 1 \in T
    BY <1>2, <1>6
  <2> HIDE DEF T
  <2>3. \A k \in 0 .. n : k \in T
    BY <2>1, <2>2, IntervalSteps
  <2> QED
    BY <2>3 DEF T
<1>8. turn \in [0 .. n -> S]
  BY <1>5, <1>7
<1> QED
  BY <1>3, <1>6, <1>8 DEF first, S

-----------------------------------------------------------------------------
(* The order of the slice: among the first n entries none precedes its      *)
(* parent.                                                                  *)

Ordered(q, n) == \A k \in 2 .. n : ~Ready!Less(q[k], q[k \div 2])

LEMMA OrderedTop ==
    ASSUME NEW q \in Seq(Tasks), Ordered(q, Len(q))
    PROVE  \A k \in 1 .. Len(q) : ~Ready!Less(q[k], q[1])
<1> DEFINE Bad == {k \in 1 .. Len(q) : Ready!Less(q[k], q[1])}
<1> SUFFICES ASSUME Bad # {}
             PROVE  FALSE
  OBVIOUS
<1>1. PICK k \in Bad : \A l \in Bad : k <= l
  <2>1. Bad \subseteq Nat
    OBVIOUS
  <2> HIDE DEF Bad
  <2> QED
    BY <2>1, NatLeast
<1>2. k \in 1 .. Len(q) /\ q[1] \in Tasks /\ q[k] \in Tasks
  OBVIOUS
<1>3. k \in 2 .. Len(q)
  BY <1>1, <1>2, LessWeak
<1>4. k \div 2 \in 1 .. Len(q) /\ k \div 2 < k
  BY <1>3
<1>5. q[k \div 2] \in Tasks
  BY <1>4
<1>6. ~Ready!Less(q[k \div 2], q[1])
  BY <1>1, <1>4
<1>7. ~Ready!Less(q[k], q[k \div 2])
  BY <1>3 DEF Ordered
<1> QED
  BY <1>1, <1>2, <1>5, <1>6, <1>7, LessWeak

-----------------------------------------------------------------------------
(* The loop of up: only the entry at s.at may precede its parent, and what  *)
(* is below it does not precede that parent either.                         *)

Rising(s, q) ==
    /\ s \in LoopState
    /\ Len(s.q) = Len(q)
    /\ \A t \in Tasks : Queued(s.q, t) = Queued(q, t)
    /\ \A k \in 2 .. Len(q) : k # s.at => ~Ready!Less(s.q[k], s.q[k \div 2])
    /\ \A k \in 2 .. Len(q) :
          k \div 2 = s.at /\ s.at >= 2 => ~Ready!Less(s.q[k], s.q[s.at \div 2])

Risen(s) == s.at = 1 \/ ~Ready!Less(s.q[s.at], s.q[s.at \div 2])

LEMMA RisingTurn ==
    ASSUME NEW q \in Seq(Tasks), NEW s, Rising(s, q)
    PROVE  /\ Rising(UpTurn(s), q)
           /\ IF Risen(s) THEN UpTurn(s) = s ELSE UpTurn(s).at < s.at
<1> DEFINE i == s.at \div 2
<1>1. PICK n \in Nat : n = Len(q) /\ n = Len(s.q)
  BY DEF Rising, LoopState
<1>2. s.q \in Seq(Tasks) /\ s.at \in 1 .. n /\ s.at \in Nat
  BY <1>1 DEF Rising, LoopState
<1>3. CASE Risen(s)
  <2>1. s.at = 1 => s.at \div 2 = 0
    OBVIOUS
  <2>2. UpTurn(s) = s
    BY <1>3, <2>1 DEF Risen, UpTurn
  <2> QED
    BY <1>3, <2>2
<1>4. CASE ~Risen(s)
  <2>1. i \in 1 .. n /\ i < s.at /\ s.at >= 2
    BY <1>2, <1>4 DEF Risen
  <2>2. UpTurn(s) = [q |-> Swap(s.q, i, s.at), at |-> i] /\ Ready!Less(s.q[s.at], s.q[i])
    BY <1>4, <2>1 DEF Risen, UpTurn
  <2> DEFINE r == Swap(s.q, i, s.at)
  <2>3. /\ r \in Seq(Tasks) /\ Len(r) = n
        /\ \A k \in 1 .. n : r[k] = IF k = s.at THEN s.q[i] ELSE IF k = i THEN s.q[s.at] ELSE s.q[k]
        /\ \A t \in Tasks : Queued(r, t) = Queued(s.q, t)
    <3>1. i \in 1 .. Len(s.q) /\ s.at \in 1 .. Len(s.q)
      BY <1>1, <1>2, <2>1
    <3> HIDE DEF i
    <3>2. IsSwap(r, s.q, i, s.at)
      BY <1>2, <3>1, SwapSwaps
    <3> HIDE DEF r
    <3> QED
      BY <1>1, <3>2 DEF IsSwap
  <2> HIDE DEF r
  <2>4. \A k \in 1 .. n : s.q[k] \in Tasks
    BY <1>1, <1>2
  <2>5. ASSUME NEW k \in 2 .. n, k # i PROVE ~Ready!Less(r[k], r[k \div 2])
    <3>1. k \in 1 .. n /\ k \div 2 \in 1 .. n
      BY <2>5
    <3>2. CASE k = s.at
      <4>1. r[k] = s.q[i] /\ r[k \div 2] = s.q[s.at]
        BY <2>1, <2>3, <3>1, <3>2
      <4> QED
        BY <2>1, <2>2, <2>4, <3>1, <3>2, <4>1, LessWeak
    <3>3. CASE k # s.at /\ k \div 2 = s.at
      <4>1. r[k] = s.q[k] /\ r[k \div 2] = s.q[i]
        BY <2>3, <2>5, <3>1, <3>3
      <4> QED
        BY <1>1, <2>1, <3>3, <4>1 DEF Rising
    <3>4. CASE k # s.at /\ k \div 2 = i
      <4>1. r[k] = s.q[k] /\ r[k \div 2] = s.q[s.at]
        BY <2>1, <2>3, <2>5, <3>1, <3>4
      <4>2. ~Ready!Less(s.q[k], s.q[i])
        BY <1>1, <3>4 DEF Rising
      <4> QED
        BY <2>1, <2>2, <2>4, <3>1, <4>1, <4>2, <1>2, LessWeak
    <3>5. CASE k # s.at /\ k \div 2 # s.at /\ k \div 2 # i
      <4>1. r[k] = s.q[k] /\ r[k \div 2] = s.q[k \div 2]
        BY <2>3, <2>5, <3>1, <3>5
      <4> QED
        BY <1>1, <3>5, <4>1 DEF Rising
    <3> QED
      BY <3>2, <3>3, <3>4, <3>5
  <2>6. ASSUME NEW k \in 2 .. n, k \div 2 = i, i >= 2 PROVE ~Ready!Less(r[k], r[i \div 2])
    <3>1. k \in 1 .. n /\ i \div 2 \in 1 .. n /\ i \div 2 < i /\ k # i /\ i \in 2 .. n
      BY <2>1, <2>6
    <3>2. ~Ready!Less(s.q[i], s.q[i \div 2])
      BY <1>1, <2>1, <3>1 DEF Rising
    <3>3. r[i \div 2] = s.q[i \div 2]
      BY <2>1, <2>3, <3>1
    <3>4. CASE k = s.at
      BY <2>3, <3>1, <3>2, <3>3, <3>4
    <3>5. CASE k # s.at
      <4>1. r[k] = s.q[k]
        BY <2>3, <3>1, <3>5
      <4>2. ~Ready!Less(s.q[k], s.q[i])
        BY <1>1, <2>6, <3>5 DEF Rising
      <4> QED
        BY <2>1, <2>4, <3>1, <3>2, <3>3, <4>1, <4>2, LessWeak
    <3> QED
      BY <3>4, <3>5
  <2>7. [q |-> r, at |-> i] \in LoopState
    BY <2>1, <2>3 DEF LoopState
  <2>8. Rising([q |-> r, at |-> i], q)
    BY <1>1, <2>3, <2>5, <2>6, <2>7 DEF Rising
  <2> QED
    BY <1>4, <2>1, <2>2, <2>8 DEF r
<1> QED
  BY <1>3, <1>4

\* With an entry at its end that may precede any other, what is in order goes
\* up into order.
LEMMA UpOrders ==
    ASSUME NEW q \in Seq(Tasks), NEW n \in Nat, n = Len(q), n >= 1, Ordered(q, n - 1)
    PROVE  /\ Up(q, n) \in Seq(Tasks)
           /\ Len(Up(q, n)) = n
           /\ Ordered(Up(q, n), n)
           /\ \A t \in Tasks : Queued(Up(q, n), t) = Queued(q, t)
<1>1. PICK turn \in [0 .. n -> LoopState] :
         /\ turn[0] = [q |-> q, at |-> n]
         /\ \A k \in 1 .. n : turn[k] = UpTurn(turn[k - 1])
         /\ Up(q, n) = turn[n].q
  BY UpTurns
<1> DEFINE T == {k \in 0 .. n : Rising(turn[k], q) /\ (Risen(turn[k]) \/ turn[k].at <= n - k)}
<1>2. 0 \in T
  <2>1. turn[0] \in LoopState
    BY <1>1
  <2>2. \A k \in 2 .. n : k # n => ~Ready!Less(q[k], q[k \div 2])
    BY DEF Ordered
  <2>3. \A k \in 2 .. n : k \div 2 # n
    OBVIOUS
  <2> QED
    BY <1>1, <2>1, <2>2, <2>3 DEF Rising
<1>3. ASSUME NEW k \in 0 .. n - 1, k \in T PROVE k + 1 \in T
  <2>1. turn[k + 1] = UpTurn(turn[k])
    BY <1>1
  <2>2. /\ Rising(turn[k + 1], q)
        /\ IF Risen(turn[k]) THEN turn[k + 1] = turn[k] ELSE turn[k + 1].at < turn[k].at
    BY <1>3, <2>1, RisingTurn
  <2>3. turn[k].at \in Nat /\ turn[k + 1].at \in Nat
    BY <1>1 DEF LoopState
  <2> QED
    BY <1>3, <2>2, <2>3
<1>4. n \in T
  <2> HIDE DEF T
  <2>1. \A k \in 0 .. n : k \in T
    BY <1>2, <1>3, IntervalSteps
  <2> QED
    BY <2>1
<1>5. Rising(turn[n], q) /\ Risen(turn[n])
  <2>1. turn[n].at \in Nat /\ turn[n].at >= 1
    BY <1>1 DEF LoopState
  <2> QED
    BY <1>4, <2>1
<1>6. ASSUME NEW k \in 2 .. n PROVE ~Ready!Less(turn[n].q[k], turn[n].q[k \div 2])
  <2>1. CASE k = turn[n].at
    BY <1>5, <2>1 DEF Risen
  <2>2. CASE k # turn[n].at
    BY <1>5, <2>2 DEF Rising
  <2> QED
    BY <2>1, <2>2
<1> QED
  BY <1>1, <1>5, <1>6 DEF Ordered, Rising, LoopState

-----------------------------------------------------------------------------
(* The loop of down, over the first n entries: only what is below s.at may  *)
(* precede it, and does not precede its parent.                             *)

Sinking(s, q, n) ==
    /\ s \in LoopState
    /\ Len(s.q) = Len(q)
    /\ \A k \in n + 1 .. Len(q) : s.q[k] = q[k]
    /\ \A t \in Tasks : Queued(s.q, t) = Queued(q, t)
    /\ \A k \in 2 .. n : k \div 2 # s.at => ~Ready!Less(s.q[k], s.q[k \div 2])
    /\ \A k \in 2 .. n :
          k \div 2 = s.at /\ s.at >= 2 => ~Ready!Less(s.q[k], s.q[s.at \div 2])

Sunk(s, n) ==
    2 * s.at > n \/ ~Ready!Less(s.q[SmallerChild(s.q, s.at, n)], s.q[s.at])

\* None of the children precedes the smaller one.
LEMMA SmallerChildFirst ==
    ASSUME NEW q \in Seq(Tasks), NEW n \in Nat, n <= Len(q),
           NEW i \in Nat, i >= 1, 2 * i <= n
    PROVE  /\ SmallerChild(q, i, n) \in 2 .. n
           /\ SmallerChild(q, i, n) \div 2 = i
           /\ \A k \in 2 .. n : k \div 2 = i => ~Ready!Less(q[k], q[SmallerChild(q, i, n)])
<1>1. \A k \in 2 .. n : q[k] \in Tasks
  <2>1. PICK m \in Nat : m = Len(q)
    OBVIOUS
  <2> QED
    BY <2>1
<1>2. \A k \in 2 .. n : k \div 2 = i <=> k = 2 * i \/ k = 2 * i + 1
  OBVIOUS
<1>3. 2 * i \in 2 .. n /\ (2 * i < n => 2 * i + 1 \in 2 .. n)
  OBVIOUS
<1>4. CASE 2 * i < n /\ Ready!Less(q[2 * i + 1], q[2 * i])
  <2>1. SmallerChild(q, i, n) = 2 * i + 1
    BY <1>4 DEF SmallerChild
  <2>2. ~Ready!Less(q[2 * i], q[2 * i + 1]) /\ ~Ready!Less(q[2 * i + 1], q[2 * i + 1])
    BY <1>1, <1>3, <1>4, LessWeak
  <2> QED
    BY <1>2, <1>3, <1>4, <2>1, <2>2
<1>5. CASE ~(2 * i < n /\ Ready!Less(q[2 * i + 1], q[2 * i]))
  <2>1. SmallerChild(q, i, n) = 2 * i
    BY <1>5 DEF SmallerChild
  <2>2. ~Ready!Less(q[2 * i], q[2 * i])
    BY <1>1, <1>3, LessWeak
  <2>3. 2 * i + 1 \in 2 .. n => 2 * i < n
    OBVIOUS
  <2> QED
    BY <1>2, <1>3, <1>5, <2>1, <2>2, <2>3
<1> QED
  BY <1>4, <1>5

LEMMA SinkingTurn ==
    ASSUME NEW q \in Seq(Tasks), NEW n \in Nat, n <= Len(q), NEW s, Sinking(s, q, n)
    PROVE  /\ Sinking(DownTurn(s, n), q, n)
           /\ IF Sunk(s, n) THEN DownTurn(s, n) = s ELSE DownTurn(s, n).at > s.at
<1> DEFINE i == s.at
           j == SmallerChild(s.q, s.at, n)
<1>1. PICK m \in Nat : m = Len(q) /\ m = Len(s.q) /\ n <= m
  BY DEF Sinking, LoopState
<1>2. s.q \in Seq(Tasks) /\ i \in 1 .. m /\ i \in Nat /\ i >= 1
  BY <1>1 DEF Sinking, LoopState
<1>3. CASE Sunk(s, n)
  <2>1. DownTurn(s, n) = s
    BY <1>3 DEF Sunk, DownTurn
  <2> QED
    BY <1>3, <2>1
<1>4. CASE ~Sunk(s, n)
  <2>1. 2 * i <= n /\ Ready!Less(s.q[j], s.q[i]) /\ DownTurn(s, n) = [q |-> Swap(s.q, i, j), at |-> j]
    BY <1>2, <1>4 DEF Sunk, DownTurn
  <2>2. /\ j \in 2 .. n /\ j \div 2 = i
        /\ \A k \in 2 .. n : k \div 2 = i => ~Ready!Less(s.q[k], s.q[j])
    BY <1>1, <1>2, <2>1, SmallerChildFirst
  <2> HIDE DEF j
  <2>3. i < j /\ j \in 1 .. m /\ i \in 1 .. n
    BY <1>1, <1>2, <2>1, <2>2
  <2> DEFINE r == Swap(s.q, i, j)
  <2>4. /\ r \in Seq(Tasks) /\ Len(r) = m
        /\ \A k \in 1 .. m : r[k] = IF k = j THEN s.q[i] ELSE IF k = i THEN s.q[j] ELSE s.q[k]
        /\ \A t \in Tasks : Queued(r, t) = Queued(s.q, t)
    <3>1. i \in 1 .. Len(s.q) /\ j \in 1 .. Len(s.q)
      BY <1>1, <1>2, <2>3
    <3> HIDE DEF i
    <3>2. IsSwap(r, s.q, i, j)
      BY <1>2, <3>1, SwapSwaps
    <3> HIDE DEF r
    <3> QED
      BY <1>1, <3>2 DEF IsSwap
  <2> HIDE DEF r
  <2>5. \A k \in 1 .. m : s.q[k] \in Tasks
    BY <1>1, <1>2
  <2>6. ASSUME NEW k \in 2 .. n, k \div 2 # j PROVE ~Ready!Less(r[k], r[k \div 2])
    <3>1. k \in 1 .. m /\ k \div 2 \in 1 .. m
      BY <1>1
    <3>2. CASE k = j
      <4>1. r[k] = s.q[i] /\ r[k \div 2] = s.q[j]
        BY <2>2, <2>3, <2>4, <3>1, <3>2
      <4> QED
        BY <1>2, <2>1, <2>3, <2>5, <4>1, LessWeak
    <3>3. CASE k # j /\ k \div 2 = i
      <4>1. r[k] = s.q[k] /\ r[k \div 2] = s.q[j]
        BY <2>3, <2>4, <3>1, <3>3
      <4> QED
        BY <2>2, <3>3, <4>1
    <3>4. CASE k = i
      <4>1. r[k] = s.q[j] /\ r[k \div 2] = s.q[k \div 2]
        BY <2>3, <2>4, <2>6, <3>1, <3>4
      <4>2. ~Ready!Less(s.q[j], s.q[i \div 2])
        BY <1>1, <2>2, <3>4 DEF Sinking
      <4> QED
        BY <3>4, <4>1, <4>2
    <3>5. CASE k # j /\ k # i /\ k \div 2 # i
      <4>1. r[k] = s.q[k] /\ r[k \div 2] = s.q[k \div 2]
        BY <2>4, <2>6, <3>1, <3>5
      <4> QED
        BY <3>5, <4>1 DEF Sinking
    <3> QED
      BY <3>2, <3>3, <3>4, <3>5
  <2>7. ASSUME NEW k \in 2 .. n, k \div 2 = j PROVE ~Ready!Less(r[k], r[j \div 2])
    <3>1. k \in 1 .. m /\ k # i /\ k # j /\ k \div 2 # i
      BY <1>1, <2>3, <2>7
    <3>2. r[k] = s.q[k] /\ r[j \div 2] = s.q[j]
      BY <2>2, <2>3, <2>4, <3>1, <1>2
    <3>3. ~Ready!Less(s.q[k], s.q[k \div 2])
      BY <3>1 DEF Sinking
    <3> QED
      BY <2>7, <3>2, <3>3
  <2>8. [q |-> r, at |-> j] \in LoopState
    BY <2>3, <2>4 DEF LoopState
  <2>9. \A k \in n + 1 .. Len(q) : r[k] = q[k]
    <3> TAKE k \in n + 1 .. Len(q)
    <3>1. k \in 1 .. m /\ k # i /\ k # j /\ s.q[k] = q[k]
      BY <1>1, <2>2, <2>3 DEF Sinking
    <3> QED
      BY <2>4, <3>1
  <2>10. Sinking([q |-> r, at |-> j], q, n)
    BY <1>1, <2>4, <2>6, <2>7, <2>8, <2>9 DEF Sinking
  <2> QED
    BY <1>4, <2>1, <2>3, <2>10 DEF r
<1> QED
  BY <1>3, <1>4

\* With any entry at its top, what is in order goes down into order, and the
\* last entry stays out of it.
LEMMA DownOrders ==
    ASSUME NEW q \in Seq(Tasks), NEW n \in Nat, n + 1 = Len(q),
           \A k \in 2 .. n : k \div 2 # 1 => ~Ready!Less(q[k], q[k \div 2])
    PROVE  /\ Down(q, 1, n) \in Seq(Tasks)
           /\ Len(Down(q, 1, n)) = n + 1
           /\ Down(q, 1, n)[n + 1] = q[n + 1]
           /\ Ordered(Down(q, 1, n), n)
           /\ \A t \in Tasks : Queued(Down(q, 1, n), t) = Queued(q, t)
<1>0. q # <<>> /\ n <= Len(q)
  OBVIOUS
<1>1. PICK turn \in [0 .. n -> {s \in LoopState : Len(s.q) = Len(q)}] :
         /\ turn[0] = [q |-> q, at |-> 1]
         /\ \A k \in 1 .. n : turn[k] = DownTurn(turn[k - 1], n)
         /\ Down(q, 1, n) = turn[n].q
  BY <1>0, DownTurns
<1> DEFINE T == {k \in 0 .. n : Sinking(turn[k], q, n) /\ (Sunk(turn[k], n) \/ turn[k].at > k)}
<1>2. 0 \in T
  <2>1. turn[0] \in LoopState
    BY <1>1
  <2> QED
    BY <1>1, <2>1 DEF Sinking
<1>3. ASSUME NEW k \in 0 .. n - 1, k \in T PROVE k + 1 \in T
  <2>1. turn[k + 1] = DownTurn(turn[k], n)
    BY <1>1
  <2>2. /\ Sinking(turn[k + 1], q, n)
        /\ IF Sunk(turn[k], n) THEN turn[k + 1] = turn[k] ELSE turn[k + 1].at > turn[k].at
    BY <1>0, <1>3, <2>1, SinkingTurn
  <2>3. turn[k].at \in Nat /\ turn[k + 1].at \in Nat
    BY <1>1 DEF LoopState
  <2> QED
    BY <1>3, <2>2, <2>3
<1>4. n \in T
  <2> HIDE DEF T
  <2>1. \A k \in 0 .. n : k \in T
    BY <1>2, <1>3, IntervalSteps
  <2> QED
    BY <2>1
<1> DEFINE r == turn[n].q
           i == turn[n].at
<1>5. Sinking(turn[n], q, n) /\ Sunk(turn[n], n) /\ r \in Seq(Tasks) /\ i \in Nat /\ i >= 1 /\ Len(r) = n + 1
  <2>1. r \in Seq(Tasks) /\ i \in Nat /\ i >= 1 /\ Len(r) = n + 1
    BY <1>1 DEF LoopState
  <2>2. i > n => 2 * i > n
    BY <2>1
  <2> QED
    BY <1>4, <2>1, <2>2 DEF Sunk
<1>6. ASSUME NEW k \in 2 .. n PROVE ~Ready!Less(r[k], r[k \div 2])
  <2>1. CASE k \div 2 = i
    <3>1. 2 * i <= n
      BY <2>1
    <3> DEFINE j == SmallerChild(r, i, n)
    <3>2. j \in 2 .. n /\ ~Ready!Less(r[k], r[j])
      <4>1. r \in Seq(Tasks) /\ n <= Len(r) /\ i \in Nat /\ i >= 1
        BY <1>5
      <4> HIDE DEF r, i
      <4>2. \A l \in 2 .. n : l \div 2 = i => ~Ready!Less(r[l], r[j])
        BY <3>1, <4>1, SmallerChildFirst
      <4>3. j \in 2 .. n
        BY <3>1, <4>1, SmallerChildFirst
      <4> QED
        BY <2>1, <4>2, <4>3
    <3>3. ~Ready!Less(r[j], r[i])
      BY <1>5, <3>1 DEF Sunk
    <3> HIDE DEF j
    <3>4. r[k] \in Tasks /\ r[j] \in Tasks /\ r[i] \in Tasks
      BY <1>5, <3>1, <3>2
    <3> QED
      BY <2>1, <3>2, <3>3, <3>4, LessWeak
  <2>2. CASE k \div 2 # i
    BY <1>5, <2>2 DEF Sinking
  <2> QED
    BY <2>1, <2>2
<1>7. Ordered(r, n)
  BY <1>6 DEF Ordered
<1>8. r[n + 1] = q[n + 1]
  BY <1>5 DEF Sinking
<1>9. \A t \in Tasks : Queued(r, t) = Queued(q, t)
  BY <1>5 DEF Sinking
<1> QED
  BY <1>1, <1>5, <1>7, <1>8, <1>9

-----------------------------------------------------------------------------
(* The slice is the bag.  The bag alone is not inductive: what is popped is *)
(* a head because the slice is in order.                                    *)

HeapInv == heap \in Seq(Tasks) /\ Ordered(heap, Len(heap))

LEMMA PushStep ==
    ASSUME HeapInv, NEW t \in Tasks, HeapPush(t)
    PROVE  HeapInv' /\ Ready!Push(t)
<1>1. PICK n \in Nat : n = Len(heap) + 1 /\ n >= 1 /\ n - 1 = Len(heap)
  BY DEF HeapInv
<1> DEFINE q == Append(heap, t)
<1>2. q \in Seq(Tasks) /\ n = Len(q) /\ \A k \in 1 .. n - 1 : q[k] = heap[k]
  BY <1>1 DEF HeapInv
<1>3. Ordered(q, n - 1)
  <2>1. \A k \in 2 .. n - 1 : k \in 1 .. n - 1 /\ k \div 2 \in 1 .. n - 1
    OBVIOUS
  <2> QED
    BY <1>1, <1>2, <2>1 DEF HeapInv, Ordered
<1>4. heap' = Up(q, n)
  BY <1>1 DEF HeapPush
<1>5. \A u \in Tasks : Queued(q, u) = Queued(heap, u) + Count(t = u)
  BY QueuedAppend DEF HeapInv
<1> HIDE DEF q
<1>6. HeapInv' /\ \A u \in Tasks : Queued(heap', u) = Queued(q, u)
  BY <1>1, <1>2, <1>3, <1>4, UpOrders DEF HeapInv
<1>7. Entries' = [Entries EXCEPT ![t] = @ + 1]
  <2>1. \A u \in Tasks : Queued(heap, u) \in Nat
    BY QueuedNat DEF HeapInv
  <2>2. \A u \in Tasks : Queued(heap', u) = Queued(heap, u) + IF u = t THEN 1 ELSE 0
    BY <1>5, <1>6, <2>1 DEF Count
  <2>3. \A u \in Tasks : Queued(heap', u) = IF u = t THEN Queued(heap, u) + 1 ELSE Queued(heap, u)
    BY <2>1, <2>2
  <2> QED
    BY <2>3 DEF Entries
<1> QED
  BY <1>6, <1>7 DEF Ready!Push

LEMMA PopStep ==
    ASSUME HeapInv, HeapPop
    PROVE  HeapInv' /\ \E t \in Tasks : Ready!IsHead(t) /\ Ready!PopHead(t)
<1>1. PICK n \in Nat : n + 1 = Len(heap)
  BY DEF HeapInv, HeapPop
<1> DEFINE q == Swap(heap, 1, Len(heap))
           r == Down(q, 1, n)
           t == heap[1]
<1>2. IsSwap(q, heap, 1, Len(heap))
  <2>1. 1 \in 1 .. Len(heap) /\ Len(heap) \in 1 .. Len(heap)
    BY <1>1
  <2> QED
    BY <2>1, SwapSwaps DEF HeapInv
<1>3. /\ q \in Seq(Tasks) /\ n + 1 = Len(q) /\ q[n + 1] = t /\ t \in Tasks
      /\ \A k \in 2 .. n : q[k] = heap[k]
      /\ \A u \in Tasks : Queued(q, u) = Queued(heap, u)
  BY <1>1, <1>2 DEF IsSwap, HeapInv
<1>4. heap' = SubSeq(r, 1, Len(r) - 1)
  <2>1. Len(heap) - 1 = n
    BY <1>1
  <2> QED
    BY <2>1 DEF HeapPop, Front
<1> HIDE DEF q
<1>5. \A k \in 2 .. n : k \div 2 # 1 => ~Ready!Less(q[k], q[k \div 2])
  <2> TAKE k \in 2 .. n
  <2>1. k \div 2 # 1 => k \div 2 \in 2 .. n
    OBVIOUS
  <2>2. k \in 2 .. Len(heap)
    BY <1>1
  <2> QED
    BY <1>3, <2>1, <2>2 DEF HeapInv, Ordered
<1>6. /\ r \in Seq(Tasks) /\ Len(r) = n + 1 /\ r[n + 1] = t /\ Ordered(r, n)
      /\ \A u \in Tasks : Queued(r, u) = Queued(heap, u)
  BY <1>3, <1>5, DownOrders
<1> HIDE DEF r
<1>7. HeapInv'
  <2>1. heap' = SubSeq(r, 1, n)
    BY <1>4, <1>6
  <2>2. \A k \in 1 .. n : r[k] \in Tasks
    BY <1>6
  <2>3. /\ SubSeq(r, 1, n) \in Seq(Tasks)
        /\ Len(SubSeq(r, 1, n)) = IF 1 <= n THEN n - 1 + 1 ELSE 0
        /\ \A k \in 1 .. n - 1 + 1 : SubSeq(r, 1, n)[k] = r[1 + k - 1]
    BY <2>2, SubSeqProperties
  <2>4. Len(heap') = n /\ heap' \in Seq(Tasks)
    BY <2>1, <2>3
  <2>5. ASSUME NEW k \in 1 .. n PROVE heap'[k] = r[k]
    <3>1. k \in 1 .. n - 1 + 1 /\ 1 + k - 1 = k
      OBVIOUS
    <3> QED
      BY <2>1, <2>3, <3>1
  <2>6. Ordered(heap', n)
    <3>1. \A k \in 2 .. n : k \in 1 .. n /\ k \div 2 \in 1 .. n
      OBVIOUS
    <3> QED
      BY <1>6, <2>5, <3>1 DEF Ordered
  <2> QED
    BY <2>4, <2>6 DEF HeapInv
<1>8. \A u \in Tasks : Queued(heap, u) \in Nat /\ Queued(heap', u) \in Nat
  BY <1>7, QueuedNat DEF HeapInv
<1>9. \A u \in Tasks : Queued(heap', u) = Queued(heap, u) - Count(u = t)
  <2> TAKE u \in Tasks
  <2>1. r # <<>>
    BY <1>6
  <2>2. Queued(r, u) = Queued(SubSeq(r, 1, Len(r) - 1), u) + Count(r[Len(r)] = u)
    BY <1>6, <2>1, QueuedShorter
  <2>3. Queued(heap, u) = Queued(heap', u) + Count(t = u)
    BY <1>4, <1>6, <2>2
  <2> QED
    BY <1>8, <2>3 DEF Count
<1>10. Ready!PopHead(t)
  <2>1. Entries' = [Entries EXCEPT ![t] = @ - 1]
    BY <1>3, <1>8, <1>9 DEF Entries, Count
  <2> QED
    BY <2>1 DEF Ready!PopHead
<1>11. Ready!IsHead(t)
  <2>1. \A u \in Tasks : Queued(heap, u) > 0 <=> \E k \in 1 .. Len(heap) : heap[k] = u
    BY QueuedSomewhere DEF HeapInv
  <2>2. \A k \in 1 .. Len(heap) : ~Ready!Less(heap[k], heap[1])
    BY OrderedTop DEF HeapInv
  <2>3. 1 \in 1 .. Len(heap)
    BY <1>1
  <2>4. \A u \in Tasks : Entries[u] = Queued(heap, u)
    BY DEF Entries
  <2> QED
    BY <1>3, <2>1, <2>2, <2>3, <2>4 DEF Ready!IsHead
<1> QED
  BY <1>3, <1>7, <1>10, <1>11

\* The heap of queue.go, whatever is pushed and popped in whatever order, is
\* the bag on which the scheduler relies: no entry is lost or doubled on the
\* way up and down, and Pop returns one that no other precedes.
THEOREM HeapImplementsQueue == HeapSpec => QueueImplemented
<1>1. HeapInit => HeapInv /\ Ready!ReadyQueueInit
  <2>1. \A t \in Tasks : Queued(<<>>, t) = 0
    BY QueuedEmpty
  <2> QED
    BY <2>1 DEF HeapInit, HeapInv, Ordered, Ready!ReadyQueueInit, Entries
<1>2. HeapInv /\ [HeapNext]_heap
        => HeapInv' /\ [\E t \in Tasks : Ready!Push(t) \/ (Ready!IsHead(t) /\ Ready!PopHead(t))]_Entries
  <2> SUFFICES ASSUME HeapInv, [HeapNext]_heap
               PROVE  HeapInv' /\ [\E t \in Tasks : Ready!Push(t) \/ (Ready!IsHead(t) /\ Ready!PopHead(t))]_Entries
    OBVIOUS
  <2>1. ASSUME NEW t \in Tasks, HeapPush(t)
        PROVE  HeapInv' /\ Ready!Push(t)
    BY <2>1, PushStep
  <2>2. CASE HeapPop
    BY <2>2, PopStep
  <2>3. CASE UNCHANGED heap
    BY <2>3 DEF HeapInv, Entries
  <2> QED
    BY <2>1, <2>2, <2>3 DEF HeapNext
<1> QED
  BY <1>1, <1>2, PTL DEF HeapSpec, QueueImplemented, Ready!ReadyQueueSpec

=============================================================================
