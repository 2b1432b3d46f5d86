------------------------------ MODULE TaskHeap ------------------------------
(***************************************************************************)
(* The slice behind the ready queue: PriorityQueue of internal/scheduler   *)
(* under Push and Pop of container/heap.  Position 1 is index 0.           *)
(***************************************************************************)
EXTENDS Identifiers, Integers, SequencesExt, Channels

CONSTANTS Priority, CreatedAt,
          MaxEntries   \* bound on the length of the slice

ASSUME HeapAssumption ==
    /\ Priority \in [Tasks -> Int]
    /\ CreatedAt \in [Tasks -> Nat]

VARIABLE heap   \* PriorityQueue

\* How many entries each task has in the slice.
Entries == [t \in Tasks |-> Queued(heap, t)]

Ready == INSTANCE ReadyQueue WITH queue <- Entries

HeapInit == heap = <<>>

Swap(q, i, j) == [q EXCEPT ![i] = q[j], ![j] = q[i]]

\* One turn of the loop of up: the entry at s.at rises above its parent, or stays.
UpTurn(s) ==
    LET i == s.at \div 2
    IN  IF i = 0 \/ ~Ready!Less(s.q[s.at], s.q[i]) THEN s
        ELSE [q |-> Swap(s.q, i, s.at), at |-> i]

\* As many turns as there are entries are enough for the loop to end.
Up(q, j) ==
    LET turn[k \in 0 .. j] == IF k = 0 THEN [q |-> q, at |-> j] ELSE UpTurn(turn[k - 1])
    IN  turn[j].q

\* Mutant: the right child is never looked at.
SmallerChild_LeftOnly(q, i, n) == 2 * i

\* The child of i that must not come after its parent, among the first n.
SmallerChild(q, i, n) ==
    IF 2 * i < n /\ Ready!Less(q[2 * i + 1], q[2 * i]) THEN 2 * i + 1 ELSE 2 * i

\* One turn of the loop of down.
DownTurn(s, n) ==
    LET j == SmallerChild(s.q, s.at, n)
    IN  IF 2 * s.at > n \/ ~Ready!Less(s.q[j], s.q[s.at]) THEN s
        ELSE [q |-> Swap(s.q, s.at, j), at |-> j]

Down(q, i, n) ==
    LET turn[k \in 0 .. n] == IF k = 0 THEN [q |-> q, at |-> i] ELSE DownTurn(turn[k - 1], n)
    IN  turn[n].q

HeapPush(t) ==
    /\ Len(heap) < MaxEntries
    /\ heap' = Up(Append(heap, t), Len(heap) + 1)

\* The first entry goes to the end, where PriorityQueue.Pop cuts it off.
HeapPop ==
    /\ heap # <<>>
    /\ heap' = Front(Down(Swap(heap, 1, Len(heap)), 1, Len(heap) - 1))

HeapNext == (\E t \in Tasks : HeapPush(t)) \/ HeapPop

HeapSpec == HeapInit /\ [][HeapNext]_heap

\* The slice that Up and Down rearrange is the bag the scheduler relies on:
\* no entry is lost or doubled, and what Pop returns is preceded by none.
QueueImplemented == Ready!ReadyQueueSpec

=============================================================================
