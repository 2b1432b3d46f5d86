-------------------------- MODULE LeaseLockProofs --------------------------
(***************************************************************************)
(* A lease protects its caller: proofs for any number of callers, keys and *)
(* processes and any time to live, with callers that share a process and   *)
(* callers that overrun their leases.                                      *)
(*                                                                         *)
(* LeasesProtected is not inductive: a late Unlock or Extend must be seen  *)
(* to meet no entry but its own.  WorkersApart says that two callers at    *)
(* work under a key are told apart, EntryKept that MemoryLock's entry      *)
(* belongs to the one at work.                                             *)
(***************************************************************************)
EXTENDS LeaseLockProperties, TLAPS

\* Types, and that whoever waits or works has a key.
TypeInv ==
    /\ TypeOK
    /\ \A c \in Callers : pc[c] # "idle" => key[c] \in Keys

\* Two callers at work under a key that is not overlapped: one of them has
\* overrun its lease in a RedisLock that tells them apart.
WorkersApart ==
    \A c, d \in Callers, k \in Keys \ overlapped :
        Works(c, k) /\ Works(d, k) /\ c # d => Redis /\ Identity(c) # Identity(d)

\* MemoryLock's entry, as long as it is there, belongs to whoever is at work.
EntryKept ==
    ~Redis => \A c \in Callers, k \in held \ overlapped :
        Works(c, k) => owner[k] = Identity(c)

LeaseInv == TypeInv /\ LeasesProtected /\ WorkersApart /\ EntryKept

\* Types are kept by every step.
LEMMA TypesKept ==
    ASSUME TypeInv, [Next]_vars
    PROVE  TypeInv'
<1> USE CallerAssumption
<1>1. ASSUME NEW c \in Callers PROVE Identity(c) \in Identities
  BY DEF Identity, Identities, TypeInv, TypeOK
<1>2. ASSUME NEW c \in Callers, NEW k \in Keys, Take(c, k) PROVE TypeInv'
  BY <1>1, <1>2 DEF Take, Overlap, TypeInv, TypeOK, Left
<1>3. ASSUME NEW c \in Callers, NEW k \in Keys, Lock(c, k) PROVE TypeInv'
  BY <1>3 DEF Lock, TypeInv, TypeOK, Left
<1>4. ASSUME NEW c \in Callers, Cancel(c) PROVE TypeInv'
  BY <1>4 DEF Cancel, TypeInv, TypeOK, Left
<1>5. ASSUME NEW c \in Callers, Unlock(c) PROVE TypeInv'
  BY <1>5 DEF Unlock, TypeInv, TypeOK, Left
<1>6. ASSUME NEW c \in Callers, Extend(c) PROVE TypeInv'
  BY <1>6 DEF Extend, TypeInv, TypeOK, Left
<1>7. ASSUME NEW p \in Processes, Stop(p) PROVE TypeInv'
  BY <1>7 DEF Stop, TypeInv, TypeOK, Left
<1>8. ASSUME Tick PROVE TypeInv'
  BY <1>8 DEF Tick, OneLess, TypeInv, TypeOK, Left
<1>9. ASSUME UNCHANGED vars PROVE TypeInv'
  BY <1>9 DEF vars, TypeInv, TypeOK
<1>10. ASSUME NEW c \in Callers, Poll(c) PROVE TypeInv'
  <2>1. key[c] \in Keys
    BY <1>10 DEF Poll, TypeInv
  <2> QED
    BY <1>2, <1>10, <2>1 DEF Poll
<1> QED
  BY <1>2, <1>3, <1>4, <1>5, <1>6, <1>7, <1>8, <1>9, <1>10 DEF Next, TryLock

\* After a Take whoever is at work under a key that is not overlapped was so
\* before, under a key that was not, or is the taker.
LEMMA TakeOverlap ==
    ASSUME LeaseInv, NEW d \in Callers, NEW j \in Keys, Take(d, j),
           NEW c \in Callers, NEW k \in Keys \ overlapped', Works(c, k)', c # d
    PROVE  /\ Works(c, k) /\ k \notin overlapped /\ UNCHANGED <<lease[c], Identity(c)>>
           /\ j = k => ~Confusable(c, d)
<1> USE DEF LeaseInv, TypeInv, TypeOK
<1>1. Works(c, k) /\ UNCHANGED <<lease[c], Identity(c)>>
  BY DEF Take, Works, Identity
<1>2. CASE j = k
  BY <1>1, <1>2 DEF Take, Overlap
<1>3. CASE j # k
  BY <1>1, <1>3 DEF Take, Overlap
<1> QED
  BY <1>1, <1>2, <1>3

\* Giving out a key.
LEMMA TakeKeeps ==
    ASSUME LeaseInv, TypeInv', NEW d \in Callers, NEW j \in Keys, Take(d, j)
    PROVE  LeasesProtected' /\ WorkersApart' /\ EntryKept'
<1> USE CallerAssumption DEF LeaseInv, TypeInv, TypeOK, Left
<1>1. /\ held' = held \cup {j} /\ owner' = [owner EXCEPT ![j] = Identity(d)]
      /\ left' = [left EXCEPT ![j] = TTL] /\ lease' = [lease EXCEPT ![d] = TTL]
      /\ Identity(d)' = Identity(d) /\ UNCHANGED stops
      /\ \A k \in Keys : Works(d, k)' => k = j
  BY DEF Take, Works, Identity
<1>2. ASSUME NEW c \in Callers, Works(c, j), j \notin overlapped, ~Confusable(c, d), c # d
      PROVE  Redis /\ Identity(c) # Identity(d) /\ lease[c] <= 0
  <2>1. CASE lease[c] > 0
    <3>1. Protected(c, j)
      BY <1>2, <2>1 DEF LeasesProtected, Relies
    <3>2. Redis /\ owner[j] = Identity(d)
      BY <2>1, <3>1 DEF Take, Free, Live, Protected
    <3> QED
      BY <1>2, <3>1, <3>2 DEF Protected, Confusable
  <2>2. CASE ~(lease[c] > 0)
    BY <1>2, <2>2 DEF Confusable
  <2> QED
    BY <2>1, <2>2
<1>3. LeasesProtected'
  <2> SUFFICES ASSUME NEW c \in Callers, NEW k \in Keys \ overlapped', Relies(c, k)'
               PROVE  Protected(c, k)'
    BY DEF LeasesProtected
  <2>1. CASE c = d
    BY <1>1, <2>1 DEF Relies, Protected
  <2>2. CASE c # d
    <3>1. /\ Works(c, k) /\ k \notin overlapped /\ lease'[c] = lease[c]
          /\ Identity(c)' = Identity(c) /\ (j = k => ~Confusable(c, d))
      BY <2>2, TakeOverlap DEF Relies
    <3>2. lease[c] > 0 /\ Protected(c, k)
      BY <3>1 DEF Relies, LeasesProtected
    <3>3. j # k
      BY <1>2, <2>2, <3>1, <3>2
    <3> QED
      BY <1>1, <3>1, <3>2, <3>3 DEF Protected
  <2> QED
    BY <2>1, <2>2
<1>4. WorkersApart'
  <2>1. ASSUME NEW c \in Callers, NEW k \in Keys \ overlapped', Works(c, k)', Works(d, k)', c # d
        PROVE  Redis /\ Identity(c)' # Identity(d)'
    <3>1. Works(c, k) /\ k \notin overlapped /\ Identity(c)' = Identity(c) /\ k = j /\ ~Confusable(c, d)
      BY <1>1, <2>1, TakeOverlap
    <3> QED
      BY <1>1, <1>2, <2>1, <3>1
  <2>2. ASSUME NEW c \in Callers, NEW e \in Callers, NEW k \in Keys \ overlapped',
               Works(c, k)', Works(e, k)', c # e, c # d, e # d
        PROVE  Redis /\ Identity(c)' # Identity(e)'
    <3>1. /\ Works(c, k) /\ k \notin overlapped /\ Identity(c)' = Identity(c)
          /\ Works(e, k) /\ Identity(e)' = Identity(e)
      BY <2>2, TakeOverlap
    <3> QED
      BY <2>2, <3>1 DEF WorkersApart
  <2> QED
    BY <2>1, <2>2 DEF WorkersApart
<1>5. EntryKept'
  <2> SUFFICES ASSUME ~Redis, NEW c \in Callers, NEW k \in held' \ overlapped', Works(c, k)'
               PROVE  owner'[k] = Identity(c)'
    BY DEF EntryKept
  <2>1. k \in Keys
    BY <1>1
  <2>2. CASE c = d
    BY <1>1, <2>1, <2>2
  <2>3. CASE c # d
    <3>1. /\ Works(c, k) /\ k \notin overlapped /\ Identity(c)' = Identity(c)
          /\ (j = k => ~Confusable(c, d))
      BY <2>1, <2>3, TakeOverlap
    <3>2. j # k
      BY <1>2, <2>3, <3>1
    <3> QED
      BY <1>1, <2>1, <3>1, <3>2 DEF EntryKept
  <2> QED
    BY <2>2, <2>3
<1> QED
  BY <1>3, <1>4, <1>5

\* Every other step: nobody starts to work, and entries change for their owners.
LEMMA OthersKeep ==
    ASSUME LeaseInv, TypeInv', [Next]_vars, \A d \in Callers, j \in Keys : ~Take(d, j)
    PROVE  LeasesProtected' /\ WorkersApart' /\ EntryKept'
<1> USE CallerAssumption DEF LeaseInv, TypeInv, TypeOK, Left
<1>0. \A d \in Callers : ~Poll(d)
  BY DEF Poll
<1>1. UNCHANGED overlapped
  BY <1>0 DEF Next, TryLock, Lock, Cancel, Unlock, Extend, Stop, Tick, vars
<1>2. \A c \in Callers, k \in Keys : Works(c, k)' => Works(c, k) /\ Identity(c)' = Identity(c)
  <2> SUFFICES ASSUME NEW c \in Callers, NEW k \in Keys, Works(c, k)'
               PROVE  Works(c, k) /\ Identity(c)' = Identity(c)
    OBVIOUS
  <2>1. ASSUME NEW d \in Callers, NEW j \in Keys, Lock(d, j) \/ Cancel(d) \/ Unlock(d) \/ Extend(d)
        PROVE  Works(c, k) /\ Identity(c)' = Identity(c)
    BY <2>1 DEF Lock, Cancel, Unlock, Extend, Works, Identity
  <2>2. ASSUME NEW p \in Processes, Stop(p) PROVE Works(c, k) /\ Identity(c)' = Identity(c)
    BY <2>2 DEF Stop, Works, Identity
  <2>3. CASE Tick \/ UNCHANGED vars
    BY <2>3 DEF Tick, vars, Works, Identity
  <2> QED
    BY <1>0, <2>1, <2>2, <2>3 DEF Next, TryLock
<1>3. WorkersApart'
  BY <1>1, <1>2 DEF WorkersApart
<1>4. UNCHANGED owner /\ held' \subseteq held
  BY <1>0 DEF Next, TryLock, Lock, Cancel, Unlock, Extend, Stop, Tick, vars
<1>5. EntryKept'
  BY <1>1, <1>2, <1>4 DEF EntryKept
<1>6. ASSUME NEW c \in Callers, NEW k \in Keys \ overlapped, Relies(c, k)'
      PROVE  Protected(c, k)'
  <2>0. Works(c, k) /\ Identity(c)' = Identity(c)
    BY <1>2, <1>6 DEF Relies
  <2>1. Relies(c, k) => Protected(c, k)
    BY <1>6 DEF LeasesProtected
  <2>2. ASSUME NEW d \in Callers, NEW j \in Keys, Lock(d, j) \/ Cancel(d) PROVE Protected(c, k)'
    BY <1>6, <2>0, <2>1, <2>2 DEF Lock, Cancel, Relies, Protected
  <2>3. ASSUME NEW d \in Callers, Unlock(d) PROVE Protected(c, k)'
    <3>1. d # c /\ Relies(c, k) /\ Protected(c, k)
      BY <1>6, <2>0, <2>1, <2>3 DEF Unlock, Relies, Works
    <3>2. ~(key[d] = k /\ Unlocked(d))
      <4>1. ASSUME key[d] = k, Unlocked(d) PROVE FALSE
        <5>1. Works(d, k)
          BY <2>3, <4>1 DEF Unlock, Works
        <5>2. Redis /\ Identity(c) # Identity(d)
          BY <1>6, <2>0, <3>1, <5>1 DEF WorkersApart
        <5> QED
          BY <3>1, <4>1, <5>2 DEF Unlocked, Protected
      <4> QED
        BY <4>1
    <3> QED
      BY <1>6, <2>0, <2>3, <3>1, <3>2 DEF Unlock, Relies, Protected
  <2>4. ASSUME NEW d \in Callers, Extend(d) PROVE Protected(c, k)'
    <3>1. CASE d # c
      BY <1>6, <2>0, <2>1, <2>4, <3>1 DEF Extend, Relies, Protected
    <3>2. CASE d = c
      <4>1. k \in held /\ owner[k] = Identity(c)
        <5>1. CASE Redis
          BY <2>0, <2>4, <3>2, <5>1 DEF Extend, Extensible, Live, Works
        <5>2. CASE ~Redis
          BY <1>6, <2>0, <2>4, <3>2, <5>2 DEF Extend, Extensible, EntryKept, Works
        <5> QED
          BY <5>1, <5>2
      <4> QED
        BY <2>0, <2>4, <3>2, <4>1 DEF Extend, Protected, Works
    <3> QED
      BY <3>1, <3>2
  <2>5. ASSUME NEW p \in Processes, Stop(p) PROVE Protected(c, k)'
    <3>1. Home[c] # p /\ Relies(c, k) /\ Protected(c, k)
      BY <1>6, <2>0, <2>1, <2>5 DEF Stop, Relies
    <3>2. Redis
      BY <3>1, MemoryAssumption
    <3> QED
      BY <2>0, <2>5, <3>1, <3>2 DEF Stop, Relies, Protected
  <2>6. ASSUME Tick PROVE Protected(c, k)'
    <3>1. Relies(c, k) /\ Protected(c, k) /\ lease[c] > 1
      BY <1>6, <2>0, <2>1, <2>6 DEF Tick, OneLess, Relies
    <3> QED
      BY <2>0, <2>6, <3>1 DEF Tick, OneLess, Relies, Protected
  <2>7. ASSUME UNCHANGED vars PROVE Protected(c, k)'
    BY <1>6, <2>0, <2>1, <2>7 DEF vars, Relies, Protected
  <2> QED
    BY <1>0, <2>2, <2>3, <2>4, <2>5, <2>6, <2>7 DEF Next, TryLock
<1>7. LeasesProtected'
  BY <1>1, <1>6 DEF LeasesProtected
<1> QED
  BY <1>3, <1>5, <1>7

\* The invariant holds at every moment.
LEMMA LeaseInvariant == Spec => []LeaseInv
<1>1. Init => LeaseInv
  BY CallerAssumption DEF Init, LeaseInv, TypeInv, TypeOK, LeasesProtected,
     WorkersApart, EntryKept, Works, Relies, Left, Identities
<1>2. LeaseInv /\ [Next]_vars => LeaseInv'
  <2> SUFFICES ASSUME LeaseInv, [Next]_vars PROVE LeaseInv'
    OBVIOUS
  <2>1. TypeInv'
    BY TypesKept DEF LeaseInv
  <2>2. LeasesProtected' /\ WorkersApart' /\ EntryKept'
    <3>1. CASE \E d \in Callers, j \in Keys : Take(d, j)
      BY <2>1, <3>1, TakeKeeps
    <3>2. CASE \A d \in Callers, j \in Keys : ~Take(d, j)
      BY <2>1, <3>2, OthersKeep
    <3> QED
      BY <3>1, <3>2
  <2> QED
    BY <2>1, <2>2 DEF LeaseInv
<1> QED
  BY <1>1, <1>2, PTL DEF Spec

-----------------------------------------------------------------------------

\* Every variable keeps its type, for any number of callers and processes.
THEOREM LeaseTypeCorrect == Spec => []TypeOK
<1>1. LeaseInv => TypeOK
  BY DEF LeaseInv, TypeInv
<1> QED
  BY <1>1, LeaseInvariant, PTL

\* While a caller counts on its key, the entry is its own and lasts (TryLock,
\* Extend and Unlock of both locks), whatever expires, stops or comes late, as
\* long as the key was not given out over a caller the lock cannot tell apart.
THEOREM LeaseProtects == Spec => []LeasesProtected
<1>1. LeaseInv => LeasesProtected
  BY DEF LeaseInv
<1> QED
  BY <1>1, LeaseInvariant, PTL

\* Two callers never count on one key at the same time, with the same exception:
\* with callers that share processes, overrun their leases and unlock late.
THEOREM LeaseExcludes == Spec => []LeasesExclusive
<1>1. LeaseInv => LeasesExclusive
  <2> SUFFICES ASSUME LeaseInv, NEW c \in Callers, NEW d \in Callers, NEW k \in Keys \ overlapped,
                      Relies(c, k), Relies(d, k), c # d
               PROVE  FALSE
    BY DEF LeasesExclusive
  <2>1. owner[k] = Identity(c) /\ owner[k] = Identity(d)
    BY DEF LeaseInv, LeasesProtected, Protected
  <2>2. Identity(c) # Identity(d)
    BY DEF LeaseInv, WorkersApart, Relies
  <2> QED
    BY <2>1, <2>2
<1> QED
  BY <1>1, LeaseInvariant, PTL

=============================================================================
