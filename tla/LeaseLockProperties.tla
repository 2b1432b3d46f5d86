------------------------ MODULE LeaseLockProperties ------------------------
(***************************************************************************)
(* What the callers of pkg/lock may count on.                              *)
(***************************************************************************)
EXTENDS LeaseLock

\* Caller c relies on key k: it works under it and its lease has not ended.
Relies(c, k) == Works(c, k) /\ lease[c] > 0

\* The entry that protects c is still there, is c's, and outlasts its lease.
Protected(c, k) ==
    /\ k \in held
    /\ owner[k] = Identity(c)
    /\ left[k] >= lease[c]

\* A caller that relies on a key finds it stored under its own identity for at
\* least as long: no Extend, no restart of another process and no Unlock that
\* comes late takes it away early, except under a key that was given out while
\* a caller whose Unlock the lock cannot tell from the new holder's was still
\* at work: another caller of the process (RedisLock), or one that has overrun
\* its lease (MemoryLock, whose Unlock is a plain delete).  The key is safe
\* again from the first TryLock on that finds nobody at work under it.
LeasesProtected ==
    \A c \in Callers, k \in Keys \ overlapped : Relies(c, k) => Protected(c, k)

\* No two callers rely on the same key at the same time, with the same exception.
LeasesExclusive ==
    \A c, d \in Callers, k \in Keys \ overlapped : Relies(c, k) /\ Relies(d, k) => c = d

\* No two instances of the server rely on the same key ("in progress by another
\* instance").  Violated by RedisLock as soon as two callers of one process
\* overlap: the first of them to unlock frees the key under the other.
InstancesExclusive ==
    \A c, d \in Callers, k \in Keys :
        Relies(c, k) /\ Relies(d, k) => Home[c] = Home[d]

\* A caller in Lock is not kept waiting by a process that died with the key:
\* somebody who waits gets it once its time to live has passed.
KeyTakenOver ==
    \A k \in Keys :
        (\E c \in Callers : pc[c] = "waiting" /\ key[c] = k)
            ~> \/ \E c \in Callers : pc[c] = "working" /\ key[c] = k
               \/ \A c \in Callers : ~(pc[c] = "waiting" /\ key[c] = k)

=============================================================================
