------------------------------ MODULE LeaseLock ------------------------------
(***************************************************************************)
(* The two locks of pkg/lock: MemoryLock, a map in one process, and        *)
(* RedisLock, keys of a Redis server that several processes share.  A      *)
(* caller is a goroutine that takes a key, works, and gives it back; it    *)
(* relies on the key until the time to live it asked for has passed.       *)
(*                                                                         *)
(* Times are counted down: a lease of n > 0 has n ticks to go, 0 is the    *)
(* instant at which it ends and -1 any time after it, so that Before and   *)
(* After of the code differ at the boundary as they do there.              *)
(***************************************************************************)
EXTENDS Integers

CONSTANTS Callers, Keys, NoKey, Processes,
          Home,      \* the process each caller runs in
          Redis,     \* RedisLock, otherwise MemoryLock
          TTL,       \* the ttl argument of every call
          MaxStops   \* bound on how often each process stops

ASSUME CallerAssumption ==
    /\ NoKey \notin Keys
    /\ Home \in [Callers -> Processes]
    /\ Redis \in BOOLEAN
    /\ TTL \in Nat \ {0}
    /\ MaxStops \in Nat

\* The map of a MemoryLock is not shared between processes.
ASSUME MemoryAssumption ==
    ~Redis => \A c \in Callers, p \in Processes : Home[c] = p

VARIABLES
    held,   \* keys present in the map, or in Redis
    owner,  \* whose identity is stored under the key
    left,   \* what is left of the entry's time to live
    pc,     \* each caller: "idle", "waiting" in Lock, "working"
    key,    \* the key each caller waits for or works under
    lease,  \* what is left of the lease each caller was given
    stops,  \* incarnation of each process
    overlapped  \* keys taken while a caller the lock confuses was at work

vars == <<held, owner, left, pc, key, lease, stops, overlapped>>

Left == -1 .. TTL

\* MemoryLock stores a fresh identity per successful call, RedisLock the one
\* that NewRedisLock made when the process started.
Identity(c) == IF Redis THEN <<Home[c], stops[Home[c]]>> ELSE <<c, 0>>
Identities == (Callers \cup Processes) \X Nat

TypeOK ==
    /\ held \subseteq Keys
    /\ owner \in [Keys -> Identities]
    /\ left \in [Keys -> Left]
    /\ pc \in [Callers -> {"idle", "waiting", "working"}]
    /\ key \in [Callers -> Keys \cup {NoKey}]
    /\ lease \in [Callers -> Left]
    /\ stops \in [Processes -> Nat]
    /\ overlapped \subseteq Keys

Init ==
    /\ held = {}
    /\ owner \in [Keys -> {<<p, 0>> : p \in Processes}]
    /\ left = [k \in Keys |-> -1]
    /\ pc = [c \in Callers |-> "idle"]
    /\ key = [c \in Callers |-> NoKey]
    /\ lease = [c \in Callers |-> -1]
    /\ stops = [p \in Processes |-> 0]
    /\ overlapped = {}

\* Redis removes a key when its time has come; the map keeps the entry.
Live(k) == k \in held /\ left[k] > 0

\* Mutant: one identity for the whole process, as in RedisLock, with its script.
Free_SameProcess(c, k) == ~Live(k) \/ owner[k][1] \in {d \in Callers : Home[d] = Home[c]}

\* lockScript takes a key again for the identity that has it.
Free(c, k) == ~Live(k) \/ (Redis /\ owner[k] = Identity(c))

Works(c, k) == pc[c] = "working" /\ key[c] = k

\* An Unlock or Extend of c will meet the entry of d as if it were its own:
\* RedisLock knows processes only, and MemoryLock looks at no holder, so that
\* a caller of it that has overrun its lease takes the next holder's entry.
Confusable(c, d) == IF Redis THEN Identity(c) = Identity(d) ELSE lease[c] <= 0

\* The history of overlapping callers, for the properties.
Overlap(d, k) ==
    overlapped' =
        IF \E c \in Callers \ {d} : Works(c, k) /\ Confusable(c, d) THEN overlapped \cup {k}
        ELSE IF \E c \in Callers \ {d} : Works(c, k) THEN overlapped
        ELSE overlapped \ {k}

Take(c, k) ==
    /\ Free(c, k)
    /\ held' = held \cup {k}
    /\ owner' = [owner EXCEPT ![k] = Identity(c)]
    /\ left' = [left EXCEPT ![k] = TTL]
    /\ pc' = [pc EXCEPT ![c] = "working"]
    /\ key' = [key EXCEPT ![c] = k]
    /\ lease' = [lease EXCEPT ![c] = TTL]
    /\ Overlap(c, k)
    /\ UNCHANGED stops

\* A call that finds the key held answers false and changes nothing.
TryLock(c, k) == pc[c] = "idle" /\ Take(c, k)

\* Lock calls TryLock every 100 ms until it succeeds or ctx is cancelled.
Lock(c, k) ==
    /\ pc[c] = "idle"
    /\ pc' = [pc EXCEPT ![c] = "waiting"]
    /\ key' = [key EXCEPT ![c] = k]
    /\ UNCHANGED <<held, owner, left, lease, stops, overlapped>>

Poll(c) == pc[c] = "waiting" /\ Take(c, key[c])

Cancel(c) ==
    /\ pc[c] = "waiting"
    /\ pc' = [pc EXCEPT ![c] = "idle"]
    /\ key' = [key EXCEPT ![c] = NoKey]
    /\ UNCHANGED <<held, owner, left, lease, stops, overlapped>>

\* Mutant: DEL without the comparison of unlockScript.
Unlocked_AnyOwner(c) == TRUE

\* MemoryLock deletes whatever is there; unlockScript compares first.
Unlocked(c) == ~Redis \/ (Live(key[c]) /\ owner[key[c]] = Identity(c))

Unlock(c) ==
    /\ pc[c] = "working"
    /\ held' = IF Unlocked(c) THEN held \ {key[c]} ELSE held
    /\ pc' = [pc EXCEPT ![c] = "idle"]
    /\ key' = [key EXCEPT ![c] = NoKey]
    /\ lease' = [lease EXCEPT ![c] = -1]
    /\ UNCHANGED <<owner, left, stops, overlapped>>

\* MemoryLock extends any entry that is not past its end, RedisLock its own.
Extensible(c) ==
    IF Redis THEN Live(key[c]) /\ owner[key[c]] = Identity(c)
    ELSE key[c] \in held /\ left[key[c]] >= 0

\* Mutant: the entry's time is not renewed.
Extend_WithoutRenewal(c) ==
    /\ pc[c] = "working"
    /\ Extensible(c)
    /\ lease' = [lease EXCEPT ![c] = TTL]
    /\ UNCHANGED <<held, owner, left, pc, key, stops, overlapped>>

\* ErrLockNotHeld leaves everything as it was.
Extend(c) ==
    /\ pc[c] = "working"
    /\ Extensible(c)
    /\ left' = [left EXCEPT ![key[c]] = TTL]
    /\ lease' = [lease EXCEPT ![c] = TTL]
    /\ UNCHANGED <<held, owner, pc, key, stops, overlapped>>

\* A process stops, by Close or by a crash, and is started again: its callers
\* and a MemoryLock's map are gone, keys in Redis stay until they expire.
Stop(p) ==
    /\ stops[p] < MaxStops
    /\ stops' = [stops EXCEPT ![p] = @ + 1]
    /\ held' = IF Redis THEN held ELSE {}
    /\ pc' = [c \in Callers |-> IF Home[c] = p THEN "idle" ELSE pc[c]]
    /\ key' = [c \in Callers |-> IF Home[c] = p THEN NoKey ELSE key[c]]
    /\ lease' = [c \in Callers |-> IF Home[c] = p THEN -1 ELSE lease[c]]
    /\ UNCHANGED <<owner, left, overlapped>>

OneLess(n) == IF n > 0 THEN n - 1 ELSE -1

\* Mutant: keys are set without PX.
Tick_NoExpiry ==
    /\ lease' = [c \in Callers |-> OneLess(lease[c])]
    /\ UNCHANGED <<held, owner, left, pc, key, stops, overlapped>>

\* Nothing makes a caller finish before its lease ends.
Tick ==
    /\ left' = [k \in Keys |-> OneLess(left[k])]
    /\ lease' = [c \in Callers |-> OneLess(lease[c])]
    /\ UNCHANGED <<held, owner, pc, key, stops, overlapped>>

Next ==
    \/ \E c \in Callers, k \in Keys : TryLock(c, k) \/ Lock(c, k)
    \/ \E c \in Callers : Poll(c) \/ Cancel(c) \/ Unlock(c) \/ Extend(c)
    \/ \E p \in Processes : Stop(p)
    \/ Tick

Spec == Init /\ [][Next]_vars

\* Time passes, and a waiting caller polls again and again.  It gets the key
\* only if a poll meets it free, so nothing is assumed of a single caller;
\* callers that work may do so for ever.
Fairness ==
    /\ WF_vars(Tick)
    /\ \A k \in Keys : WF_vars(\E c \in Callers : key[c] = k /\ Poll(c))

FairSpec == Spec /\ Fairness

=============================================================================
