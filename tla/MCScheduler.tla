---------------------------- MODULE MCScheduler ----------------------------
(***************************************************************************)
(* Instances of the scheduler for TLC: task "low" arrives first and has    *)
(* the lower priority, so that "high" overtakes it in the queue.           *)
(***************************************************************************)
EXTENDS SchedulerProperties, TLC

CONSTANTS low, high, RetriesOfLow, RetriesOfHigh

\* A request with max_retries 0 gets the default of 3 (CreateTask), so that
\* only a negative number asks for no retry at all.
NoRetries == -1

MCTasks == {low, high}
MCPriority == low :> 1 @@ high :> 10
MCCreatedAt == low :> 1 @@ high :> 2
MCMaxRetries == low :> RetriesOfLow @@ high :> RetriesOfHigh

\* One task, whose failures alone can fill retryCh: it is reported, dispatched
\* again from an entry that is still queued, and reported again.
OneTask == {low}
OneValue == low :> 1
OneMaxRetries == low :> RetriesOfLow

\* What a heartbeat says is stored unchecked, a negative count as well.
MCLoads == {-1}

HandlerSymmetry == Permutations(Handlers)

=============================================================================
