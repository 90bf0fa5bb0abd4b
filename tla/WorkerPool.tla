----------------------------- MODULE WorkerPool -----------------------------
(***************************************************************************)
(* A ThreadPoolExecutor as src/seedbraid/ipfs_chunks.py drives it, in      *)
(* publish_chunks_from_genome and in fetch_chunks_parallel alike: every    *)
(* task is submitted, the main thread takes the results as they come,      *)
(* cancels what has not started at the first ExternalToolError, lets any   *)
(* other exception through, and leaves the "with" block only when every    *)
(* thread is done.                                                         *)
(***************************************************************************)
EXTENDS Integers, Sequences, FiniteSets

CONSTANTS
    Client,     \* commands, each with a pool of its own
    Workers     \* max_workers

ASSUME PoolAssumption == Workers \in Nat \ {0}

VARIABLES
    futures,    \* client -> the state of each task submitted
    pool,       \* client -> what its main thread does with the pool
    collected,  \* client -> tasks whose result it has taken
    cancelled,  \* client -> futures f.cancel() has been called on
    raised      \* client -> the kind of exception on its way out

poolVars == <<futures, pool, collected, cancelled, raised>>

FutureState == {"queued", "running", "returned", "tool", "other", "cancelled"}

PoolTypeOK ==
    /\ futures \in [Client -> Seq(FutureState)]
    /\ pool \in [Client -> {"closed", "collect", "cancel", "join"}]
    /\ collected \in [Client -> SUBSET Nat]
    /\ cancelled \in [Client -> Nat]
    /\ raised \in [Client -> {"none", "tool", "other"}]

PoolInit ==
    /\ futures = [c \in Client |-> <<>>]
    /\ pool = [c \in Client |-> "closed"]
    /\ collected = [c \in Client |-> {}]
    /\ cancelled = [c \in Client |-> 0]
    /\ raised = [c \in Client |-> "none"]

TasksIn(c, states) == {t \in DOMAIN futures[c] : futures[c][t] \in states}

\* The "with" block is entered and n tasks are submitted.
Submit(c, n) ==
    /\ pool[c] = "closed"
    /\ futures' = [futures EXCEPT ![c] = [t \in 1..n |-> "queued"]]
    /\ pool' = [pool EXCEPT ![c] = "collect"]
    /\ collected' = [collected EXCEPT ![c] = {}]
    /\ cancelled' = [cancelled EXCEPT ![c] = 0]
    /\ raised' = [raised EXCEPT ![c] = "none"]

\* An idle worker takes the oldest task that is not cancelled.
WorkerTakes(c) ==
    /\ Cardinality(TasksIn(c, {"running"})) < Workers
    /\ \E t \in TasksIn(c, {"queued"}) :
        /\ \A u \in TasksIn(c, {"queued"}) : t <= u
        /\ futures' = [futures EXCEPT ![c][t] = "running"]
    /\ UNCHANGED <<pool, collected, cancelled, raised>>

\* The task returns, or raises an ExternalToolError or anything else.
TaskEnds(c, t, how) ==
    /\ futures[c][t] = "running"
    /\ futures' = [futures EXCEPT ![c][t] = how]
    /\ UNCHANGED <<pool, collected, cancelled, raised>>

\* Faulty variant: the futures are waited for, never asked for their result.
CollectReturnedAny(c) ==
    /\ pool[c] = "collect"
    /\ \E t \in TasksIn(c, {"returned", "tool", "other"}) \ collected[c] :
        collected' = [collected EXCEPT ![c] = @ \union {t}]
    /\ UNCHANGED <<futures, pool, cancelled, raised>>

\* as_completed yields a future, in whatever order they finish.
CollectReturned(c) ==
    /\ pool[c] = "collect"
    /\ \E t \in TasksIn(c, {"returned"}) \ collected[c] :
        collected' = [collected EXCEPT ![c] = @ \union {t}]
    /\ UNCHANGED <<futures, pool, cancelled, raised>>

\* future.result() raises; only an ExternalToolError is caught.
CollectRaised(c) ==
    /\ pool[c] = "collect"
    /\ \E t \in TasksIn(c, {"tool", "other"}) :
        /\ raised' = [raised EXCEPT ![c] = futures[c][t]]
        /\ pool' = [pool EXCEPT ![c] = IF futures[c][t] = "tool" THEN "cancel" ELSE "join"]
    /\ UNCHANGED <<futures, collected, cancelled>>

\* Every task has been collected: the loop ends and the block is left.
CollectDone(c) ==
    /\ pool[c] = "collect"
    /\ collected[c] = DOMAIN futures[c]
    /\ pool' = [pool EXCEPT ![c] = "join"]
    /\ UNCHANGED <<futures, collected, cancelled, raised>>

\* One f.cancel(): a task that has started goes on.
CancelNext(c) ==
    LET t == cancelled[c] + 1
    IN  /\ pool[c] = "cancel"
        /\ t <= Len(futures[c])
        /\ cancelled' = [cancelled EXCEPT ![c] = t]
        /\ futures' = IF futures[c][t] = "queued"
                      THEN [futures EXCEPT ![c][t] = "cancelled"] ELSE futures
        /\ UNCHANGED <<pool, collected, raised>>

\* Faulty variant: the last future is spared.
CancelDoneEarly(c) ==
    /\ pool[c] = "cancel"
    /\ cancelled[c] >= Len(futures[c]) - 1
    /\ pool' = [pool EXCEPT ![c] = "join"]
    /\ UNCHANGED <<futures, collected, cancelled, raised>>

CancelDone(c) ==
    /\ pool[c] = "cancel"
    /\ cancelled[c] = Len(futures[c])
    /\ pool' = [pool EXCEPT ![c] = "join"]
    /\ UNCHANGED <<futures, collected, cancelled, raised>>

\* Executor.__exit__ waits for the queue to drain and for every thread.
Join(c) ==
    /\ pool[c] = "join"
    /\ TasksIn(c, {"queued", "running"}) = {}
    /\ pool' = [pool EXCEPT ![c] = "closed"]
    /\ UNCHANGED <<futures, collected, cancelled, raised>>

MainThread(c) ==
    \/ CollectReturned(c) \/ CollectRaised(c) \/ CollectDone(c)
    \/ CancelNext(c) \/ CancelDone(c) \/ Join(c)

\* The process is gone, threads and all.
PoolKilled(c) ==
    /\ futures' = [futures EXCEPT ![c] = <<>>]
    /\ pool' = [pool EXCEPT ![c] = "closed"]
    /\ collected' = [collected EXCEPT ![c] = {}]
    /\ cancelled' = [cancelled EXCEPT ![c] = 0]
    /\ UNCHANGED raised

-----------------------------------------------------------------------------
(* Properties.                                                              *)

\* Once every future has been told to cancel, no further task is taken up for
\* a command that is going to fail; those under way may go on.
NothingStartsAfterCancel ==
    \A c \in Client : pool[c] = "join" /\ raised[c] = "tool" => TasksIn(c, {"queued"}) = {}

\* A pool left without an exception has every result; one left by an
\* exception has a task that raised it.
AllOrRaise ==
    \A c \in Client : pool[c] = "closed" =>
        IF raised[c] = "none" THEN TasksIn(c, {"returned"}) = DOMAIN futures[c]
        ELSE futures[c] # <<>> => TasksIn(c, {raised[c]}) # {}
=============================================================================
