--------------------------- MODULE WorkerPoolProofs --------------------------
(***************************************************************************)
(* What the steps of a pool preserve, for any number of commands, threads  *)
(* and tasks: the lemmas on which the proofs about publishing and fetching *)
(* rest.                                                                   *)
(***************************************************************************)
EXTENDS WorkerPool, SequenceTheorems, TLAPS

\* The strengthening of NothingStartsAfterCancel and AllOrRaise: what holds of
\* a pool in the middle of collecting, cancelling and joining.
PoolSafe(c) ==
    /\ collected[c] \subseteq TasksIn(c, {"returned"})
    /\ cancelled[c] <= Len(futures[c])
    /\ pool[c] = "collect" => raised[c] = "none" /\ cancelled[c] = 0
    /\ pool[c] = "cancel" =>
        /\ raised[c] = "tool"
        /\ \A t \in TasksIn(c, {"queued"}) : cancelled[c] < t
    /\ pool[c] = "join" /\ raised[c] = "tool" => TasksIn(c, {"queued"}) = {}
    /\ pool[c] \in {"join", "closed"} /\ raised[c] = "none" =>
        TasksIn(c, {"returned"}) = DOMAIN futures[c]
    /\ raised[c] # "none" /\ futures[c] # <<>> => TasksIn(c, {raised[c]}) # {}
    /\ pool[c] = "closed" => TasksIn(c, {"queued", "running"}) = {}

PoolInv == PoolTypeOK /\ \A c \in Client : PoolSafe(c)

\* The inductive invariant gives what the runs check.
LEMMA PoolInvGives ==
    PoolInv => NothingStartsAfterCancel /\ AllOrRaise
BY DEF PoolInv, PoolSafe, NothingStartsAfterCancel, AllOrRaise, PoolTypeOK

\* A pool with work in it has not been left.
LEMMA WorkInPool ==
    ASSUME PoolInv, NEW c \in Client, TasksIn(c, {"queued", "running"}) # {}
    PROVE  pool[c] # "closed"
BY DEF PoolInv, PoolSafe

\* Before any submission every pool is closed and empty.
LEMMA PoolInvInit == PoolInit => PoolInv
<1>. SUFFICES ASSUME PoolInit PROVE PoolInv
  OBVIOUS
<1>1. PoolTypeOK
  BY DEF PoolInit, PoolTypeOK, FutureState
<1>2. ASSUME NEW c \in Client PROVE PoolSafe(c)
  BY DEF PoolInit, PoolSafe, TasksIn
<1>. QED
  BY <1>1, <1>2 DEF PoolInv

\* PoolSafe of a client depends on its own entries only.
LEMMA PoolSafeElsewhere ==
    ASSUME NEW c \in Client, PoolSafe(c),
           futures'[c] = futures[c], pool'[c] = pool[c], collected'[c] = collected[c],
           cancelled'[c] = cancelled[c], raised'[c] = raised[c]
    PROVE  PoolSafe(c)'
BY DEF PoolSafe, TasksIn

\* A step that leaves the pools alone keeps the invariant.
LEMMA PoolInvStutter == PoolInv /\ UNCHANGED poolVars => PoolInv'
<1>. SUFFICES ASSUME PoolInv, UNCHANGED poolVars PROVE PoolInv'
  OBVIOUS
<1>. USE DEF PoolInv, poolVars
<1>1. PoolTypeOK'
  BY DEF PoolTypeOK
<1>2. ASSUME NEW c \in Client PROVE PoolSafe(c)'
  BY PoolSafeElsewhere
<1>. QED
  BY <1>1, <1>2

\* One future of one client moves on.
LEMMA FutureMoves ==
    ASSUME PoolTypeOK, NEW c \in Client, NEW t \in DOMAIN futures[c],
           NEW how \in FutureState, futures' = [futures EXCEPT ![c][t] = how]
    PROVE  /\ futures' \in [Client -> Seq(FutureState)]
           /\ DOMAIN futures'[c] = DOMAIN futures[c]
           /\ Len(futures'[c]) = Len(futures[c])
           /\ futures'[c][t] = how
           /\ \A u \in DOMAIN futures[c] : u # t => futures'[c][u] = futures[c][u]
           /\ \A o \in Client : o # c => futures'[o] = futures[o]
<1>. DEFINE s == futures[c]
            r == [s EXCEPT ![t] = how]
<1>1. s \in Seq(FutureState) /\ t \in 1..Len(s) /\ futures \in [Client -> Seq(FutureState)]
  BY DEF PoolTypeOK
<1>2. /\ r \in Seq(FutureState) /\ Len(r) = Len(s)
      /\ \A u \in 1..Len(s) : r[u] = IF u = t THEN how ELSE s[u]
  BY <1>1, ExceptSeq
<1>3. futures' = [futures EXCEPT ![c] = r]
  OBVIOUS
<1>4. futures'[c] = r
  BY <1>3, <1>1
<1>. QED
  BY <1>1, <1>2, <1>3, <1>4

\* A worker thread takes the next queued task.
LEMMA TakesKeeps ==
    ASSUME PoolInv, NEW c \in Client, WorkerTakes(c)
    PROVE  PoolInv'
<1>. USE DEF PoolInv
<1>1. PICK t \in TasksIn(c, {"queued"}) : futures' = [futures EXCEPT ![c][t] = "running"]
  BY DEF WorkerTakes
<1>2. t \in DOMAIN futures[c] /\ futures[c][t] = "queued" /\ "running" \in FutureState
  BY <1>1 DEF TasksIn, FutureState
<1>3. /\ futures' \in [Client -> Seq(FutureState)]
      /\ DOMAIN futures'[c] = DOMAIN futures[c]
      /\ Len(futures'[c]) = Len(futures[c])
      /\ futures'[c][t] = "running"
      /\ \A u \in DOMAIN futures[c] : u # t => futures'[c][u] = futures[c][u]
      /\ \A o \in Client : o # c => futures'[o] = futures[o]
  BY <1>1, <1>2, FutureMoves
<1>4. UNCHANGED <<pool, collected, cancelled, raised>>
  BY DEF WorkerTakes
<1>5. PoolTypeOK'
  BY <1>3, <1>4 DEF PoolTypeOK
<1>6. PoolSafe(c)'
  <2>1. /\ TasksIn(c, {"queued"})' = TasksIn(c, {"queued"}) \ {t}
        /\ TasksIn(c, {"returned"})' = TasksIn(c, {"returned"})
        /\ TasksIn(c, {"tool"})' = TasksIn(c, {"tool"})
        /\ TasksIn(c, {"other"})' = TasksIn(c, {"other"})
    BY <1>2, <1>3 DEF TasksIn
  <2>2. /\ t \in TasksIn(c, {"queued"}) /\ t \in TasksIn(c, {"queued", "running"})
        /\ t \notin TasksIn(c, {"returned"}) /\ t \in DOMAIN futures[c]
    BY <1>2 DEF TasksIn
  <2>3. pool[c] # "closed" /\ ~(pool[c] = "join" /\ raised[c] # "other")
    BY <2>2 DEF PoolSafe, PoolTypeOK
  <2>4. raised[c] \in {"none", "tool", "other"}
    BY DEF PoolTypeOK
  <2>5. futures[c] # <<>>
    BY <2>2
  <2>. QED
    BY <1>3, <1>4, <2>1, <2>2, <2>3, <2>4, <2>5 DEF PoolSafe
<1>7. ASSUME NEW o \in Client, o # c PROVE PoolSafe(o)'
  BY <1>3, <1>4, <1>7, PoolSafeElsewhere
<1>. QED
  BY <1>5, <1>6, <1>7

\* A running task returns or raises.
LEMMA EndsKeeps ==
    ASSUME PoolInv, NEW c \in Client, NEW t \in DOMAIN futures[c],
           NEW how \in {"returned", "tool", "other"}, TaskEnds(c, t, how)
    PROVE  PoolInv'
<1>. USE DEF PoolInv
<1>1. how \in FutureState /\ futures[c][t] = "running"
      /\ futures' = [futures EXCEPT ![c][t] = how]
      /\ UNCHANGED <<pool, collected, cancelled, raised>>
  BY DEF TaskEnds, FutureState
<1>3. /\ futures' \in [Client -> Seq(FutureState)]
      /\ DOMAIN futures'[c] = DOMAIN futures[c]
      /\ Len(futures'[c]) = Len(futures[c])
      /\ futures'[c][t] = how
      /\ \A u \in DOMAIN futures[c] : u # t => futures'[c][u] = futures[c][u]
      /\ \A o \in Client : o # c => futures'[o] = futures[o]
  BY <1>1, FutureMoves
<1>5. PoolTypeOK'
  BY <1>1, <1>3 DEF PoolTypeOK
<1>6. PoolSafe(c)'
  BY <1>1, <1>3 DEF PoolSafe, TasksIn, PoolTypeOK
<1>7. ASSUME NEW o \in Client, o # c PROVE PoolSafe(o)'
  BY <1>1, <1>3, <1>7, PoolSafeElsewhere
<1>. QED
  BY <1>5, <1>6, <1>7

\* A closed pool is opened with all its tasks queued.
LEMMA SubmitKeeps ==
    ASSUME PoolInv, NEW c \in Client, NEW n \in Nat, Submit(c, n)
    PROVE  PoolInv'
<1>. USE DEF PoolInv
<1>1. /\ futures' = [futures EXCEPT ![c] = [t \in 1..n |-> "queued"]]
      /\ pool' = [pool EXCEPT ![c] = "collect"]
      /\ collected' = [collected EXCEPT ![c] = {}]
      /\ cancelled' = [cancelled EXCEPT ![c] = 0]
      /\ raised' = [raised EXCEPT ![c] = "none"]
  BY DEF Submit
<1>2. [t \in 1..n |-> "queued"] \in Seq(FutureState)
  BY DEF FutureState
<1>3. PoolTypeOK'
  BY <1>1, <1>2 DEF PoolTypeOK
<1>4. /\ futures'[c] \in Seq(FutureState) /\ pool'[c] = "collect" /\ collected'[c] = {}
      /\ cancelled'[c] = 0 /\ raised'[c] = "none"
  BY <1>1, <1>2 DEF PoolTypeOK
<1>5. PoolSafe(c)'
  BY <1>4 DEF PoolSafe
<1>6. ASSUME NEW o \in Client, o # c PROVE PoolSafe(o)'
  BY <1>1, <1>6, PoolSafeElsewhere DEF PoolTypeOK
<1>. QED
  BY <1>3, <1>5, <1>6

\* The process is killed: its pool is closed without waiting.
LEMMA KilledKeeps ==
    ASSUME PoolInv, NEW c \in Client, PoolKilled(c)
    PROVE  PoolInv'
<1>. USE DEF PoolInv
<1>1. /\ futures' = [futures EXCEPT ![c] = <<>>]
      /\ pool' = [pool EXCEPT ![c] = "closed"]
      /\ collected' = [collected EXCEPT ![c] = {}]
      /\ cancelled' = [cancelled EXCEPT ![c] = 0]
      /\ raised' = raised
  BY DEF PoolKilled
<1>2. PoolTypeOK'
  BY <1>1 DEF PoolTypeOK
<1>3. /\ futures'[c] = <<>> /\ pool'[c] = "closed" /\ collected'[c] = {}
      /\ cancelled'[c] = 0
  BY <1>1 DEF PoolTypeOK
<1>4. PoolSafe(c)'
  BY <1>3 DEF PoolSafe, TasksIn
<1>5. ASSUME NEW o \in Client, o # c PROVE PoolSafe(o)'
  BY <1>1, <1>5, PoolSafeElsewhere DEF PoolTypeOK
<1>. QED
  BY <1>2, <1>4, <1>5

\* Only a main thread that has gone through every future leaves the loop of
\* cancellations, and tasks are never queued again.
LEMMA CancelNextKeeps ==
    ASSUME PoolInv, NEW c \in Client, CancelNext(c)
    PROVE  PoolInv'
<1>. USE DEF PoolInv
<1>. DEFINE t == cancelled[c] + 1
<1>1. /\ pool[c] = "cancel" /\ t <= Len(futures[c])
      /\ cancelled' = [cancelled EXCEPT ![c] = t]
      /\ futures' = IF futures[c][t] = "queued"
                    THEN [futures EXCEPT ![c][t] = "cancelled"] ELSE futures
      /\ UNCHANGED <<pool, collected, raised>>
  BY DEF CancelNext
<1>2. /\ cancelled[c] \in Nat /\ futures[c] \in Seq(FutureState)
      /\ t \in DOMAIN futures[c] /\ "cancelled" \in FutureState
  BY <1>1 DEF PoolTypeOK, FutureState
<1>3. /\ futures' \in [Client -> Seq(FutureState)]
      /\ DOMAIN futures'[c] = DOMAIN futures[c]
      /\ Len(futures'[c]) = Len(futures[c])
      /\ futures'[c][t] = IF futures[c][t] = "queued" THEN "cancelled" ELSE futures[c][t]
      /\ \A u \in DOMAIN futures[c] : u # t => futures'[c][u] = futures[c][u]
      /\ \A o \in Client : o # c => futures'[o] = futures[o]
  <2>1. CASE futures[c][t] = "queued"
    BY <1>1, <1>2, <2>1, FutureMoves
  <2>2. CASE futures[c][t] # "queued"
    BY <1>1, <2>2 DEF PoolTypeOK
  <2>. QED
    BY <2>1, <2>2
<1>4. PoolTypeOK'
  BY <1>1, <1>2, <1>3 DEF PoolTypeOK
<1>5. PoolSafe(c)'
  <2>1. /\ TasksIn(c, {"queued"})' = TasksIn(c, {"queued"}) \ {t}
        /\ TasksIn(c, {"returned"})' = TasksIn(c, {"returned"})
        /\ TasksIn(c, {"tool"})' = TasksIn(c, {"tool"})
        /\ TasksIn(c, {"other"})' = TasksIn(c, {"other"})
    BY <1>2, <1>3 DEF TasksIn
  <2>2. cancelled'[c] = t /\ UNCHANGED <<pool, collected, raised>>
    BY <1>1 DEF PoolTypeOK
  <2>3. \A u \in TasksIn(c, {"queued"})' : t < u
    <3>1. \A u \in TasksIn(c, {"queued"}) : cancelled[c] < u /\ u \in Nat
      BY <1>1, <1>2 DEF PoolSafe, TasksIn
    <3>. QED
      BY <1>2, <2>1, <3>1
  <2>4. raised[c] = "tool" /\ TasksIn(c, {"tool"}) # {}
    <3>1. PoolSafe(c) /\ raised[c] = "tool"
      BY <1>1 DEF PoolSafe
    <3>2. futures[c] # <<>>
      BY <1>2
    <3>3. raised[c] # "none" /\ futures[c] # <<>> => TasksIn(c, {raised[c]}) # {}
      BY <3>1 DEF PoolSafe
    <3>. QED
      BY <3>1, <3>2, <3>3
  <2>. QED
    BY <1>1, <1>3, <2>1, <2>2, <2>3, <2>4 DEF PoolSafe
<1>6. ASSUME NEW o \in Client, o # c PROVE PoolSafe(o)'
  BY <1>1, <1>3, <1>6, PoolSafeElsewhere DEF PoolTypeOK
<1>. QED
  BY <1>4, <1>5, <1>6

\* The other steps of the main thread leave the futures alone.
LEMMA MainThreadKeeps ==
    ASSUME PoolInv, NEW c \in Client, MainThread(c)
    PROVE  PoolInv'
<1>. USE DEF PoolInv
<1>1. CASE CollectReturned(c)
  <2>1. PICK t \in TasksIn(c, {"returned"}) \ collected[c] :
            collected' = [collected EXCEPT ![c] = @ \union {t}]
    BY <1>1 DEF CollectReturned
  <2>2. UNCHANGED <<futures, pool, cancelled, raised>> /\ t \in Nat
    BY <1>1, <2>1 DEF CollectReturned, TasksIn, PoolTypeOK
  <2>3. PoolTypeOK'
    BY <2>1, <2>2 DEF PoolTypeOK
  <2>4. collected'[c] = collected[c] \union {t}
    BY <2>1 DEF PoolTypeOK
  <2>5. PoolSafe(c)'
    BY <2>1, <2>2, <2>4 DEF PoolSafe, TasksIn
  <2>6. ASSUME NEW o \in Client, o # c PROVE PoolSafe(o)'
    BY <2>1, <2>2, <2>6, PoolSafeElsewhere DEF PoolTypeOK
  <2>. QED
    BY <2>3, <2>5, <2>6
<1>2. CASE CollectRaised(c)
  <2>1. PICK t \in TasksIn(c, {"tool", "other"}) :
            /\ raised' = [raised EXCEPT ![c] = futures[c][t]]
            /\ pool' = [pool EXCEPT ![c] = IF futures[c][t] = "tool" THEN "cancel" ELSE "join"]
    BY <1>2 DEF CollectRaised
  <2>2. pool[c] = "collect" /\ UNCHANGED <<futures, collected, cancelled>>
    BY <1>2 DEF CollectRaised
  <2>3. t \in DOMAIN futures[c] /\ futures[c][t] \in {"tool", "other"}
        /\ futures[c] \in Seq(FutureState)
    BY <2>1 DEF TasksIn, PoolTypeOK
  <2>4. PoolTypeOK'
    BY <2>1, <2>2, <2>3 DEF PoolTypeOK
  <2>5. /\ raised'[c] = futures[c][t]
        /\ pool'[c] = IF futures[c][t] = "tool" THEN "cancel" ELSE "join"
        /\ t \in TasksIn(c, {futures[c][t]}) /\ cancelled[c] = 0
    BY <2>1, <2>2, <2>3 DEF PoolTypeOK, TasksIn, PoolSafe
  <2>6. \A u \in TasksIn(c, {"queued"}) : 0 < u
    BY <2>3 DEF TasksIn
  <2>7. \A states : TasksIn(c, states)' = TasksIn(c, states)
    BY <2>2 DEF TasksIn
  <2>8. PoolSafe(c)'
    BY <2>2, <2>3, <2>5, <2>6, <2>7 DEF PoolSafe
  <2>9. ASSUME NEW o \in Client, o # c PROVE PoolSafe(o)'
    BY <2>1, <2>2, <2>9, PoolSafeElsewhere DEF PoolTypeOK
  <2>. QED
    BY <2>4, <2>8, <2>9
<1>3. CASE CollectDone(c) \/ CancelDone(c)
  <2>1. /\ pool' = [pool EXCEPT ![c] = "join"]
        /\ UNCHANGED <<futures, collected, cancelled, raised>>
    BY <1>3 DEF CollectDone, CancelDone
  <2>2. PoolTypeOK' /\ pool'[c] = "join"
    BY <2>1 DEF PoolTypeOK
  <2>3. CASE CollectDone(c)
    <3>1. TasksIn(c, {"returned"}) = DOMAIN futures[c] /\ raised[c] = "none"
      BY <2>3 DEF CollectDone, PoolSafe, TasksIn
    <3>. QED
      BY <2>1, <2>2, <3>1 DEF PoolSafe, TasksIn
  <2>4. CASE CancelDone(c)
    <3>1. raised[c] = "tool" /\ pool[c] = "cancel" /\ cancelled[c] = Len(futures[c])
      BY <2>4 DEF CancelDone, PoolSafe
    <3>2. TasksIn(c, {"queued"}) = {}
      <4>1. \A t \in TasksIn(c, {"queued"}) : Len(futures[c]) < t
        BY <3>1 DEF PoolSafe
      <4>2. \A t \in TasksIn(c, {"queued"}) : t \in 1..Len(futures[c]) /\ Len(futures[c]) \in Nat
        BY DEF TasksIn, PoolTypeOK
      <4>. QED
        BY <4>1, <4>2
    <3>. QED
      BY <2>1, <2>2, <3>1, <3>2 DEF PoolSafe, TasksIn
  <2>5. PoolSafe(c)'
    BY <1>3, <2>3, <2>4
  <2>6. ASSUME NEW o \in Client, o # c PROVE PoolSafe(o)'
    BY <2>1, <2>6, PoolSafeElsewhere DEF PoolTypeOK
  <2>. QED
    BY <2>2, <2>5, <2>6
<1>4. CASE CancelNext(c)
  BY <1>4, CancelNextKeeps
<1>5. CASE Join(c)
  <2>1. /\ pool[c] = "join" /\ TasksIn(c, {"queued", "running"}) = {}
        /\ pool' = [pool EXCEPT ![c] = "closed"]
        /\ UNCHANGED <<futures, collected, cancelled, raised>>
    BY <1>5 DEF Join
  <2>2. PoolTypeOK' /\ pool'[c] = "closed"
    BY <2>1 DEF PoolTypeOK
  <2>3. PoolSafe(c)'
    BY <2>1, <2>2 DEF PoolSafe, TasksIn
  <2>4. ASSUME NEW o \in Client, o # c PROVE PoolSafe(o)'
    BY <2>1, <2>4, PoolSafeElsewhere DEF PoolTypeOK
  <2>. QED
    BY <2>2, <2>3, <2>4
<1>. QED
  BY <1>1, <1>2, <1>3, <1>4, <1>5 DEF MainThread

\* Every task in a pool is one of its futures.
LEMMA AttemptKeeps ==
    ASSUME PoolInv, NEW c \in Client, NEW t \in TasksIn(c, {"running"}),
           NEW how \in {"returned", "tool", "other"}, TaskEnds(c, t, how)
    PROVE  PoolInv'
BY EndsKeeps DEF TasksIn

\* A step of the pool itself ends no task, and touches no other pool.
LEMMA PoolStepReturns ==
    ASSUME PoolInv, NEW c \in Client, WorkerTakes(c) \/ MainThread(c)
    PROVE  \A o \in Client :
              /\ Len(futures'[o]) = Len(futures[o])
              /\ TasksIn(o, {"returned"})' = TasksIn(o, {"returned"})
              /\ o # c => pool'[o] = pool[o]
<1>. PoolTypeOK
  BY DEF PoolInv
<1>1. ASSUME NEW t \in DOMAIN futures[c], NEW how \in {"running", "cancelled"},
             futures[c][t] = "queued", futures' = [futures EXCEPT ![c][t] = how]
      PROVE  \A o \in Client : /\ Len(futures'[o]) = Len(futures[o])
                               /\ TasksIn(o, {"returned"})' = TasksIn(o, {"returned"})
  <2>1. how \in FutureState
    BY DEF FutureState
  <2>2. /\ DOMAIN futures'[c] = DOMAIN futures[c]
        /\ Len(futures'[c]) = Len(futures[c])
        /\ futures'[c][t] = how
        /\ \A u \in DOMAIN futures[c] : u # t => futures'[c][u] = futures[c][u]
        /\ \A o \in Client : o # c => futures'[o] = futures[o]
    BY <1>1, <2>1, FutureMoves
  <2>3. TasksIn(c, {"returned"})' = TasksIn(c, {"returned"})
    BY <1>1, <2>2 DEF TasksIn
  <2>4. ASSUME NEW o \in Client, o # c
        PROVE  TasksIn(o, {"returned"})' = TasksIn(o, {"returned"})
    BY <2>2, <2>4 DEF TasksIn
  <2>. QED
    BY <2>2, <2>3, <2>4
<1>2. CASE WorkerTakes(c)
  BY <1>1, <1>2 DEF WorkerTakes, TasksIn
<1>3. CASE CancelNext(c)
  <2>1. cancelled[c] + 1 \in DOMAIN futures[c] /\ UNCHANGED pool
    BY <1>3 DEF CancelNext, PoolTypeOK
  <2>2. CASE futures[c][cancelled[c] + 1] = "queued"
    BY <1>1, <1>3, <2>1, <2>2 DEF CancelNext
  <2>3. CASE futures[c][cancelled[c] + 1] # "queued"
    BY <1>3, <2>1, <2>3 DEF CancelNext, TasksIn
  <2>. QED
    BY <2>2, <2>3
<1>4. CASE CollectReturned(c) \/ CollectRaised(c) \/ CollectDone(c) \/ CancelDone(c) \/ Join(c)
  <2>1. UNCHANGED futures /\ \A o \in Client : o # c => pool'[o] = pool[o]
    BY <1>4 DEF CollectReturned, CollectRaised, CollectDone, CancelDone, Join, PoolTypeOK
  <2>. QED
    BY <2>1 DEF TasksIn
<1>. QED
  BY <1>2, <1>3, <1>4 DEF MainThread
=============================================================================
