-------------------------- MODULE ChunkFetchProofs --------------------------
(***************************************************************************)
(* Proofs about ChunkFetch and HybridDecode, for any number of commands,   *)
(* threads, attempts, recipes and batch sizes: fetch-decode, and a decode  *)
(* over the hybrid genome next to it, implement Delivery; pools are left   *)
(* settled and with their exception, the gateway is asked before a chunk   *)
(* is given up, and the shared cache stays genuine and complete.           *)
(***************************************************************************)
EXTENDS HybridDecode, WorkerPoolProofs, FiniteSetTheorems

Fetching == {"batch", "pool", "write"}
Decoding == {"ops", "ask", "cache"}

ShapeOK ==
    /\ pc \in [Client -> {"idle", "batch", "pool", "write", "ops", "ask", "cache"}]
    /\ seed \in [Client -> Recipe]
    /\ batch \in [Client -> Nat]
    /\ out \in [Client -> Seq(Content)]
    /\ DOMAIN digests = Client /\ DOMAIN results = Client /\ DOMAIN res = Client

\* What the threads of a fetch-decode returned is genuine.
ResultsOK(c) ==
    /\ results[c] \in [DOMAIN digests[c] -> Content \union {Missing}]
    /\ \A t \in DOMAIN digests[c] :
          results[c][t] # Missing => Sha[results[c][t]] = digests[c][t]

\* What one command knows: the payloads it was given are genuine, those it
\* will take from the seed exist, its output is as long as its place in the
\* recipe says, and only a command that waits for its pool has one.
CommandOK(c) ==
    /\ pc[c] \in {"pool", "write"} => ResultsOK(c)
    /\ pc[c] # "pool" => pool[c] = "closed"
    /\ seed[c].raw \subseteq {Sha[x] : x \in Content}
    /\ pc[c] \in {"batch", "pool"} => Len(out[c]) = Least(batch[c], Len(Ops(c)))
    /\ pc[c] \in {"pool", "write"} => batch[c] < Len(Ops(c))
    /\ pc[c] = "write" => Len(out[c]) \in batch[c]..BatchEnd(c)

FetchInv ==
    /\ PoolInv
    /\ ShapeOK
    /\ \A c \in Client : CommandOK(c)

\* What a step of one command leaves alone of another command o.
Untouched(o) ==
    /\ pc'[o] = pc[o] /\ seed'[o] = seed[o] /\ batch'[o] = batch[o]
    /\ digests'[o] = digests[o] /\ results'[o] = results[o] /\ out'[o] = out[o]
    /\ pool'[o] = pool[o]

\* A step that keeps its own part of the invariant keeps it all.
LEMMA StepOK ==
    ASSUME FetchInv, NEW c \in Client, PoolInv', ShapeOK', CommandOK(c)',
           \A o \in Client : o # c => Untouched(o)
    PROVE  FetchInv'
<1>1. ASSUME NEW o \in Client, o # c PROVE CommandOK(o)'
  BY <1>1 DEF FetchInv, CommandOK, ResultsOK, Untouched, Ops, BatchEnd
<1>. QED
  BY <1>1 DEF FetchInv

\* A step that moves no command and brings no result.
LEMMA SameOK ==
    ASSUME FetchInv, PoolInv',
           \A c \in Client : pc[c] # "pool" => pool'[c] = pool[c],
           UNCHANGED <<pc, seed, batch, digests, results, out, res>>
    PROVE  FetchInv'
BY DEF FetchInv, ShapeOK, CommandOK, ResultsOK, Ops, BatchEnd

-----------------------------------------------------------------------------
(* What each step shows of itself in Delivery.                              *)

\* Nothing of it, if outputs, outcomes and running commands are as before.
LEMMA Quiet ==
    ASSUME UNCHANGED <<seed, out, res>>,
           \A o \in Client : pc'[o] = "idle" <=> pc[o] = "idle"
    PROVE  UNCHANGED Output!deliveryVars
BY DEF Output!deliveryVars

\* The end of a command that is not a success is a GiveUp.
LEMMA EndsMaps ==
    ASSUME FetchInv, NEW c \in Client, pc[c] # "idle",
           NEW r \in {"failed", "crashed", "killed"}, Ends(c, r)
    PROVE  Output!GiveUp(c)
<1>1. /\ pc' = [pc EXCEPT ![c] = "idle"] /\ res' = [res EXCEPT ![c] = r]
      /\ UNCHANGED <<seed, out>>
  BY DEF Ends
<1>2. [o \in Client |-> pc'[o] # "idle"]
        = [[o \in Client |-> pc[o] # "idle"] EXCEPT ![c] = FALSE]
  BY <1>1 DEF FetchInv, ShapeOK
<1>. QED
  BY <1>1, <1>2 DEF Output!GiveUp

\* A command that ends keeps the invariant.
LEMMA EndsOK ==
    ASSUME FetchInv, NEW c \in Client, NEW r, Ends(c, r), PoolInv', pool'[c] = "closed",
           \A o \in Client : o # c => pool'[o] = pool[o]
    PROVE  FetchInv'
<1>1. /\ pc' = [pc EXCEPT ![c] = "idle"] /\ res' = [res EXCEPT ![c] = r]
      /\ UNCHANGED <<seed, batch, digests, results, out>>
  BY DEF Ends
<1>2. ShapeOK' /\ pc'[c] = "idle"
  BY <1>1 DEF FetchInv, ShapeOK
<1>3. CommandOK(c)'
  BY <1>1, <1>2 DEF FetchInv, CommandOK
<1>4. \A o \in Client : o # c => Untouched(o)
  BY <1>1 DEF FetchInv, ShapeOK, Untouched
<1>. QED
  BY <1>2, <1>3, <1>4, StepOK

\* What is proved of every step: the invariant after it, and its image.
Sound == FetchInv' /\ [Output!DeliveryNext]_Output!deliveryVars

LEMMA EndsSound ==
    ASSUME FetchInv, NEW c \in Client, pc[c] # "idle", PoolInv', pool'[c] = "closed",
           \A o \in Client : o # c => pool'[o] = pool[o],
           NEW r \in {"failed", "crashed", "killed"}, Ends(c, r)
    PROVE  Sound
BY EndsOK, EndsMaps DEF Sound, Output!DeliveryNext

\* A command that waits for no pool gives up, and touches none.
LEMMA FailSound ==
    ASSUME FetchInv, NEW c \in Client, pc[c] # "idle", pool[c] = "closed",
           UNCHANGED poolVars, Ends(c, "failed") \/ Ends(c, "crashed")
    PROVE  Sound
<1>1. PoolInv' /\ pool' = pool
  BY PoolInvStutter DEF FetchInv, poolVars
<1>. QED
  BY <1>1, EndsSound

-----------------------------------------------------------------------------
(* The steps of a command.                                                  *)

\* A command opens its output.
LEMMA StartSound ==
    ASSUME FetchInv, NEW c \in Client, FetchStart(c), FetchAssumption
    PROVE  Sound
<1>1. PICK r \in Recipes :
        /\ pc[c] = "idle"
        /\ pc' = [pc EXCEPT ![c] = "batch"]
        /\ seed' = [seed EXCEPT ![c] = r]
        /\ batch' = [batch EXCEPT ![c] = 0]
        /\ digests' = [digests EXCEPT ![c] = <<>>]
        /\ results' = [results EXCEPT ![c] = <<>>]
        /\ out' = [out EXCEPT ![c] = <<>>]
        /\ res' = [res EXCEPT ![c] = "none"]
        /\ UNCHANGED poolVars
  BY DEF FetchStart
<1>2. r \in Recipe /\ r.ops \in Seq(Digest) /\ r.raw \subseteq {Sha[x] : x \in Content}
  BY DEF FetchAssumption, Recipe
<1>3. PoolInv'
  BY <1>1, PoolInvStutter DEF FetchInv
<1>4. ShapeOK'
  BY <1>1, <1>2 DEF FetchInv, ShapeOK
<1>5. /\ pc'[c] = "batch" /\ seed'[c] = r /\ batch'[c] = 0 /\ digests'[c] = <<>>
      /\ results'[c] = <<>> /\ out'[c] = <<>>
  BY <1>1 DEF FetchInv, ShapeOK
<1>6. CommandOK(c)'
  <2>1. Len(out'[c]) = Least(batch'[c], Len(seed'[c].ops))
    BY <1>2, <1>5 DEF Least
  <2>. QED
    BY <1>1, <1>2, <1>5, <2>1 DEF CommandOK, FetchInv, Ops, poolVars
<1>7. \A o \in Client : o # c => Untouched(o)
  BY <1>1 DEF FetchInv, ShapeOK, Untouched, poolVars
<1>8. Output!Open(c)
  <2>1. [o \in Client |-> pc'[o] # "idle"]
          = [[o \in Client |-> pc[o] # "idle"] EXCEPT ![c] = TRUE]
    BY <1>1 DEF FetchInv, ShapeOK
  <2>2. [o \in Client |-> seed'[o].ops]
          = [[o \in Client |-> seed[o].ops] EXCEPT ![c] = seed'[c].ops]
    BY <1>1 DEF FetchInv, ShapeOK
  <2>. QED
    BY <1>1, <1>2, <1>5, <2>1, <2>2 DEF Output!Open
<1>. QED
  BY <1>3, <1>4, <1>6, <1>7, <1>8, StepOK DEF Sound, Output!DeliveryNext

\* The digests of a batch are finitely many.
LEMMA ToFetchLength ==
    ASSUME FetchInv, NEW c \in Client, FetchAssumption
    PROVE  Len(ToFetch(c)) \in Nat /\ DOMAIN ToFetch(c) = 1..Len(ToFetch(c))
<1>. DEFINE First(i) == /\ Ops(c)[i] \notin seed[c].raw
                        /\ \A j \in batch[c] + 1..i - 1 : Ops(c)[j] # Ops(c)[i]
            Firsts == {i \in batch[c] + 1..BatchEnd(c) : First(i)}
<1>1. batch[c] + 1 \in Int /\ BatchEnd(c) \in Int
  BY DEF FetchInv, ShapeOK, FetchAssumption, BatchEnd, Least, Ops, Recipe
<1>2. IsFiniteSet(Firsts)
  <2>1. IsFiniteSet(batch[c] + 1..BatchEnd(c))
    BY <1>1, FS_Interval
  <2>. QED
    BY <2>1, FS_Subset
<1>3. Cardinality(Firsts) \in Nat
  BY <1>2, FS_CardinalityType
<1>4. DOMAIN ToFetch(c) = 1..Cardinality(Firsts)
  BY DEF ToFetch
<1>. HIDE DEF Firsts
<1>. QED
  BY <1>3, <1>4

\* A batch begins: its chunks are given to the pool, if there are any.
LEMMA BatchSound ==
    ASSUME FetchInv, NEW c \in Client, BatchStart(c), FetchAssumption
    PROVE  Sound
<1>1. /\ pc[c] = "batch" /\ batch[c] < Len(Ops(c))
      /\ digests' = [digests EXCEPT ![c] = ToFetch(c)]
      /\ results' = [results EXCEPT ![c] = [t \in DOMAIN ToFetch(c) |-> Missing]]
      /\ UNCHANGED <<seed, batch, out, res>>
      /\ \/ pc' = [pc EXCEPT ![c] = "write"] /\ UNCHANGED poolVars
         \/ pc' = [pc EXCEPT ![c] = "pool"] /\ Submit(c, Len(ToFetch(c)))
  BY DEF BatchStart
<1>2. PoolInv'
  BY <1>1, ToFetchLength, SubmitKeeps, PoolInvStutter DEF FetchInv
<1>3. ShapeOK' /\ pc'[c] \in {"pool", "write"}
  BY <1>1 DEF FetchInv, ShapeOK
<1>4. /\ digests'[c] = ToFetch(c)
      /\ results'[c] = [t \in DOMAIN ToFetch(c) |-> Missing]
      /\ seed'[c] = seed[c] /\ batch'[c] = batch[c] /\ out'[c] = out[c]
  BY <1>1 DEF FetchInv, ShapeOK
<1>5. /\ results'[c] \in [DOMAIN digests'[c] -> Content \union {Missing}]
      /\ \A t \in DOMAIN digests'[c] : results'[c][t] = Missing
  BY <1>4
<1>6. CommandOK(c)'
  <2>1. batch[c] \in Nat /\ Len(Ops(c)) \in Nat /\ BatchSize \in Nat
    BY DEF FetchInv, ShapeOK, Recipe, Ops, FetchAssumption
  <2>2. /\ Len(out[c]) = Least(batch[c], Len(Ops(c)))
        /\ seed[c].raw \subseteq {Sha[x] : x \in Content}
    BY <1>1 DEF FetchInv, CommandOK
  <2>3. Len(out[c]) = batch[c] /\ Len(out[c]) \in batch[c]..BatchEnd(c)
    BY <1>1, <2>1, <2>2 DEF Least, BatchEnd
  <2>4. pc'[c] # "pool" => pool'[c] = "closed"
    BY <1>1, <1>3 DEF FetchInv, CommandOK, ShapeOK, poolVars
  <2>. QED
    BY <1>1, <1>3, <1>4, <1>5, <2>2, <2>3, <2>4 DEF CommandOK, ResultsOK, Ops, BatchEnd
<1>7. \A o \in Client : o # c => Untouched(o)
  <2>1. \A o \in Client : o # c => pool'[o] = pool[o]
    BY <1>1 DEF FetchInv, PoolInv, PoolTypeOK, Submit, poolVars
  <2>. QED
    BY <1>1, <2>1 DEF FetchInv, ShapeOK, Untouched
<1>8. UNCHANGED Output!deliveryVars
  <2>1. \A o \in Client : pc'[o] = "idle" <=> pc[o] = "idle"
    BY <1>1 DEF FetchInv, ShapeOK
  <2>. QED
    BY <1>1, <2>1, Quiet
<1>. QED
  BY <1>2, <1>3, <1>6, <1>7, <1>8, StepOK DEF Sound

\* The pool is left, with or without an exception.
LEMMA LeftSound ==
    ASSUME FetchInv, NEW c \in Client, PoolLeft(c), FetchAssumption
    PROVE  Sound
<1>1. pc[c] = "pool" /\ pool[c] = "closed" /\ UNCHANGED poolVars
  BY DEF PoolLeft
<1>2. raised[c] \in {"none", "tool", "other"} /\ PoolInv'
  BY <1>1, PoolInvStutter DEF FetchInv, PoolInv, PoolTypeOK
<1>3. CASE raised[c] # "none"
  <2>1. Ends(c, "failed") \/ Ends(c, "crashed")
    BY <1>2, <1>3 DEF PoolLeft
  <2>. QED
    BY <1>1, <2>1, FailSound
<1>4. CASE raised[c] = "none"
  <2>1. /\ pc' = [pc EXCEPT ![c] = "write"]
        /\ UNCHANGED <<seed, batch, digests, results, out, res>>
    BY <1>4 DEF PoolLeft
  <2>2. ShapeOK' /\ pc'[c] = "write"
    BY <2>1 DEF FetchInv, ShapeOK
  <2>3. CommandOK(c)'
    <3>1. batch[c] \in Nat /\ Len(Ops(c)) \in Nat /\ BatchSize \in Nat
      BY DEF FetchInv, ShapeOK, Recipe, Ops, FetchAssumption
    <3>2. Len(out[c]) = Least(batch[c], Len(Ops(c))) /\ batch[c] < Len(Ops(c)) /\ CommandOK(c)
      BY <1>1 DEF FetchInv, CommandOK
    <3>3. Len(out[c]) \in batch[c]..BatchEnd(c)
      BY <3>1, <3>2 DEF Least, BatchEnd
    <3>. QED
      BY <1>1, <2>1, <2>2, <3>2, <3>3 DEF CommandOK, ResultsOK, Ops, BatchEnd, poolVars
  <2>4. \A o \in Client : o # c => Untouched(o)
    BY <1>1, <2>1 DEF FetchInv, ShapeOK, Untouched, poolVars
  <2>5. UNCHANGED Output!deliveryVars
    <3>1. \A o \in Client : pc'[o] = "idle" <=> pc[o] = "idle"
      BY <1>1, <2>1 DEF FetchInv, ShapeOK
    <3>. QED
      BY <2>1, <3>1, Quiet
  <2>. QED
    BY <1>2, <2>2, <2>3, <2>4, <2>5, StepOK DEF Sound
<1>. QED
  BY <1>3, <1>4

\* What is found for the next op is missing or has the op's digest.
LEMMA NextGenuine ==
    ASSUME FetchInv, NEW c \in Client, pc[c] = "write", NextPayload(c) # Missing
    PROVE  /\ NextPayload(c) \in Content
           /\ Sha[NextPayload(c)] = Ops(c)[Len(out[c]) + 1]
<1>. DEFINE d == Ops(c)[Len(out[c]) + 1]
            T == {t \in DOMAIN digests[c] : digests[c][t] = d}
<1>1. CASE d \in seed[c].raw
  <2>1. \E x \in Content : Sha[x] = d
    BY <1>1 DEF FetchInv, CommandOK
  <2>2. NextPayload(c) = PayloadOf(d)
    BY <1>1 DEF NextPayload
  <2>. QED
    BY <2>1, <2>2 DEF PayloadOf
<1>2. CASE d \notin seed[c].raw
  <2>1. NextPayload(c) = Fetched(c, d)
    BY <1>2 DEF NextPayload
  <2>2. T # {} /\ NextPayload(c) = results[c][CHOOSE t \in T : TRUE]
    BY <2>1 DEF Fetched
  <2>3. PICK t \in T : NextPayload(c) = results[c][t]
    BY <2>2
  <2>. QED
    BY <2>3 DEF FetchInv, CommandOK, ResultsOK
<1>. QED
  BY <1>1, <1>2

\* One op is written.
LEMMA WriteSound ==
    ASSUME FetchInv, NEW c \in Client, WriteOp(c), FetchAssumption
    PROVE  Sound
<1>1. pc[c] = "write" /\ Len(out[c]) < BatchEnd(c) /\ UNCHANGED poolVars
  BY DEF WriteOp
<1>2. PoolInv'
  BY <1>1, PoolInvStutter DEF FetchInv
<1>3. CASE NextPayload(c) = Missing
  BY <1>1, <1>3, FailSound DEF WriteOp, FetchInv, CommandOK
<1>4. CASE NextPayload(c) # Missing
  <2>. DEFINE x == NextPayload(c)
  <2>1. /\ out' = [out EXCEPT ![c] = Append(@, x)]
        /\ UNCHANGED <<pc, seed, batch, digests, results, res>>
    BY <1>4 DEF WriteOp
  <2>2. x \in Content /\ Sha[x] = Ops(c)[Len(out[c]) + 1]
    BY <1>1, <1>4, NextGenuine
  <2>. HIDE DEF x
  <2>3. /\ out[c] \in Seq(Content) /\ out'[c] = Append(out[c], x)
        /\ batch[c] \in Nat /\ Len(Ops(c)) \in Nat /\ BatchSize \in Nat
    BY <2>1 DEF FetchInv, ShapeOK, Recipe, Ops, FetchAssumption
  <2>4. ShapeOK'
    BY <2>1, <2>2 DEF FetchInv, ShapeOK
  <2>5. CommandOK(c)'
    <3>1. CommandOK(c)
      BY DEF FetchInv
    <3>2. Len(out'[c]) \in batch[c]..BatchEnd(c)
      BY <1>1, <2>3, <3>1 DEF CommandOK, BatchEnd, Least
    <3>. QED
      BY <1>1, <2>1, <3>1, <3>2 DEF CommandOK, ResultsOK, Ops, BatchEnd, poolVars
  <2>6. \A o \in Client : o # c => Untouched(o)
    BY <1>1, <2>1 DEF FetchInv, ShapeOK, Untouched, poolVars
  <2>7. Output!Deliver(c)
    <3>1. Len(out[c]) < Len(seed[c].ops)
      BY <1>1, <2>3 DEF BatchEnd, Least, Ops
    <3>. QED
      BY <1>1, <2>1, <2>2, <3>1 DEF Output!Deliver, Ops
  <2>. QED
    BY <1>2, <2>4, <2>5, <2>6, <2>7, StepOK DEF Sound, Output!DeliveryNext
<1>. QED
  BY <1>3, <1>4

\* A batch is written.
LEMMA BatchDoneSound ==
    ASSUME FetchInv, NEW c \in Client, BatchDone(c), FetchAssumption
    PROVE  Sound
<1>1. /\ pc[c] = "write" /\ Len(out[c]) = BatchEnd(c)
      /\ batch' = [batch EXCEPT ![c] = @ + BatchSize]
      /\ pc' = [pc EXCEPT ![c] = "batch"]
      /\ UNCHANGED <<seed, digests, results, out, res, poolVars>>
  BY DEF BatchDone
<1>2. PoolInv'
  BY <1>1, PoolInvStutter DEF FetchInv
<1>3. BatchSize \in Nat
  BY DEF FetchAssumption
<1>4. ShapeOK' /\ pc'[c] = "batch" /\ batch'[c] = batch[c] + BatchSize
  BY <1>1, <1>3 DEF FetchInv, ShapeOK
<1>5. CommandOK(c)'
  <2>1. CommandOK(c) /\ Len(out[c]) = Least(batch'[c], Len(Ops(c)))
    BY <1>1, <1>4 DEF FetchInv, BatchEnd
  <2>. QED
    BY <1>1, <1>4, <2>1 DEF CommandOK, Ops, poolVars
<1>6. \A o \in Client : o # c => Untouched(o)
  BY <1>1 DEF FetchInv, ShapeOK, Untouched, poolVars
<1>7. UNCHANGED Output!deliveryVars
  <2>1. \A o \in Client : pc'[o] = "idle" <=> pc[o] = "idle"
    BY <1>1 DEF FetchInv, ShapeOK
  <2>. QED
    BY <1>1, <2>1, Quiet
<1>. QED
  BY <1>2, <1>4, <1>5, <1>6, <1>7, StepOK DEF Sound

\* All batches are written: success, if the digest of the whole agrees.
LEMMA DoneSound ==
    ASSUME FetchInv, NEW c \in Client, FetchDone(c)
    PROVE  Sound
<1>1. /\ pc[c] = "batch" /\ batch[c] >= Len(Ops(c)) /\ UNCHANGED poolVars
      /\ Ends(c, "ok") \/ Ends(c, "failed")
  BY DEF FetchDone
<1>2. PoolInv'
  BY <1>1, PoolInvStutter DEF FetchInv
<1>3. CASE Ends(c, "failed")
  BY <1>1, <1>3, FailSound DEF FetchInv, CommandOK
<1>4. CASE Ends(c, "ok")
  <2>1. /\ pc' = [pc EXCEPT ![c] = "idle"] /\ res' = [res EXCEPT ![c] = "ok"]
        /\ UNCHANGED <<seed, out>>
    BY <1>4 DEF Ends
  <2>2. Len(out[c]) = Len(seed[c].ops)
    <3>1. batch[c] \in Nat /\ Len(Ops(c)) \in Nat
      BY DEF FetchInv, ShapeOK, Recipe, Ops
    <3>2. Len(out[c]) = Least(batch[c], Len(Ops(c)))
      BY <1>1 DEF FetchInv, CommandOK
    <3>. QED
      BY <1>1, <3>1, <3>2 DEF Least, Ops
  <2>3. [o \in Client |-> pc'[o] # "idle"]
          = [[o \in Client |-> pc[o] # "idle"] EXCEPT ![c] = FALSE]
    BY <2>1 DEF FetchInv, ShapeOK
  <2>4. Output!Succeed(c)
    BY <1>1, <2>1, <2>2, <2>3 DEF Output!Succeed
  <2>5. pool'[c] = "closed" /\ \A o \in Client : o # c => pool'[o] = pool[o]
    BY <1>1 DEF FetchInv, CommandOK, poolVars
  <2>. QED
    BY <1>2, <1>4, <2>4, <2>5, EndsOK DEF Sound, Output!DeliveryNext
<1>. QED
  BY <1>1, <1>3, <1>4

-----------------------------------------------------------------------------
(* The steps of its threads and of the environment.                         *)

\* A command with a thread at work is waiting for its pool.
LEMMA RunningInPool ==
    ASSUME FetchInv, NEW c \in Client, TasksIn(c, {"queued", "running"}) # {}
    PROVE  pc[c] = "pool"
<1>1. pool[c] # "closed"
  BY WorkInPool DEF FetchInv
<1>. QED
  BY <1>1 DEF FetchInv, CommandOK

\* A thread returns a payload only if it has the digest asked for.
LEMMA RequestSound ==
    ASSUME FetchInv, NEW c \in Client, Request(c)
    PROVE  Sound
<1>1. PICK t \in TasksIn(c, {"running"}) :
        \/ ApiAnswers(c, t) \/ ApiFails(c, t) \/ ApiSilent(c, t)
        \/ GatewayAnswers(c, t) \/ GatewayFails(c, t)
  BY DEF Request
<1>2. UNCHANGED <<pc, seed, batch, digests, out, res>>
  BY <1>1 DEF ApiAnswers, ApiFails, ApiSilent, GatewayAnswers, GatewayFails, OtherOwn
<1>3. \/ \E x \in Content : Sha[x] = digests[c][t] /\ Returns(c, t, x)
      \/ UNCHANGED results /\ TaskEnds(c, t, "tool")
      \/ UNCHANGED results /\ TaskEnds(c, t, "other")
      \/ UNCHANGED <<results, poolVars>>
  BY <1>1 DEF ApiAnswers, ApiFails, ApiSilent, GatewayAnswers, GatewayFails
<1>4. PoolInv' /\ pool' = pool /\ pc[c] = "pool"
  <2>1. PoolInv' /\ pool' = pool
    BY <1>3, AttemptKeeps, PoolInvStutter DEF FetchInv, Returns, TaskEnds, poolVars
  <2>. QED
    BY <2>1, RunningInPool DEF TasksIn
<1>5. FetchInv'
  <2>1. CASE UNCHANGED results
    BY <1>2, <1>4, <2>1, SameOK
  <2>2. CASE \E x \in Content : Sha[x] = digests[c][t] /\ Returns(c, t, x)
    <3>1. PICK x \in Content : /\ Sha[x] = digests[c][t]
                               /\ results' = [results EXCEPT ![c][t] = x]
      BY <2>2 DEF Returns
    <3>2. ShapeOK'
      BY <1>2, <3>1 DEF FetchInv, ShapeOK
    <3>3. CommandOK(c) /\ results'[c] = [results[c] EXCEPT ![t] = x]
      BY <3>1 DEF FetchInv, ShapeOK
    <3>4. /\ results'[c] \in [DOMAIN digests[c] -> Content \union {Missing}]
          /\ \A u \in DOMAIN digests[c] :
                results'[c][u] # Missing => Sha[results'[c][u]] = digests[c][u]
      <4>1. /\ results[c] \in [DOMAIN digests[c] -> Content \union {Missing}]
            /\ \A u \in DOMAIN digests[c] :
                  results[c][u] # Missing => Sha[results[c][u]] = digests[c][u]
        BY <1>4, <3>3 DEF CommandOK, ResultsOK
      <4>2. results'[c] \in [DOMAIN digests[c] -> Content \union {Missing}]
        BY <3>3, <4>1
      <4>3. ASSUME NEW u \in DOMAIN digests[c], results'[c][u] # Missing
            PROVE  Sha[results'[c][u]] = digests[c][u]
        <5>1. CASE u = t
          BY <3>1, <3>3, <4>1, <5>1
        <5>2. CASE u # t
          BY <3>3, <4>1, <4>3, <5>2
        <5>. QED
          BY <5>1, <5>2
      <4>. QED
        BY <4>2, <4>3
    <3>5. CommandOK(c)'
      BY <1>2, <1>4, <3>3, <3>4 DEF CommandOK, ResultsOK, Ops, BatchEnd
    <3>6. \A o \in Client : o # c => Untouched(o)
      BY <1>2, <1>4, <3>1 DEF FetchInv, ShapeOK, Untouched
    <3>. QED
      BY <1>4, <3>2, <3>5, <3>6, StepOK
  <2>. QED
    BY <1>3, <2>1, <2>2
<1>. QED
  BY <1>2, <1>5, Quiet DEF Sound

\* A pool moves only while its command waits for it.
LEMMA PoolStepPools ==
    ASSUME FetchInv, NEW c \in Client, WorkerTakes(c) \/ MainThread(c)
    PROVE  \A o \in Client : pc[o] # "pool" => pool'[o] = pool[o]
<1>1. \A o \in Client : o # c => pool'[o] = pool[o]
  BY PoolStepReturns DEF FetchInv
<1>2. CASE WorkerTakes(c)
  BY <1>2 DEF WorkerTakes
<1>3. CASE MainThread(c)
  <2>1. pool[c] # "closed" \/ pool' = pool
    BY <1>3 DEF MainThread, CollectReturned, CollectRaised, CollectDone, CancelNext,
                CancelDone, Join
  <2>. QED
    BY <1>1, <2>1 DEF FetchInv, CommandOK
<1>. QED
  BY <1>2, <1>3

\* Every step keeps the invariant and maps to a step of Delivery or to none.
LEMMA NextSound == FetchInv /\ [FetchNext]_fetchVars => Sound
<1>. SUFFICES ASSUME FetchInv, [FetchNext]_fetchVars PROVE Sound
  OBVIOUS
<1>. USE FetchAssumption
<1>1. ASSUME PoolInv', UNCHANGED fetchOwnVars,
             \A c \in Client : pc[c] # "pool" => pool'[c] = pool[c]
      PROVE  Sound
  BY <1>1, SameOK, Quiet DEF Sound, fetchOwnVars
<1>2. ASSUME NEW c \in Client, FetchStart(c) PROVE Sound
  BY <1>2, StartSound
<1>3. ASSUME NEW c \in Client, FetchStep(c) PROVE Sound
  <2>1. CASE PoolStep(c)
    BY <1>1, <2>1, TakesKeeps, MainThreadKeeps, PoolStepPools DEF PoolStep, FetchInv
  <2>. QED
    BY <1>3, <2>1, BatchSound, LeftSound, WriteSound, BatchDoneSound, DoneSound, RequestSound
       DEF FetchStep
<1>4. ASSUME NEW c \in Client, Kill(c) PROVE Sound
  <2>1. /\ PoolInv' /\ pool'[c] = "closed"
        /\ \A o \in Client : o # c => pool'[o] = pool[o]
    BY <1>4, KilledKeeps DEF Kill, FetchInv, PoolInv, PoolTypeOK, PoolKilled
  <2>. QED
    BY <1>4, <2>1, EndsSound DEF Kill
<1>5. CASE NodeLives
  BY <1>1, <1>5, PoolInvStutter DEF NodeLives, FetchInv, poolVars
<1>6. CASE UNCHANGED fetchVars
  BY <1>1, <1>6, PoolInvStutter DEF fetchVars, FetchInv, poolVars
<1>. QED
  BY <1>2, <1>3, <1>4, <1>5, <1>6 DEF FetchNext

\* The first state satisfies the invariant.
LEMMA InitSound == FetchInit => FetchInv /\ Output!DeliveryInit
<1>. SUFFICES ASSUME FetchInit PROVE FetchInv /\ Output!DeliveryInit
  OBVIOUS
<1>1. PoolInv
  BY PoolInvInit DEF FetchInit
<1>2. BlankRecipe \in Recipe /\ BlankRecipe.ops = <<>> /\ BlankRecipe.raw = {}
  BY DEF BlankRecipe, Recipe
<1>3. ShapeOK
  BY <1>2 DEF FetchInit, ShapeOK
<1>4. ASSUME NEW c \in Client PROVE CommandOK(c)
  BY <1>2 DEF FetchInit, CommandOK, PoolInit
<1>5. Output!DeliveryInit
  BY <1>2 DEF FetchInit, Output!DeliveryInit
<1>. QED
  BY <1>1, <1>3, <1>4, <1>5 DEF FetchInv

\* The invariant holds throughout.
LEMMA FetchInvAlways == FetchSpec => []FetchInv
<1>1. FetchInit => FetchInv
  BY InitSound
<1>2. FetchInv /\ [FetchNext]_fetchVars => FetchInv'
  BY NextSound DEF Sound
<1>. QED
  BY <1>1, <1>2, PTL DEF FetchSpec

\* fetch-decode implements Delivery: in whatever order threads finish and
\* whatever the node or the gateway serves, the output grows by the genuine
\* chunks of the recipe in their order, and success means that it is whole.
THEOREM FetchImplements == FetchSpec => DeliveryKept
<1>1. FetchInit => Output!DeliveryInit
  BY InitSound
<1>2. FetchInv /\ [FetchNext]_fetchVars => [Output!DeliveryNext]_Output!deliveryVars
  BY NextSound DEF Sound
<1>. QED
  BY <1>1, <1>2, FetchInvAlways, PTL DEF FetchSpec, DeliveryKept, Output!DeliverySpec

\* The pool of fetch_chunks_parallel, for any number of threads and chunks:
\* nothing is started once all futures have been told to cancel, and it is left
\* with every result or with an exception some task raised.
THEOREM FetchPoolsSafe ==
    FetchSpec => [](NothingStartsAfterCancel /\ AllOrRaise)
<1>1. FetchInv => NothingStartsAfterCancel /\ AllOrRaise
  BY PoolInvGives DEF FetchInv
<1>. QED
  BY <1>1, FetchInvAlways, PTL

-----------------------------------------------------------------------------
(* The gateway.                                                             *)

\* Giving up asks the gateway, fails for want of one, or follows a payload
\* with the wrong hash.
LEMMA RequestAsks ==
    ASSUME FetchInv, GatewayAsked, NEW c \in Client, DOMAIN asked = Client, Request(c)
    PROVE  GatewayAsked' /\ DOMAIN asked' = Client
<1>1. PICK t \in TasksIn(c, {"running"}) :
        \/ ApiAnswers(c, t) \/ ApiFails(c, t) \/ ApiSilent(c, t)
        \/ GatewayAnswers(c, t) \/ GatewayFails(c, t)
  BY DEF Request
<1>2. UNCHANGED <<pc, gateway>>
  BY <1>1 DEF ApiAnswers, ApiFails, ApiSilent, GatewayAnswers, GatewayFails, OtherOwn
<1>3. \/ UNCHANGED poolVars /\ UNCHANGED asked
      \/ \E how \in {"returned", "tool", "other"} :
            /\ TaskEnds(c, t, how)
            /\ \/ UNCHANGED asked /\ (how = "tool" => ~gateway[c])
               \/ asked' = [asked EXCEPT ![c] = @ \union {t}]
  BY <1>1 DEF ApiAnswers, ApiFails, ApiSilent, GatewayAnswers, GatewayFails, Returns
<1>4. CASE UNCHANGED poolVars /\ UNCHANGED asked
  BY <1>2, <1>4 DEF GatewayAsked, TasksIn, poolVars
<1>5. ASSUME NEW how \in {"returned", "tool", "other"}, TaskEnds(c, t, how),
             \/ UNCHANGED asked /\ (how = "tool" => ~gateway[c])
             \/ asked' = [asked EXCEPT ![c] = @ \union {t}]
      PROVE  GatewayAsked' /\ DOMAIN asked' = Client
  <2>1. /\ t \in DOMAIN futures[c] /\ PoolTypeOK /\ how \in FutureState
        /\ futures' = [futures EXCEPT ![c][t] = how]
    BY <1>5 DEF TasksIn, TaskEnds, FetchInv, PoolInv, FutureState
  <2>2. /\ futures'[c][t] = how /\ DOMAIN futures'[c] = DOMAIN futures[c]
        /\ \A u \in DOMAIN futures[c] : u # t => futures'[c][u] = futures[c][u]
        /\ \A o \in Client : o # c => futures'[o] = futures[o]
    BY <2>1, FutureMoves
  <2>3. /\ DOMAIN asked' = Client /\ asked[c] \subseteq asked'[c]
        /\ how = "tool" /\ gateway[c] => t \in asked'[c]
        /\ \A o \in Client : o # c => asked'[o] = asked[o]
    BY <1>5
  <2>4. ASSUME NEW o \in Client, pc[o] = "pool", gateway[o], NEW u \in TasksIn(o, {"tool"})'
        PROVE  u \in asked'[o]
    <3>1. u \in DOMAIN futures'[o] /\ futures'[o][u] = "tool"
      BY <2>4 DEF TasksIn
    <3>2. CASE o = c /\ u = t
      BY <2>2, <2>3, <2>4, <3>1, <3>2
    <3>3. CASE ~(o = c /\ u = t)
      <4>1. u \in TasksIn(o, {"tool"})
        BY <2>2, <3>1, <3>3 DEF TasksIn
      <4>. QED
        BY <2>3, <2>4, <4>1 DEF GatewayAsked
    <3>. QED
      BY <3>2, <3>3
  <2>. QED
    BY <1>2, <2>3, <2>4 DEF GatewayAsked
<1>. QED
  BY <1>3, <1>4, <1>5

\* No step of the pool itself makes a task fail.
LEMMA PoolStepAsks ==
    ASSUME FetchInv, GatewayAsked, NEW c \in Client, PoolStep(c)
    PROVE  GatewayAsked'
<1>1. /\ WorkerTakes(c) \/ MainThread(c)
      /\ UNCHANGED <<pc, gateway, asked>>
  BY DEF PoolStep, fetchOwnVars
<1>2. PoolTypeOK
  BY DEF FetchInv, PoolInv
<1>3. \/ UNCHANGED futures
      \/ \E t \in DOMAIN futures[c], how \in {"running", "cancelled"} :
            futures' = [futures EXCEPT ![c][t] = how]
  <2>1. CASE WorkerTakes(c)
    BY <2>1 DEF WorkerTakes, TasksIn
  <2>2. CASE CancelNext(c)
    <3>. DEFINE t == cancelled[c] + 1
    <3>1. /\ t <= Len(futures[c])
          /\ futures' = IF futures[c][t] = "queued"
                        THEN [futures EXCEPT ![c][t] = "cancelled"] ELSE futures
      BY <2>2 DEF CancelNext
    <3>2. t \in DOMAIN futures[c]
      BY <1>2, <3>1 DEF PoolTypeOK
    <3>. HIDE DEF t
    <3>. QED
      BY <3>1, <3>2
  <2>3. CASE MainThread(c) /\ ~CancelNext(c)
    BY <2>3 DEF MainThread, CollectReturned, CollectRaised, CollectDone, CancelDone, Join
  <2>. QED
    BY <1>1, <2>1, <2>2, <2>3
<1>4. ASSUME NEW t \in DOMAIN futures[c], NEW how \in {"running", "cancelled"},
             futures' = [futures EXCEPT ![c][t] = how]
      PROVE  \A o \in Client : TasksIn(o, {"tool"})' \subseteq TasksIn(o, {"tool"})
  <2>1. how \in FutureState
    BY DEF FutureState
  <2>2. /\ futures'[c][t] = how /\ DOMAIN futures'[c] = DOMAIN futures[c]
        /\ \A u \in DOMAIN futures[c] : u # t => futures'[c][u] = futures[c][u]
        /\ \A o \in Client : o # c => futures'[o] = futures[o]
    BY <1>2, <1>4, <2>1, FutureMoves
  <2>. QED
    BY <2>2 DEF TasksIn
<1>5. \A o \in Client : TasksIn(o, {"tool"})' \subseteq TasksIn(o, {"tool"})
  BY <1>3, <1>4 DEF TasksIn
<1>. QED
  BY <1>1, <1>5 DEF GatewayAsked

\* Every step keeps GatewayAsked.
LEMMA NextAsks ==
    ASSUME FetchInv, GatewayAsked, DOMAIN asked = Client, [FetchNext]_fetchVars,
           FetchAssumption
    PROVE  GatewayAsked' /\ DOMAIN asked' = Client
<1>1. ASSUME NEW c \in Client, pc'[c] # "pool", UNCHANGED <<poolVars>>,
             asked' = [asked EXCEPT ![c] = {}] \/ UNCHANGED asked,
             \A o \in Client : o # c => pc'[o] = pc[o] /\ gateway'[o] = gateway[o]
      PROVE  GatewayAsked' /\ DOMAIN asked' = Client
  <2>1. DOMAIN asked' = Client /\ \A o \in Client : o # c => asked'[o] = asked[o]
    BY <1>1
  <2>. QED
    BY <1>1, <2>1 DEF GatewayAsked, TasksIn, poolVars
<1>2. ASSUME UNCHANGED <<poolVars, pc, gateway, asked>>
      PROVE  GatewayAsked' /\ DOMAIN asked' = Client
  BY <1>2 DEF GatewayAsked, TasksIn, poolVars
<1>3. ASSUME NEW c \in Client, FetchStart(c)
      PROVE  GatewayAsked' /\ DOMAIN asked' = Client
  <2>1. /\ pc' = [pc EXCEPT ![c] = "batch"] /\ UNCHANGED poolVars
        /\ \E gw \in BOOLEAN : gateway' = [gateway EXCEPT ![c] = gw]
        /\ asked' = [asked EXCEPT ![c] = {}]
    BY <1>3 DEF FetchStart
  <2>2. pc'[c] # "pool" /\ \A o \in Client : o # c => pc'[o] = pc[o]
    BY <2>1 DEF FetchInv, ShapeOK
  <2>3. \A o \in Client : o # c => gateway'[o] = gateway[o]
    BY <2>1
  <2>. QED
    BY <1>1, <2>1, <2>2, <2>3
<1>4. ASSUME NEW c \in Client, BatchStart(c)
      PROVE  GatewayAsked' /\ DOMAIN asked' = Client
  <2>1. /\ asked' = [asked EXCEPT ![c] = {}] /\ UNCHANGED gateway
        /\ \/ pc' = [pc EXCEPT ![c] = "write"] /\ UNCHANGED poolVars
           \/ pc' = [pc EXCEPT ![c] = "pool"] /\ Submit(c, Len(ToFetch(c)))
    BY <1>4 DEF BatchStart
  <2>2. CASE pc' = [pc EXCEPT ![c] = "write"] /\ UNCHANGED poolVars
    <3>1. pc'[c] # "pool" /\ \A o \in Client : o # c => pc'[o] = pc[o]
      BY <2>2 DEF FetchInv, ShapeOK
    <3>. QED
      BY <1>1, <2>1, <2>2, <3>1
  <2>3. CASE pc' = [pc EXCEPT ![c] = "pool"] /\ Submit(c, Len(ToFetch(c)))
    <3>1. /\ DOMAIN asked' = Client /\ \A o \in Client : o # c => asked'[o] = asked[o]
          /\ \A o \in Client : o # c => pc'[o] = pc[o]
      BY <2>1, <2>3 DEF FetchInv, ShapeOK
    <3>2. futures' = [futures EXCEPT ![c] = [t \in 1..Len(ToFetch(c)) |-> "queued"]]
      BY <2>3 DEF Submit
    <3>3. TasksIn(c, {"tool"})' = {} /\ \A o \in Client : o # c => futures'[o] = futures[o]
      BY <3>2 DEF FetchInv, PoolInv, PoolTypeOK, TasksIn
    <3>. QED
      BY <2>1, <3>1, <3>3 DEF GatewayAsked, TasksIn
  <2>. QED
    BY <2>1, <2>2, <2>3
<1>5. ASSUME NEW c \in Client, NEW phase \in {"idle", "batch", "write"},
             pc' = [pc EXCEPT ![c] = phase], UNCHANGED <<poolVars, gateway, asked>>
      PROVE  GatewayAsked' /\ DOMAIN asked' = Client
  <2>1. pc'[c] # "pool" /\ \A o \in Client : o # c => pc'[o] = pc[o]
    BY <1>5 DEF FetchInv, ShapeOK
  <2>. QED
    BY <1>1, <1>5, <2>1
<1>6. ASSUME NEW c \in Client, PoolLeft(c) \/ WriteOp(c) \/ BatchDone(c) \/ FetchDone(c)
      PROVE  GatewayAsked' /\ DOMAIN asked' = Client
  <2>1. CASE PoolLeft(c)
    <3>1. raised[c] \in {"none", "tool", "other"}
      BY DEF FetchInv, PoolInv, PoolTypeOK
    <3>. QED
      BY <1>5, <2>1, <3>1 DEF PoolLeft, Ends
  <2>2. CASE WriteOp(c)
    BY <1>2, <1>5, <2>2 DEF WriteOp, Ends
  <2>3. CASE BatchDone(c) \/ FetchDone(c)
    BY <1>5, <2>3 DEF BatchDone, FetchDone, Ends
  <2>. QED
    BY <1>6, <2>1, <2>2, <2>3
<1>7. ASSUME NEW c \in Client, Kill(c)
      PROVE  GatewayAsked' /\ DOMAIN asked' = Client
  <2>1. /\ pc' = [pc EXCEPT ![c] = "idle"] /\ UNCHANGED <<gateway, asked>>
        /\ futures' = [futures EXCEPT ![c] = <<>>]
    BY <1>7 DEF Kill, Ends, PoolKilled
  <2>2. /\ pc'[c] # "pool"
        /\ \A o \in Client : o # c => pc'[o] = pc[o] /\ futures'[o] = futures[o]
    BY <2>1 DEF FetchInv, ShapeOK, PoolInv, PoolTypeOK
  <2>. QED
    BY <2>1, <2>2 DEF GatewayAsked, TasksIn
<1>8. CASE NodeLives \/ UNCHANGED fetchVars
  BY <1>2, <1>8 DEF NodeLives, fetchVars, fetchOwnVars
<1>9. ASSUME NEW c \in Client, PoolStep(c)
      PROVE  GatewayAsked' /\ DOMAIN asked' = Client
  BY <1>9, PoolStepAsks DEF PoolStep
<1>. QED
  BY <1>3, <1>4, <1>6, <1>7, <1>8, <1>9, RequestAsks DEF FetchNext, FetchStep

\* With a gateway configured no chunk is given up with an ExternalToolError
\* before the gateway was asked, unless a payload had the wrong hash, for
\* any number of threads and attempts.
THEOREM FetchAsksGateway == FetchSpec => []GatewayAsked
<1>. DEFINE Inv == GatewayAsked /\ DOMAIN asked = Client
<1>1. FetchInit => Inv
  BY DEF FetchInit, GatewayAsked
<1>2. FetchInv /\ Inv /\ [FetchNext]_fetchVars => Inv'
  BY NextAsks, FetchAssumption
<1>3. Inv => GatewayAsked
  OBVIOUS
<1>. HIDE DEF Inv
<1>. QED
  BY <1>1, <1>2, <1>3, FetchInvAlways, PTL DEF FetchSpec
-----------------------------------------------------------------------------
(* Decodes over the hybrid genome.                                          *)

\* The first n ops of a recipe no longer need the node.
Covered(c, n) ==
    \A i \in 1..n : Ops(c)[i] \in seed[c].raw \/ HasChunk(Ops(c)[i])

\* What one decode knows: there is an op left while it asks for one, what it
\* is about to cache is that op's payload, and what it has written is kept.
DecodeOK(c) ==
    /\ pc[c] \in Fetching => cache[c] = "none"
    /\ pc[c] \in Decoding => Len(out[c]) <= Len(Ops(c))
    /\ pc[c] \in {"ask", "cache"} => Len(out[c]) < Len(Ops(c))
    /\ pc[c] = "cache" => results[c][1] \in Content /\ Sha[results[c][1]] = Wanted(c)
    /\ cache[c] = "kept" /\ pc[c] \in Decoding => Covered(c, Len(out[c]))
    /\ cache[c] = "kept" /\ pc[c] = "idle" /\ res[c] = "ok" => Covered(c, Len(Ops(c)))

CacheShape ==
    /\ genome \in [Digest -> Row]
    /\ cache \in [Client -> {"none", "discarded", "kept"}]
    /\ kills \in Nat

HybridInv ==
    /\ FetchInv
    /\ CacheShape
    /\ \A c \in Client : DecodeOK(c)

\* No row of the cache goes.
RowsKept == \A d \in Digest : HasChunk(d) => HasChunk(d)'

\* What a step may put into the cache.
Genuine ==
    \A d \in Digest : genome'[d] # genome[d] =>
        (genome[d] = Missing /\ Sha[genome'[d]] = d) \/ kills' # kills

\* What is proved of every step.
HybridSound == Sound /\ HybridInv' /\ Genuine

\* A command that does not move stays as it is while rows are kept.
LEMMA StillOK ==
    ASSUME HybridInv, NEW o \in Client, RowsKept,
           pc'[o] = pc[o], seed'[o] = seed[o], out'[o] = out[o],
           results'[o] = results[o], res'[o] = res[o], cache'[o] = cache[o]
    PROVE  DecodeOK(o)'
<1>1. DecodeOK(o) /\ out[o] \in Seq(Content) /\ Ops(o) \in Seq(Digest) /\ Ops(o)' = Ops(o)
  BY DEF HybridInv, FetchInv, ShapeOK, Recipe, Ops
<1>2. ASSUME NEW n \in Nat, n <= Len(Ops(o)), Covered(o, n) PROVE Covered(o, n)'
  <2>1. ASSUME NEW i \in 1..n
        PROVE  Ops(o)[i] \in seed'[o].raw \/ genome'[Ops(o)[i]] # Missing
    <3>1. Ops(o)[i] \in Digest
      BY <1>1, <1>2
    <3>. QED
      BY <1>2, <3>1 DEF Covered, RowsKept, HasChunk
  <2>. QED
    BY <1>1, <2>1 DEF Covered, HasChunk
<1>3. Wanted(o)' = Wanted(o)
  BY <1>1 DEF Wanted
<1>4. Len(out[o]) <= Len(Ops(o)) /\ Covered(o, Len(out[o])) => Covered(o, Len(out[o]))'
  BY <1>1, <1>2
<1>5. Covered(o, Len(Ops(o))) => Covered(o, Len(Ops(o)))'
  BY <1>1, <1>2
<1>. QED
  BY <1>1, <1>3, <1>4, <1>5 DEF DecodeOK, Decoding

\* The rest of a step of a decode, which leaves the others alone.
LEMMA StepHybrid ==
    ASSUME HybridInv, NEW c \in Client, Sound, Genuine, CacheShape', DecodeOK(c)', RowsKept,
           \A o \in Client : o # c =>
              /\ pc'[o] = pc[o] /\ seed'[o] = seed[o] /\ out'[o] = out[o]
              /\ results'[o] = results[o] /\ res'[o] = res[o] /\ cache'[o] = cache[o]
    PROVE  HybridSound
<1>1. ASSUME NEW o \in Client PROVE DecodeOK(o)'
  BY StillOK
<1>. QED
  BY <1>1 DEF HybridSound, HybridInv, Sound

\* Nothing happens to the cache.
CacheAlone == UNCHANGED <<genome, cache, kills>>

LEMMA AloneOK ==
    ASSUME HybridInv, CacheAlone
    PROVE  CacheShape' /\ RowsKept /\ Genuine
BY DEF CacheAlone, HybridInv, CacheShape, RowsKept, Genuine, HasChunk

\* A decode gives up.
LEMMA GiveUpHybrid ==
    ASSUME HybridInv, NEW c \in Client, pc[c] \in Decoding, UNCHANGED poolVars, CacheAlone,
           Ends(c, "failed") \/ Ends(c, "crashed")
    PROVE  HybridSound
<1>1. /\ pc' = [pc EXCEPT ![c] = "idle"]
      /\ \E r \in {"failed", "crashed"} : res' = [res EXCEPT ![c] = r]
      /\ UNCHANGED <<seed, out, results>>
  BY DEF Ends
<1>2. Sound
  BY FailSound DEF HybridInv, FetchInv, CommandOK, Decoding
<1>3. pc'[c] = "idle" /\ res'[c] \in {"failed", "crashed"}
  BY <1>1 DEF HybridInv, FetchInv, ShapeOK
<1>4. DecodeOK(c)'
  BY <1>3 DEF DecodeOK, Fetching, Decoding
<1>5. \A o \in Client : o # c => pc'[o] = pc[o] /\ res'[o] = res[o]
  BY <1>1 DEF HybridInv, FetchInv, ShapeOK
<1>. QED
  BY <1>1, <1>2, <1>4, <1>5, AloneOK, StepHybrid DEF CacheAlone

\* A decode goes on without writing, with or without a payload to cache.
LEMMA MovesHybrid ==
    ASSUME HybridInv, NEW c \in Client, pc[c] \in Decoding, Len(out[c]) < Len(Ops(c)),
           UNCHANGED poolVars, CacheAlone, UNCHANGED <<seed, batch, digests, out, res>>,
           \/ pc' = [pc EXCEPT ![c] = "ask"] /\ UNCHANGED results
           \/ \E x \in Content : /\ pc' = [pc EXCEPT ![c] = "cache"]
                                 /\ results' = [results EXCEPT ![c] = <<x>>]
                                 /\ Sha[x] = Wanted(c)
    PROVE  HybridSound
<1>1. /\ pc'[c] \in {"ask", "cache"}
      /\ pc'[c] = "cache" => results'[c][1] \in Content /\ Sha[results'[c][1]] = Wanted(c)
      /\ \A o \in Client : o # c => pc'[o] = pc[o] /\ results'[o] = results[o]
  BY DEF HybridInv, FetchInv, ShapeOK
<1>2. PoolInv' /\ pool' = pool /\ ShapeOK'
  BY PoolInvStutter DEF HybridInv, FetchInv, ShapeOK, poolVars
<1>3. CommandOK(c)'
  BY <1>1, <1>2 DEF HybridInv, FetchInv, CommandOK, Decoding
<1>4. \A o \in Client : o # c => Untouched(o)
  BY <1>1, <1>2 DEF Untouched
<1>5. Sound
  <2>1. \A o \in Client : pc'[o] = "idle" <=> pc[o] = "idle"
    BY <1>1 DEF Decoding
  <2>. QED
    BY <1>2, <1>3, <1>4, <2>1, StepOK, Quiet DEF Sound, HybridInv
<1>6. DecodeOK(c)'
  <2>1. DecodeOK(c) /\ Wanted(c)' = Wanted(c) /\ Ops(c)' = Ops(c)
    BY DEF HybridInv, Wanted, Ops
  <2>2. Len(out[c]) \in Nat /\ Len(Ops(c)) \in Nat
    BY DEF HybridInv, FetchInv, ShapeOK, Recipe, Ops
  <2>3. Covered(c, Len(out[c])) => Covered(c, Len(out[c]))'
    BY DEF Covered, Ops, CacheAlone, HasChunk
  <2>. QED
    BY <1>1, <2>1, <2>2, <2>3 DEF DecodeOK, Fetching, Decoding, CacheAlone
<1>. QED
  BY <1>1, <1>5, <1>6, AloneOK, StepHybrid DEF CacheAlone

\* A decode writes the next op, which the seed embeds or a kept cache now has.
LEMMA WritesHybrid ==
    ASSUME HybridInv, NEW c \in Client, pc[c] \in Decoding, Len(out[c]) < Len(Ops(c)),
           NEW x \in Content, Sha[x] = Wanted(c), Writes(c, x), UNCHANGED poolVars,
           CacheShape', RowsKept, Genuine, UNCHANGED cache,
           cache[c] = "kept" => Wanted(c) \in seed[c].raw \/ genome'[Wanted(c)] # Missing
    PROVE  HybridSound
<1>1. /\ out' = [out EXCEPT ![c] = Append(@, x)]
      /\ pc' = [pc EXCEPT ![c] = "ops"]
      /\ results' = [results EXCEPT ![c] = <<>>]
      /\ UNCHANGED <<seed, batch, digests, res>>
  BY DEF Writes
<1>2. /\ pc'[c] = "ops" /\ out'[c] = Append(out[c], x)
      /\ \A o \in Client : o # c =>
            pc'[o] = pc[o] /\ out'[o] = out[o] /\ results'[o] = results[o]
  BY <1>1 DEF HybridInv, FetchInv, ShapeOK
<1>3. PoolInv' /\ pool' = pool
  BY PoolInvStutter DEF HybridInv, FetchInv, poolVars
<1>4. ShapeOK'
  BY <1>1 DEF HybridInv, FetchInv, ShapeOK
<1>5. CommandOK(c)'
  BY <1>1, <1>2, <1>3 DEF HybridInv, FetchInv, CommandOK, Decoding
<1>6. \A o \in Client : o # c => Untouched(o)
  BY <1>1, <1>2, <1>3 DEF Untouched
<1>7. Output!Deliver(c)
  <2>1. [o \in Client |-> pc'[o] # "idle"] = [o \in Client |-> pc[o] # "idle"]
    BY <1>2 DEF Decoding
  <2>. QED
    BY <1>1, <2>1 DEF Output!Deliver, Wanted, Ops, Decoding
<1>8. Sound
  BY <1>3, <1>4, <1>5, <1>6, <1>7, StepOK DEF Sound, Output!DeliveryNext, HybridInv
<1>9. DecodeOK(c)'
  <2>1. /\ DecodeOK(c) /\ Ops(c)' = Ops(c) /\ Ops(c) \in Seq(Digest)
        /\ out[c] \in Seq(Content) /\ Len(out'[c]) = Len(out[c]) + 1
    BY <1>1, <1>2 DEF HybridInv, FetchInv, ShapeOK, Recipe, Ops
  <2>2. ASSUME cache[c] = "kept", NEW i \in 1..Len(out[c]) + 1
        PROVE  Ops(c)[i] \in seed[c].raw \/ genome'[Ops(c)[i]] # Missing
    <3>1. CASE i = Len(out[c]) + 1
      BY <2>2, <3>1 DEF Wanted
    <3>2. CASE i # Len(out[c]) + 1
      <4>1. i \in 1..Len(out[c]) /\ Ops(c)[i] \in Digest
        BY <2>1, <3>2
      <4>2. Ops(c)[i] \in seed[c].raw \/ HasChunk(Ops(c)[i])
        BY <2>1, <2>2, <4>1 DEF DecodeOK, Covered
      <4>. QED
        BY <4>1, <4>2 DEF RowsKept, HasChunk
    <3>. QED
      BY <3>1, <3>2
  <2>3. cache[c] = "kept" => Covered(c, Len(out[c]))'
    BY <1>1, <2>1, <2>2 DEF Covered, HasChunk
  <2>. QED
    BY <1>2, <2>1, <2>3 DEF DecodeOK, Fetching, Decoding
<1>. QED
  BY <1>1, <1>2, <1>8, <1>9, StepHybrid

\* A decode opens its output.
LEMMA DecodeStartHybrid ==
    ASSUME HybridInv, NEW c \in Client, DecodeStart(c), FetchAssumption
    PROVE  HybridSound
<1>1. PICK r \in Recipes, k \in {"discarded", "kept"} :
        /\ pc[c] = "idle"
        /\ pc' = [pc EXCEPT ![c] = "ops"]
        /\ seed' = [seed EXCEPT ![c] = r]
        /\ cache' = [cache EXCEPT ![c] = k]
        /\ batch' = [batch EXCEPT ![c] = 0]
        /\ digests' = [digests EXCEPT ![c] = <<>>]
        /\ results' = [results EXCEPT ![c] = <<>>]
        /\ out' = [out EXCEPT ![c] = <<>>]
        /\ res' = [res EXCEPT ![c] = "none"]
        /\ UNCHANGED <<poolVars, genome, kills>>
  BY DEF DecodeStart, genomeVars
<1>2. r \in Recipe /\ r.ops \in Seq(Digest) /\ r.raw \subseteq {Sha[x] : x \in Content}
  BY DEF FetchAssumption, Recipe
<1>3. PoolInv' /\ pool' = pool /\ pool[c] = "closed"
  BY <1>1, PoolInvStutter DEF HybridInv, FetchInv, CommandOK, poolVars
<1>4. ShapeOK'
  BY <1>1, <1>2 DEF HybridInv, FetchInv, ShapeOK
<1>5. /\ pc'[c] = "ops" /\ seed'[c] = r /\ out'[c] = <<>>
      /\ \A o \in Client : o # c => Untouched(o) /\ res'[o] = res[o] /\ cache'[o] = cache[o]
  BY <1>1, <1>3 DEF HybridInv, FetchInv, ShapeOK, CacheShape, Untouched
<1>6. CommandOK(c)'
  BY <1>2, <1>3, <1>5 DEF CommandOK
<1>7. Output!Open(c)
  <2>1. [o \in Client |-> pc'[o] # "idle"]
          = [[o \in Client |-> pc[o] # "idle"] EXCEPT ![c] = TRUE]
    BY <1>1 DEF HybridInv, FetchInv, ShapeOK
  <2>2. [o \in Client |-> seed'[o].ops]
          = [[o \in Client |-> seed[o].ops] EXCEPT ![c] = seed'[c].ops]
    BY <1>1 DEF HybridInv, FetchInv, ShapeOK
  <2>. QED
    BY <1>1, <1>2, <1>5, <2>1, <2>2 DEF Output!Open
<1>8. Sound
  BY <1>3, <1>4, <1>5, <1>6, <1>7, StepOK DEF Sound, Output!DeliveryNext, HybridInv
<1>9. DecodeOK(c)'
  <2>1. Len(out'[c]) = 0 /\ Len(Ops(c)') \in Nat
    BY <1>2, <1>5 DEF Ops
  <2>2. Covered(c, Len(out[c]))'
    BY <2>1 DEF Covered
  <2>. QED
    BY <1>5, <2>1, <2>2 DEF DecodeOK, Fetching, Decoding
<1>10. CacheShape' /\ RowsKept /\ Genuine
  BY <1>1 DEF HybridInv, CacheShape, RowsKept, Genuine, HasChunk
<1>. QED
  BY <1>5, <1>8, <1>9, <1>10, StepHybrid DEF Untouched

\* All ops are written: success, if the digest of the whole agrees.
LEMMA DecodeDoneHybrid ==
    ASSUME HybridInv, NEW c \in Client, DecodeDone(c)
    PROVE  HybridSound
<1>1. /\ pc[c] = "ops" /\ Len(out[c]) = Len(Ops(c))
      /\ UNCHANGED poolVars /\ CacheAlone
      /\ Ends(c, "ok") \/ Ends(c, "failed")
  BY DEF DecodeDone, nodeSide, genomeVars, CacheAlone
<1>2. CASE Ends(c, "failed")
  BY <1>1, <1>2, GiveUpHybrid DEF Decoding
<1>3. CASE Ends(c, "ok")
  <2>1. /\ pc' = [pc EXCEPT ![c] = "idle"] /\ res' = [res EXCEPT ![c] = "ok"]
        /\ UNCHANGED <<seed, out, results>>
    BY <1>3 DEF Ends
  <2>2. PoolInv' /\ pool' = pool /\ pool[c] = "closed"
    BY <1>1, PoolInvStutter DEF HybridInv, FetchInv, CommandOK, poolVars
  <2>3. [o \in Client |-> pc'[o] # "idle"]
          = [[o \in Client |-> pc[o] # "idle"] EXCEPT ![c] = FALSE]
    BY <2>1 DEF HybridInv, FetchInv, ShapeOK
  <2>4. Output!Succeed(c)
    BY <1>1, <2>1, <2>3 DEF Output!Succeed, Ops
  <2>5. Sound
    BY <1>3, <2>2, <2>4, EndsOK DEF Sound, Output!DeliveryNext, HybridInv
  <2>6. pc'[c] = "idle" /\ \A o \in Client : o # c => pc'[o] = pc[o] /\ res'[o] = res[o]
    BY <2>1 DEF HybridInv, FetchInv, ShapeOK
  <2>7. cache[c] = "kept" => Covered(c, Len(Ops(c)))'
    BY <1>1, <2>1 DEF HybridInv, DecodeOK, Decoding, Covered, Ops, CacheAlone, HasChunk
  <2>8. DecodeOK(c)'
    BY <1>1, <2>6, <2>7 DEF DecodeOK, Fetching, Decoding, CacheAlone
  <2>. QED
    BY <1>1, <2>1, <2>5, <2>6, <2>8, AloneOK, StepHybrid DEF CacheAlone
<1>. QED
  BY <1>1, <1>2, <1>3

\* The payload embedded for an op is that op's.
LEMMA EmbeddedGenuine ==
    ASSUME HybridInv, NEW c \in Client, Wanted(c) \in seed[c].raw
    PROVE  PayloadOf(Wanted(c)) \in Content /\ Sha[PayloadOf(Wanted(c))] = Wanted(c)
<1>1. \E x \in Content : Sha[x] = Wanted(c)
  BY DEF HybridInv, FetchInv, CommandOK
<1>. QED
  BY <1>1 DEF PayloadOf

\* What the remote answers with, or without, once nothing else is changed.
LEMMA FoundHybrid ==
    ASSUME HybridInv, NEW c \in Client, pc[c] = "ask", UNCHANGED poolVars, CacheAlone,
           NEW x \in Content,
           IF Sha[x] = Wanted(c) THEN Found(c, x) ELSE Ends(c, "failed")
    PROVE  HybridSound
<1>1. Len(out[c]) < Len(Ops(c)) /\ pc[c] \in Decoding
  BY DEF HybridInv, DecodeOK, Decoding
<1>2. CASE Sha[x] # Wanted(c)
  BY <1>1, <1>2, GiveUpHybrid
<1>3. CASE Sha[x] = Wanted(c) /\ cache[c] = "kept"
  BY <1>1, <1>3, MovesHybrid DEF Found
<1>4. CASE Sha[x] = Wanted(c) /\ cache[c] # "kept"
  BY <1>1, <1>4, AloneOK, WritesHybrid DEF Found, CacheAlone
<1>. QED
  BY <1>2, <1>3, <1>4

LEMMA NotFoundHybrid ==
    ASSUME HybridInv, NEW c \in Client, pc[c] = "ask", UNCHANGED poolVars, CacheAlone,
           NotFound(c)
    PROVE  HybridSound
<1>1. Len(out[c]) < Len(Ops(c)) /\ pc[c] \in Decoding
  BY DEF HybridInv, DecodeOK, Decoding
<1>2. CASE Wanted(c) \in seed[c].raw
  BY <1>1, <1>2, EmbeddedGenuine, AloneOK, WritesHybrid DEF NotFound, CacheAlone
<1>3. CASE Wanted(c) \notin seed[c].raw
  BY <1>1, <1>3, GiveUpHybrid DEF NotFound
<1>. QED
  BY <1>2, <1>3

\* The row is put, or was there; either way it is there now.
LEMMA CacheRowHybrid ==
    ASSUME HybridInv, NEW c \in Client, CacheRow(c), ShaAssumption
    PROVE  HybridSound
<1>. DEFINE x == results[c][1]
<1>1. /\ x \in Content /\ Sha[x] = Wanted(c)
      /\ Len(out[c]) < Len(Ops(c)) /\ pc[c] \in Decoding
  BY DEF CacheRow, HybridInv, DecodeOK, Decoding
<1>2. /\ genome' = [genome EXCEPT ![Wanted(c)] = IF @ = Missing THEN x ELSE @]
      /\ Writes(c, x) /\ UNCHANGED <<poolVars, kills, cache>>
  BY DEF CacheRow, PutChunk, nodeSide
<1>3. /\ Wanted(c) \in Digest /\ genome \in [Digest -> Row]
      /\ Missing \notin Content
  BY <1>1 DEF HybridInv, CacheShape, ShaAssumption
<1>. HIDE DEF x
<1>4. genome'[Wanted(c)] # Missing
  BY <1>1, <1>2, <1>3
<1>5. CacheShape' /\ RowsKept /\ Genuine
  <2>1. genome' \in [Digest -> Row]
    BY <1>1, <1>2, <1>3 DEF Row
  <2>2. \A d \in Digest : d # Wanted(c) => genome'[d] = genome[d]
    BY <1>2, <1>3
  <2>3. genome'[Wanted(c)] = IF genome[Wanted(c)] = Missing THEN x ELSE genome[Wanted(c)]
    BY <1>2, <1>3
  <2>. QED
    BY <1>1, <1>2, <1>4, <2>1, <2>2, <2>3
       DEF HybridInv, CacheShape, RowsKept, Genuine, HasChunk
<1>. QED
  BY <1>1, <1>2, <1>4, <1>5, WritesHybrid

\* Every step of a decode.
LEMMA DecodeStepHybrid ==
    ASSUME HybridInv, NEW c \in Client, DecodeStep(c), ShaAssumption
    PROVE  HybridSound
<1>1. AtOp(c) => /\ pc[c] = "ops" /\ pc[c] \in Decoding
                 /\ Len(out[c]) < Len(Ops(c)) /\ Wanted(c) \in Digest
  BY DEF AtOp, Decoding, Wanted, HybridInv, FetchInv, ShapeOK, Recipe, Ops
<1>2. CASE EmbeddedOp(c)
  <2>1. /\ AtOp(c) /\ Wanted(c) \in seed[c].raw /\ UNCHANGED poolVars /\ CacheAlone
        /\ Writes(c, PayloadOf(Wanted(c)))
    BY <1>2 DEF EmbeddedOp, nodeSide, genomeVars, CacheAlone
  <2>. QED
    BY <1>1, <2>1, EmbeddedGenuine, AloneOK, WritesHybrid DEF CacheAlone
<1>3. CASE CachedOp(c)
  <2>1. /\ AtOp(c) /\ Local(c) # Missing /\ UNCHANGED poolVars /\ CacheAlone
        /\ IF Sha[Local(c)] = Wanted(c) THEN Writes(c, Local(c)) ELSE Ends(c, "failed")
    BY <1>3 DEF CachedOp, nodeSide, genomeVars, CacheAlone
  <2>2. Local(c) = genome[Wanted(c)] /\ genome[Wanted(c)] \in Row
    BY <1>1, <2>1 DEF Local, GetChunk, HybridInv, CacheShape
  <2>3. Local(c) \in Content /\ genome'[Wanted(c)] # Missing
    BY <2>1, <2>2 DEF Row, CacheAlone
  <2>4. CASE Sha[Local(c)] = Wanted(c)
    BY <1>1, <2>1, <2>3, <2>4, AloneOK, WritesHybrid DEF CacheAlone
  <2>5. CASE Sha[Local(c)] # Wanted(c)
    BY <1>1, <2>1, <2>5, GiveUpHybrid
  <2>. QED
    BY <2>4, <2>5
<1>4. CASE AskRemote(c)
  <2>1. /\ AtOp(c) /\ Goes(c, "ask", <<0>>) /\ UNCHANGED poolVars /\ CacheAlone
    BY <1>4 DEF AskRemote, nodeSide, genomeVars, CacheAlone
  <2>. QED
    BY <1>1, <2>1, MovesHybrid DEF Goes
<1>5. CASE RemoteAnswers(c) \/ GatewayServes(c)
  <2>1. /\ pc[c] = "ask" /\ UNCHANGED poolVars /\ CacheAlone
        /\ \E x \in Content : IF Sha[x] = Wanted(c) THEN Found(c, x) ELSE Ends(c, "failed")
    BY <1>5 DEF RemoteAnswers, GatewayServes, ApiTurn, GatewayTurn, nodeSide, genomeVars,
                CacheAlone
  <2>. QED
    BY <2>1, FoundHybrid
<1>6. CASE RemoteFails(c)
  <2>1. /\ pc[c] = "ask" /\ UNCHANGED poolVars /\ CacheAlone
        /\ NotFound(c) \/ Goes(c, "ask", <<tries[c][1] + 1>>)
    BY <1>6 DEF RemoteFails, ApiTurn, nodeSide, genomeVars, CacheAlone
  <2>2. CASE NotFound(c)
    BY <2>1, <2>2, NotFoundHybrid
  <2>3. CASE Goes(c, "ask", <<tries[c][1] + 1>>)
    <3>1. Len(out[c]) < Len(Ops(c)) /\ pc[c] \in Decoding
      BY <2>1 DEF HybridInv, DecodeOK, Decoding
    <3>. QED
      BY <2>1, <2>3, <3>1, MovesHybrid DEF Goes
  <2>. QED
    BY <2>1, <2>2, <2>3
<1>7. CASE RemoteSilent(c) \/ CacheLocked(c)
  <2>1. /\ pc[c] \in Decoding /\ UNCHANGED poolVars /\ CacheAlone /\ Ends(c, "crashed")
    BY <1>7 DEF RemoteSilent, CacheLocked, ApiTurn, nodeSide, genomeVars, CacheAlone, Decoding
  <2>. QED
    BY <2>1, GiveUpHybrid
<1>8. CASE GatewayGivesUp(c)
  <2>1. /\ pc[c] = "ask" /\ UNCHANGED poolVars /\ CacheAlone /\ NotFound(c)
    BY <1>8 DEF GatewayGivesUp, GatewayTurn, nodeSide, genomeVars, CacheAlone
  <2>. QED
    BY <2>1, NotFoundHybrid
<1>. QED
  BY <1>2, <1>3, <1>4, <1>5, <1>6, <1>7, <1>8, DecodeDoneHybrid, CacheRowHybrid DEF DecodeStep

\* A step of a fetch-decode is one of a command that waits, writes or is
\* between batches, or it is one of its pool alone.
LEMMA FetchStepMoves ==
    ASSUME FetchInv, NEW c \in Client, FetchStep(c)
    PROVE  /\ UNCHANGED <<seed, kills>>
           /\ \/ UNCHANGED fetchOwnVars
              \/ /\ pc[c] \in Fetching /\ pc'[c] \in Fetching \union {"idle"}
                 /\ \A o \in Client : o # c =>
                       /\ pc'[o] = pc[o] /\ out'[o] = out[o]
                       /\ results'[o] = results[o] /\ res'[o] = res[o]
<1>1. CASE PoolStep(c)
  BY <1>1 DEF PoolStep, fetchOwnVars
<1>2. CASE Request(c)
  <2>1. PICK t \in TasksIn(c, {"running"}) :
          \/ ApiAnswers(c, t) \/ ApiFails(c, t) \/ ApiSilent(c, t)
          \/ GatewayAnswers(c, t) \/ GatewayFails(c, t)
    BY <1>2 DEF Request
  <2>2. UNCHANGED <<pc, seed, out, res, kills>>
    BY <2>1 DEF ApiAnswers, ApiFails, ApiSilent, GatewayAnswers, GatewayFails, OtherOwn
  <2>3. UNCHANGED results \/ \E x : results' = [results EXCEPT ![c][t] = x]
    BY <2>1 DEF ApiAnswers, ApiFails, ApiSilent, GatewayAnswers, GatewayFails, Returns
  <2>4. pc[c] = "pool"
    BY <2>1, RunningInPool DEF TasksIn
  <2>5. \A o \in Client : o # c => results'[o] = results[o]
    BY <2>3 DEF FetchInv, ShapeOK
  <2>. QED
    BY <2>2, <2>4, <2>5 DEF Fetching
<1>3. CASE BatchStart(c)
  BY <1>3 DEF BatchStart, FetchInv, ShapeOK, Fetching
<1>4. CASE PoolLeft(c)
  <2>1. pc[c] = "pool" /\ UNCHANGED <<seed, out, results, kills>>
    BY <1>4 DEF PoolLeft, Ends, FetchInv, PoolInv, PoolTypeOK
  <2>2. \/ \E r \in {"failed", "crashed"} : Ends(c, r)
        \/ pc' = [pc EXCEPT ![c] = "write"] /\ UNCHANGED res
    BY <1>4 DEF PoolLeft, FetchInv, PoolInv, PoolTypeOK
  <2>. QED
    BY <2>1, <2>2 DEF Ends, FetchInv, ShapeOK, Fetching
<1>5. CASE WriteOp(c)
  BY <1>5 DEF WriteOp, Ends, FetchInv, ShapeOK, Fetching
<1>6. CASE BatchDone(c)
  BY <1>6 DEF BatchDone, FetchInv, ShapeOK, Fetching
<1>7. CASE FetchDone(c)
  BY <1>7 DEF FetchDone, Ends, FetchInv, ShapeOK, Fetching
<1>. QED
  BY <1>1, <1>2, <1>3, <1>4, <1>5, <1>6, <1>7 DEF FetchStep

\* fetch-decode, next to decodes.
LEMMA FetchDecodeHybrid ==
    ASSUME HybridInv, NEW c \in Client, FetchDecode(c), FetchAssumption
    PROVE  HybridSound
<1>1. UNCHANGED genome /\ (FetchStart(c) \/ FetchStep(c) \/ Kill(c))
  BY DEF FetchDecode, genomeVars
<1>2. Sound
  BY <1>1, NextSound DEF FetchNext, HybridInv
<1>3. /\ RowsKept /\ Genuine
      /\ kills' \in Nat /\ cache' = cache => CacheShape'
  BY <1>1 DEF RowsKept, Genuine, CacheShape, HybridInv, HasChunk
<1>4. CASE FetchStart(c) /\ cache[c] = "none" /\ cache' = [cache EXCEPT ![c] = "none"]
  <2>1. /\ pc' = [pc EXCEPT ![c] = "batch"] /\ UNCHANGED kills
        /\ out' = [out EXCEPT ![c] = <<>>] /\ results' = [results EXCEPT ![c] = <<>>]
        /\ res' = [res EXCEPT ![c] = "none"]
        /\ \E r \in Recipes : seed' = [seed EXCEPT ![c] = r]
    BY <1>4 DEF FetchStart
  <2>2. cache' = cache /\ pc'[c] = "batch"
    BY <1>4, <2>1 DEF HybridInv, CacheShape, FetchInv, ShapeOK
  <2>3. CacheShape'
    BY <1>3, <2>1, <2>2 DEF HybridInv, CacheShape
  <2>4. DecodeOK(c)'
    BY <1>4, <2>2 DEF DecodeOK, Fetching, Decoding
  <2>5. \A o \in Client : o # c =>
            /\ pc'[o] = pc[o] /\ seed'[o] = seed[o] /\ out'[o] = out[o]
            /\ results'[o] = results[o] /\ res'[o] = res[o]
    BY <2>1 DEF HybridInv, FetchInv, ShapeOK
  <2>. QED
    BY <1>2, <1>3, <2>2, <2>3, <2>4, <2>5, StepHybrid
<1>5. CASE FetchStep(c) /\ UNCHANGED cache
  <2>1. CacheShape'
    BY <1>3, <1>5, FetchStepMoves DEF HybridInv, CacheShape
  <2>2. CASE UNCHANGED fetchOwnVars
    <3>1. DecodeOK(c)'
      BY <1>3, <1>5, <2>2, StillOK DEF fetchOwnVars
    <3>. QED
      BY <1>2, <1>3, <1>5, <2>1, <2>2, <3>1, StepHybrid DEF fetchOwnVars
  <2>3. CASE /\ pc[c] \in Fetching /\ pc'[c] \in Fetching \union {"idle"}
             /\ \A o \in Client : o # c =>
                   /\ pc'[o] = pc[o] /\ out'[o] = out[o]
                   /\ results'[o] = results[o] /\ res'[o] = res[o]
    <3>1. cache[c] = "none"
      BY <2>3 DEF HybridInv, DecodeOK
    <3>2. DecodeOK(c)'
      BY <1>5, <2>3, <3>1 DEF DecodeOK, Fetching, Decoding
    <3>. QED
      BY <1>2, <1>3, <1>5, <2>1, <2>3, <3>2, FetchStepMoves, StepHybrid DEF HybridInv
  <2>. QED
    BY <1>5, <2>2, <2>3, FetchStepMoves DEF HybridInv
<1>6. CASE Kill(c) /\ UNCHANGED cache
  <2>1. /\ pc' = [pc EXCEPT ![c] = "idle"] /\ res' = [res EXCEPT ![c] = "killed"]
        /\ UNCHANGED <<seed, out, results>> /\ kills' = kills + 1
    BY <1>6 DEF Kill, Ends
  <2>2. CacheShape'
    BY <1>3, <1>6, <2>1 DEF HybridInv, CacheShape
  <2>3. pc'[c] = "idle" /\ res'[c] = "killed"
    BY <2>1 DEF HybridInv, FetchInv, ShapeOK
  <2>4. DecodeOK(c)'
    BY <2>3 DEF DecodeOK, Fetching, Decoding
  <2>5. \A o \in Client : o # c => pc'[o] = pc[o] /\ res'[o] = res[o]
    BY <2>1 DEF HybridInv, FetchInv, ShapeOK
  <2>. QED
    BY <1>2, <1>3, <1>6, <2>1, <2>2, <2>4, <2>5, StepHybrid
<1>. QED
  BY <1>4, <1>5, <1>6 DEF FetchDecode

\* Whatever else happens to the cache, a row stays a row.
LEMMA CacheLivesHybrid ==
    ASSUME HybridInv, CacheLives, ShaAssumption
    PROVE  HybridSound
<1>1. UNCHANGED <<poolVars, fetchOwnVars, cache>>
  BY DEF CacheLives
<1>2. Sound
  <2>1. PoolInv' /\ pool' = pool
    BY <1>1, PoolInvStutter DEF HybridInv, FetchInv, poolVars
  <2>. QED
    BY <1>1, <2>1, SameOK, Quiet DEF Sound, fetchOwnVars, HybridInv
<1>3. \/ UNCHANGED <<genome, kills>>
      \/ kills' = kills + 1 /\ UNCHANGED genome
      \/ /\ kills' = kills + 1
         /\ \E d \in Digest, x \in Content : genome' = [genome EXCEPT ![d] = x]
      \/ /\ kills' = kills + 1
         /\ \E x \in Content :
               genome' = [genome EXCEPT ![Sha[x]] = IF @ = Missing THEN x ELSE @]
  BY DEF CacheLives, RotRow, PutChunk
<1>4. /\ genome \in [Digest -> Row] /\ kills \in Nat /\ Missing \notin Content
      /\ \A x \in Content : Sha[x] \in Digest
  BY DEF HybridInv, CacheShape, ShaAssumption
<1>5. genome' \in [Digest -> Row] /\ kills' \in Nat
  BY <1>3, <1>4 DEF Row
<1>6. RowsKept /\ CacheShape'
  BY <1>1, <1>3, <1>4, <1>5 DEF RowsKept, HasChunk, CacheShape, HybridInv
<1>7. Genuine
  BY <1>3, <1>4 DEF Genuine
<1>8. ASSUME NEW c \in Client PROVE DecodeOK(c)'
  BY <1>1, <1>6, StillOK DEF fetchOwnVars
<1>. QED
  BY <1>2, <1>6, <1>7, <1>8 DEF HybridSound, HybridInv, Sound

\* Every step.
LEMMA HybridNextSound == HybridInv /\ [HybridNext]_hybridVars => HybridSound
<1>. SUFFICES ASSUME HybridInv, [HybridNext]_hybridVars PROVE HybridSound
  OBVIOUS
<1>. USE FetchAssumption, ShaAssumption
<1>1. ASSUME UNCHANGED <<poolVars, fetchOwnVars, kills, genome, cache>> PROVE HybridSound
  <2>1. PoolInv' /\ pool' = pool
    BY <1>1, PoolInvStutter DEF HybridInv, FetchInv, poolVars
  <2>2. Sound
    BY <1>1, <2>1, SameOK, Quiet DEF Sound, fetchOwnVars, HybridInv
  <2>3. CacheShape' /\ RowsKept /\ Genuine
    BY <1>1, AloneOK DEF CacheAlone
  <2>4. ASSUME NEW c \in Client PROVE DecodeOK(c)'
    BY <1>1, <2>3, StillOK DEF fetchOwnVars
  <2>. QED
    BY <2>2, <2>3, <2>4 DEF HybridSound, HybridInv, Sound
<1>2. CASE NodeLives /\ UNCHANGED <<genomeVars, cache>>
  BY <1>1, <1>2 DEF NodeLives, genomeVars
<1>3. CASE UNCHANGED hybridVars
  BY <1>1, <1>3 DEF hybridVars, fetchVars, genomeVars
<1>. QED
  BY <1>2, <1>3, DecodeStartHybrid, DecodeStepHybrid, FetchDecodeHybrid, CacheLivesHybrid
     DEF HybridNext

LEMMA HybridInitSound == HybridInit => HybridInv /\ Output!DeliveryInit
<1>. SUFFICES ASSUME HybridInit PROVE HybridInv /\ Output!DeliveryInit
  OBVIOUS
<1>1. FetchInv /\ Output!DeliveryInit
  BY InitSound DEF HybridInit
<1>2. CacheShape
  BY DEF HybridInit, GenomeInit, EmptyGenome, CacheShape, Row, FetchInit
<1>3. ASSUME NEW c \in Client PROVE DecodeOK(c)
  BY DEF HybridInit, FetchInit, DecodeOK, Fetching, Decoding
<1>. QED
  BY <1>1, <1>2, <1>3 DEF HybridInv

LEMMA HybridInvAlways == HybridSpec => []HybridInv
<1>1. HybridInit => HybridInv
  BY HybridInitSound
<1>2. HybridInv /\ [HybridNext]_hybridVars => HybridInv'
  BY HybridNextSound DEF HybridSound
<1>. QED
  BY <1>1, <1>2, PTL DEF HybridSpec

\* decode over the hybrid genome implements Delivery too, for any number of
\* commands next to each other and to fetch-decode: whatever the cache, the
\* node and the gateway hold, the output grows by the genuine chunks of the
\* recipe in their order, and success means that it is whole.
THEOREM HybridImplements == HybridSpec => DeliveryKept
<1>1. HybridInit => Output!DeliveryInit
  BY HybridInitSound
<1>2. HybridInv /\ [HybridNext]_hybridVars => [Output!DeliveryNext]_Output!deliveryVars
  BY HybridNextSound DEF HybridSound, Sound
<1>. QED
  BY <1>1, <1>2, HybridInvAlways, PTL DEF HybridSpec, DeliveryKept, Output!DeliverySpec

\* What HybridGenomeStorage puts into the shared cache without hashing it is
\* the payload of its digest, and takes no row's place.
THEOREM CacheStaysGenuine == HybridSpec => CacheGenuine
<1>1. HybridInv /\ [HybridNext]_hybridVars =>
        [\A d \in Digest : genome'[d] # genome[d] =>
            (genome[d] = Missing /\ Sha[genome'[d]] = d) \/ kills' # kills]_hybridVars
  BY HybridNextSound DEF HybridSound, Genuine
<1>. QED
  BY <1>1, HybridInvAlways, PTL DEF HybridSpec, CacheGenuine

\* After a decode that succeeded with a cache of its own, every chunk that the
\* seed does not embed has a row: the node is no longer needed.
THEOREM OfflineAfterDecode == HybridSpec => []OfflineAfter
<1>1. HybridInv => OfflineAfter
  <2>. SUFFICES ASSUME HybridInv, NEW c \in Client,
                       pc[c] = "idle", res[c] = "ok", cache[c] = "kept",
                       NEW i \in DOMAIN Ops(c)
                PROVE  Ops(c)[i] \in seed[c].raw \/ HasChunk(Ops(c)[i])
    BY DEF OfflineAfter
  <2>1. Covered(c, Len(Ops(c))) /\ Ops(c) \in Seq(Digest)
    BY DEF HybridInv, DecodeOK, FetchInv, ShapeOK, Recipe, Ops
  <2>2. i \in 1..Len(Ops(c))
    BY <2>1
  <2>. QED
    BY <2>1, <2>2 DEF Covered
<1>. QED
  BY <1>1, HybridInvAlways, PTL

\* A decode has no pool.
LEMMA DecodeStepMoves ==
    ASSUME NEW c \in Client, DecodeStep(c)
    PROVE  /\ UNCHANGED <<poolVars, asked, gateway>>
           /\ \E p \in {"idle"} \union Decoding : pc' = [pc EXCEPT ![c] = p]
<1>1. UNCHANGED <<poolVars, asked>>
  BY DEF DecodeStep, EmbeddedOp, CachedOp, AskRemote, DecodeDone, RemoteAnswers, RemoteFails,
         RemoteSilent, GatewayServes, GatewayGivesUp, CacheRow, CacheLocked, nodeSide
<1>2. \/ \E x : Writes(c, x)
      \/ \E x : Found(c, x)
      \/ \E r : Ends(c, r)
      \/ \E attempts : Goes(c, "ask", attempts)
  BY DEF DecodeStep, EmbeddedOp, CachedOp, AskRemote, DecodeDone, RemoteAnswers, RemoteFails,
         RemoteSilent, GatewayServes, GatewayGivesUp, CacheRow, CacheLocked, NotFound
<1>3. UNCHANGED gateway
  BY <1>2 DEF Writes, Found, Ends, Goes
<1>4. \E p \in {"idle"} \union Decoding : pc' = [pc EXCEPT ![c] = p]
  BY <1>2 DEF Writes, Found, Ends, Goes, Decoding
<1>. QED
  BY <1>1, <1>3, <1>4

\* Every step keeps GatewayAsked.
LEMMA HybridNextAsks ==
    ASSUME HybridInv, GatewayAsked, DOMAIN asked = Client, [HybridNext]_hybridVars,
           FetchAssumption
    PROVE  GatewayAsked' /\ DOMAIN asked' = Client
<1>1. ASSUME [FetchNext]_fetchVars PROVE GatewayAsked' /\ DOMAIN asked' = Client
  BY <1>1, NextAsks DEF HybridInv
<1>2. ASSUME NEW c \in Client, DecodeStart(c) \/ DecodeStep(c)
      PROVE  GatewayAsked' /\ DOMAIN asked' = Client
  <2>1. /\ UNCHANGED poolVars
        /\ UNCHANGED asked \/ asked' = [asked EXCEPT ![c] = {}]
        /\ UNCHANGED gateway \/ \E gw \in BOOLEAN : gateway' = [gateway EXCEPT ![c] = gw]
        /\ \E p \in {"idle"} \union Decoding : pc' = [pc EXCEPT ![c] = p]
    BY <1>2, DecodeStepMoves DEF DecodeStart, Decoding
  <2>2. pc'[c] # "pool" /\ \A o \in Client : o # c => pc'[o] = pc[o]
    BY <2>1 DEF HybridInv, FetchInv, ShapeOK, Decoding
  <2>3. DOMAIN asked' = Client /\ \A o \in Client : o # c => asked'[o] = asked[o]
    BY <2>1
  <2>4. \A o \in Client : o # c => gateway'[o] = gateway[o]
    <3>1. CASE UNCHANGED gateway
      BY <3>1
    <3>2. CASE \E gw \in BOOLEAN : gateway' = [gateway EXCEPT ![c] = gw]
      BY <3>2
    <3>. QED
      BY <2>1, <3>1, <3>2
  <2>. QED
    BY <2>1, <2>2, <2>3, <2>4 DEF GatewayAsked, TasksIn, poolVars
<1>3. CASE CacheLives
  BY <1>3 DEF CacheLives, fetchOwnVars, poolVars, GatewayAsked, TasksIn
<1>4. ASSUME NEW c \in Client, FetchDecode(c) PROVE FetchNext
  BY <1>4 DEF FetchDecode, FetchNext
<1>5. CASE NodeLives
  BY <1>1, <1>5 DEF FetchNext
<1>6. CASE UNCHANGED hybridVars
  BY <1>1, <1>6 DEF hybridVars
<1>. QED
  BY <1>1, <1>2, <1>3, <1>4, <1>5, <1>6 DEF HybridNext

\* The pools of fetch-decode next to decodes: the gateway is asked before a
\* chunk is given up with an ExternalToolError.
THEOREM HybridAsksGateway == HybridSpec => []GatewayAsked
<1>. DEFINE Inv == GatewayAsked /\ DOMAIN asked = Client
<1>1. HybridInit => Inv
  BY DEF HybridInit, FetchInit, GatewayAsked
<1>2. HybridInv /\ Inv /\ [HybridNext]_hybridVars => Inv'
  BY HybridNextAsks, FetchAssumption
<1>3. Inv => GatewayAsked
  OBVIOUS
<1>. HIDE DEF Inv
<1>. QED
  BY <1>1, <1>2, <1>3, HybridInvAlways, PTL DEF HybridSpec
=============================================================================
