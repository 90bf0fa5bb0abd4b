-------------------------- MODULE ChunkPublishProofs -------------------------
(***************************************************************************)
(* Proofs about ChunkPublish, for any number of commands, threads, seeds   *)
(* and attempts: the pool of a command ends with its results or with its   *)
(* exception, and publish-chunks implements Publication, leaves no         *)
(* directory behind and keeps what it pinned.                              *)
(***************************************************************************)
EXTENDS ChunkPublish, WorkerPoolProofs

\* Phases in which the node has acknowledged every chunk of the command.
Late == {"hash", "mkdir", "cp", "rm", "pin", "remote", "create", "write"}
Listed == Late \ {"hash"}
InMfs == {"cp", "rm"}

ShapeOK ==
    /\ table \in [Client -> Seq(Digest)]
    /\ seedFile \in [SeedPaths -> Tables]
    /\ pc \in [Client -> Phase]
    /\ linked \in [Client -> Nat]
    /\ fate \in [Client -> {"none", "failed", "crashed"}]
    /\ dir \in [Client -> Dirs \union {NoDir}]
    /\ DOMAIN args = Client /\ DOMAIN manifest = Client
    /\ DOMAIN mfs = Dirs /\ DOMAIN sidecar = SeedPaths

\* The manifest in memory lists the chunks of the seed that was read first.
Lists(c) ==
    \E name \in Tables, root \in {NoRoot, ToSet(table[c])} :
        manifest[c] = [seed |-> name, chunks |-> ToSet(table[c]), root |-> root]

\* What one command knows: of its chunks, of its directory, of its sidecar.
CommandOK(c) ==
    /\ pc[c] # "idle" => args[c].seed \in SeedPaths
    /\ pc[c] # "pool" => pool[c] = "closed"
    /\ pc[c] = "pool" =>
        /\ Len(futures[c]) = Len(table[c])
        /\ \A t \in TasksIn(c, {"returned"}) : table[c][t] \in acked
    /\ pc[c] \in Late => ToSet(table[c]) \subseteq acked
    /\ pc[c] \in Listed => Lists(c)
    /\ pc[c] \in {"load", "pool", "hash", "mkdir"} => linked[c] = 0
    /\ pc[c] \in InMfs => dir[c] \in Dirs /\ mfs[dir[c]] \in SUBSET Digest
    /\ pc[c] = "cp" =>
        /\ linked[c] \in 0..Len(table[c])
        /\ mfs[dir[c]] = {table[c][i] : i \in 1..linked[c]}
    /\ pc[c] = "pin" \/ (pc[c] = "rm" /\ fate[c] = "none") =>
        manifest[c].root = ToSet(table[c])
    /\ pc[c] = "write" => sidecar[args[c].seed] # NoSidecar

\* No two commands use one directory.
Apart(c, o) == pc[c] \in InMfs /\ pc[o] \in InMfs => dir[c] # dir[o]

PublishInv ==
    /\ PoolInv
    /\ ShapeOK
    /\ \A c \in Client : CommandOK(c)
    /\ \A c, o \in Client : c # o => Apart(c, o)

\* What a step of command c leaves alone of another command o.
Untouched(o) ==
    /\ pc'[o] = pc[o] /\ args'[o] = args[o] /\ table'[o] = table[o]
    /\ dir'[o] = dir[o] /\ linked'[o] = linked[o]
    /\ manifest'[o] = manifest[o] /\ fate'[o] = fate[o]
    /\ pool'[o] = pool[o] /\ Len(futures'[o]) = Len(futures[o])
    /\ TasksIn(o, {"returned"})' = TasksIn(o, {"returned"})
    /\ pc[o] \in InMfs => mfs'[dir[o]] = mfs[dir[o]]
    /\ \A s \in SeedPaths : sidecar[s] # NoSidecar => sidecar'[s] # NoSidecar

\* A command no step has touched still knows what it knew: acknowledged
\* chunks stay acknowledged.
LEMMA UntouchedOK ==
    ASSUME NEW o \in Client, CommandOK(o), Untouched(o), acked \subseteq acked'
    PROVE  CommandOK(o)'
<1>1. Lists(o)' <=> Lists(o)
  BY DEF Untouched, Lists, ToSet
<1>. QED
  BY <1>1 DEF Untouched, CommandOK, ToSet, InMfs

\* A step of one command that leaves the others alone and shares no directory
\* with them keeps the invariant, if it keeps its own part.
LEMMA StepOK ==
    ASSUME PublishInv, NEW c \in Client, PoolInv', ShapeOK', CommandOK(c)',
           acked \subseteq acked',
           \A o \in Client : o # c => Untouched(o),
           \A o \in Client : o # c => Apart(c, o)'
    PROVE  PublishInv'
<1>1. ASSUME NEW o \in Client PROVE CommandOK(o)'
  BY UntouchedOK DEF PublishInv
<1>2. ASSUME NEW o \in Client, NEW q \in Client, o # q PROVE Apart(o, q)'
  <2>1. CASE o = c
    BY <1>2, <2>1
  <2>2. CASE q = c
    BY <1>2, <2>2 DEF Apart
  <2>3. CASE o # c /\ q # c
    BY <1>2, <2>3 DEF Apart, Untouched, PublishInv
  <2>. QED
    BY <2>1, <2>2, <2>3
<1>. QED
  BY <1>1, <1>2 DEF PublishInv

\* Apart is kept by a step that stays where it was.
LEMMA ApartOK ==
    ASSUME PublishInv, NEW c \in Client, NEW o \in Client, o # c, Untouched(o),
           pc'[c] \in InMfs => pc[c] \in InMfs /\ dir'[c] = dir[c],
           pc'[c] # "idle" => pc[c] # "idle" /\ args'[c] = args[c]
    PROVE  Apart(c, o)'
BY DEF PublishInv, Apart, Untouched

\* A command ends, whatever it has done to the node on its way.
LEMMA EndsOK ==
    ASSUME PublishInv, NEW c \in Client, NEW r, pc[c] # "idle", Ends(c, r),
           UNCHANGED <<poolVars, acked, seedFile>>, pool[c] = "closed",
           DOMAIN mfs' = Dirs, DOMAIN sidecar' = SeedPaths,
           \A o \in Client : o # c /\ pc[o] \in InMfs => mfs'[dir[o]] = mfs[dir[o]],
           \A s \in SeedPaths : sidecar[s] # NoSidecar => sidecar'[s] # NoSidecar
    PROVE  PublishInv'
<1>1. /\ pc' = [pc EXCEPT ![c] = "idle"]
      /\ UNCHANGED <<args, table, loaded, tries, dir, linked, manifest, fate>>
  BY DEF Ends
<1>2. PoolInv'
  BY PoolInvStutter DEF PublishInv
<1>3. ShapeOK' /\ pc'[c] = "idle" /\ \A o \in Client : o # c => pc'[o] = pc[o]
  BY <1>1 DEF PublishInv, ShapeOK, Phase
<1>4. CommandOK(c)'
  BY <1>1, <1>3 DEF CommandOK, Late, Listed, InMfs, poolVars
<1>5. ASSUME NEW o \in Client, o # c PROVE Untouched(o)
  BY <1>1, <1>3, <1>5 DEF Untouched, poolVars, TasksIn
<1>6. ASSUME NEW o \in Client, o # c PROVE Apart(c, o)'
  BY <1>3 DEF Apart, InMfs
<1>. QED
  BY <1>2, <1>3, <1>4, <1>5, <1>6, StepOK

\* A command starts, on any seed.
LEMMA StartOK ==
    ASSUME PublishInv, NEW c \in Client, PublishStart(c), PublishAssumption
    PROVE  PublishInv'
<1>1. PICK s \in SeedPaths, mode \in Modes :
        /\ pc[c] = "idle"
        /\ pc' = [pc EXCEPT ![c] = "load"]
        /\ args' = [args EXCEPT ![c] = [seed |-> s, mode |-> mode]]
        /\ table' = [table EXCEPT ![c] = seedFile[s]]
        /\ linked' = [linked EXCEPT ![c] = 0]
        /\ manifest' = [manifest EXCEPT ![c] = BlankManifest]
        /\ fate' = [fate EXCEPT ![c] = "none"]
  BY DEF PublishStart
<1>2. UNCHANGED <<dir, poolVars, nodeVars, fileVars, traceVars>>
  BY DEF PublishStart
<1>3. PoolInv'
  BY <1>2, PoolInvStutter DEF PublishInv
<1>4. seedFile[s] \in Seq(Digest)
  BY <1>1 DEF PublishInv, ShapeOK, PublishAssumption
<1>5. ShapeOK'
  BY <1>1, <1>2, <1>4 DEF PublishInv, ShapeOK, Phase, nodeVars, fileVars
<1>6. pc'[c] = "load" /\ args'[c].seed = s /\ linked'[c] = 0
  BY <1>1 DEF PublishInv, ShapeOK
<1>7. CommandOK(c)'
  BY <1>1, <1>2, <1>6 DEF PublishInv, CommandOK, Late, Listed, InMfs, poolVars
<1>8. ASSUME NEW o \in Client, o # c PROVE Untouched(o)
  BY <1>1, <1>2, <1>8 DEF PublishInv, ShapeOK, Untouched, poolVars, nodeVars, fileVars, TasksIn
<1>9. ASSUME NEW o \in Client, o # c PROVE Apart(c, o)'
  BY <1>1, <1>6, <1>8, <1>9 DEF Untouched, Apart, InMfs
<1>. QED
  BY <1>2, <1>3, <1>5, <1>7, <1>8, <1>9, StepOK DEF traceVars

\* A chunk is loaded from the genome, or its absence ends the command.
LEMMA LoadOK ==
    ASSUME PublishInv, NEW c \in Client, LoadChunk(c) \/ LoadMissing(c)
    PROVE  PublishInv'
<1>1. CASE LoadChunk(c)
  <2>1. UNCHANGED <<pc, args, table, dir, linked, manifest, fate, nodeVars, poolVars,
                    fileVars, traceVars>>
    BY <1>1 DEF LoadChunk
  <2>2. PoolInv'
    BY <2>1, PoolInvStutter DEF PublishInv
  <2>3. ShapeOK'
    BY <2>1 DEF PublishInv, ShapeOK, nodeVars, fileVars
  <2>4. ASSUME NEW o \in Client PROVE Untouched(o)
    BY <2>1 DEF Untouched, poolVars, nodeVars, fileVars, TasksIn
  <2>5. acked \subseteq acked'
    BY <2>1 DEF traceVars
  <2>6. CommandOK(c)'
    BY <2>4, <2>5, UntouchedOK DEF PublishInv
  <2>7. ASSUME NEW o \in Client, o # c PROVE Apart(c, o)'
    BY <2>1, <2>4, <2>7, ApartOK
  <2>. QED
    BY <2>2, <2>3, <2>4, <2>5, <2>6, <2>7, StepOK
<1>2. CASE LoadMissing(c)
  <2>1. /\ pc[c] = "load" /\ Ends(c, "failed")
        /\ UNCHANGED <<nodeVars, poolVars, fileVars, traceVars>>
    BY <1>2 DEF LoadMissing, Loading
  <2>2. pool[c] = "closed"
    BY <2>1 DEF PublishInv, CommandOK
  <2>. QED
    BY <2>1, <2>2, EndsOK DEF PublishInv, ShapeOK, nodeVars, fileVars, traceVars
<1>. QED
  BY <1>1, <1>2

\* The puts are submitted, one future for each chunk of the table.
LEMMA SubmitOK ==
    ASSUME PublishInv, NEW c \in Client, SubmitPuts(c)
    PROVE  PublishInv'
<1>1. /\ pc[c] = "load" /\ pc' = [pc EXCEPT ![c] = "pool"]
      /\ Submit(c, Len(table[c]))
      /\ UNCHANGED <<args, table, dir, linked, manifest, fate, nodeVars, fileVars, traceVars>>
  BY DEF SubmitPuts
<1>2. Len(table[c]) \in Nat
  BY DEF PublishInv, ShapeOK
<1>3. PoolInv'
  BY <1>1, <1>2, SubmitKeeps DEF PublishInv
<1>4. ShapeOK'
  BY <1>1 DEF PublishInv, ShapeOK, Phase, nodeVars, fileVars
<1>5. /\ futures' = [futures EXCEPT ![c] = [t \in 1..Len(table[c]) |-> "queued"]]
      /\ pool' = [pool EXCEPT ![c] = "collect"]
  BY <1>1 DEF Submit
<1>6. /\ futures'[c] = [t \in 1..Len(table[c]) |-> "queued"]
      /\ \A o \in Client : o # c => futures'[o] = futures[o] /\ pool'[o] = pool[o]
  BY <1>5 DEF PublishInv, PoolInv, PoolTypeOK
<1>7. Len(futures'[c]) = Len(table[c]) /\ TasksIn(c, {"returned"})' = {}
  BY <1>2, <1>6 DEF TasksIn
<1>8. pc'[c] = "pool"
  BY <1>1 DEF PublishInv, ShapeOK
<1>9. CommandOK(c)'
  BY <1>1, <1>7, <1>8 DEF PublishInv, CommandOK, Late, Listed, InMfs
<1>10. ASSUME NEW o \in Client, o # c PROVE Untouched(o)
  BY <1>1, <1>6, <1>10 DEF PublishInv, ShapeOK, Untouched, nodeVars, fileVars, TasksIn
<1>11. ASSUME NEW o \in Client, o # c PROVE Apart(c, o)'
  BY <1>1, <1>8, <1>10, <1>11, ApartOK DEF InMfs
<1>. QED
  BY <1>1, <1>3, <1>4, <1>9, <1>10, <1>11, StepOK DEF traceVars

\* Steps of the environment, and refused attempts.
LEMMA SameOK ==
    ASSUME PublishInv, acked \subseteq acked', seedFile' \in [SeedPaths -> Tables],
           UNCHANGED <<poolVars, pc, args, table, dir, linked, manifest, fate, mfs, sidecar>>
    PROVE  PublishInv'
<1>1. PoolInv'
  BY PoolInvStutter DEF PublishInv
<1>2. ShapeOK'
  BY DEF PublishInv, ShapeOK
<1>3. ASSUME NEW o \in Client PROVE CommandOK(o)'
  <2>1. Untouched(o)
    BY DEF Untouched, poolVars, TasksIn
  <2>. QED
    BY <2>1, UntouchedOK DEF PublishInv
<1>4. ASSUME NEW c \in Client, NEW o \in Client, c # o PROVE Apart(c, o)'
  BY <1>4 DEF PublishInv, Apart
<1>. QED
  BY <1>1, <1>2, <1>3, <1>4 DEF PublishInv

\* A pool at work belongs to a command inside its "with" block.
LEMMA AtWork ==
    ASSUME PublishInv, NEW c \in Client, TasksIn(c, {"queued", "running"}) # {}
    PROVE  pc[c] = "pool" /\ pool[c] # "closed"
BY DEF PublishInv, PoolInv, PoolSafe, CommandOK

\* A put ends: if it returns, the node has acknowledged its chunk.
LEMMA TaskOK ==
    ASSUME PublishInv, NEW c \in Client, NEW t \in TasksIn(c, {"running"}),
           NEW how \in {"returned", "tool", "other"}, TaskEnds(c, t, how),
           how = "returned" => table[c][t] \in acked', acked \subseteq acked',
           UNCHANGED <<pc, args, table, dir, linked, manifest, fate, mfs, fileVars>>
    PROVE  PublishInv'
<1>1. PoolInv'
  BY AttemptKeeps DEF PublishInv
<1>2. ShapeOK'
  BY DEF PublishInv, ShapeOK, fileVars
<1>3. /\ t \in DOMAIN futures[c] /\ futures[c][t] = "running" /\ PoolTypeOK
      /\ futures' = [futures EXCEPT ![c][t] = how] /\ how \in FutureState
      /\ UNCHANGED <<pool, collected, cancelled, raised>>
  BY DEF TasksIn, TaskEnds, FutureState, PublishInv, PoolInv
<1>4. /\ DOMAIN futures'[c] = DOMAIN futures[c]
      /\ Len(futures'[c]) = Len(futures[c])
      /\ futures'[c][t] = how
      /\ \A u \in DOMAIN futures[c] : u # t => futures'[c][u] = futures[c][u]
      /\ \A o \in Client : o # c => futures'[o] = futures[o]
  BY <1>3, FutureMoves
<1>5. \A u \in TasksIn(c, {"returned"})' :
          u \in TasksIn(c, {"returned"}) \/ (u = t /\ how = "returned")
  BY <1>3, <1>4 DEF TasksIn
<1>6. TasksIn(c, {"queued", "running"}) # {}
  BY DEF TasksIn
<1>7. pc[c] = "pool"
  BY <1>6, AtWork
<1>8. CommandOK(c)'
  BY <1>3, <1>4, <1>5, <1>7 DEF PublishInv, CommandOK, Late, Listed, InMfs
<1>9. ASSUME NEW o \in Client, o # c PROVE Untouched(o)
  BY <1>3, <1>4, <1>9 DEF Untouched, fileVars, TasksIn
<1>10. ASSUME NEW o \in Client, o # c PROVE Apart(c, o)'
  BY <1>9, <1>10, ApartOK
<1>. QED
  BY <1>1, <1>2, <1>8, <1>9, <1>10, StepOK

\* One attempt of a put, whatever its answer.
LEMMA AttemptOK ==
    ASSUME PublishInv, NEW c \in Client, PutAttempt(c)
    PROVE  PublishInv'
<1>1. PICK t \in TasksIn(c, {"running"}) :
          PutAnswered(c, t) \/ PutRefused(c, t) \/ PutUnanswered(c, t)
  BY DEF PutAttempt
<1>2. UNCHANGED fileVars /\ seedFile \in [SeedPaths -> Tables]
  BY DEF PutAttempt, PublishInv, ShapeOK
<1>3. CASE PutAnswered(c, t)
  <2>. DEFINE how == IF Sha[loaded[c][t]] = table[c][t] THEN "returned" ELSE "tool"
  <2>1. /\ TaskEnds(c, t, how)
        /\ acked' = IF Sha[loaded[c][t]] = table[c][t] THEN acked \union {table[c][t]} ELSE acked
        /\ UNCHANGED <<clientVars, mfs>>
    BY <1>3 DEF PutAnswered, BlockPut
  <2>2. how \in {"returned", "tool", "other"} /\ (how = "returned" => table[c][t] \in acked')
        /\ acked \subseteq acked'
    BY <2>1
  <2>. QED
    BY <1>2, <2>1, <2>2, TaskOK DEF clientVars
<1>4. CASE PutRefused(c, t)
  <2>1. /\ TaskEnds(c, t, "tool") \/ UNCHANGED poolVars
        /\ UNCHANGED <<nodeVars, traceVars, pc, args, table, dir, linked, manifest, fate>>
    BY <1>4 DEF PutRefused
  <2>2. CASE TaskEnds(c, t, "tool")
    BY <1>2, <2>1, <2>2, TaskOK DEF nodeVars, traceVars
  <2>3. CASE UNCHANGED poolVars
    BY <1>2, <2>1, <2>3, SameOK DEF nodeVars, traceVars, fileVars
  <2>. QED
    BY <2>1, <2>2, <2>3
<1>5. CASE PutUnanswered(c, t)
  <2>1. TaskEnds(c, t, "other") /\ UNCHANGED <<clientVars, traceVars, mfs>>
    BY <1>5 DEF PutUnanswered, BlockPut, nodeVars
  <2>. QED
    BY <1>2, <2>1, TaskOK DEF clientVars, traceVars
<1>. QED
  BY <1>1, <1>3, <1>4, <1>5

\* A thread takes a task, or the main thread collects, cancels or leaves.
LEMMA PoolStepOK ==
    ASSUME PublishInv, NEW c \in Client, PoolStep(c)
    PROVE  PublishInv'
<1>1. /\ WorkerTakes(c) \/ MainThread(c)
      /\ UNCHANGED <<nodeVars, fileVars, clientVars, traceVars>>
  BY DEF PoolStep
<1>2. PoolInv'
  BY <1>1, TakesKeeps, MainThreadKeeps DEF PublishInv
<1>3. ShapeOK'
  BY <1>1 DEF PublishInv, ShapeOK, nodeVars, fileVars, clientVars
<1>4. pool[c] # "closed"
  <2>1. CASE WorkerTakes(c)
    <3>1. TasksIn(c, {"queued", "running"}) # {}
      BY <2>1 DEF WorkerTakes, TasksIn
    <3>. QED
      BY <3>1, AtWork
  <2>2. CASE MainThread(c)
    BY <2>2 DEF MainThread, CollectReturned, CollectRaised, CollectDone, CancelNext,
                CancelDone, Join
  <2>. QED
    BY <1>1, <2>1, <2>2
<1>5. pc[c] = "pool"
  BY <1>4 DEF PublishInv, CommandOK
<1>6. \A o \in Client :
        /\ Len(futures'[o]) = Len(futures[o])
        /\ TasksIn(o, {"returned"})' = TasksIn(o, {"returned"})
        /\ o # c => pool'[o] = pool[o]
  BY <1>1, PoolStepReturns DEF PublishInv
<1>7. CommandOK(c)'
  BY <1>1, <1>5, <1>6 DEF PublishInv, CommandOK, Late, Listed, InMfs, clientVars, traceVars
<1>8. ASSUME NEW o \in Client, o # c PROVE Untouched(o)
  BY <1>1, <1>6, <1>8 DEF Untouched, clientVars, nodeVars, fileVars
<1>9. ASSUME NEW o \in Client, o # c PROVE Apart(c, o)'
  BY <1>1, <1>8, <1>9, ApartOK DEF clientVars
<1>. QED
  BY <1>1, <1>2, <1>3, <1>7, <1>8, <1>9, StepOK DEF traceVars

\* Out of the block without an exception, every chunk is acknowledged.
LEMMA LeftOK ==
    ASSUME PublishInv, NEW c \in Client, PoolLeft(c)
    PROVE  PublishInv'
<1>1. /\ pc[c] = "pool" /\ pool[c] = "closed"
      /\ UNCHANGED <<nodeVars, poolVars, fileVars, traceVars>>
  BY DEF PoolLeft
<1>2. raised[c] \in {"none", "tool", "other"} /\ seedFile \in [SeedPaths -> Tables]
  BY DEF PublishInv, PoolInv, PoolTypeOK, ShapeOK
<1>3. CASE raised[c] # "none"
  <2>1. Ends(c, "failed") \/ Ends(c, "crashed")
    BY <1>2, <1>3 DEF PoolLeft
  <2>. QED
    BY <1>1, <2>1, EndsOK DEF PublishInv, ShapeOK, nodeVars, fileVars, traceVars
<1>4. CASE raised[c] = "none"
  <2>1. /\ pc' = [pc EXCEPT ![c] = "hash"]
        /\ UNCHANGED <<args, table, dir, linked, manifest, fate>>
    BY <1>4 DEF PoolLeft, Goes
  <2>2. ShapeOK' /\ pc'[c] = "hash"
    BY <1>1, <2>1 DEF PublishInv, ShapeOK, Phase, nodeVars, fileVars
  <2>3. PoolInv'
    BY <1>1, PoolInvStutter DEF PublishInv
  <2>4. ToSet(table[c]) \subseteq acked
    <3>1. TasksIn(c, {"returned"}) = DOMAIN futures[c]
      BY <1>1, <1>4 DEF PublishInv, PoolInv, PoolSafe
    <3>2. DOMAIN futures[c] = DOMAIN table[c]
      BY <1>1 DEF PublishInv, PoolInv, PoolTypeOK, ShapeOK, CommandOK
    <3>3. \A t \in TasksIn(c, {"returned"}) : table[c][t] \in acked
      BY <1>1 DEF PublishInv, CommandOK
    <3>. QED
      BY <3>1, <3>2, <3>3 DEF ToSet
  <2>5. CommandOK(c)'
    BY <1>1, <2>1, <2>2, <2>4 DEF PublishInv, CommandOK, Late, Listed, InMfs, ToSet,
                                   poolVars, traceVars
  <2>6. ASSUME NEW o \in Client, o # c PROVE Untouched(o)
    BY <1>1, <2>1, <2>6 DEF PublishInv, ShapeOK, Untouched, nodeVars, fileVars, poolVars, TasksIn
  <2>7. ASSUME NEW o \in Client, o # c PROVE Apart(c, o)'
    BY <1>1, <2>1, <2>2, <2>6, <2>7, ApartOK DEF InMfs
  <2>. QED
    BY <1>1, <2>2, <2>3, <2>5, <2>6, <2>7, StepOK DEF traceVars
<1>. QED
  BY <1>3, <1>4

\* What such a step leaves alone of another command.
Aside(c, o, phase) ==
    /\ dir'[o] = dir[o] /\ linked'[o] = linked[o]
    /\ manifest'[o] = manifest[o] /\ fate'[o] = fate[o]
    /\ pc[o] \in InMfs => mfs'[dir[o]] = mfs[dir[o]]
    /\ \A s \in SeedPaths : sidecar[s] # NoSidecar => sidecar'[s] # NoSidecar
    /\ phase \in InMfs /\ pc[o] \in InMfs => dir'[c] # dir[o]

\* What a step of the main thread after the pool has to show for itself.
LEMMA GoesOK ==
    ASSUME PublishInv, NEW c \in Client, NEW phase, pc[c] # "idle",
           pc' = [pc EXCEPT ![c] = phase], ShapeOK', CommandOK(c)',
           UNCHANGED <<poolVars, args, table, acked>>,
           \A o \in Client : o # c => Aside(c, o, phase)
    PROVE  PublishInv'
<1>1. pc'[c] = phase /\ \A o \in Client : o # c => pc'[o] = pc[o]
  BY DEF PublishInv, ShapeOK
<1>2. PoolInv'
  BY PoolInvStutter DEF PublishInv
<1>3. ASSUME NEW o \in Client, o # c PROVE Untouched(o)
  BY <1>1, <1>3 DEF Aside, Untouched, poolVars, TasksIn
<1>4. ASSUME NEW o \in Client, o # c PROVE Apart(c, o)'
  BY <1>1, <1>4 DEF Aside, PublishInv, Apart
<1>. QED
  BY <1>2, <1>3, <1>4, StepOK

\* The manifest is begun: its seed digest and its chunks.
LEMMA HashOK ==
    ASSUME PublishInv, NEW c \in Client, HashSeed(c)
    PROVE  PublishInv'
<1>. DEFINE phase == IF args[c].mode = {} THEN "create" ELSE "mkdir"
<1>1. /\ pc[c] = "hash" /\ pc' = [pc EXCEPT ![c] = phase]
      /\ manifest' = [manifest EXCEPT ![c] =
            [seed |-> seedFile[args[c].seed], chunks |-> ToSet(table[c]), root |-> NoRoot]]
      /\ UNCHANGED <<args, table, dir, linked, fate, nodeVars, poolVars, fileVars, traceVars>>
  BY DEF HashSeed, Goes
<1>2. ShapeOK' /\ pc'[c] = phase
  BY <1>1 DEF PublishInv, ShapeOK, Phase, nodeVars, fileVars
<1>3. seedFile[args[c].seed] \in Tables
  BY <1>1 DEF PublishInv, ShapeOK, CommandOK
<1>4. Lists(c)'
  BY <1>1, <1>3 DEF PublishInv, ShapeOK, Lists, ToSet
<1>5. CommandOK(c)'
  BY <1>1, <1>2, <1>4 DEF PublishInv, CommandOK, Late, Listed, InMfs, ToSet, poolVars, traceVars
<1>6. ASSUME NEW o \in Client, o # c PROVE Aside(c, o, phase)
  BY <1>1, <1>6 DEF Aside, InMfs, PublishInv, ShapeOK, nodeVars, fileVars
<1>. QED
  BY <1>1, <1>2, <1>5, <1>6, GoesOK DEF traceVars

\* files/mkdir gives the command a directory no other command has.
LEMMA MkdirOK ==
    ASSUME PublishInv, NEW c \in Client, Mkdir(c), NodeAssumption
    PROVE  PublishInv'
<1>1. /\ pc[c] = "mkdir" /\ pool[c] = "closed"
      /\ UNCHANGED <<poolVars, fileVars, acked>>
  BY DEF Mkdir, Rest, PublishInv, CommandOK
<1>2. \A o \in Client : pc[o] \in InMfs => dir[o] \in Dirs /\ mfs[dir[o]] # NoDir
  BY DEF PublishInv, CommandOK, NodeAssumption
<1>3. ASSUME NEW n \in Dirs, FilesMkdir(n)
      PROVE  /\ DOMAIN mfs' = Dirs /\ mfs'[n] = {}
             /\ \A o \in Client : pc[o] \in InMfs => dir[o] # n /\ mfs'[dir[o]] = mfs[dir[o]]
  BY <1>2, <1>3 DEF FilesMkdir, PublishInv, ShapeOK
<1>4. ASSUME NEW n \in Dirs, FilesMkdir(n), dir' = [dir EXCEPT ![c] = n], Goes(c, "cp"),
             UNCHANGED <<linked, manifest, fate>>
      PROVE  PublishInv'
  <2>1. pc' = [pc EXCEPT ![c] = "cp"] /\ UNCHANGED <<args, table>>
    BY <1>4 DEF Goes
  <2>2. ShapeOK' /\ pc'[c] = "cp" /\ dir'[c] = n
    BY <1>1, <1>3, <1>4, <2>1 DEF PublishInv, ShapeOK, Phase, fileVars
  <2>3. /\ linked[c] = 0 /\ Len(table[c]) \in Nat
        /\ {table[c][i] : i \in 1..0} = {} /\ Lists(c)
    BY <1>1 DEF PublishInv, CommandOK, ShapeOK, Listed, Late
  <2>4. Lists(c)'
    BY <1>4, <2>1, <2>3 DEF Lists, ToSet
  <2>5. CommandOK(c)'
    BY <1>1, <1>3, <1>4, <2>1, <2>2, <2>3, <2>4
       DEF PublishInv, CommandOK, Late, Listed, InMfs, ToSet, poolVars
  <2>6. ASSUME NEW o \in Client, o # c PROVE Aside(c, o, "cp")
    BY <1>1, <1>3, <1>4, <2>2, <2>6 DEF Aside, PublishInv, ShapeOK, fileVars
  <2>. QED
    BY <1>1, <2>1, <2>2, <2>5, <2>6, GoesOK
<1>5. ASSUME NEW r, Ends(c, r), UNCHANGED mfs \/ \E n \in Dirs : FilesMkdir(n)
      PROVE  PublishInv'
  BY <1>1, <1>3, <1>5, EndsOK DEF PublishInv, ShapeOK, fileVars
<1>6. CASE \E n \in Dirs : /\ FilesMkdir(n) /\ dir' = [dir EXCEPT ![c] = n]
                          /\ Goes(c, "cp") /\ UNCHANGED <<linked, manifest, fate, litter>>
  BY <1>4, <1>6
<1>7. CASE Ends(c, "failed") /\ UNCHANGED <<nodeVars, litter>>
  BY <1>5, <1>7 DEF nodeVars
<1>8. CASE Ends(c, "crashed") /\ (UNCHANGED nodeVars \/ \E n \in Dirs : FilesMkdir(n))
  BY <1>5, <1>8 DEF nodeVars
<1>. QED
  BY <1>6, <1>7, <1>8 DEF Mkdir, nodeVars

\* A step in the directory: to another entry, or to the "finally" block.
LEMMA InDirOK ==
    ASSUME PublishInv, NEW c \in Client, NEW phase \in InMfs, pc[c] = "cp",
           pc' = [pc EXCEPT ![c] = phase], UNCHANGED <<args, table, dir, poolVars, acked, fileVars>>,
           DOMAIN mfs' = Dirs, mfs'[dir[c]] \in SUBSET Digest,
           \A n \in Dirs : n # dir[c] => mfs'[n] = mfs[n],
           linked' \in [Client -> Nat],
           fate' \in [Client -> {"none", "failed", "crashed"}],
           DOMAIN manifest' = Client, Lists(c)',
           \A o \in Client : o # c => /\ linked'[o] = linked[o] /\ fate'[o] = fate[o]
                                     /\ manifest'[o] = manifest[o],
           phase = "cp" => /\ linked'[c] \in 0..Len(table[c])
                           /\ mfs'[dir[c]] = {table[c][i] : i \in 1..linked'[c]},
           phase = "rm" /\ fate'[c] = "none" => manifest'[c].root = ToSet(table[c])
    PROVE  PublishInv'
<1>1. ShapeOK' /\ pc'[c] = phase
  BY DEF PublishInv, ShapeOK, Phase, InMfs, fileVars
<1>2. /\ args[c].seed \in SeedPaths /\ pool[c] = "closed" /\ ToSet(table[c]) \subseteq acked
      /\ dir[c] \in Dirs
  BY DEF PublishInv, CommandOK, Late, InMfs
<1>3. CommandOK(c)'
  BY <1>1, <1>2 DEF CommandOK, Late, Listed, InMfs, ToSet, poolVars
<1>4. ASSUME NEW o \in Client, o # c, pc[o] \in InMfs
      PROVE  dir[o] \in Dirs /\ dir[o] # dir[c]
  BY <1>4 DEF PublishInv, CommandOK, Apart, InMfs
<1>5. ASSUME NEW o \in Client, o # c PROVE Aside(c, o, phase)
  BY <1>4, <1>5 DEF Aside, fileVars
<1>. QED
  BY <1>1, <1>3, <1>5, GoesOK

\* An exception in the directory.
LEMMA FinallyOK ==
    ASSUME PublishInv, NEW c \in Client, NEW r \in {"failed", "crashed"}, FinallyRm(c, r),
           pc[c] = "cp", UNCHANGED <<poolVars, acked, fileVars>>,
           DOMAIN mfs' = Dirs, mfs'[dir[c]] \in SUBSET Digest,
           \A n \in Dirs : n # dir[c] => mfs'[n] = mfs[n]
    PROVE  PublishInv'
<1>1. /\ pc' = [pc EXCEPT ![c] = "rm"] /\ fate' = [fate EXCEPT ![c] = r]
      /\ UNCHANGED <<args, table, dir, linked, manifest>>
  BY DEF FinallyRm, Goes
<1>2. /\ fate' \in [Client -> {"none", "failed", "crashed"}] /\ fate'[c] = r
      /\ \A o \in Client : o # c => fate'[o] = fate[o]
      /\ linked' \in [Client -> Nat] /\ DOMAIN manifest' = Client
  BY <1>1 DEF PublishInv, ShapeOK
<1>3. Lists(c)
  BY DEF PublishInv, CommandOK, Listed, Late
<1>4. Lists(c)'
  BY <1>1, <1>3 DEF Lists, ToSet
<1>. QED
  BY <1>1, <1>2, <1>4, InDirOK DEF InMfs

\* files/cp adds the next chunk to the command's directory.
LEMMA CpOK ==
    ASSUME PublishInv, NEW c \in Client, Cp(c)
    PROVE  PublishInv'
<1>. DEFINE d == table[c][linked[c] + 1]
<1>1. /\ pc[c] = "cp" /\ linked[c] < Len(table[c])
      /\ UNCHANGED <<poolVars, fileVars, acked>>
  BY DEF Cp, Rest
<1>2. /\ dir[c] \in Dirs /\ linked[c] \in Nat /\ table[c] \in Seq(Digest) /\ Lists(c)
      /\ mfs[dir[c]] = {table[c][i] : i \in 1..linked[c]} /\ mfs[dir[c]] \in SUBSET Digest
      /\ DOMAIN mfs = Dirs
  BY <1>1 DEF PublishInv, ShapeOK, CommandOK, Listed, Late, InMfs
<1>3. d \in Digest
  BY <1>1, <1>2
<1>4. ASSUME FilesCp(dir[c], d) \/ UNCHANGED nodeVars
      PROVE  /\ DOMAIN mfs' = Dirs /\ mfs'[dir[c]] \in SUBSET Digest
             /\ \A n \in Dirs : n # dir[c] => mfs'[n] = mfs[n]
  BY <1>2, <1>3, <1>4 DEF FilesCp, nodeVars
<1>5. CASE /\ FilesCp(dir[c], d) /\ linked' = [linked EXCEPT ![c] = @ + 1]
           /\ Goes(c, "cp") /\ UNCHANGED <<dir, manifest, fate>>
  <2>1. pc' = [pc EXCEPT ![c] = "cp"] /\ UNCHANGED <<args, table>>
    BY <1>5 DEF Goes
  <2>2. /\ linked' \in [Client -> Nat] /\ linked'[c] = linked[c] + 1
        /\ \A o \in Client : o # c => linked'[o] = linked[o]
    <3>1. linked \in [Client -> Nat] /\ linked' = [linked EXCEPT ![c] = @ + 1]
      BY <1>5 DEF PublishInv, ShapeOK
    <3>. QED
      BY <3>1
  <2>3. mfs'[dir[c]] = {table[c][i] : i \in 1..(linked[c] + 1)}
    <3>1. mfs'[dir[c]] = {table[c][i] : i \in 1..linked[c]} \union {d}
      BY <1>2, <1>5 DEF FilesCp
    <3>2. 1..(linked[c] + 1) = 1..linked[c] \union {linked[c] + 1}
      BY <1>2
    <3>. QED
      BY <3>1, <3>2
  <2>4. /\ linked[c] + 1 \in 0..Len(table[c])
        /\ fate \in [Client -> {"none", "failed", "crashed"}] /\ DOMAIN manifest = Client
    BY <1>1, <1>2 DEF PublishInv, ShapeOK
  <2>5. Lists(c)'
    BY <1>2, <1>5, <2>1 DEF Lists, ToSet
  <2>. QED
    BY <1>1, <1>4, <1>5, <2>1, <2>2, <2>3, <2>4, <2>5, InDirOK DEF InMfs
<1>6. ASSUME NEW r \in {"failed", "crashed"}, FinallyRm(c, r),
             FilesCp(dir[c], d) \/ UNCHANGED nodeVars
      PROVE  PublishInv'
  BY <1>1, <1>2, <1>4, <1>6, FinallyOK
<1>. QED
  BY <1>5, <1>6 DEF Cp

\* /files/stat finds every entry: the root is the whole table.
LEMMA StatOK ==
    ASSUME PublishInv, NEW c \in Client, Stat(c)
    PROVE  PublishInv'
<1>1. /\ pc[c] = "cp" /\ linked[c] = Len(table[c])
      /\ UNCHANGED <<poolVars, fileVars, acked>>
  BY DEF Stat, Rest
<1>2. /\ dir[c] \in Dirs /\ table[c] \in Seq(Digest) /\ Lists(c)
      /\ mfs[dir[c]] = {table[c][i] : i \in 1..linked[c]} /\ mfs[dir[c]] \in SUBSET Digest
      /\ DOMAIN mfs = Dirs
  BY <1>1 DEF PublishInv, ShapeOK, CommandOK, Listed, Late, InMfs
<1>3. UNCHANGED mfs
  BY DEF Stat, FilesStat, nodeVars
<1>4. CASE /\ manifest' = [manifest EXCEPT ![c].root = mfs[dir[c]]]
           /\ Goes(c, "rm") /\ UNCHANGED <<dir, linked, fate>>
  <2>1. pc' = [pc EXCEPT ![c] = "rm"] /\ UNCHANGED <<args, table>>
    BY <1>4 DEF Goes
  <2>2. mfs[dir[c]] = ToSet(table[c])
    BY <1>1, <1>2 DEF ToSet
  <2>3. PICK name \in Tables, root \in {NoRoot, ToSet(table[c])} :
            manifest[c] = [seed |-> name, chunks |-> ToSet(table[c]), root |-> root]
    BY <1>2 DEF Lists
  <2>4. /\ manifest'[c] = [manifest[c] EXCEPT !.root = ToSet(table[c])]
        /\ DOMAIN manifest' = Client
        /\ \A o \in Client : o # c => manifest'[o] = manifest[o]
    BY <1>4, <2>2 DEF PublishInv, ShapeOK
  <2>5. manifest'[c] = [seed |-> name, chunks |-> ToSet(table[c]), root |-> ToSet(table[c])]
    BY <2>3, <2>4
  <2>6. Lists(c)'
    BY <2>1, <2>5 DEF Lists, ToSet
  <2>7. /\ linked' \in [Client -> Nat] /\ fate' \in [Client -> {"none", "failed", "crashed"}]
    BY <1>4 DEF PublishInv, ShapeOK
  <2>. QED
    BY <1>1, <1>2, <1>3, <1>4, <2>1, <2>4, <2>5, <2>6, <2>7, InDirOK DEF InMfs
<1>5. ASSUME NEW r \in {"failed", "crashed"}, FinallyRm(c, r)
      PROVE  PublishInv'
  BY <1>1, <1>2, <1>3, <1>5, FinallyOK
<1>. QED
  BY <1>4, <1>5 DEF Stat

\* The finally block, reached with or without an exception on its way.
LEMMA RmOK ==
    ASSUME PublishInv, NEW c \in Client, Rm(c), NodeAssumption
    PROVE  PublishInv'
<1>1. /\ pc[c] = "rm" /\ UNCHANGED <<poolVars, fileVars, acked>>
      /\ FilesRm(dir[c]) \/ UNCHANGED nodeVars
      /\ DagLeft(c) \/ Ends(c, "crashed")
  BY DEF Rm, Rest
<1>2. /\ dir[c] \in Dirs /\ pool[c] = "closed" /\ Lists(c)
      /\ ToSet(table[c]) \subseteq acked /\ args[c].seed \in SeedPaths
      /\ fate[c] = "none" => manifest[c].root = ToSet(table[c])
  BY <1>1 DEF PublishInv, CommandOK, Listed, Late, InMfs
<1>3. /\ DOMAIN mfs' = Dirs
      /\ \A o \in Client : o # c /\ pc[o] \in InMfs => mfs'[dir[o]] = mfs[dir[o]]
  <2>1. \A n \in Dirs : n # dir[c] => mfs'[n] = mfs[n]
    BY <1>1, <1>2 DEF FilesRm, nodeVars, PublishInv, ShapeOK
  <2>2. \A o \in Client : o # c /\ pc[o] \in InMfs => dir[o] \in Dirs /\ dir[o] # dir[c]
    BY <1>1 DEF PublishInv, CommandOK, Apart, InMfs
  <2>3. DOMAIN mfs' = Dirs
    BY <1>1 DEF FilesRm, nodeVars, PublishInv, ShapeOK
  <2>. QED
    BY <2>1, <2>2, <2>3
<1>4. ASSUME NEW r, Ends(c, r) PROVE PublishInv'
  BY <1>1, <1>2, <1>3, <1>4, EndsOK DEF fileVars, PublishInv, ShapeOK
<1>5. CASE fate[c] = "none" /\ DagLeft(c)
  <2>. DEFINE phase == AfterDag(c)
  <2>1. /\ pc' = [pc EXCEPT ![c] = phase] /\ phase \in {"pin", "remote", "create"}
        /\ UNCHANGED <<args, table, dir, linked, manifest, fate>>
    BY <1>5 DEF DagLeft, Goes, AfterDag, AfterPin
  <2>2. ShapeOK' /\ pc'[c] = phase
    BY <1>1, <1>3, <2>1 DEF PublishInv, ShapeOK, Phase, fileVars
  <2>3. CommandOK(c)'
    <3>1. Lists(c)'
      BY <1>2, <2>1 DEF Lists, ToSet
    <3>2. UNCHANGED <<pool, args, table, manifest, acked>>
      BY <1>1, <2>1 DEF poolVars
    <3>. QED
      BY <1>2, <1>5, <2>1, <2>2, <3>1, <3>2 DEF CommandOK, Late, Listed, InMfs, ToSet
  <2>4. ASSUME NEW o \in Client, o # c PROVE Aside(c, o, phase)
    BY <1>1, <1>3, <2>1, <2>4 DEF Aside, fileVars, InMfs
  <2>5. phase = AfterDag(c) /\ pc[c] # "idle" /\ UNCHANGED <<poolVars, acked>>
    BY <1>1
  <2>. QED
    BY <2>1, <2>2, <2>3, <2>4, <2>5, GoesOK
<1>. QED
  BY <1>1, <1>4, <1>5 DEF DagLeft

\* What follows the DAG, up to the sidecar: nothing the command knows changes.
LEMMA OnwardOK ==
    ASSUME PublishInv, NEW c \in Client, NEW phase \in {"remote", "create"},
           pc[c] \in {"pin", "remote"}, Goes(c, phase),
           UNCHANGED <<dir, linked, manifest, fate, poolVars, fileVars, acked, mfs>>
    PROVE  PublishInv'
<1>1. pc' = [pc EXCEPT ![c] = phase] /\ UNCHANGED <<args, table>>
  BY DEF Goes
<1>2. ShapeOK' /\ pc'[c] = phase
  BY <1>1 DEF PublishInv, ShapeOK, Phase, fileVars
<1>3. Lists(c)
  BY DEF PublishInv, CommandOK, Listed, Late
<1>4. Lists(c)'
  BY <1>1, <1>3 DEF Lists, ToSet
<1>5. CommandOK(c)'
  BY <1>1, <1>2, <1>4 DEF PublishInv, CommandOK, Late, Listed, InMfs, ToSet, poolVars
<1>6. ASSUME NEW o \in Client, o # c PROVE Aside(c, o, phase)
  BY <1>6 DEF Aside, fileVars, InMfs
<1>. QED
  BY <1>1, <1>2, <1>5, <1>6, GoesOK

\* The DAG is pinned at the node or at the provider.
LEMMA PinsOK ==
    ASSUME PublishInv, NEW c \in Client, Pin(c) \/ RemotePin(c)
    PROVE  PublishInv'
<1>1. /\ pc[c] \in {"pin", "remote"}
      /\ UNCHANGED <<poolVars, fileVars, acked, mfs>>
  BY DEF Pin, RemotePin, Rest, PinAdd, nodeVars
<1>2. pool[c] = "closed"
  BY <1>1 DEF PublishInv, CommandOK
<1>3. ASSUME NEW r, Ends(c, r) PROVE PublishInv'
  BY <1>1, <1>2, <1>3, EndsOK DEF PublishInv, ShapeOK, fileVars
<1>4. ASSUME NEW phase \in {"remote", "create"}, Goes(c, phase),
             UNCHANGED <<dir, linked, manifest, fate>>
      PROVE  PublishInv'
  BY <1>1, <1>4, OnwardOK
<1>. QED
  BY <1>3, <1>4 DEF Pin, RemotePin, AfterPin

\* Whatever is written to a sidecar leaves it there.
LEMMA SidecarsStay ==
    ASSUME PublishInv, NEW p, NEW x, x # NoSidecar, sidecar' = [sidecar EXCEPT ![p] = x]
    PROVE  /\ DOMAIN sidecar' = SeedPaths
           /\ \A s \in SeedPaths : sidecar[s] # NoSidecar => sidecar'[s] # NoSidecar
BY DEF PublishInv, ShapeOK

LEMMA CutStays ==
    ASSUME PublishInv, NEW c \in Client, CutSidecar(c)
    PROVE  /\ DOMAIN sidecar' = SeedPaths
           /\ \A s \in SeedPaths : sidecar[s] # NoSidecar => sidecar'[s] # NoSidecar
<1>1. UNCHANGED sidecar \/ sidecar' = [sidecar EXCEPT ![args[c].seed] = TornSidecar]
  BY DEF CutSidecar
<1>2. TornSidecar # NoSidecar
  BY SidecarAssumption
<1>3. CASE UNCHANGED sidecar
  BY <1>3 DEF PublishInv, ShapeOK
<1>4. CASE sidecar' = [sidecar EXCEPT ![args[c].seed] = TornSidecar]
  BY <1>2, <1>4, SidecarsStay
<1>. QED
  BY <1>1, <1>3, <1>4

\* The halves of writing the sidecar, and what cuts them off.
LEMMA SidecarOK ==
    ASSUME PublishInv, NEW c \in Client, SidecarOpen(c) \/ SidecarWrite(c) \/ SidecarFails(c)
    PROVE  PublishInv'
<1>1. /\ pc[c] \in {"create", "write"}
      /\ UNCHANGED <<seedFile, nodeVars, poolVars, traceVars>>
  BY DEF SidecarOpen, SidecarWrite, SidecarFails, SidecarOnly
<1>2. /\ pool[c] = "closed" /\ args[c].seed \in SeedPaths /\ Lists(c)
      /\ ToSet(table[c]) \subseteq acked
  BY <1>1 DEF PublishInv, CommandOK, Listed, Late
<1>3. manifest[c] # NoSidecar
  <2>1. PICK name \in Tables, root \in {NoRoot, ToSet(table[c])} :
            manifest[c] = [seed |-> name, chunks |-> ToSet(table[c]), root |-> root]
    BY <1>2 DEF Lists
  <2>2. ToSet(table[c]) \subseteq Digest
    BY DEF PublishInv, ShapeOK, ToSet
  <2>3. manifest[c] \in Manifest
    BY <2>1, <2>2 DEF Manifest
  <2>. QED
    BY <2>3, SidecarAssumption
<1>5. CASE SidecarOpen(c)
  <2>1. /\ pc' = [pc EXCEPT ![c] = "write"]
        /\ sidecar' = [sidecar EXCEPT ![args[c].seed] = EmptySidecar]
        /\ UNCHANGED <<args, table, dir, linked, manifest, fate>>
    BY <1>5 DEF SidecarOpen, Goes
  <2>2. EmptySidecar # NoSidecar
    BY SidecarAssumption
  <2>3. /\ DOMAIN sidecar' = SeedPaths /\ sidecar'[args[c].seed] # NoSidecar
        /\ \A s \in SeedPaths : sidecar[s] # NoSidecar => sidecar'[s] # NoSidecar
    BY <1>2, <2>1, <2>2, SidecarsStay DEF PublishInv, ShapeOK
  <2>4. ShapeOK' /\ pc'[c] = "write"
    BY <1>1, <2>1, <2>3 DEF PublishInv, ShapeOK, Phase, nodeVars
  <2>5. Lists(c)'
    BY <1>2, <2>1 DEF Lists, ToSet
  <2>6. CommandOK(c)'
    BY <1>1, <1>2, <2>1, <2>3, <2>4, <2>5
       DEF CommandOK, Late, Listed, InMfs, ToSet, poolVars, traceVars
  <2>7. ASSUME NEW o \in Client, o # c PROVE Aside(c, o, "write")
    BY <1>1, <2>1, <2>3, <2>7 DEF Aside, InMfs, nodeVars
  <2>. QED
    BY <1>1, <2>1, <2>4, <2>6, <2>7, GoesOK DEF traceVars
<1>6. CASE SidecarWrite(c) \/ SidecarFails(c)
  <2>1. /\ \E r : Ends(c, r)
        /\ CutSidecar(c) \/ \E x \in {manifest[c], TornSidecar} :
                                sidecar' = [sidecar EXCEPT ![args[c].seed] = x]
    BY <1>6 DEF SidecarWrite, SidecarFails
  <2>2. TornSidecar # NoSidecar
    BY SidecarAssumption
  <2>3. /\ DOMAIN sidecar' = SeedPaths
        /\ \A s \in SeedPaths : sidecar[s] # NoSidecar => sidecar'[s] # NoSidecar
    BY <1>3, <2>1, <2>2, SidecarsStay, CutStays
  <2>4. /\ UNCHANGED <<poolVars, acked, seedFile, mfs>> /\ DOMAIN mfs' = Dirs /\ pc[c] # "idle"
    BY <1>1 DEF PublishInv, ShapeOK, nodeVars, traceVars
  <2>. QED
    BY <1>2, <2>1, <2>3, <2>4, EndsOK
<1>. QED
  BY <1>5, <1>6

\* The process of a command is killed; its tasks end with it.
LEMMA KillOK ==
    ASSUME PublishInv, NEW c \in Client, Kill(c)
    PROVE  PublishInv'
<1>1. /\ pc' = [pc EXCEPT ![c] = "idle"] /\ PoolKilled(c)
      /\ CutSidecar(c)
      /\ UNCHANGED <<args, table, dir, linked, manifest, fate, nodeVars, seedFile, acked>>
  BY DEF Kill, Ends
<1>2. PoolInv'
  BY <1>1, KilledKeeps DEF PublishInv
<1>3. ShapeOK' /\ pc'[c] = "idle" /\ \A o \in Client : o # c => pc'[o] = pc[o]
  BY <1>1, CutStays DEF PublishInv, ShapeOK, Phase, nodeVars
<1>4. /\ pool'[c] = "closed"
      /\ \A o \in Client : o # c => pool'[o] = pool[o] /\ futures'[o] = futures[o]
  BY <1>1 DEF PoolKilled, PublishInv, PoolInv, PoolTypeOK
<1>5. CommandOK(c)'
  BY <1>3, <1>4 DEF CommandOK, Late, Listed, InMfs
<1>6. ASSUME NEW o \in Client, o # c PROVE Untouched(o)
  BY <1>1, <1>3, <1>4, <1>6, CutStays DEF Untouched, nodeVars, TasksIn
<1>7. ASSUME NEW o \in Client, o # c PROVE Apart(c, o)'
  BY <1>3 DEF Apart, InMfs
<1>. QED
  BY <1>1, <1>2, <1>3, <1>5, <1>6, <1>7, StepOK

\* Seeds are rewritten, rows rot, the node collects garbage.
LEMMA EnvironmentOK ==
    ASSUME PublishInv, (\E s \in SeedPaths : RewriteSeed(s)) \/ DamageGenome \/ NodeLives
    PROVE  PublishInv'
<1>1. seedFile \in [SeedPaths -> Tables]
  BY DEF PublishInv, ShapeOK
<1>2. CASE \E s \in SeedPaths : RewriteSeed(s)
  BY <1>1, <1>2, SameOK DEF RewriteSeed, nodeVars, clientVars, traceVars
<1>3. CASE DamageGenome
  BY <1>1, <1>3, SameOK DEF DamageGenome, nodeVars, fileVars, clientVars, traceVars
<1>4. CASE NodeLives
  BY <1>1, <1>4, SameOK DEF NodeLives, CollectGarbage, PeerLeaves, PeerProvides,
                            fileVars, clientVars, traceVars
<1>. QED
  BY <1>2, <1>3, <1>4

\* The first state satisfies the invariant.
LEMMA PublishInvInit == PublishInit => PublishInv
<1>. SUFFICES ASSUME PublishInit PROVE PublishInv
  OBVIOUS
<1>1. PoolInv /\ \A c \in Client : pool[c] = "closed"
  BY PoolInvInit DEF PublishInit, PoolInit
<1>2. ShapeOK
  BY DEF PublishInit, ShapeOK, Phase, NodeInit
<1>3. ASSUME NEW c \in Client PROVE CommandOK(c)
  BY <1>1 DEF PublishInit, CommandOK, Late, Listed, InMfs
<1>4. ASSUME NEW c \in Client, NEW o \in Client PROVE Apart(c, o)
  BY DEF PublishInit, Apart, InMfs
<1>. QED
  BY <1>1, <1>2, <1>3, <1>4 DEF PublishInv

\* Every step of every actor keeps the invariant.
LEMMA PublishInvNext == PublishInv /\ [PublishNext]_publishVars => PublishInv'
<1>. SUFFICES ASSUME PublishInv, [PublishNext]_publishVars PROVE PublishInv'
  OBVIOUS
<1>. USE PublishAssumption, NodeAssumption
<1>1. ASSUME NEW c \in Client, PublishStart(c) PROVE PublishInv'
  BY <1>1, StartOK
<1>2. ASSUME NEW c \in Client, PublishStep(c) PROVE PublishInv'
  BY <1>2, LoadOK, SubmitOK, AttemptOK, PoolStepOK, LeftOK, HashOK, MkdirOK, CpOK,
     StatOK, RmOK, PinsOK, SidecarOK DEF PublishStep
<1>3. ASSUME NEW c \in Client, Kill(c) PROVE PublishInv'
  BY <1>3, KillOK
<1>4. CASE (\E s \in SeedPaths : RewriteSeed(s)) \/ DamageGenome \/ NodeLives
  BY <1>4, EnvironmentOK
<1>5. CASE UNCHANGED publishVars
  <2>1. seedFile' \in [SeedPaths -> Tables]
    BY <1>5 DEF publishVars, fileVars, PublishInv, ShapeOK
  <2>. QED
    BY <1>5, <2>1, SameOK DEF publishVars, fileVars, clientVars, nodeVars, traceVars
<1>. QED
  BY <1>1, <1>2, <1>3, <1>4, <1>5 DEF PublishNext

-----------------------------------------------------------------------------
(* The theorems.                                                            *)

\* The invariant holds throughout.
LEMMA PublishInvAlways == PublishSpec => []PublishInv
BY PublishInvInit, PublishInvNext, PTL DEF PublishSpec

\* The pool of publish_chunks_from_genome, for any number of threads and
\* chunks: once all futures have been told to cancel no further put starts
\* (those under way go on, with their retries), and the "with" block ends with
\* every result, or with an exception that some put raised.
THEOREM PublishPoolsSafe ==
    PublishSpec => [](NothingStartsAfterCancel /\ AllOrRaise)
<1>1. PublishInv => NothingStartsAfterCancel /\ AllOrRaise
  BY PoolInvGives DEF PublishInv
<1>. QED
  BY <1>1, PublishInvAlways, PTL

\* The first state is one of Publication.
LEMMA PublishInitMaps == PublishInit => Promise!PublicationInit
BY DEF PublishInit, NodeInit, Promise!PublicationInit

\* The steps that have something to show in Publication.
LEMMA AttemptMaps ==
    ASSUME PublishInv, NEW c \in Client, PutAttempt(c)
    PROVE  [Promise!PublicationNext]_Promise!publicationVars
<1>1. PICK t \in TasksIn(c, {"running"}) :
          PutAnswered(c, t) \/ PutRefused(c, t) \/ PutUnanswered(c, t)
  BY DEF PutAttempt
<1>2. table[c][t] \in Digest
  <2>1. TasksIn(c, {"queued", "running"}) # {}
    BY <1>1 DEF TasksIn
  <2>2. pc[c] = "pool"
    BY <2>1, AtWork
  <2>3. /\ Len(futures[c]) = Len(table[c]) /\ table[c] \in Seq(Digest)
        /\ futures[c] \in Seq(FutureState) /\ t \in DOMAIN futures[c]
    BY <1>1, <2>2 DEF PublishInv, CommandOK, ShapeOK, PoolInv, PoolTypeOK, TasksIn
  <2>. QED
    BY <2>3
<1>3. UNCHANGED <<pins, sidecar>>
  BY <1>1 DEF PutAttempt, PutAnswered, PutRefused, PutUnanswered, BlockPut, nodeVars, fileVars
<1>4. acked' = acked \/ acked' = acked \union {table[c][t]}
  BY <1>1 DEF PutAnswered, PutRefused, PutUnanswered, traceVars
<1>5. CASE acked' = acked
  BY <1>3, <1>5 DEF Promise!publicationVars
<1>6. CASE acked' = acked \union {table[c][t]}
  <2>1. Promise!Acknowledge
    BY <1>2, <1>3, <1>6 DEF Promise!Acknowledge
  <2>. QED
    BY <2>1 DEF Promise!PublicationNext
<1>. QED
  BY <1>4, <1>5, <1>6

\* A pin keeps only what the node has acknowledged.
LEMMA PinMaps ==
    ASSUME PublishInv, NEW c \in Client, Pin(c)
    PROVE  [Promise!PublicationNext]_Promise!publicationVars
<1>1. /\ pc[c] = "pin" /\ UNCHANGED <<acked, sidecar>>
      /\ PinAdd(manifest[c].root) \/ UNCHANGED nodeVars
  BY DEF Pin, Rest, fileVars
<1>2. manifest[c].root \in SUBSET acked
  BY <1>1 DEF PublishInv, CommandOK, Late
<1>3. CASE UNCHANGED nodeVars
  BY <1>1, <1>3 DEF nodeVars, Promise!publicationVars
<1>4. CASE PinAdd(manifest[c].root)
  <2>1. Promise!Keep
    BY <1>1, <1>2, <1>4 DEF PinAdd, Promise!Keep
  <2>. QED
    BY <2>1 DEF Promise!PublicationNext
<1>. QED
  BY <1>1, <1>3, <1>4

\* A sidecar lists only what the node has acknowledged.
LEMMA SidecarMaps ==
    ASSUME PublishInv, NEW c \in Client, SidecarOpen(c) \/ SidecarWrite(c)
    PROVE  [Promise!PublicationNext]_Promise!publicationVars
<1>. DEFINE s == args[c].seed
<1>1. pc[c] \in {"create", "write"} /\ UNCHANGED <<acked, pins>>
  BY DEF SidecarOpen, SidecarWrite, SidecarOnly, nodeVars, traceVars
<1>2. s \in SeedPaths /\ Lists(c) /\ ToSet(table[c]) \subseteq acked
  BY <1>1 DEF PublishInv, CommandOK, Listed, Late
<1>3. ASSUME NEW torn \in {EmptySidecar, TornSidecar}, sidecar' = [sidecar EXCEPT ![s] = torn]
      PROVE  [Promise!PublicationNext]_Promise!publicationVars
  <2>1. Promise!Tear(s)
    BY <1>1, <1>3 DEF Promise!Tear
  <2>. QED
    BY <1>2, <2>1 DEF Promise!PublicationNext
<1>4. ASSUME SidecarWrite(c), sidecar' = [sidecar EXCEPT ![s] = manifest[c]]
      PROVE  [Promise!PublicationNext]_Promise!publicationVars
  <2>1. sidecar[s] # NoSidecar
    BY <1>4 DEF SidecarWrite, PublishInv, CommandOK
  <2>2. PICK name \in Tables, root \in {NoRoot, ToSet(table[c])} :
            manifest[c] = [seed |-> name, chunks |-> ToSet(table[c]), root |-> root]
    BY <1>2 DEF Lists
  <2>3. Promise!Announce(s)
    BY <1>1, <1>2, <1>4, <2>1, <2>2 DEF Promise!Announce
  <2>. QED
    BY <1>2, <2>3 DEF Promise!PublicationNext
<1>. QED
  BY <1>3, <1>4 DEF SidecarOpen, SidecarWrite

\* A write that is cut off shows as a broken sidecar, or not at all.
LEMMA CutMaps ==
    ASSUME PublishInv, NEW c \in Client, SidecarFails(c) \/ Kill(c)
    PROVE  [Promise!PublicationNext]_Promise!publicationVars
<1>1. CutSidecar(c) /\ UNCHANGED <<acked, pins>>
  BY DEF SidecarFails, SidecarOnly, Kill, nodeVars, traceVars
<1>2. CASE UNCHANGED sidecar
  BY <1>1, <1>2 DEF Promise!publicationVars
<1>3. CASE pc[c] = "write" /\ sidecar' = [sidecar EXCEPT ![args[c].seed] = TornSidecar]
  <2>1. args[c].seed \in SeedPaths
    BY <1>3 DEF PublishInv, CommandOK
  <2>2. Promise!Tear(args[c].seed)
    BY <1>1, <1>3 DEF Promise!Tear
  <2>. QED
    BY <2>1, <2>2 DEF Promise!PublicationNext
<1>. QED
  BY <1>1, <1>2, <1>3 DEF CutSidecar

\* Every step of publish-chunks is a step of Publication or shows nothing.
LEMMA PublishStepMaps ==
    PublishInv /\ [PublishNext]_publishVars
        => [Promise!PublicationNext]_Promise!publicationVars
<1>. SUFFICES ASSUME PublishInv, [PublishNext]_publishVars
              PROVE  [Promise!PublicationNext]_Promise!publicationVars
  OBVIOUS
<1>1. ASSUME UNCHANGED <<acked, pins, sidecar>>
      PROVE  [Promise!PublicationNext]_Promise!publicationVars
  BY <1>1 DEF Promise!publicationVars
<1>2. ASSUME NEW c \in Client, PublishStart(c) \/ LoadChunk(c) \/ LoadMissing(c)
             \/ SubmitPuts(c) \/ PoolStep(c) \/ PoolLeft(c) \/ HashSeed(c)
      PROVE  UNCHANGED <<acked, pins, sidecar>>
  BY <1>2 DEF PublishStart, LoadChunk, LoadMissing, SubmitPuts, PoolStep, PoolLeft, HashSeed,
              nodeVars, fileVars, traceVars
<1>3. ASSUME NEW c \in Client, Mkdir(c) \/ Cp(c) \/ Stat(c) \/ Rm(c) \/ RemotePin(c)
      PROVE  UNCHANGED <<acked, pins, sidecar>>
  BY <1>3 DEF Mkdir, Cp, Stat, Rm, RemotePin, Rest, FilesMkdir, FilesCp, FilesStat, FilesRm,
              nodeVars, fileVars
<1>4. ASSUME (\E s \in SeedPaths : RewriteSeed(s)) \/ DamageGenome \/ NodeLives
      PROVE  UNCHANGED <<acked, pins, sidecar>>
  BY <1>4 DEF RewriteSeed, DamageGenome, NodeLives, CollectGarbage, PeerLeaves, PeerProvides,
              nodeVars, fileVars, traceVars
<1>5. CASE UNCHANGED publishVars
  BY <1>1, <1>5 DEF publishVars, nodeVars, fileVars, traceVars
<1>. QED
  BY <1>1, <1>2, <1>3, <1>4, <1>5, AttemptMaps, PinMaps, SidecarMaps, CutMaps
     DEF PublishNext, PublishStep

\* publish-chunks implements Publication: whatever fails, interleaves or is
\* killed, also when several commands write one sidecar, a manifest appears only
\* in a file that was opened before, with a digest list the node has
\* acknowledged and a root that is null or exactly that list, and what was
\* pinned stays pinned.
THEOREM PublishImplements == PublishSpec => PublicationKept
<1>1. PublishInit => Promise!PublicationInit
  BY PublishInitMaps
<1>2. PublishInv /\ [PublishNext]_publishVars
          => [Promise!PublicationNext]_Promise!publicationVars
  BY PublishStepMaps
<1>. QED
  BY <1>1, <1>2, PublishInvAlways, PTL
     DEF PublishSpec, PublicationKept, Promise!PublicationSpec

-----------------------------------------------------------------------------
(* Directories are cleaned up.                                              *)

\* MfsTidy survives a step that makes no directory and loses track of none.
LEMMA TidyKept ==
    ASSUME MfsTidy, litter \subseteq litter',
           \A n \in Dirs : mfs'[n] # NoDir => mfs[n] # NoDir,
           \A c \in Client : pc[c] \in InMfs =>
              \/ pc'[c] \in InMfs /\ dir'[c] = dir[c]
              \/ dir[c] \in litter'
              \/ mfs'[dir[c]] = NoDir
    PROVE  MfsTidy'
BY DEF MfsTidy, InMfs

\* A new directory is its command's, or litter if mkdir did not answer.
LEMMA TidyMkdir ==
    ASSUME PublishInv, MfsTidy, NEW c \in Client, Mkdir(c)
    PROVE  MfsTidy'
<1>1. pc[c] = "mkdir" /\ pc[c] \notin InMfs
  BY DEF Mkdir, InMfs
<1>2. ASSUME NEW n \in Dirs, FilesMkdir(n)
      PROVE  \A m \in Dirs : m # n => mfs'[m] = mfs[m]
  BY <1>2 DEF FilesMkdir, PublishInv, ShapeOK
<1>3. CASE \E n \in Dirs : /\ FilesMkdir(n) /\ dir' = [dir EXCEPT ![c] = n]
                          /\ Goes(c, "cp") /\ UNCHANGED litter
  <2>1. PICK n \in Dirs : /\ FilesMkdir(n) /\ dir' = [dir EXCEPT ![c] = n]
                          /\ Goes(c, "cp") /\ UNCHANGED litter
    BY <1>3
  <2>2. /\ dir'[c] = n /\ pc'[c] = "cp"
        /\ \A o \in Client : o # c => dir'[o] = dir[o] /\ pc'[o] = pc[o]
    BY <2>1 DEF Goes, PublishInv, ShapeOK
  <2>. QED
    BY <1>1, <1>2, <2>1, <2>2 DEF MfsTidy, InMfs
<1>4. CASE /\ Ends(c, "failed") \/ Ends(c, "crashed")
           /\ \/ UNCHANGED <<nodeVars, litter>>
              \/ \E n \in Dirs : FilesMkdir(n) /\ litter' = litter \union {n}
  <2>1. /\ UNCHANGED dir
        /\ \A o \in Client : o # c => pc'[o] = pc[o]
    BY <1>4 DEF Ends, PublishInv, ShapeOK
  <2>. QED
    BY <1>1, <1>2, <1>4, <2>1 DEF MfsTidy, InMfs, nodeVars
<1>. QED
  BY <1>3, <1>4 DEF Mkdir

\* Linking and stat change no directory's owner.
LEMMA TidyInDir ==
    ASSUME PublishInv, MfsTidy, NEW c \in Client, Cp(c) \/ Stat(c), NodeAssumption
    PROVE  MfsTidy'
<1>1. /\ pc' = [pc EXCEPT ![c] = "cp"] \/ pc' = [pc EXCEPT ![c] = "rm"]
      /\ UNCHANGED <<dir, litter>>
  BY DEF Cp, Stat, FinallyRm, Goes
<1>2. \A o \in Client : pc[o] \in InMfs => pc'[o] \in InMfs
  BY <1>1 DEF PublishInv, ShapeOK, InMfs
<1>3. \A n \in Dirs : mfs'[n] # NoDir => mfs[n] # NoDir
  <2>1. pc[c] = "cp"
    BY DEF Cp, Stat
  <2>2. dir[c] \in Dirs /\ mfs[dir[c]] # NoDir /\ DOMAIN mfs = Dirs
    BY <2>1 DEF PublishInv, ShapeOK, CommandOK, InMfs, NodeAssumption
  <2>3. CASE Cp(c)
    BY <2>2, <2>3 DEF Cp, FilesCp, nodeVars
  <2>4. CASE Stat(c)
    BY <2>4 DEF Stat, FilesStat, nodeVars
  <2>. QED
    BY <2>3, <2>4
<1>. QED
  BY <1>1, <1>2, <1>3, TidyKept

\* The finally block removes the directory or leaves it as litter.
LEMMA TidyRm ==
    ASSUME PublishInv, MfsTidy, NEW c \in Client, Rm(c)
    PROVE  MfsTidy'
<1>1. pc[c] = "rm" /\ dir[c] \in Dirs /\ DOMAIN mfs = Dirs
  BY DEF Rm, PublishInv, ShapeOK, CommandOK, InMfs
<1>2. /\ DagLeft(c) \/ Ends(c, "crashed")
      /\ UNCHANGED nodeVars \/ FilesRm(dir[c])
      /\ (FilesRm(dir[c]) /\ UNCHANGED litter) \/ litter' = litter \union {dir[c]}
  BY DEF Rm
<1>3. /\ UNCHANGED dir
      /\ \A o \in Client : o # c => pc'[o] = pc[o]
  BY <1>2 DEF DagLeft, Ends, Goes, PublishInv, ShapeOK
<1>4. \A n \in Dirs : mfs'[n] # NoDir => mfs[n] # NoDir
  BY <1>1, <1>2 DEF FilesRm, nodeVars
<1>5. dir[c] \in litter' \/ mfs'[dir[c]] = NoDir
  BY <1>1, <1>2 DEF FilesRm
<1>. QED
  BY <1>2, <1>3, <1>4, <1>5, TidyKept

\* Every step keeps MfsTidy.
LEMMA TidyNext ==
    PublishInv /\ MfsTidy /\ [PublishNext]_publishVars => MfsTidy'
<1>. SUFFICES ASSUME PublishInv, MfsTidy, [PublishNext]_publishVars PROVE MfsTidy'
  OBVIOUS
<1>. USE NodeAssumption
<1>1. ASSUME UNCHANGED <<mfs, litter, dir>>,
             \A o \in Client : pc[o] \in InMfs => pc'[o] \in InMfs
      PROVE  MfsTidy'
  BY <1>1, TidyKept
<1>2. ASSUME NEW c \in Client, NEW phase, pc[c] \notin InMfs, pc' = [pc EXCEPT ![c] = phase],
             UNCHANGED <<mfs, litter, dir>>
      PROVE  MfsTidy'
  BY <1>1, <1>2 DEF PublishInv, ShapeOK
<1>3. ASSUME NEW c \in Client, PublishStart(c) PROVE MfsTidy'
  BY <1>2, <1>3 DEF PublishStart, InMfs, nodeVars, traceVars
<1>4. ASSUME NEW c \in Client, LoadChunk(c) PROVE MfsTidy'
  BY <1>1, <1>4 DEF LoadChunk, nodeVars, traceVars
<1>5. ASSUME NEW c \in Client, LoadMissing(c) \/ SubmitPuts(c) \/ PoolLeft(c) \/ HashSeed(c)
      PROVE  MfsTidy'
  <2>1. /\ pc[c] \notin InMfs /\ UNCHANGED <<mfs, litter, dir>>
        /\ \E phase : pc' = [pc EXCEPT ![c] = phase]
    <3>1. CASE LoadMissing(c) \/ SubmitPuts(c) \/ HashSeed(c)
      BY <3>1 DEF LoadMissing, Loading, SubmitPuts, HashSeed, Ends, Goes, InMfs, nodeVars, traceVars
    <3>2. CASE PoolLeft(c)
      <4>1. raised[c] \in {"none", "tool", "other"}
        BY DEF PublishInv, PoolInv, PoolTypeOK
      <4>. QED
        BY <3>2, <4>1 DEF PoolLeft, Ends, Goes, InMfs, nodeVars, traceVars
    <3>. QED
      BY <1>5, <3>1, <3>2
  <2>. QED
    BY <1>2, <2>1
<1>6. ASSUME NEW c \in Client, PutAttempt(c) \/ PoolStep(c) PROVE MfsTidy'
  BY <1>1, <1>6 DEF PutAttempt, PutAnswered, PutRefused, PutUnanswered, BlockPut, PoolStep,
                    nodeVars, clientVars, traceVars
<1>7. ASSUME NEW c \in Client, \/ Pin(c) \/ RemotePin(c)
                              \/ SidecarOpen(c) \/ SidecarWrite(c) \/ SidecarFails(c)
      PROVE  MfsTidy'
  <2>1. /\ pc[c] \notin InMfs /\ UNCHANGED <<mfs, litter, dir>>
        /\ \E phase : pc' = [pc EXCEPT ![c] = phase]
    BY <1>7 DEF Pin, PinAdd, RemotePin, SidecarOpen, SidecarWrite, SidecarFails, SidecarOnly,
                Rest, Ends, Goes, InMfs, nodeVars, traceVars
  <2>. QED
    BY <1>2, <2>1
<1>8. ASSUME NEW c \in Client, Kill(c) PROVE MfsTidy'
  <2>1. /\ UNCHANGED <<mfs, dir>> /\ litter \subseteq litter'
        /\ pc[c] \in InMfs => dir[c] \in litter'
        /\ \A o \in Client : o # c => pc'[o] = pc[o]
    BY <1>8 DEF Kill, Ends, InMfs, nodeVars, PublishInv, ShapeOK
  <2>. QED
    BY <2>1, TidyKept
<1>9. CASE (\E s \in SeedPaths : RewriteSeed(s)) \/ DamageGenome \/ NodeLives
           \/ UNCHANGED publishVars
  BY <1>1, <1>9 DEF RewriteSeed, DamageGenome, NodeLives, CollectGarbage, PeerLeaves,
                    PeerProvides, publishVars, nodeVars, clientVars, traceVars
<1>. QED
  BY <1>3, <1>4, <1>5, <1>6, <1>7, <1>8, <1>9, TidyMkdir, TidyInDir, TidyRm
     DEF PublishNext, PublishStep

\* create_chunk_dag leaves no directory behind in MFS, where it would keep
\* its blocks from the garbage collector for ever, unless the command was
\* killed, the removal failed, or the node never answered mkdir.
THEOREM PublishTidies == PublishSpec => []MfsTidy
<1>1. PublishInit => MfsTidy
  BY DEF PublishInit, NodeInit, MfsTidy
<1>2. PublishInv /\ MfsTidy /\ [PublishNext]_publishVars => MfsTidy'
  BY TidyNext
<1>. QED
  BY <1>1, <1>2, PublishInvAlways, PTL DEF PublishSpec

-----------------------------------------------------------------------------
(* What is pinned stays.                                                    *)

\* A command run with --pin, once past it, has pinned what it will list.
PinnedOK(c) ==
    /\ pc[c] # "idle" => res[c] = "none"
    /\ "pin" \in args[c].mode /\ (pc[c] \in {"remote", "create", "write"} \/ res[c] = "ok")
        => manifest[c].root \in pins /\ manifest[c].chunks = manifest[c].root

PinsHeld == \A r \in pins : r \in SUBSET Digest /\ r \subseteq blocks

RootsWhole ==
    \A s \in SeedPaths : IsManifest(s) => sidecar[s].root \in {NoRoot, sidecar[s].chunks}

PinnedInv ==
    /\ DOMAIN res = Client
    /\ PinsHeld /\ RootsWhole
    /\ \A c \in Client : PinnedOK(c)

\* The strengthened invariant implies the property.
LEMMA PinnedInvGives == PinnedInv /\ PublishAssumption => PinnedStays
BY DEF PinnedInv, PinsHeld, RootsWhole, PinnedOK, PinnedStays, PublishAssumption

\* What a step keeps of another command o.
Same(o) ==
    /\ pc'[o] = pc[o] /\ args'[o] = args[o]
    /\ manifest'[o] = manifest[o] /\ res'[o] = res[o]

\* A step of one command that leaves the others alone and no pin withdrawn.
LEMMA PinnedStep ==
    ASSUME PinnedInv, NEW c \in Client, DOMAIN res' = Client, PinsHeld', pins \subseteq pins',
           RootsWhole', PinnedOK(c)', \A o \in Client : o # c => Same(o)
    PROVE  PinnedInv'
<1>1. ASSUME NEW o \in Client, o # c PROVE PinnedOK(o)'
  BY <1>1 DEF PinnedInv, PinnedOK, Same
<1>. QED
  BY <1>1 DEF PinnedInv

\* Blocks only leave by garbage collection, which spares what pins hold.
LEMMA PinsHeldNext ==
    ASSUME PublishInv, PinsHeld, PublishNext, PublishAssumption
    PROVE  PinsHeld' /\ pins \subseteq pins'
<1>1. ASSUME blocks \subseteq blocks', pins' = pins
      PROVE  PinsHeld' /\ pins \subseteq pins'
  BY <1>1 DEF PinsHeld
<1>2. ASSUME NEW c \in Client, PublishStart(c) \/ LoadChunk(c) \/ LoadMissing(c)
             \/ SubmitPuts(c) \/ PoolStep(c) \/ PoolLeft(c) \/ HashSeed(c) \/ Kill(c)
             \/ RemotePin(c) \/ SidecarOpen(c) \/ SidecarWrite(c) \/ SidecarFails(c)
      PROVE  blocks \subseteq blocks' /\ pins' = pins
  BY <1>2 DEF PublishStart, LoadChunk, LoadMissing, SubmitPuts, PoolStep, PoolLeft, HashSeed,
              Kill, RemotePin, SidecarOpen, SidecarWrite, SidecarFails, SidecarOnly, nodeVars
<1>3. ASSUME NEW c \in Client, PutAttempt(c) \/ Mkdir(c) \/ Cp(c) \/ Stat(c) \/ Rm(c)
      PROVE  blocks \subseteq blocks' /\ pins' = pins
  BY <1>3 DEF PutAttempt, PutAnswered, PutRefused, PutUnanswered, BlockPut, Mkdir, Cp, Stat, Rm,
              FilesMkdir, FilesCp, FilesStat, FilesRm, nodeVars
<1>4. ASSUME NEW c \in Client, Pin(c) PROVE PinsHeld' /\ pins \subseteq pins'
  <2>1. PinAdd(manifest[c].root) \/ UNCHANGED nodeVars
    BY <1>4 DEF Pin
  <2>2. manifest[c].root \in SUBSET Digest
    <3>1. /\ pc[c] = "pin" /\ manifest[c].root = ToSet(table[c])
          /\ table[c] \in Seq(Digest)
      BY <1>4 DEF Pin, PublishInv, CommandOK, ShapeOK
    <3>. QED
      BY <3>1 DEF ToSet
  <2>. QED
    BY <2>1, <2>2 DEF PinAdd, nodeVars, PinsHeld
<1>5. ASSUME (\E s \in SeedPaths : RewriteSeed(s)) \/ DamageGenome
      PROVE  blocks \subseteq blocks' /\ pins' = pins
  BY <1>5 DEF RewriteSeed, DamageGenome, nodeVars
<1>6. CASE NodeLives
  <2>1. CASE CollectGarbage
    BY <2>1 DEF CollectGarbage, Held, PinsHeld
  <2>2. CASE \E d \in Digest : PeerLeaves(d) \/ PeerProvides(d)
    BY <1>1, <2>2 DEF PeerLeaves, PeerProvides
  <2>. QED
    BY <1>6, <2>1, <2>2 DEF NodeLives
<1>. QED
  BY <1>1, <1>2, <1>3, <1>4, <1>5, <1>6 DEF PublishNext, PublishStep

\* A sidecar is written with the root null or the list itself.
LEMMA RootsWholeNext ==
    ASSUME PublishInv, RootsWhole, PublishNext
    PROVE  RootsWhole'
<1>1. ASSUME sidecar' = sidecar PROVE RootsWhole'
  BY <1>1 DEF RootsWhole, IsManifest
<1>2. ASSUME NEW c \in Client, PublishStart(c) \/ LoadChunk(c) \/ LoadMissing(c)
             \/ SubmitPuts(c) \/ PutAttempt(c) \/ PoolStep(c) \/ PoolLeft(c) \/ HashSeed(c)
             \/ Mkdir(c) \/ Cp(c) \/ Stat(c) \/ Rm(c) \/ Pin(c) \/ RemotePin(c)
      PROVE  sidecar' = sidecar
  BY <1>2 DEF PublishStart, LoadChunk, LoadMissing, SubmitPuts, PutAttempt, PoolStep, PoolLeft,
              HashSeed, Mkdir, Cp, Stat, Rm, Pin, RemotePin, Rest, fileVars
<1>3. ASSUME (\E s \in SeedPaths : RewriteSeed(s)) \/ DamageGenome \/ NodeLives
      PROVE  sidecar' = sidecar
  BY <1>3 DEF RewriteSeed, DamageGenome, NodeLives, fileVars
<1>4. ASSUME NEW s, NEW x \in {EmptySidecar, TornSidecar}, sidecar' = [sidecar EXCEPT ![s] = x]
      PROVE  RootsWhole'
  BY <1>4 DEF RootsWhole, IsManifest, PublishInv, ShapeOK
<1>5. ASSUME NEW c \in Client, SidecarWrite(c), sidecar' = [sidecar EXCEPT ![args[c].seed] = manifest[c]]
      PROVE  RootsWhole'
  <2>1. DOMAIN sidecar = SeedPaths /\ Lists(c)
    BY <1>5 DEF SidecarWrite, PublishInv, ShapeOK, CommandOK, Listed, Late
  <2>2. manifest[c].root \in {NoRoot, manifest[c].chunks}
    BY <2>1 DEF Lists
  <2>. QED
    BY <1>5, <2>1, <2>2 DEF RootsWhole, IsManifest
<1>6. ASSUME NEW c \in Client, SidecarOpen(c) \/ SidecarWrite(c) \/ SidecarFails(c) \/ Kill(c)
      PROVE  RootsWhole'
  BY <1>1, <1>4, <1>5, <1>6 DEF SidecarOpen, SidecarWrite, SidecarFails, Kill, CutSidecar
<1>. QED
  BY <1>1, <1>2, <1>3, <1>6 DEF PublishNext, PublishStep

\* A command that ends without success has nothing pinned to answer for.
LEMMA PinnedEnds ==
    ASSUME PublishInv, PinnedInv, NEW c \in Client, NEW r, r # "ok", Ends(c, r),
           PinsHeld', pins \subseteq pins', RootsWhole'
    PROVE  PinnedInv'
<1>1. /\ pc' = [pc EXCEPT ![c] = "idle"] /\ res' = [res EXCEPT ![c] = r]
      /\ UNCHANGED <<args, manifest>>
  BY DEF Ends
<1>2. pc'[c] = "idle" /\ res'[c] = r /\ DOMAIN res' = Client
  BY <1>1 DEF PublishInv, ShapeOK, PinnedInv
<1>3. PinnedOK(c)'
  BY <1>2 DEF PinnedOK
<1>4. \A o \in Client : o # c => Same(o)
  BY <1>1 DEF Same, PublishInv, ShapeOK, PinnedInv
<1>. QED
  BY <1>2, <1>3, <1>4, PinnedStep

\* A step onward: pinned, if it leads past the pin of a --pin command.
LEMMA PinnedGoes ==
    ASSUME PublishInv, PinnedInv, NEW c \in Client, NEW phase, pc[c] # "idle",
           pc' = [pc EXCEPT ![c] = phase], UNCHANGED <<args, res>>,
           \A o \in Client : o # c => manifest'[o] = manifest[o],
           "pin" \in args[c].mode /\ phase \in {"remote", "create", "write"} =>
              manifest'[c].root \in pins' /\ manifest'[c].chunks = manifest'[c].root,
           PinsHeld', pins \subseteq pins', RootsWhole'
    PROVE  PinnedInv'
<1>1. pc'[c] = phase /\ DOMAIN res' = Client
  BY DEF PublishInv, ShapeOK, PinnedInv
<1>2. PinnedOK(c)'
  BY <1>1 DEF PinnedOK, PinnedInv
<1>3. \A o \in Client : o # c => Same(o)
  BY DEF Same, PublishInv, ShapeOK
<1>. QED
  BY <1>1, <1>2, <1>3, PinnedStep

\* A step that moves no command keeps what the commands know.
LEMMA PinnedIdle ==
    ASSUME PinnedInv, UNCHANGED <<pc, args, manifest, res>>,
           PinsHeld', pins \subseteq pins', RootsWhole'
    PROVE  PinnedInv'
BY DEF PinnedInv, PinnedOK

\* Every step keeps the strengthened invariant.
LEMMA PinnedNext ==
    ASSUME PublishInv, PinnedInv, PublishNext, PublishAssumption, NodeAssumption
    PROVE  PinnedInv'
<1>1. PinsHeld' /\ pins \subseteq pins' /\ RootsWhole'
  BY PinsHeldNext, RootsWholeNext DEF PinnedInv
<1>2. ASSUME NEW c \in Client, NEW r, r # "ok", Ends(c, r) PROVE PinnedInv'
  BY <1>1, <1>2, PinnedEnds
<1>3. ASSUME NEW c \in Client, NEW phase, phase \notin {"remote", "create", "write"},
             pc[c] # "idle", pc' = [pc EXCEPT ![c] = phase], UNCHANGED <<args, res>>,
             \A o \in Client : o # c => manifest'[o] = manifest[o]
      PROVE  PinnedInv'
  BY <1>1, <1>3, PinnedGoes
<1>4. ASSUME NEW c \in Client, PublishStart(c) PROVE PinnedInv'
  <2>1. PICK s \in SeedPaths, mode \in Modes :
          /\ pc' = [pc EXCEPT ![c] = "load"]
          /\ args' = [args EXCEPT ![c] = [seed |-> s, mode |-> mode]]
          /\ manifest' = [manifest EXCEPT ![c] = BlankManifest]
          /\ res' = [res EXCEPT ![c] = "none"]
    BY <1>4 DEF PublishStart
  <2>2. pc'[c] = "load" /\ res'[c] = "none" /\ DOMAIN res' = Client
    BY <2>1 DEF PublishInv, ShapeOK, PinnedInv
  <2>3. PinnedOK(c)'
    BY <2>2 DEF PinnedOK
  <2>4. \A o \in Client : o # c => Same(o)
    BY <2>1 DEF Same, PublishInv, ShapeOK, PinnedInv
  <2>. QED
    BY <1>1, <2>2, <2>3, <2>4, PinnedStep
<1>5. ASSUME NEW c \in Client, LoadChunk(c) \/ PutAttempt(c) \/ PoolStep(c) PROVE PinnedInv'
  BY <1>1, <1>5, PinnedIdle DEF LoadChunk, PutAttempt, PutAnswered, PutRefused, PutUnanswered,
                                 PoolStep, clientVars
<1>6. ASSUME NEW c \in Client, LoadMissing(c) \/ SidecarFails(c) \/ Kill(c) PROVE PinnedInv'
  BY <1>2, <1>6 DEF LoadMissing, SidecarFails, Kill
<1>7. ASSUME NEW c \in Client, SubmitPuts(c) PROVE PinnedInv'
  BY <1>3, <1>7 DEF SubmitPuts
<1>8. ASSUME NEW c \in Client, PoolLeft(c) PROVE PinnedInv'
  <2>1. raised[c] \in {"none", "tool", "other"}
    BY DEF PublishInv, PoolInv, PoolTypeOK
  <2>2. Ends(c, "failed") \/ Ends(c, "crashed") \/ (Goes(c, "hash") /\ UNCHANGED manifest)
    BY <1>8, <2>1 DEF PoolLeft
  <2>. QED
    BY <1>2, <1>3, <1>8, <2>2 DEF Goes, PoolLeft
<1>9. ASSUME NEW c \in Client, HashSeed(c) PROVE PinnedInv'
  <2>. DEFINE phase == IF args[c].mode = {} THEN "create" ELSE "mkdir"
  <2>1. /\ pc[c] # "idle" /\ pc' = [pc EXCEPT ![c] = phase] /\ UNCHANGED <<args, res>>
        /\ \A o \in Client : o # c => manifest'[o] = manifest[o]
    BY <1>9 DEF HashSeed, Goes, PublishInv, ShapeOK
  <2>2. ~("pin" \in args[c].mode /\ phase \in {"remote", "create", "write"})
    OBVIOUS
  <2>. QED
    BY <1>1, <2>1, <2>2, PinnedGoes
<1>10. ASSUME NEW c \in Client, Mkdir(c) PROVE PinnedInv'
  <2>1. Ends(c, "failed") \/ Ends(c, "crashed") \/ (Goes(c, "cp") /\ UNCHANGED manifest)
    BY <1>10 DEF Mkdir
  <2>. QED
    BY <1>2, <1>3, <1>10, <2>1 DEF Goes, Mkdir
<1>11. ASSUME NEW c \in Client, Cp(c) \/ Stat(c) PROVE PinnedInv'
  <2>1. /\ Goes(c, "cp") \/ Goes(c, "rm")
        /\ \A o \in Client : o # c => manifest'[o] = manifest[o]
        /\ pc[c] # "idle"
    BY <1>11 DEF Cp, Stat, FinallyRm, PublishInv, ShapeOK
  <2>. QED
    BY <1>3, <2>1 DEF Goes
<1>12. ASSUME NEW c \in Client, Rm(c) PROVE PinnedInv'
  <2>1. pc[c] = "rm" /\ fate[c] \in {"none", "failed", "crashed"}
    BY <1>12 DEF Rm, PublishInv, ShapeOK
  <2>2. \/ Ends(c, "failed") \/ Ends(c, "crashed")
        \/ Goes(c, AfterDag(c)) /\ UNCHANGED manifest
    BY <1>12, <2>1 DEF Rm, DagLeft
  <2>3. "pin" \in args[c].mode => AfterDag(c) \notin {"remote", "create", "write"}
    BY DEF AfterDag
  <2>4. ASSUME Goes(c, AfterDag(c)), UNCHANGED manifest PROVE PinnedInv'
    BY <1>1, <2>1, <2>3, <2>4, PinnedGoes DEF Goes
  <2>. QED
    BY <1>2, <2>2, <2>4
<1>13. ASSUME NEW c \in Client, Pin(c) PROVE PinnedInv'
  <2>1. /\ pc[c] = "pin" /\ manifest[c].root = ToSet(table[c])
        /\ manifest[c].chunks = ToSet(table[c])
    <3>1. pc[c] = "pin" /\ manifest[c].root = ToSet(table[c]) /\ Lists(c)
      BY <1>13 DEF Pin, PublishInv, CommandOK, Listed, Late
    <3>. QED
      BY <3>1 DEF Lists
  <2>2. ASSUME PinAdd(manifest[c].root), Goes(c, AfterPin(c)), UNCHANGED manifest
        PROVE  PinnedInv'
    <3>1. manifest'[c].root \in pins' /\ manifest'[c].chunks = manifest'[c].root
      BY <2>1, <2>2 DEF PinAdd
    <3>. QED
      BY <1>1, <2>1, <2>2, <3>1, PinnedGoes DEF Goes
  <2>. QED
    BY <1>2, <1>13, <2>2 DEF Pin
<1>14. ASSUME NEW c \in Client, RemotePin(c) \/ SidecarOpen(c) PROVE PinnedInv'
  <2>1. /\ \/ Ends(c, "failed") \/ Ends(c, "crashed")
           \/ Goes(c, "create") \/ Goes(c, "write")
        /\ UNCHANGED <<manifest, pins>> /\ pc[c] \in {"remote", "create"}
    BY <1>14 DEF RemotePin, SidecarOpen, SidecarOnly, Ends, nodeVars
  <2>2. "pin" \in args[c].mode => manifest[c].root \in pins /\ manifest[c].chunks = manifest[c].root
    BY <2>1 DEF PinnedInv, PinnedOK
  <2>3. ASSUME NEW phase, Goes(c, phase) PROVE PinnedInv'
    BY <1>1, <2>1, <2>2, <2>3, PinnedGoes DEF Goes
  <2>. QED
    BY <1>2, <2>1, <2>3
<1>15. ASSUME NEW c \in Client, SidecarWrite(c) PROVE PinnedInv'
  <2>1. /\ pc[c] = "write" /\ pc' = [pc EXCEPT ![c] = "idle"]
        /\ res' = [res EXCEPT ![c] = "ok"] /\ UNCHANGED <<args, manifest, pins>>
    BY <1>15 DEF SidecarWrite, SidecarOnly, Ends, nodeVars
  <2>2. pc'[c] = "idle" /\ DOMAIN res' = Client /\ \A o \in Client : o # c => Same(o)
    BY <2>1 DEF Same, PublishInv, ShapeOK, PinnedInv
  <2>3. PinnedOK(c)'
    BY <2>1, <2>2 DEF PinnedInv, PinnedOK
  <2>. QED
    BY <1>1, <2>2, <2>3, PinnedStep
<1>16. CASE (\E s \in SeedPaths : RewriteSeed(s)) \/ DamageGenome \/ NodeLives
  BY <1>1, <1>16, PinnedIdle DEF RewriteSeed, DamageGenome, NodeLives, clientVars
<1>. QED
  BY <1>4, <1>5, <1>6, <1>7, <1>8, <1>9, <1>10, <1>11, <1>12, <1>13, <1>14, <1>15, <1>16
     DEF PublishNext, PublishStep

\* publish-chunks --pin: whatever the garbage collector and the peers do
\* after a DAG root was pinned, every chunk of a sidecar with that root
\* stays on the node; and a --pin command that succeeded has pinned it.
THEOREM PublishPins == PublishSpec => []PinnedStays
<1>1. PublishInit => PinnedInv
  BY DEF PublishInit, NodeInit, PinnedInv, PinsHeld, RootsWhole, IsManifest, PinnedOK
<1>2. PublishInv /\ PinnedInv /\ [PublishNext]_publishVars => PinnedInv'
  <2>1. ASSUME PinnedInv, UNCHANGED publishVars PROVE PinnedInv'
    BY <2>1 DEF publishVars, nodeVars, fileVars, clientVars, PinnedInv, PinsHeld, RootsWhole,
                PinnedOK, IsManifest
  <2>. QED
    BY <2>1, PinnedNext, PublishAssumption, NodeAssumption
<1>3. PinnedInv => PinnedStays
  BY PinnedInvGives, PublishAssumption
<1>. QED
  BY <1>1, <1>2, <1>3, PublishInvAlways, PTL DEF PublishSpec
=============================================================================
