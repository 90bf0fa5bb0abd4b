--------------------------- MODULE SeedCodecProofs ---------------------------
(***************************************************************************)
(* Proofs about SeedCodec, for every set of processes, files, seeds and    *)
(* contents and every value of the bounds.                                 *)
(*                                                                         *)
(* First that seeds are covered by the genome.  Then what decode and       *)
(* verify promise: bytes that are written are genuine, the two gates of    *)
(* verify, the round trip, and who can have left a seed path unreadable.   *)
(***************************************************************************)
EXTENDS SeedCodec, SequenceTheorems, TLAPS

-----------------------------------------------------------------------------
(* What one more op does to a seed.                                         *)

LEMMA EnterShape ==
    ASSUME NEW seed, SeedTypeOK(seed), NEW d \in Digest
    PROVE  /\ SeedTypeOK(Enter(seed, d))
           /\ Enter(seed, d).ops = seed.ops
           /\ Enter(seed, d).sha = seed.sha
           /\ Enter(seed, d).portable = seed.portable
           /\ Len(seed.table) <= Len(Enter(seed, d).table)
           /\ \A i \in 1..Len(seed.table) :
                /\ Enter(seed, d).table[i] = seed.table[i]
                /\ Enter(seed, d).raw[i] = seed.raw[i]
           /\ \A i \in 1..Len(Enter(seed, d).table) :
                i > Len(seed.table) => Enter(seed, d).raw[i] = Missing
           /\ IndexOf(Enter(seed, d), d) \in 1..Len(Enter(seed, d).table)
           /\ Enter(seed, d).table[IndexOf(Enter(seed, d), d)] = d
<1>. DEFINE e == Enter(seed, d)
<1>0. /\ seed.table \in Seq(Digest) /\ seed.raw \in Seq(Row)
      /\ seed.ops \in Seq(Op) /\ seed \in Seed
      /\ Len(seed.raw) = Len(seed.table)
  BY DEF SeedTypeOK, Seed
<1>1. CASE InTable(seed, d)
  <2>1. e = seed
    BY <1>1 DEF Enter
  <2>2. PICK i \in 1..Len(seed.table) : seed.table[i] = d
    BY <1>1 DEF InTable
  <2>3. IndexOf(seed, d) \in 1..Len(seed.table) /\ seed.table[IndexOf(seed, d)] = d
    BY <2>2 DEF IndexOf
  <2>. QED
    BY <2>1, <2>3, <1>0
<1>2. CASE ~InTable(seed, d)
  <2>1. e = [seed EXCEPT !.table = Append(@, d), !.raw = Append(@, Missing)]
    BY <1>2 DEF Enter
  <2>2. /\ e.table = Append(seed.table, d)
        /\ e.raw = Append(seed.raw, Missing)
        /\ e.ops = seed.ops
        /\ e.sha = seed.sha /\ e.portable = seed.portable
    BY <2>1, <1>0 DEF Seed
  <2>3. e \in Seed
    <3>1. e.table \in Seq(Digest)
      BY <2>2, <1>0
    <3>2. Missing \in Row
      BY DEF Row
    <3>3. e.raw \in Seq(Row)
      BY <2>2, <3>2, <1>0
    <3>. QED
      BY <2>1, <2>2, <3>1, <3>3, <1>0 DEF Seed
  <2>4. /\ Len(e.table) = Len(seed.table) + 1
        /\ Len(e.raw) = Len(e.table)
        /\ e.table[Len(seed.table) + 1] = d
        /\ e.raw[Len(seed.table) + 1] = Missing
        /\ \A i \in 1..Len(seed.table) : e.table[i] = seed.table[i] /\ e.raw[i] = seed.raw[i]
    BY <2>2, <1>0
  <2>5. IndexOf(e, d) \in 1..Len(e.table) /\ e.table[IndexOf(e, d)] = d
    <3>1. \E i \in 1..Len(e.table) : e.table[i] = d
      BY <2>4, <1>0
    <3>. QED
      BY <3>1 DEF IndexOf
  <2>6. SeedTypeOK(e)
    BY <2>2, <2>3, <2>4, <1>0 DEF SeedTypeOK
  <2>7. \A i \in 1..Len(e.table) : i > Len(seed.table) => e.raw[i] = Missing
    <3>1. Len(seed.table) \in Nat
      BY <1>0
    <3>. QED
      BY <2>4, <3>1
  <2>8. Len(seed.table) <= Len(e.table)
    BY <2>4, <1>0
  <2>. QED
    BY <2>2, <2>4, <2>5, <2>6, <2>7, <2>8
<1>. QED
  BY <1>1, <1>2

\* What Emit makes of a seed: one op more for the chunk, the table and the
\* payloads kept, and no payload but the chunk's own added.
Emitted(seed, chunk, code, e) ==
    /\ Len(e.ops) = Len(seed.ops) + 1
    /\ e.sha = seed.sha
    /\ e.portable = seed.portable
    /\ Len(seed.table) <= Len(e.table)
    /\ \A i \in 1..Len(seed.table) :
         /\ e.table[i] = seed.table[i]
         /\ e.raw[i] = seed.raw[i] \/ e.raw[i] = chunk
    /\ \A i \in 1..Len(seed.ops) : e.ops[i] = seed.ops[i]
    /\ e.ops[Len(e.ops)].code = code
    /\ OpDigest(e, Len(e.ops)) = Sha[chunk]
    /\ code = "RAW" => e.raw[e.ops[Len(e.ops)].index] = chunk
    /\ \A i \in 1..Len(e.table) :
         \/ i <= Len(seed.table) /\ e.raw[i] = seed.raw[i]
         \/ e.raw[i] = Missing
         \/ e.raw[i] = chunk /\ e.table[i] = Sha[chunk]

LEMMA EmitShape ==
    ASSUME NEW seed, SeedTypeOK(seed), NEW chunk \in Content,
           NEW code \in {"REF", "RAW"},
           NEW e, e = Emit(seed, chunk, code)
    PROVE  SeedTypeOK(e) /\ Emitted(seed, chunk, code, e)
<1>. DEFINE d  == Sha[chunk]
            en == Enter(seed, d)
            k  == IndexOf(en, d)
            op == [code |-> code, index |-> k]
            pay == IF code = "RAW" THEN chunk ELSE en.raw[k]
<1>1. d \in Digest
  BY ShaAssumption
<1>2. /\ SeedTypeOK(en)
      /\ en.ops = seed.ops /\ en.sha = seed.sha /\ en.portable = seed.portable
      /\ Len(seed.table) <= Len(en.table)
      /\ \A i \in 1..Len(seed.table) : en.table[i] = seed.table[i] /\ en.raw[i] = seed.raw[i]
      /\ \A i \in 1..Len(en.table) : i > Len(seed.table) => en.raw[i] = Missing
      /\ k \in 1..Len(en.table) /\ en.table[k] = d
  BY <1>1, EnterShape, SMTT(30)
<1>. HIDE DEF en, k
<1>3. /\ en \in Seed
      /\ en.table \in Seq(Digest) /\ en.raw \in Seq(Row) /\ en.ops \in Seq(Op)
      /\ Len(en.raw) = Len(en.table)
      /\ seed.table \in Seq(Digest) /\ seed.ops \in Seq(Op) /\ seed.raw \in Seq(Row)
      /\ Len(seed.raw) = Len(seed.table)
  BY <1>2 DEF SeedTypeOK, Seed
<1>4. e = [en EXCEPT !.ops = Append(@, op), !.raw[k] = IF code = "RAW" THEN chunk ELSE @]
  BY DEF Emit, en, k
<1>5. /\ e.ops = Append(en.ops, op)
      /\ e.raw = [en.raw EXCEPT ![k] = pay]
      /\ e.table = en.table /\ e.sha = en.sha /\ e.portable = en.portable
  BY <1>3, <1>4 DEF Seed
<1>6. op \in Op /\ pay \in Row
  BY <1>2, <1>3 DEF Op, Row
<1>7. e.ops \in Seq(Op)
  BY <1>3, <1>5, <1>6
<1>8. e.raw \in Seq(Row) /\ Len(e.raw) = Len(en.raw)
  BY <1>2, <1>3, <1>5, <1>6, ExceptSeq
<1>9. e \in Seed
  BY <1>3, <1>4, <1>5, <1>7, <1>8 DEF Seed
<1>10. /\ Len(e.ops) = Len(seed.ops) + 1
       /\ \A i \in 1..Len(seed.ops) : e.ops[i] = seed.ops[i]
       /\ e.ops[Len(e.ops)] = op
  BY <1>2, <1>3, <1>5, <1>6
<1>11. \A i \in 1..Len(e.ops) : e.ops[i].index \in 1..Len(e.table)
  <2>. SUFFICES ASSUME NEW i \in 1..Len(e.ops) PROVE e.ops[i].index \in 1..Len(e.table)
    OBVIOUS
  <2>1. CASE i = Len(e.ops)
    BY <2>1, <1>2, <1>5, <1>10
  <2>2. CASE i # Len(e.ops)
    <3>1. i \in 1..Len(seed.ops)
      BY <2>2, <1>3, <1>10
    <3>. QED
      BY <3>1, <1>2, <1>5, <1>10 DEF SeedTypeOK
  <2>. QED
    BY <2>1, <2>2
<1>12. SeedTypeOK(e)
  BY <1>3, <1>5, <1>8, <1>9, <1>11 DEF SeedTypeOK
<1>13. \A i \in 1..Len(e.table) : e.raw[i] = IF i = k THEN pay ELSE en.raw[i]
  BY <1>2, <1>3, <1>5
<1>14. \A i \in 1..Len(seed.table) :
          /\ e.table[i] = seed.table[i]
          /\ e.raw[i] = seed.raw[i] \/ e.raw[i] = chunk
  BY <1>2, <1>3, <1>5, <1>13
<1>15. /\ e.ops[Len(e.ops)].code = code
       /\ OpDigest(e, Len(e.ops)) = Sha[chunk]
       /\ code = "RAW" => e.raw[e.ops[Len(e.ops)].index] = chunk
  BY <1>2, <1>5, <1>10, <1>13 DEF OpDigest
<1>16. \A i \in 1..Len(e.table) :
          \/ i <= Len(seed.table) /\ e.raw[i] = seed.raw[i]
          \/ e.raw[i] = Missing
          \/ e.raw[i] = chunk /\ e.table[i] = Sha[chunk]
  <2>. SUFFICES ASSUME NEW i \in 1..Len(e.table)
               PROVE  \/ i <= Len(seed.table) /\ en.raw[i] = seed.raw[i]
                      \/ en.raw[i] = Missing
    BY <1>2, <1>5, <1>13
  <2>1. Len(seed.table) \in Nat /\ i \in 1..Len(en.table)
    BY <1>3, <1>5
  <2>. QED
    BY <2>1, <1>2
<1>. QED
  BY <1>2, <1>5, <1>10, <1>12, <1>14, <1>15, <1>16 DEF Emitted

-----------------------------------------------------------------------------
(* Type correctness.                                                        *)

LEMMA ContentShaType ==
    ASSUME NEW content \in Seq(Content)
    PROVE  /\ ContentSha(content) \in Seq(Digest)
           /\ Len(ContentSha(content)) = Len(content)
           /\ \A i \in 1..Len(content) : ContentSha(content)[i] = Sha[content[i]]
<1>1. Len(content) \in Nat /\ \A i \in 1..Len(content) : Sha[content[i]] \in Digest
  BY ShaAssumption
<1>. QED
  BY <1>1 DEF ContentSha

LEMMA ManifestType ==
    ASSUME NEW seed, SeedTypeOK(seed), NEW content \in Seq(Content)
    PROVE  /\ SeedTypeOK([seed EXCEPT !.size = Len(content)])
           /\ SeedTypeOK([seed EXCEPT !.sha = ContentSha(content)])
<1>1. /\ seed \in Seed
      /\ Len(content) \in Nat /\ ContentSha(content) \in Seq(Digest)
  BY ContentShaType DEF SeedTypeOK
<1>2. /\ [seed EXCEPT !.size = Len(content)] \in Seed
      /\ [seed EXCEPT !.sha = ContentSha(content)] \in Seed
  BY <1>1 DEF Seed
<1>3. \A t : /\ t \in Seed
             /\ t.table = seed.table /\ t.raw = seed.raw /\ t.ops = seed.ops
             => SeedTypeOK(t)
  BY DEF SeedTypeOK
<1>4. ASSUME NEW t, t = [seed EXCEPT !.size = Len(content)]
      PROVE  t.table = seed.table /\ t.raw = seed.raw /\ t.ops = seed.ops
  BY <1>1, <1>4 DEF Seed
<1>5. ASSUME NEW t, t = [seed EXCEPT !.sha = ContentSha(content)]
      PROVE  t.table = seed.table /\ t.raw = seed.raw /\ t.ops = seed.ops
  BY <1>1, <1>5 DEF Seed
<1>. QED
  BY <1>2, <1>3, <1>4, <1>5

LEMMA InputChunk ==
    ASSUME CodecTypeOK, NEW p \in Proc
    PROVE  /\ file[job[p].file] \in Seq(Content)
           /\ MoreInput(p) => NextChunk(p) \in Content
<1>1. job[p].file \in Files
  BY DEF CodecTypeOK, Job
<1>2. file[job[p].file] \in Seq(Content)
  BY <1>1, CodecAssumption DEF CodecTypeOK
<1>. QED
  BY <1>2 DEF CodecTypeOK, MoreInput, NextChunk

\* An op that resolves to an intact chunk resolves to a payload.
LEMMA ResolveType ==
    ASSUME CodecTypeOK, NEW p \in Proc, MoreOps(p)
    PROVE  /\ Resolve(draft[p], pos[p] + 1) \in Row
           /\ OpDigest(draft[p], pos[p] + 1) \in Digest
           /\ Intact(draft[p], pos[p] + 1) => Resolve(draft[p], pos[p] + 1) \in Content
<1>. DEFINE seed == draft[p]
            i == pos[p] + 1
            k == seed.ops[i].index
<1>1. SeedTypeOK(seed) /\ pos[p] \in Nat
  BY DEF CodecTypeOK
<1>2. /\ seed.table \in Seq(Digest) /\ seed.raw \in Seq(Row) /\ seed.ops \in Seq(Op)
      /\ Len(seed.raw) = Len(seed.table)
  BY <1>1 DEF SeedTypeOK, Seed
<1>3. i \in 1..Len(seed.ops)
  BY <1>1, <1>2 DEF MoreOps
<1>4. k \in 1..Len(seed.table)
  BY <1>1, <1>3 DEF SeedTypeOK
<1>5. seed.table[k] \in Digest /\ seed.raw[k] \in Row
  BY <1>2, <1>4
<1>6. GetChunk(seed.table[k]) \in Row
  BY <1>5 DEF GetChunk, CodecTypeOK
<1>. QED
  BY <1>5, <1>6 DEF Resolve, FirstFound, OpDigest, Intact, Row

LEMMA ArgsType ==
    ASSUME NEW cmd \in {"encode", "prime", "decode", "verify"}, NEW f \in Files,
           NEW s \in Seeds, NEW l \in BOOLEAN, NEW v \in BOOLEAN, NEW t \in BOOLEAN
    PROVE  Args(cmd, f, s, l, v, t) \in Job
BY DEF Args, Job

LEMMA AnyPath == AnyFile \in Files /\ AnySeed \in Seeds
BY CodecAssumption DEF AnyFile, AnySeed

LEMMA BlankSeedType ==
    ASSUME NEW b \in BOOLEAN
    PROVE  SeedTypeOK(BlankSeed(b))
BY DEF SeedTypeOK, BlankSeed, Seed

LEMMA BeginType ==
    ASSUME CodecTypeOK, NEW p \in Proc, NEW phase \in Phase \ {"learn"}, NEW j \in Job,
           NEW seed, SeedTypeOK(seed), Begin(p, phase, j, seed),
           UNCHANGED <<genomeVars, diskVars>>
    PROVE  CodecTypeOK'
<1>1. /\ pc' \in [Proc -> Phase]
      /\ job' \in [Proc -> Job]
      /\ pos' \in [Proc -> Nat]
      /\ missing' \in [Proc -> SUBSET Digest]
      /\ res' \in [Proc -> Result]
  BY DEF CodecTypeOK, Begin, Result
<1>2. out' \in [Proc -> Seq(Content)]
  BY DEF CodecTypeOK, Begin
<1>3. DOMAIN draft' = Proc /\ \A q \in Proc : SeedTypeOK(draft'[q])
  BY DEF CodecTypeOK, Begin
<1>4. /\ {started', edits', damages', crashes'} \subseteq Nat
      /\ exposed' \subseteq Proc \union Seeds /\ versions' \subseteq Sources
      /\ spoilt' \subseteq Seeds
  BY DEF CodecTypeOK, Begin
<1>5. \A q \in Proc : pc'[q] = "learn" => held'[q] \in Content
  BY DEF CodecTypeOK, Begin
<1>. QED
  BY <1>1, <1>2, <1>3, <1>4, <1>5 DEF CodecTypeOK, Begin, genomeVars, diskVars, IsSeed, Unreadable

LEMMA EndType ==
    ASSUME CodecTypeOK, NEW p \in Proc, NEW r \in Result, End(p, r),
           UNCHANGED <<genomeVars, file, versions>>,
           DOMAIN seeds' = Seeds, \A s \in Seeds : IsSeed(s)' => SeedTypeOK(seeds'[s]),
           {started', edits', damages', crashes'} \subseteq Nat,
           exposed' \subseteq Proc \union Seeds, spoilt' \subseteq Seeds
    PROVE  CodecTypeOK'
<1>1. pc' \in [Proc -> Phase] /\ res' \in [Proc -> Result]
  BY DEF CodecTypeOK, End, Phase
<1>2. \A q \in Proc : pc'[q] = "learn" => held'[q] \in Content
  BY DEF CodecTypeOK, End
<1>. QED
  BY <1>1, <1>2 DEF CodecTypeOK, End, genomeVars

\* ... and nothing else happens.
LEMMA EndOnlyType ==
    ASSUME CodecTypeOK, NEW p \in Proc, NEW r \in Result, End(p, r),
           UNCHANGED <<genomeVars, diskVars, boundVars, histVars>>
    PROVE  CodecTypeOK'
<1>1. UNCHANGED <<seeds, file, versions, exposed, spoilt, started, edits, damages, crashes>>
  BY DEF diskVars, boundVars, histVars
<1>2. DOMAIN seeds' = Seeds /\ \A s \in Seeds : IsSeed(s)' => SeedTypeOK(seeds'[s])
  BY <1>1 DEF CodecTypeOK, IsSeed, Unreadable
<1>. QED
  BY <1>1, <1>2, EndType DEF CodecTypeOK

\* A step within a command leaves the arguments and the result alone.
LEMMA LocalType ==
    ASSUME CodecTypeOK, NEW p \in Proc, NEW phase \in Phase \ {"learn"},
           pc' = [pc EXCEPT ![p] = phase],
           DOMAIN draft' = Proc, \A q \in Proc : SeedTypeOK(draft'[q]),
           pos' \in [Proc -> Nat],
           genome' \in [Digest -> Row],
           missing' \in [Proc -> SUBSET Digest],
           out' \in [Proc -> Seq(Content)],
           UNCHANGED <<job, held, res, file, boundVars, histVars>>,
           DOMAIN seeds' = Seeds, \A s \in Seeds : IsSeed(s)' => SeedTypeOK(seeds'[s])
    PROVE  CodecTypeOK'
<1>1. pc' \in [Proc -> Phase]
  BY DEF CodecTypeOK
<1>2. \A q \in Proc : pc'[q] = "learn" => held'[q] \in Content
  BY DEF CodecTypeOK
<1>. QED
  BY <1>1, <1>2 DEF CodecTypeOK, boundVars, histVars

\* What the seeds are is untouched by a step that leaves them alone.
LEMMA SeedsUnchanged ==
    ASSUME CodecTypeOK, UNCHANGED seeds
    PROVE  DOMAIN seeds' = Seeds /\ \A s \in Seeds : IsSeed(s)' => SeedTypeOK(seeds'[s])
BY DEF CodecTypeOK, IsSeed, Unreadable

LEMMA DraftStep ==
    ASSUME CodecTypeOK, NEW p \in Proc, NEW seed, SeedTypeOK(seed),
           draft' = [draft EXCEPT ![p] = seed]
    PROVE  DOMAIN draft' = Proc /\ \A q \in Proc : SeedTypeOK(draft'[q])
BY DEF CodecTypeOK

LEMMA RecordedType ==
    ASSUME CodecTypeOK, NEW p \in Proc, NEW chunk \in Content,
           NEW code \in {"REF", "RAW"}, Recorded(p, chunk, code), Goto(p, "index"),
           genome' \in [Digest -> Row],
           UNCHANGED <<diskVars, boundVars, histVars>>
    PROVE  CodecTypeOK'
<1>. DEFINE seed == Emit(draft[p], chunk, code)
<1>1. SeedTypeOK(seed)
  BY EmitShape DEF CodecTypeOK
<1>2. draft' = [draft EXCEPT ![p] = seed]
  BY DEF Recorded
<1>3. pos' \in [Proc -> Nat]
  BY DEF CodecTypeOK, Recorded
<1>. HIDE DEF seed
<1>4. DOMAIN draft' = Proc /\ \A q \in Proc : SeedTypeOK(draft'[q])
  BY <1>1, <1>2, DraftStep
<1>5. UNCHANGED <<job, held, missing, out, res, file, seeds>> /\ pc' = [pc EXCEPT ![p] = "index"]
  BY DEF Goto, diskVars
<1>6. missing' \in [Proc -> SUBSET Digest] /\ out' \in [Proc -> Seq(Content)]
  BY <1>5 DEF CodecTypeOK
<1>. QED
  BY <1>3, <1>4, <1>5, <1>6, LocalType, SeedsUnchanged DEF Phase

LEMMA PutChunkType ==
    ASSUME CodecTypeOK, NEW p \in Proc, NEW d \in Digest, NEW chunk \in Content,
           PutChunk(p, d, chunk)
    PROVE  genome' \in [Digest -> Row]
BY DEF CodecTypeOK, PutChunk, Row

\* p is cut off, whether it is killed or its write fails.
Stops(p) == Kill(p) \/ SeedWriteFails(p)

LEMMA StopShape ==
    ASSUME CodecTypeOK, NEW p \in Proc, Stops(p)
    PROVE  /\ \E r \in {"killed", "failed"} : End(p, r)
           /\ CutWrite(p)
           /\ UNCHANGED <<genomeVars, file, started, edits, damages, versions, exposed>>
           /\ crashes' \in Nat
           /\ DOMAIN seeds' = Seeds /\ spoilt' \subseteq Seeds
<1>1. CutWrite(p) /\ crashes' = crashes + 1
  BY DEF Stops, Kill, SeedWriteFails
<1>2. job[p].seed \in Seeds /\ crashes \in Nat
  BY DEF CodecTypeOK, Job
<1>3. DOMAIN seeds' = Seeds /\ spoilt' \subseteq Seeds
  BY <1>1, <1>2 DEF CutWrite, CodecTypeOK
<1>. QED
  BY <1>1, <1>2, <1>3 DEF Stops, Kill, SeedWriteFails

\* A write that is cut leaves no seed that was not there.
LEMMA StopSeeds ==
    ASSUME CodecTypeOK, NEW p \in Proc, CutWrite(p), NEW s \in Seeds, IsSeed(s)'
    PROVE  IsSeed(s) /\ seeds'[s] = seeds[s]
<1>1. seeds'[s] \in {seeds[s], Torn}
  BY DEF CutWrite, CodecTypeOK
<1>. QED
  BY <1>1 DEF IsSeed, Unreadable

LEMMA CodecTypeInit == CodecInit => CodecTypeOK
<1>. SUFFICES ASSUME CodecInit PROVE CodecTypeOK
  OBVIOUS
<1>1. Args("prime", AnyFile, AnySeed, FALSE, FALSE, FALSE) \in Job
  BY ArgsType, AnyPath
<1>2. SeedTypeOK(BlankSeed(FALSE))
  BY BlankSeedType
<1>3. /\ genome \in [Digest -> Row] /\ held \in [Proc -> Row]
      /\ missing \in [Proc -> SUBSET Digest] /\ out \in [Proc -> Seq(Content)]
  BY DEF CodecInit, GenomeInit, EmptyGenome, Row
<1>4. /\ pc \in [Proc -> Phase] /\ res \in [Proc -> Result] /\ pos \in [Proc -> Nat]
      /\ \A p \in Proc : pc[p] # "learn"
  BY DEF CodecInit, Phase, Result
<1>5. /\ DOMAIN seeds = Seeds /\ \A s \in Seeds : ~IsSeed(s)
      /\ file \in [Files -> Sources] /\ versions \subseteq Sources
      /\ exposed = {} /\ spoilt = {} /\ {started, edits, damages, crashes} \subseteq Nat
  BY DEF CodecInit, IsSeed, Unreadable
<1>. QED
  BY <1>1, <1>2, <1>3, <1>4, <1>5 DEF CodecInit, CodecTypeOK

LEMMA CodecTypeStep == CodecTypeOK /\ [CodecNext]_codecVars => CodecTypeOK'
<1>. SUFFICES ASSUME CodecTypeOK, [CodecNext]_codecVars PROVE CodecTypeOK'
  OBVIOUS
<1>. USE CodecAssumption
<1>1. ASSUME NEW p \in Proc, EncodeStart(p) PROVE CodecTypeOK'
  <2>1. PICK f \in Files, s \in Seeds, learn \in BOOLEAN, portable \in BOOLEAN,
             private \in BOOLEAN :
          /\ Begin(p, "index", Args("encode", f, s, learn, private, FALSE), BlankSeed(portable))
          /\ UNCHANGED <<genomeVars, diskVars>>
    BY <1>1 DEF EncodeStart
  <2>2. Args("encode", f, s, learn, private, FALSE) \in Job /\ SeedTypeOK(BlankSeed(portable))
    BY ArgsType, BlankSeedType
  <2>. QED
    BY <2>1, <2>2, BeginType DEF Phase
<1>2. ASSUME NEW p \in Proc, PrimeStart(p) PROVE CodecTypeOK'
  <2>1. PICK f \in Files :
          /\ Begin(p, "prime", Args("prime", f, AnySeed, FALSE, FALSE, FALSE), BlankSeed(FALSE))
          /\ UNCHANGED <<genomeVars, diskVars>>
    BY <1>2 DEF PrimeStart
  <2>2. Args("prime", f, AnySeed, FALSE, FALSE, FALSE) \in Job /\ SeedTypeOK(BlankSeed(FALSE))
    BY ArgsType, BlankSeedType, AnyPath
  <2>. QED
    BY <2>1, <2>2, BeginType DEF Phase
<1>3. ASSUME NEW p \in Proc, ReadStart(p) PROVE CodecTypeOK'
  <2>1. PICK s \in Seeds, cmd \in {"decode", "verify"}, strict \in BOOLEAN :
          /\ IsSeed(s)
          /\ Begin(p, IF cmd = "decode" THEN "decode" ELSE "avail",
                   Args(cmd, AnyFile, s, FALSE, FALSE, strict), seeds[s])
          /\ UNCHANGED <<genomeVars, diskVars>>
    BY <1>3 DEF ReadStart
  <2>2. Args(cmd, AnyFile, s, FALSE, FALSE, strict) \in Job /\ SeedTypeOK(seeds[s])
    BY <2>1, ArgsType, AnyPath DEF CodecTypeOK
  <2>. QED
    BY <2>1, <2>2, BeginType DEF Phase
<1>4. ASSUME NEW p \in Proc, ReadTorn(p) PROVE CodecTypeOK'
  <2>1. /\ End(p, "badseed")
        /\ UNCHANGED <<genomeVars, file, seeds, versions, exposed, spoilt>>
    BY <1>4 DEF ReadTorn, diskVars, histVars
  <2>2. {started', edits', damages', crashes'} \subseteq Nat
    BY <1>4 DEF ReadTorn, CodecTypeOK
  <2>3. DOMAIN seeds' = Seeds /\ \A s \in Seeds : IsSeed(s)' => SeedTypeOK(seeds'[s])
    BY <2>1 DEF CodecTypeOK, IsSeed, Unreadable
  <2>. QED
    BY <2>1, <2>2, <2>3, EndType DEF CodecTypeOK, Result
<1>5. ASSUME NEW p \in Proc, IndexKnown(p) PROVE CodecTypeOK'
  <2>1. NextChunk(p) \in Content
    BY <1>5, InputChunk DEF IndexKnown
  <2>2. /\ Recorded(p, NextChunk(p), "REF") /\ Goto(p, "index")
        /\ genome' = genome /\ UNCHANGED <<diskVars, boundVars, histVars>>
    BY <1>5 DEF IndexKnown, genomeVars
  <2>. QED
    BY <2>1, <2>2, RecordedType DEF CodecTypeOK
<1>6. ASSUME NEW p \in Proc, IndexLearn(p) PROVE CodecTypeOK'
  <2>1. NextChunk(p) \in Content
    BY <1>6, InputChunk DEF IndexLearn
  <2>2. /\ pc' \in [Proc -> Phase] /\ held' \in [Proc -> Row]
        /\ \A q \in Proc : pc'[q] = "learn" => held'[q] \in Content
    BY <1>6, <2>1 DEF IndexLearn, CodecTypeOK, Phase, Row
  <2>. QED
    BY <1>6, <2>2 DEF IndexLearn, CodecTypeOK, genomeVars, diskVars, boundVars, histVars, IsSeed, Unreadable
<1>7. ASSUME NEW p \in Proc, IndexEmbed(p) PROVE CodecTypeOK'
  <2>1. NextChunk(p) \in Content
    BY <1>7, InputChunk DEF IndexEmbed
  <2>2. /\ Recorded(p, NextChunk(p), "RAW") /\ Goto(p, "index")
        /\ genome' = genome /\ UNCHANGED <<diskVars, boundVars, histVars>>
    BY <1>7 DEF IndexEmbed, genomeVars
  <2>. QED
    BY <2>1, <2>2, RecordedType DEF CodecTypeOK
<1>8. ASSUME NEW p \in Proc, IndexRefuse(p) PROVE CodecTypeOK'
  BY <1>8, EndOnlyType DEF IndexRefuse, Result
<1>9. ASSUME NEW p \in Proc, LearnPut(p) PROVE CodecTypeOK'
  <2>1. held[p] \in Content /\ Sha[held[p]] \in Digest
    BY <1>9, ShaAssumption DEF LearnPut, CodecTypeOK
  <2>2. genome' \in [Digest -> Row]
    BY <1>9, <2>1, PutChunkType DEF LearnPut
  <2>. QED
    BY <1>9, <2>1, <2>2, RecordedType DEF LearnPut
<1>10. ASSUME NEW p \in Proc, IndexDone(p) PROVE CodecTypeOK'
  <2>1. \E phase \in Phase \ {"learn"} : pc' = [pc EXCEPT ![p] = phase]
    BY <1>10 DEF IndexDone, Goto, Phase
  <2>2. UNCHANGED <<genome, draft, pos, job, held, missing, out, res, file, seeds, boundVars, histVars>>
    BY <1>10 DEF IndexDone, Goto, genomeVars, diskVars
  <2>. QED
    BY <2>1, <2>2, LocalType, SeedsUnchanged DEF CodecTypeOK
<1>11. ASSUME NEW p \in Proc, ManifestStat(p) PROVE CodecTypeOK'
  <2>. DEFINE seed == [draft[p] EXCEPT !.size = Len(file[job[p].file])]
  <2>1. SeedTypeOK(seed)
    BY InputChunk, ManifestType DEF CodecTypeOK
  <2>2. draft' = [draft EXCEPT ![p] = seed]
    BY <1>11 DEF ManifestStat
  <2>. HIDE DEF seed
  <2>3. DOMAIN draft' = Proc /\ \A q \in Proc : SeedTypeOK(draft'[q])
    BY <2>1, <2>2, DraftStep
  <2>4. /\ pc' = [pc EXCEPT ![p] = "hash"]
        /\ UNCHANGED <<genome, pos, job, held, missing, out, res, file, seeds, boundVars, histVars>>
    BY <1>11 DEF ManifestStat, Goto, genomeVars, diskVars
  <2>. QED
    BY <2>3, <2>4, LocalType, SeedsUnchanged DEF CodecTypeOK, Phase
<1>12. ASSUME NEW p \in Proc, ManifestHash(p) PROVE CodecTypeOK'
  <2>. DEFINE seed == [draft[p] EXCEPT !.sha = ContentSha(file[job[p].file])]
  <2>1. SeedTypeOK(seed)
    BY InputChunk, ManifestType DEF CodecTypeOK
  <2>2. draft' = [draft EXCEPT ![p] = seed]
    BY <1>12 DEF ManifestHash
  <2>. HIDE DEF seed
  <2>3. DOMAIN draft' = Proc /\ \A q \in Proc : SeedTypeOK(draft'[q])
    BY <2>1, <2>2, DraftStep
  <2>4. /\ pc' = [pc EXCEPT ![p] = "open"]
        /\ UNCHANGED <<genome, pos, job, held, missing, out, res, file, seeds, boundVars, histVars>>
    BY <1>12 DEF ManifestHash, Goto, genomeVars, diskVars
  <2>. QED
    BY <2>3, <2>4, LocalType, SeedsUnchanged DEF CodecTypeOK, Phase
<1>13. ASSUME NEW p \in Proc, SeedOpen(p) PROVE CodecTypeOK'
  <2>1. DOMAIN seeds' = Seeds /\ \A s \in Seeds : IsSeed(s)' => SeedTypeOK(seeds'[s])
    BY <1>13 DEF SeedOpen, CodecTypeOK, IsSeed, Unreadable
  <2>2. /\ pc' = [pc EXCEPT ![p] = "flush"]
        /\ UNCHANGED <<genome, draft, pos, job, held, missing, out, res, file, boundVars, histVars>>
    BY <1>13 DEF SeedOpen, Goto, genomeVars
  <2>. QED
    BY <2>1, <2>2, LocalType DEF CodecTypeOK, Phase
<1>14. ASSUME NEW p \in Proc, SeedFlush(p) PROVE CodecTypeOK'
  <2>1. DOMAIN seeds' = Seeds /\ \A s \in Seeds : IsSeed(s)' => SeedTypeOK(seeds'[s])
    BY <1>14 DEF SeedFlush, CodecTypeOK, IsSeed, Unreadable
  <2>2. exposed' \subseteq Proc \union Seeds /\ spoilt' \subseteq Seeds
    BY <1>14 DEF SeedFlush, CodecTypeOK, Job
  <2>. QED
    BY <1>14, <2>1, <2>2, EndType DEF SeedFlush, CodecTypeOK, Result, boundVars
<1>15. ASSUME NEW p \in Proc, PrimePut(p) PROVE CodecTypeOK'
  <2>1. NextChunk(p) \in Content /\ Sha[NextChunk(p)] \in Digest
    BY <1>15, InputChunk, ShaAssumption DEF PrimePut
  <2>2. genome' \in [Digest -> Row]
    BY <1>15, <2>1, PutChunkType DEF PrimePut
  <2>3. pos' \in [Proc -> Nat]
    <3>1. pos' = [pos EXCEPT ![p] = @ + 1] /\ pos \in [Proc -> Nat]
      BY <1>15 DEF PrimePut, CodecTypeOK
    <3>. QED
      BY <3>1
  <2>4. /\ pc' = [pc EXCEPT ![p] = "prime"]
        /\ UNCHANGED <<draft, job, held, missing, out, res, file, seeds, boundVars, histVars>>
    BY <1>15 DEF PrimePut, Goto, diskVars
  <2>. QED
    BY <2>2, <2>3, <2>4, LocalType, SeedsUnchanged DEF CodecTypeOK, Phase
<1>16. ASSUME NEW p \in Proc, PrimeDone(p) PROVE CodecTypeOK'
  BY <1>16, EndOnlyType DEF PrimeDone, Result
<1>17. ASSUME NEW p \in Proc, WriteTimeout(p) PROVE CodecTypeOK'
  BY <1>17, EndOnlyType DEF WriteTimeout, Result
<1>18. ASSUME NEW p \in Proc, ResolveOk(p) PROVE CodecTypeOK'
  <2>1. Resolve(draft[p], pos[p] + 1) \in Content
    BY <1>18, ResolveType DEF ResolveOk
  <2>2. out' \in [Proc -> Seq(Content)] /\ pos' \in [Proc -> Nat]
    <3>1. /\ pos' = [pos EXCEPT ![p] = @ + 1] /\ pos \in [Proc -> Nat]
          /\ out' = [out EXCEPT ![p] = Append(@, Resolve(draft[p], pos[p] + 1))]
          /\ out \in [Proc -> Seq(Content)]
      BY <1>18 DEF ResolveOk, CodecTypeOK
    <3>. QED
      BY <2>1, <3>1
  <2>. QED
    BY <1>18, <2>2 DEF ResolveOk, CodecTypeOK, genomeVars, diskVars, boundVars, histVars, IsSeed, Unreadable
<1>19. ASSUME NEW p \in Proc, ResolveFail(p) PROVE CodecTypeOK'
  BY <1>19, EndOnlyType DEF ResolveFail, Result
<1>20. ASSUME NEW p \in Proc, Finish(p) PROVE CodecTypeOK'
  BY <1>20, EndOnlyType DEF Finish, Result
<1>21. ASSUME NEW p \in Proc, CheckAvailable(p) PROVE CodecTypeOK'
  <2>1. draft[p].table[draft[p].ops[pos[p] + 1].index] \in Digest
    BY <1>21, ResolveType DEF CheckAvailable, OpDigest
  <2>2. missing' \in [Proc -> SUBSET Digest]
    BY <1>21, <2>1 DEF CheckAvailable, CodecTypeOK
  <2>3. pos' \in [Proc -> Nat]
    <3>1. pos' = [pos EXCEPT ![p] = @ + 1] /\ pos \in [Proc -> Nat]
      BY <1>21 DEF CheckAvailable, CodecTypeOK
    <3>. QED
      BY <3>1
  <2>. QED
    BY <1>21, <2>2, <2>3
       DEF CheckAvailable, CodecTypeOK, genomeVars, diskVars, boundVars, histVars, IsSeed, Unreadable
<1>22. ASSUME NEW p \in Proc, QuickDone(p) PROVE CodecTypeOK'
  BY <1>22, EndOnlyType DEF QuickDone, Result
<1>23. ASSUME NEW p \in Proc, StrictStart(p) PROVE CodecTypeOK'
  <2>1. pos' \in [Proc -> Nat]
    <3>1. pos' = [pos EXCEPT ![p] = 0] /\ pos \in [Proc -> Nat]
      BY <1>23 DEF StrictStart, CodecTypeOK
    <3>. QED
      BY <3>1
  <2>2. /\ pc' = [pc EXCEPT ![p] = "strict"]
        /\ UNCHANGED <<genome, draft, job, held, missing, out, res, file, seeds, boundVars, histVars>>
    BY <1>23 DEF StrictStart, Goto, genomeVars, diskVars
  <2>. QED
    BY <2>1, <2>2, LocalType, SeedsUnchanged DEF CodecTypeOK, Phase
<1>24. ASSUME NEW p \in Proc, Stops(p) PROVE CodecTypeOK'
  <2>1. PICK r \in {"killed", "failed"} : End(p, r)
    BY <1>24, StopShape
  <2>2. {started', edits', damages', crashes'} \subseteq Nat /\ spoilt' \subseteq Seeds
    BY <1>24, StopShape DEF CodecTypeOK
  <2>3. DOMAIN seeds' = Seeds /\ \A s \in Seeds : IsSeed(s)' => SeedTypeOK(seeds'[s])
    BY <1>24, StopShape, StopSeeds DEF CodecTypeOK
  <2>. QED
    BY <1>24, <2>1, <2>2, <2>3, StopShape, EndType DEF CodecTypeOK, Result
<1>25. ASSUME NEW f \in Files, EditSource(f) PROVE CodecTypeOK'
  <2>1. PICK content \in Sources :
          /\ file' = [file EXCEPT ![f] = content]
          /\ versions' = versions \union {content}
    BY <1>25 DEF EditSource
  <2>2. /\ file' \in [Files -> Sources] /\ versions' \subseteq Sources
        /\ {started', edits', damages', crashes'} \subseteq Nat
    BY <1>25, <2>1 DEF EditSource, CodecTypeOK
  <2>. QED
    BY <1>25, <2>2 DEF EditSource, CodecTypeOK, procVars, genomeVars, IsSeed, Unreadable
<1>26. ASSUME Clear \/ Rot PROVE CodecTypeOK'
  <2>1. genome' \in [Digest -> Row]
    <3>1. CASE genome' = EmptyGenome
      BY <3>1 DEF EmptyGenome, Row
    <3>2. CASE \E d \in Digest : RotRow(d)
      BY <3>2 DEF RotRow, CodecTypeOK, Row
    <3>. QED
      BY <1>26, <3>1, <3>2 DEF Clear, Rot
  <2>2. Damaged
    BY <1>26 DEF Clear, Rot
  <2>3. /\ exposed' \subseteq Proc \union Seeds
        /\ {started', edits', damages', crashes'} \subseteq Nat
    BY <2>2 DEF Damaged, CodecTypeOK
  <2>. QED
    BY <2>1, <2>2, <2>3 DEF Damaged, CodecTypeOK, diskVars, procVars, IsSeed, Unreadable
<1>27. ASSUME NEW r \in Readers, ReaderOpens(r) \/ ReaderCloses(r) PROVE CodecTypeOK'
  BY <1>27 DEF ReaderOpens, ReaderCloses, diskVars, procVars, boundVars, histVars, CodecTypeOK, IsSeed, Unreadable
<1>28. CASE UNCHANGED codecVars
  BY <1>28 DEF codecVars, genomeVars, diskVars, procVars, boundVars, histVars, CodecTypeOK, IsSeed, Unreadable
<1>. QED
  BY <1>1, <1>2, <1>3, <1>4, <1>5, <1>6, <1>7, <1>8, <1>9, <1>10, <1>11, <1>12, <1>13,
     <1>14, <1>15, <1>16, <1>17, <1>18, <1>19, <1>20, <1>21, <1>22, <1>23, <1>24, <1>25,
     <1>26, <1>27, <1>28 DEF CodecNext, CommandStart, CommandStep, Stops

\* Every value the processes, the seeds and the genome take has its type, for
\* every interleaving of commands, edits, kills and damages of the genome.
THEOREM CodecTypeCorrect == CodecSpec => []CodecTypeOK
BY CodecTypeInit, CodecTypeStep, PTL DEF CodecSpec

-----------------------------------------------------------------------------
(* Seeds stay covered.                                                      *)
(*                                                                          *)
(* SeedsCovered speaks of finished seeds only, and of what they resolve to. *)
(* Inductive is what the encoder secures op by op: a RAW op has its payload *)
(* in the seed, a REF op a row in the genome, and payloads are genuine.     *)

RawGenuine(seed) ==
    \A i \in 1..Len(seed.table) : seed.raw[i] # Missing => Sha[seed.raw[i]] = seed.table[i]

BackedBy(g, seed) ==
    \A i \in 1..Len(seed.ops) :
        /\ seed.ops[i].code = "RAW" => seed.raw[seed.ops[i].index] # Missing
        /\ seed.ops[i].code = "REF" => g[OpDigest(seed, i)] # Missing

Encoding == {"index", "learn", "stat", "hash", "open", "flush"}

CoverInv ==
    /\ \A p \in Proc : RawGenuine(draft[p])
    /\ \A s \in Seeds : IsSeed(s) => RawGenuine(seeds[s])
    /\ \A p \in Proc : pc[p] \in Encoding /\ p \notin exposed => BackedBy(genome, draft[p])
    /\ \A s \in Seeds : IsSeed(s) /\ s \notin exposed => BackedBy(genome, seeds[s])

LEMMA EmitCovered ==
    ASSUME NEW seed, SeedTypeOK(seed), NEW chunk \in Content,
           NEW code \in {"REF", "RAW"}, NEW g,
           code = "REF" => g[Sha[chunk]] # Missing
    PROVE  /\ RawGenuine(seed) => RawGenuine(Emit(seed, chunk, code))
           /\ BackedBy(g, seed) => BackedBy(g, Emit(seed, chunk, code))
<1>. DEFINE e == Emit(seed, chunk, code)
<1>1. SeedTypeOK(e) /\ Emitted(seed, chunk, code, e)
  BY EmitShape
<1>. HIDE DEF e
<1>2. Len(seed.ops) \in Nat /\ Len(seed.table) \in Nat
  BY DEF SeedTypeOK, Seed
<1>3. ASSUME RawGenuine(seed) PROVE RawGenuine(e)
  <2>. SUFFICES ASSUME NEW i \in 1..Len(e.table), e.raw[i] # Missing
               PROVE  Sha[e.raw[i]] = e.table[i]
    BY DEF RawGenuine
  <2>1. CASE i <= Len(seed.table) /\ e.raw[i] = seed.raw[i]
    <3>1. i \in 1..Len(seed.table)
      BY <2>1, <1>2
    <3>. QED
      BY <3>1, <2>1, <1>1, <1>3 DEF RawGenuine, Emitted
  <2>2. CASE e.raw[i] = chunk /\ e.table[i] = Sha[chunk]
    BY <2>2
  <2>. QED
    BY <2>1, <2>2, <1>1 DEF Emitted
<1>4. ASSUME BackedBy(g, seed) PROVE BackedBy(g, e)
  <2>. SUFFICES ASSUME NEW i \in 1..Len(e.ops)
               PROVE  /\ e.ops[i].code = "RAW" => e.raw[e.ops[i].index] # Missing
                      /\ e.ops[i].code = "REF" => g[OpDigest(e, i)] # Missing
    BY DEF BackedBy
  <2>1. CASE i = Len(e.ops)
    BY <2>1, <1>1, ShaAssumption DEF Emitted
  <2>2. CASE i # Len(e.ops)
    <3>1. i \in 1..Len(seed.ops) /\ e.ops[i] = seed.ops[i]
      BY <2>2, <1>1, <1>2 DEF Emitted
    <3>2. seed.ops[i].index \in 1..Len(seed.table)
      BY <3>1 DEF SeedTypeOK
    <3>3. /\ OpDigest(e, i) = OpDigest(seed, i)
          /\ \/ e.raw[e.ops[i].index] = seed.raw[seed.ops[i].index]
             \/ e.raw[e.ops[i].index] = chunk
      BY <3>1, <3>2, <1>1 DEF OpDigest, Emitted
    <3>. QED
      BY <3>1, <3>3, <1>4, ShaAssumption DEF BackedBy
  <2>. QED
    BY <2>1, <2>2
<1>. QED
  BY <1>3, <1>4 DEF e

\* A put never takes a row away.
LEMMA PutGrows ==
    ASSUME CodecTypeOK, NEW p, NEW d \in Digest, NEW chunk \in Content, PutChunk(p, d, chunk)
    PROVE  /\ \A x \in Digest : genome[x] # Missing => genome'[x] # Missing
           /\ genome'[d] # Missing
BY ShaAssumption DEF CodecTypeOK, PutChunk

LEMMA BackedGrows ==
    ASSUME NEW seed, SeedTypeOK(seed), NEW g, NEW h, BackedBy(g, seed),
           \A x \in Digest : g[x] # Missing => h[x] # Missing
    PROVE  BackedBy(h, seed)
<1>1. \A i \in 1..Len(seed.ops) : OpDigest(seed, i) \in Digest
  BY DEF SeedTypeOK, Seed, OpDigest
<1>. QED
  BY <1>1 DEF BackedBy

LEMMA BlankCovered ==
    ASSUME NEW b \in BOOLEAN, NEW g
    PROVE  RawGenuine(BlankSeed(b)) /\ BackedBy(g, BlankSeed(b))
BY DEF BlankSeed, RawGenuine, BackedBy

\* Steps that leave seeds and genome alone and begin no encode.
LEMMA CoverQuiet ==
    ASSUME CodecTypeOK, CoverInv,
           UNCHANGED <<draft, exposed>>,
           \A s \in Seeds : IsSeed(s)' => IsSeed(s) /\ seeds'[s] = seeds[s],
           \A x \in Digest : genome[x] # Missing => genome'[x] # Missing,
           \A p \in Proc : pc'[p] \in Encoding => pc[p] \in Encoding
    PROVE  CoverInv'
<1>1. \A p \in Proc : pc'[p] \in Encoding /\ p \notin exposed' => BackedBy(genome', draft'[p])
  BY BackedGrows DEF CoverInv, CodecTypeOK
<1>2. \A s \in Seeds : IsSeed(s)' /\ s \notin exposed' => BackedBy(genome', seeds'[s])
  BY BackedGrows DEF CoverInv, CodecTypeOK
<1>. QED
  BY <1>1, <1>2 DEF CoverInv

\* Steps of p that only write its draft.
LEMMA CoverDraft ==
    ASSUME CodecTypeOK, CoverInv, NEW p \in Proc, NEW seed,
           draft' = [draft EXCEPT ![p] = seed],
           \A q \in Proc : q # p => pc'[q] = pc[q],
           UNCHANGED seeds,
           exposed' = exposed \/ exposed' = exposed \ {p},
           \A x \in Digest : genome[x] # Missing => genome'[x] # Missing,
           RawGenuine(seed),
           pc'[p] \in Encoding /\ p \notin exposed' => BackedBy(genome', seed)
    PROVE  CoverInv'
<1>0. \A q \in Proc : draft'[q] = IF q = p THEN seed ELSE draft[q]
  BY DEF CodecTypeOK
<1>1. ASSUME NEW q \in Proc, pc'[q] \in Encoding, q \notin exposed'
      PROVE  BackedBy(genome', draft'[q])
  <2>1. CASE q = p
    BY <1>0, <1>1, <2>1
  <2>2. CASE q # p
    <3>1. pc[q] \in Encoding /\ q \notin exposed
      BY <1>1, <2>2
    <3>2. SeedTypeOK(draft[q]) /\ BackedBy(genome, draft[q])
      BY <3>1 DEF CodecTypeOK, CoverInv
    <3>. QED
      BY <1>0, <2>2, <3>2, BackedGrows
  <2>. QED
    BY <2>1, <2>2
<1>2. ASSUME NEW s \in Seeds, IsSeed(s)', s \notin exposed'
      PROVE  BackedBy(genome', seeds'[s])
  <2>1. IsSeed(s) /\ s \notin exposed
    BY <1>2, CodecAssumption DEF IsSeed, Unreadable
  <2>2. SeedTypeOK(seeds[s]) /\ BackedBy(genome, seeds[s])
    BY <2>1 DEF CodecTypeOK, CoverInv
  <2>. QED
    BY <2>2, BackedGrows
<1>3. \A q \in Proc : RawGenuine(draft'[q])
  BY <1>0 DEF CoverInv
<1>4. \A s \in Seeds : IsSeed(s)' => RawGenuine(seeds'[s])
  BY DEF CoverInv, IsSeed, Unreadable
<1>. QED
  BY <1>1, <1>2, <1>3, <1>4 DEF CoverInv

LEMMA CoverBegin ==
    ASSUME CodecTypeOK, CoverInv, NEW p \in Proc, NEW phase, NEW j, NEW seed,
           Begin(p, phase, j, seed), UNCHANGED <<genomeVars, diskVars>>,
           RawGenuine(seed), phase \in Encoding => BackedBy(genome, seed)
    PROVE  CoverInv'
<1>1. /\ draft' = [draft EXCEPT ![p] = seed]
      /\ pc' = [pc EXCEPT ![p] = phase] /\ exposed' = exposed \ {p}
      /\ UNCHANGED <<genome, seeds>>
  BY DEF Begin, genomeVars, diskVars
<1>2. pc'[p] = phase /\ \A q \in Proc : q # p => pc'[q] = pc[q]
  BY <1>1 DEF CodecTypeOK
<1>. QED
  BY <1>1, <1>2, CoverDraft

LEMMA CoverRecorded ==
    ASSUME CodecTypeOK, CoverInv, NEW p \in Proc, pc[p] \in Encoding,
           NEW chunk \in Content, NEW code \in {"REF", "RAW"},
           Recorded(p, chunk, code), Goto(p, "index"),
           \A x \in Digest : genome[x] # Missing => genome'[x] # Missing,
           code = "REF" => genome'[Sha[chunk]] # Missing,
           UNCHANGED <<diskVars, boundVars, histVars>>
    PROVE  CoverInv'
<1>. DEFINE seed == Emit(draft[p], chunk, code)
<1>1. SeedTypeOK(draft[p]) /\ RawGenuine(draft[p])
  BY DEF CodecTypeOK, CoverInv
<1>2. RawGenuine(seed) /\ (BackedBy(genome', draft[p]) => BackedBy(genome', seed))
  BY <1>1, EmitCovered
<1>3. p \notin exposed => BackedBy(genome', draft[p])
  BY <1>1, BackedGrows DEF CoverInv
<1>4. /\ draft' = [draft EXCEPT ![p] = seed]
      /\ \A q \in Proc : q # p => pc'[q] = pc[q]
      /\ UNCHANGED <<seeds, exposed>>
  BY DEF Recorded, Goto, diskVars, histVars, CodecTypeOK
<1>. HIDE DEF seed
<1>. QED
  BY <1>2, <1>3, <1>4, CoverDraft

\* The manifest is not what resolving depends on.
LEMMA CoverManifest ==
    ASSUME CodecTypeOK, CoverInv, NEW p \in Proc, pc[p] \in Encoding,
           NEW seed, draft' = [draft EXCEPT ![p] = seed],
           seed.table = draft[p].table, seed.raw = draft[p].raw, seed.ops = draft[p].ops,
           \A q \in Proc : q # p => pc'[q] = pc[q],
           UNCHANGED <<genome, seeds, exposed>>
    PROVE  CoverInv'
<1>1. RawGenuine(seed)
  BY DEF CoverInv, RawGenuine
<1>2. p \notin exposed => BackedBy(genome, seed)
  BY DEF CoverInv, BackedBy, OpDigest
<1>. QED
  BY <1>1, <1>2, CoverDraft

LEMMA CoverFlush ==
    ASSUME CodecTypeOK, CoverInv, NEW p \in Proc, SeedFlush(p)
    PROVE  CoverInv'
<1>. DEFINE t == job[p].seed
<1>1. /\ \E x \in {draft[p], Torn} : seeds' = [seeds EXCEPT ![t] = x]
      /\ exposed' = IF p \in exposed THEN exposed \union {t} ELSE exposed \ {t}
      /\ pc' = [pc EXCEPT ![p] = "idle"]
      /\ UNCHANGED <<genome, draft>>
      /\ pc[p] = "flush" /\ t \in Seeds
  BY DEF SeedFlush, End, genomeVars, CodecTypeOK, Job
<1>2. \A q \in Proc : pc'[q] \in Encoding => pc'[q] = pc[q] /\ q # p
  BY <1>1 DEF CodecTypeOK, Encoding
<1>3. \A q \in Proc : q \notin exposed' => q \notin exposed
  BY <1>1, CodecAssumption
<1>4. \A s \in Seeds : IsSeed(s)' => seeds'[s] = IF s = t THEN draft[p] ELSE seeds[s]
  BY <1>1 DEF CodecTypeOK, IsSeed, Unreadable
<1>5. \A q \in Proc : pc'[q] \in Encoding /\ q \notin exposed' => BackedBy(genome', draft'[q])
  BY <1>1, <1>2, <1>3 DEF CoverInv
<1>6. ASSUME NEW s \in Seeds, IsSeed(s)'
      PROVE  /\ RawGenuine(seeds'[s])
             /\ s \notin exposed' => BackedBy(genome', seeds'[s])
  <2>1. CASE s = t
    <3>1. RawGenuine(draft[p]) /\ (p \notin exposed => BackedBy(genome, draft[p]))
      BY <1>1 DEF CoverInv, Encoding
    <3>2. s \notin exposed' => p \notin exposed
      BY <1>1, <2>1
    <3>. QED
      BY <1>1, <1>4, <1>6, <2>1, <3>1, <3>2
  <2>2. CASE s # t
    <3>1. seeds'[s] = seeds[s] /\ IsSeed(s)
      BY <1>4, <1>6, <2>2 DEF IsSeed, Unreadable
    <3>2. s \notin exposed' => s \notin exposed
      BY <1>1, <2>2
    <3>. QED
      BY <1>1, <3>1, <3>2 DEF CoverInv
  <2>. QED
    BY <2>1, <2>2
<1>. QED
  BY <1>1, <1>5, <1>6 DEF CoverInv

LEMMA CoverInit == CodecInit => CoverInv
BY BlankCovered DEF CodecInit, CoverInv, IsSeed, Unreadable, Encoding

LEMMA CoverStep == CodecTypeOK /\ CoverInv /\ [CodecNext]_codecVars => CoverInv'
<1>. SUFFICES ASSUME CodecTypeOK, CoverInv, [CodecNext]_codecVars PROVE CoverInv'
  OBVIOUS
<1>1. ASSUME NEW p \in Proc, EncodeStart(p) \/ PrimeStart(p) PROVE CoverInv'
  <2>1. CASE EncodeStart(p)
    <3>1. PICK f \in Files, s \in Seeds, learn, portable, private \in BOOLEAN :
            /\ Begin(p, "index", Args("encode", f, s, learn, private, FALSE),
                     BlankSeed(portable))
            /\ UNCHANGED <<genomeVars, diskVars>>
      BY <2>1 DEF EncodeStart
    <3>. QED
      BY <3>1, BlankCovered, CoverBegin
  <2>2. CASE PrimeStart(p)
    <3>1. PICK f \in Files :
            /\ Begin(p, "prime", Args("prime", f, AnySeed, FALSE, FALSE, FALSE),
                     BlankSeed(FALSE))
            /\ UNCHANGED <<genomeVars, diskVars>>
      BY <2>2 DEF PrimeStart
    <3>. QED
      BY <3>1, BlankCovered, CoverBegin
  <2>. QED
    BY <1>1, <2>1, <2>2
<1>2. ASSUME NEW p \in Proc, ReadStart(p) PROVE CoverInv'
  <2>1. PICK s \in Seeds, cmd \in {"decode", "verify"}, strict \in BOOLEAN :
          /\ IsSeed(s)
          /\ Begin(p, IF cmd = "decode" THEN "decode" ELSE "avail",
                   Args(cmd, AnyFile, s, FALSE, FALSE, strict), seeds[s])
          /\ UNCHANGED <<genomeVars, diskVars>>
    BY <1>2 DEF ReadStart
  <2>. DEFINE phase == IF cmd = "decode" THEN "decode" ELSE "avail"
  <2>2. RawGenuine(seeds[s]) /\ phase \notin Encoding
    BY <2>1 DEF CoverInv, Encoding
  <2>. HIDE DEF phase
  <2>. QED
    BY <2>1, <2>2, CoverBegin DEF phase
<1>3. ASSUME NEW p \in Proc, IndexKnown(p) \/ IndexEmbed(p) PROVE CoverInv'
  <2>1. PICK code \in {"REF", "RAW"} :
          /\ Recorded(p, NextChunk(p), code) /\ Goto(p, "index")
          /\ code = "REF" => genome[Sha[NextChunk(p)]] # Missing
    BY <1>3 DEF IndexKnown, IndexEmbed, HasChunk
  <2>2. /\ pc[p] = "index" /\ MoreInput(p)
        /\ genome' = genome /\ UNCHANGED <<diskVars, boundVars, histVars>>
    BY <1>3 DEF IndexKnown, IndexEmbed, genomeVars
  <2>3. NextChunk(p) \in Content /\ pc[p] \in Encoding
    BY <2>2, InputChunk DEF Encoding
  <2>. QED
    BY <2>1, <2>2, <2>3, CoverRecorded
<1>4. ASSUME NEW p \in Proc, LearnPut(p) PROVE CoverInv'
  <2>1. held[p] \in Content /\ Sha[held[p]] \in Digest /\ pc[p] \in Encoding
    BY <1>4, ShaAssumption DEF LearnPut, CodecTypeOK, Encoding
  <2>2. /\ \A x \in Digest : genome[x] # Missing => genome'[x] # Missing
        /\ genome'[Sha[held[p]]] # Missing
    BY <1>4, <2>1, PutGrows DEF LearnPut
  <2>3. PICK code \in {"REF", "RAW"} : Recorded(p, held[p], code)
    BY <1>4 DEF LearnPut
  <2>4. Goto(p, "index") /\ UNCHANGED <<diskVars, boundVars, histVars>>
    BY <1>4 DEF LearnPut
  <2>. QED
    BY <2>1, <2>2, <2>3, <2>4, CoverRecorded
<1>5. ASSUME NEW p \in Proc, ManifestStat(p) PROVE CoverInv'
  <2>. DEFINE seed == [draft[p] EXCEPT !.size = Len(file[job[p].file])]
  <2>1. draft' = [draft EXCEPT ![p] = seed]
    BY <1>5 DEF ManifestStat
  <2>2. seed.table = draft[p].table /\ seed.raw = draft[p].raw /\ seed.ops = draft[p].ops
    <3>1. draft[p] \in Seed
      BY DEF CodecTypeOK, SeedTypeOK
    <3>. QED
      BY <3>1 DEF Seed
  <2>. HIDE DEF seed
  <2>3. /\ pc[p] \in Encoding /\ \A q \in Proc : q # p => pc'[q] = pc[q]
        /\ UNCHANGED <<genome, seeds, exposed>>
    BY <1>5 DEF ManifestStat, Goto, Encoding, genomeVars, diskVars, histVars, CodecTypeOK
  <2>. QED
    BY <2>1, <2>2, <2>3, CoverManifest
<1>6. ASSUME NEW p \in Proc, ManifestHash(p) PROVE CoverInv'
  <2>. DEFINE seed == [draft[p] EXCEPT !.sha = ContentSha(file[job[p].file])]
  <2>1. draft' = [draft EXCEPT ![p] = seed]
    BY <1>6 DEF ManifestHash
  <2>2. seed.table = draft[p].table /\ seed.raw = draft[p].raw /\ seed.ops = draft[p].ops
    <3>1. draft[p] \in Seed
      BY DEF CodecTypeOK, SeedTypeOK
    <3>. QED
      BY <3>1 DEF Seed
  <2>. HIDE DEF seed
  <2>3. /\ pc[p] \in Encoding /\ \A q \in Proc : q # p => pc'[q] = pc[q]
        /\ UNCHANGED <<genome, seeds, exposed>>
    BY <1>6 DEF ManifestHash, Goto, Encoding, genomeVars, diskVars, histVars, CodecTypeOK
  <2>. QED
    BY <2>1, <2>2, <2>3, CoverManifest
<1>7. ASSUME NEW p \in Proc, SeedOpen(p) PROVE CoverInv'
  <2>1. /\ \A s \in Seeds : IsSeed(s)' => IsSeed(s) /\ seeds'[s] = seeds[s]
        /\ \A q \in Proc : pc'[q] \in Encoding => pc[q] \in Encoding
        /\ UNCHANGED <<genome, draft, exposed>>
    BY <1>7 DEF SeedOpen, Goto, IsSeed, Unreadable, CodecTypeOK, Encoding, genomeVars, histVars
  <2>. QED
    BY <2>1 DEF CoverInv
<1>8. ASSUME NEW p \in Proc, SeedFlush(p) PROVE CoverInv'
  BY <1>8, CoverFlush
<1>9. ASSUME NEW p \in Proc, PrimePut(p) PROVE CoverInv'
  <2>1. NextChunk(p) \in Content /\ Sha[NextChunk(p)] \in Digest
    BY <1>9, InputChunk, ShaAssumption DEF PrimePut
  <2>2. \A x \in Digest : genome[x] # Missing => genome'[x] # Missing
    BY <1>9, <2>1, PutGrows DEF PrimePut
  <2>3. /\ \A q \in Proc : pc'[q] \in Encoding => pc[q] \in Encoding
        /\ UNCHANGED <<draft, seeds, exposed>>
    BY <1>9 DEF PrimePut, Goto, CodecTypeOK, Encoding, diskVars, histVars
  <2>. QED
    BY <2>2, <2>3, CoverQuiet DEF IsSeed, Unreadable
<1>10. ASSUME NEW p \in Proc,
              \/ IndexLearn(p) \/ IndexDone(p) \/ ResolveOk(p) \/ CheckAvailable(p) \/ StrictStart(p)
       PROVE CoverInv'
  <2>1. /\ UNCHANGED <<genome, draft, seeds, exposed>>
        /\ \A q \in Proc : pc'[q] \in Encoding => pc[q] \in Encoding
    BY <1>10 DEF IndexLearn, IndexDone, ResolveOk, CheckAvailable, StrictStart, Goto,
                 CodecTypeOK, Encoding, genomeVars, diskVars, histVars
  <2>. QED
    BY <2>1, CoverQuiet DEF IsSeed, Unreadable
<1>11. ASSUME NEW p \in Proc,
              \/ ReadTorn(p) \/ IndexRefuse(p) \/ PrimeDone(p) \/ WriteTimeout(p)
              \/ ResolveFail(p) \/ Finish(p) \/ QuickDone(p)
       PROVE CoverInv'
  <2>1. \E r : End(p, r) /\ UNCHANGED <<genomeVars, diskVars, histVars>>
    BY <1>11 DEF ReadTorn, IndexRefuse, PrimeDone, WriteTimeout, ResolveFail, Finish, QuickDone
  <2>2. /\ UNCHANGED <<genome, draft, seeds, exposed>>
        /\ \A q \in Proc : pc'[q] \in Encoding => pc[q] \in Encoding
    BY <2>1 DEF End, CodecTypeOK, Encoding, genomeVars, diskVars, histVars
  <2>. QED
    BY <2>2, CoverQuiet DEF IsSeed, Unreadable
<1>12. ASSUME NEW f \in Files, EditSource(f) PROVE CoverInv'
  <2>1. UNCHANGED <<genome, draft, seeds, exposed, pc>>
    BY <1>12 DEF EditSource, procVars, genomeVars
  <2>. QED
    BY <2>1, CoverQuiet DEF IsSeed, Unreadable
<1>13. ASSUME Clear \/ Rot PROVE CoverInv'
  <2>1. exposed' = Proc \union Seeds /\ UNCHANGED <<draft, seeds>>
    BY <1>13 DEF Clear, Rot, Damaged, diskVars, procVars
  <2>. QED
    BY <2>1 DEF CoverInv, IsSeed, Unreadable
<1>14. ASSUME NEW r \in Readers, ReaderOpens(r) \/ ReaderCloses(r) PROVE CoverInv'
  <2>1. UNCHANGED <<genome, draft, seeds, exposed, pc>>
    BY <1>14 DEF ReaderOpens, ReaderCloses, diskVars, procVars, histVars
  <2>. QED
    BY <2>1, CoverQuiet DEF IsSeed, Unreadable
<1>15. CASE UNCHANGED codecVars
  <2>1. UNCHANGED <<genome, draft, seeds, exposed, pc>>
    BY <1>15 DEF codecVars, genomeVars, diskVars, procVars, histVars
  <2>. QED
    BY <2>1, CoverQuiet DEF IsSeed, Unreadable
<1>16. ASSUME NEW p \in Proc, Stops(p) PROVE CoverInv'
  <2>1. PICK r : End(p, r)
    BY <1>16, StopShape
  <2>2. UNCHANGED <<genome, exposed>> /\ CutWrite(p)
    BY <1>16, StopShape DEF genomeVars
  <2>3. UNCHANGED draft /\ \A q \in Proc : pc'[q] \in Encoding => pc[q] \in Encoding
    BY <2>1 DEF End, CodecTypeOK, Encoding
  <2>. QED
    BY <2>2, <2>3, StopSeeds, CoverQuiet
<1>. QED
  BY <1>1, <1>2, <1>3, <1>4, <1>5, <1>6, <1>7, <1>8, <1>9, <1>10, <1>11, <1>12, <1>13, <1>14, <1>15,
     <1>16
     DEF CodecNext, CommandStart, CommandStep, Stops

\* A payload in the seed answers a RAW op; a row of the genome answers a REF
\* op, genuine or rotten.
LEMMA CoverImplies == CodecTypeOK /\ CoverInv => SeedsCovered
<1>. SUFFICES ASSUME CodecTypeOK, CoverInv, NEW s \in Seeds, IsSeed(s), s \notin exposed,
                    NEW i \in 1..Len(seeds[s].ops)
             PROVE  \/ Intact(seeds[s], i)
                    \/ seeds[s].ops[i].code = "REF" /\ OpDigest(seeds[s], i) \in RottenRows
  BY DEF SeedsCovered, Resolvable
<1>. DEFINE seed == seeds[s]
            k == seed.ops[i].index
            d == seed.table[k]
<1>1. SeedTypeOK(seed) /\ RawGenuine(seed) /\ BackedBy(genome, seed)
  BY DEF CodecTypeOK, CoverInv
<1>2. /\ k \in 1..Len(seed.table) /\ d \in Digest
      /\ seed.ops[i].code \in {"REF", "RAW"}
  <2>1. seed \in Seed
    BY <1>1 DEF SeedTypeOK
  <2>2. seed.ops[i] \in Op /\ seed.table \in Seq(Digest)
    BY <2>1 DEF Seed
  <2>3. k \in 1..Len(seed.table)
    BY <1>1 DEF SeedTypeOK
  <2>. QED
    BY <2>2, <2>3 DEF Op
<1>3. OpDigest(seed, i) = d
  BY DEF OpDigest
<1>4. CASE seed.ops[i].code = "RAW"
  <2>1. seed.raw[k] # Missing /\ Sha[seed.raw[k]] = d
    BY <1>1, <1>2, <1>4 DEF BackedBy, RawGenuine
  <2>2. Resolve(seed, i) = seed.raw[k]
    BY <1>4, <2>1 DEF Resolve, FirstFound
  <2>. QED
    BY <1>3, <2>1, <2>2 DEF Intact
<1>5. CASE seed.ops[i].code = "REF"
  <2>1. genome[d] # Missing
    BY <1>1, <1>3, <1>5 DEF BackedBy
  <2>2. Resolve(seed, i) = genome[d]
    BY <1>5, <2>1 DEF Resolve, FirstFound, GetChunk
  <2>3. CASE Sha[genome[d]] = d
    BY <1>3, <2>1, <2>2, <2>3 DEF Intact
  <2>4. CASE Sha[genome[d]] # d
    BY <1>2, <1>3, <1>5, <2>1, <2>4 DEF RottenRows, Stored, HasChunk
  <2>. QED
    BY <2>3, <2>4
<1>. QED
  BY <1>2, <1>4, <1>5

\* Every seed whose encode began after the last damage of the genome can be
\* resolved op by op: no interleaving of the has_chunk lookups and the puts
\* of any number of encodes and primes, no edit of a source and no kill
\* leaves a written seed with an op that has neither payload nor row.
THEOREM SeedsAreCovered == CodecSpec => []SeedsCovered
<1>1. CodecInit => CodecTypeOK /\ CoverInv
  BY CodecTypeInit, CoverInit
<1>2. CodecTypeOK /\ CoverInv /\ [CodecNext]_codecVars => CodecTypeOK' /\ CoverInv'
  BY CodecTypeStep, CoverStep
<1>3. CodecTypeOK /\ CoverInv => SeedsCovered
  BY CoverImplies
<1>. QED
  BY <1>1, <1>2, <1>3, PTL DEF CodecSpec

-----------------------------------------------------------------------------
(* What the step of one process leaves alone.                               *)

Still(q) ==
    /\ pc'[q] = pc[q] /\ job'[q] = job[q] /\ draft'[q] = draft[q] /\ pos'[q] = pos[q]
    /\ held'[q] = held[q] /\ missing'[q] = missing[q] /\ out'[q] = out[q]
    /\ res'[q] = res[q]

\* Rows come, under their own digest, and stay as they are.
Grows ==
    \A d \in Digest :
        \/ genome'[d] = genome[d]
        \/ genome[d] = Missing /\ genome'[d] \in Content /\ Sha[genome'[d]] = d

Own(p) ==
    /\ \A q \in Proc \ {p} : Still(q) /\ (q \notin exposed' => q \notin exposed)
    /\ Grows
    /\ UNCHANGED <<file, versions, edits>>

LEMMA PutsGrow ==
    ASSUME CodecTypeOK, NEW p \in Proc, NEW chunk \in Content, PutChunk(p, Sha[chunk], chunk)
    PROVE  Grows
BY ShaAssumption DEF CodecTypeOK, PutChunk, Grows

LEMMA BeginOwn ==
    ASSUME CodecTypeOK, NEW p \in Proc, NEW phase, NEW j, NEW seed, Begin(p, phase, j, seed),
           UNCHANGED <<genomeVars, diskVars>>
    PROVE  Own(p)
BY DEF Begin, Own, Still, Grows, CodecTypeOK, genomeVars, diskVars

LEMMA EndOwn ==
    ASSUME CodecTypeOK, NEW p \in Proc, NEW r, End(p, r),
           UNCHANGED <<genome, file, edits, versions>>,
           \A q \in Proc : q \notin exposed' => q \notin exposed
    PROVE  Own(p)
BY DEF End, Own, Still, Grows, CodecTypeOK

LEMMA LocalOwn ==
    ASSUME CodecTypeOK, NEW p \in Proc, NEW phase, Goto(p, phase), Grows,
           \A q \in Proc \ {p} : draft'[q] = draft[q] /\ pos'[q] = pos[q],
           UNCHANGED <<file, boundVars, histVars>>
    PROVE  Own(p)
BY DEF Goto, Own, Still, CodecTypeOK, boundVars, histVars

LEMMA RecordedOwn ==
    ASSUME CodecTypeOK, NEW p \in Proc, NEW chunk, NEW code, Recorded(p, chunk, code),
           Goto(p, "index"), Grows, UNCHANGED <<file, boundVars, histVars>>
    PROVE  Own(p)
<1>1. \A q \in Proc \ {p} : draft'[q] = draft[q] /\ pos'[q] = pos[q]
  BY DEF Recorded, CodecTypeOK
<1>. QED
  BY <1>1, LocalOwn

LEMMA StepOwn ==
    ASSUME CodecTypeOK, NEW p \in Proc, CommandStart(p) \/ CommandStep(p) \/ Stops(p)
    PROVE  Own(p)
<1>1. CASE EncodeStart(p) \/ PrimeStart(p) \/ ReadStart(p)
  <2>1. \E phase, j, seed : Begin(p, phase, j, seed) /\ UNCHANGED <<genomeVars, diskVars>>
    BY <1>1 DEF EncodeStart, PrimeStart, ReadStart
  <2>. QED
    BY <2>1, BeginOwn
<1>2. CASE \/ ReadTorn(p) \/ IndexRefuse(p) \/ PrimeDone(p) \/ WriteTimeout(p)
           \/ ResolveFail(p) \/ Finish(p) \/ QuickDone(p) \/ Stops(p)
  <2>1. \E r : End(p, r) /\ UNCHANGED <<genome, file, versions, exposed, edits>>
    BY <1>2, StopShape DEF ReadTorn, IndexRefuse, PrimeDone, WriteTimeout, ResolveFail, Finish,
                QuickDone, boundVars, genomeVars, diskVars, histVars
  <2>. QED
    BY <2>1, EndOwn
<1>3. CASE SeedFlush(p)
  <2>1. End(p, "ok") /\ UNCHANGED <<genome, file, edits, versions>>
    BY <1>3 DEF SeedFlush, genomeVars, boundVars
  <2>2. \A q \in Proc : q \notin exposed' => q \notin exposed
    BY <1>3, CodecAssumption DEF SeedFlush, CodecTypeOK, Job
  <2>. QED
    BY <2>1, <2>2, EndOwn
<1>4. CASE IndexKnown(p) \/ IndexEmbed(p)
  <2>1. /\ \E code : Recorded(p, NextChunk(p), code)
        /\ Goto(p, "index") /\ UNCHANGED <<genomeVars, file, boundVars, histVars>>
    BY <1>4 DEF IndexKnown, IndexEmbed, diskVars
  <2>. QED
    BY <2>1, RecordedOwn DEF Grows, genomeVars
<1>5. CASE LearnPut(p)
  <2>1. /\ \E code : Recorded(p, held[p], code)
        /\ Goto(p, "index") /\ UNCHANGED <<file, boundVars, histVars>>
        /\ held[p] \in Content /\ PutChunk(p, Sha[held[p]], held[p])
    BY <1>5 DEF LearnPut, diskVars, CodecTypeOK
  <2>. QED
    BY <2>1, PutsGrow, RecordedOwn
<1>6. CASE PrimePut(p)
  <2>1. /\ Goto(p, "prime") /\ UNCHANGED <<file, boundVars, histVars>>
        /\ NextChunk(p) \in Content /\ PutChunk(p, Sha[NextChunk(p)], NextChunk(p))
        /\ \A q \in Proc \ {p} : draft'[q] = draft[q] /\ pos'[q] = pos[q]
    BY <1>6, InputChunk DEF PrimePut, diskVars, CodecTypeOK
  <2>. QED
    BY <2>1, PutsGrow, LocalOwn
<1>7. CASE IndexDone(p) \/ ManifestStat(p) \/ ManifestHash(p) \/ SeedOpen(p) \/ StrictStart(p)
  <2>1. /\ \E phase : Goto(p, phase)
        /\ UNCHANGED <<genomeVars, file, boundVars, histVars>>
        /\ \A q \in Proc \ {p} : draft'[q] = draft[q] /\ pos'[q] = pos[q]
    BY <1>7 DEF IndexDone, ManifestStat, ManifestHash, SeedOpen, StrictStart, diskVars, CodecTypeOK
  <2>. QED
    BY <2>1, LocalOwn DEF Grows, genomeVars
<1>8. CASE IndexLearn(p) \/ ResolveOk(p) \/ CheckAvailable(p)
  BY <1>8 DEF IndexLearn, ResolveOk, CheckAvailable, Own, Still, Grows, CodecTypeOK, genomeVars,
              diskVars, boundVars, histVars
<1>. QED
  BY <1>1, <1>2, <1>3, <1>4, <1>5, <1>6, <1>7, <1>8 DEF CommandStart, CommandStep

\* What the surroundings do to processes and seeds.
LEMMA Surroundings ==
    ASSUME CodecTypeOK,
           \/ \E f \in Files : EditSource(f)
           \/ \E r \in Readers : ReaderOpens(r) \/ ReaderCloses(r)
           \/ Clear \/ Rot \/ UNCHANGED codecVars
    PROVE  /\ \A q \in Proc : Still(q)
           /\ UNCHANGED <<procVars, seeds, spoilt>>
           /\ UNCHANGED <<genome, exposed>> \/ exposed' = Proc \union Seeds
           /\ versions \subseteq versions'
           /\ \/ UNCHANGED <<file, edits, versions>>
              \/ edits' = edits + 1 /\ \E f \in Files : EditSource(f)
<1>1. UNCHANGED <<procVars, seeds, spoilt>>
  BY DEF EditSource, ReaderOpens, ReaderCloses, Clear, Rot, Damaged, codecVars, diskVars, histVars
<1>2. UNCHANGED <<genome, exposed>> \/ exposed' = Proc \union Seeds
  BY DEF EditSource, ReaderOpens, ReaderCloses, Clear, Rot, Damaged, codecVars, genomeVars, histVars
<1>3. \/ UNCHANGED <<file, edits, versions>>
      \/ edits' = edits + 1 /\ \E f \in Files : EditSource(f)
  BY DEF EditSource, ReaderOpens, ReaderCloses, Clear, Rot, Damaged, codecVars, diskVars, boundVars,
         histVars
<1>. QED
  BY <1>1, <1>2, <1>3 DEF Still, procVars, EditSource

-----------------------------------------------------------------------------
(* Unreadable seeds.                                                        *)

\* An unreadable seed path has an encoder at work on it, or its last write was
\* cut or ran over another: any number of encoders, of one path or of many,
\* and an encode that ends before its write leaves the previous seed.
THEOREM TornByWriters == CodecSpec => []TornOnlyByWriters
<1>1. CodecInit => TornOnlyByWriters
  BY TornAssumption DEF CodecInit, TornOnlyByWriters, Unreadable
<1>2. ASSUME CodecTypeOK, TornOnlyByWriters, [CodecNext]_codecVars
      PROVE  TornOnlyByWriters'
  <2>. SUFFICES ASSUME NEW s \in Seeds, Unreadable(s)', s \notin spoilt'
               PROVE  \E p \in Proc : pc'[p] = "flush" /\ job'[p].seed = s
    BY DEF TornOnlyByWriters
  <2>1. ASSUME NEW p \in Proc, UNCHANGED <<seeds, spoilt>>, Own(p), pc[p] # "flush"
        PROVE  \E q \in Proc : pc'[q] = "flush" /\ job'[q].seed = s
    <3>1. PICK q \in Proc : pc[q] = "flush" /\ job[q].seed = s
      BY <1>2, <2>1 DEF TornOnlyByWriters, Unreadable
    <3>. QED
      BY <2>1, <3>1 DEF Own, Still
  <2>2. ASSUME NEW p \in Proc, CommandStart(p) \/ CommandStep(p), ~SeedOpen(p), ~SeedFlush(p)
        PROVE  \E q \in Proc : pc'[q] = "flush" /\ job'[q].seed = s
    <3>1. UNCHANGED <<seeds, spoilt>> /\ pc[p] # "flush"
      BY <2>2 DEF CommandStart, CommandStep, EncodeStart, PrimeStart, ReadStart, ReadTorn,
           Begin, IndexKnown, IndexLearn, IndexEmbed, IndexRefuse, LearnPut, IndexDone,
           ManifestStat, ManifestHash, PrimePut, PrimeDone, WriteTimeout, ResolveOk,
           ResolveFail, Finish, CheckAvailable, QuickDone, StrictStart, diskVars, histVars
    <3>. QED
      BY <1>2, <2>1, <2>2, <3>1, StepOwn
  <2>3. ASSUME NEW p \in Proc, SeedOpen(p)
        PROVE  \E q \in Proc : pc'[q] = "flush" /\ job'[q].seed = s
    <3>1. /\ pc' = [pc EXCEPT ![p] = "flush"] /\ pc[p] = "open"
          /\ seeds' = [seeds EXCEPT ![job[p].seed] = Empty]
          /\ UNCHANGED <<job, spoilt>>
      BY <2>3 DEF SeedOpen, Goto, histVars
    <3>2. CASE s = job[p].seed
      BY <1>2, <3>1, <3>2 DEF CodecTypeOK
    <3>3. CASE s # job[p].seed
      <4>1. seeds'[s] = seeds[s]
        BY <1>2, <3>1, <3>3 DEF CodecTypeOK
      <4>2. PICK q \in Proc : pc[q] = "flush" /\ job[q].seed = s
        BY <1>2, <3>1, <4>1 DEF TornOnlyByWriters, Unreadable
      <4>. QED
        BY <1>2, <3>1, <4>2 DEF CodecTypeOK
    <3>. QED
      BY <3>2, <3>3
  <2>4. ASSUME NEW p \in Proc, SeedFlush(p) \/ (Stops(p) /\ pc[p] = "flush")
        PROVE  \E q \in Proc : pc'[q] = "flush" /\ job'[q].seed = s
    <3>1. job[p].seed \in Seeds /\ draft[p] \notin {Empty, Torn}
      BY <1>2, TornAssumption DEF CodecTypeOK, SeedTypeOK, Job
    <3>2. s # job[p].seed /\ seeds'[s] = seeds[s] /\ s \notin spoilt
      <4>1. CASE SeedFlush(p)
        BY <1>2, <3>1, <4>1 DEF SeedFlush, CodecTypeOK, Unreadable
      <4>2. CASE Stops(p) /\ pc[p] = "flush"
        <5>1. CutWrite(p)
          BY <1>2, <4>2, StopShape
        <5>. QED
          BY <1>2, <3>1, <4>2, <5>1 DEF CutWrite, CodecTypeOK, Unreadable
      <4>. QED
        BY <2>4, <4>1, <4>2
    <3>3. PICK q \in Proc : pc[q] = "flush" /\ job[q].seed = s
      BY <1>2, <3>2 DEF TornOnlyByWriters, Unreadable
    <3>4. Own(p) /\ q # p
      BY <1>2, <2>4, <3>2, <3>3, StepOwn DEF CommandStep
    <3>. QED
      BY <3>3, <3>4 DEF Own, Still
  <2>5. ASSUME NEW p \in Proc, Stops(p), pc[p] # "flush"
        PROVE  \E q \in Proc : pc'[q] = "flush" /\ job'[q].seed = s
    <3>1. UNCHANGED <<seeds, spoilt>>
      BY <1>2, <2>5, StopShape DEF CutWrite
    <3>. QED
      BY <1>2, <2>1, <2>5, <3>1, StepOwn
  <2>6. CASE \/ \E f \in Files : EditSource(f)
             \/ \E r \in Readers : ReaderOpens(r) \/ ReaderCloses(r)
             \/ Clear \/ Rot \/ UNCHANGED codecVars
    BY <1>2, <2>6, Surroundings DEF TornOnlyByWriters, Unreadable, procVars
  <2>7. ASSUME NEW p \in Proc, CommandStart(p) \/ CommandStep(p) \/ Stops(p)
        PROVE  \E q \in Proc : pc'[q] = "flush" /\ job'[q].seed = s
    BY <2>2, <2>3, <2>4, <2>5, <2>7
  <2>. QED
    BY <1>2, <2>6, <2>7 DEF CodecNext, Stops
<1>. QED
  BY <1>1, <1>2, CodecTypeCorrect, PTL DEF CodecSpec

-----------------------------------------------------------------------------
(* Resolving in a genome g.                                                 *)

ResolveIn(g, seed, i) ==
    LET op  == seed.ops[i]
        row == g[seed.table[op.index]]
        raw == seed.raw[op.index]
    IN  IF op.code = "REF" THEN FirstFound(row, raw) ELSE FirstFound(raw, row)

IntactIn(g, seed, i) ==
    ResolveIn(g, seed, i) # Missing /\ Sha[ResolveIn(g, seed, i)] = OpDigest(seed, i)

LEMMA ResolveHere ==
    ASSUME NEW seed, NEW i
    PROVE  /\ Resolve(seed, i) = ResolveIn(genome, seed, i)
           /\ Intact(seed, i) <=> IntactIn(genome, seed, i)
BY DEF Resolve, ResolveIn, Intact, IntactIn, GetChunk

\* A put can answer an op that had no answer, or the same one from elsewhere.
LEMMA StaysIntact ==
    ASSUME NEW seed, SeedTypeOK(seed), NEW i \in 1..Len(seed.ops), Grows
    PROVE  /\ ResolveIn(genome, seed, i) # Missing => ResolveIn(genome', seed, i) # Missing
           /\ IntactIn(genome, seed, i) => IntactIn(genome', seed, i)
<1>. DEFINE k == seed.ops[i].index
            d == seed.table[k]
<1>1. k \in 1..Len(seed.table)
  BY DEF SeedTypeOK
<1>2. d \in Digest
  BY <1>1 DEF SeedTypeOK, Seed
<1>3. OpDigest(seed, i) = d
  BY DEF OpDigest
<1>4. \/ genome'[d] = genome[d]
      \/ genome[d] = Missing /\ genome'[d] # Missing /\ Sha[genome'[d]] = d
  <2>. HIDE DEF d
  <2>. QED
    BY <1>2, ShaAssumption DEF Grows
<1>. QED
  BY <1>3, <1>4 DEF ResolveIn, IntactIn, FirstFound

-----------------------------------------------------------------------------
(* What a reader has established so far.                                    *)

\* A command is at a place of its own kind.
Place(p) ==
    /\ pc[p] \in Encoding => job[p].cmd = "encode"
    /\ pc[p] = "prime" => job[p].cmd = "prime"
    /\ pc[p] = "decode" => job[p].cmd = "decode"
    /\ pc[p] \in {"avail", "strict"} => job[p].cmd = "verify"
    /\ pc[p] = "strict" => job[p].strict

\* What is written is genuine, and as long as the place in the recipe says.
Written(p) ==
    /\ job[p].cmd \in {"decode", "verify"} =>
         /\ Len(out[p]) <= Len(draft[p].ops)
         /\ \A i \in 1..Len(out[p]) : Sha[out[p][i]] = OpDigest(draft[p], i)
    /\ pc[p] \in {"decode", "strict"} => Len(out[p]) = pos[p]
    /\ pc[p] = "avail" => Len(out[p]) = 0

\* What verify has seen, before its end and after.
Seen(p) ==
    /\ pc[p] = "avail" /\ missing[p] = {} =>
         \A i \in 1..Len(draft[p].ops) : i <= pos[p] => ResolveIn(genome, draft[p], i) # Missing
    /\ pc[p] = "strict" =>
         \A i \in 1..Len(draft[p].ops) : i <= pos[p] => IntactIn(genome, draft[p], i)
    /\ pc[p] = "idle" /\ job[p].cmd = "verify" /\ res[p] = "ok" =>
         /\ \A i \in 1..Len(draft[p].ops) : ResolveIn(genome, draft[p], i) # Missing
         /\ job[p].strict => \A i \in 1..Len(draft[p].ops) : IntactIn(genome, draft[p], i)

\* The digest of the manifest is compared whatever happens to the genome.
Whole(p) ==
    /\ pc[p] = "idle" /\ job[p].cmd = "verify" /\ res[p] = "ok" /\ job[p].strict
    /\ draft[p].sha # Null
    => RecipeDigests(draft[p]) = draft[p].sha

ReaderOK(p) == Place(p) /\ Written(p) /\ (p \notin exposed => Seen(p)) /\ Whole(p)

ReadInv == \A p \in Proc : ReaderOK(p)

LEMMA StillReads ==
    ASSUME CodecTypeOK, NEW q \in Proc, ReaderOK(q), Still(q),
           q \notin exposed' => q \notin exposed /\ Grows
    PROVE  ReaderOK(q)'
<1>1. Place(q)' /\ Written(q)' /\ Whole(q)'
  BY DEF ReaderOK, Still, Place, Written, Whole, RecipeDigests, OpDigest
<1>2. ASSUME q \notin exposed' PROVE Seen(q)'
  <2>1. Seen(q) /\ Grows
    BY <1>2 DEF ReaderOK
  <2>2. \A i \in 1..Len(draft[q].ops) :
           /\ ResolveIn(genome, draft[q], i) # Missing => ResolveIn(genome', draft[q], i) # Missing
           /\ IntactIn(genome, draft[q], i) => IntactIn(genome', draft[q], i)
    BY <2>1, StaysIntact DEF CodecTypeOK
  <2>. QED
    BY <2>1, <2>2 DEF Seen, Still
<1>. QED
  BY <1>1, <1>2 DEF ReaderOK

\* Once the recipe is done, the file has its digests.
LEMMA WholeRecipe ==
    ASSUME CodecTypeOK, NEW p \in Proc, ReaderOK(p), pc[p] \in {"decode", "strict"}, ~MoreOps(p)
    PROVE  /\ Len(out[p]) = Len(draft[p].ops) /\ ContentSha(out[p]) = RecipeDigests(draft[p])
           /\ pos[p] = Len(draft[p].ops)
<1>1. /\ out[p] \in Seq(Content) /\ draft[p].ops \in Seq(Op) /\ pos[p] \in Nat
      /\ job[p].cmd \in {"decode", "verify"}
  BY DEF CodecTypeOK, SeedTypeOK, Seed, ReaderOK, Place
<1>2. Len(out[p]) = Len(draft[p].ops) /\ pos[p] = Len(draft[p].ops)
  BY <1>1 DEF ReaderOK, Written, MoreOps
<1>. QED
  BY <1>1, <1>2 DEF ReaderOK, Written, ContentSha, RecipeDigests

\* An end with anything but ok says nothing.
LEMMA EndReads ==
    ASSUME CodecTypeOK, NEW p \in Proc, ReaderOK(p), NEW r, End(p, r),
           r = "ok" => job[p].cmd \in {"encode", "prime", "decode"}
    PROVE  ReaderOK(p)'
<1>1. /\ pc'[p] = "idle" /\ res'[p] = r
      /\ UNCHANGED <<job, draft, pos, out>>
  BY DEF End, CodecTypeOK
<1>2. Place(p)' /\ Written(p)'
  BY <1>1 DEF ReaderOK, Place, Written, Encoding, OpDigest
<1>3. Seen(p)' /\ Whole(p)'
  BY <1>1 DEF Seen, Whole
<1>. QED
  BY <1>2, <1>3 DEF ReaderOK

\* A command that reads no seed has nothing to keep.
LEMMA OtherReads ==
    ASSUME NEW p \in Proc, Place(p)', job'[p].cmd \in {"encode", "prime"}
    PROVE  ReaderOK(p)'
<1>1. Written(p)' /\ Seen(p)' /\ Whole(p)'
  BY DEF Place, Written, Seen, Whole
<1>. QED
  BY <1>1 DEF ReaderOK

LEMMA StartReads ==
    ASSUME CodecTypeOK, NEW p \in Proc, ReaderOK(p), CommandStart(p)
    PROVE  ReaderOK(p)'
<1>1. CASE EncodeStart(p) \/ PrimeStart(p)
  <2>1. PICK phase, j, seed :
          /\ Begin(p, phase, j, seed)
          /\ \/ phase = "index" /\ j.cmd = "encode"
             \/ phase = "prime" /\ j.cmd = "prime"
    <3>1. CASE EncodeStart(p)
      BY <3>1 DEF EncodeStart, Args
    <3>2. CASE PrimeStart(p)
      <4>1. PICK f \in Files :
               Begin(p, "prime", Args("prime", f, AnySeed, FALSE, FALSE, FALSE), BlankSeed(FALSE))
        BY <3>2 DEF PrimeStart
      <4>2. Args("prime", f, AnySeed, FALSE, FALSE, FALSE).cmd = "prime"
        BY DEF Args
      <4>. QED
        BY <4>1, <4>2
    <3>. QED
      BY <1>1, <3>1, <3>2
  <2>2. pc'[p] = phase /\ job'[p] = j
    BY <2>1 DEF Begin, CodecTypeOK
  <2>. QED
    BY <2>1, <2>2, OtherReads DEF Place, Encoding
<1>2. CASE ReadStart(p)
  <2>1. PICK s \in Seeds, cmd \in {"decode", "verify"}, strict \in BOOLEAN :
          /\ IsSeed(s)
          /\ Begin(p, IF cmd = "decode" THEN "decode" ELSE "avail",
                   Args(cmd, AnyFile, s, FALSE, FALSE, strict), seeds[s])
    BY <1>2 DEF ReadStart
  <2>2. SeedTypeOK(seeds[s])
    BY <2>1 DEF CodecTypeOK
  <2>3. /\ pc'[p] = (IF cmd = "decode" THEN "decode" ELSE "avail") /\ job'[p].cmd = cmd
        /\ draft'[p] = seeds[s] /\ out'[p] = <<>> /\ pos'[p] = 0
    BY <2>1 DEF Begin, Args, CodecTypeOK
  <2>4. Len(seeds[s].ops) \in Nat
    BY <2>2 DEF SeedTypeOK, Seed
  <2>5. Place(p)' /\ Written(p)'
    BY <2>3, <2>4 DEF Place, Written, Encoding
  <2>6. Seen(p)' /\ Whole(p)'
    BY <2>3, <2>4 DEF Seen, Whole
  <2>. QED
    BY <2>5, <2>6 DEF ReaderOK
<1>3. CASE ReadTorn(p)
  BY <1>3, EndReads DEF ReadTorn
<1>. QED
  BY <1>1, <1>2, <1>3 DEF CommandStart

LEMMA EncodeReads ==
    ASSUME CodecTypeOK, NEW p \in Proc, ReaderOK(p),
           \/ IndexKnown(p) \/ IndexLearn(p) \/ IndexEmbed(p) \/ LearnPut(p) \/ IndexDone(p)
           \/ ManifestStat(p) \/ ManifestHash(p) \/ SeedOpen(p) \/ PrimePut(p)
    PROVE  ReaderOK(p)'
<1>1. job' = job
  BY DEF IndexKnown, IndexLearn, IndexEmbed, LearnPut, IndexDone, ManifestStat, ManifestHash,
         SeedOpen, PrimePut, Goto
<1>2. CASE PrimePut(p)
  <2>1. pc[p] = "prime" /\ pc'[p] = "prime"
    BY <1>2 DEF PrimePut, Goto, CodecTypeOK
  <2>. QED
    BY <1>1, <2>1, OtherReads DEF ReaderOK, Place, Encoding
<1>3. CASE ~PrimePut(p)
  <2>1. pc[p] \in Encoding /\ pc'[p] \in Encoding
    BY <1>3 DEF IndexKnown, IndexLearn, IndexEmbed, LearnPut, IndexDone, ManifestStat,
                ManifestHash, SeedOpen, Goto, Encoding, CodecTypeOK
  <2>. QED
    BY <1>1, <2>1, OtherReads DEF ReaderOK, Place, Encoding
<1>. QED
  BY <1>2, <1>3

LEMMA ResolveReads ==
    ASSUME CodecTypeOK, NEW p \in Proc, ReaderOK(p), ResolveOk(p)
    PROVE  ReaderOK(p)'
<1>. DEFINE n == pos[p] + 1
            x == Resolve(draft[p], n)
<1>1. /\ pc[p] \in {"decode", "strict"} /\ MoreOps(p) /\ Intact(draft[p], n)
      /\ UNCHANGED <<pc, job, draft, res, genome, exposed>>
      /\ out'[p] = Append(out[p], x) /\ pos'[p] = n
  BY DEF ResolveOk, genomeVars, histVars, CodecTypeOK
<1>2. /\ out[p] \in Seq(Content) /\ pos[p] \in Nat /\ draft[p].ops \in Seq(Op)
      /\ x \in Content /\ Sha[x] = OpDigest(draft[p], n)
  BY <1>1, ResolveType DEF CodecTypeOK, SeedTypeOK, Seed, Intact
<1>3. Len(out[p]) = pos[p] /\ n <= Len(draft[p].ops)
  BY <1>1, <1>2 DEF ReaderOK, Written, MoreOps
<1>4. IntactIn(genome, draft[p], n)
  BY <1>1, ResolveHere
<1>. HIDE DEF x
<1>5. Len(out'[p]) = n
      /\ \A i \in 1..n : out'[p][i] = IF i = n THEN x ELSE out[p][i]
  BY <1>1, <1>2, <1>3
<1>6. Place(p)' /\ Whole(p)'
  BY <1>1 DEF ReaderOK, Place, Whole
<1>7. Written(p)'
  <2>1. job[p].cmd \in {"decode", "verify"}
    BY <1>1 DEF ReaderOK, Place
  <2>2. \A i \in 1..n : Sha[out'[p][i]] = OpDigest(draft[p], i)
    BY <1>2, <1>3, <1>5, <2>1 DEF ReaderOK, Written
  <2>. QED
    BY <1>1, <1>3, <1>5, <2>2 DEF Written, OpDigest
<1>8. ASSUME p \notin exposed' PROVE Seen(p)'
  <2>1. /\ pc'[p] = pc[p] /\ pc[p] \in {"decode", "strict"}
        /\ draft' = draft /\ genome' = genome /\ pos'[p] = n
    BY <1>1
  <2>2. ASSUME pc[p] = "strict", NEW i \in 1..Len(draft[p].ops), i <= n
        PROVE  IntactIn(genome, draft[p], i)
    <3>1. CASE i = n
      BY <3>1, <1>4
    <3>2. CASE i # n
      <4>1. i <= pos[p]
        BY <3>2, <2>2, <1>2
      <4>. QED
        BY <4>1, <2>2, <1>1, <1>8 DEF ReaderOK, Seen
    <3>. QED
      BY <3>1, <3>2
  <2>. QED
    BY <2>1, <2>2 DEF Seen
<1>. QED
  BY <1>6, <1>7, <1>8 DEF ReaderOK

LEMMA FinishReads ==
    ASSUME CodecTypeOK, NEW p \in Proc, ReaderOK(p), Finish(p)
    PROVE  ReaderOK(p)'
<1>1. pc[p] \in {"decode", "strict"} /\ ~MoreOps(p)
  BY DEF Finish
<1>2. CASE pc[p] = "decode" \/ ~WholeFileOk(p)
  BY <1>2, EndReads DEF Finish, ReaderOK, Place
<1>3. CASE pc[p] = "strict" /\ WholeFileOk(p)
  <2>1. /\ pc'[p] = "idle" /\ UNCHANGED <<job, draft, pos, out, missing, genome, exposed>>
        /\ job[p].cmd = "verify"
    BY <1>3 DEF Finish, End, CodecTypeOK, ReaderOK, Place, genomeVars, histVars
  <2>2. /\ pos[p] = Len(draft[p].ops) /\ Len(draft[p].ops) \in Nat
        /\ ContentSha(out[p]) = RecipeDigests(draft[p])
    BY <1>1, WholeRecipe DEF CodecTypeOK, SeedTypeOK, Seed
  <2>3. Place(p)' /\ Written(p)'
    BY <2>1 DEF ReaderOK, Place, Written, Encoding, OpDigest
  <2>4. Whole(p)'
    BY <1>3, <2>1, <2>2 DEF Whole, WholeFileOk, RecipeDigests, OpDigest
  <2>5. ASSUME p \notin exposed' PROVE Seen(p)'
    <3>1. \A i \in 1..Len(draft[p].ops) : IntactIn(genome, draft[p], i)
      BY <1>3, <2>1, <2>2, <2>5 DEF ReaderOK, Seen
    <3>2. \A i \in 1..Len(draft[p].ops) : ResolveIn(genome, draft[p], i) # Missing
      BY <3>1 DEF IntactIn
    <3>. QED
      BY <2>1, <3>1, <3>2 DEF Seen
  <2>. QED
    BY <2>3, <2>4, <2>5 DEF ReaderOK
<1>. QED
  BY <1>1, <1>2, <1>3

LEMMA AvailReads ==
    ASSUME CodecTypeOK, NEW p \in Proc, ReaderOK(p),
           CheckAvailable(p) \/ QuickDone(p) \/ StrictStart(p)
    PROVE  ReaderOK(p)'
<1>1. /\ pc[p] = "avail" /\ job[p].cmd = "verify" /\ pos[p] \in Nat
      /\ Len(draft[p].ops) \in Nat
      /\ UNCHANGED <<job, draft, out, genome, exposed>>
  <2>1. pos[p] \in Nat /\ Len(draft[p].ops) \in Nat
    BY DEF CodecTypeOK, SeedTypeOK, Seed
  <2>2. pc[p] = "avail" /\ UNCHANGED <<job, draft, out, genomeVars, histVars>>
    BY DEF CheckAvailable, QuickDone, StrictStart, Goto, End
  <2>. QED
    BY <2>1, <2>2 DEF ReaderOK, Place, genomeVars, histVars
<1>2. CASE CheckAvailable(p)
  <2>. DEFINE n == pos[p] + 1
              op == draft[p].ops[n]
  <2>1. pc' = pc /\ pos'[p] = n /\ MoreOps(p)
    BY <1>2 DEF CheckAvailable, CodecTypeOK
  <2>2. missing'[p] = {} => missing[p] = {}
                            /\ (draft[p].raw[op.index] # Missing
                                \/ HasChunk(draft[p].table[op.index]))
    BY <1>2 DEF CheckAvailable, CodecTypeOK
  <2>3. missing'[p] = {} => ResolveIn(genome, draft[p], n) # Missing
    BY <2>2 DEF ResolveIn, FirstFound, HasChunk
  <2>4. ASSUME p \notin exposed' PROVE Seen(p)'
    BY <1>1, <2>1, <2>2, <2>3, <2>4 DEF ReaderOK, Seen
  <2>5. Place(p)' /\ Written(p)' /\ Whole(p)'
    BY <1>1, <2>1 DEF ReaderOK, Place, Written, Whole, OpDigest
  <2>. QED
    BY <2>4, <2>5 DEF ReaderOK
<1>3. CASE QuickDone(p)
  <2>1. CASE missing[p] # {}
    BY <1>3, <2>1, EndReads DEF QuickDone
  <2>2. CASE missing[p] = {}
    <3>1. /\ pc'[p] = "idle" /\ ~job[p].strict /\ ~(pos[p] < Len(draft[p].ops))
      BY <1>3, <2>2 DEF QuickDone, End, CodecTypeOK, MoreOps
    <3>2. ASSUME p \notin exposed' PROVE Seen(p)'
      BY <1>1, <2>2, <3>1, <3>2 DEF ReaderOK, Seen
    <3>3. Place(p)' /\ Written(p)' /\ Whole(p)'
      BY <1>1, <3>1 DEF ReaderOK, Place, Written, Whole, OpDigest, Encoding
    <3>. QED
      BY <3>2, <3>3 DEF ReaderOK
  <2>. QED
    BY <2>1, <2>2
<1>4. CASE StrictStart(p)
  <2>1. pc'[p] = "strict" /\ pos'[p] = 0 /\ job[p].strict
    BY <1>4 DEF StrictStart, Goto, CodecTypeOK
  <2>2. Seen(p)' /\ Whole(p)'
    BY <1>1, <2>1 DEF Seen, Whole
  <2>3. Place(p)' /\ Written(p)'
    BY <1>1, <2>1 DEF ReaderOK, Place, Written, OpDigest, Encoding
  <2>. QED
    BY <2>2, <2>3 DEF ReaderOK
<1>. QED
  BY <1>2, <1>3, <1>4

LEMMA StepReads ==
    ASSUME CodecTypeOK, NEW p \in Proc, ReaderOK(p),
           CommandStart(p) \/ CommandStep(p) \/ Stops(p)
    PROVE  ReaderOK(p)'
<1>1. CASE SeedFlush(p) \/ PrimeDone(p)
  BY <1>1, EndReads DEF SeedFlush, PrimeDone, ReaderOK, Place, Encoding
<1>2. CASE IndexRefuse(p) \/ WriteTimeout(p) \/ ResolveFail(p) \/ Stops(p)
  BY <1>2, EndReads, StopShape DEF IndexRefuse, WriteTimeout, ResolveFail
<1>. QED
  BY <1>1, <1>2, StartReads, EncodeReads, ResolveReads, FinishReads, AvailReads DEF CommandStep

LEMMA ReadInit == CodecInit => ReadInv
<1>. SUFFICES ASSUME CodecInit, NEW p \in Proc PROVE ReaderOK(p)
  BY DEF ReadInv
<1>1. pc[p] = "idle" /\ job[p].cmd = "prime" /\ res[p] = "none"
  BY DEF CodecInit, Args
<1>2. Place(p) /\ Written(p) /\ Seen(p) /\ Whole(p)
  BY <1>1 DEF Place, Written, Seen, Whole, Encoding
<1>. QED
  BY <1>2 DEF ReaderOK

LEMMA ReadStep == CodecTypeOK /\ ReadInv /\ [CodecNext]_codecVars => ReadInv'
<1>. SUFFICES ASSUME CodecTypeOK, ReadInv, [CodecNext]_codecVars PROVE ReadInv'
  OBVIOUS
<1>1. ASSUME NEW p \in Proc, CommandStart(p) \/ CommandStep(p) \/ Stops(p) PROVE ReadInv'
  <2>1. ReaderOK(p)' /\ Own(p)
    BY <1>1, StepReads, StepOwn DEF ReadInv
  <2>2. ASSUME NEW q \in Proc, q # p PROVE ReaderOK(q)'
    BY <2>1, <2>2, StillReads DEF ReadInv, Own
  <2>. QED
    BY <2>1, <2>2 DEF ReadInv
<1>2. CASE \/ \E f \in Files : EditSource(f)
           \/ \E r \in Readers : ReaderOpens(r) \/ ReaderCloses(r)
           \/ Clear \/ Rot \/ UNCHANGED codecVars
  <2>1. ASSUME NEW q \in Proc PROVE ReaderOK(q)'
    <3>1. Still(q) /\ (q \notin exposed' => q \notin exposed /\ Grows)
      BY <1>2, Surroundings DEF Grows
    <3>. QED
      BY <3>1, StillReads DEF ReadInv
  <2>. QED
    BY <2>1 DEF ReadInv
<1>. QED
  BY <1>1, <1>2 DEF CodecNext, Stops

LEMMA ReadInvariant == CodecSpec => [](CodecTypeOK /\ ReadInv)
<1>1. CodecInit => CodecTypeOK /\ ReadInv
  BY CodecTypeInit, ReadInit
<1>2. CodecTypeOK /\ ReadInv /\ [CodecNext]_codecVars => CodecTypeOK' /\ ReadInv'
  BY CodecTypeStep, ReadStep
<1>. QED
  BY <1>1, <1>2, PTL DEF CodecSpec

\* Every byte a decode has written, finished or not, has the digest its recipe
\* names there, whatever the genome holds and whatever is cleared meanwhile.
THEOREM PrefixesGenuine == CodecSpec => []PrefixGenuine
<1>1. ReadInv => PrefixGenuine
  BY DEF ReadInv, ReaderOK, Written, PrefixGenuine
<1>. QED
  BY <1>1, ReadInvariant, PTL

\* A verify --strict that passed is still true as long as the genome is not
\* damaged, through any number of concurrent encodes and primes.
THEOREM StrictGateHolds == CodecSpec => []StrictGate
<1>1. ReadInv => StrictGate
  BY ResolveHere DEF ReadInv, ReaderOK, Seen, Whole, StrictGate
<1>. QED
  BY <1>1, ReadInvariant, PTL

\* After a quick verify that passed nothing the recipe needs is missing, as
\* long as the genome is not damaged.
THEOREM QuickGateHolds == CodecSpec => []QuickGate
<1>1. ReadInv => QuickGate
  BY ResolveHere DEF ReadInv, ReaderOK, Seen, QuickGate
<1>. QED
  BY <1>1, ReadInvariant, PTL

-----------------------------------------------------------------------------
(* The round trip.                                                          *)

OfVersion(digests, vs) == \E v \in vs : digests = ContentSha(v)

\* The digest of a manifest is that of something the source once held.
ShaOK(seed, vs) == seed.sha = Null \/ OfVersion(seed.sha, vs)

\* While no source is edited, a recipe follows the source it was made from.
Follows(seed, content, n) ==
    /\ Len(seed.ops) = n /\ n <= Len(content)
    /\ \A i \in 1..n : OpDigest(seed, i) = Sha[content[i]]

RecipeOK(p) ==
    /\ pc[p] \in {"index", "learn"} => Follows(draft[p], file[job[p].file], pos[p])
    /\ pc[p] = "learn" => MoreInput(p) /\ held[p] = NextChunk(p)
    /\ pc[p] \in {"stat", "hash", "open", "flush", "decode"} =>
           OfVersion(RecipeDigests(draft[p]), versions)

Decoded(p) ==
    /\ pc[p] = "idle" /\ job[p].cmd = "decode" /\ res[p] = "ok"
    /\ draft[p].sha # Null \/ edits = 0
    => out[p] \in versions

DraftOK(p) == ShaOK(draft[p], versions) /\ (edits = 0 => RecipeOK(p)) /\ Decoded(p)

SeedOK(seed) ==
    ShaOK(seed, versions) /\ (edits = 0 => OfVersion(RecipeDigests(seed), versions))

VersionInv ==
    /\ \A f \in Files : file[f] \in versions
    /\ \A s \in Seeds : IsSeed(s) => SeedOK(seeds[s])
    /\ \A p \in Proc : DraftOK(p)

LEMMA ContentSame ==
    ASSUME NEW a \in Seq(Content), NEW b \in Seq(Content), ContentSha(a) = ContentSha(b)
    PROVE  a = b
<1>1. Len(a) = Len(b)
  BY ContentShaType
<1>2. \A i \in 1..Len(a) : a[i] = b[i]
  <2>1. \A i \in 1..Len(a) : Sha[a[i]] = Sha[b[i]] /\ a[i] \in Content /\ b[i] \in Content
    BY <1>1, ContentShaType
  <2>. QED
    BY <2>1, ShaAssumption
<1>. QED
  BY <1>1, <1>2

LEMMA FollowsToEnd ==
    ASSUME NEW seed, NEW content, Follows(seed, content, Len(content))
    PROVE  RecipeDigests(seed) = ContentSha(content)
BY DEF Follows, RecipeDigests, ContentSha

LEMMA StillVersion ==
    ASSUME CodecTypeOK, NEW q \in Proc, DraftOK(q), Still(q), UNCHANGED <<file, versions, edits>>
    PROVE  DraftOK(q)'
<1>1. ShaOK(draft[q], versions)' /\ Decoded(q)'
  BY DEF DraftOK, Still, ShaOK, OfVersion, Decoded
<1>2. edits' = 0 => RecipeOK(q)'
  BY DEF DraftOK, Still, RecipeOK, MoreInput, NextChunk
<1>. QED
  BY <1>1, <1>2 DEF DraftOK

\* After an edit only manifests that carry a digest promise anything.
LEMMA EditVersion ==
    ASSUME CodecTypeOK, VersionInv, NEW f \in Files, EditSource(f)
    PROVE  VersionInv'
<1>1. /\ edits' = edits + 1 /\ edits \in Nat /\ versions \subseteq versions'
      /\ \A g \in Files : file'[g] = file[g] \/ file'[g] \in versions'
      /\ UNCHANGED <<seeds, pc, job, draft, res, out>>
  BY DEF EditSource, CodecTypeOK, procVars
<1>2. edits' # 0
  BY <1>1
<1>3. \A g \in Files : file'[g] \in versions'
  BY <1>1 DEF VersionInv
<1>4. ASSUME NEW s \in Seeds, IsSeed(s)' PROVE SeedOK(seeds[s])'
  BY <1>1, <1>2, <1>4 DEF VersionInv, IsSeed, Unreadable, SeedOK, ShaOK, OfVersion
<1>5. ASSUME NEW p \in Proc PROVE DraftOK(p)'
  BY <1>1, <1>2 DEF VersionInv, DraftOK, ShaOK, OfVersion, Decoded
<1>. QED
  BY <1>3, <1>4, <1>5 DEF VersionInv

\* The draft of p stays what it was.
LEMMA KeptVersion ==
    ASSUME CodecTypeOK, NEW p \in Proc, DraftOK(p), UNCHANGED <<file, versions, edits>>,
           draft'[p] = draft[p], job'[p] = job[p],
           pc'[p] \notin {"idle", "index", "learn"},
           pc'[p] \in {"stat", "hash", "open", "flush", "decode"} =>
               (edits = 0 => OfVersion(RecipeDigests(draft[p]), versions))
    PROVE  DraftOK(p)'
BY DEF DraftOK, ShaOK, OfVersion, Decoded, RecipeOK, RecipeDigests, OpDigest

LEMMA EndVersion ==
    ASSUME CodecTypeOK, NEW p \in Proc, DraftOK(p), NEW r, End(p, r),
           UNCHANGED <<file, versions, edits>>,
           r = "ok" /\ job[p].cmd = "decode" /\ (draft[p].sha # Null \/ edits = 0) =>
               out[p] \in versions
    PROVE  DraftOK(p)'
<1>1. /\ pc'[p] = "idle" /\ res'[p] = r /\ UNCHANGED <<job, draft, out>>
  BY DEF End, CodecTypeOK
<1>. QED
  BY <1>1 DEF DraftOK, ShaOK, OfVersion, Decoded, RecipeOK

LEMMA StartVersion ==
    ASSUME CodecTypeOK, VersionInv, NEW p \in Proc, CommandStart(p)
    PROVE  DraftOK(p)'
<1>1. UNCHANGED <<file, versions, edits>>
  BY StepOwn DEF Own
<1>2. CASE EncodeStart(p) \/ PrimeStart(p)
  <2>1. /\ pc'[p] = "index" \/ pc'[p] = "prime"
        /\ pos'[p] = 0 /\ \E b : draft'[p] = BlankSeed(b)
    BY <1>2 DEF EncodeStart, PrimeStart, Begin, CodecTypeOK
  <2>2. draft'[p].sha = Null /\ draft'[p].ops = <<>>
    BY <2>1 DEF BlankSeed
  <2>3. file'[job'[p].file] \in Seq(Content)
    <3>1. CodecTypeOK'
      BY <1>2, CodecTypeStep DEF CodecNext, CommandStart
    <3>2. job'[p].file \in Files
      BY <3>1 DEF CodecTypeOK, Job
    <3>. QED
      BY <3>1, <3>2, CodecAssumption DEF CodecTypeOK
  <2>4. ShaOK(draft[p], versions)' /\ Decoded(p)'
    BY <2>1, <2>2 DEF ShaOK, Decoded
  <2>5. Follows(draft[p], file[job[p].file], pos[p])'
    <3>1. Len(file'[job'[p].file]) \in Nat
      BY <2>3
    <3>. QED
      BY <2>1, <2>2, <3>1 DEF Follows
  <2>6. RecipeOK(p)'
    BY <2>1, <2>5 DEF RecipeOK
  <2>. QED
    BY <2>4, <2>6 DEF DraftOK
<1>3. CASE ReadStart(p)
  <2>1. PICK s \in Seeds : /\ IsSeed(s) /\ draft'[p] = seeds[s]
                           /\ pc'[p] \in {"decode", "avail"}
    BY <1>3 DEF ReadStart, Begin, CodecTypeOK
  <2>2. SeedOK(seeds[s])
    BY <2>1 DEF VersionInv
  <2>3. ShaOK(draft[p], versions)' /\ Decoded(p)'
    BY <1>1, <2>1, <2>2 DEF SeedOK, ShaOK, OfVersion, Decoded
  <2>4. edits' = 0 => RecipeOK(p)'
    BY <1>1, <2>1, <2>2 DEF SeedOK, OfVersion, RecipeOK, RecipeDigests, OpDigest
  <2>. QED
    BY <2>3, <2>4 DEF DraftOK
<1>4. CASE ReadTorn(p)
  BY <1>1, <1>4, EndVersion DEF ReadTorn, VersionInv
<1>. QED
  BY <1>2, <1>3, <1>4 DEF CommandStart

LEMMA RecordedVersion ==
    ASSUME CodecTypeOK, NEW p \in Proc, DraftOK(p), UNCHANGED <<file, versions, edits>>,
           pc[p] \in {"index", "learn"}, NEW chunk \in Content, NEW code \in {"REF", "RAW"},
           Recorded(p, chunk, code), Goto(p, "index"),
           edits = 0 => MoreInput(p) /\ chunk = NextChunk(p)
    PROVE  DraftOK(p)'
<1>. DEFINE e == Emit(draft[p], chunk, code)
            n == pos[p]
            content == file[job[p].file]
<1>1. SeedTypeOK(draft[p]) /\ Emitted(draft[p], chunk, code, e)
  BY EmitShape DEF CodecTypeOK
<1>2. /\ draft'[p] = e /\ pos'[p] = n + 1 /\ pc'[p] = "index" /\ job' = job
  BY DEF Recorded, Goto, CodecTypeOK
<1>. HIDE DEF e
<1>3. n \in Nat /\ Len(content) \in Nat
  BY InputChunk DEF CodecTypeOK
<1>4. ShaOK(draft[p], versions)' /\ Decoded(p)'
  BY <1>1, <1>2 DEF DraftOK, ShaOK, OfVersion, Decoded, Emitted
<1>5. ASSUME edits' = 0 PROVE RecipeOK(p)'
  <2>1. Follows(draft[p], content, n) /\ n < Len(content) /\ chunk = content[n + 1]
    BY <1>5 DEF DraftOK, RecipeOK, MoreInput, NextChunk
  <2>2. Len(e.ops) = n + 1 /\ n + 1 <= Len(content)
    BY <1>1, <1>3, <2>1 DEF Follows, Emitted
  <2>3. ASSUME NEW i \in 1..n PROVE OpDigest(e, i) = Sha[content[i]]
    <3>1. i \in 1..Len(draft[p].ops) /\ e.ops[i] = draft[p].ops[i]
      BY <1>1, <2>1 DEF Follows, Emitted
    <3>2. draft[p].ops[i].index \in 1..Len(draft[p].table)
      BY <1>1, <3>1 DEF SeedTypeOK
    <3>3. OpDigest(e, i) = OpDigest(draft[p], i)
      BY <1>1, <3>1, <3>2 DEF Emitted, OpDigest
    <3>. QED
      BY <2>1, <3>3 DEF Follows
  <2>4. OpDigest(e, n + 1) = Sha[content[n + 1]]
    BY <1>1, <2>1, <2>2 DEF Emitted
  <2>5. \A i \in 1..n + 1 : OpDigest(e, i) = Sha[content[i]]
    BY <1>3, <2>3, <2>4
  <2>6. Follows(e, content, n + 1)
    BY <2>2, <2>5 DEF Follows
  <2>. QED
    BY <1>2, <2>6 DEF RecipeOK
<1>. QED
  BY <1>4, <1>5 DEF DraftOK

LEMMA IndexVersion ==
    ASSUME CodecTypeOK, VersionInv, NEW p \in Proc, UNCHANGED <<file, versions, edits>>,
           IndexKnown(p) \/ IndexLearn(p) \/ IndexEmbed(p) \/ LearnPut(p) \/ IndexDone(p)
    PROVE  DraftOK(p)'
<1>1. DraftOK(p)
  BY DEF VersionInv
<1>2. CASE IndexKnown(p) \/ IndexEmbed(p)
  <2>1. /\ pc[p] = "index" /\ MoreInput(p) /\ Goto(p, "index")
        /\ \E code \in {"REF", "RAW"} : Recorded(p, NextChunk(p), code)
    BY <1>2 DEF IndexKnown, IndexEmbed
  <2>. QED
    BY <1>1, <2>1, InputChunk, RecordedVersion
<1>3. CASE LearnPut(p)
  <2>1. /\ pc[p] = "learn" /\ Goto(p, "index") /\ held[p] \in Content
        /\ \E code \in {"REF", "RAW"} : Recorded(p, held[p], code)
    BY <1>3 DEF LearnPut, CodecTypeOK
  <2>2. edits = 0 => MoreInput(p) /\ held[p] = NextChunk(p)
    BY <1>1, <2>1 DEF DraftOK, RecipeOK
  <2>. QED
    BY <1>1, <2>1, <2>2, RecordedVersion
<1>4. CASE IndexLearn(p)
  <2>1. /\ pc[p] = "index" /\ pc'[p] = "learn" /\ MoreInput(p) /\ held'[p] = NextChunk(p)
        /\ UNCHANGED <<job, draft, pos>>
    BY <1>4 DEF IndexLearn, CodecTypeOK
  <2>. QED
    BY <1>1, <2>1 DEF DraftOK, ShaOK, OfVersion, Decoded, RecipeOK, MoreInput, NextChunk
<1>5. CASE IndexDone(p)
  <2>1. /\ pc[p] = "index" /\ ~MoreInput(p) /\ pc'[p] \in {"open", "stat"}
        /\ UNCHANGED <<job, draft>>
    BY <1>5 DEF IndexDone, Goto, CodecTypeOK
  <2>2. /\ file[job[p].file] \in Seq(Content) /\ pos[p] \in Nat
        /\ file[job[p].file] \in versions
    BY InputChunk DEF VersionInv, CodecTypeOK, Job
  <2>3. ASSUME edits = 0 PROVE OfVersion(RecipeDigests(draft[p]), versions)
    <3>1. Follows(draft[p], file[job[p].file], pos[p])
      BY <1>1, <2>1, <2>3 DEF DraftOK, RecipeOK
    <3>2. pos[p] = Len(file[job[p].file])
      BY <2>1, <2>2, <3>1 DEF Follows, MoreInput
    <3>. QED
      BY <2>2, <3>1, <3>2, FollowsToEnd DEF OfVersion
  <2>. QED
    BY <1>1, <2>1, <2>3, KeptVersion
<1>. QED
  BY <1>2, <1>3, <1>4, <1>5

LEMMA ManifestVersion ==
    ASSUME CodecTypeOK, VersionInv, NEW p \in Proc, UNCHANGED <<file, versions, edits>>,
           ManifestStat(p) \/ ManifestHash(p)
    PROVE  DraftOK(p)'
<1>1. /\ DraftOK(p) /\ file[job[p].file] \in versions /\ draft[p] \in Seed
  BY DEF VersionInv, CodecTypeOK, Job, SeedTypeOK
<1>2. /\ pc[p] \in {"stat", "hash"} /\ pc'[p] \in {"hash", "open"}
  BY DEF ManifestStat, ManifestHash, Goto, CodecTypeOK
<1>3. /\ draft'[p].ops = draft[p].ops /\ draft'[p].table = draft[p].table
      /\ draft'[p].sha \in {draft[p].sha, ContentSha(file[job[p].file])}
  <2>1. CASE ManifestStat(p)
    <3>1. draft'[p] = [draft[p] EXCEPT !.size = Len(file[job[p].file])]
      BY <2>1 DEF ManifestStat, CodecTypeOK
    <3>. QED
      BY <1>1, <3>1 DEF Seed
  <2>2. CASE ManifestHash(p)
    <3>1. draft'[p] = [draft[p] EXCEPT !.sha = ContentSha(file[job[p].file])]
      BY <2>2 DEF ManifestHash, CodecTypeOK
    <3>. QED
      BY <1>1, <3>1 DEF Seed
  <2>. QED
    BY <2>1, <2>2
<1>4. ShaOK(draft[p], versions)'
  BY <1>1, <1>3 DEF DraftOK, ShaOK, OfVersion
<1>5. RecipeDigests(draft'[p]) = RecipeDigests(draft[p])
  BY <1>3 DEF RecipeDigests, OpDigest
<1>6. edits' = 0 => OfVersion(RecipeDigests(draft'[p]), versions')
  BY <1>1, <1>2, <1>5 DEF DraftOK, RecipeOK
<1>. QED
  BY <1>2, <1>4, <1>6 DEF DraftOK, RecipeOK, Decoded

LEMMA FinishVersion ==
    ASSUME CodecTypeOK, ReadInv, VersionInv, NEW p \in Proc, UNCHANGED <<file, versions, edits>>,
           Finish(p)
    PROVE  DraftOK(p)'
<1>1. /\ DraftOK(p) /\ ReaderOK(p)
      /\ pc[p] \in {"decode", "strict"} /\ ~MoreOps(p)
      /\ End(p, IF WholeFileOk(p) THEN "ok" ELSE "mismatch")
  BY DEF VersionInv, ReadInv, Finish
<1>2. out[p] \in Seq(Content) /\ versions \subseteq Seq(Content)
  BY CodecAssumption DEF CodecTypeOK
<1>3. ContentSha(out[p]) = RecipeDigests(draft[p])
  BY <1>1, WholeRecipe
<1>4. ASSUME WholeFileOk(p), job[p].cmd = "decode", draft[p].sha # Null \/ edits = 0
      PROVE  out[p] \in versions
  <2>1. pc[p] = "decode"
    BY <1>1, <1>4 DEF ReaderOK, Place
  <2>2. OfVersion(ContentSha(out[p]), versions)
    <3>1. CASE draft[p].sha # Null
      BY <1>1, <1>4, <3>1 DEF WholeFileOk, DraftOK, ShaOK
    <3>2. CASE edits = 0
      BY <1>1, <1>3, <2>1, <3>2 DEF DraftOK, RecipeOK
    <3>. QED
      BY <1>4, <3>1, <3>2
  <2>3. PICK v \in versions : ContentSha(out[p]) = ContentSha(v)
    BY <2>2 DEF OfVersion
  <2>. QED
    BY <1>2, <2>3, ContentSame
<1>. QED
  BY <1>1, <1>4, EndVersion

LEMMA StepVersion ==
    ASSUME CodecTypeOK, ReadInv, VersionInv, NEW p \in Proc,
           CommandStart(p) \/ CommandStep(p) \/ Stops(p)
    PROVE  DraftOK(p)'
<1>1. UNCHANGED <<file, versions, edits>> /\ DraftOK(p) /\ Place(p)
  BY StepOwn DEF Own, VersionInv, ReadInv, ReaderOK
<1>2. CASE SeedFlush(p) \/ PrimeDone(p)
  BY <1>1, <1>2, EndVersion DEF SeedFlush, PrimeDone, Place, Encoding
<1>3. CASE IndexRefuse(p) \/ WriteTimeout(p) \/ ResolveFail(p) \/ Stops(p)
  BY <1>1, <1>3, EndVersion, StopShape DEF IndexRefuse, WriteTimeout, ResolveFail
<1>4. CASE QuickDone(p)
  BY <1>1, <1>4, EndVersion DEF QuickDone, Place
<1>5. CASE SeedOpen(p) \/ PrimePut(p) \/ ResolveOk(p) \/ CheckAvailable(p) \/ StrictStart(p)
  <2>1. /\ draft'[p] = draft[p] /\ job'[p] = job[p]
        /\ \/ pc[p] = "open" /\ pc'[p] = "flush"
           \/ pc[p] = "decode" /\ pc'[p] = "decode"
           \/ pc'[p] \in {"prime", "avail", "strict"}
    BY <1>5 DEF SeedOpen, PrimePut, ResolveOk, CheckAvailable, StrictStart, Goto, CodecTypeOK
  <2>2. pc'[p] \in {"flush", "decode"} =>
            (edits = 0 => OfVersion(RecipeDigests(draft[p]), versions))
    BY <1>1, <2>1 DEF DraftOK, RecipeOK
  <2>. QED
    BY <1>1, <2>1, <2>2, KeptVersion
<1>. QED
  BY <1>1, <1>2, <1>3, <1>4, <1>5, StartVersion, IndexVersion, ManifestVersion, FinishVersion
     DEF CommandStep

\* A written seed is the draft of an encoder that has seen its whole source.
LEMMA SeedsVersion ==
    ASSUME CodecTypeOK, VersionInv, NEW p \in Proc,
           CommandStart(p) \/ CommandStep(p) \/ Stops(p), NEW s \in Seeds, IsSeed(s)'
    PROVE  SeedOK(seeds[s])'
<1>1. UNCHANGED <<file, versions, edits>> /\ DraftOK(p)
  BY StepOwn DEF Own, VersionInv
<1>2. CASE seeds'[s] = seeds[s]
  <2>1. SeedOK(seeds[s])
    BY <1>2 DEF VersionInv, IsSeed, Unreadable
  <2>. QED
    BY <1>1, <1>2, <2>1 DEF SeedOK, ShaOK, OfVersion, RecipeDigests, OpDigest
<1>3. CASE seeds'[s] # seeds[s]
  <2>0. ~Stops(p)
    BY <1>3, StopShape, StopSeeds
  <2>1. SeedOpen(p) \/ SeedFlush(p)
    BY <1>3, <2>0 DEF CommandStart, CommandStep, EncodeStart, PrimeStart, ReadStart, ReadTorn,
         IndexKnown, IndexLearn, IndexEmbed, IndexRefuse, LearnPut, IndexDone,
         ManifestStat, ManifestHash, PrimePut, PrimeDone, WriteTimeout, ResolveOk,
         ResolveFail, Finish, CheckAvailable, QuickDone, StrictStart, diskVars
  <2>2. CASE SeedOpen(p)
    BY <1>3, <2>2 DEF SeedOpen, IsSeed, Unreadable, CodecTypeOK
  <2>3. CASE SeedFlush(p)
    <3>1. seeds'[s] = draft[p] /\ pc[p] = "flush"
      BY <1>3, <2>3 DEF SeedFlush, CodecTypeOK, IsSeed, Unreadable
    <3>2. ShaOK(draft[p], versions)
          /\ (edits = 0 => OfVersion(RecipeDigests(draft[p]), versions))
      BY <1>1, <3>1 DEF DraftOK, RecipeOK
    <3>. QED
      BY <1>1, <3>1, <3>2 DEF SeedOK, ShaOK, OfVersion, RecipeDigests, OpDigest
  <2>. QED
    BY <2>1, <2>2, <2>3
<1>. QED
  BY <1>2, <1>3

LEMMA VersionInit == CodecInit => VersionInv
<1>. SUFFICES ASSUME CodecInit PROVE VersionInv
  OBVIOUS
<1>1. \A f \in Files : file[f] \in versions
  BY DEF CodecInit
<1>2. \A s \in Seeds : ~IsSeed(s)
  BY DEF CodecInit, IsSeed, Unreadable
<1>3. ASSUME NEW p \in Proc PROVE DraftOK(p)
  <2>1. pc[p] = "idle" /\ res[p] = "none" /\ draft[p].sha = Null
    BY DEF CodecInit, BlankSeed
  <2>. QED
    BY <2>1 DEF DraftOK, ShaOK, RecipeOK, Decoded
<1>. QED
  BY <1>1, <1>2, <1>3 DEF VersionInv

LEMMA VersionStep ==
    CodecTypeOK /\ ReadInv /\ VersionInv /\ [CodecNext]_codecVars => VersionInv'
<1>. SUFFICES ASSUME CodecTypeOK, ReadInv, VersionInv, [CodecNext]_codecVars PROVE VersionInv'
  OBVIOUS
<1>1. ASSUME NEW p \in Proc, CommandStart(p) \/ CommandStep(p) \/ Stops(p) PROVE VersionInv'
  <2>1. DraftOK(p)' /\ Own(p) /\ \A s \in Seeds : IsSeed(s)' => SeedOK(seeds[s])'
    BY <1>1, StepVersion, StepOwn, SeedsVersion
  <2>2. ASSUME NEW q \in Proc, q # p PROVE DraftOK(q)'
    BY <2>1, <2>2, StillVersion DEF VersionInv, Own
  <2>. QED
    BY <2>1, <2>2 DEF VersionInv, Own
<1>2. ASSUME NEW f \in Files, EditSource(f) PROVE VersionInv'
  BY <1>2, EditVersion
<1>3. CASE /\ \/ \E r \in Readers : ReaderOpens(r) \/ ReaderCloses(r)
              \/ Clear \/ Rot \/ UNCHANGED codecVars
           /\ ~\E f \in Files : EditSource(f)
  <2>1. (\A q \in Proc : Still(q)) /\ UNCHANGED <<seeds, file, versions, edits>>
    BY <1>3, Surroundings
  <2>2. \A q \in Proc : DraftOK(q)'
    BY <2>1, StillVersion DEF VersionInv
  <2>3. ASSUME NEW s \in Seeds, IsSeed(s)' PROVE SeedOK(seeds[s])'
    BY <2>1, <2>3 DEF VersionInv, IsSeed, Unreadable, SeedOK, ShaOK, OfVersion, RecipeDigests, OpDigest
  <2>. QED
    BY <2>1, <2>2, <2>3 DEF VersionInv
<1>. QED
  BY <1>1, <1>2, <1>3 DEF CodecNext, Stops

\* A decode that returns gives the file back as some source once held it, for
\* any contents and processes: the encoder reads its source three times with
\* edits in between, the genome is cleared and decays while the decode runs.
THEOREM RoundTrips == CodecSpec => []RoundTrip
<1>1. CodecInit => VersionInv
  BY VersionInit
<1>2. CodecTypeOK /\ ReadInv /\ VersionInv /\ [CodecNext]_codecVars => VersionInv'
  BY VersionStep
<1>3. VersionInv => RoundTrip
  BY DEF VersionInv, DraftOK, Decoded, RoundTrip
<1>. QED
  BY <1>1, <1>2, <1>3, ReadInvariant, PTL DEF CodecSpec
=============================================================================
