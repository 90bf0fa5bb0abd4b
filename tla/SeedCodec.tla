------------------------------ MODULE SeedCodec ------------------------------
(***************************************************************************)
(* The codec of src/seedbraid/codec.py: encode, decode, verify and genome  *)
(* prime, run as separate processes over one genome, the source files and  *)
(* the seed files.                                                         *)
(*                                                                         *)
(* A process runs one command at a time.  Between any two of its reads and *)
(* writes other processes may commit rows, users may edit the sources, and *)
(* the process may be killed.  A file is the sequence of chunks the        *)
(* chunker cuts it into, each of size one.                                 *)
(***************************************************************************)
EXTENDS GenomeStore, Sequences

CONSTANTS
    Proc,           \* processes (CLI invocations)
    Readers,        \* other processes, which iterate over the genome
    Files,          \* paths of source files
    Seeds,          \* paths of seed files
    Sources,        \* contents a source file may be given
    Null,           \* a manifest field written as null
    NoSeed,         \* a seed path that does not exist
    Empty, Torn,    \* a file of no bytes; one with bytes that do not parse
    MaxCommands,    \* bound on commands started
    MaxEdits,       \* bound on edits of source files
    MaxDamages,     \* bound on clears and decays of the genome
    MaxCrashes      \* bound on killed processes and failed writes

ASSUME CodecAssumption ==
    /\ Sources \subseteq Seq(Content)
    /\ Files # {} /\ Seeds # {} /\ Proc \intersect Seeds = {}
    /\ {MaxCommands, MaxEdits, MaxDamages, MaxCrashes} \subseteq Nat

VARIABLES
    file,       \* source path -> the content it holds now
    seeds,      \* seed path -> seed record, NoSeed, Empty or Torn
    pc,         \* process -> what it does next
    job,        \* process -> arguments of its command
    draft,      \* process -> the seed it builds (encode) or has read
    pos,        \* process -> chunks or ops done
    held,       \* process -> the chunk it is about to put
    missing,    \* process -> digests verify found nowhere
    out,        \* process -> the file a decode has written so far
    res,        \* process -> how its last command ended
    started, edits, damages, crashes,   \* counters of the bounds
    versions,   \* history: every content a source ever held
    exposed,    \* history: processes and seeds that began before the last damage
    spoilt      \* history: seed paths whose last write was cut short, or ran
                \* over another one

procVars == <<pc, job, draft, pos, held, missing, out, res>>
diskVars == <<file, seeds>>
boundVars == <<started, edits, damages, crashes>>
histVars == <<versions, exposed, spoilt>>
codecVars == <<genomeVars, diskVars, procVars, boundVars, histVars>>

-----------------------------------------------------------------------------
(* Seeds.                                                                   *)

Op == [code : {"REF", "RAW"}, index : Nat]

Seed == [table : Seq(Digest), ops : Seq(Op), raw : Seq(Row),
         sha : Seq(Digest) \union {Null}, size : Nat \union {Null},
         portable : BOOLEAN]

\* A file that does not parse, or does not exist, is no seed.
ASSUME TornAssumption ==
    /\ {Empty, Torn} \intersect Seed = {}
    /\ NoSeed \notin {Empty, Torn} /\ Empty # Torn

BlankSeed(isPortable) ==
    [table |-> <<>>, ops |-> <<>>, raw |-> <<>>,
     sha |-> Null, size |-> Null, portable |-> isPortable]

\* The SHA-256 of a whole file, told apart exactly when the contents are.
ContentSha(content) == [i \in 1..Len(content) |-> Sha[content[i]]]

InTable(seed, d) == \E i \in 1..Len(seed.table) : seed.table[i] = d

\* hash_to_index: a digest enters the table once, with no payload yet.
Enter(seed, d) ==
    IF InTable(seed, d) THEN seed
    ELSE [seed EXCEPT !.table = Append(@, d), !.raw = Append(@, Missing)]

IndexOf(seed, d) == CHOOSE i \in 1..Len(seed.table) : seed.table[i] = d

\* One more op for the chunk; a RAW op also embeds it.
Emit(seed, chunk, code) ==
    LET entered == Enter(seed, Sha[chunk])
        i       == IndexOf(entered, Sha[chunk])
    IN  [entered EXCEPT
            !.ops = Append(@, [code |-> code, index |-> i]),
            !.raw[i] = IF code = "RAW" THEN chunk ELSE @]

OpDigest(seed, i) == seed.table[seed.ops[i].index]

\* The digests of the file the recipe describes, in order.
RecipeDigests(seed) == [i \in 1..Len(seed.ops) |-> OpDigest(seed, i)]

FirstFound(a, b) == IF a # Missing THEN a ELSE b

\* _resolve_chunk before its hash checks: REF asks the genome first, RAW the
\* payloads of the seed.
Resolve(seed, i) ==
    LET op  == seed.ops[i]
        row == GetChunk(seed.table[op.index])
        raw == seed.raw[op.index]
    IN  IF op.code = "REF" THEN FirstFound(row, raw) ELSE FirstFound(raw, row)

\* Faulty variant: a chunk that is found is not hashed.
IntactUnhashed(seed, i) == Resolve(seed, i) # Missing

Intact(seed, i) ==
    /\ Resolve(seed, i) # Missing
    /\ Sha[Resolve(seed, i)] = OpDigest(seed, i)

Unreadable(s) == seeds[s] \in {Empty, Torn}
IsSeed(s) == seeds[s] # NoSeed /\ ~Unreadable(s)

-----------------------------------------------------------------------------
(* Starting and ending a command.                                           *)

Phase == {"idle", "index", "learn", "stat", "hash", "open", "flush",
          "prime", "decode", "avail", "strict"}

Result == {"none", "ok", "missing", "mismatch", "refused", "badseed",
           "locked", "failed", "killed"}

Job == [cmd : {"encode", "prime", "decode", "verify"}, file : Files,
        seed : Seeds, learn : BOOLEAN, private : BOOLEAN, strict : BOOLEAN]

\* Arguments a command does not take are fixed, so that they tell nothing apart.
Args(cmd, f, s, learn, private, strict) ==
    [cmd |-> cmd, file |-> f, seed |-> s, learn |-> learn,
     private |-> private, strict |-> strict]
AnyFile == CHOOSE f \in Files : TRUE
AnySeed == CHOOSE s \in Seeds : TRUE

Begin(p, phase, j, seed) ==
    /\ pc[p] = "idle"
    /\ started < MaxCommands
    /\ started' = started + 1
    /\ pc' = [pc EXCEPT ![p] = phase]
    /\ job' = [job EXCEPT ![p] = j]
    /\ draft' = [draft EXCEPT ![p] = seed]
    /\ pos' = [pos EXCEPT ![p] = 0]
    /\ missing' = [missing EXCEPT ![p] = {}]
    /\ out' = [out EXCEPT ![p] = <<>>]
    /\ res' = [res EXCEPT ![p] = "none"]
    /\ exposed' = exposed \ {p}
    /\ UNCHANGED <<held, edits, damages, crashes, versions, spoilt>>

\* p stops with result r, having changed nothing else of its own.
End(p, r) ==
    /\ pc' = [pc EXCEPT ![p] = "idle"]
    /\ res' = [res EXCEPT ![p] = r]
    /\ UNCHANGED <<job, draft, pos, held, missing, out>>

Goto(p, phase) ==
    /\ pc' = [pc EXCEPT ![p] = phase]
    /\ UNCHANGED <<job, held, missing, out, res>>

-----------------------------------------------------------------------------
(* encode_file.                                                             *)

\* Faulty variant: the output is opened before the input is read.
EncodeStartTruncating(p) ==
    \E f \in Files, s \in Seeds, learn, portable, private \in BOOLEAN :
        /\ Begin(p, "index", Args("encode", f, s, learn, private, FALSE),
                 BlankSeed(portable))
        /\ seeds' = [seeds EXCEPT ![s] = Empty]
        /\ UNCHANGED <<genomeVars, file>>

\* Any number of encoders may be pointed at the same output path.
EncodeStart(p) ==
    \E f \in Files, s \in Seeds, learn, portable, private \in BOOLEAN :
        /\ Begin(p, "index", Args("encode", f, s, learn, private, FALSE),
                 BlankSeed(portable))
        /\ UNCHANGED <<genomeVars, diskVars>>

MoreInput(p) == pos[p] < Len(file[job[p].file])

NextChunk(p) == file[job[p].file][pos[p] + 1]

Recorded(p, chunk, code) ==
    /\ draft' = [draft EXCEPT ![p] = Emit(@, chunk, code)]
    /\ pos' = [pos EXCEPT ![p] = @ + 1]

\* has_chunk: the genome knows the chunk, the seed only refers to it.
IndexKnown(p) ==
    /\ pc[p] = "index" /\ MoreInput(p)
    /\ HasChunk(Sha[NextChunk(p)])
    /\ Recorded(p, NextChunk(p), "REF")
    /\ Goto(p, "index")
    /\ UNCHANGED <<genomeVars, diskVars, boundVars, histVars>>

\* Unknown, and to be learned: the put is a later step.
IndexLearn(p) ==
    /\ pc[p] = "index" /\ MoreInput(p)
    /\ ~HasChunk(Sha[NextChunk(p)])
    /\ job[p].learn
    /\ pc' = [pc EXCEPT ![p] = "learn"]
    /\ held' = [held EXCEPT ![p] = NextChunk(p)]
    /\ UNCHANGED <<job, draft, pos, missing, out, res,
                   genomeVars, diskVars, boundVars, histVars>>

\* Faulty variant: the payload of an unlearned chunk is not embedded.
IndexEmbedAsRef(p) ==
    /\ pc[p] = "index" /\ MoreInput(p)
    /\ ~HasChunk(Sha[NextChunk(p)])
    /\ ~job[p].learn /\ draft[p].portable
    /\ Recorded(p, NextChunk(p), "REF")
    /\ Goto(p, "index")
    /\ UNCHANGED <<genomeVars, diskVars, boundVars, histVars>>

\* Unknown and only embedded.
IndexEmbed(p) ==
    /\ pc[p] = "index" /\ MoreInput(p)
    /\ ~HasChunk(Sha[NextChunk(p)])
    /\ ~job[p].learn /\ draft[p].portable
    /\ Recorded(p, NextChunk(p), "RAW")
    /\ Goto(p, "index")
    /\ UNCHANGED <<genomeVars, diskVars, boundVars, histVars>>

\* Unknown under --no-learn and --no-portable.
IndexRefuse(p) ==
    /\ pc[p] = "index" /\ MoreInput(p)
    /\ ~HasChunk(Sha[NextChunk(p)])
    /\ ~job[p].learn /\ ~draft[p].portable
    /\ End(p, "refused")
    /\ UNCHANGED <<genomeVars, diskVars, boundVars, histVars>>

\* Faulty variant: the insert is never committed.
LearnPutUncommitted(p) ==
    /\ pc[p] = "learn"
    /\ Recorded(p, held[p], IF draft[p].portable THEN "RAW" ELSE "REF")
    /\ Goto(p, "index")
    /\ UNCHANGED <<genomeVars, diskVars, boundVars, histVars>>

\* put_chunk of the held chunk, whoever stored it in the meantime.
LearnPut(p) ==
    /\ pc[p] = "learn"
    /\ PutChunk(p, Sha[held[p]], held[p])
    /\ Recorded(p, held[p], IF draft[p].portable THEN "RAW" ELSE "REF")
    /\ Goto(p, "index")
    /\ UNCHANGED <<cursors, diskVars, boundVars, histVars>>

IndexDone(p) ==
    /\ pc[p] = "index" /\ ~MoreInput(p)
    /\ Goto(p, IF job[p].private THEN "open" ELSE "stat")
    /\ UNCHANGED <<draft, pos, genomeVars, diskVars, boundVars, histVars>>

\* _build_manifest looks at the source again: first its size ...
ManifestStat(p) ==
    /\ pc[p] = "stat"
    /\ draft' = [draft EXCEPT ![p].size = Len(file[job[p].file])]
    /\ Goto(p, "hash")
    /\ UNCHANGED <<pos, genomeVars, diskVars, boundVars, histVars>>

\* ... then its bytes.
ManifestHash(p) ==
    /\ pc[p] = "hash"
    /\ draft' = [draft EXCEPT ![p].sha = ContentSha(file[job[p].file])]
    /\ Goto(p, "open")
    /\ UNCHANGED <<pos, genomeVars, diskVars, boundVars, histVars>>

\* write_seed writes in place: opening truncates what was there ...
SeedOpen(p) ==
    /\ pc[p] = "open"
    /\ seeds' = [seeds EXCEPT ![job[p].seed] = Empty]
    /\ Goto(p, "flush")
    /\ UNCHANGED <<draft, pos, file, genomeVars, boundVars, histVars>>

\* ... and the bytes follow.  What another writer has put there since may
\* reach beyond them, and the parser refuses bytes behind the last section.
SeedFlush(p) ==
    LET s == job[p].seed
    IN  /\ pc[p] = "flush"
        /\ \E tail \in IF seeds[s] = Empty THEN {FALSE} ELSE BOOLEAN :
            /\ seeds' = [seeds EXCEPT ![s] = IF tail THEN Torn ELSE draft[p]]
            /\ spoilt' = IF tail THEN spoilt \union {s} ELSE spoilt \ {s}
        /\ exposed' = IF p \in exposed THEN exposed \union {s} ELSE exposed \ {s}
        /\ End(p, "ok")
        /\ UNCHANGED <<file, genomeVars, boundVars, versions>>

\* p stops; of the bytes it was writing none, or a part, are out.
CutWrite(p) ==
    LET s == job[p].seed
    IN  IF pc[p] = "flush"
        THEN /\ seeds' \in {seeds, [seeds EXCEPT ![s] = Torn]}
             /\ spoilt' = IF seeds'[s] \in {Empty, Torn} THEN spoilt \union {s} ELSE spoilt
        ELSE UNCHANGED <<seeds, spoilt>>

\* An OSError of the open or of the write: no permission, a full disk.
SeedWriteFails(p) ==
    /\ pc[p] \in {"open", "flush"}
    /\ crashes < MaxCrashes
    /\ crashes' = crashes + 1
    /\ CutWrite(p)
    /\ End(p, "failed")
    /\ UNCHANGED <<file, genomeVars, started, edits, damages, versions, exposed>>

-----------------------------------------------------------------------------
(* prime_genome: puts without asking first.                                 *)

PrimeStart(p) ==
    \E f \in Files :
        /\ Begin(p, "prime", Args("prime", f, AnySeed, FALSE, FALSE, FALSE),
                 BlankSeed(FALSE))
        /\ UNCHANGED <<genomeVars, diskVars>>

PrimePut(p) ==
    /\ pc[p] = "prime" /\ MoreInput(p)
    /\ PutChunk(p, Sha[NextChunk(p)], NextChunk(p))
    /\ pos' = [pos EXCEPT ![p] = @ + 1]
    /\ Goto(p, "prime")
    /\ UNCHANGED <<draft, cursors, diskVars, boundVars, histVars>>

PrimeDone(p) ==
    /\ pc[p] = "prime" /\ ~MoreInput(p)
    /\ End(p, "ok")
    /\ UNCHANGED <<genomeVars, diskVars, boundVars, histVars>>

\* The busy timeout of a put expires: an OperationalError ends the command.
WriteTimeout(p) ==
    /\ pc[p] = "learn" \/ (pc[p] = "prime" /\ MoreInput(p))
    /\ ~CanCommit(p)
    /\ End(p, "locked")
    /\ UNCHANGED <<genomeVars, diskVars, boundVars, histVars>>

-----------------------------------------------------------------------------
(* decode_file and verify_seed.                                             *)

\* read_seed, then the output is truncated (decode) or the availability
\* check begins (verify).
ReadStart(p) ==
    \E s \in Seeds, cmd \in {"decode", "verify"}, strict \in BOOLEAN :
        /\ IsSeed(s)
        /\ cmd = "decode" => ~strict
        /\ Begin(p, IF cmd = "decode" THEN "decode" ELSE "avail",
                 Args(cmd, AnyFile, s, FALSE, FALSE, strict), seeds[s])
        /\ UNCHANGED <<genomeVars, diskVars>>

\* An empty or torn file does not parse: SeedFormatError, nothing is touched.
ReadTorn(p) ==
    /\ pc[p] = "idle"
    /\ started < MaxCommands
    /\ \E s \in Seeds : Unreadable(s)
    /\ started' = started + 1
    /\ End(p, "badseed")
    /\ UNCHANGED <<genomeVars, diskVars, edits, damages, crashes, histVars>>

MoreOps(p) == pos[p] < Len(draft[p].ops)

\* One _resolve_chunk: of decode, or of verify --strict.
ResolveOk(p) ==
    /\ pc[p] \in {"decode", "strict"} /\ MoreOps(p)
    /\ Intact(draft[p], pos[p] + 1)
    /\ out' = [out EXCEPT ![p] = Append(@, Resolve(draft[p], pos[p] + 1))]
    /\ pos' = [pos EXCEPT ![p] = @ + 1]
    /\ UNCHANGED <<pc, job, draft, held, missing, res,
                   genomeVars, diskVars, boundVars, histVars>>

ResolveFail(p) ==
    /\ pc[p] \in {"decode", "strict"} /\ MoreOps(p)
    /\ ~Intact(draft[p], pos[p] + 1)
    /\ End(p, IF Resolve(draft[p], pos[p] + 1) = Missing THEN "missing" ELSE "mismatch")
    /\ UNCHANGED <<genomeVars, diskVars, boundVars, histVars>>

\* Faulty variant: the chunk hashes are trusted to imply the whole.
WholeFileUnchecked(p) == TRUE

\* The whole-file checks, skipped for what a private manifest leaves null.
\* Only verify --strict compares the size.
WholeFileOk(p) ==
    /\ draft[p].sha # Null => ContentSha(out[p]) = draft[p].sha
    /\ pc[p] = "strict" /\ draft[p].size # Null => Len(out[p]) = draft[p].size

Finish(p) ==
    /\ pc[p] \in {"decode", "strict"} /\ ~MoreOps(p)
    /\ End(p, IF WholeFileOk(p) THEN "ok" ELSE "mismatch")
    /\ UNCHANGED <<genomeVars, diskVars, boundVars, histVars>>

\* Faulty variant: the list of missing chunks is restarted at each op.
CheckAvailableForgetting(p) ==
    LET op == draft[p].ops[pos[p] + 1]
        d  == draft[p].table[op.index]
    IN  /\ pc[p] = "avail" /\ MoreOps(p)
        /\ missing' = [missing EXCEPT ![p] =
              IF draft[p].raw[op.index] # Missing \/ HasChunk(d) THEN {} ELSE {d}]
        /\ pos' = [pos EXCEPT ![p] = @ + 1]
        /\ UNCHANGED <<pc, job, draft, held, out, res,
                       genomeVars, diskVars, boundVars, histVars>>

\* _check_chunk_availability: has_chunk only, and only without a payload.
CheckAvailable(p) ==
    LET op == draft[p].ops[pos[p] + 1]
        d  == draft[p].table[op.index]
    IN  /\ pc[p] = "avail" /\ MoreOps(p)
        /\ missing' = [missing EXCEPT ![p] =
              IF draft[p].raw[op.index] # Missing \/ HasChunk(d) THEN @
              ELSE @ \union {d}]
        /\ pos' = [pos EXCEPT ![p] = @ + 1]
        /\ UNCHANGED <<pc, job, draft, held, out, res,
                       genomeVars, diskVars, boundVars, histVars>>

\* Faulty variant: availability decides a strict verify as well.
QuickDoneForAll(p) ==
    /\ pc[p] = "avail" /\ ~MoreOps(p)
    /\ End(p, IF missing[p] # {} THEN "missing" ELSE "ok")
    /\ UNCHANGED <<genomeVars, diskVars, boundVars, histVars>>

\* Availability alone decides a quick verify.
QuickDone(p) ==
    /\ pc[p] = "avail" /\ ~MoreOps(p)
    /\ missing[p] # {} \/ ~job[p].strict
    /\ End(p, IF missing[p] # {} THEN "missing" ELSE "ok")
    /\ UNCHANGED <<genomeVars, diskVars, boundVars, histVars>>

StrictStart(p) ==
    /\ pc[p] = "avail" /\ ~MoreOps(p)
    /\ missing[p] = {} /\ job[p].strict
    /\ pos' = [pos EXCEPT ![p] = 0]
    /\ Goto(p, "strict")
    /\ UNCHANGED <<draft, genomeVars, diskVars, boundVars, histVars>>

-----------------------------------------------------------------------------
(* The environment.                                                         *)

\* The process is killed; what it committed stays.
Kill(p) ==
    /\ pc[p] # "idle"
    /\ crashes < MaxCrashes
    /\ crashes' = crashes + 1
    /\ CutWrite(p)
    /\ End(p, "killed")
    /\ UNCHANGED <<file, genomeVars, started, edits, damages, versions, exposed>>

\* A user rewrites a source file.
EditSource(f) ==
    /\ edits < MaxEdits
    /\ \E content \in Sources :
        /\ file' = [file EXCEPT ![f] = content]
        /\ versions' = versions \union {content}
    /\ edits' = edits + 1
    /\ UNCHANGED <<seeds, procVars, genomeVars, started, damages, crashes, exposed, spoilt>>

\* Everything begun so far has seen the genome before the damage.
Damaged ==
    /\ damages < MaxDamages
    /\ damages' = damages + 1
    /\ exposed' = Proc \union Seeds
    /\ UNCHANGED <<diskVars, procVars, started, edits, crashes, versions, spoilt>>

\* Another process commits the clear_chunks of restore --replace.
Clear ==
    /\ cursors = {}
    /\ genome' = EmptyGenome
    /\ UNCHANGED cursors
    /\ Damaged

Rot == Damaged /\ \E d \in Digest : RotRow(d)

\* A snapshot elsewhere opens a cursor, and closes it.
ReaderOpens(r) ==
    /\ r \notin cursors /\ Stored # {}
    /\ cursors' = cursors \union {r}
    /\ UNCHANGED <<genome, diskVars, procVars, boundVars, histVars>>

ReaderCloses(r) ==
    /\ r \in cursors
    /\ cursors' = cursors \ {r}
    /\ UNCHANGED <<genome, diskVars, procVars, boundVars, histVars>>

-----------------------------------------------------------------------------

CodecInit ==
    /\ GenomeInit
    /\ file \in [Files -> Sources]
    /\ seeds = [s \in Seeds |-> NoSeed]
    /\ pc = [p \in Proc |-> "idle"]
    /\ job = [p \in Proc |-> Args("prime", AnyFile, AnySeed, FALSE, FALSE, FALSE)]
    /\ draft = [p \in Proc |-> BlankSeed(FALSE)]
    /\ pos = [p \in Proc |-> 0]
    /\ held = [p \in Proc |-> Missing]
    /\ missing = [p \in Proc |-> {}]
    /\ out = [p \in Proc |-> <<>>]
    /\ res = [p \in Proc |-> "none"]
    /\ started = 0 /\ edits = 0 /\ damages = 0 /\ crashes = 0
    /\ versions = {file[f] : f \in Files}
    /\ exposed = {} /\ spoilt = {}

\* One step of the command p is running.
CommandStep(p) ==
    \/ IndexKnown(p) \/ IndexLearn(p) \/ IndexEmbed(p) \/ IndexRefuse(p)
    \/ LearnPut(p) \/ IndexDone(p) \/ ManifestStat(p) \/ ManifestHash(p)
    \/ SeedOpen(p) \/ SeedFlush(p)
    \/ PrimePut(p) \/ PrimeDone(p) \/ WriteTimeout(p)
    \/ ResolveOk(p) \/ ResolveFail(p) \/ Finish(p)
    \/ CheckAvailable(p) \/ QuickDone(p) \/ StrictStart(p)

CommandStart(p) ==
    EncodeStart(p) \/ PrimeStart(p) \/ ReadStart(p) \/ ReadTorn(p)

CodecNext ==
    \/ \E p \in Proc :
        CommandStart(p) \/ CommandStep(p) \/ SeedWriteFails(p) \/ Kill(p)
    \/ \E f \in Files : EditSource(f)
    \/ \E r \in Readers : ReaderOpens(r) \/ ReaderCloses(r)
    \/ Clear
    \/ Rot

CodecSpec == CodecInit /\ [][CodecNext]_codecVars

-----------------------------------------------------------------------------
(* Properties.                                                              *)

\* Every variable has its type; a seed's payloads run parallel to its table
\* and its ops point into it.
SeedTypeOK(seed) ==
    /\ seed \in Seed
    /\ Len(seed.raw) = Len(seed.table)
    /\ \A i \in 1..Len(seed.ops) : seed.ops[i].index \in 1..Len(seed.table)

CodecTypeOK ==
    /\ genome \in [Digest -> Row]
    /\ file \in [Files -> Sources]
    /\ DOMAIN seeds = Seeds
    /\ \A s \in Seeds : IsSeed(s) => SeedTypeOK(seeds[s])
    /\ pc \in [Proc -> Phase]
    /\ job \in [Proc -> Job]
    /\ DOMAIN draft = Proc
    /\ \A p \in Proc : SeedTypeOK(draft[p])
    /\ pos \in [Proc -> Nat]
    /\ held \in [Proc -> Row]
    /\ \A p \in Proc : pc[p] = "learn" => held[p] \in Content
    /\ missing \in [Proc -> SUBSET Digest]
    /\ out \in [Proc -> Seq(Content)]
    /\ res \in [Proc -> Result]
    /\ {started, edits, damages, crashes} \subseteq Nat
    /\ versions \subseteq Sources
    /\ exposed \subseteq Proc \union Seeds
    /\ spoilt \subseteq Seeds

\* A seed whose encode began after the last damage of the genome can be
\* resolved op by op, however the lookups and puts of concurrent encoders
\* interleaved; only a row that was rotten before defeats a REF
\* (_build_chunk_index asks has_chunk, never for the payload).
Resolvable(seed) ==
    \A i \in 1..Len(seed.ops) :
        \/ Intact(seed, i)
        \/ seed.ops[i].code = "REF" /\ OpDigest(seed, i) \in RottenRows

SeedsCovered ==
    \A s \in Seeds : IsSeed(s) /\ s \notin exposed => Resolvable(seeds[s])

\* A decode that returns gives back a file as some source once held it,
\* though the source is read three times by the encode and edited meanwhile,
\* and rows are cleared or rot while it runs.  A private manifest carries no
\* digest to compare with, so there it takes an unedited source.
RoundTrip ==
    \A p \in Proc :
        /\ pc[p] = "idle" /\ job[p].cmd = "decode" /\ res[p] = "ok"
        /\ draft[p].sha # Null \/ edits = 0
        => out[p] \in versions

\* Every byte a decode has written so far, finished or not, carries the
\* digest its recipe names at that place, whatever the genome holds.
PrefixGenuine ==
    \A p \in Proc :
        job[p].cmd \in {"decode", "verify"} =>
            /\ Len(out[p]) <= Len(draft[p].ops)
            /\ \A i \in 1..Len(out[p]) : Sha[out[p][i]] = OpDigest(draft[p], i)

\* A verify --strict that passed with no damage since it began stays true:
\* every op still resolves and the file still has the manifest's digest,
\* while other processes go on encoding and priming.
StrictGate ==
    \A p \in Proc :
        /\ pc[p] = "idle" /\ job[p].cmd = "verify" /\ job[p].strict /\ res[p] = "ok"
        /\ p \notin exposed
        => /\ \A i \in 1..Len(draft[p].ops) : Intact(draft[p], i)
           /\ draft[p].sha # Null => RecipeDigests(draft[p]) = draft[p].sha

\* A quick verify that passed promises presence, not genuineness: nothing
\* the recipe needs is missing.
QuickGate ==
    \A p \in Proc :
        /\ pc[p] = "idle" /\ job[p].cmd = "verify" /\ res[p] = "ok" /\ p \notin exposed
        => \A i \in 1..Len(draft[p].ops) : Resolve(draft[p], i) # Missing

\* A seed path is unreadable only while an encoder is writing there, or when
\* the last write of it was cut by a kill or a full disk, or ran over one that
\* overlapped it.  Whatever ends an encode before its write - a chunk it must
\* not learn, a lock, a kill while it chunks - leaves the previous seed alone,
\* and a write that ends well makes up for those cut before (write_seed).
TornOnlyByWriters ==
    \A s \in Seeds : Unreadable(s) =>
        \/ s \in spoilt
        \/ \E p \in Proc : pc[p] = "flush" /\ job[p].seed = s

\* README.md: `--portable` embeds all chunks in the seed.
PortableSelfContained ==
    \A s \in Seeds :
        IsSeed(s) /\ seeds[s].portable =>
            \A i \in 1..Len(seeds[s].ops) : seeds[s].raw[seeds[s].ops[i].index] # Missing
=============================================================================
