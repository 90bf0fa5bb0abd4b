---------------------------- MODULE ChunkPublish ----------------------------
(***************************************************************************)
(* The publish-chunks command of src/seedbraid/cli.py over                 *)
(* src/seedbraid/ipfs_chunks.py: the chunks of a seed are read from the    *)
(* genome and put on an IPFS node by a pool of threads, a directory of     *)
(* them is built through MFS and pinned, and a sidecar lists them.         *)
(*                                                                         *)
(* Requests to the node are answered, refused (an ExternalToolError), or   *)
(* left unanswered: an exception that urllib does not wrap and ipfs_http   *)
(* does not translate, after which the request may or may not have had its *)
(* effect.  Meanwhile the node collects garbage, peers come and go, the    *)
(* genome decays, and commands are killed.                                 *)
(***************************************************************************)
EXTENDS GenomeStore, IpfsNode, WorkerPool

CONSTANTS
    SeedPaths,      \* paths of seed files
    Tables,         \* hash tables of seeds, without repetition
    Modes,          \* subsets of {"pin", "remote"} a command is run with
    NoRoot,         \* dag_root_cid null
    NoSidecar,      \* no sidecar file
    EmptySidecar, TornSidecar,  \* one of no bytes; one that does not parse
    Retries,        \* --retries
    MaxPublishes,   \* bound on commands started
    MaxMisfortunes  \* bound on kills, rewritten seeds and damaged rows

ASSUME PublishAssumption ==
    /\ Tables \subseteq Seq(Digest)
    /\ Modes \subseteq SUBSET {"pin", "remote"}
    /\ Retries \in Nat \ {0}
    /\ {MaxPublishes, MaxMisfortunes} \subseteq Nat
    /\ \A chunks \in SUBSET Digest : NoRoot # chunks

VARIABLES
    seedFile,   \* seed path -> the hash table of the seed there
    sidecar,    \* seed path -> its chunk manifest, or one of those three
    pc,         \* client -> what it does next
    args,       \* client -> the seed path and the mode
    table,      \* client -> unique_digests
    loaded,     \* client -> payloads read from the genome
    tries,      \* client -> failed attempts of each put
    dir,        \* client -> the MFS name it uses
    linked,     \* client -> entries copied into the directory
    manifest,   \* client -> the ChunkManifest it builds
    fate,       \* client -> the exception on its way through "finally"
    res,        \* client -> how its last command ended
    published, misfortunes, \* counters of the bounds
    acked,      \* history: chunks the node has acknowledged
    litter      \* history: MFS names that could not be cleaned up

fileVars == <<seedFile, sidecar>>
clientVars == <<pc, args, table, loaded, tries, dir, linked, manifest, fate, res>>
countVars == <<published, misfortunes>>
traceVars == <<acked, litter>>
publishVars == <<genomeVars, nodeVars, poolVars, fileVars, clientVars, countVars, traceVars>>

ToSet(s) == {s[i] : i \in DOMAIN s}

Manifest == [seed : Tables, chunks : SUBSET Digest, root : (SUBSET Digest) \union {NoRoot}]

\* A path without a sidecar is told apart from one with any.
ASSUME SidecarAssumption == NoSidecar \notin Manifest \union {EmptySidecar, TornSidecar}

Phase == {"idle", "load", "pool", "hash", "mkdir", "cp", "rm",
          "pin", "remote", "create", "write"}

AnyTable == CHOOSE t \in Tables : TRUE
BlankManifest == [seed |-> AnyTable, chunks |-> {}, root |-> NoRoot]

Ends(c, r) ==
    /\ pc' = [pc EXCEPT ![c] = "idle"]
    /\ res' = [res EXCEPT ![c] = r]
    /\ UNCHANGED <<args, table, loaded, tries, dir, linked, manifest, fate>>

Goes(c, phase) ==
    /\ pc' = [pc EXCEPT ![c] = phase]
    /\ UNCHANGED <<args, table, loaded, tries, res>>

-----------------------------------------------------------------------------
(* publish_chunks_from_genome.                                              *)

\* Any number of commands may be given the same seed.
PublishStart(c) ==
    \E s \in SeedPaths, mode \in Modes :
        /\ pc[c] = "idle"
        /\ published < MaxPublishes
        /\ published' = published + 1
        /\ pc' = [pc EXCEPT ![c] = "load"]
        /\ args' = [args EXCEPT ![c] = [seed |-> s, mode |-> mode]]
        /\ table' = [table EXCEPT ![c] = seedFile[s]]
        /\ loaded' = [loaded EXCEPT ![c] = <<>>]
        /\ linked' = [linked EXCEPT ![c] = 0]
        /\ manifest' = [manifest EXCEPT ![c] = BlankManifest]
        /\ fate' = [fate EXCEPT ![c] = "none"]
        /\ res' = [res EXCEPT ![c] = "none"]
        /\ UNCHANGED <<tries, dir, misfortunes, genomeVars, nodeVars, poolVars,
                       fileVars, traceVars>>

Loading(c) == pc[c] = "load" /\ Len(loaded[c]) < Len(table[c])
ToLoad(c) == table[c][Len(loaded[c]) + 1]

\* One genome.get_chunk; what it returns is not hashed.
LoadChunk(c) ==
    /\ Loading(c) /\ HasChunk(ToLoad(c))
    /\ loaded' = [loaded EXCEPT ![c] = Append(@, GetChunk(ToLoad(c)))]
    /\ UNCHANGED <<pc, args, table, tries, dir, linked, manifest, fate, res,
                   genomeVars, nodeVars, poolVars, fileVars, countVars, traceVars>>

LoadMissing(c) ==
    /\ Loading(c) /\ ~HasChunk(ToLoad(c))
    /\ Ends(c, "failed")
    /\ UNCHANGED <<genomeVars, nodeVars, poolVars, fileVars, countVars, traceVars>>

\* Every chunk is in memory: the puts are submitted.
SubmitPuts(c) ==
    /\ pc[c] = "load" /\ Len(loaded[c]) = Len(table[c])
    /\ pc' = [pc EXCEPT ![c] = "pool"]
    /\ tries' = [tries EXCEPT ![c] = [t \in DOMAIN table[c] |-> 0]]
    /\ Submit(c, Len(table[c]))
    /\ UNCHANGED <<args, table, loaded, dir, linked, manifest, fate, res,
                   genomeVars, nodeVars, fileVars, countVars, traceVars>>

\* Faulty variant: the CID is not compared.
PutAnsweredUnchecked(c, t) ==
    LET data == loaded[c][t]
    IN  /\ BlockPut(data)
        /\ TaskEnds(c, t, "returned")
        /\ acked' = IF Sha[data] = table[c][t] THEN acked \union {table[c][t]} ELSE acked
        /\ UNCHANGED <<litter, clientVars>>

\* put_chunk is answered: the CID is compared with the digest; a mismatch
\* is raised at once, without another attempt.
PutAnswered(c, t) ==
    LET data == loaded[c][t]
    IN  /\ BlockPut(data)
        /\ TaskEnds(c, t, IF Sha[data] = table[c][t] THEN "returned" ELSE "tool")
        /\ acked' = IF Sha[data] = table[c][t] THEN acked \union {table[c][t]} ELSE acked
        /\ UNCHANGED <<litter, clientVars>>

\* Faulty variant: the count starts again when it reaches its limit.
PutRefusedForever(c, t) ==
    /\ futures[c][t] = "running"
    /\ tries' = [tries EXCEPT ![c][t] = (@ + 1) % Retries]
    /\ UNCHANGED <<nodeVars, poolVars, traceVars, pc, args, table, loaded, dir,
                   linked, manifest, fate, res>>

\* The node refuses: another attempt, until they are used up.
PutRefused(c, t) ==
    /\ futures[c][t] = "running"
    /\ tries' = [tries EXCEPT ![c][t] = @ + 1]
    /\ IF tries'[c][t] = Retries THEN TaskEnds(c, t, "tool") ELSE UNCHANGED poolVars
    /\ UNCHANGED <<nodeVars, traceVars, pc, args, table, loaded, dir, linked,
                   manifest, fate, res>>

\* No answer: the exception leaves the retry loop, and the thread.
PutUnanswered(c, t) ==
    /\ BlockPut(loaded[c][t]) \/ UNCHANGED nodeVars
    /\ TaskEnds(c, t, "other")
    /\ UNCHANGED <<clientVars, traceVars>>

PutAttempt(c) ==
    /\ \E t \in TasksIn(c, {"running"}) :
        PutAnswered(c, t) \/ PutRefused(c, t) \/ PutUnanswered(c, t)
    /\ UNCHANGED <<genomeVars, fileVars, countVars>>

PoolStep(c) ==
    /\ WorkerTakes(c) \/ MainThread(c)
    /\ UNCHANGED <<genomeVars, nodeVars, fileVars, clientVars, countVars, traceVars>>

\* Out of the "with" block by an exception, or to the manifest.
PoolLeft(c) ==
    /\ pc[c] = "pool" /\ pool[c] = "closed"
    /\ CASE raised[c] = "tool"  -> Ends(c, "failed")
         [] raised[c] = "other" -> Ends(c, "crashed")
         [] raised[c] = "none"  -> Goes(c, "hash")
                                     /\ UNCHANGED <<dir, linked, manifest, fate>>
    /\ UNCHANGED <<genomeVars, nodeVars, poolVars, fileVars, countVars, traceVars>>

\* sha256_file reads the seed once more.
HashSeed(c) ==
    /\ pc[c] = "hash"
    /\ manifest' = [manifest EXCEPT ![c] =
          [seed |-> seedFile[args[c].seed], chunks |-> ToSet(table[c]), root |-> NoRoot]]
    /\ Goes(c, IF args[c].mode = {} THEN "create" ELSE "mkdir")
    /\ UNCHANGED <<dir, linked, fate, genomeVars, nodeVars, poolVars, fileVars,
                   countVars, traceVars>>

-----------------------------------------------------------------------------
(* create_chunk_dag.                                                        *)

Rest(c) == UNCHANGED <<genomeVars, poolVars, fileVars, countVars, acked>>

\* Faulty variant: a directory of that name will do.
MkdirParents(c) ==
    /\ pc[c] = "mkdir"
    /\ \E n \in Dirs :
        /\ FilesMkdir(n) \/ (mfs[n] # NoDir /\ UNCHANGED nodeVars)
        /\ dir' = [dir EXCEPT ![c] = n]
    /\ Goes(c, "cp")
    /\ UNCHANGED <<linked, manifest, fate, litter>>
    /\ Rest(c)

\* Outside the "try": a directory made by a request that is not answered
\* is nobody's to remove.
Mkdir(c) ==
    /\ pc[c] = "mkdir"
    /\ \/ \E n \in Dirs :
            /\ FilesMkdir(n)
            /\ dir' = [dir EXCEPT ![c] = n]
            /\ Goes(c, "cp")
            /\ UNCHANGED <<linked, manifest, fate, litter>>
       \/ /\ Ends(c, "failed")
          /\ UNCHANGED <<nodeVars, litter>>
       \/ /\ Ends(c, "crashed")
          /\ \/ UNCHANGED <<nodeVars, litter>>
             \/ \E n \in Dirs : FilesMkdir(n) /\ litter' = litter \union {n}
    /\ Rest(c)

\* An exception in the "try": the directory is removed before it goes on.
FinallyRm(c, r) ==
    /\ fate' = [fate EXCEPT ![c] = r]
    /\ Goes(c, "rm")
    /\ UNCHANGED <<dir, linked, manifest>>

\* One /files/cp.
Cp(c) ==
    /\ pc[c] = "cp" /\ linked[c] < Len(table[c])
    /\ \/ /\ FilesCp(dir[c], table[c][linked[c] + 1])
          /\ linked' = [linked EXCEPT ![c] = @ + 1]
          /\ Goes(c, "cp")
          /\ UNCHANGED <<dir, manifest, fate>>
       \/ /\ UNCHANGED nodeVars
          /\ FinallyRm(c, "failed")
       \/ /\ FilesCp(dir[c], table[c][linked[c] + 1]) \/ UNCHANGED nodeVars
          /\ FinallyRm(c, "crashed")
    /\ UNCHANGED litter /\ Rest(c)

\* Faulty variant: a failure leaves at once.
StatBare(c) ==
    /\ pc[c] = "cp" /\ linked[c] = Len(table[c])
    /\ \/ /\ FilesStat(dir[c])
          /\ manifest' = [manifest EXCEPT ![c].root = mfs[dir[c]]]
          /\ Goes(c, "rm")
          /\ UNCHANGED <<dir, linked, fate>>
       \/ /\ UNCHANGED nodeVars
          /\ Ends(c, "failed")
    /\ UNCHANGED litter /\ Rest(c)

\* /files/stat, once every entry is there.
Stat(c) ==
    /\ pc[c] = "cp" /\ linked[c] = Len(table[c])
    /\ \/ /\ FilesStat(dir[c])
          /\ manifest' = [manifest EXCEPT ![c].root = mfs[dir[c]]]
          /\ Goes(c, "rm")
          /\ UNCHANGED <<dir, linked, fate>>
       \/ /\ UNCHANGED nodeVars
          /\ \E r \in {"failed", "crashed"} : FinallyRm(c, r)
    /\ UNCHANGED litter /\ Rest(c)

\* What follows the DAG: --pin, --remote-pin, the sidecar.
AfterPin(c) == IF "remote" \in args[c].mode THEN "remote" ELSE "create"
AfterDag(c) == IF "pin" \in args[c].mode THEN "pin" ELSE AfterPin(c)

\* "finally": the exception on its way goes on, or the DAG is ready.
DagLeft(c) ==
    IF fate[c] # "none" THEN Ends(c, fate[c])
    ELSE Goes(c, AfterDag(c)) /\ UNCHANGED <<dir, linked, manifest, fate>>

\* /files/rm: a refusal is swallowed, an exception of another kind is not.
Rm(c) ==
    /\ pc[c] = "rm"
    /\ \/ FilesRm(dir[c]) /\ DagLeft(c) /\ UNCHANGED litter
       \/ /\ UNCHANGED nodeVars
          /\ DagLeft(c)
          /\ litter' = litter \union {dir[c]}
       \/ /\ FilesRm(dir[c]) \/ UNCHANGED nodeVars
          /\ Ends(c, "crashed")
          /\ litter' = litter \union {dir[c]}
    /\ Rest(c)

-----------------------------------------------------------------------------
(* Pinning and the sidecar.                                                 *)

\* Faulty variant: a pin that is refused is only a warning.
PinBestEffort(c) ==
    /\ pc[c] = "pin"
    /\ PinAdd(manifest[c].root) \/ UNCHANGED nodeVars
    /\ Goes(c, AfterPin(c))
    /\ UNCHANGED <<dir, linked, manifest, fate, litter>> /\ Rest(c)

\* pin_dag_locally.
Pin(c) ==
    /\ pc[c] = "pin"
    /\ \/ /\ PinAdd(manifest[c].root)
          /\ Goes(c, AfterPin(c))
          /\ UNCHANGED <<dir, linked, manifest, fate>>
       \/ UNCHANGED nodeVars /\ Ends(c, "failed")
       \/ /\ PinAdd(manifest[c].root) \/ UNCHANGED nodeVars
          /\ Ends(c, "crashed")
    /\ UNCHANGED litter /\ Rest(c)

\* remote_pin_cid: registered with a provider elsewhere, or refused, or left
\* by an exception pinning.py does not translate.
RemotePin(c) ==
    /\ pc[c] = "remote"
    /\ \/ Goes(c, "create") /\ UNCHANGED <<dir, linked, manifest, fate>>
       \/ \E r \in {"failed", "crashed"} : Ends(c, r)
    /\ UNCHANGED <<nodeVars, litter>> /\ Rest(c)

\* What writing a sidecar leaves alone.
SidecarOnly == UNCHANGED <<seedFile, genomeVars, nodeVars, poolVars, countVars, traceVars>>

\* write_chunk_manifest writes in place: opening truncates what was there ...
SidecarOpen(c) ==
    /\ pc[c] = "create"
    /\ sidecar' = [sidecar EXCEPT ![args[c].seed] = EmptySidecar]
    /\ Goes(c, "write")
    /\ UNCHANGED <<dir, linked, manifest, fate>>
    /\ SidecarOnly

\* ... and the JSON follows.  What another command has put there since may
\* reach beyond it, and is no JSON then.
SidecarWrite(c) ==
    LET s == args[c].seed
    IN  /\ pc[c] = "write"
        /\ \/ sidecar' = [sidecar EXCEPT ![s] = manifest[c]]
           \/ /\ sidecar[s] # EmptySidecar
              /\ sidecar' = [sidecar EXCEPT ![s] = TornSidecar]
        /\ Ends(c, "ok")
        /\ SidecarOnly

\* c stops: of the bytes it was writing none, or a part, are out.
CutSidecar(c) ==
    \/ UNCHANGED sidecar
    \/ /\ pc[c] = "write"
       /\ sidecar' = [sidecar EXCEPT ![args[c].seed] = TornSidecar]

\* Nobody catches an OSError of the open or of the write.
SidecarFails(c) ==
    /\ pc[c] \in {"create", "write"}
    /\ CutSidecar(c)
    /\ Ends(c, "crashed")
    /\ SidecarOnly

PublishStep(c) ==
    \/ LoadChunk(c) \/ LoadMissing(c) \/ SubmitPuts(c)
    \/ PutAttempt(c) \/ PoolStep(c) \/ PoolLeft(c) \/ HashSeed(c)
    \/ Mkdir(c) \/ Cp(c) \/ Stat(c) \/ Rm(c)
    \/ Pin(c) \/ RemotePin(c)
    \/ SidecarOpen(c) \/ SidecarWrite(c) \/ SidecarFails(c)

-----------------------------------------------------------------------------
(* The environment.                                                         *)

Misfortune == misfortunes < MaxMisfortunes /\ misfortunes' = misfortunes + 1

\* The process is killed; the directory it was filling stays.
Kill(c) ==
    /\ pc[c] # "idle"
    /\ Misfortune
    /\ CutSidecar(c)
    /\ Ends(c, "killed")
    /\ PoolKilled(c)
    /\ litter' = IF pc[c] \in {"cp", "rm"} THEN litter \union {dir[c]} ELSE litter
    /\ UNCHANGED <<genomeVars, nodeVars, seedFile, published, acked>>

\* Another encode writes the seed file.
RewriteSeed(s) ==
    /\ Misfortune
    /\ \E t \in Tables : seedFile' = [seedFile EXCEPT ![s] = t]
    /\ UNCHANGED <<genomeVars, nodeVars, poolVars, sidecar, clientVars, published, traceVars>>

\* A row decays, or every row goes (restore --replace).
DamageGenome ==
    /\ Misfortune
    /\ \/ \E d \in Digest : RotRow(d)
       \/ genome' = EmptyGenome /\ UNCHANGED cursors
    /\ UNCHANGED <<nodeVars, poolVars, fileVars, clientVars, published, traceVars>>

\* The node and its peers go on by themselves.
NodeLives ==
    /\ CollectGarbage \/ \E d \in Digest : PeerLeaves(d) \/ PeerProvides(d)
    /\ UNCHANGED <<genomeVars, poolVars, fileVars, clientVars, countVars, traceVars>>

\* Every chunk is in the genome, and none on IPFS.
PublishInit ==
    /\ genome = [d \in Digest |-> CHOOSE x \in Content : Sha[x] = d] /\ cursors = {}
    /\ NodeInit /\ network = {}
    /\ PoolInit
    /\ seedFile \in [SeedPaths -> Tables]
    /\ sidecar = [s \in SeedPaths |-> NoSidecar]
    /\ pc = [c \in Client |-> "idle"]
    /\ args \in [Client -> [seed : {CHOOSE s \in SeedPaths : TRUE}, mode : {{}}]]
    /\ table = [c \in Client |-> <<>>] /\ loaded = [c \in Client |-> <<>>]
    /\ tries = [c \in Client |-> <<>>]
    /\ dir = [c \in Client |-> NoDir] /\ linked = [c \in Client |-> 0]
    /\ manifest = [c \in Client |-> BlankManifest]
    /\ fate = [c \in Client |-> "none"] /\ res = [c \in Client |-> "none"]
    /\ published = 0 /\ misfortunes = 0
    /\ acked = {} /\ litter = {}

PublishNext ==
    \/ \E c \in Client : PublishStart(c) \/ PublishStep(c) \/ Kill(c)
    \/ \E s \in SeedPaths : RewriteSeed(s)
    \/ DamageGenome
    \/ NodeLives

PublishSpec == PublishInit /\ [][PublishNext]_publishVars

\* Every running command is scheduled, and so are its threads; a request
\* that is not answered times out.
PublishFairSpec == PublishSpec /\ \A c \in Client : WF_publishVars(PublishStep(c))

-----------------------------------------------------------------------------
(* Properties.                                                              *)

PublishTypeOK ==
    /\ GenomeTypeOK({}) /\ NodeTypeOK /\ PoolTypeOK
    /\ seedFile \in [SeedPaths -> Tables]
    /\ sidecar \in [SeedPaths -> Manifest \union {NoSidecar, EmptySidecar, TornSidecar}]
    /\ pc \in [Client -> Phase]
    /\ args \in [Client -> [seed : SeedPaths, mode : Modes \union {{}}]]
    /\ table \in [Client -> Tables \union {<<>>}]
    /\ loaded \in [Client -> Seq(Content)] /\ tries \in [Client -> Seq(0..Retries)]
    /\ dir \in [Client -> Dirs \union {NoDir}] /\ linked \in [Client -> Nat]
    /\ manifest \in [Client -> Manifest]
    /\ fate \in [Client -> {"none", "failed", "crashed"}]
    /\ res \in [Client -> {"none", "ok", "failed", "crashed", "killed"}]
    /\ acked \in SUBSET Digest /\ litter \in SUBSET Dirs

\* publish-chunks keeps the promise of Publication: however the puts
\* interleave, fail, or carry rotten rows, a sidecar appears only after the
\* node has taken every chunk it lists, and its DAG root holds them all.
Promise == INSTANCE Publication WITH
    Chunks <- Digest, Places <- SeedPaths, Names <- Tables, kept <- pins,
    Broken <- {EmptySidecar, TornSidecar}
PublicationKept == Promise!PublicationSpec

IsManifest(s) == sidecar[s] \notin {NoSidecar, EmptySidecar, TornSidecar}

\* --pin "prevents IPFS garbage collection" (README.md): every chunk of a
\* sidecar whose root is pinned stays on the node, whoever else leaves, and
\* a --pin command that succeeded has such a sidecar.
PinnedStays ==
    /\ \A s \in SeedPaths : IsManifest(s) /\ sidecar[s].root \in pins
                               => sidecar[s].chunks \subseteq blocks
    /\ \A c \in Client : res[c] = "ok" /\ "pin" \in args[c].mode
                            => manifest[c].root \in pins /\ manifest[c].chunks \subseteq blocks

\* Directories in MFS keep blocks from the garbage collector for good, so
\* one may stay only while its command runs, or if the command was killed,
\* its removal failed, or the node never said that it was made.
MfsTidy ==
    \A n \in Dirs : mfs[n] # NoDir =>
        \/ n \in litter
        \/ \E c \in Client : dir[c] = n /\ pc[c] \in {"cp", "rm"}

\* Threads, retries and requests without an answer always come to an end.
PublishEnds == \A c \in Client : []<>(pc[c] = "idle")
=============================================================================
