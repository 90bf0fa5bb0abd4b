# Seedbraid verification

TLA+ models of seedbraid, the model-checking runs on them and the proofs
about them. Paths below are relative to the repository; `codec.py` stands for
`src/src/seedbraid/codec.py` and so on.

Seedbraid stores a file as a *seed*: a recipe of operations over
content-defined chunks. A chunk is either embedded in the seed (`RAW`) or only
referred to by its SHA-256 (`REF`), and then it is looked up in a *genome*, a
SQLite table of chunks shared by all seeds of a machine, or fetched from IPFS.
So a seed is worth as much as the chunks that can still be found for it. That
is the question most of this development asks.

## Inventory

| part | source | state it keeps | operations | what is hard | what makes it correct |
|---|---|---|---|---|---|
| genome storage | `storage.py` | table `chunks(hash, data, size)`, SQLite's locks | has, get, put, count, iterate, clear | several processes; a reader's lock stalls commits; rows rot and are never rewritten | rows are only ever added; what is there is what was put |
| codec | `codec.py` | sources, seed files, the draft of an encode, the output of a decode | encode, prime, decode, verify (quick and strict) | lookup and put are separate; source read three times; seed and output written in place | every op of a seed can be resolved; a decode returns what was encoded; a passed verify means something |
| genome backup | `codec.py` | SGS1 snapshot files | snapshot, restore, restore --replace | count and iteration are separate reads; files cut anywhere; clear before validation | all or nothing; what a restore reports is there; seeds survive the loss of the genome |
| genes pack | `codec.py` | GENE1 pack files | export, import | truncated packs | what import accepts was exported |
| chunking | `chunking.py` | rolling hashes | fixed, buzhash, rabin | modular arithmetic, window edges | pieces concatenate to the input, sizes bounded, cut points local |
| seed container, signature, encryption | `container.py`, `codec.py` | seed files | write, read, sign, verify a signature, encrypt, decrypt | sections in any order and number, optional digests, a signature in the middle, writes in place that overlap | what reads is what its writer meant; what verifies was signed; what was sealed stays so |
| IPFS chunk plane | `ipfs_chunks.py`, `chunk_manifest.py`, `cid.py`, `ipfs_http.py` | blocks of a node, MFS directories, pins, manifest sidecars, thread pools | publish-chunks, fetch, fetch-decode | retries, a pool that fails in the middle, the node's garbage collector | a published and pinned manifest can be fetched back; fetched bytes are genuine |
| hybrid storage | `hybrid_storage.py`, `codec.py` | local cache over a remote store | decode --genome ipfs:// | unhashed puts into a shared cache, its lock, a moving store | the cache only holds genuine chunks; a decode that succeeded needs the node no more |
| IPFS seed transport | `ipfs.py` | seed objects, pins | publish, fetch, pin-health | gateway fallback, validation after writing | a fetched seed is valid or the command fails |
| remote pinning | `pinning.py` | pin requests at a provider | remote_add | lost answers, retries | a reported pin exists |
| OCI, ML hooks | `oci.py`, `mlhooks.py` | remote artifacts | push, pull, upload | several requests, any may fail | no half-published artifact is reported as success |
| CLI, diagnostics, perf, errors | `cli.py`, `diagnostics.py`, `perf.py`, `errors.py` | none | option parsing, checks, benchmarks | order of side effects in `publish*` | what is printed was done |

The parts meet in four places. All commands of a machine share the genome
file: rows and SQLite locks are the only channel between them, so the
interesting interleavings are those of lookups, puts, cursors and clears. Seed
files couple an encode to the decodes and verifies that come later, across any
damage of the genome in between. Snapshot files couple the backups to the
seeds: a `--no-portable` seed outlives its genome only through them. And an
IPFS node stands between publish-chunks and fetch-decode: blocks stay on it
only while a pin or an MFS directory holds them, and the sidecar is all that is
left to say what was published.

## Modules

| module | extends | models |
|---|---|---|
| `Payloads` | - | payloads, digests and SHA-256, shared by all |
| `GenomeStore` | `Payloads` | the chunks table and its locks |
| `SeedCodec` | `GenomeStore` | encode, prime, decode, verify as concurrent processes |
| `GenomeBackup` | `GenomeStore` | snapshot and restore |
| `GenomeWorkspace` | `SeedCodec`, `GenomeBackup` | all of these over one genome, its loss and recovery |
| `GenesPack` | `Payloads`; instances of `GenomeStore` | export-genes and import-genes between two genomes |
| `Chunking` | - | the fixed, BuzHash and Rabin chunkers |
| `IpfsNode` | `Payloads` | external: a kubo node, its MFS, pins, garbage collector and peers |
| `WorkerPool` | - | a ThreadPoolExecutor as `ipfs_chunks.py` drives it |
| `Publication` | - | abstract: what publish-chunks promises |
| `ChunkPublish` | `GenomeStore`, `IpfsNode`, `WorkerPool` | publish-chunks; implements `Publication` |
| `Delivery` | `Payloads` | abstract: what a decode promises about its output |
| `ChunkFetch` | `IpfsNode`, `WorkerPool` | fetch-decode; implements `Delivery` |
| `SeedTransport` | `Payloads` | publish, fetch, pin-health and remote-add of seed files |
| `HybridDecode` | `ChunkFetch`, `GenomeStore` | decode over a local genome in front of IPFS; a second implementation of `Delivery` |
| `SeedContainer` | - | the SBD1 container and the SBE1 envelope: serialize, parse, signatures |
| `SeedFiles` | `SeedContainer` | write_seed and sign_seed_file over shared paths, decay, other tools |
| `SeedCodecProofs` | `SeedCodec`, TLAPS | the theorems about `SeedCodec` |
| `ChunkingProofs` | `Chunking`, TLAPS | the theorems about the chunkers, with induction on sequences |
| `GenomeWorkspaceProofs` | `GenomeWorkspace`, `SeedCodecProofs` | the theorems about backups and the shared genome |
| `TransportProofs` | `SeedTransport`, `GenesPack`, TLAPS | the theorems about seeds and chunks on their way to another machine |
| `SeedFilesProofs` | `SeedFiles`, TLAPS | the theorems about containers and seed files |
| `WorkerPoolProofs` | `WorkerPool`, TLAPS | what every step of a pool preserves: lemmas for its users |
| `ChunkPublishProofs` | `ChunkPublish`, `WorkerPoolProofs` | the theorems about `ChunkPublish` and its pools |
| `ChunkFetchProofs` | `HybridDecode`, `WorkerPoolProofs` | the theorems about `ChunkFetch`, its pools and `HybridDecode` |
| `*MC` | the module they check | constants of the runs |

### GenomeStore

`genome` maps every digest to its payload or to `Missing`; `cursors` is the set
of processes with a half-read `SELECT`. A row is read, and a put or a clear
committed, in one step (SQLite's atomic commit). Python's `sqlite3` steps one
row ahead, so a cursor gives up the read lock when its last row is fetched.
`CanCommit` is the lock: a commit waits until no other process holds a cursor
and fails with `OperationalError` when the busy timeout (5 s) passes first.
SHA-256 is an injective function `Sha`; a rotten row is one whose payload
does not hash to its key, which only the environment makes (`RotRow`).

### SeedCodec

One process runs one command at a time; `pc` is its place in the code, `job`
its arguments, `draft` the seed it builds or has read. A source is the sequence
of chunks the chunker would cut it into, so re-reading a source chunk by chunk
is an index into `file`; each chunk counts one byte, which is all the size
check of verify compares.

* encode (`_build_chunk_index`): `IndexKnown`, `IndexEmbed`, `IndexRefuse`
  decide an op in the step that asks `has_chunk`; `IndexLearn` only remembers
  the chunk and `LearnPut` puts it later, because the genome may change in
  between. `ManifestStat` and `ManifestHash` are the second and third read of
  the source (`_build_manifest`), skipped with `--manifest-private`.
  `SeedOpen` and `SeedFlush` are the two halves of `write_bytes`; nothing keeps
  two encoders off one path, so the second to flush may leave bytes of the first
  behind its own. `SeedWriteFails` is the `OSError` of a full disk, which, like
  a kill, leaves nothing or a part of the bytes (`CutWrite`).
* prime: `PrimePut` per chunk.
* decode: `ReadStart` reads the seed and truncates the output, `ResolveOk` and
  `ResolveFail` are `_resolve_chunk` with its fallbacks and hash checks,
  `Finish` is the whole-file digest.
* verify: `CheckAvailable` per op, then `QuickDone`, or `StrictStart` and the
  steps of decode.
* environment: `Kill`, `EditSource`, `Clear` (another process's
  `restore --replace`), `Rot`, and `ReaderOpens` and `ReaderCloses`: processes
  of `Readers` that iterate over the genome and so make commits wait.

`versions`, `exposed` and `spoilt` are history variables: the contents sources
ever had, the processes and seeds that began before the last damage of the
genome, and the paths whose last write was cut or ran over another.

### GenomeBackup

A snapshot file is the sequence of items written to it; the writer's buffer
`buf` runs ahead of `disk` until it is closed. An abort may leave half an item
(`Cut`), and one that is an exception may still write the whole buffer out as it
closes the file. `SnapCount`, `SnapCreate`, `SnapSelect`, `SnapRow`, `SnapFlush`,
`SnapDone` are the steps of `snapshot_genome`; `RestoreOpen`, `RestoreClear`,
`RestoreEntry`, `RestoreRefuse`, `RestoreDone` those of `restore_genome`.
Timeouts, kills, full disks, truncated copies, rot, learning by other
processes and the loss of the database are actions of their own.
`Oversize` are the payloads over `MAX_CHUNK_SIZE`. `moments`, `shaken`, `skewed`
and `whole` are history. Two snapshots are never written to one path at once
(`SnapStart`); the code does not keep users from it.

### GenomeWorkspace

Extends both with one shared `genome` and one lock, adds `Disaster` (the
database is lost) and follows, for each snapshot, the seeds that were sound
when it was taken (`saved`, `due`; `saved` is emptied with the file). A reader
of `Readers` may keep its cursor for as long as it likes, and so hold up every
commit of commands and restores.

### GenesPack

A pack is the sequence of its fields; a cut may fall inside a field, and a
number cut short reads as what its first bytes say (`ShortNumber`), because
`import_genes` does not check how much `read(4)` returned. The exporter writes
row by row while the source genome learns and rots (`ExportRow`,
`ExportMissing`, `ExportDone`); the importer takes a copy of the file, whole or
cut, and goes through it (`ImportStart`, `ImportSkip`, `ImportPut`,
`ImportRefuse`, `ImportDone`). `carried`, `entire` and `promise` are history.

### Chunking

Each stream has a chunker of its own reading byte by byte: `hash`, the ring of
the last window and the size of the open chunk. Streams first read bytes of
their own, then the same bytes, as two versions of a file do. BuzHash words
have `Width` bits instead of 64 and are sets of bit positions, so that rotation
and xor are set operations; the Rabin hash is kept modulo `mask + 1`, which is
all the cut condition reads and is closed under its updates. The cut condition
and the rolled hash are compared with their definition over the last window.

### IpfsNode and WorkerPool

The node is not part of the repository: it is modelled from what the requests
of `ipfs_chunks.py` need. Blocks are named by the digest of their payload;
`files/cp` and `pin/add` fetch what they need from peers; garbage collection
keeps what pins and MFS directories hold (`Held`) and may run at any moment.
`WorkerPool` has one pool per command: tasks queue up in order, `Workers`
threads take them, the main thread collects in any order of completion; at an
`ExternalToolError` it calls `cancel` on one future after the other while
threads go on taking tasks; any other exception leaves the rest queued; the
`with` block is left when nothing is queued or running.

A request is answered, refused (urllib raises `URLError`, which becomes an
`ExternalToolError`; nothing happened on the node) or left without an answer
(urllib raises a bare `TimeoutError` or `ConnectionResetError` while it waits
for the response; the request may have had its effect). Nothing bounds how often.

### ChunkPublish

`LoadChunk` per row, `SubmitPuts`, then in the threads `PutAnswered` (with the
comparison of the CID), `PutRefused` (retries) and `PutUnanswered`; `PoolLeft`
ends the command or goes on to `HashSeed`, `Mkdir`, `Cp` per chunk, `Stat`,
`Rm` (the `finally`, with the exception on its way in `fate`), `Pin`,
`RemotePin` (which may be refused, or end in an exception nobody catches), and
the two halves of writing the sidecar, each of which may fail (`SidecarFails`).
Several commands may work on one seed and so on one sidecar: the later writer
may leave bytes of the other behind its own, and the file is no manifest then.
`acked` (chunks the node has acknowledged under their own CID) and `litter`
(MFS names whose removal failed, or that a killed command or an unanswered mkdir
left) are history. The MFS name is any name the clock may give, so two commands
may be given the same.

`Publication` says what this amounts to for whoever reads the sidecar: chunks
appear in it only after they were acknowledged, its root holds exactly them,
and pins are never withdrawn. `PublicationKept` is the refinement; pins
implement `kept`.

### ChunkFetch

A seed is the digests of its ops, the digests it embeds and its
`source_sha256`. `BatchStart` collects the digests of a batch, each once;
the threads run `get_chunk`: `ApiAnswers`, `ApiFails`, `ApiSilent` up to
`Retries` times, then `GatewayAnswers` or `GatewayFails`; `WriteOp` writes one
op and `FetchDone` compares the digest of the whole. Node and gateway may serve
wrong payloads. `DeliveryKept` is the refinement of `Delivery`.

### HybridDecode

`decode --genome ipfs://` resolves one op at a time: an embedded payload
(`EmbeddedOp`), a row of the cache, which is hashed (`CachedOp`), or
`IPFSChunkStorage.get_chunk` with its retries and the gateway (`RemoteAnswers`,
`RemoteFails`, `RemoteSilent`, `GatewayServes`, `GatewayGivesUp`). With a path
behind `ipfs://` what the remote returned is committed to that genome
(`CacheRow`, `CacheLocked`), which other decodes share and which is there for
the next one; without a path the cache is a temporary genome in which nothing
is kept. The commands of `ChunkFetch` run before it on the same node and the
same outputs. `has_chunk` and `put_chunk` of a hybrid store have no caller in
`src/`, so they are not modelled.

### SeedContainer

A file is its section count, its sections and whether bytes follow them; a
section is its type and a body tagged with the encoding it is in. `Serialize`
and `Parses` follow `serialize_seed` and `parse_seed` step by step:
`IsLast` is the dictionary of the scan, in which of several sections of a type
the last one counts and unknown types are kept but not looked at;
`SumsAgree` has the three CRCs that must be there and the five other digests that
are compared if they are; `Decodes` is what the decoders of the
single sections refuse. A digest is the data it is taken of, so digests differ
exactly when the data do; a MAC is its key and its data. Varints, the packing of
ops and zlib/zstd are not spelt out: a decayed body is one that does not
decode, or the body of another seed.

### SeedFiles

Bytes are made in memory (`WriteStart`, `SignStart`), the file is truncated
(`Open`) and the bytes follow (`Flush`), where another writer's bytes may reach
further. `Decayed` is what bytes changed, lost or added make of a file;
`Edited` and `Recomputed` what another tool makes of one: sections added,
dropped, moved or taken from other files, signatures included, and digests that
fit. `read_seed` and `verify` change nothing, so they are the operators
`Readable` and `SignaturePhase`, and the properties quantify over all keys and
passphrases. `meant`, `clean`, `written`, `bare` and `signed` are history: the
seed a path's last writer meant, the paths untouched since, the seeds somebody
closed a file around, those among them not only under a passphrase, and what
was signed with which key.

Files in which something follows the integrity section are spared by `Damage`
(`Protected`): only other tools write them, and the code puts what follows under
no digest (see below).

### SeedTransport

Seed files on the paths of clients that run `publish`, `fetch`, `pin-health` and
`pin remote-add`; `pc` is the request or the half of a write a command is at. A
file is well formed or not, sealed (SBE1) or plain, within
`MAX_SEED_FETCH_BYTES` or over it. The node is the part of kubo that
`ipfs.py` needs, files named by their CID (`Sha`); whether `/add` pins is left
open, because the code does not rely on it.

* publish: `AddAnswered`, `AddFails`, `PinAnswered`, `PinFails`, then the
  pinning service (`PsaAccepted`, `PsaOtherCid`, `PsaRefused`, `PsaTransient`),
  where `requested` is what the service accepted; the answer that says so may
  be lost or garbled. The status a service gives a pin it accepted is not told
  apart: `remote_add` succeeds with any, `failed` included.
* fetch: `CatAnswered` and `RequestFails` up to `Retries` times, then
  `GatewayAnswered` with any bytes; `OutOpen` and `OutFlush` are the two halves
  of `write_bytes`, and only then `OutCheck` validates: an envelope in memory, a
  plain seed by reading the path again, where another client may have written.
* pin-health: `LsAnswered`, `LsFails`, `StatAnswered`, `StatFails`.

`disturbed` is history: the commands whose file or pin somebody else touched
since they began; the promises about the file and the pin are made to the others.

## Runs

| run | question | bounds |
|---|---|---|
| `codec` | do encodes and primes leave seeds whose ops all resolve, and what do decode and verify promise, when commands interleave and the genome is cleared or rots, a source is edited or a command killed at any moment? | 2 processes, 3 commands, 1 seed path, sources of two different chunks, of a repeated one and of one alone, one kill or failed write, or an edit, a damage or a foreign reader's lock in place of the third command |
| `codec_portable` | is a `--portable` seed self-contained? (no) | 1 process, 2 commands |
| `workspace` | is a restore all or nothing, which completed snapshots can be restored and why not the others, do seeds survive the loss of the genome through one, and does everything end although commits wait for cursors that are never closed? | 1 process, 1 command, 2 agents, 2 backup commands, 1 reader, 1 mishap or lock of the reader, 3 payloads of which one is over the limit, fair |
| `genes` | does a whole pack bring every chunk, and can any pack bring a wrong one? | 2 exports, 2 imports, 2 mishaps |
| `chunking` | do cuts depend on the last window only, within the size bounds? | 2 streams, 3 bytes apart, 7 in common, words of 4 bits |
| `chunking_rabin` | ... for Rabin as well, with a mask of 9 bits? (no) | one configuration |
| `publish` | what holds when puts fail, threads interleave, a kill, a rotten row or a garbage collection comes between, and does the command end? | 1 command with no pin or both, 3 chunks, 2 threads, 2 attempts, 1 misfortune, fair |
| `publish_two` | ... when two commands share a chunk, a node and a millisecond? | 2 commands of 2 chunks, on one seed or on two, 1 thread each, 1 attempt |
| `fetch` | is the output of fetch-decode and of a hybrid decode the recipe, whatever the order and the faults, is the cache genuine and enough afterwards, and does every command end? | 3 recipes of 3 to 5 ops over 2 chunks, 2 commands one after the other, batches of 3, 2 threads, 2 attempts, 1 kill, rotten row, foreign put or lock, fair |
| `fetch_silent` | is the gateway asked when the node does not answer? (no) | fetch-decode alone, 1 command, batches of 2 |
| `seeds` | what do a fetched seed, a local and a remote pin and a health report stand for, when two clients share a path and a node? | 2 clients, 2 commands, 2 attempts each, 1 path, 1 kill, 1 unpin |
| `files` | what do a seed that reads and a signature that verifies stand for, when writers overlap, files decay and other tools edit them? | 2 processes (one without the cryptography package), 2 paths, 2 commands, 1 mishap, 3 seeds, 1 key, 1 passphrase |

Two chunk contents are enough for every confusion the code could make between
chunks (repeated, unknown, swapped order in the table). Three commands are the
shortest history in which one command prepares the genome, one writes a seed
and one reads it; two processes are needed for each interleaving of a lookup
with a foreign put, and a third adds only more of the same, since processes
meet in single rows. One misfortune suffices because `exposed` restarts the
promises at each damage, and edits and kills touch other files. Edits and damages
need two commands beside them, one that writes a seed and one that reads it; a
kill is followed by up to two more, one to write the seed again and one to read
it. Read across an edit, the three sources give contents that no source ever
held. Both processes write to the only seed path, so their writes overlap. All a
foreign reader's lock can do to a command is make a put fail; one that is never
given up is explored in `workspace`. Processes are symmetric and never compared.

In `workspace` one source is a payload over the limit, which gets into the genome
as any other chunk does, and then into a snapshot that restore refuses. The reader
takes its `SELECT` in the behaviours without a mishap; of two backups, which are
alike, the first is always the same agent (`MCInputs`).

`CHECK_DEADLOCK FALSE` stands in configurations of these modules because the
bound on commands ends every behaviour.

In `files` two paths are what it takes to move a signature from one file to
another, and two commands to overlap or to sign what was edited; one edit
inserts, replaces, drops or exchanges any section of the pool, and the
theorems cover any number of them. The three seeds are one that
embeds nothing, one that embeds a chunk, and one that embeds a chunk too large.

The type invariants are inductive or proved (`CodecTypeOK`), or stand beside
their modules; no run repeats them.

On the IPFS side two threads and three tasks are the least with a task that
runs, one that waits and one that is done; two attempts tell the last from the
others; `Popular` bounds which chunks peers may hold and only limits how many
states differ in what peers have. Two clients with one command each are what it
takes to write under one another's feet, or to publish what the other fetches. Nothing bounds refusals and silence. Words
of four bits stand for 64 because only the rotation of the outgoing byte by the
window size modulo the width matters, and the windows of the run are shorter
than, as long as and longer than a word.

`PublishEnds` and `FetchEnds` assume weak fairness of the next step of a running
command, its threads included: threads are scheduled and every request is bounded
by `SB_KUBO_TIMEOUT`, so it ends in one of its three outcomes. No outcome is
assumed to happen rather than another.

`EverythingEnds` assumes weak fairness of each running command's next step:
the operating system schedules the process, and SQLite's busy handler is
bounded by its timeout, so waiting for a lock is a step that is eventually
taken or times out. Nothing is assumed of starts, kills or damages, nor that a
reader ever closes its cursor: only the busy timeout ends a command behind one
that does not. It says that all are idle again and again; commands being bounded,
that is that each ends.

`HybridFairSpec`, the specification of `fetch`, adds to the fairness of
`FetchEnds` that of the next step of a running decode, for the same reasons.

## What the code does otherwise than its documents say

Three disagreements have a run that exhibits them:

* `codec_portable`: a chunk the genome already knows becomes a `REF` without
  payload even under `--portable`; the README promises a self-contained seed.
* `chunking_rabin`: the outgoing byte is removed with a wrong power of the base,
  so Rabin cut points depend on everything before them; the chunker's docstring
  calls them shift-resilient. Running the code: after the insertion of one byte
  BuzHash finds 86 of 87 chunks again, Rabin none of 70.
* `fetch_silent`: a node that accepts a request and never answers ends
  `get_chunk` with a bare `TimeoutError` at the first attempt: no retry, no
  gateway, although its docstring says it falls back when all attempts fail.
  Running the code against a silent socket shows one request and no gateway.

More are in the models and have no run of their own:

* `snapshot_genome` reports success for snapshots that `restore_genome` always
  refuses: with an entry over 128 MiB (`Oversize`), which nothing refuses when
  chunks are stored or a snapshot is written; with a rotten row; and with a header
  that a commit between the count and the `SELECT` made wrong (`skewed`).
  `SnapshotRestorable` says that these are all the causes, and that each is one;
  `RefusedForCause` that a restore has no other reason to refuse. Two snapshots at
  once on one path, which the model leaves out, would be a fourth.
* `restore --replace` commits the deletion of all rows before it looks at the first
  entry, so a refused restore leaves an empty genome, or a part. `RowsLeaveByReplace`
  only says that nothing else deletes rows; no document promises more.
* A pack cut inside its count, or inside the size of its last entry, imports
  with success (`ShortNumber`); the docstring of `import_genes` says that
  truncated files are refused.
* If the seed is rewritten while its chunks are published (`RewriteSeed`), the
  sidecar's `seed_sha256` is that of the file as it is afterwards, its chunks
  those of the file as it was before.
* `docs/FORMAT.md:29` has unknown sections ignored if the integrity section can be
  verified; the scan ignores them anywhere, also behind the integrity section.
* `docs/FORMAT.md:90-93` lets `payload_crc32` cover everything to the end of the last
  non-integrity section, `docs/FORMAT.md:104` the signature everything to the end of
  the last section that is neither; in the code they cover what stands before
  the integrity section and before the signature, so in a file another tool
  wrote, sections behind either are not covered (`Before`, `SignedData`).
  `SignedIsVouched` holds all the same: the header under the signature counts
  the sections, and leaves room for one more, which must be the integrity section.
* `sign_seed_file` cannot sign a sealed seed, and writes a plain file.
* `serialize_seed` embeds chunks that `parse_seed` refuses (`CleanReadable`).
* A rotten row of a cache makes every decode over it fail although the node has
  the chunk (`CachedOp`), and a locked cache ends a decode with a bare
  `OperationalError` (`CacheLocked`) although the chunk is at hand.
* The README says that fetch-decode reads and requires the chunk manifest
  sidecar; the code never opens it (so no action of `ChunkFetch` does).

A request without an answer ends `fetch_seed` at its first attempt in the same
way as `get_chunk` (`RequestFails` crashes), and what its gateway serves is
checked to be a seed but not to be the one of the CID: `FetchedIs` promises
no more.

## Proofs

`SeedCodecProofs` proves, for every number of processes, files, seeds,
contents and every bound, from `ShaAssumption` (digests of distinct payloads
differ) and `CodecAssumption`:

* `CodecTypeCorrect`: `CodecSpec => []CodecTypeOK`. `CodecTypeOK` is inductive
  as it stands. The work is in `EmitShape`: what `Emit` does to a seed, that
  indices stay inside the table and payloads parallel to it.
* `SeedsAreCovered`: `CodecSpec => []SeedsCovered`. `SeedsCovered` speaks of
  finished seeds and of what they resolve to, so it is not inductive.
  `CoverInv` is: payloads in a seed are genuine (`RawGenuine`), and in every
  draft being encoded and every seed, unless exposed to damage, a `RAW` op has
  its payload and a `REF` op its row (`BackedBy`). It holds because rows only
  leave by damage, and the answer of `has_chunk` (or the commit of a put) is
  given in the step that records the op.

`WorkerPoolProofs` and `ChunkPublishProofs` prove, for every number of
commands, threads, chunks, seeds and attempts, from `NodeAssumption` (no set of
names is `NoDir`), `PublishAssumption` and `PoolAssumption`:

* `PublishPoolsSafe`: `NothingStartsAfterCancel` and `AllOrRaise`
  hold throughout `PublishSpec`. Neither is inductive, since each speaks of a pool
  that has reached a phase. `PoolSafe` says what is true on the way there: while
  the main thread collects, nothing has been told to cancel and everything
  collected has returned; while it cancels, every task still queued lies beyond
  the last future it has called `cancel` on, because workers only ever
  shorten the queue; and a raised exception has a task that raised it.
* `PublishImplements`: `PublishSpec => PublicationKept`, one step at a time. What
  a sidecar lists must have been acknowledged, which depends on the pool: it is
  left without an exception only when every put has returned, and a put returns
  only with its chunk acknowledged. `PublishInv` carries this through the
  phases (`CommandOK`): the `linked` first chunks are in the command's
  directory, its root is the whole table once it has been read back, and the
  sidecar has been opened when a command writes to it. `Apart` is what keeps
  commands from spoiling this for one another: those working in MFS have
  different directories, because `mkdir` without `parents` refuses a name that
  exists. Commands on one sidecar need nothing to keep them apart: each writes a
  manifest that is true on its own, and what they mix is no manifest.
* `PublishTidies`: `PublishSpec => []MfsTidy`, from the same invariant.
* `PublishPins`: `PublishSpec => []PinnedStays`. `PinnedInv` adds that whatever
  is pinned is on the node, that sidecars have roots that hold all of their
  chunks, and that a command past its pin has pinned what it will list.

`ChunkFetchProofs` proves about `ChunkFetch`, again for every value of the
constants, from `FetchAssumption` (among other things: what a seed embeds has a
payload), `ShaAssumption` and `PoolAssumption`:

* `FetchImplements`: `FetchSpec => DeliveryKept`. `FetchInv` keeps, per command,
  that every result the threads have left is missing or genuine, and that the
  output is as long as the place in the recipe says: up to the batch while
  chunks are fetched, between batch and batch end while they are written.
  `Sound` is proved of every step: the invariant after it, and its image.
* `FetchAsksGateway`: `FetchSpec => []GatewayAsked`.
* `FetchPoolsSafe`: the two properties of the pool, here as well.

and about `HybridDecode`, where decodes over a shared cache run next to
fetch-decodes:

* `HybridImplements`, `CacheStaysGenuine`, `OfflineAfterDecode` and
  `HybridAsksGateway`: `DeliveryKept`, `CacheGenuine`, `OfflineAfter` and
  `GatewayAsked` for `HybridSpec`. `HybridInv` is `FetchInv` and, per decode,
  `DecodeOK`: there is an op left while it asks for one, the payload about to be
  cached is that op's, and what has been written so far is embedded or has a row
  (`Covered`). The last survives the steps of everyone else because rows are
  kept (`RowsKept`), even by a put of another process or by decay. A decode has no
  pool (`CommandOK`: only a command that waits for its pool has one), so no thread
  can write into what it is about to cache (`RunningInPool`).

`SeedFilesProofs` proves all five properties of `SeedFiles` for any seeds, keys,
passphrases, paths, processes and any number of mishaps, from `FilesAssumption`
(seeds are what encode writes: their ops point into their table). The
inductive invariant `FilesInv` says of every plain file (`PlainOK`): it has at
most one integrity section (`One`), its signatures are on something that was
signed (`SectionOK`), and it reads as what its last writer meant or not at all.
Reading is not inductive under decay, so where the file ends with its
integrity section (`Ended`), the invariant says more: the data its digest of the
whole was taken of decode to the meant seed or to nothing (`Bound`). Decay
changes the sections or the digest but never the data in the digest, so
whatever is read is still that seed (`EndedReads`, `DecayOK`). An edit that
computes the digest anew takes it of what it leaves (`RecomputedOK`).
`VouchedFile` is the argument about signatures: equal signed data have equal
section counts, so behind a signature that holds there is exactly one section, and
since a file that parses has an integrity section behind its signature, the
content before it is the signed one. `SerializeParses` and `RecipeRoundTrip` say
that reading undoes writing.

The second half of `SeedCodecProofs` proves the other promises of the codec, again for
any constants (`TornAssumption`: a file that does not parse is no seed):

* `PrefixesGenuine`, `StrictGateHolds`, `QuickGateHolds`: `PrefixGenuine`,
  `StrictGate` and `QuickGate` hold throughout `CodecSpec`. `StepOwn` is the frame:
  whatever one process does, the genome only `Grows` and the others stand `Still`
  or become exposed. `ReadInv` says, per reader, where it is in its
  recipe (`Place`), that what it has written carries the digests of the ops
  (`Written`), and, unless exposed, that what it has passed can still be found
  (`Seen`); `Whole` is what a command that has ended with "ok" has compared.
* `RoundTrips`: `CodecSpec => []RoundTrip`. `VersionInv` follows a content through all
  four places it goes: the digest in a draft's manifest is that of a version
  of some source, and where nothing was edited, a draft in the making
  `Follows` the source as far as it has been read, and so a seed that was
  written describes one version as a whole.
* `TornByWriters`: `TornOnlyByWriters`, that a path without a readable seed has an
  encoder with its file open or a `spoilt` last write, is inductive: each way an
  encode can stop (`Stops`) leaves the path alone before it was opened, and a
  write that ends well takes the path out of `spoilt`, also when another encoder
  has it open.

`TransportProofs` proves all five properties of `SeedTransport` for any number
of clients, paths, files and attempts: `FetchedSeeds`, `FetchTriesAll`,
`ReportedPins`, `HealthReports` and `FilesNeedBytes`. `TransportInv` says of every client
what it knows at each step of its command: what its bytes are (`BlobOK`), how many
attempts it has made (`AttemptsOK`), what it was told (`ToldOK`) and what holds
once it has ended (`EndOK`); and that pins hold blocks that are there.
`OthersOK` is the argument about interference: a step of another client is either
`Spared`, leaving this one's path and pins as they were, or it puts the client
into `disturbed`, of which nothing is claimed.

The second half of `TransportProofs` is about `GenesPack`, for any contents, sizes, seeds
and genomes, any number of exports and imports and any cuts, from
`GenesAssumption` (no payload is empty: no chunker cuts an empty chunk, and an
entry of size 0 would read as a missing one):

* `PacksTransport`: `Transported` holds throughout `GenesSpec`. It speaks of the end
  of an import only. The invariant `GenesInv` says what a pack looks like on the
  way: `Layout` gives each entry of the table its place in the file and says
  which have a payload; `Packed` that those are the `carried` ones, and all of
  them if none was `absent`. An export under way has packed as many entries as
  its file has hashes (`EntriesGrow`, `LayoutGrows`). An importer whose copy is
  whole stands before one of the entries (`InPlace`), and the payloads of the
  earlier ones have rows: its offset is never inside an entry, although nothing
  in the file separates them, because sizes tell which entries have a payload
  (`InPlaceMoves`). Rows of the target are never taken away (`TargetKept`), so
  at the end all are there.
* `ImportsGenuine`: `ImportGenuine`, for packs that are whole, cut or empty: a hash
  or a payload that is read is a field of the right kind (`EntryTyped`,
  `DataTyped`), and only a payload that has been hashed is put.
* `GenesTyped`: types, which say above all that a number read from a cut pack is
  still a number (`CutsAreFields`), and that the importer of a whole pack is never
  past its end.

`ChunkingProofs` proves the three safety properties of `Chunking` for any streams,
bytes, word widths, BuzHash tables, windows and bounds, and any sizes that
`_cfg` of `cli.py` accepts (`ChunkingAssumption`):

* `ChunkSizes`: `SizesBounded` holds throughout `ChunkingSpec`, for all three
  chunkers. `ChunkInv` adds that the open chunk is below the size at which it is cut
  and what the ring, its fill and its position are (`Shape`).
* `HashesRoll`: `Rolling`, under `ShortMask`: always for the fixed and the BuzHash
  chunker, for Rabin if its mask has at most eight bits. With longer masks it
  is false (the run `chunking_rabin`), and the proof shows why: the outgoing
  byte is taken off with one power of 257 too many, which makes no
  difference modulo 256 because 257 is 1 there (`PowerIsOne`), and only there.
  The argument has two parts. `RingOK`: the ring holds the last window in order
  from where the next byte goes, through the wrap-around (`RingRolls`).
  `RollShifts`: taking the first byte off the hash of a window and pushing one
  behind it gives the hash of the next window, because taking off commutes with
  pushing (`WithoutPush`): rotations of words add up and keep exclusive or
  (`RotOnce`, `RotXor`).
* `ShiftsResilient`: `ShiftResilient` under the same condition. Two streams are
  `Alike` in as many last bytes as they shared; with a window of these their
  hashes are equal by `HashesRoll`, so from a common cut on their open chunks have
  the same size and are cut at the same byte (`AlikeSize`). Rabin with a long mask
  has no such property.

The hashes and sums of the model are folds. `SetInduction` is induction in the form the
provers can use (a set of numbers closed under the successor, from the least
element of its complement); `FoldExists` shows by it that the recursive function
behind a fold exists, and `HashFold` and `SumFold` give the value of every
beginning of the sequence, along which everything else goes by `SetInduction`.

`GenomeWorkspaceProofs` proves all safety properties of the `workspace` run for
`WorkspaceSpec`, for any processes, agents, paths, contents and bounds, from
`BackupAssumption` (digests are finitely many), `NoFileAssumption` and
`WorkspaceAssumption` (a process is not an agent):

* `RestoresAllOrNothing`, `RestoresCover`, `SnapshotsRestorable`,
  `RefusalsJustified`, `SeedsSurviveLoss` and `RowsStay`, for any payloads over the
  limit and any commits between count and `SELECT`. For `SnapshotsRestorable` the
  invariant has, of every snapshot under way and completed, that its path is
  `skewed` if and only if the announced count is not that of its moment
  (`Copying`, `WholeOK`). `RefusalsJustified` follows from where a restore stands in
  a file (`ReadOn`): the entries it has taken are the first of the file and good,
  so what it refuses is an entry no restore takes, or a wrong count.
* The invariant `WorkInv` is that of `SeedsAreCovered` and `BackupInv`. `BackupInv`
  ties each file to a moment: behind its header come rows of it, each once and in
  order (`Part`), the header counts them, and the moment has what the sound seeds
  of its SELECT need (`Keeps`). A snapshot that is `Copying` has what is on disk
  as its first items (`Begins`); while its cursor is open, nobody changes a row.
  A restore that may `ReadOn` has the digests of the first items of the file.
  When it ends, it has counted as many different rows of the moment as there
  are, and so all of them (`ReadAll`): nothing of this holds without the order
  of the rows or without the check behind the last entry.
* The argument about interference is `OthersOK`: an agent `StandsBy` while another
  one steps; its file stays (`FileStays`), or grows while it is being read
  (`InputStays`), or it is put into `shaken`, of which nothing is claimed.
  `QuietKeeps` says the same of commands of the codec, of decay and of loss.

Liveness is only model-checked (`EverythingEnds`, `PublishEnds`,
`FetchEnds`): the provers have no rules for fairness. So is what
`codec_portable`, `chunking_rabin` and `fetch_silent` exhibit, being false. Every safety
property of a passing run is a theorem.

## Plan

1. *(done)* genome, codec, backup, workspace: the promise that seeds stay
   resolvable. Genes packs. Chunkers. Publishing and fetching of chunks over an
   IPFS node. Seed transport and pinning. The hybrid store. Containers,
   signatures and encryption.
2. Decode of `SeedCodec` as a further implementation of `Delivery`; a composition
   in which what one machine publishes another fetches. ML hooks.
3. Proofs: *(done: the codec, the pool, `PublicationKept`, `MfsTidy`,
   `PinnedStays`, `DeliveryKept` of fetch-decode and of the hybrid decode, seed
   files, the transport, backups over a shared genome, genes packs, chunkers)* `HashesRoll` for
   long Rabin masks is false and stays a finding; decode as an implementation of
   `Delivery`.

## Not modelled

The ML hooks and the oras wrapper are sequences of requests to services that
nothing in `src/` reads back, and no document promises more of them than that a
failure is raised. Diagnostics, performance gates and error classes keep no
state. The command line is modelled where the order of its effects matters
(publish, publish-chunks, fetch, pin). Chunk manifests that are read, and the
conversion of digests to CIDs, are pure: a CID is its digest. The bytes of HTTP
requests and the derivation of keys from passphrases are left out.
