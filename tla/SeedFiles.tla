------------------------------ MODULE SeedFiles ------------------------------
(***************************************************************************)
(* Seed files on disk: write_seed and sign_seed_file (container.py), run   *)
(* by several processes over the same paths.  Files decay, are cut by      *)
(* kills and overlapping writers, and are edited by other tools, which can *)
(* compute digests but hold no keys.                                       *)
(*                                                                         *)
(* read_seed and verify_seed read a file in one call and change nothing:   *)
(* they are operators, and the properties say of every state what a read   *)
(* in it returns, whatever key and passphrase it is given.                 *)
(***************************************************************************)
EXTENDS SeedContainer

CONSTANTS
    Client,         \* processes
    WithCrypto,     \* those where the cryptography package is installed
    Path,           \* paths of seed files
    Hash,           \* chunk digests
    Seeds,          \* what encode may write
    Strange,        \* recipe bodies only other tools write
    Keys,           \* signature keys
    Passphrases,
    NoSeed,
    MaxCommands, MaxMishaps     \* bounds on what happens

ASSUME FilesAssumption ==
    /\ WithCrypto \subseteq Client
    /\ NoKey \notin Keys \union Passphrases
    /\ \A s \in Seeds :
        /\ s # NoSeed
        /\ s.recipe.table \in Seq(Hash)
        /\ s.recipe.ops \in Seq([code : {"REF", "RAW"}, index : Nat])
        /\ \A i \in DOMAIN s.recipe.ops : s.recipe.ops[i].index < Len(s.recipe.table)
        /\ s = [manifest |-> s.manifest, raw |-> s.raw,
                recipe |-> [table |-> s.recipe.table, ops |-> s.recipe.ops]]
    /\ \A r \in Strange :
        /\ r.form = "recipe" /\ {r.ops, r.hashes} \subseteq Nat
        /\ r.cells \in Seq(Hash \union [code : {"REF", "RAW"}, index : Nat])
    /\ {MaxCommands, MaxMishaps} \subseteq Nat

VARIABLES
    files,      \* path -> what is in it
    pc,         \* client -> "idle", or the half of a write it is at
    job,        \* client -> the path it writes, the bytes, the seed in them
    begun, mishaps,     \* counters of the bounds
    meant,      \* history: path -> the seed its last writer meant
    clean,      \* history: paths that are as their last writer left them
    written,    \* history: seeds somebody closed a file around
    bare,       \* history: those not only under a passphrase
    signed      \* history: <<key, seed>> that a holder of the key signed

ownVars == <<pc, job>>
bounds == <<begun, mishaps>>
traceVars == <<meant, clean, written, bare, signed>>
fileVars == <<files, ownVars, bounds, traceVars>>

-----------------------------------------------------------------------------

NoFile == [form |-> "none"]
Empty  == [form |-> "empty"]
NoJob  == [path |-> "none"]
Key    == Keys \union {NoKey}
Pass   == Passphrases \union {NoKey}

\* A command that has made, in memory, the bytes it will put at path p.
Begin(c, p, seed, bytes) ==
    /\ pc[c] = "idle" /\ begun < MaxCommands
    /\ begun' = begun + 1
    /\ pc' = [pc EXCEPT ![c] = "open"]
    /\ job' = [job EXCEPT ![c] = [path |-> p, seed |-> seed, bytes |-> bytes]]
    /\ UNCHANGED <<files, mishaps, meant, clean>>

Ends(c) ==
    /\ pc' = [pc EXCEPT ![c] = "idle"]
    /\ job' = [job EXCEPT ![c] = NoJob]

-----------------------------------------------------------------------------
(* write_seed and sign_seed_file: the bytes are made in memory, then the    *)
(* file is truncated, then they follow.  A compression that is not known,   *)
(* or a file that cannot be read, ends the command before anything changes. *)

WriteStart(c) ==
    \E p \in Path, s \in Seeds, z \in Compression, k \in Key, e \in Pass :
        LET file == Serialize(s, z, k)
        IN  /\ Begin(c, p, s, IF e = NoKey THEN file ELSE Encrypt(file, e, c \in WithCrypto))
            /\ written' = written \union {s}
            /\ bare' = IF e = NoKey THEN bare \union {s} ELSE bare
            /\ signed' = IF k = NoKey THEN signed ELSE signed \union {<<k, s>>}

\* Faulty variant: the passphrase of the seed is used to read it.
SignReadableAnyhow(file, c) == \E e \in Pass : Readable(file, e, c \in WithCrypto)

\* sign_seed_file reads without a passphrase.
SignReadable(file, c) == Readable(file, NoKey, c \in WithCrypto)

\* A signature the file carries is not read; what is written is never sealed.
SignStart(c) ==
    \E p, q \in Path, k \in Keys :
        LET file == Inner(files[p])
        IN  /\ SignReadable(files[p], c)
            /\ Begin(c, q, SeedIn(file), Serialize(SeedIn(file), CompressionIn(file), k))
            /\ signed' = signed \union {<<k, SeedIn(file)>>}
            /\ UNCHANGED <<written, bare>>

Open(c) ==
    /\ pc[c] = "open"
    /\ pc' = [pc EXCEPT ![c] = "flush"]
    /\ files' = [files EXCEPT ![job[c].path] = Empty]
    /\ clean' = clean \ {job[c].path}
    /\ UNCHANGED <<job, bounds, meant, written, bare, signed>>

\* Bytes another writer has put there since may reach beyond these.
Flush(c) ==
    LET p == job[c].path
    IN  /\ pc[c] = "flush"
        /\ \E tail \in IF files[p] = Empty THEN {0} ELSE {0, 1} :
            /\ files' = [files EXCEPT ![p] = [job[c].bytes EXCEPT !.tail = tail]]
            /\ clean' = IF tail > 0 THEN clean \ {p} ELSE clean \union {p}
        /\ meant' = [meant EXCEPT ![p] = job[c].seed]
        /\ Ends(c)
        /\ UNCHANGED <<bounds, written, bare, signed>>

-----------------------------------------------------------------------------
(* _verify_signature_phase.                                                 *)

SignaturePhase(file, require, key) ==
    IF Has(file, "signature")
    THEN IF key = NoKey THEN ~require ELSE SignatureHolds(file, key)
    ELSE ~require

-----------------------------------------------------------------------------
(* What happens to files.                                                   *)

\* Sections a decayed byte, or another tool, can put in the place of another.
Parts ==
    {Section("note", Garbled)}
    \union {Section("recipe", r) : r \in Strange}
    \union UNION {{ContentSections(s, z)[i] : i \in DOMAIN ContentSections(s, z)}
                     : s \in Seeds, z \in Compression}

\* An integrity section that lost one of its digests.
Without(sums, d) == [x \in DOMAIN sums \ {d} |-> sums[x]]
Weakened(body) ==
    {[body EXCEPT !.crc = Without(body.crc, d)] : d \in DOMAIN body.crc}
    \union {[body EXCEPT !.sha = Without(body.sha, d)] : d \in DOMAIN body.sha}

DecayedSection(s) ==
    {Section(s.type, Garbled), Section("note", s.body)}
    \union {x \in Parts : x.type = s.type}
    \union IF s.body.form = "integrity"
           THEN {Section(s.type, b) : b \in Weakened(s.body)} ELSE {}

\* Bytes changed, lost from the end or added; sections never get sums that
\* fit the change.
Decayed(file) ==
    IF file.form = "sealed" THEN {[file EXCEPT !.errors = 1], [file EXCEPT !.tail = 1]}
    ELSE {[file EXCEPT !.tail = 1], Empty}
         \union {[file EXCEPT !.count = n] : n \in 0..Len(file.sections) + 1}
         \union {[file EXCEPT !.sections = SubSeq(@, 1, n)] : n \in 0..Len(file.sections) - 1}
         \union UNION {{[file EXCEPT !.sections[i] = s] : s \in DecayedSection(file.sections[i])}
                          : i \in DOMAIN file.sections}

\* What follows an integrity section, which only other tools put anywhere but
\* at the end, is under no digest of the whole file: such files are spared.
Protected(file) ==
    \/ file.form = "sealed"
    \/ /\ file.form = "plain" /\ file.sections # <<>>
       /\ file.sections[Len(file.sections)].type = "integrity"

Damage(p) ==
    /\ Protected(files[p]) /\ mishaps < MaxMishaps
    /\ mishaps' = mishaps + 1
    /\ files' \in {[files EXCEPT ![p] = f] : f \in Decayed(files[p])}
    /\ clean' = clean \ {p}
    /\ UNCHANGED <<ownVars, begun, meant, written, bare, signed>>

\* Sections another tool has at hand: those, and signatures it finds.
Pool ==
    Parts \union {s \in UNION {{files[q].sections[i] : i \in DOMAIN files[q].sections}
                                  : q \in {r \in Path : files[r].form = "plain"}}
                      : s.type = "signature"}

\* One section inserted, replaced, removed or exchanged with the next.
Edited(sections, pool) ==
    LET n == Len(sections)
    IN  {SubSeq(sections, 1, i - 1) \o SubSeq(sections, i + 1, n) : i \in 1..n}
        \union {[sections EXCEPT ![i] = sections[i + 1], ![i + 1] = sections[i]] : i \in 1..n - 1}
        \union UNION {{SubSeq(sections, 1, i) \o <<s>> \o SubSeq(sections, i + 1, n) : i \in 0..n}
                        \union {[sections EXCEPT ![i] = s] : i \in 1..n} : s \in pool}

\* Count and digests made to fit.
FittingSums(file) ==
    LET before == Before(file, Start(file, "integrity"))
    IN  [d \in {x \in Mandatory \union {"raw"} : x = "payload" \/ Has(file, x)}
            |-> Digested(file, d, before)]

Recomputed(sections) ==
    LET file == Plain(Len(sections), sections)
        sums == FittingSums(file)
        body == [form |-> "integrity", crc |-> sums, sha |-> sums]
    IN  Plain(Len(sections),
              [sections EXCEPT ![Start(file, "integrity")] = Section("integrity", body)])

\* Another tool edits a file it can read and closes it again.
Edit(p) ==
    /\ files[p].form = "plain" /\ mishaps < MaxMishaps
    /\ mishaps' = mishaps + 1
    /\ \E sections \in Edited(files[p].sections, Pool) :
        LET file == Recomputed(sections)
            kept == Parses(file)
        IN  /\ Has(Plain(0, sections), "integrity")
            /\ files' = [files EXCEPT ![p] = file]
            /\ meant' = [meant EXCEPT ![p] = IF kept THEN SeedIn(file) ELSE NoSeed]
            /\ written' = IF kept THEN written \union {SeedIn(file)} ELSE written
            /\ bare' = IF kept THEN bare \union {SeedIn(file)} ELSE bare
    /\ clean' = clean \ {p}
    /\ UNCHANGED <<ownVars, begun, signed>>

\* A write is killed before its bytes are out.
Kill(c) ==
    /\ pc[c] # "idle" /\ mishaps < MaxMishaps
    /\ mishaps' = mishaps + 1
    /\ Ends(c)
    /\ UNCHANGED <<files, begun, traceVars>>

-----------------------------------------------------------------------------

FilesInit ==
    /\ files = [p \in Path |-> NoFile]
    /\ pc = [c \in Client |-> "idle"]
    /\ job = [c \in Client |-> NoJob]
    /\ begun = 0 /\ mishaps = 0
    /\ meant = [p \in Path |-> NoSeed]
    /\ clean = {} /\ written = {} /\ bare = {} /\ signed = {}

FilesNext ==
    \/ \E c \in Client : WriteStart(c) \/ SignStart(c) \/ Open(c) \/ Flush(c) \/ Kill(c)
    \/ \E p \in Path : Damage(p) \/ Edit(p)

FilesSpec == FilesInit /\ [][FilesNext]_fileVars

-----------------------------------------------------------------------------
(* Properties.                                                              *)

\* A file that reads is the seed the last writer of its path meant, however the
\* file was cut, overwritten in part or decayed since: sections that are lost,
\* doubled or renamed, a wrong count and missing digests are refused
\* (_scan_sbd1_sections, _verify_sbd1_integrity).
ReadBack ==
    \A p \in Path, e \in Pass, crypto \in BOOLEAN :
        Readable(files[p], e, crypto) => SeedIn(Inner(files[p])) = meant[p]

\* A seed that passes verify --require-signature is, in all of its parts, one
\* that a holder of the key signed, although other tools move, drop and insert
\* sections and compute digests that fit: what the signature does not cover
\* cannot hold a part of the seed.
SignedIsVouched ==
    \A p \in Path, e \in Pass, crypto \in BOOLEAN, k \in Keys :
        LET file == Inner(files[p])
        IN  Readable(files[p], e, crypto) /\ SignaturePhase(file, TRUE, k)
                => <<k, SeedIn(file)>> \in signed

\* Whoever signs, signs what somebody closed a file around: damage is never
\* made genuine by a signature over it.
VouchedWasWritten == \A v \in signed : v[2] \in written

\* A seed written only under a passphrase is in no plain file: signing, whose
\* output is always plain, does not open the envelope.
SealedStaysSealed ==
    \A p \in Path : Parses(files[p]) => SeedIn(files[p]) \in bare

\* A file nobody has touched since its writer finished holds that seed, whoever
\* else was writing to the path meanwhile, unless it embeds a chunk too large
\* for the reader, which the writer does not refuse.
CleanReadable ==
    \A p \in clean :
        LET file == Inner(files[p])
        IN  \/ Parses(file) /\ SeedIn(file) = meant[p]
            \/ \E i \in DOMAIN meant[p].raw : meant[p].raw[i] \in Oversize
=============================================================================
