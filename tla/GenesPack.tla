------------------------------ MODULE GenesPack ------------------------------
(***************************************************************************)
(* Carrying the chunks of a seed to another machine: export_genes and      *)
(* import_genes of src/seedbraid/codec.py, over GENE1 pack files.          *)
(*                                                                         *)
(* A pack is the sequence of the fields written to it: the magic, the      *)
(* number of entries, and for each entry a hash, a size and, unless the    *)
(* size is zero, the payload.  A pack may end anywhere, also inside a      *)
(* field: then its last field is Partial.                                  *)
(***************************************************************************)
EXTENDS Payloads, Sequences, FiniteSets

CONSTANTS
    SizeOf,         \* length of a payload in bytes
    Tables,         \* hash tables a seed may have
    MaxImports,     \* bound on imports
    MaxExports,     \* bound on exports
    MaxMishaps      \* bound on kills, cut copies and rot

\* No chunker cuts an empty chunk.
ASSUME GenesAssumption ==
    /\ SizeOf \in [Content -> Nat \ {0}]
    /\ Tables \subseteq Seq(Digest)

VARIABLES
    source,     \* the genome exported from
    target,     \* the genome imported into
    table,      \* the hash table of the seed
    pack,       \* the fields on disk
    xpc, written, absent,   \* the exporter: place, fields written, entries without a row
    ipc, copy, offset, owed,    \* the importer: place, its copy of the pack, fields
                                \* read, entries to read
    exports, imports, mishaps,  \* counters of the bounds
    carried,    \* history: digests whose payload the exporter wrote
    entire,     \* history: the pack is as a completed export wrote it
    promise     \* history: <<carried, absent>> of the export whose pack the
                \* importer has a copy of, or <<>>

exporterVars == <<xpc, written, absent, carried, exports>>
importerVars == <<ipc, copy, offset, owed, imports>>
genesVars == <<source, target, table, pack, exporterVars, importerVars,
               mishaps, entire, promise>>

Source == INSTANCE GenomeStore WITH genome <- source, cursors <- {}
Target == INSTANCE GenomeStore WITH genome <- target, cursors <- {}

Rows == [Digest -> Content \union {Missing}]

-----------------------------------------------------------------------------
(* Fields.                                                                  *)

Magic == [kind |-> "magic"]
Number(n) == [kind |-> "number", value |-> n]
Hash(d) == [kind |-> "hash", hash |-> d]
Payload(c) == [kind |-> "data", data |-> c]

\* int.from_bytes of the first k of the four bytes of n.
ShortNumber(n, k) == IF k = 0 THEN 0 ELSE n \div 256 ^ (4 - k)

\* The beginning of a field.
Partials(field) ==
    IF field.kind = "number"
    THEN {[kind |-> "partial", value |-> ShortNumber(field.value, k)] : k \in 1..3}
    ELSE {[kind |-> "partial", value |-> 0]}

\* What a file holds when it is cut before the end of fs.
CutsOf(fs) ==
    {SubSeq(fs, 1, n) : n \in 0..Len(fs) - 1}
        \union UNION {{Append(SubSeq(fs, 1, n), f) : f \in Partials(fs[n + 1])} :
                         n \in 0..Len(fs) - 1}

\* Reading at the n-th field.  A number has no length check: past the end of
\* the file it reads as 0.
Has(n, kind) == n <= Len(copy) /\ copy[n].kind = kind
ReadNumber(n) == IF n <= Len(copy) THEN copy[n].value ELSE 0

-----------------------------------------------------------------------------
(* export_genes.                                                            *)

\* Faulty variant: the number of rows found is announced.
AnnouncedStored == Cardinality({i \in 1..Len(table) : source[table[i]] # Missing})

\* The number of entries announced.
Announced == Len(table)

ExportStart ==
    /\ xpc = "idle" /\ exports < MaxExports
    /\ exports' = exports + 1
    /\ xpc' = "rows"
    /\ pack' = <<>>
    /\ written' = <<Magic, Number(Announced)>>
    /\ absent' = 0 /\ carried' = {}
    /\ entire' = FALSE
    /\ UNCHANGED <<source, target, table, importerVars, mishaps, promise>>

EntriesIn(fs) == Cardinality({i \in 1..Len(fs) : fs[i].kind = "hash"})
Exporting == xpc = "rows" /\ EntriesIn(written) < Len(table)
Current == table[EntriesIn(written) + 1]

\* A row is packed as it is, its payload is not hashed.
ExportRow ==
    /\ Exporting
    /\ LET chunk == Source!GetChunk(Current)
       IN  /\ chunk # Missing
           /\ written' = written \o <<Hash(Current), Number(SizeOf[chunk]), Payload(chunk)>>
    /\ carried' = carried \union {Current}
    /\ UNCHANGED <<source, target, table, pack, xpc, absent, exports, importerVars,
                   mishaps, entire, promise>>

ExportMissing ==
    /\ Exporting
    /\ Source!GetChunk(Current) = Missing
    /\ written' = written \o <<Hash(Current), Number(0)>>
    /\ absent' = absent + 1
    /\ UNCHANGED <<source, target, table, pack, xpc, carried, exports, importerVars,
                   mishaps, entire, promise>>

ExportDone ==
    /\ xpc = "rows" /\ ~Exporting
    /\ xpc' = "idle"
    /\ pack' = written
    /\ entire' = TRUE
    /\ UNCHANGED <<source, target, table, written, absent, carried, exports,
                   importerVars, mishaps, promise>>

\* A kill or a full disk: some of what was written is on disk.
ExportAbort ==
    /\ xpc = "rows" /\ mishaps < MaxMishaps
    /\ mishaps' = mishaps + 1
    /\ xpc' = "idle"
    /\ pack' \in CutsOf(written)
    /\ UNCHANGED <<source, target, table, written, absent, carried, exports,
                   importerVars, entire, promise>>

-----------------------------------------------------------------------------
(* import_genes.                                                            *)

ImportEnd(r) == ipc' = r /\ UNCHANGED <<copy, offset, owed, imports>>

\* The magic and the count.  The pack is read on the other machine, from a
\* copy.
ImportStart ==
    /\ ipc # "entries" /\ imports < MaxImports
    /\ imports' = imports + 1
    /\ copy' = pack
    /\ offset' = 2
    /\ IF pack # <<>> /\ pack[1] = Magic
       THEN ipc' = "entries" /\ owed' = IF Len(pack) > 1 THEN pack[2].value ELSE 0
       ELSE ipc' = "refused" /\ owed' = 0
    /\ promise' = IF entire THEN <<carried, absent>> ELSE <<>>
    /\ UNCHANGED <<source, target, table, pack, exporterVars, mishaps, entire>>

EntryHash == copy[offset + 1].hash
EntrySize == ReadNumber(offset + 2)
EntryData == copy[offset + 3].data

\* Faulty variant: the payload is not hashed.
GoodEntryUnhashed == Has(offset + 3, "data")

GoodEntry == Has(offset + 3, "data") /\ Sha[EntryData] = EntryHash

\* An entry without a payload is passed over.
ImportSkip ==
    /\ ipc = "entries" /\ owed > 0
    /\ Has(offset + 1, "hash") /\ EntrySize = 0
    /\ offset' = offset + 2
    /\ owed' = owed - 1
    /\ UNCHANGED <<source, target, table, pack, exporterVars, ipc, copy, imports,
                   mishaps, entire, promise>>

ImportPut ==
    /\ ipc = "entries" /\ owed > 0
    /\ Has(offset + 1, "hash") /\ EntrySize > 0 /\ GoodEntry
    /\ Target!PutChunk("importer", EntryHash, EntryData)
    /\ offset' = offset + 3
    /\ owed' = owed - 1
    /\ UNCHANGED <<source, table, pack, exporterVars, ipc, copy, imports,
                   mishaps, entire, promise>>

\* A hash or a payload is cut short, or does not match.
ImportRefuse ==
    /\ ipc = "entries" /\ owed > 0
    /\ ~Has(offset + 1, "hash") \/ (EntrySize > 0 /\ ~GoodEntry)
    /\ ImportEnd("refused")
    /\ UNCHANGED <<source, target, table, pack, exporterVars, mishaps, entire, promise>>

\* Bytes after the last entry are not looked at.
ImportDone ==
    /\ ipc = "entries" /\ owed = 0
    /\ ImportEnd("ok")
    /\ UNCHANGED <<source, target, table, pack, exporterVars, mishaps, entire, promise>>

ImportKill ==
    /\ ipc = "entries" /\ mishaps < MaxMishaps
    /\ mishaps' = mishaps + 1
    /\ ImportEnd("killed")
    /\ UNCHANGED <<source, target, table, pack, exporterVars, entire, promise>>

-----------------------------------------------------------------------------
(* The environment.                                                         *)

\* Another process learns a chunk on either machine.
LearnSource(c) ==
    /\ source[Sha[c]] = Missing
    /\ Source!PutChunk("other", Sha[c], c)
    /\ UNCHANGED <<target, table, pack, exporterVars, importerVars, mishaps, entire, promise>>

LearnTarget(c) ==
    /\ target[Sha[c]] = Missing
    /\ Target!PutChunk("other", Sha[c], c)
    /\ UNCHANGED <<source, table, pack, exporterVars, importerVars, mishaps, entire, promise>>

Mishap ==
    /\ mishaps < MaxMishaps
    /\ mishaps' = mishaps + 1
    /\ UNCHANGED <<target, table, exporterVars, importerVars>>

\* The copy that travels is cut short.
CutCopy ==
    /\ xpc = "idle"
    /\ pack' \in CutsOf(pack)
    /\ entire' = FALSE
    /\ Mishap
    /\ UNCHANGED <<source, promise>>

RotSource ==
    /\ \E d \in Digest : Source!RotRow(d)
    /\ Mishap
    /\ UNCHANGED <<pack, entire, promise>>

-----------------------------------------------------------------------------
GenuineRows == {g \in Rows : \A d \in Digest : g[d] # Missing => Sha[g[d]] = d}

GenesInit ==
    /\ source \in GenuineRows /\ target \in GenuineRows
    /\ table \in Tables
    /\ pack = <<>>
    /\ xpc = "idle" /\ written = <<>> /\ absent = 0
    /\ ipc = "idle" /\ copy = <<>> /\ offset = 0 /\ owed = 0
    /\ exports = 0 /\ imports = 0 /\ mishaps = 0
    /\ carried = {} /\ entire = FALSE /\ promise = <<>>

GenesNext ==
    \/ ExportStart \/ ExportRow \/ ExportMissing \/ ExportDone \/ ExportAbort
    \/ ImportStart \/ ImportSkip \/ ImportPut \/ ImportRefuse \/ ImportDone \/ ImportKill
    \/ \E c \in Content : LearnSource(c) \/ LearnTarget(c)
    \/ CutCopy \/ RotSource

GenesSpec == GenesInit /\ [][GenesNext]_genesVars

-----------------------------------------------------------------------------
(* Properties.                                                              *)

\* Every variable has its type, and the importer never reads past the end of
\* a pack that a completed export wrote.
GenesTypeOK ==
    /\ source \in Rows /\ target \in Rows
    /\ table \in Tables
    /\ xpc \in {"idle", "rows"} /\ absent \in 0..Len(table)
    /\ ipc \in {"idle", "entries", "ok", "refused", "killed"}
    /\ offset \in Nat /\ owed \in Nat
    /\ ipc = "entries" /\ promise # <<>> => offset <= Len(copy)
    /\ carried \subseteq Digest /\ entire \in BOOLEAN
    /\ promise # <<>> => promise[1] \subseteq Digest /\ promise[2] \in Nat

\* Whatever pack it is given, cut, rotten or whole, an import never stores a
\* payload under a digest that is not its own.
ImportGenuine == [][Target!RottenRows' \subseteq Target!RottenRows]_genesVars

\* A successful import of a pack left as its export wrote it has brought every
\* chunk that was packed; if no chunk was reported missing, the seed can be
\* decoded from the target genome alone.
Transported ==
    ipc = "ok" /\ promise # <<>> =>
        /\ promise[1] \subseteq Target!Stored
        /\ promise[2] = 0 => \A i \in 1..Len(table) : Target!HasChunk(table[i])
=============================================================================
