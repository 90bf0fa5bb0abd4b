---------------------------- MODULE SeedContainer ----------------------------
(***************************************************************************)
(* The SBD1 container and its SBE1 envelope, src/seedbraid/container.py:   *)
(* what serialize_seed writes, what parse_seed lets through, and what a    *)
(* signature covers.                                                       *)
(*                                                                         *)
(* A plain file is its header's section count, its sections, and the bytes *)
(* that follow them, none or some; a section is its type and a body tagged *)
(* with the encoding it is in.  A digest (CRC-32, SHA-256, HMAC) is the    *)
(* data it is taken of, so that digests differ exactly when the data do.   *)
(***************************************************************************)
EXTENDS Naturals, Sequences, FiniteSets

CONSTANTS
    Compression,    \* manifest compressions this installation knows
    Oversize,       \* payloads of more than MAX_CHUNK_SIZE bytes
    NoKey           \* no signature key, no passphrase

-----------------------------------------------------------------------------
(* Bodies of sections.  A seed is [manifest, recipe, raw]; a recipe is      *)
(* [table, ops] with indices from 0, raw a function from indices.           *)

Garbled == [form |-> "garbled"]

ManifestBody(m, z) == [form |-> "manifest", compression |-> z, json |-> m]

RecipeBody(r) ==
    [form |-> "recipe", ops |-> Len(r.ops), hashes |-> Len(r.table),
     cells |-> r.table \o r.ops]

RawBody(raw) ==
    [form |-> "raw", count |-> Cardinality(DOMAIN raw), entries |-> raw]

\* _decode_manifest_payload
ManifestDecodes(b) == b.form = "manifest" /\ b.compression \in Compression

OpDecodes(op, hashes) == op.code \in {"REF", "RAW"} /\ op.index < hashes

DecodeRecipe(b) ==
    [table |-> SubSeq(b.cells, 1, b.hashes),
     ops   |-> SubSeq(b.cells, b.hashes + 1, b.hashes + b.ops)]

\* decode_recipe: no cell is missing or left over, every op is known and
\* points into the table.
RecipeDecodes(b) ==
    /\ b.form = "recipe"
    /\ Len(b.cells) = b.hashes + b.ops
    /\ \A i \in 1..b.ops : OpDecodes(b.cells[b.hashes + i], b.hashes)

\* decode_raw_payloads, which does not compare indices with the recipe.
RawDecodes(b) ==
    /\ b.form = "raw"
    /\ b.count = Cardinality(DOMAIN b.entries)
    /\ \A i \in DOMAIN b.entries : b.entries[i] \notin Oversize

-----------------------------------------------------------------------------
(* Files.                                                                   *)

Section(type, body) == [type |-> type, body |-> body]

Plain(count, sections) ==
    [form |-> "plain", count |-> count, sections |-> sections, tail |-> 0]

\* The bytes from the start of the file up to its i-th section.
Before(file, i) == [count |-> file.count, sections |-> SubSeq(file.sections, 1, i - 1)]

\* The dictionary of the scan: of the sections of a type the last one counts.
IsLast(file, type, i) ==
    /\ i \in DOMAIN file.sections
    /\ file.sections[i].type = type
    /\ \A j \in DOMAIN file.sections : file.sections[j].type = type => j <= i

Has(file, type) == \E i \in DOMAIN file.sections : IsLast(file, type, i)
Start(file, type) == CHOOSE i \in DOMAIN file.sections : IsLast(file, type, i)
Payload(file, type) == file.sections[Start(file, type)].body

\* What the two digests of a field of the integrity section are taken of.
Digested(file, field, before) == IF field = "payload" THEN before ELSE Payload(file, field)

Mandatory == {"manifest", "recipe", "payload"}

IntegrityBody(file) ==
    LET fields == Mandatory \union (IF Has(file, "raw") THEN {"raw"} ELSE {})
        whole  == Before(file, Len(file.sections) + 1)
        sums   == [f \in fields |-> Digested(file, f, whole)]
    IN  [form |-> "integrity", crc |-> sums, sha |-> sums]

Mac(key, data) == [key |-> key, of |-> data]

SignatureBody(key, data) ==
    [form |-> "signature", algorithm |-> "hmac-sha256", sha |-> data, mac |-> Mac(key, data)]

\* Faulty variant: the header is not under the signature.
SignedDataBare(file, i) == SubSeq(file.sections, 1, i - 1)

\* The bytes before the signature section, header included.
SignedData(file, i) == Before(file, i)

-----------------------------------------------------------------------------
(* serialize_seed.                                                          *)

ContentSections(seed, z) ==
    <<Section("manifest", ManifestBody(seed.manifest, z)),
      Section("recipe", RecipeBody(seed.recipe))>>
    \o IF seed.raw = <<>> THEN <<>> ELSE <<Section("raw", RawBody(seed.raw))>>

\* Faulty variant: a signature is not counted.
ExtraSectionsUnsigned(key) == 1

\* Sections to come after those of the content.
ExtraSections(key) == IF key = NoKey THEN 1 ELSE 2

Closed(file) ==
    [file EXCEPT !.sections = Append(@, Section("integrity", IntegrityBody(file)))]

Unsigned(seed, z, key) ==
    LET sections == ContentSections(seed, z)
    IN  Plain(Len(sections) + ExtraSections(key), sections)

Serialize(seed, z, key) ==
    LET file == Unsigned(seed, z, key)
        data == SignedData(file, Len(file.sections) + 1)
    IN  Closed(IF key = NoKey THEN file
               ELSE [file EXCEPT !.sections =
                        Append(@, Section("signature", SignatureBody(key, data)))])

-----------------------------------------------------------------------------
(* parse_seed.                                                              *)

\* Faulty variant: only the three digests of single sections are compared.
SumsAgreeApart(file, sums, before) ==
    /\ \A f \in {"manifest", "recipe"} :
           f \in DOMAIN sums.crc /\ sums.crc[f] = Digested(file, f, before)
    /\ Has(file, "raw") /\ "raw" \in DOMAIN sums.crc =>
           sums.crc["raw"] = Digested(file, "raw", before)

\* Three CRCs have to be there; every other digest is compared if it is.
SumsAgree(file, sums, before) ==
    /\ \A f \in Mandatory : f \in DOMAIN sums.crc /\ sums.crc[f] = Digested(file, f, before)
    /\ \A f \in Mandatory \intersect DOMAIN sums.sha : sums.sha[f] = Digested(file, f, before)
    /\ Has(file, "raw") =>
           /\ "raw" \in DOMAIN sums.crc => sums.crc["raw"] = Digested(file, "raw", before)
           /\ "raw" \in DOMAIN sums.sha => sums.sha["raw"] = Digested(file, "raw", before)

IntegrityHolds(file) ==
    LET g == Start(file, "integrity")
        sums == file.sections[g].body
    IN  /\ sums.form = "integrity"
        /\ Has(file, "signature") => Start(file, "signature") < g
        /\ SumsAgree(file, sums, Before(file, g))

\* The header is that of a seed, and the sections it counts fill the file.
Scans(file) == file.form = "plain" /\ Len(file.sections) = file.count /\ file.tail = 0

\* Every section that is looked at decodes.
Decodes(file) ==
    /\ Has(file, "manifest") /\ ManifestDecodes(Payload(file, "manifest"))
    /\ Has(file, "recipe") /\ RecipeDecodes(Payload(file, "recipe"))
    /\ Has(file, "raw") => RawDecodes(Payload(file, "raw"))
    /\ Has(file, "signature") => Payload(file, "signature").form = "signature"

Parses(file) ==
    /\ Scans(file)
    /\ Has(file, "manifest") /\ Has(file, "recipe") /\ Has(file, "integrity")
    /\ IntegrityHolds(file)
    /\ Decodes(file)

\* The seed in a file that parses.
SeedIn(file) ==
    [manifest |-> Payload(file, "manifest").json,
     recipe   |-> DecodeRecipe(Payload(file, "recipe")),
     raw      |-> IF Has(file, "raw") THEN Payload(file, "raw").entries ELSE <<>>]

CompressionIn(file) == Payload(file, "manifest").compression

\* verify_signature: the data signed are those before the signature section.
SignatureHolds(file, key) ==
    LET sig  == Payload(file, "signature")
        data == SignedData(file, Start(file, "signature"))
    IN  /\ Has(file, "signature")
        /\ sig.algorithm = "hmac-sha256"
        /\ sig.sha = data
        /\ sig.mac = Mac(key, data)

-----------------------------------------------------------------------------
(* The SBE1 envelope and read_seed.                                         *)

\* Version 3 (AES-GCM) where the cryptography package is installed, else 2.
Encrypt(file, passphrase, crypto) ==
    [form |-> "sealed", version |-> IF crypto THEN 3 ELSE 2, passphrase |-> passphrase,
     inner |-> file, errors |-> 0, tail |-> 0]

\* validate_encrypted_seed_envelope: the lengths it announces are those of the file.
Envelope(file) == file.form = "sealed" /\ file.version \in {1, 2, 3} /\ file.tail = 0

\* decrypt_seed_bytes: the tag of version 3, or the MAC of 1 and 2, fits.
Authentic(file, passphrase, crypto) ==
    /\ file.version = 3 => crypto
    /\ file.errors = 0 /\ file.passphrase = passphrase

Inner(file) == IF file.form = "sealed" THEN file.inner ELSE file

\* read_seed returns a seed; a passphrase is not looked at for a plain file.
Readable(file, passphrase, crypto) ==
    /\ file.form = "sealed" =>
        passphrase # NoKey /\ Envelope(file) /\ Authentic(file, passphrase, crypto)
    /\ Parses(Inner(file))
=============================================================================
