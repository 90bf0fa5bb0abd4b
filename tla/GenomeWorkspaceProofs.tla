------------------------- MODULE GenomeWorkspaceProofs -------------------------
(***************************************************************************)
(* Backups over a genome in use: what a restore brings back, what a        *)
(* snapshot preserves and which seeds survive the loss of the genome, for  *)
(* any commands, backups, paths, contents and bounds.                      *)
(***************************************************************************)
EXTENDS GenomeWorkspace, SeedCodecProofs, FiniteSetTheorems

-----------------------------------------------------------------------------
(* What snapshot files look like.                                           *)

\* What has spilled to a file, or been read of it: the first items of b.
Begins(a, b) == Len(a) <= Len(b) /\ \A i \in 1..Len(a) : a[i] = b[i]

AllRows(items) == \A i \in 2..Len(items) : items[i].kind = "row"

\* Behind the header come rows of the moment M, each once, in their order.
Part(items, M) ==
    \A i \in 2..Len(items) :
        items[i].kind = "row" =>
            /\ items[i].hash \in M
            /\ \A j \in 2..i-1 : items[j].kind = "row" => items[j].hash < items[i].hash

\* The digests a seed looks up in the genome.
Needs(seed) == {OpDigest(seed, i) : i \in {j \in 1..Len(seed.ops) : seed.ops[j].code = "REF"}}

\* A seed that resolves wherever the rows it needs are.
Sturdy(seed) ==
    /\ SeedTypeOK(seed) /\ RawGenuine(seed)
    /\ \A i \in 1..Len(seed.ops) :
        seed.ops[i].code = "RAW" => seed.raw[seed.ops[i].index] # Missing

Keeps(M, f) == \A seed \in saved[f] : Needs(seed) \subseteq M

\* A file with a header announces a moment and holds rows of it, or has none:
\* the snapshot failed before its SELECT.
FileOK(f) ==
    disk[f] # NoFile /\ disk[f] # <<>> =>
        /\ disk[f][1] = Cut \/ disk[f][1].kind = "head"
        /\ HasHeader(disk[f]) /\ f \notin skewed =>
            \E M \in moments \union {{}} :
                /\ Part(disk[f], M) /\ Keeps(M, f)
                /\ M # {} => disk[f][1].count = Cardinality(M)

\* A completed file holds all of it.
WholeOK(f) ==
    f \in whole =>
        /\ disk[f] \in Seq(Item) /\ HasHeader(disk[f]) /\ AllRows(disk[f])
        /\ DigestsOf(disk[f]) \in moments
        /\ f \in skewed <=> disk[f][1].count # Len(disk[f]) - 1

-----------------------------------------------------------------------------
(* The inductive invariant.                                                 *)

\* Nothing has been brought back yet.
Fresh(p) == bpc[p] = "header" \/ IsSnapshot(p) => got[p] = {} /\ due[p] = {}

\* A snapshot of the moment M: either its cursor is open, M is what the genome
\* stores and what is still to come is greater than what is there, or M is complete.
Copying(p, M) ==
    /\ Part(buf[p], M)
    /\ PathOf(p) \in skewed <=> left[p] # Cardinality(M)
    /\ Keeps(M, PathOf(p))
    /\ p \notin cursors => DigestsOf(buf[p]) = M
    /\ p \in cursors =>
        /\ M = Stored /\ DigestsOf(buf[p]) # M
        /\ \A d \in M \ DigestsOf(buf[p]) : \A e \in DigestsOf(buf[p]) : e < d

SnapOK(p) ==
    /\ bpc[p] \in {"select", "rows"} => PathOf(p) \notin whole
    /\ bpc[p] = "select" =>
        /\ disk[PathOf(p)] = <<>> /\ buf[p] = <<Header(left[p])>>
        /\ PathOf(p) \notin skewed /\ saved[PathOf(p)] = {}
    /\ bpc[p] = "rows" =>
        /\ disk[PathOf(p)] \in Seq(Item) /\ Begins(disk[PathOf(p)], buf[p])
        /\ buf[p] # <<>> /\ buf[p][1] = Header(left[p])
        /\ AllRows(buf[p]) /\ Cardinality(DigestsOf(buf[p])) = Len(buf[p]) - 1
        /\ \E M \in moments : Copying(p, M)

Reading(p) == bpc[p] \in {"clear", "entries"}

\* A restore whose input and rows nobody has touched.
ReadOn(p) ==
    LET items == disk[PathOf(p)]
    IN  /\ items \in Seq(Item) /\ HasHeader(items) /\ Begins(buf[p], items)
        /\ items[1].count = left[p] + Len(buf[p]) - 1
        /\ AllRows(buf[p])
        /\ got[p] = DigestsOf(buf[p]) /\ got[p] \subseteq Stored
        /\ due[p] = saved[PathOf(p)]
        /\ bjob[p].replace /\ bpc[p] = "entries" => RottenRows = {}
        /\ p \notin skewed => /\ PathOf(p) \notin skewed
                              /\ Cardinality(got[p]) = Len(buf[p]) - 1

RestoreOK(p) ==
    Reading(p) =>
        /\ disk[PathOf(p)] # NoFile /\ buf[p] # <<>>
        /\ bpc[p] = "clear" => bjob[p].replace /\ Len(buf[p]) = 1
        /\ p \notin shaken => ReadOn(p)

\* A restore that has reported success.
Recovered(p) ==
    bpc[p] = "idle" /\ bres[p] = "ok" /\ p \notin shaken =>
        /\ got[p] \subseteq Stored
        /\ bjob[p].replace => got[p] \intersect RottenRows = {}
        /\ p \notin skewed => /\ got[p] = {} \/ got[p] \in moments
                              /\ \A seed \in due[p] : Needs(seed) \subseteq Stored

AgentOK(p) == Fresh(p) /\ SnapOK(p) /\ RestoreOK(p) /\ Recovered(p)

\* The cursors of agents belong to snapshots that have begun to read.
CursorsOK == \A p \in Agent : p \in cursors => bpc[p] = "rows"

\* No two snapshots write the same file.
Apart ==
    \A p, q \in Agent : p # q /\ IsSnapshot(p) /\ IsSnapshot(q) => PathOf(p) # PathOf(q)

HistoryOK ==
    /\ DOMAIN saved = Paths /\ DOMAIN due = Agent
    /\ \A f \in Paths : \A seed \in saved[f] : Sturdy(seed)
    /\ \A p \in Agent : \A seed \in due[p] : Sturdy(seed)

BackupInv ==
    /\ BackupTypeOK /\ HistoryOK /\ CursorsOK /\ Apart
    /\ \A f \in Paths : FileOK(f) /\ WholeOK(f)
    /\ \A p \in Agent : AgentOK(p)

WorkInv == CodecTypeOK /\ CoverInv /\ BackupInv

-----------------------------------------------------------------------------
(* Sequences of items.                                                      *)

LEMMA ItemKinds ==
    /\ \A item \in Item :
        /\ item.kind = "row" => item.hash \in Digest /\ item.data \in Content
        /\ item.kind = "head" => item.count \in Nat
        /\ item # Cut => item.kind \in {"head", "row"}
    /\ Cut \in Item /\ Cut.kind = "cut"
    /\ \A n \in Nat : /\ Header(n) \in Item /\ Header(n).kind = "head"
                      /\ Header(n).count = n /\ Header(n) # Cut
    /\ \A d \in Digest, c \in Content :
        /\ RowItem(d, c) \in Item /\ RowItem(d, c).kind = "row"
        /\ RowItem(d, c).hash = d /\ RowItem(d, c).data = c
BY DEF Item, Cut, Header, RowItem

LEMMA DigestsTyped ==
    ASSUME NEW items \in Seq(Item)
    PROVE  DigestsOf(items) \subseteq Digest
<1>1. \A i \in 1..Len(items) : items[i] \in Item
  OBVIOUS
<1>. QED
  BY <1>1, ItemKinds DEF DigestsOf, RowsOf

\* One more item that is a row.
LEMMA AppendRow ==
    ASSUME NEW items \in Seq(Item), items # <<>>, AllRows(items), items[1].kind # "row",
           NEW r \in Item, r.kind = "row",
           NEW more, more = Append(items, r)
    PROVE  /\ more \in Seq(Item) /\ AllRows(more) /\ more # <<>> /\ more[1] = items[1]
           /\ Len(more) = Len(items) + 1 /\ Begins(items, more)
           /\ DigestsOf(more) = DigestsOf(items) \union {r.hash}
<1>1. /\ Len(items) \in Nat /\ Len(items) >= 1 /\ more \in Seq(Item)
      /\ Len(more) = Len(items) + 1 /\ more[Len(items) + 1] = r
      /\ \A i \in 1..Len(items) : more[i] = items[i]
  OBVIOUS
<1>2. AllRows(more)
  <2>. SUFFICES ASSUME NEW i \in 2..Len(more) PROVE more[i].kind = "row"
    BY DEF AllRows
  <2>1. CASE i = Len(items) + 1
    BY <1>1, <2>1
  <2>2. CASE i # Len(items) + 1
    <3>1. i \in 2..Len(items) /\ i \in 1..Len(items)
      BY <1>1, <2>2
    <3>. QED
      BY <1>1, <3>1 DEF AllRows
  <2>. QED
    BY <2>1, <2>2
<1>3. RowsOf(more) = RowsOf(items) \union {Len(items) + 1}
  BY <1>1 DEF RowsOf
<1>4. DigestsOf(more) = DigestsOf(items) \union {r.hash}
  <2>1. \A i \in RowsOf(items) : more[i] = items[i]
    BY <1>1 DEF RowsOf
  <2>2. ASSUME NEW x \in DigestsOf(more) PROVE x \in DigestsOf(items) \union {r.hash}
    <3>1. PICK i \in RowsOf(more) : x = more[i].hash
      BY DEF DigestsOf
    <3>2. CASE i \in RowsOf(items)
      BY <2>1, <3>1, <3>2 DEF DigestsOf
    <3>3. CASE i = Len(items) + 1
      BY <1>1, <3>1, <3>3
    <3>. QED
      BY <1>3, <3>1, <3>2, <3>3
  <2>3. DigestsOf(items) \subseteq DigestsOf(more)
    BY <1>3, <2>1 DEF DigestsOf
  <2>4. r.hash \in DigestsOf(more)
    BY <1>1, <1>3 DEF DigestsOf
  <2>. QED
    BY <2>2, <2>3, <2>4
<1>5. more # <<>> /\ more[1] = items[1] /\ Begins(items, more)
  BY <1>1 DEF Begins
<1>. QED
  BY <1>1, <1>2, <1>4, <1>5

LEMMA AppendPart ==
    ASSUME NEW items \in Seq(Item), NEW M, Part(items, M), NEW r \in Item,
           r.kind = "row" => r.hash \in M /\ \A e \in DigestsOf(items) : e < r.hash
    PROVE  Part(Append(items, r), M)
<1>. DEFINE more == Append(items, r)
<1>1. /\ Len(items) \in Nat /\ Len(more) = Len(items) + 1 /\ more[Len(items) + 1] = r
      /\ \A i \in 1..Len(items) : more[i] = items[i]
  OBVIOUS
<1>. HIDE DEF more
<1>. SUFFICES ASSUME NEW i \in 2..Len(more), more[i].kind = "row"
             PROVE  /\ more[i].hash \in M
                    /\ \A j \in 2..i-1 : more[j].kind = "row" => more[j].hash < more[i].hash
  BY DEF Part, more
<1>2. CASE i = Len(items) + 1
  <2>1. \A j \in 2..i-1 : j \in 1..Len(items) /\ more[j] = items[j]
    BY <1>1, <1>2
  <2>2. \A j \in 2..i-1 : items[j].kind = "row" => items[j].hash \in DigestsOf(items)
    BY <2>1 DEF DigestsOf, RowsOf
  <2>. QED
    BY <1>1, <1>2, <2>1, <2>2
<1>3. CASE i # Len(items) + 1
  <2>1. i \in 2..Len(items) /\ more[i] = items[i] /\ \A j \in 2..i-1 : more[j] = items[j]
    BY <1>1, <1>3
  <2>. QED
    BY <2>1 DEF Part
<1>. QED
  BY <1>2, <1>3

LEMMA PrefixPart ==
    ASSUME NEW a \in Seq(Item), NEW b \in Seq(Item), Begins(a, b)
    PROVE  /\ \A M : Part(b, M) => Part(a, M)
           /\ AllRows(b) => AllRows(a)
           /\ a # <<>> => b # <<>> /\ a[1] = b[1]
<1>1. /\ Len(a) \in Nat /\ Len(b) \in Nat /\ Len(a) <= Len(b)
      /\ \A i \in 1..Len(a) : a[i] = b[i]
  BY DEF Begins
<1>2. \A i \in 2..Len(a) : i \in 2..Len(b) /\ a[i] = b[i] /\ \A j \in 2..i-1 : a[j] = b[j]
  BY <1>1
<1>. QED
  BY <1>1, <1>2 DEF Part, AllRows

LEMMA FirstItems ==
    ASSUME NEW items \in Seq(Item), NEW n \in 0..Len(items)
    PROVE  /\ SubSeq(items, 1, n) \in Seq(Item) /\ Len(SubSeq(items, 1, n)) = n
           /\ Begins(SubSeq(items, 1, n), items)
BY DEF Begins

\* What has been read of a file is a row at a time.
LEMMA NoRowsYet ==
    ASSUME NEW item \in Item, item.kind # "row"
    PROVE  /\ DigestsOf(<<item>>) = {} /\ AllRows(<<item>>) /\ \A M : Part(<<item>>, M)
           /\ Len(<<item>>) = 1 /\ <<item>> \in Seq(Item)
BY DEF DigestsOf, RowsOf, AllRows, Part

\* All rows of a moment, counted.
LEMMA Finite ==
    ASSUME NEW M \in SUBSET Digest
    PROVE  IsFiniteSet(M) /\ Cardinality(M) \in Nat
BY BackupAssumption, FS_Subset, FS_CardinalityType

LEMMA NothingCounted == Cardinality({}) = 0
BY FS_EmptySet

LEMMA PartDigests ==
    ASSUME NEW items \in Seq(Item), NEW M, Part(items, M),
           items # <<>> => items[1].kind # "row"
    PROVE  DigestsOf(items) \subseteq M
<1>. SUFFICES ASSUME NEW i \in 1..Len(items), items[i].kind = "row" PROVE items[i].hash \in M
  BY DEF DigestsOf, RowsOf
<1>1. i \in 2..Len(items)
  OBVIOUS
<1>. QED
  BY <1>1 DEF Part

-----------------------------------------------------------------------------
(* What a step leaves alone.                                                *)

\* The agent q as it was; rows may come, and it may lose its ground.
StandsBy(q) ==
    /\ bpc'[q] = bpc[q] /\ bjob'[q] = bjob[q] /\ buf'[q] = buf[q] /\ left'[q] = left[q]
    /\ got'[q] = got[q] /\ bres'[q] = bres[q] /\ due'[q] = due[q]
    /\ (q \in cursors' <=> q \in cursors) /\ (q \in skewed' <=> q \in skewed)
    /\ q \in shaken => q \in shaken'

FileStays(f) ==
    /\ disk'[f] = disk[f] /\ saved'[f] = saved[f]
    /\ (f \in skewed' <=> f \in skewed) /\ (f \in whole' => f \in whole)

\* What q reads may get longer.
InputStays(q) ==
    /\ disk'[PathOf(q)] # NoFile
    /\ q \notin shaken' =>
        /\ disk'[PathOf(q)] \in Seq(Item) /\ Begins(disk[PathOf(q)], disk'[PathOf(q)])
        /\ saved'[PathOf(q)] = saved[PathOf(q)]
        /\ PathOf(q) \notin skewed => PathOf(q) \notin skewed'

LEMMA GrownRows ==
    ASSUME genome \in [Digest -> Row], Grows
    PROVE  Stored \subseteq Stored' /\ RottenRows' = RottenRows
<1>1. \A d \in Digest : genome[d] # Missing => genome'[d] = genome[d]
  BY DEF Grows
<1>2. \A d \in Digest : genome[d] = Missing /\ genome'[d] # Missing => Sha[genome'[d]] = d
  BY DEF Grows
<1>3. Stored \subseteq Stored'
  BY <1>1 DEF Stored, HasChunk
<1>4. RottenRows \subseteq RottenRows'
  BY <1>1 DEF RottenRows, Stored, HasChunk
<1>5. RottenRows' \subseteq RottenRows
  <2>. SUFFICES ASSUME NEW d \in Digest, genome'[d] # Missing, Sha[genome'[d]] # d
               PROVE  genome[d] # Missing /\ Sha[genome[d]] # d
    BY DEF RottenRows, Stored, HasChunk
  <2>1. genome[d] # Missing
    BY <1>2
  <2>. QED
    BY <1>1, <2>1
<1>. QED
  BY <1>3, <1>4, <1>5

LEMMA StillSnaps ==
    ASSUME NEW q \in Agent, SnapOK(q), StandsBy(q), moments \subseteq moments',
           IsSnapshot(q) => FileStays(PathOf(q)) /\ (q \in cursors => Stored' = Stored)
    PROVE  SnapOK(q)'
<1>. SUFFICES ASSUME bpc[q] \in {"select", "rows"} PROVE SnapOK(q)'
  BY DEF SnapOK, StandsBy
<1>1. /\ FileStays(PathOf(q)) /\ PathOf(q)' = PathOf(q)
      /\ q \in cursors => Stored' = Stored
  BY DEF IsSnapshot, StandsBy, PathOf
<1>2. \A M : Copying(q, M) => Copying(q, M)'
  BY <1>1 DEF Copying, StandsBy, FileStays, Keeps
<1>. QED
  BY <1>1, <1>2 DEF SnapOK, StandsBy, FileStays

LEMMA StillRestores ==
    ASSUME NEW q \in Agent, BackupTypeOK, RestoreOK(q), StandsBy(q),
           Reading(q) => InputStays(q),
           q \notin shaken' => Grows
    PROVE  RestoreOK(q)'
<1>. SUFFICES ASSUME Reading(q) PROVE RestoreOK(q)'
  BY DEF RestoreOK, Reading, StandsBy
<1>1. InputStays(q) /\ PathOf(q)' = PathOf(q)
  BY DEF StandsBy, PathOf
<1>2. ASSUME q \notin shaken' PROVE ReadOn(q)'
  <2>. DEFINE old == disk[PathOf(q)]
              new == disk'[PathOf(q)]
  <2>1. ReadOn(q)
    BY <1>2 DEF RestoreOK, StandsBy
  <2>2. /\ old \in Seq(Item) /\ HasHeader(old) /\ Begins(buf[q], old)
        /\ new \in Seq(Item) /\ Begins(old, new) /\ buf[q] \in Seq(Item)
    BY <1>1, <1>2, <2>1 DEF ReadOn, InputStays, BackupTypeOK
  <2>3. HasHeader(new) /\ new[1] = old[1]
    BY <2>2, PrefixPart DEF HasHeader
  <2>4. Begins(buf[q], new)
    BY <2>2 DEF Begins
  <2>5. Stored \subseteq Stored' /\ RottenRows' = RottenRows
    BY <1>2, GrownRows DEF BackupTypeOK, GenomeTypeOK
  <2>. QED
    BY <1>1, <1>2, <2>1, <2>2, <2>3, <2>4, <2>5 DEF ReadOn, StandsBy, InputStays
<1>. QED
  BY <1>1, <1>2 DEF RestoreOK, Reading, StandsBy, InputStays

LEMMA StillOK ==
    ASSUME NEW q \in Agent, BackupTypeOK, AgentOK(q), StandsBy(q), moments \subseteq moments',
           IsSnapshot(q) => FileStays(PathOf(q)) /\ (q \in cursors => Stored' = Stored),
           Reading(q) => InputStays(q),
           q \notin shaken' => Grows
    PROVE  AgentOK(q)'
<1>1. SnapOK(q)' /\ RestoreOK(q)'
  BY StillSnaps, StillRestores DEF AgentOK
<1>2. Fresh(q)'
  BY DEF AgentOK, Fresh, StandsBy, IsSnapshot
<1>3. Recovered(q)'
  <2>. SUFFICES ASSUME bpc[q] = "idle", bres[q] = "ok", q \notin shaken' PROVE Recovered(q)'
    BY DEF Recovered, StandsBy
  <2>1. Stored \subseteq Stored' /\ RottenRows' = RottenRows
    BY GrownRows DEF BackupTypeOK, GenomeTypeOK
  <2>. QED
    BY <2>1 DEF AgentOK, Recovered, StandsBy
<1>. QED
  BY <1>1, <1>2, <1>3 DEF AgentOK

LEMMA StillFile ==
    ASSUME NEW f \in Paths, FileOK(f), WholeOK(f), FileStays(f), moments \subseteq moments'
    PROVE  FileOK(f)' /\ WholeOK(f)'
<1>1. \A M : Keeps(M, f)' <=> Keeps(M, f)
  BY DEF Keeps, FileStays
<1>. QED
  BY <1>1 DEF FileOK, WholeOK, FileStays

-----------------------------------------------------------------------------
(* What an agent leaves alone.                                              *)

AgentStep(p) ==
    /\ BackupTypeOK /\ HistoryOK /\ Backup(p)

LEMMA AgentStands ==
    ASSUME NEW p \in Agent, AgentStep(p), NEW q \in Agent \ {p}
    PROVE  StandsBy(q)
<1>0. Follow(p) /\ due'[q] = due[q]
  BY DEF AgentStep, Backup, Follow, HistoryOK
<1>1. CASE BackupStart(p)
  BY <1>0, <1>1 DEF BackupStart, SnapStart, RestoreStart, Launch, StandsBy, AgentStep,
                    BackupTypeOK, genomeVars
<1>2. CASE SnapCount(p) \/ SnapSelect(p) \/ SnapRow(p)
  <2>1. \E phase : Proceed(p, phase)
    BY <1>2 DEF SnapCount, SnapSelect, SnapRow
  <2>2. bpc'[q] = bpc[q] /\ bjob'[q] = bjob[q] /\ bres'[q] = bres[q]
    BY <2>1 DEF Proceed, AgentStep, BackupTypeOK
  <2>. QED
    BY <1>0, <1>2, <2>2, BackupAssumption
       DEF SnapCount, SnapSelect, SnapRow, StandsBy, AgentStep, BackupTypeOK, PathOf,
           genomeVars, historyVars
<1>3. CASE SnapCreate(p) \/ RestoreClear(p) \/ RestoreEntry(p)
  <2>1. \E phase : Proceed(p, phase)
    BY <1>3 DEF SnapCreate, RestoreClear, RestoreEntry
  <2>2. bpc'[q] = bpc[q] /\ bjob'[q] = bjob[q] /\ bres'[q] = bres[q]
    BY <2>1 DEF Proceed, AgentStep, BackupTypeOK
  <2>. QED
    BY <1>0, <1>3, <2>2, BackupAssumption
       DEF SnapCreate, RestoreClear, RestoreEntry, StandsBy, AgentStep, BackupTypeOK, PathOf,
           genomeVars, historyVars
<1>4. CASE SnapFlush(p)
  BY <1>0, <1>4 DEF SnapFlush, StandsBy, agentVars, genomeVars, historyVars
<1>5. CASE \/ SnapDone(p) \/ SnapAbort(p) \/ RestoreRefuse(p) \/ RestoreDone(p)
           \/ RestoreTimeout(p) \/ RestoreKill(p)
  <2>1. /\ \E r : Stop(p, r)
        /\ cursors' \in {cursors, cursors \ {p}}
        /\ UNCHANGED <<shaken, skewed>>
    BY <1>5 DEF SnapDone, SnapAbort, RestoreRefuse, RestoreDone, RestoreTimeout, LockedOut, RestoreKill,
                genomeVars, historyVars
  <2>. QED
    BY <1>0, <2>1 DEF Stop, StandsBy, AgentStep, BackupTypeOK
<1>6. CASE RestoreOpen(p)
  <2>1. /\ bpc'[q] = bpc[q] /\ bjob'[q] = bjob[q] /\ bres'[q] = bres[q]
        /\ buf'[q] = buf[q] /\ left'[q] = left[q] /\ got'[q] = got[q]
    BY <1>6 DEF RestoreOpen, Stop, Proceed, AgentStep, BackupTypeOK
  <2>2. /\ UNCHANGED <<cursors, shaken>>
        /\ skewed' \in {skewed \union {p}, skewed \ {p}}
    BY <1>6 DEF RestoreOpen, genomeVars
  <2>. QED
    BY <1>0, <2>1, <2>2 DEF StandsBy
<1>. QED
  BY <1>1, <1>2, <1>3, <1>4, <1>5, <1>6 DEF AgentStep, Backup, BackupAgent, BackupStep

\* Only a snapshot changes files, and only its own.
LEMMA FilesStay ==
    ASSUME NEW p \in Agent, AgentStep(p), NEW f \in Paths, ~IsSnapshot(p) \/ f # PathOf(p)
    PROVE  FileStays(f)
<1>0. saved'[f] = saved[f]
  BY DEF AgentStep, Backup, Follow, HistoryOK, IsSnapshot
<1>1. CASE BackupStart(p)
  BY <1>0, <1>1 DEF BackupStart, SnapStart, RestoreStart, Launch, FileStays
<1>2. CASE SnapCount(p) \/ SnapRow(p)
  BY <1>0, <1>2 DEF SnapCount, SnapRow, FileStays, historyVars
<1>3. CASE SnapCreate(p)
  BY <1>0, <1>3 DEF SnapCreate, FileStays, IsSnapshot, AgentStep, BackupTypeOK
<1>4. CASE SnapSelect(p)
  BY <1>0, <1>4 DEF SnapSelect, FileStays, IsSnapshot
<1>5. CASE SnapFlush(p) \/ SnapDone(p) \/ SnapAbort(p)
  BY <1>0, <1>5 DEF SnapFlush, SnapDone, SnapAbort, FileStays, IsSnapshot, AgentStep,
                    BackupTypeOK, historyVars
<1>6. CASE RestoreOpen(p)
  BY <1>0, <1>6, BackupAssumption DEF RestoreOpen, FileStays
<1>7. CASE \/ RestoreClear(p) \/ RestoreEntry(p) \/ RestoreRefuse(p) \/ RestoreDone(p)
           \/ RestoreTimeout(p) \/ RestoreKill(p)
  BY <1>0, <1>7 DEF RestoreClear, RestoreEntry, RestoreRefuse, RestoreDone, RestoreTimeout, LockedOut,
                    RestoreKill, FileStays, historyVars
<1>. QED
  BY <1>1, <1>2, <1>3, <1>4, <1>5, <1>6, <1>7 DEF AgentStep, Backup, BackupAgent, BackupStep

LEMMA PutGenome ==
    ASSUME genome \in [Digest -> Row], NEW p, NEW c \in Content, PutChunk(p, Sha[c], c)
    PROVE  /\ Grows /\ genome' \in [Digest -> Row] /\ Sha[c] \in Stored'
           /\ Stored' = Stored \union {Sha[c]}
<1>1. Sha[c] \in Digest /\ c # Missing
  BY ShaAssumption
<1>2. /\ genome' = [genome EXCEPT ![Sha[c]] = IF @ = Missing THEN c ELSE @]
      /\ genome' \in [Digest -> Row]
  BY <1>1 DEF PutChunk, Row
<1>. QED
  BY <1>1, <1>2 DEF Grows, Stored, HasChunk

\* The next item a restore reads.
LEMMA NextEntry ==
    ASSUME NEW p \in Agent, BackupTypeOK, RestoreOK(p), Reading(p)
    PROVE  /\ disk[PathOf(p)] \in Seq(Item) /\ buf[p] \in Seq(Item)
           /\ ~AtEnd(p) => NextItem(p) \in Item /\ Len(buf[p]) + 1 \in 1..Len(disk[PathOf(p)])
           /\ GoodEntry(p) => /\ NextItem(p).kind = "row" /\ NextItem(p).data \in Content
                              /\ NextItem(p).hash = Sha[NextItem(p).data]
<1>1. disk[PathOf(p)] \in Seq(Item) /\ buf[p] \in Seq(Item)
  BY DEF RestoreOK, BackupTypeOK, PathOf
<1>2. ~AtEnd(p) => NextItem(p) \in Item /\ Len(buf[p]) + 1 \in 1..Len(disk[PathOf(p)])
  BY <1>1 DEF AtEnd, NextItem
<1>. QED
  BY <1>1, <1>2, ItemKinds DEF GoodEntry, GoodRow

\* Rows come from restores of entries and go with --replace; an open cursor of
\* another agent holds off both.
LEMMA GenomeSteps ==
    ASSUME NEW p \in Agent, AgentStep(p), RestoreOK(p)
    PROVE  /\ genome' \in [Digest -> Row]
           /\ \/ genome' = genome
              \/ cursors \subseteq {p} /\ Grows /\ Reading(p)
              \/ RestoreClear(p) /\ cursors \subseteq {p} /\ genome' = EmptyGenome
           /\ moments \subseteq moments'
<1>1. CASE BackupStart(p)
  BY <1>1 DEF BackupStart, SnapStart, RestoreStart, Launch, genomeVars, AgentStep, BackupTypeOK,
              GenomeTypeOK
<1>2. CASE SnapCount(p) \/ SnapCreate(p) \/ SnapSelect(p) \/ SnapRow(p) \/ SnapFlush(p)
  BY <1>2 DEF SnapCount, SnapCreate, SnapSelect, SnapRow, SnapFlush, genomeVars, historyVars,
              AgentStep, BackupTypeOK, GenomeTypeOK
<1>3. CASE \/ SnapDone(p) \/ SnapAbort(p) \/ RestoreRefuse(p) \/ RestoreDone(p)
           \/ RestoreTimeout(p) \/ RestoreKill(p) \/ RestoreOpen(p)
  BY <1>3 DEF SnapDone, SnapAbort, RestoreRefuse, RestoreDone, RestoreTimeout, LockedOut, RestoreKill,
              RestoreOpen, genomeVars, historyVars, AgentStep, BackupTypeOK, GenomeTypeOK
<1>4. CASE RestoreEntry(p)
  <2>1. Reading(p)
    BY <1>4 DEF RestoreEntry, Reading
  <2>2. PICK c \in Content : PutChunk(p, Sha[c], c)
    BY <1>4, <2>1, NextEntry DEF RestoreEntry, AgentStep
  <2>3. Grows /\ genome' \in [Digest -> Row]
    BY <2>2, PutGenome DEF AgentStep, BackupTypeOK, GenomeTypeOK
  <2>4. cursors \subseteq {p} /\ moments' = moments
    BY <1>4, <2>2 DEF PutChunk, CanCommit, RestoreEntry, historyVars
  <2>. QED
    BY <2>1, <2>3, <2>4
<1>5. CASE RestoreClear(p)
  BY <1>5 DEF RestoreClear, ClearChunks, CanCommit, EmptyGenome, Row
<1>. QED
  BY <1>1, <1>2, <1>3, <1>4, <1>5 DEF AgentStep, Backup, BackupAgent, BackupStep

\* The input of a restore whose file a snapshot writes.
LEMMA NeighbourReads ==
    ASSUME NEW p \in Agent, AgentStep(p), SnapOK(p), IsSnapshot(p),
           NEW q \in Agent \ {p}, Reading(q), RestoreOK(q), PathOf(q) = PathOf(p)
    PROVE  InputStays(q)
<1>. DEFINE f == PathOf(p)
<1>0. /\ f \in Paths /\ disk[f] \in Seq(Item) /\ <<>> \in Seq(Item) /\ buf[p] \in Seq(Item)
      /\ Begins(disk[f], disk[f])
      /\ q \in shaken => q \in shaken'
      /\ q \notin shaken => HasHeader(disk[f])
      /\ bpc[p] \in {"create", "select"} \/ saved' = saved
  <2>1. f \in Paths /\ disk[f] \in Seq(Item) /\ buf[p] \in Seq(Item)
    BY DEF AgentStep, BackupTypeOK, RestoreOK, PathOf
  <2>2. q \in shaken => q \in shaken'
    BY AgentStands DEF StandsBy
  <2>3. q \notin shaken => HasHeader(disk[f])
    BY DEF RestoreOK, ReadOn
  <2>4. bpc[p] \in {"create", "select"} \/ saved' = saved
    BY DEF AgentStep, Backup, Follow
  <2>. QED
    BY <2>1, <2>2, <2>3, <2>4 DEF Begins
<1>1. CASE BackupStart(p) \/ RestoreOpen(p) \/ RestoreClear(p) \/ RestoreEntry(p)
           \/ RestoreRefuse(p) \/ RestoreDone(p) \/ RestoreTimeout(p) \/ RestoreKill(p)
  BY <1>1 DEF BackupStart, SnapStart, RestoreStart, Launch, RestoreOpen, RestoreClear, RestoreEntry,
              RestoreRefuse, RestoreDone, RestoreTimeout, LockedOut, RestoreKill, IsSnapshot, IsRestore
<1>2. CASE SnapCount(p) \/ SnapRow(p)
  BY <1>0, <1>2, NoFileAssumption
     DEF SnapCount, SnapRow, InputStays, historyVars
<1>3. CASE SnapCreate(p)
  <2>1. disk'[f] = <<>> /\ q \in shaken'
    BY <1>0, <1>3 DEF SnapCreate, AgentStep, BackupTypeOK, Reading, IsRestore
  <2>. QED
    BY <1>0, <2>1, NoFileAssumption DEF InputStays
<1>4. CASE SnapSelect(p)
  <2>1. disk' = disk /\ disk[f] = <<>> /\ shaken' = shaken
    BY <1>4 DEF SnapSelect, SnapOK
  <2>. QED
    BY <1>0, <2>1, NoFileAssumption DEF InputStays, HasHeader
<1>5. CASE SnapFlush(p) \/ SnapDone(p)
  <2>1. PICK n \in 0..Len(buf[p]) : /\ n >= Len(disk[f]) /\ disk'[f] = SubSeq(buf[p], 1, n)
                                    /\ bpc[p] = "rows" /\ UNCHANGED <<saved, skewed>>
    <3>1. CASE SnapFlush(p)
      BY <1>0, <3>1 DEF SnapFlush, AgentStep, BackupTypeOK, historyVars
    <3>2. CASE SnapDone(p)
      <4>1. disk'[f] = buf[p] /\ bpc[p] = "rows" /\ UNCHANGED <<saved, skewed>>
        BY <1>0, <3>2 DEF SnapDone, AgentStep, BackupTypeOK, Stop
      <4>2. Len(disk[f]) <= Len(buf[p])
        BY <4>1 DEF SnapOK, Begins
      <4>3. SubSeq(buf[p], 1, Len(buf[p])) = buf[p] /\ Len(buf[p]) \in Nat
        BY <1>0
      <4>. QED
        BY <4>1, <4>2, <4>3
    <3>. QED
      BY <1>5, <3>1, <3>2
  <2>2. disk'[f] \in Seq(Item) /\ Len(disk'[f]) = n /\ Begins(disk'[f], buf[p])
    BY <1>0, <2>1, FirstItems
  <2>3. Begins(disk[f], buf[p])
    BY <2>1 DEF SnapOK
  <2>4. Begins(disk[f], disk'[f])
    BY <1>0, <2>1, <2>2, <2>3 DEF Begins
  <2>. QED
    BY <1>0, <2>1, <2>2, <2>4, NoFileAssumption DEF InputStays
<1>6. CASE SnapAbort(p)
  <2>1. /\ \/ disk'[f] = disk[f] \/ disk'[f] = Append(disk[f], Cut)
           \/ bpc[p] \in {"select", "rows"} /\ disk'[f] = buf[p]
        /\ UNCHANGED <<saved, skewed, shaken>>
    BY <1>0, <1>6 DEF SnapAbort, AgentStep, BackupTypeOK, historyVars, Stop, Backup, Follow
  <2>2. Append(disk[f], Cut) \in Seq(Item) /\ Begins(disk[f], Append(disk[f], Cut))
    BY <1>0, ItemKinds DEF Begins
  <2>3. bpc[p] \in {"select", "rows"} => Begins(disk[f], buf[p])
    BY <1>0 DEF SnapOK, Begins
  <2>. QED
    BY <1>0, <2>1, <2>2, <2>3, NoFileAssumption DEF InputStays
<1>. QED
  BY <1>1, <1>2, <1>3, <1>4, <1>5, <1>6 DEF AgentStep, Backup, BackupAgent, BackupStep

LEMMA OthersOK ==
    ASSUME BackupInv, NEW p \in Agent, Backup(p), NEW q \in Agent \ {p}
    PROVE  AgentOK(q)'
<1>0. AgentStep(p) /\ AgentOK(p) /\ AgentOK(q) /\ BackupTypeOK
  BY DEF BackupInv, AgentStep
<1>1. StandsBy(q)
  BY <1>0, AgentStands
<1>2. /\ \/ genome' = genome
         \/ cursors \subseteq {p} /\ Grows
         \/ RestoreClear(p) /\ cursors \subseteq {p}
      /\ moments \subseteq moments'
  BY <1>0, GenomeSteps DEF AgentOK
<1>3. PathOf(q) \in Paths
  BY <1>0 DEF BackupTypeOK, PathOf
<1>4. ASSUME IsSnapshot(q)
      PROVE  FileStays(PathOf(q)) /\ (q \in cursors => Stored' = Stored)
  <2>1. ~IsSnapshot(p) \/ PathOf(q) # PathOf(p)
    BY <1>4 DEF BackupInv, Apart
  <2>2. q \in cursors => genome' = genome
    BY <1>2
  <2>. QED
    BY <1>0, <1>3, <2>1, <2>2, FilesStay DEF Stored, HasChunk
<1>5. ASSUME Reading(q) PROVE InputStays(q)
  <2>1. CASE IsSnapshot(p) /\ PathOf(q) = PathOf(p)
    BY <1>0, <1>5, <2>1, NeighbourReads DEF AgentOK
  <2>2. CASE ~(IsSnapshot(p) /\ PathOf(q) = PathOf(p))
    <3>1. FileStays(PathOf(q))
      BY <1>0, <1>3, <2>2, FilesStay
    <3>2. Begins(disk[PathOf(q)], disk[PathOf(q)])
      BY DEF Begins
    <3>. QED
      BY <1>0, <1>1, <1>5, <3>1, <3>2 DEF AgentOK, RestoreOK, ReadOn, InputStays, FileStays, StandsBy
  <2>. QED
    BY <2>1, <2>2
<1>6. ASSUME q \notin shaken' PROVE Grows
  <2>1. ~RestoreClear(p)
    BY <1>6 DEF RestoreClear
  <2>. QED
    BY <1>2, <2>1 DEF Grows
<1>. QED
  BY <1>0, <1>1, <1>2, <1>4, <1>5, <1>6, StillOK

-----------------------------------------------------------------------------
(* Types of backups.                                                        *)

\* What is not an agent's own has its type.
SharedTyped ==
    /\ genome \in [Digest -> Row]
    /\ DOMAIN disk = Paths
    /\ \A f \in Paths : disk[f] = NoFile \/ disk[f] \in Seq(Item)
    /\ mishaps \in Nat /\ moments \subseteq SUBSET Digest
    /\ shaken \subseteq Agent /\ skewed \subseteq Agent \union Paths
    /\ whole \subseteq Paths

LEMMA LaunchTyped ==
    ASSUME BackupTypeOK, NEW p \in Agent, NEW phase \in BackupPhase, NEW f \in Paths,
           NEW replace \in BOOLEAN, Launch(p, phase, f, replace)
    PROVE  BackupTypeOK'
<1>1. /\ SharedTyped' /\ begun' \in Nat
      /\ bpc' \in [Agent -> BackupPhase] /\ bjob' \in [Agent -> [path : Paths, replace : BOOLEAN]]
  BY DEF BackupTypeOK, GenomeTypeOK, Launch, SharedTyped, genomeVars
<1>2. /\ buf' \in [Agent -> Seq(Item)] /\ left' \in [Agent -> Nat]
      /\ got' \in [Agent -> SUBSET Digest] /\ bres' \in [Agent -> BackupResult]
  BY DEF BackupTypeOK, Launch, BackupResult
<1>. QED
  BY <1>1, <1>2 DEF BackupTypeOK, GenomeTypeOK, SharedTyped

LEMMA StopTyped ==
    ASSUME BackupTypeOK, NEW p \in Agent, NEW r \in BackupResult, Stop(p, r), SharedTyped'
    PROVE  BackupTypeOK'
<1>1. bpc' \in [Agent -> BackupPhase] /\ bres' \in [Agent -> BackupResult]
  BY DEF BackupTypeOK, Stop, BackupPhase
<1>. QED
  BY <1>1 DEF BackupTypeOK, GenomeTypeOK, SharedTyped, Stop

LEMMA ProceedTyped ==
    ASSUME BackupTypeOK, NEW p \in Agent, NEW phase \in BackupPhase, Proceed(p, phase), SharedTyped',
           buf' \in [Agent -> Seq(Item)], left' \in [Agent -> Nat], got' \in [Agent -> SUBSET Digest]
    PROVE  BackupTypeOK'
<1>1. bpc' \in [Agent -> BackupPhase]
  BY DEF BackupTypeOK, Proceed
<1>. QED
  BY <1>1 DEF BackupTypeOK, GenomeTypeOK, SharedTyped, Proceed

LEMMA SharedHere == BackupTypeOK => SharedTyped
BY DEF BackupTypeOK, GenomeTypeOK, SharedTyped

LEMMA DiskTyped ==
    ASSUME BackupTypeOK, NEW f \in Paths, NEW items \in Seq(Item), disk' = [disk EXCEPT ![f] = items]
    PROVE  DOMAIN disk' = Paths /\ \A g \in Paths : disk'[g] = NoFile \/ disk'[g] \in Seq(Item)
BY DEF BackupTypeOK

LEMMA BackupTyped ==
    ASSUME NEW p \in Agent, AgentStep(p), AgentOK(p), FileOK(PathOf(p))
    PROVE  BackupTypeOK'
<1>0. /\ BackupTypeOK /\ SharedTyped /\ PathOf(p) \in Paths /\ buf[p] \in Seq(Item)
      /\ left[p] \in Nat /\ genome' \in [Digest -> Row]
      /\ disk[PathOf(p)] = NoFile \/ disk[PathOf(p)] \in Seq(Item)
  BY SharedHere, GenomeSteps DEF AgentStep, BackupTypeOK, PathOf, AgentOK
<1>1. CASE BackupStart(p)
  <2>1. CASE SnapStart(p)
    BY <1>0, <2>1, LaunchTyped DEF SnapStart, BackupPhase
  <2>2. CASE RestoreStart(p)
    BY <1>0, <2>2, LaunchTyped DEF RestoreStart, BackupPhase
  <2>. QED
    BY <1>1, <2>1, <2>2 DEF BackupStart
<1>2. CASE SnapCount(p)
  <2>1. CountChunks \in Nat
    BY Finite DEF CountChunks, Stored
  <2>2. left' \in [Agent -> Nat] /\ UNCHANGED <<buf, got>>
    BY <1>0, <1>2, <2>1 DEF SnapCount, BackupTypeOK
  <2>3. SharedTyped' /\ Proceed(p, "create")
    BY <1>0, <1>2 DEF SnapCount, SharedTyped, genomeVars, historyVars
  <2>. QED
    BY <1>0, <2>2, <2>3, ProceedTyped DEF BackupPhase, BackupTypeOK
<1>3. CASE SnapCreate(p)
  <2>1. <<>> \in Seq(Item) /\ <<Header(left[p])>> \in Seq(Item)
    BY <1>0, ItemKinds
  <2>2. buf' \in [Agent -> Seq(Item)] /\ UNCHANGED <<left, got>>
    BY <1>0, <1>3, <2>1 DEF SnapCreate, BackupTypeOK
  <2>3. DOMAIN disk' = Paths /\ \A g \in Paths : disk'[g] = NoFile \/ disk'[g] \in Seq(Item)
    BY <1>0, <1>3, <2>1, DiskTyped DEF SnapCreate
  <2>4. SharedTyped' /\ Proceed(p, "select")
    BY <1>0, <1>3, <2>3 DEF SnapCreate, SharedTyped, genomeVars
  <2>. QED
    BY <1>0, <2>2, <2>4, ProceedTyped DEF BackupPhase, BackupTypeOK
<1>4. CASE SnapSelect(p)
  <2>1. SharedTyped' /\ Proceed(p, "rows") /\ UNCHANGED <<buf, left, got>>
    BY <1>0, <1>4 DEF SnapSelect, SharedTyped, Stored
  <2>. QED
    BY <1>0, <2>1, ProceedTyped DEF BackupPhase, BackupTypeOK
<1>5. CASE SnapRow(p)
  <2>1. PICK d \in Remaining(p) : buf' = [buf EXCEPT ![p] = Append(@, RowItem(d, GetChunk(d)))]
    BY <1>5 DEF SnapRow
  <2>2. RowItem(d, GetChunk(d)) \in Item
    BY <1>0, <2>1, ItemKinds DEF Remaining, Stored, HasChunk, GetChunk, SharedTyped, Row
  <2>3. buf' \in [Agent -> Seq(Item)]
    BY <1>0, <2>1, <2>2 DEF BackupTypeOK
  <2>4. SharedTyped' /\ Proceed(p, "rows") /\ UNCHANGED <<left, got>>
    BY <1>0, <1>5 DEF SnapRow, SharedTyped, historyVars
  <2>. QED
    BY <1>0, <2>3, <2>4, ProceedTyped DEF BackupPhase, BackupTypeOK
<1>6. CASE SnapFlush(p)
  <2>1. PICK n \in 1..Len(buf[p]) : disk' = [disk EXCEPT ![PathOf(p)] = SubSeq(buf[p], 1, n)]
    BY <1>6 DEF SnapFlush
  <2>2. n \in 0..Len(buf[p])
    BY <1>0
  <2>3. SubSeq(buf[p], 1, n) \in Seq(Item)
    BY <1>0, <2>2, FirstItems
  <2>4. DOMAIN disk' = Paths /\ \A g \in Paths : disk'[g] = NoFile \/ disk'[g] \in Seq(Item)
    BY <1>0, <2>1, <2>3, DiskTyped
  <2>. QED
    BY <1>0, <1>6, <2>4 DEF SnapFlush, BackupTypeOK, GenomeTypeOK, genomeVars, agentVars, historyVars
<1>7. CASE SnapDone(p)
  <2>1. DOMAIN disk' = Paths /\ \A g \in Paths : disk'[g] = NoFile \/ disk'[g] \in Seq(Item)
    BY <1>0, <1>7, DiskTyped DEF SnapDone
  <2>2. SharedTyped' /\ Stop(p, "ok")
    BY <1>0, <1>7, <2>1 DEF SnapDone, SharedTyped, genomeVars
  <2>. QED
    BY <1>0, <2>2, StopTyped DEF BackupResult
<1>8. CASE SnapAbort(p)
  <2>1. DOMAIN disk' = Paths /\ \A g \in Paths : disk'[g] = NoFile \/ disk'[g] \in Seq(Item)
    <3>1. CASE disk' = disk
      BY <1>0, <3>1 DEF SharedTyped
    <3>2. CASE /\ bpc[p] \in {"select", "rows"}
               /\ disk' = [disk EXCEPT ![PathOf(p)] = Append(@, Cut)]
      <4>1. disk[PathOf(p)] = <<>> \/ disk[PathOf(p)] \in Seq(Item)
        BY <3>2 DEF AgentOK, SnapOK
      <4>0. <<>> \in Seq(Item) /\ Cut \in Item
        BY ItemKinds
      <4>2. disk[PathOf(p)] \in Seq(Item) /\ Cut \in Item
        BY <4>0, <4>1
      <4>3. Append(disk[PathOf(p)], Cut) \in Seq(Item)
        BY <4>2
      <4>. QED
        BY <1>0, <3>2, <4>3, DiskTyped
    <3>3. CASE disk' = [disk EXCEPT ![PathOf(p)] = buf[p]]
      BY <1>0, <3>3, DiskTyped
    <3>. QED
      BY <1>8, <3>1, <3>2, <3>3 DEF SnapAbort
  <2>2. SharedTyped' /\ \E r \in {"failed", "killed"} : Stop(p, r)
    BY <1>0, <1>8, <2>1 DEF SnapAbort, SharedTyped, historyVars
  <2>. QED
    BY <1>0, <2>2, StopTyped DEF BackupResult
<1>9. CASE RestoreOpen(p)
  <2>1. SharedTyped'
    BY <1>0, <1>9 DEF RestoreOpen, SharedTyped, genomeVars
  <2>2. CASE \E r \in BackupResult : Stop(p, r)
    BY <1>0, <2>1, <2>2, StopTyped
  <2>3. CASE ~\E r \in BackupResult : Stop(p, r)
    <3>. DEFINE items == disk[PathOf(p)]
    <3>1. /\ items # NoFile /\ HasHeader(items)
          /\ left' = [left EXCEPT ![p] = items[1].count]
          /\ buf' = [buf EXCEPT ![p] = <<items[1]>>]
          /\ Proceed(p, IF bjob[p].replace THEN "clear" ELSE "entries") /\ got' = got
      BY <1>9, <2>3 DEF RestoreOpen, BackupResult, FirstChange
    <3>2. items \in Seq(Item) /\ items[1] \in Item
      BY <1>0, <3>1 DEF HasHeader
    <3>3. items[1].kind = "head"
      BY <3>1 DEF HasHeader, FileOK
    <3>4. items[1].count \in Nat /\ <<items[1]>> \in Seq(Item)
      BY <3>2, <3>3, ItemKinds
    <3>. HIDE DEF items
    <3>5. buf' \in [Agent -> Seq(Item)] /\ left' \in [Agent -> Nat]
      BY <1>0, <3>1, <3>4 DEF BackupTypeOK
    <3>. QED
      BY <1>0, <2>1, <3>1, <3>5, ProceedTyped DEF BackupPhase, BackupTypeOK
  <2>. QED
    BY <2>2, <2>3
<1>10. CASE RestoreClear(p)
  <2>1. SharedTyped' /\ Proceed(p, "entries") /\ UNCHANGED <<buf, left, got>>
    BY <1>0, <1>10 DEF RestoreClear, SharedTyped
  <2>. QED
    BY <1>0, <2>1, ProceedTyped DEF BackupPhase, BackupTypeOK
<1>11. CASE RestoreEntry(p)
  <2>1. Reading(p) /\ GoodEntry(p) /\ left[p] > 0
    BY <1>11 DEF RestoreEntry, Reading
  <2>2. /\ NextItem(p) \in Item /\ NextItem(p).hash \in Digest
    BY <1>0, <2>1, NextEntry, ItemKinds DEF AgentOK, GoodEntry
  <2>3. /\ left' \in [Agent -> Nat] /\ buf' \in [Agent -> Seq(Item)]
        /\ got' \in [Agent -> SUBSET Digest]
    BY <1>0, <1>11, <2>1, <2>2 DEF RestoreEntry, BackupTypeOK
  <2>4. SharedTyped' /\ Proceed(p, "entries")
    BY <1>0, <1>11 DEF RestoreEntry, SharedTyped, historyVars
  <2>. QED
    BY <1>0, <2>3, <2>4, ProceedTyped DEF BackupPhase
<1>12. CASE RestoreRefuse(p) \/ RestoreDone(p) \/ RestoreTimeout(p) \/ RestoreKill(p)
  <2>1. SharedTyped' /\ \E r \in BackupResult : Stop(p, r)
    BY <1>0, <1>12 DEF RestoreRefuse, RestoreDone, RestoreTimeout, LockedOut, RestoreKill, SharedTyped,
                       BackupResult, genomeVars, historyVars
  <2>. QED
    BY <1>0, <2>1, StopTyped
<1>. QED
  BY <1>1, <1>2, <1>3, <1>4, <1>5, <1>6, <1>7, <1>8, <1>9, <1>10, <1>11, <1>12
     DEF AgentStep, Backup, BackupAgent, BackupStep

-----------------------------------------------------------------------------
(* The steps of a snapshot.                                                 *)

LEMMA StartOK ==
    ASSUME BackupInv, NEW p \in Agent, Backup(p), BackupStart(p)
    PROVE  AgentOK(p)'
<1>1. /\ bpc[p] = "idle" /\ bpc'[p] \in {"count", "header"} /\ got'[p] = {} /\ due'[p] = {}
  <2>1. \E phase \in {"count", "header"}, f \in Paths, replace \in BOOLEAN :
            Launch(p, phase, f, replace)
    BY DEF BackupStart, SnapStart, RestoreStart
  <2>. QED
    BY <2>1 DEF Launch, BackupInv, BackupTypeOK, HistoryOK, Backup, Follow
<1>. QED
  BY <1>1 DEF AgentOK, Fresh, SnapOK, RestoreOK, Reading, Recovered

\* An agent that stops without success owes nothing.
LEMMA StoppedOK ==
    ASSUME NEW p \in Agent, bpc'[p] = "idle", bres'[p] # "ok"
    PROVE  AgentOK(p)'
BY DEF AgentOK, Fresh, SnapOK, RestoreOK, Reading, Recovered, IsSnapshot

LEMMA CountOK ==
    ASSUME BackupInv, NEW p \in Agent, Backup(p), SnapCount(p)
    PROVE  AgentOK(p)'
<1>1. bpc'[p] = "create" /\ got'[p] = {} /\ due'[p] = {}
  BY DEF SnapCount, Proceed, BackupInv, AgentOK, Fresh, IsSnapshot, BackupTypeOK, HistoryOK,
         Backup, Follow
<1>. QED
  BY <1>1 DEF AgentOK, Fresh, SnapOK, RestoreOK, Reading, Recovered

LEMMA CreateOK ==
    ASSUME BackupInv, NEW p \in Agent, Backup(p), SnapCreate(p)
    PROVE  AgentOK(p)' /\ FileOK(PathOf(p))' /\ WholeOK(PathOf(p))'
<1>. DEFINE f == PathOf(p)
<1>1. /\ f \in Paths /\ f' = f /\ bpc'[p] = "select" /\ got'[p] = {} /\ due'[p] = {}
      /\ disk'[f] = <<>> /\ buf'[p] = <<Header(left[p])>> /\ left' = left /\ f \notin whole'
      /\ f \notin skewed' /\ saved'[f] = {}
  BY DEF SnapCreate, Proceed, BackupInv, AgentOK, Fresh, IsSnapshot, BackupTypeOK, HistoryOK,
         Backup, Follow, PathOf
<1>2. AgentOK(p)'
  BY <1>1 DEF AgentOK, Fresh, SnapOK, RestoreOK, Reading, Recovered
<1>. QED
  BY <1>1, <1>2 DEF FileOK, WholeOK

\* The seeds that were sound when the SELECT ran need rows it found.
LEMMA SoundNeeds ==
    ASSUME CodecTypeOK, CoverInv, NEW seed \in SoundSeeds
    PROVE  Sturdy(seed) /\ Needs(seed) \subseteq Stored
<1>1. PICK s \in Seeds : IsSeed(s) /\ s \notin exposed /\ seed = seeds[s]
  BY DEF SoundSeeds
<1>2. SeedTypeOK(seed) /\ RawGenuine(seed) /\ BackedBy(genome, seed)
  BY <1>1 DEF CodecTypeOK, CoverInv
<1>3. Sturdy(seed)
  BY <1>2 DEF Sturdy, BackedBy
<1>4. \A i \in 1..Len(seed.ops) : OpDigest(seed, i) \in Digest
  BY <1>2 DEF SeedTypeOK, Seed, OpDigest
<1>5. Needs(seed) \subseteq Stored
  BY <1>2, <1>4 DEF Needs, BackedBy, Stored, HasChunk
<1>. QED
  BY <1>3, <1>5

LEMMA SelectOK ==
    ASSUME CodecTypeOK, CoverInv, BackupInv, NEW p \in Agent, Backup(p), SnapSelect(p)
    PROVE  AgentOK(p)' /\ FileOK(PathOf(p))' /\ WholeOK(PathOf(p))'
<1>. DEFINE f == PathOf(p)
            h == Header(left[p])
<1>1. /\ f \in Paths /\ f' = f /\ bpc[p] = "select" /\ bpc'[p] = "rows"
      /\ UNCHANGED <<genome, disk, buf, left, got, whole>>
      /\ due'[p] = due[p] /\ saved'[f] = SoundSeeds
      /\ got[p] = {} /\ due[p] = {}
      /\ disk[f] = <<>> /\ buf[p] = <<h>> /\ f \notin whole
      /\ left[p] \in Nat /\ moments' = moments \union {Stored} /\ f \notin skewed
  BY DEF SnapSelect, Proceed, BackupInv, AgentOK, Fresh, IsSnapshot, SnapOK, BackupTypeOK, HistoryOK,
         Backup, Follow, PathOf
<1>2. h \in Item /\ h.kind # "row"
  BY <1>1, ItemKinds
<1>3. /\ DigestsOf(<<h>>) = {} /\ AllRows(<<h>>) /\ Part(<<h>>, Stored)
      /\ Len(<<h>>) = 1 /\ <<h>>[1] = h /\ <<h>> # <<>>
  BY <1>2, NoRowsYet
<1>4. p \in cursors' <=> Stored # {}
  BY <1>1 DEF SnapSelect, BackupInv, CursorsOK
<1>5. f \in skewed' <=> left[p] # Cardinality(Stored)
  BY <1>1 DEF SnapSelect, CountChunks
<1>6. Keeps(Stored, f)'
  <2>1. \A seed \in SoundSeeds : Needs(seed) \subseteq Stored
    BY SoundNeeds
  <2>. QED
    BY <1>1, <2>1 DEF Keeps, Stored, HasChunk
<1>7. Stored' = Stored
  BY <1>1 DEF Stored, HasChunk
<1>. HIDE DEF h, f
<1>8. Part(buf[p], Stored) /\ DigestsOf(buf[p]) = {}
  BY <1>1, <1>3
<1>9. Copying(p, Stored)'
  BY <1>1, <1>4, <1>5, <1>6, <1>7, <1>8 DEF Copying, f
<1>10. SnapOK(p)'
  <2>1. Cardinality(DigestsOf(buf[p])) = Len(buf[p]) - 1
    <3>1. Cardinality(DigestsOf(buf[p])) = 0
      BY <1>8, NothingCounted
    <3>2. Len(buf[p]) = 1
      BY <1>1, <1>3
    <3>. QED
      BY <3>1, <3>2
  <2>2. disk[f] \in Seq(Item) /\ Begins(disk[f], buf[p])
    BY <1>1 DEF Begins
  <2>. QED
    BY <1>1, <1>3, <1>7, <1>9, <2>1, <2>2 DEF SnapOK, f, h
<1>11. AgentOK(p)'
  BY <1>1, <1>10 DEF AgentOK, Fresh, RestoreOK, Reading, Recovered
<1>12. FileOK(f)' /\ WholeOK(f)'
  BY <1>1 DEF FileOK, WholeOK
<1>. QED
  BY <1>1, <1>11, <1>12 DEF f

\* What a writing snapshot knows of its moment.
LEMMA MomentDigests ==
    ASSUME BackupTypeOK, NEW p \in Agent, SnapOK(p), bpc[p] = "rows",
           NEW M \in moments, Copying(p, M)
    PROVE  /\ buf[p] \in Seq(Item) /\ buf[p][1].kind = "head" /\ buf[p] # <<>>
           /\ buf[p][1].count = left[p] /\ buf[p][1] # Cut
           /\ M \subseteq Digest /\ DigestsOf(buf[p]) \subseteq M
           /\ Remaining(p) = {} => p \notin cursors /\ DigestsOf(buf[p]) = M
<1>1. /\ buf[p] \in Seq(Item) /\ buf[p] # <<>> /\ buf[p][1] = Header(left[p]) /\ left[p] \in Nat
      /\ M \subseteq Digest /\ Part(buf[p], M)
  BY DEF BackupTypeOK, SnapOK, Copying
<1>2. buf[p][1].kind = "head" /\ buf[p][1].count = left[p] /\ buf[p][1] # Cut
  BY <1>1, ItemKinds
<1>3. DigestsOf(buf[p]) \subseteq M
  BY <1>1, <1>2, PartDigests
<1>4. ASSUME p \in cursors PROVE Remaining(p) # {}
  BY <1>3, <1>4 DEF Copying, Remaining
<1>. QED
  BY <1>1, <1>2, <1>3, <1>4 DEF Copying

LEMMA RowOK ==
    ASSUME BackupInv, NEW p \in Agent, Backup(p), SnapRow(p)
    PROVE  AgentOK(p)'
<1>. DEFINE D == DigestsOf(buf[p])
<1>0. BackupTypeOK /\ SnapOK(p) /\ Fresh(p) /\ bpc[p] = "rows"
  BY DEF BackupInv, AgentOK, SnapRow
<1>1. PICK d \in Remaining(p) :
        /\ \A e \in Remaining(p) : d <= e
        /\ buf' = [buf EXCEPT ![p] = Append(@, RowItem(d, GetChunk(d)))]
        /\ cursors' = IF Remaining(p) = {d} THEN cursors \ {p} ELSE cursors
  BY DEF SnapRow
<1>. DEFINE r == RowItem(d, GetChunk(d))
<1>2. PICK M \in moments : Copying(p, M)
  BY <1>0 DEF SnapOK
<1>3. /\ buf[p] \in Seq(Item) /\ buf[p][1].kind = "head" /\ buf[p] # <<>>
      /\ M \subseteq Digest /\ D \subseteq M
  BY <1>0, <1>2, MomentDigests
<1>4. /\ p \in cursors /\ d \in Stored /\ \A e \in D : e < d
      /\ M = Stored /\ \A x \in M \ D : \A e \in D : e < x
      /\ d \in Nat /\ d \notin D
  <2>1. /\ p \in cursors /\ d \in Stored /\ \A e \in D : e < d
    BY <1>1 DEF Remaining
  <2>2. M = Stored /\ \A x \in M \ D : \A e \in D : e < x
    BY <1>2, <2>1 DEF Copying
  <2>3. d \in Nat
    BY <2>1, ShaAssumption DEF Stored
  <2>. QED
    BY <2>1, <2>2, <2>3
<1>5. r \in Item /\ r.kind = "row" /\ r.hash = d
  <2>1. d \in Digest /\ GetChunk(d) \in Content
    BY <1>0, <1>4 DEF Stored, HasChunk, GetChunk, BackupTypeOK, GenomeTypeOK, Row
  <2>. QED
    BY <2>1, ItemKinds
<1>6. /\ PathOf(p)' = PathOf(p) /\ bpc'[p] = "rows"
      /\ UNCHANGED <<genome, disk, left, got, saved, moments, skewed, whole>>
      /\ due'[p] = due[p]
      /\ buf'[p] = Append(buf[p], r)
  BY <1>0, <1>1 DEF SnapRow, Proceed, PathOf, historyVars, Backup, Follow, BackupInv, HistoryOK,
                    BackupTypeOK
<1>7. /\ AllRows(buf[p]) /\ Cardinality(D) = Len(buf[p]) - 1 /\ Part(buf[p], M)
      /\ disk[PathOf(p)] \in Seq(Item) /\ Begins(disk[PathOf(p)], buf[p])
      /\ buf[p][1] = Header(left[p])
      /\ PathOf(p) \notin whole
  BY <1>0, <1>2 DEF SnapOK, Copying
<1>. HIDE DEF r, D
<1>8. /\ buf'[p] \in Seq(Item) /\ AllRows(buf'[p]) /\ buf'[p] # <<>> /\ buf'[p][1] = buf[p][1]
      /\ Len(buf'[p]) = Len(buf[p]) + 1 /\ Begins(buf[p], buf'[p])
      /\ DigestsOf(buf'[p]) = D \union {d}
  BY <1>3, <1>5, <1>6, <1>7, AppendRow DEF D
<1>9. Part(buf'[p], M)
  <2>1. d \in M /\ \A e \in DigestsOf(buf[p]) : e < d
    BY <1>4 DEF D
  <2>. QED
    BY <1>3, <1>5, <1>6, <1>7, <2>1, AppendPart
<1>10. Cardinality(D \union {d}) = Len(buf'[p]) - 1
  <2>1. IsFiniteSet(D)
    BY <1>3, Finite
  <2>2. Cardinality(D \union {d}) = Cardinality(D) + 1
    BY <1>4, <2>1, FS_AddElement
  <2>. QED
    BY <1>3, <1>7, <1>8, <2>2
<1>11. Begins(disk[PathOf(p)], buf'[p])
  BY <1>3, <1>7, <1>8 DEF Begins
<1>12. \A x \in M \ D : x \in Remaining(p) /\ x \in Nat
  BY <1>3, <1>4, ShaAssumption DEF Remaining, D
<1>13. CASE Remaining(p) = {d}
  <2>1. p \notin cursors' /\ D \union {d} = M
    BY <1>1, <1>3, <1>4, <1>12, <1>13
  <2>2. Copying(p, M)'
    BY <1>2, <1>6, <1>8, <1>9, <2>1 DEF Copying, Keeps
  <2>. QED
    BY <1>0, <1>6, <1>7, <1>8, <1>10, <1>11, <2>2, <1>2
       DEF AgentOK, Fresh, SnapOK, RestoreOK, Reading, Recovered, IsSnapshot
<1>14. CASE Remaining(p) # {d}
  <2>1. p \in cursors'
    BY <1>1, <1>4, <1>14
  <2>2. PICK y \in Remaining(p) : y # d
    BY <1>1, <1>14
  <2>3. y \in M /\ y \notin D
    <3>1. y \in Stored /\ y \in Nat /\ \A e \in D : e < y
      BY <2>2, ShaAssumption DEF Remaining, Stored, D
    <3>. QED
      BY <3>1, <1>4
  <2>4. D \union {d} # M
    BY <2>2, <2>3
  <2>5. ASSUME NEW x \in M \ (D \union {d}), NEW e \in D \union {d} PROVE e < x
    <3>1. CASE e \in D
      BY <1>4, <2>5, <3>1
    <3>2. CASE e = d
      BY <1>1, <1>4, <1>12, <2>5, <3>2
    <3>. QED
      BY <2>5, <3>1, <3>2
  <2>6. Stored' = Stored
    BY <1>6 DEF Stored, HasChunk
  <2>7. Copying(p, M)'
    BY <1>2, <1>4, <1>6, <1>8, <1>9, <2>1, <2>4, <2>5, <2>6 DEF Copying, Keeps
  <2>. QED
    BY <1>0, <1>6, <1>7, <1>8, <1>10, <1>11, <2>7, <1>2
       DEF AgentOK, Fresh, SnapOK, RestoreOK, Reading, Recovered, IsSnapshot
<1>. QED
  BY <1>13, <1>14

\* A file that holds the first items of what a snapshot has written.
LEMMA SpilledOK ==
    ASSUME BackupTypeOK, NEW p \in Agent, SnapOK(p), bpc[p] = "rows",
           disk'[PathOf(p)] \in Seq(Item), Begins(disk'[PathOf(p)], buf[p]),
           UNCHANGED <<saved, skewed, moments>>, PathOf(p)' = PathOf(p)
    PROVE  FileOK(PathOf(p))'
<1>. DEFINE f == PathOf(p)
<1>1. PICK M \in moments : Copying(p, M)
  BY DEF SnapOK
<1>2. /\ buf[p] \in Seq(Item) /\ buf[p][1].kind = "head" /\ buf[p][1].count = left[p]
      /\ buf[p] # <<>>
  BY <1>1, MomentDigests
<1>3. Part(disk'[f], M) /\ (disk'[f] # <<>> => disk'[f][1] = buf[p][1])
  BY <1>1, <1>2, PrefixPart DEF Copying
<1>4. Keeps(M, f)' /\ (f \in skewed <=> left[p] # Cardinality(M))
  BY <1>1 DEF Copying, Keeps
<1>. QED
  BY <1>2, <1>3, <1>4 DEF FileOK, HasHeader

LEMMA FlushOK ==
    ASSUME BackupInv, NEW p \in Agent, Backup(p), SnapFlush(p)
    PROVE  AgentOK(p)' /\ FileOK(PathOf(p))' /\ WholeOK(PathOf(p))'
<1>. DEFINE f == PathOf(p)
<1>0. BackupTypeOK /\ SnapOK(p) /\ Fresh(p) /\ bpc[p] = "rows" /\ f \in Paths
  BY DEF BackupInv, AgentOK, SnapFlush, BackupTypeOK, PathOf
<1>1. PICK n \in 1..Len(buf[p]) : disk' = [disk EXCEPT ![f] = SubSeq(buf[p], 1, n)]
  BY DEF SnapFlush
<1>2. n \in 0..Len(buf[p]) /\ buf[p] \in Seq(Item)
  BY <1>0 DEF BackupTypeOK
<1>3. disk'[f] \in Seq(Item) /\ Begins(disk'[f], buf[p])
  BY <1>0, <1>1, <1>2, FirstItems DEF BackupTypeOK
<1>4. /\ f' = f /\ UNCHANGED <<genome, cursors, bpc, bjob, buf, left, got, bres>>
      /\ UNCHANGED <<saved, skewed, moments, whole>> /\ due'[p] = due[p]
  BY <1>0 DEF SnapFlush, agentVars, genomeVars, historyVars, Backup, Follow, BackupInv, HistoryOK, PathOf
<1>5. FileOK(f)'
  BY <1>0, <1>3, <1>4, SpilledOK
<1>6. f \notin whole
  BY <1>0 DEF SnapOK
<1>7. \A M : Copying(p, M) => Copying(p, M)'
  BY <1>4 DEF Copying, Keeps, Stored, HasChunk
<1>. HIDE DEF f
<1>8. SnapOK(p)'
  BY <1>0, <1>3, <1>4, <1>6, <1>7 DEF SnapOK, f
<1>9. AgentOK(p)'
  BY <1>0, <1>4, <1>8 DEF AgentOK, Fresh, RestoreOK, Reading, Recovered, IsSnapshot
<1>. QED
  BY <1>4, <1>5, <1>6, <1>9 DEF WholeOK, f

LEMMA DoneOK ==
    ASSUME BackupInv, NEW p \in Agent, Backup(p), SnapDone(p)
    PROVE  /\ AgentOK(p)' /\ FileOK(PathOf(p))' /\ WholeOK(PathOf(p))'
           /\ p \notin cursors'
<1>. DEFINE f == PathOf(p)
<1>0. /\ BackupTypeOK /\ SnapOK(p) /\ Fresh(p) /\ bpc[p] = "rows" /\ f \in Paths
      /\ Remaining(p) = {}
  BY DEF BackupInv, AgentOK, SnapDone, BackupTypeOK, PathOf
<1>1. PICK M \in moments : Copying(p, M)
  BY <1>0 DEF SnapOK
<1>2. /\ buf[p] \in Seq(Item) /\ buf[p] # <<>> /\ buf[p][1] # Cut /\ buf[p][1].count = left[p]
      /\ p \notin cursors /\ DigestsOf(buf[p]) = M
  BY <1>0, <1>1, MomentDigests
<1>3. /\ f' = f /\ disk'[f] = buf[p] /\ bpc'[p] = "idle"
      /\ UNCHANGED <<cursors, saved, skewed, moments>>
      /\ got'[p] = {} /\ due'[p] = {}
  BY <1>0 DEF SnapDone, Stop, genomeVars, Backup, Follow, BackupInv, HistoryOK, PathOf, Fresh,
              IsSnapshot, BackupTypeOK
<1>4. FileOK(f)'
  <2>1. Begins(disk'[f], buf[p])
    BY <1>2, <1>3 DEF Begins
  <2>. QED
    BY <1>0, <1>2, <1>3, <2>1, SpilledOK
<1>5. /\ AllRows(buf[p]) /\ Cardinality(M) = Len(buf[p]) - 1
      /\ f \in skewed <=> left[p] # Cardinality(M)
  BY <1>0, <1>1, <1>2 DEF SnapOK, Copying
<1>. HIDE DEF f
<1>6. WholeOK(f)'
  BY <1>1, <1>2, <1>3, <1>5 DEF WholeOK, HasHeader
<1>7. AgentOK(p)'
  BY <1>3 DEF AgentOK, Fresh, SnapOK, RestoreOK, Reading, Recovered, IsSnapshot
<1>. QED
  BY <1>2, <1>3, <1>4, <1>6, <1>7 DEF f

LEMMA AbortOK ==
    ASSUME BackupInv, NEW p \in Agent, Backup(p), SnapAbort(p)
    PROVE  AgentOK(p)' /\ FileOK(PathOf(p))' /\ WholeOK(PathOf(p))'
<1>. DEFINE f == PathOf(p)
<1>0. BackupTypeOK /\ SnapOK(p) /\ f \in Paths /\ FileOK(f) /\ WholeOK(f)
  BY DEF BackupInv, AgentOK, BackupTypeOK, PathOf
<1>1. /\ f' = f /\ bpc'[p] = "idle" /\ bres'[p] # "ok"
      /\ UNCHANGED <<saved, skewed, moments, whole>>
  BY <1>0 DEF SnapAbort, Stop, historyVars, Backup, Follow, PathOf, BackupTypeOK
<1>2. AgentOK(p)'
  BY <1>1, StoppedOK
<1>3. CASE disk'[f] = disk[f]
  BY <1>0, <1>1, <1>2, <1>3 DEF FileOK, WholeOK, Keeps
<1>4. CASE bpc[p] \in {"select", "rows"} /\ disk'[f] = Append(disk[f], Cut)
  <2>2. f \notin whole /\ (disk[f] = <<>> \/ disk[f] \in Seq(Item))
    BY <1>0, <1>4 DEF SnapOK
  <2>3. <<>> \in Seq(Item) /\ Cut \in Item /\ Cut.kind # "row"
    BY ItemKinds
  <2>4. disk[f] \in Seq(Item) /\ disk[f] # NoFile
    BY <2>2, <2>3, NoFileAssumption
  <2>5. /\ \A M : Part(disk[f], M) => Part(disk'[f], M)
        /\ disk'[f][1] = IF disk[f] = <<>> THEN Cut ELSE disk[f][1]
    BY <1>4, <2>3, <2>4, AppendPart
  <2>6. \A M : Keeps(M, f) => Keeps(M, f)'
    BY <1>1 DEF Keeps
  <2>. HIDE DEF f
  <2>7. FileOK(f)'
    BY <1>0, <1>1, <2>4, <2>5, <2>6 DEF FileOK, HasHeader
  <2>. QED
    BY <1>1, <1>2, <2>2, <2>7 DEF WholeOK, f
<1>5. CASE bpc[p] \in {"select", "rows"} /\ disk'[f] = buf[p]
  <2>1. f \notin whole' /\ buf[p] \in Seq(Item)
    BY <1>0, <1>1, <1>5 DEF SnapOK, BackupTypeOK
  <2>2. CASE bpc[p] = "rows"
    <3>1. Begins(disk'[f], buf[p])
      BY <1>5, <2>1 DEF Begins
    <3>2. FileOK(f)'
      BY <1>0, <1>1, <1>5, <2>1, <2>2, <3>1, SpilledOK
    <3>. QED
      BY <1>1, <1>2, <2>1, <3>2 DEF WholeOK
  <2>3. CASE bpc[p] = "select"
    <3>1. /\ disk'[f] = <<Header(left[p])>> /\ saved'[f] = {}
          /\ Header(left[p]).kind = "head" /\ Header(left[p]) \in Item
      BY <1>0, <1>1, <1>5, <2>3, ItemKinds DEF SnapOK, BackupTypeOK
    <3>2. disk'[f][1].kind = "head" /\ Part(disk'[f], {})
      BY <3>1, NoRowsYet
    <3>. HIDE DEF f
    <3>3. Keeps({}, f)'
      BY <1>1, <3>1 DEF Keeps
    <3>4. FileOK(f)'
      BY <1>1, <3>2, <3>3 DEF FileOK
    <3>. QED
      BY <1>1, <1>2, <2>1, <3>4 DEF WholeOK, f
  <2>. QED
    BY <1>5, <2>2, <2>3
<1>. QED
  BY <1>0, <1>3, <1>4, <1>5 DEF SnapAbort, BackupTypeOK

-----------------------------------------------------------------------------
(* The steps of a restore.                                                  *)

LEMMA OpenOK ==
    ASSUME BackupInv, NEW p \in Agent, Backup(p), RestoreOpen(p)
    PROVE  AgentOK(p)'
<1>. DEFINE f == PathOf(p)
            items == disk[f]
<1>0. /\ BackupTypeOK /\ f \in Paths /\ FileOK(f) /\ bpc[p] = "header" /\ got[p] = {}
      /\ f' = f \/ bpc'[p] = "idle"
      /\ bjob[p].replace \in BOOLEAN
  BY DEF BackupInv, AgentOK, Fresh, RestoreOpen, BackupTypeOK, PathOf, Proceed, Stop
<1>1. CASE Stop(p, "failed") \/ Stop(p, "refused")
  <2>1. bpc'[p] = "idle" /\ bres'[p] # "ok"
    BY <1>0, <1>1 DEF Stop, BackupTypeOK
  <2>. QED
    BY <2>1, StoppedOK
<1>2. CASE ~(Stop(p, "failed") \/ Stop(p, "refused"))
  <2>1. /\ items # NoFile /\ HasHeader(items)
        /\ left' = [left EXCEPT ![p] = items[1].count]
        /\ buf' = [buf EXCEPT ![p] = <<items[1]>>]
        /\ Proceed(p, IF bjob[p].replace THEN "clear" ELSE "entries") /\ got' = got
    BY <1>2 DEF RestoreOpen, FirstChange
  <2>2. /\ bpc'[p] = IF bjob[p].replace THEN "clear" ELSE "entries"
        /\ bjob' = bjob /\ left'[p] = items[1].count /\ buf'[p] = <<items[1]>>
        /\ f' = f
    BY <1>0, <2>1 DEF Proceed, BackupTypeOK, PathOf
  <2>3. UNCHANGED <<genome, disk, saved>> /\ due'[p] = saved[f]
    BY <1>0, <2>2 DEF RestoreOpen, genomeVars, Backup, Follow, BackupInv, HistoryOK, PathOf
  <2>4. items \in Seq(Item) /\ items # <<>> /\ items[1] # Cut
    BY <1>0, <2>1 DEF BackupTypeOK, HasHeader
  <2>5. items[1] \in Item /\ items[1].kind = "head" /\ Len(items) >= 1
    BY <1>0, <2>1, <2>4 DEF FileOK
  <2>6. items[1].count \in Nat
    BY <2>5, ItemKinds
  <2>. DEFINE b == <<items[1]>>
  <2>7. /\ DigestsOf(b) = {} /\ AllRows(b) /\ Len(b) = 1 /\ b # <<>> /\ b[1] = items[1]
    BY <2>5, NoRowsYet
  <2>8. Begins(b, items)
    BY <2>4, <2>5, <2>7 DEF Begins
  <2>9. p \notin skewed' => f \notin skewed'
    BY DEF RestoreOpen
  <2>. HIDE DEF f, items, b
  <2>10. Cardinality(DigestsOf(b)) = Len(b) - 1 /\ items[1].count = items[1].count + Len(b) - 1
    <3>1. Cardinality(DigestsOf(b)) = 0
      BY <2>7, NothingCounted
    <3>. QED
      BY <2>6, <2>7, <3>1
  <2>11. buf'[p] = b /\ items' = items
    BY <2>2, <2>3 DEF b, items
  <2>12. ReadOn(p)'
    <3>1. got'[p] = {}
      BY <1>0, <2>1
    <3>2. bjob'[p].replace => bpc'[p] # "entries"
      BY <2>2
    <3>. QED
      BY <2>1, <2>2, <2>3, <2>4, <2>7, <2>8, <2>9, <2>10, <2>11, <3>1, <3>2
         DEF ReadOn, f, items
  <2>13. RestoreOK(p)'
    BY <2>1, <2>2, <2>3, <2>7, <2>11, <2>12 DEF RestoreOK, f, items
  <2>. QED
    BY <2>2, <2>13 DEF AgentOK, Fresh, SnapOK, Recovered, IsSnapshot
<1>. QED
  BY <1>1, <1>2

\* What has been read of an undisturbed file begins with its header.
LEMMA ReadHeader ==
    ASSUME BackupTypeOK, NEW p \in Agent, FileOK(PathOf(p)), Reading(p), RestoreOK(p), ReadOn(p)
    PROVE  /\ buf[p] \in Seq(Item) /\ buf[p] # <<>> /\ buf[p][1].kind = "head"
           /\ buf[p][1] = disk[PathOf(p)][1] /\ disk[PathOf(p)] # NoFile
           /\ p \notin skewed =>
                \E M \in moments \union {{}} :
                    /\ Part(disk[PathOf(p)], M) /\ Keeps(M, PathOf(p))
                    /\ M # {} => disk[PathOf(p)][1].count = Cardinality(M)
<1>. DEFINE items == disk[PathOf(p)]
<1>1. /\ buf[p] \in Seq(Item) /\ buf[p] # <<>> /\ items \in Seq(Item) /\ HasHeader(items)
      /\ Begins(buf[p], items) /\ items # NoFile
      /\ p \notin skewed => PathOf(p) \notin skewed
  BY DEF BackupTypeOK, RestoreOK, ReadOn
<1>2. buf[p][1] = items[1]
  BY <1>1, PrefixPart
<1>. QED
  BY <1>1, <1>2 DEF FileOK, HasHeader

LEMMA ClearOK ==
    ASSUME BackupInv, NEW p \in Agent, Backup(p), RestoreClear(p)
    PROVE  AgentOK(p)'
<1>0. /\ BackupTypeOK /\ RestoreOK(p) /\ bpc[p] = "clear" /\ PathOf(p) \in Paths
      /\ FileOK(PathOf(p)) /\ Reading(p) /\ bjob[p].replace /\ Len(buf[p]) = 1
  BY DEF BackupInv, AgentOK, RestoreOK, RestoreClear, Reading, BackupTypeOK, PathOf
<1>1. /\ bpc'[p] = "entries" /\ UNCHANGED <<bjob, buf, left, got, disk, skewed, saved>>
      /\ due'[p] = due[p] /\ genome' = EmptyGenome
      /\ p \notin shaken' => p \notin shaken
  BY <1>0 DEF RestoreClear, Proceed, ClearChunks, Backup, Follow, BackupInv, HistoryOK, BackupTypeOK
<1>2. Stored' = {} /\ RottenRows' = {}
  BY <1>1 DEF Stored, RottenRows, HasChunk, EmptyGenome
<1>3. ASSUME p \notin shaken' PROVE ReadOn(p)'
  <2>1. ReadOn(p)
    BY <1>0, <1>1, <1>3 DEF RestoreOK
  <2>2. buf[p] \in Seq(Item) /\ buf[p][1].kind = "head"
    BY <1>0, <2>1, ReadHeader
  <2>3. Part(buf[p], {})
    BY <1>0 DEF Part
  <2>4. DigestsOf(buf[p]) = {}
    BY <2>2, <2>3, PartDigests
  <2>. QED
    BY <1>1, <1>2, <2>1, <2>4 DEF ReadOn, PathOf
<1>4. RestoreOK(p)'
  BY <1>0, <1>1, <1>3 DEF RestoreOK, Reading, PathOf
<1>. QED
  BY <1>1, <1>4 DEF AgentOK, Fresh, SnapOK, Recovered, IsSnapshot

\* The rows of a moment are read in their order, so none comes twice.
LEMMA NewEntry ==
    ASSUME BackupTypeOK, NEW p \in Agent, FileOK(PathOf(p)), Reading(p), RestoreOK(p), ReadOn(p),
           GoodEntry(p), p \notin skewed
    PROVE  NextItem(p).hash \notin got[p]
<1>. DEFINE items == disk[PathOf(p)]
            n == Len(buf[p]) + 1
<1>1. /\ buf[p] \in Seq(Item) /\ items \in Seq(Item) /\ n \in 1..Len(items)
      /\ items[n].kind = "row" /\ NextItem(p) = items[n] /\ items[n].hash = Sha[items[n].data]
      /\ items[n].data \in Content
  BY NextEntry DEF GoodEntry, NextItem
<1>2. PICK M \in moments \union {{}} : Part(items, M)
  BY ReadHeader
<1>3. buf[p][1].kind = "head" /\ buf[p] # <<>> /\ Begins(buf[p], items) /\ got[p] = DigestsOf(buf[p])
  BY ReadHeader DEF ReadOn
<1>4. n \in 2..Len(items)
  BY <1>1, <1>3
<1>. SUFFICES ASSUME NEW i \in 1..Len(buf[p]), buf[p][i].kind = "row"
             PROVE  buf[p][i].hash # items[n].hash
  BY <1>1, <1>3 DEF DigestsOf, RowsOf
<1>5. i \in 2..n-1 /\ items[i] = buf[p][i]
  BY <1>1, <1>3 DEF Begins
<1>6. items[i].hash < items[n].hash
  BY <1>1, <1>2, <1>4, <1>5 DEF Part
<1>7. items[n].hash \in Nat
  BY <1>1, ShaAssumption
<1>. QED
  BY <1>5, <1>6, <1>7

LEMMA EntryOK ==
    ASSUME BackupInv, NEW p \in Agent, Backup(p), RestoreEntry(p)
    PROVE  AgentOK(p)'
<1>. DEFINE items == disk[PathOf(p)]
            r == NextItem(p)
<1>0. /\ BackupTypeOK /\ RestoreOK(p) /\ bpc[p] = "entries" /\ PathOf(p) \in Paths
      /\ FileOK(PathOf(p)) /\ Reading(p) /\ GoodEntry(p) /\ items # NoFile
  BY DEF BackupInv, AgentOK, RestoreOK, RestoreEntry, Reading, BackupTypeOK, PathOf
<1>1. /\ bpc'[p] = "entries" /\ UNCHANGED <<bjob, disk, skewed, saved, shaken>>
      /\ left'[p] = left[p] - 1 /\ buf'[p] = Append(buf[p], r)
      /\ got'[p] = got[p] \union {r.hash}
      /\ due'[p] = due[p] /\ left[p] \in Nat
  BY <1>0 DEF RestoreEntry, Proceed, historyVars, Backup, Follow, BackupInv, HistoryOK, BackupTypeOK
<1>2. /\ items \in Seq(Item) /\ buf[p] \in Seq(Item) /\ r \in Item /\ r.kind = "row"
      /\ Len(buf[p]) + 1 \in 1..Len(items) /\ r = items[Len(buf[p]) + 1]
      /\ r.data \in Content /\ r.hash = Sha[r.data]
  BY <1>0, NextEntry DEF GoodEntry, NextItem
<1>3. /\ Stored' = Stored \union {r.hash} /\ RottenRows' = RottenRows
  <2>1. PutChunk(p, Sha[r.data], r.data) /\ genome \in [Digest -> Row]
    BY <1>0, <1>2 DEF RestoreEntry, BackupTypeOK, GenomeTypeOK
  <2>. QED
    BY <1>2, <2>1, PutGenome, GrownRows
<1>. HIDE DEF r
<1>4. buf'[p] # <<>>
  BY <1>1, <1>2
<1>5. ASSUME p \notin shaken PROVE ReadOn(p)'
  <2>1. ReadOn(p)
    BY <1>0, <1>5 DEF RestoreOK
  <2>2. buf[p] # <<>> /\ buf[p][1].kind = "head"
    BY <1>0, <2>1, ReadHeader
  <2>3. /\ HasHeader(items) /\ Begins(buf[p], items)
        /\ items[1].count = left[p] + Len(buf[p]) - 1
        /\ AllRows(buf[p]) /\ got[p] = DigestsOf(buf[p]) /\ got[p] \subseteq Stored
        /\ due[p] = saved[PathOf(p)]
        /\ bjob[p].replace => RottenRows = {}
        /\ p \notin skewed => PathOf(p) \notin skewed /\ Cardinality(got[p]) = Len(buf[p]) - 1
    BY <1>0, <2>1 DEF ReadOn
  <2>4. /\ buf'[p] \in Seq(Item) /\ AllRows(buf'[p]) /\ Len(buf'[p]) = Len(buf[p]) + 1
        /\ Begins(buf[p], buf'[p]) /\ DigestsOf(buf'[p]) = DigestsOf(buf[p]) \union {r.hash}
    <3>1. /\ AllRows(buf[p]) /\ buf[p][1].kind # "row" /\ r \in Item /\ r.kind = "row"
          /\ buf[p] \in Seq(Item) /\ buf'[p] = Append(buf[p], r)
      BY <1>1, <1>2, <2>2, <2>3
    <3>. QED
      BY <2>2, <3>1, AppendRow
  <2>5. Begins(buf'[p], items)
    <3>1. buf'[p][Len(buf[p]) + 1] = r
      BY <1>1, <1>2
    <3>. QED
      BY <1>2, <2>3, <2>4, <3>1 DEF Begins
  <2>6. items[1].count = left'[p] + Len(buf'[p]) - 1
    BY <1>1, <1>2, <2>3, <2>4
  <2>7. p \notin skewed => Cardinality(got'[p]) = Len(buf'[p]) - 1
    <3>. SUFFICES ASSUME p \notin skewed PROVE Cardinality(got'[p]) = Len(buf'[p]) - 1
      OBVIOUS
    <3>1. r.hash \notin got[p]
      BY <1>0, <2>1, NewEntry DEF r
    <3>2. IsFiniteSet(got[p])
      BY <1>0, Finite DEF BackupTypeOK
    <3>3. Cardinality(got[p] \union {r.hash}) = Cardinality(got[p]) + 1
      BY <3>1, <3>2, FS_AddElement
    <3>. QED
      BY <1>1, <1>2, <2>3, <2>4, <3>3
  <2>. QED
    BY <1>1, <1>2, <1>3, <2>3, <2>4, <2>5, <2>6, <2>7 DEF ReadOn, PathOf
<1>6. RestoreOK(p)'
  BY <1>0, <1>1, <1>4, <1>5 DEF RestoreOK, Reading, PathOf
<1>. QED
  BY <1>1, <1>6 DEF AgentOK, Fresh, SnapOK, Recovered, IsSnapshot

\* The count of the header and the end of the file together leave nothing out.
LEMMA ReadAll ==
    ASSUME BackupTypeOK, NEW p \in Agent, FileOK(PathOf(p)), Reading(p), RestoreOK(p), ReadOn(p),
           left[p] = 0, AtEnd(p), p \notin skewed
    PROVE  got[p] \in moments \union {{}} /\ Keeps(got[p], PathOf(p))
<1>. DEFINE items == disk[PathOf(p)]
<1>1. PICK M \in moments \union {{}} :
        /\ Part(items, M) /\ Keeps(M, PathOf(p))
        /\ M # {} => items[1].count = Cardinality(M)
  BY ReadHeader
<1>2. /\ buf[p] \in Seq(Item) /\ items \in Seq(Item) /\ Begins(buf[p], items)
      /\ items[1].count = Len(buf[p]) - 1 /\ Cardinality(got[p]) = Len(buf[p]) - 1
      /\ got[p] = DigestsOf(buf[p]) /\ buf[p][1].kind = "head"
  BY ReadHeader DEF ReadOn
<1>3. Part(buf[p], M)
  BY <1>1, <1>2, PrefixPart
<1>4. got[p] \subseteq M
  BY <1>2, <1>3, PartDigests
<1>5. M # {} => IsFiniteSet(M) /\ Cardinality(got[p]) = Cardinality(M)
  BY <1>1, <1>2, Finite DEF BackupTypeOK
<1>6. got[p] = M
  BY <1>4, <1>5, FS_Subset
<1>. QED
  BY <1>1, <1>6

LEMMA RestoredOK ==
    ASSUME BackupInv, NEW p \in Agent, Backup(p), RestoreDone(p)
    PROVE  AgentOK(p)'
<1>0. /\ BackupTypeOK /\ RestoreOK(p) /\ bpc[p] = "entries" /\ PathOf(p) \in Paths
      /\ FileOK(PathOf(p)) /\ Reading(p) /\ left[p] = 0 /\ AtEnd(p)
  BY DEF BackupInv, AgentOK, RestoreOK, RestoreDone, Reading, BackupTypeOK, PathOf
<1>1. /\ bpc'[p] = "idle" /\ UNCHANGED <<bjob, got, genome, skewed, shaken, moments>>
      /\ due'[p] = due[p]
  BY <1>0 DEF RestoreDone, Stop, genomeVars, historyVars, Backup, Follow, BackupInv, HistoryOK,
              BackupTypeOK
<1>2. Stored' = Stored /\ RottenRows' = RottenRows
  BY <1>1 DEF Stored, RottenRows, HasChunk
<1>3. ASSUME p \notin shaken PROVE Recovered(p)'
  <2>1. ReadOn(p)
    BY <1>0, <1>3 DEF RestoreOK
  <2>2. /\ got[p] \subseteq Stored /\ due[p] = saved[PathOf(p)]
        /\ bjob[p].replace => RottenRows = {}
    BY <1>0, <2>1 DEF ReadOn
  <2>3. p \notin skewed => got[p] \in moments \union {{}} /\ Keeps(got[p], PathOf(p))
    BY <1>0, <2>1, ReadAll
  <2>. QED
    BY <1>1, <1>2, <2>2, <2>3 DEF Recovered, Keeps
<1>4. Recovered(p)'
  BY <1>1, <1>3 DEF Recovered
<1>. QED
  BY <1>1, <1>4 DEF AgentOK, Fresh, SnapOK, RestoreOK, Reading, IsSnapshot

LEMMA GivenUpOK ==
    ASSUME BackupInv, NEW p \in Agent, Backup(p),
           RestoreRefuse(p) \/ RestoreTimeout(p) \/ RestoreKill(p)
    PROVE  AgentOK(p)'
<1>1. \E r : r # "ok" /\ Stop(p, r)
  BY DEF RestoreRefuse, RestoreTimeout, LockedOut, RestoreKill
<1>2. bpc'[p] = "idle" /\ bres'[p] # "ok"
  BY <1>1 DEF Stop, BackupInv, BackupTypeOK
<1>. QED
  BY <1>2, StoppedOK

-----------------------------------------------------------------------------
(* The step of an agent.                                                    *)

LEMMA OwnOK ==
    ASSUME CodecTypeOK, CoverInv, BackupInv, NEW p \in Agent, Backup(p)
    PROVE  AgentOK(p)'
<1>1. CASE BackupStart(p) \/ SnapCount(p) \/ SnapCreate(p) \/ SnapSelect(p)
  BY <1>1, StartOK, CountOK, CreateOK, SelectOK
<1>2. CASE SnapRow(p) \/ SnapFlush(p) \/ SnapDone(p) \/ SnapAbort(p)
  BY <1>2, RowOK, FlushOK, DoneOK, AbortOK
<1>3. CASE RestoreOpen(p) \/ RestoreClear(p) \/ RestoreEntry(p) \/ RestoreDone(p)
  BY <1>3, OpenOK, ClearOK, EntryOK, RestoredOK
<1>4. CASE RestoreRefuse(p) \/ RestoreTimeout(p) \/ RestoreKill(p)
  BY <1>4, GivenUpOK
<1>. QED
  BY <1>1, <1>2, <1>3, <1>4 DEF Backup, BackupAgent, BackupStep

\* The path of a snapshot is settled when it starts.
LEMMA SnapshotPath ==
    ASSUME NEW p \in Agent, AgentStep(p)
    PROVE  /\ IsSnapshot(p) => PathOf(p)' = PathOf(p)
           /\ IsSnapshot(p)' /\ ~IsSnapshot(p) =>
                \A q \in Agent \ {p} : IsSnapshot(q) => PathOf(q) # PathOf(p)'
<1>0. BackupTypeOK
  BY DEF AgentStep
<1>1. CASE SnapStart(p)
  BY <1>0, <1>1 DEF SnapStart, Launch, IsSnapshot, PathOf, BackupTypeOK
<1>2. CASE RestoreStart(p)
  BY <1>0, <1>2 DEF RestoreStart, Launch, IsSnapshot, PathOf, BackupTypeOK
<1>3. CASE SnapCount(p) \/ SnapCreate(p) \/ SnapSelect(p) \/ SnapRow(p) \/ SnapFlush(p)
  BY <1>3 DEF SnapCount, SnapCreate, SnapSelect, SnapRow, SnapFlush, Proceed, IsSnapshot, PathOf,
              agentVars
<1>4. CASE \/ SnapDone(p) \/ SnapAbort(p) \/ RestoreRefuse(p) \/ RestoreDone(p)
           \/ RestoreTimeout(p) \/ RestoreKill(p)
  <2>1. \E r : Stop(p, r)
    BY <1>4 DEF SnapDone, SnapAbort, RestoreRefuse, RestoreDone, RestoreTimeout, LockedOut, RestoreKill
  <2>. QED
    BY <1>0, <2>1 DEF Stop, IsSnapshot, PathOf, BackupTypeOK
<1>5. CASE RestoreOpen(p) \/ RestoreClear(p) \/ RestoreEntry(p)
  <2>1. (\E r : Stop(p, r)) \/ \E phase \in {"clear", "entries"} : Proceed(p, phase)
    BY <1>5 DEF RestoreOpen, RestoreClear, RestoreEntry, FirstChange
  <2>. QED
    BY <1>0, <2>1 DEF Stop, Proceed, IsSnapshot, PathOf, BackupTypeOK
<1>. QED
  BY <1>1, <1>2, <1>3, <1>4, <1>5 DEF AgentStep, Backup, BackupAgent, BackupStep, BackupStart

LEMMA FilesOK ==
    ASSUME CodecTypeOK, CoverInv, BackupInv, NEW p \in Agent, Backup(p), NEW f \in Paths
    PROVE  FileOK(f)' /\ WholeOK(f)'
<1>0. /\ AgentStep(p) /\ FileOK(f) /\ WholeOK(f) /\ moments \subseteq moments'
  BY GenomeSteps DEF BackupInv, AgentStep, AgentOK
<1>1. CASE ~IsSnapshot(p) \/ f # PathOf(p)
  <2>1. FileStays(f)
    BY <1>0, <1>1, FilesStay
  <2>. QED
    BY <1>0, <2>1, StillFile
<1>2. CASE IsSnapshot(p) /\ f = PathOf(p)
  <2>1. PathOf(p)' = f
    BY <1>0, <1>2, SnapshotPath
  <2>2. CASE SnapCount(p) \/ SnapRow(p)
    <3>1. FileStays(f)
      BY <2>2 DEF SnapCount, SnapRow, FileStays, historyVars, Backup, Follow
    <3>. QED
      BY <1>0, <3>1, StillFile
  <2>3. CASE SnapCreate(p) \/ SnapSelect(p) \/ SnapFlush(p) \/ SnapDone(p) \/ SnapAbort(p)
    <3>1. FileOK(PathOf(p))' /\ WholeOK(PathOf(p))'
      BY <2>3, CreateOK, SelectOK, FlushOK, DoneOK, AbortOK
    <3>. QED
      BY <2>1, <3>1 DEF FileOK, WholeOK, Keeps
  <2>4. CASE BackupStart(p)
    BY <1>2, <2>4 DEF BackupStart, SnapStart, RestoreStart, Launch, IsSnapshot
  <2>5. CASE RestoreOpen(p) \/ RestoreClear(p) \/ RestoreEntry(p) \/ RestoreRefuse(p)
             \/ RestoreDone(p) \/ RestoreTimeout(p) \/ RestoreKill(p)
    BY <1>2, <2>5 DEF RestoreOpen, RestoreClear, RestoreEntry, RestoreRefuse, RestoreDone,
                      RestoreTimeout, LockedOut, RestoreKill, IsSnapshot, IsRestore
  <2>. QED
    BY <2>2, <2>3, <2>4, <2>5 DEF Backup, BackupAgent, BackupStep
<1>. QED
  BY <1>1, <1>2

LEMMA CursorsKept ==
    ASSUME BackupInv, NEW p \in Agent, Backup(p)
    PROVE  CursorsOK'
<1>0. AgentStep(p) /\ BackupTypeOK /\ cursors' \subseteq cursors \union {p}
  <2>1. cursors' \subseteq cursors \union {p}
    BY DEF Backup, BackupAgent, BackupStep, BackupStart, SnapStart, RestoreStart, Launch, SnapCount,
           SnapCreate, SnapSelect, SnapRow, SnapFlush, SnapDone, SnapAbort, RestoreOpen,
           RestoreClear, RestoreEntry, RestoreRefuse, RestoreDone, RestoreTimeout, LockedOut, RestoreKill,
           genomeVars
  <2>. QED
    BY <2>1 DEF BackupInv, AgentStep
<1>1. \A q \in Agent : q \in cursors' /\ q # p => bpc'[q] = "rows"
  <2>. SUFFICES ASSUME NEW q \in Agent, q \in cursors', q # p PROVE bpc'[q] = "rows"
    OBVIOUS
  <2>1. q \in Agent \ {p} /\ q \in cursors
    BY <1>0
  <2>2. bpc'[q] = bpc[q]
    BY <1>0, <2>1, AgentStands DEF StandsBy
  <2>. QED
    BY <2>1, <2>2 DEF BackupInv, CursorsOK
<1>2. p \in cursors' => bpc'[p] = "rows"
  <2>1. CASE SnapDone(p)
    BY <2>1, DoneOK
  <2>2. CASE SnapSelect(p) \/ SnapRow(p) \/ SnapFlush(p) \/ SnapAbort(p)
    BY <1>0, <2>2 DEF SnapSelect, SnapRow, SnapFlush, SnapAbort, Proceed, BackupTypeOK, agentVars
  <2>3. CASE \/ BackupStart(p) \/ SnapCount(p) \/ SnapCreate(p)
             \/ RestoreOpen(p) \/ RestoreClear(p) \/ RestoreEntry(p) \/ RestoreRefuse(p)
             \/ RestoreDone(p) \/ RestoreTimeout(p) \/ RestoreKill(p)
    <3>1. bpc[p] # "rows" /\ cursors' = cursors
      BY <2>3 DEF BackupStart, SnapStart, RestoreStart, Launch, SnapCount, SnapCreate, RestoreOpen,
                  RestoreClear, RestoreEntry, RestoreRefuse, RestoreDone, RestoreTimeout, LockedOut,
                  RestoreKill, IsRestore, genomeVars
    <3>. QED
      BY <3>1 DEF BackupInv, CursorsOK
  <2>. QED
    BY <2>1, <2>2, <2>3 DEF Backup, BackupAgent, BackupStep
<1>. QED
  BY <1>1, <1>2 DEF CursorsOK

LEMMA ApartKept ==
    ASSUME BackupInv, NEW p \in Agent, Backup(p)
    PROVE  Apart'
<1>0. AgentStep(p) /\ Apart
  BY DEF BackupInv, AgentStep
<1>1. \A q \in Agent \ {p} : (IsSnapshot(q)' <=> IsSnapshot(q)) /\ PathOf(q)' = PathOf(q)
  BY <1>0, AgentStands DEF StandsBy, IsSnapshot, PathOf
<1>2. \A q \in Agent \ {p} : IsSnapshot(q)' /\ IsSnapshot(p)' => PathOf(q)' # PathOf(p)'
  <2>. SUFFICES ASSUME NEW q \in Agent \ {p}, IsSnapshot(q)', IsSnapshot(p)'
               PROVE  PathOf(q)' # PathOf(p)'
    OBVIOUS
  <2>1. IsSnapshot(q) /\ PathOf(q)' = PathOf(q)
    BY <1>1
  <2>2. CASE IsSnapshot(p)
    BY <1>0, <2>1, <2>2, SnapshotPath DEF Apart
  <2>3. CASE ~IsSnapshot(p)
    BY <1>0, <2>1, <2>3, SnapshotPath
  <2>. QED
    BY <2>2, <2>3
<1>. QED
  BY <1>0, <1>1, <1>2 DEF Apart

LEMMA HistoryKept ==
    ASSUME CodecTypeOK, CoverInv, BackupInv, NEW p \in Agent, Backup(p)
    PROVE  HistoryOK'
<1>0. HistoryOK /\ Follow(p) /\ PathOf(p) \in Paths
  BY DEF BackupInv, Backup, BackupTypeOK, PathOf
<1>1. /\ DOMAIN saved' = Paths
      /\ \A f \in Paths : saved'[f] = saved[f] \/ saved'[f] = SoundSeeds \/ saved'[f] = {}
  BY <1>0 DEF Follow, HistoryOK
<1>2. /\ DOMAIN due' = Agent
      /\ \A q \in Agent : due'[q] = due[q] \/ due'[q] = {} \/ due'[q] = saved[PathOf(p)]
  BY <1>0 DEF Follow, HistoryOK
<1>3. \A seed \in SoundSeeds : Sturdy(seed)
  BY SoundNeeds
<1>4. \A f \in Paths : \A seed \in saved[f] : Sturdy(seed)
  BY <1>0 DEF HistoryOK
<1>5. \A f \in Paths : \A seed \in saved'[f] : Sturdy(seed)
  BY <1>1, <1>3, <1>4
<1>6. \A q \in Agent : \A seed \in due'[q] : Sturdy(seed)
  BY <1>0, <1>2, <1>4 DEF HistoryOK
<1>7. \A seed : Sturdy(seed)' <=> Sturdy(seed)
  BY DEF Sturdy
<1>. QED
  BY <1>1, <1>2, <1>5, <1>6 DEF HistoryOK

LEMMA BackupKeeps ==
    ASSUME CodecTypeOK, CoverInv, BackupInv, NEW p \in Agent, Backup(p)
    PROVE  BackupInv'
<1>1. AgentStep(p) /\ AgentOK(p) /\ FileOK(PathOf(p))
  BY DEF BackupInv, AgentStep, BackupTypeOK, PathOf
<1>2. BackupTypeOK'
  BY <1>1, BackupTyped
<1>3. HistoryOK' /\ CursorsOK' /\ Apart'
  BY HistoryKept, CursorsKept, ApartKept
<1>4. \A f \in Paths : FileOK(f)' /\ WholeOK(f)'
  BY FilesOK
<1>5. \A q \in Agent : AgentOK(q)'
  BY OwnOK, OthersOK
<1>. QED
  BY <1>2, <1>3, <1>4, <1>5 DEF BackupInv

LEMMA BackupCodec ==
    ASSUME CodecTypeOK, CoverInv, BackupInv, NEW p \in Agent, Backup(p)
    PROVE  CodecTypeOK' /\ CoverInv'
<1>1. /\ genome' \in [Digest -> Row]
      /\ Grows \/ RestoreClear(p)
  <2>1. AgentStep(p) /\ RestoreOK(p)
    BY DEF BackupInv, AgentStep, AgentOK
  <2>. QED
    BY <2>1, GenomeSteps DEF Grows
<1>2. /\ UNCHANGED <<file, seeds, pc, job, draft, pos, held, missing, out, res,
                     started, edits, damages, crashes, versions, spoilt>>
      /\ exposed' = exposed \/ exposed' = Proc \union Seeds
      /\ RestoreClear(p) => exposed' = Proc \union Seeds
  <2>1. Follow(p)
    BY DEF Backup
  <2>2. RestoreClear(p) => bpc[p] = "clear" /\ bpc'[p] = "entries"
    BY DEF RestoreClear, Proceed, BackupInv, BackupTypeOK
  <2>. QED
    BY <2>1, <2>2 DEF Follow, codecOwnVars, diskVars, procVars, boundVars
<1>3. CodecTypeOK'
  BY <1>1, <1>2 DEF CodecTypeOK, IsSeed, Unreadable
<1>4. CASE exposed' = Proc \union Seeds
  <2>1. UNCHANGED <<draft, seeds>>
    BY <1>2
  <2>. QED
    BY <1>3, <1>4, <2>1 DEF CoverInv, IsSeed, Unreadable
<1>5. CASE Grows /\ exposed' = exposed
  <2>1. \A x \in Digest : genome[x] # Missing => genome'[x] # Missing
    BY <1>5 DEF Grows
  <2>. QED
    <3>1. UNCHANGED <<draft, seeds, exposed>> /\ pc' = pc
      BY <1>2, <1>5
    <3>. QED
      BY <1>3, <2>1, <3>1, CoverQuiet DEF IsSeed, Unreadable
<1>. QED
  BY <1>1, <1>2, <1>3, <1>4, <1>5

-----------------------------------------------------------------------------
(* The steps of commands and of the surroundings.                           *)

\* Nothing of the backups changes, but their ground may.
LEMMA QuietKeeps ==
    ASSUME BackupInv, UNCHANGED <<disk, agentVars, begun, moments, skewed, whole, saved, due>>,
           genome' \in [Digest -> Row], mishaps' \in Nat,
           (Grows /\ shaken' = shaken) \/ shaken' = Agent,
           \A q \in Agent : /\ q \in cursors' <=> q \in cursors
                            /\ q \in cursors => Stored' = Stored
    PROVE  BackupInv'
<1>1. UNCHANGED <<bpc, bjob, buf, left, got, bres>>
  BY DEF agentVars
<1>2. shaken' \subseteq Agent /\ shaken \subseteq shaken'
  BY DEF BackupInv, BackupTypeOK
<1>3. BackupTypeOK'
  BY <1>1, <1>2 DEF BackupInv, BackupTypeOK, GenomeTypeOK
<1>4. HistoryOK' /\ CursorsOK' /\ Apart'
  BY <1>1 DEF BackupInv, HistoryOK, Sturdy, CursorsOK, Apart, IsSnapshot, PathOf
<1>5. ASSUME NEW f \in Paths PROVE FileStays(f) /\ FileOK(f)' /\ WholeOK(f)'
  <2>1. FileStays(f)
    BY DEF FileStays
  <2>. QED
    BY <2>1, StillFile DEF BackupInv
<1>6. ASSUME NEW q \in Agent PROVE AgentOK(q)'
  <2>1. PathOf(q) \in Paths /\ BackupTypeOK /\ AgentOK(q)
    BY DEF BackupInv, BackupTypeOK, PathOf
  <2>2. StandsBy(q)
    BY <1>1, <1>2 DEF StandsBy
  <2>3. Reading(q) => InputStays(q)
    <3>1. Begins(disk[PathOf(q)], disk[PathOf(q)])
      BY DEF Begins
    <3>. QED
      BY <1>2, <2>1, <3>1 DEF AgentOK, RestoreOK, ReadOn, InputStays
  <2>4. IsSnapshot(q) => FileStays(PathOf(q)) /\ (q \in cursors => Stored' = Stored)
    BY <1>5, <2>1
  <2>. QED
    BY <2>1, <2>2, <2>3, <2>4, StillOK
<1>. QED
  BY <1>3, <1>4, <1>5, <1>6 DEF BackupInv

\* Commands wait for cursors before they change a row, and open none.
LEMMA CommandRows ==
    ASSUME CodecTypeOK, NEW p \in Proc, CommandStart(p) \/ CommandStep(p) \/ Stops(p)
    PROVE  cursors' = cursors /\ (genome' = genome \/ cursors \subseteq {p})
<1>1. CASE CommandStart(p)
  BY <1>1 DEF CommandStart, EncodeStart, PrimeStart, ReadStart, ReadTorn, genomeVars
<1>2. CASE LearnPut(p) \/ PrimePut(p)
  <2>1. CanCommit(p) /\ cursors' = cursors
    BY <1>2 DEF LearnPut, PrimePut, PutChunk
  <2>. QED
    BY <2>1 DEF CanCommit
<1>3. CASE IndexKnown(p) \/ IndexLearn(p) \/ IndexEmbed(p) \/ IndexRefuse(p) \/ IndexDone(p)
  BY <1>3 DEF IndexKnown, IndexLearn, IndexEmbed, IndexRefuse, IndexDone, genomeVars
<1>4. CASE ManifestStat(p) \/ ManifestHash(p) \/ SeedOpen(p) \/ SeedFlush(p) \/ PrimeDone(p)
  BY <1>4 DEF ManifestStat, ManifestHash, SeedOpen, SeedFlush, PrimeDone, genomeVars
<1>5. CASE WriteTimeout(p) \/ ResolveOk(p) \/ ResolveFail(p) \/ Finish(p) \/ Stops(p)
  BY <1>5, StopShape DEF WriteTimeout, ResolveOk, ResolveFail, Finish, genomeVars
<1>6. CASE CheckAvailable(p) \/ QuickDone(p) \/ StrictStart(p)
  BY <1>6 DEF CheckAvailable, QuickDone, StrictStart, genomeVars
<1>. QED
  BY <1>1, <1>2, <1>3, <1>4, <1>5, <1>6 DEF CommandStep

LEMMA CodecKeeps ==
    ASSUME WorkInv, NEW p \in Proc, Codec(p)
    PROVE  WorkInv'
<1>1. CodecTypeOK /\ CoverInv /\ BackupInv /\ CodecNext
  BY DEF WorkInv, Codec, CodecNext
<1>2. CodecTypeOK' /\ CoverInv'
  BY <1>1, CodecTypeStep, CoverStep
<1>3. Grows
  BY <1>1, StepOwn DEF Codec, Own, Stops
<1>4. cursors' = cursors /\ (genome' = genome \/ cursors \subseteq {p})
  BY <1>1, CommandRows DEF Codec, Stops
<1>5. \A q \in Agent : q \in cursors => Stored' = Stored
  BY <1>4, WorkspaceAssumption DEF Stored, HasChunk
<1>6. /\ UNCHANGED <<disk, agentVars, begun, moments, skewed, whole, saved, due>>
      /\ shaken' = shaken /\ mishaps' = mishaps
  BY DEF Codec, backupOwnVars, recoveryVars, historyVars
<1>7. genome' \in [Digest -> Row] /\ mishaps' \in Nat
  BY <1>1, <1>2, <1>6 DEF CodecTypeOK, BackupInv, BackupTypeOK
<1>8. BackupInv'
  BY <1>1, <1>3, <1>4, <1>5, <1>6, <1>7, QuietKeeps
<1>. QED
  BY <1>2, <1>8 DEF WorkInv

LEMMA ReaderKeeps ==
    ASSUME WorkInv, NEW r \in Readers, Reader(r)
    PROVE  WorkInv'
<1>1. CodecTypeOK /\ CoverInv /\ BackupInv /\ CodecNext
  BY DEF WorkInv, Reader, CodecNext
<1>2. CodecTypeOK' /\ CoverInv'
  BY <1>1, CodecTypeStep, CoverStep
<1>3. /\ UNCHANGED <<disk, agentVars, begun, moments, skewed, whole, saved, due>>
      /\ shaken' = shaken /\ mishaps' = mishaps /\ genome' = genome
      /\ cursors' \in {cursors \union {r}, cursors \ {r}}
  BY DEF Reader, ReaderOpens, ReaderCloses, backupOwnVars, recoveryVars, historyVars
<1>4. \A q \in Agent : q \in cursors' <=> q \in cursors
  BY <1>3, WorkspaceAssumption
<1>5. Grows /\ Stored' = Stored /\ genome' \in [Digest -> Row] /\ mishaps' \in Nat
  BY <1>1, <1>2, <1>3 DEF Grows, Stored, HasChunk, CodecTypeOK, BackupInv, BackupTypeOK
<1>6. BackupInv'
  BY <1>1, <1>3, <1>4, <1>5, QuietKeeps
<1>. QED
  BY <1>2, <1>6 DEF WorkInv

\* What was begun before the genome was damaged is promised nothing.
LEMMA ExposedCodec ==
    ASSUME CodecTypeOK, CoverInv, UNCHANGED codecOwnVars, genome' \in [Digest -> Row],
           \/ exposed' = Proc \union Seeds
           \/ exposed' = exposed /\ genome' = genome
    PROVE  CodecTypeOK' /\ CoverInv'
<1>1. UNCHANGED <<file, seeds, pc, job, draft, pos, held, missing, out, res,
                  started, edits, damages, crashes, versions, spoilt>>
  BY DEF codecOwnVars, diskVars, procVars, boundVars
<1>2. CodecTypeOK'
  BY <1>1 DEF CodecTypeOK, IsSeed, Unreadable
<1>3. UNCHANGED <<draft, seeds>> /\ pc' = pc
  BY <1>1
<1>4. CASE exposed' = Proc \union Seeds
  BY <1>2, <1>3, <1>4 DEF CoverInv, IsSeed, Unreadable
<1>5. CASE exposed' = exposed /\ genome' = genome
  BY <1>2, <1>3, <1>5, CoverQuiet DEF IsSeed, Unreadable
<1>. QED
  BY <1>2, <1>4, <1>5

LEMMA DamageKeeps ==
    ASSUME WorkInv, Disaster \/ (Decay /\ exposed' = Proc \union Seeds),
           UNCHANGED <<codecOwnVars, recoveryVars>>
    PROVE  WorkInv'
<1>1. BackupInv /\ BackupTypeOK /\ genome \in [Digest -> Row] /\ mishaps \in Nat
  BY DEF WorkInv, BackupInv, BackupTypeOK, GenomeTypeOK
<1>2. /\ UNCHANGED <<disk, agentVars, begun, cursors, moments, skewed, whole, saved, due>>
      /\ mishaps' = mishaps + 1 /\ shaken' = Agent
      /\ exposed' = Proc \union Seeds
  BY DEF Disaster, Lose, Decay, RotRow, Mishap, recoveryVars
<1>3. genome' \in [Digest -> Row] /\ (Stored' = Stored \/ cursors = {})
  <2>1. CASE Disaster
    <3>1. genome' = EmptyGenome /\ cursors = {}
      BY <2>1 DEF Disaster, Lose
    <3>. QED
      BY <3>1 DEF EmptyGenome, Row
  <2>2. CASE Decay
    <3>1. PICK d \in Digest, c \in Content : HasChunk(d) /\ genome' = [genome EXCEPT ![d] = c]
      BY <2>2 DEF Decay, RotRow
    <3>2. c # Missing
      BY ShaAssumption
    <3>. QED
      BY <1>1, <3>1, <3>2 DEF Stored, HasChunk, Row
  <2>. QED
    BY <2>1, <2>2
<1>4. BackupInv'
  BY <1>1, <1>2, <1>3, QuietKeeps
<1>5. CodecTypeOK' /\ CoverInv'
  BY <1>2, <1>3, ExposedCodec DEF WorkInv
<1>. QED
  BY <1>4, <1>5 DEF WorkInv

\* A file that has lost its tail.
LEMMA CutFile ==
    ASSUME BackupInv, NEW f \in Paths, Truncate(f), UNCHANGED recoveryVars
    PROVE  /\ disk'[f] \in Seq(Item) /\ DOMAIN disk' = Paths
           /\ \A g \in Paths \ {f} : disk'[g] = disk[g]
           /\ FileOK(f)' /\ WholeOK(f)'
<1>1. disk[f] \in Seq(Item) /\ FileOK(f) /\ disk[f] # NoFile /\ DOMAIN disk = Paths
  BY DEF BackupInv, BackupTypeOK, Truncate
<1>2. PICK n \in 0..Len(disk[f]) - 1 :
        \/ disk' = [disk EXCEPT ![f] = SubSeq(@, 1, n)]
        \/ disk' = [disk EXCEPT ![f] = Append(SubSeq(@, 1, n), Cut)]
  BY DEF Truncate
<1>. DEFINE items == disk[f]
            a == SubSeq(items, 1, n)
<1>3. a \in Seq(Item) /\ Begins(a, items) /\ Len(a) = n
  <2>1. n \in 0..Len(items)
    BY <1>1
  <2>. QED
    BY <1>1, <2>1, FirstItems
<1>4. disk'[f] = a \/ disk'[f] = Append(a, Cut)
  BY <1>1, <1>2
<1>5. DOMAIN disk' = Paths /\ \A g \in Paths \ {f} : disk'[g] = disk[g]
  BY <1>1, <1>2
<1>6. /\ UNCHANGED <<moments, skewed, saved>> /\ f \notin whole'
  BY DEF Truncate, Mishap, recoveryVars
<1>. HIDE DEF a
<1>7. Cut \in Item /\ Cut.kind # "row"
  BY ItemKinds
<1>8. disk'[f] \in Seq(Item)
  <2>. HIDE DEF items
  <2>1. Append(a, Cut) \in Seq(Item)
    BY <1>3, <1>7
  <2>. QED
    BY <1>3, <1>4, <2>1
<1>9. \A M : Part(items, M) => Part(disk'[f], M)
  <2>1. \A M : Part(items, M) => Part(a, M)
    BY <1>1, <1>3, PrefixPart
  <2>2. \A M : Part(a, M) => Part(Append(a, Cut), M)
    BY <1>3, <1>7, AppendPart
  <2>. QED
    BY <1>4, <2>1, <2>2
<1>10. disk'[f] # <<>> => disk'[f][1] = Cut \/ (items # <<>> /\ disk'[f][1] = items[1])
  <2>1. CASE a = <<>>
    BY <1>4, <2>1
  <2>2. CASE a # <<>>
    <3>1. items # <<>> /\ a[1] = items[1] /\ Append(a, Cut)[1] = a[1]
      BY <1>1, <1>3, <1>7, <2>2, PrefixPart
    <3>. QED
      BY <1>4, <3>1
  <2>. QED
    BY <2>1, <2>2
<1>11. \A M : Keeps(M, f)' <=> Keeps(M, f)
  BY <1>6 DEF Keeps
<1>12. FileOK(f)'
  BY <1>1, <1>6, <1>9, <1>10, <1>11 DEF FileOK, HasHeader
<1>. QED
  BY <1>5, <1>6, <1>8, <1>12 DEF WholeOK

LEMMA TruncateKeeps ==
    ASSUME WorkInv, NEW f \in Paths, Truncate(f), UNCHANGED <<codecOwnVars, recoveryVars, exposed>>
    PROVE  WorkInv'
<1>0. BackupInv /\ BackupTypeOK
  BY DEF WorkInv, BackupInv
<1>1. /\ disk'[f] \in Seq(Item) /\ DOMAIN disk' = Paths
      /\ \A g \in Paths \ {f} : disk'[g] = disk[g]
      /\ FileOK(f)' /\ WholeOK(f)'
  BY <1>0, CutFile DEF recoveryVars
<1>2. /\ UNCHANGED <<genome, cursors, shaken, begun, moments, skewed, saved, due>>
      /\ whole' = whole \ {f} /\ mishaps' = mishaps + 1
  BY DEF Truncate, Mishap, genomeVars, recoveryVars
<1>3. UNCHANGED <<bpc, bjob, buf, left, got, bres>>
  BY DEF Truncate, Mishap, agentVars
<1>4. BackupTypeOK'
  <2>1. \A g \in Paths : disk'[g] = NoFile \/ disk'[g] \in Seq(Item)
    BY <1>0, <1>1 DEF BackupTypeOK
  <2>2. whole' \subseteq Paths /\ mishaps' \in Nat
    BY <1>0, <1>2 DEF BackupTypeOK
  <2>. QED
    BY <1>0, <1>1, <1>2, <1>3, <2>1, <2>2 DEF BackupTypeOK, GenomeTypeOK
<1>5. HistoryOK' /\ CursorsOK' /\ Apart'
  BY <1>0, <1>2, <1>3 DEF BackupInv, HistoryOK, Sturdy, CursorsOK, Apart, IsSnapshot, PathOf
<1>6. \A g \in Paths \ {f} : FileStays(g)
  BY <1>1, <1>2 DEF FileStays
<1>7. \A g \in Paths : FileOK(g)' /\ WholeOK(g)'
  BY <1>0, <1>1, <1>2, <1>6, StillFile DEF BackupInv
<1>8. ASSUME NEW q \in Agent PROVE AgentOK(q)'
  <2>1. AgentOK(q) /\ PathOf(q) \in Paths
    BY <1>0 DEF BackupInv, BackupTypeOK, PathOf
  <2>2. bpc[q] # "idle" => FileStays(PathOf(q))
    BY <1>6, <2>1 DEF Truncate
  <2>3. StandsBy(q)
    BY <1>2, <1>3 DEF StandsBy
  <2>4. Reading(q) => InputStays(q)
    <3>1. Begins(disk[PathOf(q)], disk[PathOf(q)])
      BY DEF Begins
    <3>. QED
      BY <1>2, <2>1, <2>2, <3>1 DEF AgentOK, RestoreOK, ReadOn, Reading, InputStays, FileStays
  <2>5. IsSnapshot(q) => FileStays(PathOf(q)) /\ Stored' = Stored
    BY <1>2, <2>2 DEF IsSnapshot, Stored, HasChunk
  <2>6. Grows
    BY <1>2 DEF Grows
  <2>. QED
    BY <1>0, <1>2, <2>1, <2>3, <2>4, <2>5, <2>6, StillOK
<1>9. BackupInv'
  BY <1>4, <1>5, <1>7, <1>8 DEF BackupInv
<1>10. CodecTypeOK' /\ CoverInv'
  <2>1. genome' = genome /\ genome \in [Digest -> Row]
    BY <1>0, <1>2 DEF BackupTypeOK, GenomeTypeOK
  <2>. QED
    BY <2>1, ExposedCodec DEF WorkInv
<1>. QED
  BY <1>9, <1>10 DEF WorkInv

LEMMA WorkInit == WorkspaceInit => WorkInv
<1>. SUFFICES ASSUME WorkspaceInit PROVE WorkInv
  OBVIOUS
<1>1. CodecTypeOK /\ CoverInv
  BY CodecTypeInit, CoverInit DEF WorkspaceInit
<1>2. BackupInit
  BY DEF WorkspaceInit
<1>3. \A p \in Agent : bpc[p] = "idle" /\ bres[p] = "none"
  BY <1>2 DEF BackupInit
<1>4. \A p \in Agent : AgentOK(p)
  BY <1>3 DEF AgentOK, Fresh, SnapOK, RestoreOK, Reading, Recovered, IsSnapshot
<1>5. \A f \in Paths : FileOK(f) /\ WholeOK(f)
  BY <1>2 DEF BackupInit, FileOK, WholeOK
<1>6. BackupTypeOK
  <2>1. (CHOOSE f \in Paths : TRUE) \in Paths
    BY BackupAssumption
  <2>2. genome \in [Digest -> Row]
    BY <1>2 DEF BackupInit, GenomeInit, EmptyGenome, Row
  <2>3. /\ bpc \in [Agent -> BackupPhase] /\ bres \in [Agent -> BackupResult]
        /\ bjob \in [Agent -> [path : Paths, replace : BOOLEAN]]
    BY <1>2, <2>1 DEF BackupInit, BackupPhase, BackupResult
  <2>4. buf \in [Agent -> Seq(Item)] /\ left \in [Agent -> Nat] /\ got \in [Agent -> SUBSET Digest]
    <3>1. <<>> \in Seq(Item)
      OBVIOUS
    <3>. QED
      BY <1>2, <3>1 DEF BackupInit
  <2>. QED
    BY <1>2, <2>2, <2>3, <2>4 DEF BackupInit, BackupTypeOK
<1>7. HistoryOK /\ CursorsOK /\ Apart
  BY <1>2, <1>3 DEF WorkspaceInit, BackupInit, GenomeInit, HistoryOK, CursorsOK, Apart, IsSnapshot
<1>. QED
  BY <1>1, <1>4, <1>5, <1>6, <1>7 DEF WorkInv, BackupInv

LEMMA WorkStep == WorkInv /\ [WorkspaceNext]_workspaceVars => WorkInv'
<1>. SUFFICES ASSUME WorkInv, [WorkspaceNext]_workspaceVars PROVE WorkInv'
  OBVIOUS
<1>1. ASSUME NEW p \in Proc, Codec(p) PROVE WorkInv'
  BY <1>1, CodecKeeps
<1>2. ASSUME NEW p \in Agent, Backup(p) PROVE WorkInv'
  BY <1>2, BackupKeeps, BackupCodec DEF WorkInv
<1>3. CASE Disaster
  BY <1>3, DamageKeeps DEF Disaster
<1>4. CASE Wear
  <2>1. CASE Decay /\ exposed' = Proc \union Seeds
    BY <1>4, <2>1, DamageKeeps DEF Wear
  <2>2. ASSUME NEW f \in Paths, Truncate(f), UNCHANGED exposed PROVE WorkInv'
    BY <1>4, <2>2, TruncateKeeps DEF Wear
  <2>. QED
    BY <1>4, <2>1, <2>2 DEF Wear
<1>5. CASE UNCHANGED workspaceVars
  <2>1. /\ UNCHANGED <<codecVars, backupOwnVars, recoveryVars>>
    BY <1>5 DEF workspaceVars
  <2>2. CodecTypeOK' /\ CoverInv'
    BY <2>1, CodecTypeStep, CoverStep DEF WorkInv
  <2>3. /\ UNCHANGED <<disk, agentVars, begun, moments, skewed, whole, saved, due>>
        /\ shaken' = shaken /\ mishaps' = mishaps /\ UNCHANGED <<genome, cursors>>
    BY <2>1 DEF backupOwnVars, recoveryVars, historyVars, codecVars, genomeVars
  <2>4. Grows /\ Stored' = Stored /\ genome' \in [Digest -> Row] /\ mishaps' \in Nat
    BY <2>3 DEF Grows, Stored, HasChunk, WorkInv, BackupInv, BackupTypeOK, GenomeTypeOK
  <2>5. BackupInv'
    BY <2>3, <2>4, QuietKeeps DEF WorkInv
  <2>. QED
    BY <2>2, <2>5 DEF WorkInv
<1>6. ASSUME NEW r \in Readers, Reader(r) PROVE WorkInv'
  BY <1>6, ReaderKeeps
<1>. QED
  BY <1>1, <1>2, <1>3, <1>4, <1>5, <1>6 DEF WorkspaceNext

-----------------------------------------------------------------------------
(* What backups promise.                                                    *)

\* Every variable has its type, seeds stay covered, and files, snapshots and
\* restores stay what they were when they are disturbed, whatever commands,
\* backups, losses and cut copies there are.
THEOREM WorkspaceInvariant == WorkspaceSpec => []WorkInv
BY WorkInit, WorkStep, PTL DEF WorkspaceSpec

\* All or nothing: a restore that reports success has brought back what the
\* genome held at one SELECT of a snapshot.  The header's count, the refusal of
\* whatever follows the last entry and the order of the rows leave no room for
\* less, however the file was cut, rewritten or left by a killed snapshot.
THEOREM RestoresAllOrNothing == WorkspaceSpec => []AllOrNothing
<1>1. WorkInv => AllOrNothing
  BY DEF WorkInv, BackupInv, AgentOK, Recovered, AllOrNothing, Restored
<1>. QED
  BY <1>1, WorkspaceInvariant, PTL

\* What a successful restore reported is in the genome, and intact after
\* --replace, while commands and other backups use it.
THEOREM RestoresCover == WorkspaceSpec => []RestoreCovers
<1>1. WorkInv => RestoreCovers
  BY DEF WorkInv, BackupInv, AgentOK, Recovered, RestoreCovers, Restored
<1>. QED
  BY <1>1, WorkspaceInvariant, PTL

\* A completed snapshot holds the rows of one moment, and restore accepts it
\* exactly when its header is not askew, no row of it is rotten and no payload
\* is over the limit: all three can happen, and nothing else can go wrong.
THEOREM SnapshotsRestorable == WorkspaceSpec => []SnapshotRestorable
<1>1. WorkInv => SnapshotRestorable
  <2>. SUFFICES ASSUME WorkInv, NEW f \in whole
               PROVE  /\ DigestsOf(disk[f]) \in moments
                      /\ Acceptable(disk[f]) <=>
                            /\ f \notin skewed
                            /\ \A i \in RowsOf(disk[f]) :
                                    /\ Sha[disk[f][i].data] = disk[f][i].hash
                                    /\ disk[f][i].data \notin Oversize
    BY DEF SnapshotRestorable
  <2>1. f \in Paths /\ FileOK(f) /\ WholeOK(f)
    BY DEF WorkInv, BackupInv, BackupTypeOK
  <2>. DEFINE items == disk[f]
              n == Len(items)
  <2>2. /\ items \in Seq(Item) /\ HasHeader(items) /\ AllRows(items)
        /\ DigestsOf(items) \in moments
        /\ f \in skewed <=> items[1].count # n - 1
    BY <2>1 DEF WholeOK
  <2>3. n \in Nat /\ n >= 1 /\ items[1].kind = "head" /\ items[1].count \in Nat
    <3>1. items # <<>> /\ items[1] # Cut /\ items # NoFile
      BY <2>2, NoFileAssumption DEF HasHeader
    <3>2. items[1].kind = "head"
      BY <2>1, <3>1 DEF FileOK
    <3>. QED
      BY <2>2, <3>1, <3>2, ItemKinds
  <2>4. RowsOf(items) = 2..n
    BY <2>2, <2>3 DEF RowsOf, AllRows
  <2>5. \A i \in 2..n :
            GoodRow(items[i]) <=> Sha[items[i].data] = items[i].hash /\ items[i].data \notin Oversize
    BY <2>2 DEF GoodRow, AllRows
  <2>6. n = items[1].count + 1 <=> f \notin skewed
    BY <2>2, <2>3
  <2>. HIDE DEF items
  <2>. QED
    BY <2>2, <2>4, <2>5, <2>6 DEF Acceptable, items
<1>. QED
  BY <1>1, WorkspaceInvariant, PTL

\* A restore that nobody disturbed refuses only what no restore may accept: it
\* stays in step with the file, entry by entry, while others learn, snapshot
\* and restore beside it.
THEOREM RefusalsJustified == WorkspaceSpec => RefusedForCause
<1>. DEFINE Justified ==
              \A p \in Agent :
                /\ IsRestore(p) /\ bpc'[p] = "idle" /\ bres'[p] = "refused"
                /\ PathOf(p) \in whole /\ p \notin shaken
                => ~Acceptable(disk[PathOf(p)])
<1>1. WorkInv /\ [WorkspaceNext]_workspaceVars => Justified
  <2>. SUFFICES ASSUME WorkInv, [WorkspaceNext]_workspaceVars, NEW p \in Agent,
                      IsRestore(p), bpc'[p] = "idle", bres'[p] = "refused", p \notin shaken,
                      Acceptable(disk[PathOf(p)])
               PROVE  FALSE
    OBVIOUS
  <2>1. Backup(p)
    <3>1. bpc'[p] # bpc[p]
      BY DEF IsRestore
    <3>2. ASSUME NEW q \in Agent \ {p}, Backup(q) PROVE FALSE
      BY <3>1, <3>2, AgentStands DEF WorkInv, BackupInv, AgentStep, StandsBy
    <3>. QED
      BY <3>1, <3>2 DEF WorkspaceNext, Codec, Reader, Disaster, Wear, Lose, Decay, Truncate, Mishap,
                        workspaceVars, backupOwnVars, agentVars
  <2>2. BackupTypeOK /\ RestoreOK(p)
    BY DEF WorkInv, BackupInv, AgentOK
  <2>3. RestoreOpen(p) \/ RestoreRefuse(p)
    <3>1. ASSUME NEW r, Stop(p, r) PROVE r = "refused"
      BY <2>2, <3>1 DEF Stop, BackupTypeOK
    <3>2. ASSUME NEW phase, Proceed(p, phase), phase # "idle" PROVE FALSE
      BY <2>2, <3>2 DEF Proceed, BackupTypeOK
    <3>3. ~(BackupStart(p) \/ SnapFlush(p) \/ SnapCount(p) \/ SnapCreate(p) \/ SnapSelect(p)
            \/ SnapRow(p) \/ SnapDone(p) \/ SnapAbort(p))
      BY DEF BackupStart, SnapStart, RestoreStart, Launch, SnapFlush, SnapCount, SnapCreate,
             SnapSelect, SnapRow, SnapDone, SnapAbort, IsSnapshot, IsRestore
    <3>4. ~(RestoreClear(p) \/ RestoreEntry(p))
      BY <3>2 DEF RestoreClear, RestoreEntry
    <3>5. ~(RestoreDone(p) \/ RestoreTimeout(p) \/ RestoreKill(p))
      BY <3>1 DEF RestoreDone, RestoreTimeout, RestoreKill
    <3>. QED
      BY <2>1, <3>3, <3>4, <3>5 DEF Backup, BackupAgent, BackupStep
  <2>4. CASE RestoreOpen(p)
    <3>1. ASSUME NEW r, Stop(p, r) PROVE r = "refused"
      BY <2>2, <3>1 DEF Stop, BackupTypeOK
    <3>2. ASSUME Proceed(p, FirstChange(p)) PROVE FALSE
      BY <2>2, <3>2 DEF Proceed, FirstChange, BackupTypeOK
    <3>. QED
      BY <2>4, <3>1, <3>2 DEF RestoreOpen, Acceptable
  <2>5. CASE RestoreRefuse(p)
    <3>. DEFINE items == disk[PathOf(p)]
    <3>1. ReadOn(p)
      BY <2>2, <2>5 DEF RestoreOK, RestoreRefuse, Reading
    <3>2. /\ items \in Seq(Item) /\ buf[p] \in Seq(Item) /\ buf[p] # <<>> /\ left[p] \in Nat
          /\ items[1].count = left[p] + Len(buf[p]) - 1 /\ Len(items) = items[1].count + 1
          /\ \A i \in 2..Len(items) : GoodRow(items[i])
      BY <2>2, <2>5, <3>1 DEF ReadOn, RestoreOK, RestoreRefuse, Reading, Acceptable, BackupTypeOK
    <3>3. Len(items) = left[p] + Len(buf[p]) /\ Len(buf[p]) \in Nat \ {0}
      BY <3>2
    <3>4. left[p] > 0 => ~AtEnd(p) /\ Len(buf[p]) + 1 \in 2..Len(items)
      BY <3>2, <3>3 DEF AtEnd
    <3>5. left[p] > 0 => GoodEntry(p)
      BY <3>2, <3>4 DEF GoodEntry, NextItem
    <3>6. left[p] = 0 => AtEnd(p)
      BY <3>3 DEF AtEnd
    <3>. QED
      BY <2>5, <3>5, <3>6 DEF RestoreRefuse
  <2>. QED
    BY <2>3, <2>4, <2>5
<1>2. Justified => [Justified]_backupVars
  OBVIOUS
<1>. QED
  BY <1>1, <1>2, WorkspaceInvariant, PTL DEF WorkspaceSpec, RefusedForCause

LEMMA SturdyResolves ==
    ASSUME NEW seed, Sturdy(seed), Needs(seed) \subseteq Stored
    PROVE  Resolvable(seed)
<1>. SUFFICES ASSUME NEW i \in 1..Len(seed.ops)
             PROVE  \/ Intact(seed, i)
                    \/ seed.ops[i].code = "REF" /\ OpDigest(seed, i) \in RottenRows
  BY DEF Resolvable
<1>. DEFINE k == seed.ops[i].index
            d == seed.table[k]
<1>1. SeedTypeOK(seed) /\ RawGenuine(seed)
  BY DEF Sturdy
<1>2. /\ k \in 1..Len(seed.table) /\ seed.ops[i].code \in {"REF", "RAW"}
      /\ OpDigest(seed, i) = d
  <2>1. seed.ops[i] \in Op /\ k \in 1..Len(seed.table)
    BY <1>1 DEF SeedTypeOK, Seed
  <2>. QED
    BY <2>1 DEF Op, OpDigest
<1>3. CASE seed.ops[i].code = "RAW"
  <2>1. seed.raw[k] # Missing /\ Sha[seed.raw[k]] = d
    BY <1>1, <1>2, <1>3 DEF Sturdy, RawGenuine
  <2>2. Resolve(seed, i) = seed.raw[k]
    BY <1>3, <2>1 DEF Resolve, FirstFound
  <2>. QED
    BY <1>2, <2>1, <2>2 DEF Intact
<1>4. CASE seed.ops[i].code = "REF"
  <2>1. d \in Stored
    BY <1>2, <1>4 DEF Needs
  <2>2. genome[d] # Missing /\ Resolve(seed, i) = genome[d]
    BY <1>4, <2>1 DEF Stored, HasChunk, Resolve, FirstFound, GetChunk
  <2>. QED
    BY <1>2, <1>4, <2>1, <2>2 DEF Intact, RottenRows
<1>. QED
  BY <1>2, <1>3, <1>4

\* The seeds that were sound when a snapshot was taken resolve again after a
\* successful restore of it, whatever happened to the genome in between: every
\* row they need was there at the SELECT, and the restore brings all of it back.
THEOREM SeedsSurviveLoss == WorkspaceSpec => []SeedsSurvive
<1>1. WorkInv => SeedsSurvive
  <2>. SUFFICES ASSUME WorkInv, NEW p \in Agent, bpc[p] = "idle", bres[p] = "ok",
                      p \notin shaken \union skewed, NEW seed \in due[p]
               PROVE  Resolvable(seed)
    BY DEF SeedsSurvive
  <2>1. Sturdy(seed) /\ Needs(seed) \subseteq Stored
    BY DEF WorkInv, BackupInv, HistoryOK, AgentOK, Recovered
  <2>. QED
    BY <2>1, SturdyResolves
<1>. QED
  BY <1>1, WorkspaceInvariant, PTL

\* No command and no backup takes a row away but a restore --replace that has
\* read a valid header: whatever else removes one is the loss of the database.
THEOREM RowsStay == WorkspaceSpec => RowsLeaveByReplace
<1>. DEFINE Leaves == (\E d \in Stored : genome'[d] # genome[d]) =>
                        \/ mishaps' # mishaps
                        \/ \E p \in Agent : /\ bpc[p] = "clear" /\ bjob[p].replace
                                             /\ Len(buf[p]) = 1 /\ genome' = EmptyGenome
<1>1. WorkInv /\ [WorkspaceNext]_workspaceVars => Leaves
  <2>. SUFFICES ASSUME WorkInv, [WorkspaceNext]_workspaceVars PROVE Leaves
    OBVIOUS
  <2>0. Grows => \A d \in Stored : genome'[d] = genome[d]
    BY DEF Grows, Stored, HasChunk
  <2>1. ASSUME NEW p \in Proc, Codec(p) PROVE Leaves
    <3>1. Grows
      BY <2>1, StepOwn DEF Codec, Own, WorkInv, Stops
    <3>. QED
      BY <2>0, <3>1
  <2>2. ASSUME NEW p \in Agent, Backup(p) PROVE Leaves
    <3>1. AgentStep(p) /\ RestoreOK(p)
      BY <2>2 DEF WorkInv, BackupInv, AgentStep, AgentOK
    <3>2. CASE Grows \/ genome' = genome
      BY <2>0, <3>2
    <3>3. CASE RestoreClear(p) /\ genome' = EmptyGenome
      BY <3>1, <3>3 DEF RestoreClear, RestoreOK, Reading
    <3>. QED
      BY <3>1, <3>2, <3>3, GenomeSteps
  <2>3. CASE Disaster \/ Wear
    <3>1. mishaps' = mishaps + 1 /\ mishaps \in Nat
      BY <2>3 DEF Disaster, Lose, Wear, Decay, Truncate, Mishap, WorkInv, BackupInv, BackupTypeOK
    <3>. QED
      BY <3>1
  <2>4. CASE UNCHANGED workspaceVars
    BY <2>4 DEF workspaceVars, codecVars, genomeVars
  <2>5. ASSUME NEW r \in Readers, Reader(r) PROVE Leaves
    BY <2>5 DEF Reader, ReaderOpens, ReaderCloses
  <2>. QED
    BY <2>1, <2>2, <2>3, <2>4, <2>5 DEF WorkspaceNext
<1>2. Leaves => [Leaves]_backupVars
  OBVIOUS
<1>. QED
  BY <1>1, <1>2, WorkspaceInvariant, PTL DEF WorkspaceSpec, RowsLeaveByReplace
=============================================================================
