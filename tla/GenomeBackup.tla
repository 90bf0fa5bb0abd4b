----------------------------- MODULE GenomeBackup ----------------------------
(***************************************************************************)
(* Disaster recovery of the genome: snapshot_genome and restore_genome of  *)
(* src/seedbraid/codec.py, over SGS1 snapshot files.                       *)
(*                                                                         *)
(* A snapshot file is the sequence of the items written to it, a header    *)
(* with the announced number of rows and then the rows; where a write was  *)
(* cut inside an item, the file ends with Cut.  The writer buffers, so the *)
(* file lags behind what has been written until it is closed.              *)
(***************************************************************************)
EXTENDS GenomeStore, Sequences

CONSTANTS
    Agent,          \* processes running snapshot or restore
    Paths,          \* paths of snapshot files
    Oversize,       \* payloads over MAX_CHUNK_SIZE
    NoFile,         \* a path where there is no file
    MaxBackups,     \* bound on commands started
    MaxMishaps      \* bound on kills, I/O errors, losses and decay

ASSUME BackupAssumption ==
    /\ Oversize \subseteq Content
    /\ Paths # {} /\ Agent \intersect Paths = {}
    /\ IsFiniteSet(Digest)
    /\ MaxBackups \in Nat /\ MaxMishaps \in Nat

VARIABLES
    disk,       \* snapshot path -> the items on disk, or NoFile
    bpc,        \* agent -> what it does next
    bjob,       \* agent -> its path and the flag --replace
    buf,        \* agent -> items a snapshot has written
    left,       \* agent -> rows announced (snapshot) or still to read (restore)
    got,        \* agent -> digests a restore has put or skipped
    bres,       \* agent -> how its last command ended
    begun, mishaps,     \* counters of the bounds
    moments,    \* history: the digests stored at each SELECT of a snapshot
    shaken,     \* history: agents that lost rows, or whose input was rewritten,
                \* since they began
    skewed,     \* history: paths whose header announces another number of rows
                \* than the SELECT found, and agents that restore from them
    whole       \* history: paths left as a completed snapshot wrote them

agentVars == <<bpc, bjob, buf, left, got, bres>>
historyVars == <<moments, shaken, skewed, whole>>
backupVars == <<genomeVars, disk, agentVars, begun, mishaps, historyVars>>

-----------------------------------------------------------------------------
(* Snapshot files.                                                          *)

Header(n) == [kind |-> "head", count |-> n]
RowItem(d, c) == [kind |-> "row", hash |-> d, data |-> c]
Cut == [kind |-> "cut"]

Item == [kind : {"head"}, count : Nat]
          \union [kind : {"row"}, hash : Digest, data : Content] \union {Cut}

\* A file that does not exist is no empty file.
ASSUME NoFileAssumption == NoFile \notin Seq(Item)

HasHeader(items) == items # <<>> /\ items[1] # Cut

\* Faulty variant: the payload is not hashed.
GoodRowUnhashed(item) ==
    /\ item.kind = "row"
    /\ item.data \notin Oversize

\* What restore accepts as an entry.
GoodRow(item) ==
    /\ item.kind = "row"
    /\ item.data \notin Oversize
    /\ Sha[item.data] = item.hash

RowsOf(items) == {i \in 1..Len(items) : items[i].kind = "row"}
DigestsOf(items) == {items[i].hash : i \in RowsOf(items)}

-----------------------------------------------------------------------------
BackupPhase == {"idle", "count", "create", "select", "rows",
                "header", "clear", "entries"}
BackupResult == {"none", "ok", "failed", "refused", "locked", "killed"}

Launch(p, phase, path, replace) ==
    /\ bpc[p] = "idle"
    /\ begun < MaxBackups
    /\ begun' = begun + 1
    /\ bpc' = [bpc EXCEPT ![p] = phase]
    /\ bjob' = [bjob EXCEPT ![p] = [path |-> path, replace |-> replace]]
    /\ buf' = [buf EXCEPT ![p] = <<>>]
    /\ left' = [left EXCEPT ![p] = 0]
    /\ got' = [got EXCEPT ![p] = {}]
    /\ bres' = [bres EXCEPT ![p] = "none"]
    /\ shaken' = shaken \ {p}
    /\ UNCHANGED <<genomeVars, disk, mishaps, moments, skewed, whole>>

Stop(p, r) ==
    /\ bpc' = [bpc EXCEPT ![p] = "idle"]
    /\ bres' = [bres EXCEPT ![p] = r]
    /\ UNCHANGED <<bjob, buf, left, got, begun>>

Proceed(p, phase) ==
    /\ bpc' = [bpc EXCEPT ![p] = phase]
    /\ UNCHANGED <<bjob, bres, begun>>

PathOf(p) == bjob[p].path
IsSnapshot(p) == bpc[p] \in {"count", "create", "select", "rows"}
IsRestore(p) == bpc[p] \in {"header", "clear", "entries"}

-----------------------------------------------------------------------------
(* snapshot_genome.                                                         *)

\* Two snapshots are never written to the same path at once.
SnapStart(p) ==
    \E f \in Paths :
        /\ \A q \in Agent : IsSnapshot(q) => PathOf(q) # f
        /\ Launch(p, "count", f, FALSE)

\* count_chunks, before the file exists and outside any transaction.
SnapCount(p) ==
    /\ bpc[p] = "count"
    /\ left' = [left EXCEPT ![p] = CountChunks]
    /\ Proceed(p, "create")
    /\ UNCHANGED <<genomeVars, disk, buf, got, mishaps, historyVars>>

\* open("wb") empties the file under whoever reads it; the header is written.
SnapCreate(p) ==
    /\ bpc[p] = "create"
    /\ disk' = [disk EXCEPT ![PathOf(p)] = <<>>]
    /\ buf' = [buf EXCEPT ![p] = <<Header(left[p])>>]
    /\ shaken' = shaken \union {q \in Agent : IsRestore(q) /\ PathOf(q) = PathOf(p)}
    /\ skewed' = skewed \ {PathOf(p)}
    /\ whole' = whole \ {PathOf(p)}
    /\ Proceed(p, "select")
    /\ UNCHANGED <<genomeVars, left, got, mishaps, moments>>

\* iter_chunks: the SELECT takes the read lock unless there is no row.
SnapSelect(p) ==
    /\ bpc[p] = "select"
    /\ cursors' = IF Stored = {} THEN cursors ELSE cursors \union {p}
    /\ moments' = moments \union {Stored}
    /\ skewed' = IF left[p] = CountChunks THEN skewed ELSE skewed \union {PathOf(p)}
    /\ Proceed(p, "rows")
    /\ UNCHANGED <<genome, disk, buf, left, got, mishaps, shaken, whole>>

\* Rows of an open cursor still to come, ORDER BY hash.
Remaining(p) == {d \in Stored : p \in cursors /\ \A e \in DigestsOf(buf[p]) : e < d}

\* The sqlite3 module steps once past the row it returns, so fetching the
\* last row already ends the read lock.
SnapRow(p) ==
    /\ bpc[p] = "rows"
    /\ \E d \in Remaining(p) :
        /\ \A e \in Remaining(p) : d <= e
        /\ buf' = [buf EXCEPT ![p] = Append(@, RowItem(d, GetChunk(d)))]
        /\ cursors' = IF Remaining(p) = {d} THEN cursors \ {p} ELSE cursors
    /\ Proceed(p, "rows")
    /\ UNCHANGED <<genome, disk, left, got, mishaps, historyVars>>

\* The buffer spills: a longer prefix of what was written is on disk.
SnapFlush(p) ==
    /\ bpc[p] = "rows"
    /\ \E n \in 1..Len(buf[p]) :
        /\ n > Len(disk[PathOf(p)])
        /\ disk' = [disk EXCEPT ![PathOf(p)] = SubSeq(buf[p], 1, n)]
    /\ UNCHANGED <<genomeVars, agentVars, begun, mishaps, historyVars>>

\* Faulty variant: the buffer is not written out at the end.
SnapDoneUnflushed(p) ==
    /\ bpc[p] = "rows"
    /\ Remaining(p) = {}
    /\ whole' = whole \union {PathOf(p)}
    /\ Stop(p, "ok")
    /\ UNCHANGED <<genomeVars, disk, mishaps, moments, shaken, skewed>>

SnapDone(p) ==
    /\ bpc[p] = "rows"
    /\ Remaining(p) = {}
    /\ disk' = [disk EXCEPT ![PathOf(p)] = buf[p]]
    /\ whole' = whole \union {PathOf(p)}
    /\ Stop(p, "ok")
    /\ UNCHANGED <<genomeVars, mishaps, moments, shaken, skewed>>

\* An error, or the process is killed: the connection closes and the file keeps
\* what had spilled, perhaps up to the middle of an item.  An error of another
\* kind than the writing still closes the file, and so writes the buffer out.
SnapAbort(p) ==
    /\ IsSnapshot(p)
    /\ mishaps < MaxMishaps
    /\ mishaps' = mishaps + 1
    /\ \E r \in {"failed", "killed"} :
        /\ Stop(p, r)
        /\ \/ disk' = disk
           \/ /\ bpc[p] \in {"select", "rows"}
              /\ Len(disk[PathOf(p)]) < Len(buf[p])
              /\ disk' = [disk EXCEPT ![PathOf(p)] = Append(@, Cut)]
           \/ /\ bpc[p] \in {"select", "rows"} /\ r = "failed"
              /\ disk' = [disk EXCEPT ![PathOf(p)] = buf[p]]
    /\ cursors' = cursors \ {p}
    /\ UNCHANGED <<genome, historyVars>>

-----------------------------------------------------------------------------
(* restore_genome.                                                          *)

RestoreStart(p) ==
    \E f \in Paths, replace \in BOOLEAN : Launch(p, "header", f, replace)

\* Faulty variant: rows go whenever there is a header.
FirstChangeClearing(p) == "clear"

\* Where restore goes from a valid header.
FirstChange(p) == IF bjob[p].replace THEN "clear" ELSE "entries"

\* No file: OSError.  An empty file or a cut header is refused.
RestoreOpen(p) ==
    /\ bpc[p] = "header"
    /\ LET items == disk[PathOf(p)]
       IN  \/ /\ items = NoFile
              /\ Stop(p, "failed")
           \/ /\ items # NoFile
              /\ ~HasHeader(items)
              /\ Stop(p, "refused")
           \/ /\ items # NoFile
              /\ HasHeader(items)
              /\ left' = [left EXCEPT ![p] = items[1].count]
              /\ buf' = [buf EXCEPT ![p] = <<items[1]>>]
              /\ Proceed(p, FirstChange(p))
              /\ UNCHANGED got
    /\ skewed' = IF PathOf(p) \in skewed THEN skewed \union {p} ELSE skewed \ {p}
    /\ UNCHANGED <<genomeVars, disk, mishaps, moments, shaken, whole>>

\* --replace: every row goes, committed before a single entry is read.
RestoreClear(p) ==
    /\ bpc[p] = "clear"
    /\ ClearChunks(p)
    /\ shaken' = shaken \union (Agent \ {p})
    /\ Proceed(p, "entries")
    /\ UNCHANGED <<cursors, disk, buf, left, got, mishaps, moments, skewed, whole>>

\* Faulty variant: an item that ends where the file ends is taken for cut.
AtEndEarly(p) == Len(buf[p]) + 1 >= Len(disk[PathOf(p)])

\* The next item of the file (buf holds those read), at the offset reached.
AtEnd(p) == Len(buf[p]) >= Len(disk[PathOf(p)])
NextItem(p) == disk[PathOf(p)][Len(buf[p]) + 1]
GoodEntry(p) == ~AtEnd(p) /\ GoodRow(NextItem(p))

\* Faulty variant: the insert is never committed.
RestoreEntryUncommitted(p) ==
    /\ bpc[p] = "entries" /\ left[p] > 0
    /\ GoodEntry(p)
    /\ left' = [left EXCEPT ![p] = @ - 1]
    /\ buf' = [buf EXCEPT ![p] = Append(@, NextItem(p))]
    /\ got' = [got EXCEPT ![p] = @ \union {NextItem(p).hash}]
    /\ Proceed(p, "entries")
    /\ UNCHANGED <<genomeVars, disk, mishaps, historyVars>>

RestoreEntry(p) ==
    /\ bpc[p] = "entries" /\ left[p] > 0
    /\ GoodEntry(p)
    /\ PutChunk(p, NextItem(p).hash, NextItem(p).data)
    /\ left' = [left EXCEPT ![p] = @ - 1]
    /\ buf' = [buf EXCEPT ![p] = Append(@, NextItem(p))]
    /\ got' = [got EXCEPT ![p] = @ \union {NextItem(p).hash}]
    /\ Proceed(p, "entries")
    /\ UNCHANGED <<cursors, disk, mishaps, historyVars>>

\* A truncated, oversized or falsified entry, or bytes after the last one.
RestoreRefuse(p) ==
    /\ bpc[p] = "entries"
    /\ (left[p] > 0 /\ ~GoodEntry(p)) \/ (left[p] = 0 /\ ~AtEnd(p))
    /\ Stop(p, "refused")
    /\ UNCHANGED <<genomeVars, disk, mishaps, historyVars>>

\* Faulty variant: the end of the file ends the restore.
RestoreDoneAtEof(p) ==
    /\ bpc[p] = "entries" /\ AtEnd(p)
    /\ Stop(p, "ok")
    /\ UNCHANGED <<genomeVars, disk, mishaps, historyVars>>

RestoreDone(p) ==
    /\ bpc[p] = "entries" /\ left[p] = 0 /\ AtEnd(p)
    /\ Stop(p, "ok")
    /\ UNCHANGED <<genomeVars, disk, mishaps, historyVars>>

\* Restore has a row to delete or to insert, and may not commit.
LockedOut(p) ==
    /\ bpc[p] = "clear" \/ (bpc[p] = "entries" /\ left[p] > 0 /\ GoodEntry(p))
    /\ ~CanCommit(p)

\* Faulty variant: a commit that finds the database locked is tried for ever.
RestoreTimeoutRetrying(p) ==
    /\ LockedOut(p)
    /\ UNCHANGED backupVars

\* A cursor elsewhere outlasts the busy timeout: an OperationalError.
RestoreTimeout(p) ==
    /\ LockedOut(p)
    /\ Stop(p, "locked")
    /\ UNCHANGED <<genomeVars, disk, mishaps, historyVars>>

RestoreKill(p) ==
    /\ IsRestore(p)
    /\ mishaps < MaxMishaps
    /\ mishaps' = mishaps + 1
    /\ Stop(p, "killed")
    /\ UNCHANGED <<genomeVars, disk, historyVars>>

-----------------------------------------------------------------------------
(* The environment.                                                         *)

\* Another process (encode --learn, prime) commits a row.
Learn(c) ==
    /\ cursors = {}
    /\ genome[Sha[c]] = Missing
    /\ genome' = [genome EXCEPT ![Sha[c]] = c]
    /\ UNCHANGED <<cursors, disk, agentVars, begun, mishaps, historyVars>>

Mishap ==
    /\ mishaps < MaxMishaps
    /\ mishaps' = mishaps + 1
    /\ UNCHANGED <<agentVars, begun, moments, skewed>>

\* The database file is deleted while nobody has it open.
Lose ==
    /\ cursors = {} /\ \A p \in Agent : bpc[p] = "idle"
    /\ genome' = EmptyGenome
    /\ shaken' = Agent
    /\ Mishap
    /\ UNCHANGED <<cursors, disk, whole>>

Decay ==
    /\ \E d \in Digest : RotRow(d)
    /\ shaken' = Agent
    /\ Mishap
    /\ UNCHANGED <<disk, whole>>

\* A copy of the snapshot file lost its tail.
Truncate(f) ==
    /\ disk[f] # NoFile /\ \A p \in Agent : bpc[p] # "idle" => PathOf(p) # f
    /\ \E n \in 0..Len(disk[f]) - 1 :
        \/ disk' = [disk EXCEPT ![f] = SubSeq(@, 1, n)]
        \/ disk' = [disk EXCEPT ![f] = Append(SubSeq(@, 1, n), Cut)]
    /\ whole' = whole \ {f}
    /\ Mishap
    /\ UNCHANGED <<genomeVars, shaken>>

-----------------------------------------------------------------------------
BackupInit ==
    /\ GenomeInit
    /\ disk = [f \in Paths |-> NoFile]
    /\ bpc = [p \in Agent |-> "idle"]
    /\ bjob = [p \in Agent |-> [path |-> CHOOSE f \in Paths : TRUE, replace |-> FALSE]]
    /\ buf = [p \in Agent |-> <<>>]
    /\ left = [p \in Agent |-> 0]
    /\ got = [p \in Agent |-> {}]
    /\ bres = [p \in Agent |-> "none"]
    /\ begun = 0 /\ mishaps = 0
    /\ moments = {}
    /\ shaken = {} /\ skewed = {} /\ whole = {}

BackupStep(p) ==
    \/ SnapCount(p) \/ SnapCreate(p) \/ SnapSelect(p) \/ SnapRow(p) \/ SnapDone(p)
    \/ RestoreOpen(p) \/ RestoreClear(p) \/ RestoreEntry(p) \/ RestoreRefuse(p)
    \/ RestoreDone(p) \/ RestoreTimeout(p)

BackupStart(p) == SnapStart(p) \/ RestoreStart(p)

BackupAgent(p) ==
    BackupStart(p) \/ BackupStep(p) \/ SnapFlush(p) \/ SnapAbort(p) \/ RestoreKill(p)

BackupNext ==
    \/ \E p \in Agent : BackupAgent(p)
    \/ \E c \in Content : Learn(c)
    \/ \E f \in Paths : Truncate(f)
    \/ Lose
    \/ Decay

BackupSpec == BackupInit /\ [][BackupNext]_backupVars

-----------------------------------------------------------------------------
(* Properties.                                                              *)

\* Every variable has its type; a snapshot that selects rows has its header.
BackupTypeOK ==
    /\ genome \in [Digest -> Row]
    /\ DOMAIN disk = Paths
    /\ \A f \in Paths : disk[f] = NoFile \/ disk[f] \in Seq(Item)
    /\ bpc \in [Agent -> BackupPhase]
    /\ bjob \in [Agent -> [path : Paths, replace : BOOLEAN]]
    /\ buf \in [Agent -> Seq(Item)]
    /\ left \in [Agent -> Nat]
    /\ got \in [Agent -> SUBSET Digest]
    /\ bres \in [Agent -> BackupResult]
    /\ begun \in Nat /\ mishaps \in Nat
    /\ moments \subseteq SUBSET Digest
    /\ shaken \subseteq Agent /\ skewed \subseteq Agent \union Paths
    /\ whole \subseteq Paths

Restored(p) == bpc[p] = "idle" /\ bres[p] = "ok" /\ got[p] # {}

\* A restore that reports success has brought back exactly what the genome
\* held at one moment, never a part of it: whatever was left by killed
\* snapshots, full disks and cut copies is refused (restore_genome counts the
\* entries and looks for trailing bytes).  A commit between the count and the
\* SELECT of the snapshot is excepted: there the count proves nothing.
AllOrNothing ==
    \A p \in Agent :
        Restored(p) /\ p \notin shaken \union skewed => got[p] \in moments

\* What a successful restore reported is in the genome, with the payload of
\* its digest after --replace, while others learn, snapshot and restore.
RestoreCovers ==
    \A p \in Agent :
        Restored(p) /\ p \notin shaken =>
            /\ got[p] \subseteq Stored
            /\ bjob[p].replace => got[p] \intersect RottenRows = {}

\* What restore_genome asks of a whole file: a header that announces as many
\* entries as follow, and no entry that it refuses.
Acceptable(items) ==
    /\ HasHeader(items)
    /\ Len(items) = items[1].count + 1
    /\ \A i \in 2..Len(items) : GoodRow(items[i])

\* A completed snapshot holds the rows of one moment, and restore accepts it
\* but for three causes, of which snapshot_genome reports none: a commit fell
\* between its count and its SELECT, a row was rotten, or a payload is over
\* MAX_CHUNK_SIZE.  Two snapshots at once on one path are left out (SnapStart).
SnapshotRestorable ==
    \A f \in whole :
        LET rows == RowsOf(disk[f])
        IN  /\ DigestsOf(disk[f]) \in moments
            /\ Acceptable(disk[f]) <=>
                  /\ f \notin skewed
                  /\ \A i \in rows : /\ Sha[disk[f][i].data] = disk[f][i].hash
                                     /\ disk[f][i].data \notin Oversize

\* A restore of a completed snapshot is refused for one of those causes only:
\* no matter what is learned meanwhile, or how the file came to be, the reader
\* stays in step with what the writer wrote, up to the last entry.
RefusedForCause ==
    [][ \A p \in Agent :
            /\ IsRestore(p) /\ bpc'[p] = "idle" /\ bres'[p] = "refused"
            /\ PathOf(p) \in whole /\ p \notin shaken
            => ~Acceptable(disk[PathOf(p)]) ]_backupVars

\* Rows disappear only by the deletion of the database, or by a restore
\* --replace that has read a valid header: a merge, a refusal or a failure
\* never takes a row away.
RowsLeaveByReplace ==
    [][ (\E d \in Stored : genome'[d] # genome[d]) =>
            \/ mishaps' # mishaps
            \/ \E p \in Agent : /\ bpc[p] = "clear" /\ bjob[p].replace
                                 /\ Len(buf[p]) = 1 /\ genome' = EmptyGenome ]_backupVars
=============================================================================
