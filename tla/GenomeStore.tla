----------------------------- MODULE GenomeStore -----------------------------
(***************************************************************************)
(* The chunk store of src/seedbraid/storage.py: SQLiteGenome, one table    *)
(* chunks(hash PRIMARY KEY, data, size).                                   *)
(*                                                                         *)
(* The database file is shared by every seedbraid process of a machine;    *)
(* a row is read or committed in one step, and what a process does around  *)
(* a row interleaves with the others.                                      *)
(***************************************************************************)
EXTENDS Payloads, FiniteSets

VARIABLES
    genome,     \* the rows: digest -> payload, or Missing
    cursors     \* processes with a half-read SELECT (a SHARED lock)

genomeVars == <<genome, cursors>>

Row == Content \union {Missing}

GenomeTypeOK(readers) ==
    /\ genome \in [Digest -> Row]
    /\ cursors \in SUBSET readers

EmptyGenome == [d \in Digest |-> Missing]

GenomeInit ==
    /\ genome = EmptyGenome
    /\ cursors = {}

HasChunk(d) == genome[d] # Missing

GetChunk(d) == genome[d]

\* The digests that have a row, and how many they are.
Stored == {d \in Digest : HasChunk(d)}

CountChunks == Cardinality(Stored)

\* A commit needs the EXCLUSIVE lock: it waits while another connection
\* holds a cursor, and fails after SQLite's busy timeout.
CanCommit(p) == cursors \subseteq {p}

\* INSERT OR IGNORE ... ; commit: an existing row is left as it is.
PutChunk(p, d, chunk) ==
    /\ CanCommit(p)
    /\ genome' = [genome EXCEPT ![d] = IF @ = Missing THEN chunk ELSE @]

\* DELETE FROM chunks; commit.
ClearChunks(p) ==
    /\ CanCommit(p)
    /\ genome' = EmptyGenome

\* Rows whose payload no longer hashes to their key: the store never checks.
RottenRows == {d \in Stored : Sha[genome[d]] # d}

\* A page of the database file decays, or is edited behind the program.
RotRow(d) ==
    \E c \in Content :
        /\ HasChunk(d)
        /\ Sha[c] # d
        /\ genome' = [genome EXCEPT ![d] = c]
        /\ UNCHANGED cursors
=============================================================================
