--------------------------- MODULE GenomeWorkspace ---------------------------
(***************************************************************************)
(* One genome used by everything at once: commands of the codec and        *)
(* backups over the same database file, and its loss.  The two components  *)
(* meet in the rows and in SQLite's locks: a snapshot's cursor holds up    *)
(* the puts of an encode, and restore --replace takes rows away under      *)
(* commands that have looked them up.                                      *)
(***************************************************************************)
EXTENDS SeedCodec, GenomeBackup

ASSUME WorkspaceAssumption == Agent \intersect (Proc \union Readers) = {}

VARIABLES
    saved,      \* history: snapshot path -> sound seeds at its last SELECT
    due         \* history: agent -> seeds its restore ought to bring back

recoveryVars == <<saved, due>>
codecOwnVars == <<diskVars, procVars, boundVars, versions, spoilt>>
backupOwnVars == <<disk, agentVars, begun, mishaps, historyVars>>
workspaceVars == <<codecVars, backupOwnVars, recoveryVars>>

WorkspaceInit ==
    /\ CodecInit /\ BackupInit
    /\ saved = [f \in Paths |-> {}]
    /\ due = [p \in Agent |-> {}]

\* Seeds written since the genome last lost rows.
SoundSeeds == {seeds[s] : s \in {t \in Seeds : IsSeed(t) /\ t \notin exposed}}

Codec(p) ==
    /\ CommandStart(p) \/ CommandStep(p) \/ SeedWriteFails(p) \/ Kill(p)
    /\ UNCHANGED <<backupOwnVars, recoveryVars>>

\* The codec's histories follow what a backup command does to the rows.
Follow(p) ==
    /\ exposed' = IF bpc[p] = "clear" /\ bpc'[p] = "entries" THEN Proc \union Seeds
                  ELSE exposed
    /\ saved' = IF bpc[p] = "create" /\ bpc'[p] = "select"
                THEN [saved EXCEPT ![PathOf(p)] = {}]
                ELSE IF bpc[p] = "select" /\ bpc'[p] = "rows"
                     THEN [saved EXCEPT ![PathOf(p)] = SoundSeeds] ELSE saved
    /\ due' = [due EXCEPT ![p] = IF bpc[p] = "idle" THEN {}
                                 ELSE IF bpc[p] = "header" /\ bpc'[p] # "idle"
                                      THEN saved[PathOf(p)] ELSE @]
    /\ UNCHANGED codecOwnVars

Backup(p) == BackupAgent(p) /\ Follow(p)

\* A reader that is none of these commands, or one of them that was suspended,
\* may keep its SELECT open for as long as it likes.
Reader(r) ==
    /\ ReaderOpens(r) \/ ReaderCloses(r)
    /\ UNCHANGED <<backupOwnVars, recoveryVars>>

\* The database file is lost between commands.
Disaster ==
    /\ \A p \in Proc : pc[p] = "idle"
    /\ Lose
    /\ exposed' = Proc \union Seeds
    /\ UNCHANGED <<codecOwnVars, recoveryVars>>

\* A row rots, or a copy of a snapshot loses its tail.
Wear ==
    /\ \/ Decay /\ exposed' = Proc \union Seeds
       \/ \E f \in Paths : Truncate(f) /\ UNCHANGED exposed
    /\ UNCHANGED <<codecOwnVars, recoveryVars>>

WorkspaceNext ==
    \/ \E p \in Proc : Codec(p)
    \/ \E p \in Agent : Backup(p)
    \/ \E r \in Readers : Reader(r)
    \/ Disaster
    \/ Wear

WorkspaceSpec == WorkspaceInit /\ [][WorkspaceNext]_workspaceVars

\* Every running command is scheduled; readers need not be.
WorkspaceFairSpec ==
    /\ WorkspaceSpec
    /\ \A p \in Proc :
        WF_workspaceVars(CommandStep(p) /\ UNCHANGED <<backupOwnVars, recoveryVars>>)
    /\ \A p \in Agent : WF_workspaceVars(BackupStep(p) /\ Follow(p))

-----------------------------------------------------------------------------
(* Properties.                                                              *)

\* Non-portable seeds survive the loss of the genome: after a successful
\* restore of a snapshot taken when they were written, each resolves again,
\* whatever was encoded, primed, killed or lost in between.
SeedsSurvive ==
    \A p \in Agent :
        /\ bpc[p] = "idle" /\ bres[p] = "ok" /\ p \notin shaken \union skewed
        => \A seed \in due[p] : Resolvable(seed)

\* Commands and backups wait for each other's locks, and for readers that may
\* never let go, and all of them end: with finitely many commands, again and
\* again none is running.
EverythingEnds ==
    []<>((\A p \in Proc : pc[p] = "idle") /\ (\A p \in Agent : bpc[p] = "idle"))
=============================================================================
