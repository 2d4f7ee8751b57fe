-------------------------------- MODULE Backup --------------------------------
(***************************************************************************)
(* cmd_backup and SqliteStore.backup_to: recovery points of a store that   *)
(* others go on writing to, and the registry's snapshot beside each.  The  *)
(* run lock keeps backups apart; a backup may die or fail anywhere.        *)
(***************************************************************************)
EXTENDS StoreTx, Continuity

VARIABLES
  target,   \* the recovery point: a file with rows
  partial,  \* <target>.partial
  beside,   \* <target>.continuity.jsonl
  backup,   \* where the command is, and whether it was forced
  promised  \* history: what the last command that succeeded reported

backupVars == <<target, partial, beside, backup, promised>>

-----------------------------------------------------------------------------
\* A file is absent, cut short while it was written, or whole.
NoFile == [state |-> "absent"]
Cut == [state |-> "cut"]
Snapshot(rows) == [state |-> "whole", rows |-> rows]
Copy(lines) == [state |-> "whole", lines |-> lines]

NoBackup == [at |-> "none", force |-> FALSE]
Nothing == [target |-> NoFile, beside |-> NoFile]

BackupInit ==
  /\ target = NoFile /\ partial = NoFile /\ beside = NoFile
  /\ backup = NoBackup /\ promised = Nothing

At(place) == backup' = [backup EXCEPT !.at = place]
From(place) == backup.at = place

StartBackup ==
  /\ From("none")
  /\ \E force \in BOOLEAN : backup' = [at |-> "started", force |-> force]
  /\ UNCHANGED <<target, partial, beside, promised>>

\* An existing recovery point is refused; a partial file left behind goes.
MutantPrepare ==    \* whatever is there is overwritten
  /\ From("started")
  /\ partial' = NoFile /\ At("copying")
  /\ UNCHANGED <<target, beside, promised>>

Prepare ==
  /\ From("started")
  /\ IF target # NoFile /\ ~backup.force
     THEN At("none") /\ UNCHANGED partial
     ELSE partial' = NoFile /\ At("copying")
  /\ UNCHANGED <<target, beside, promised>>

\* The online backup copies committed rows; it starts over when the store
\* changes under it, so that what it ends with is one state of the store.
BeginCopy ==
  /\ From("copying") /\ partial = NoFile
  /\ partial' = Cut
  /\ UNCHANGED <<target, beside, backup, promised>>

MutantEndCopy ==    \* uncommitted rows of the source are copied too
  /\ From("copying") /\ partial = Cut
  /\ partial' = Snapshot(durable \cup UNION {writer[w].pending : w \in Writers}) /\ At("checking")
  /\ UNCHANGED <<target, beside, promised>>

EndCopy ==
  /\ From("copying") /\ partial = Cut
  /\ partial' = Snapshot(durable) /\ At("checking")
  /\ UNCHANGED <<target, beside, promised>>

\* integrity_check of the partial file.
CheckFails ==
  /\ From("checking")
  /\ partial' = NoFile /\ At("none")
  /\ UNCHANGED <<target, beside, promised>>

\* os.replace.  Where it was forced the last report no longer binds.
Replace ==
  /\ From("checking")
  /\ target' = partial /\ partial' = NoFile
  /\ promised' = IF backup.force THEN Nothing ELSE promised
  /\ At("replaced")
  /\ UNCHANGED beside

\* The registry, if there is one, is written beside the recovery point:
\* truncated, then filled with what was read.
BeginBeside ==
  /\ From("replaced") /\ registry # <<>>
  /\ beside' = Cut /\ At("beside")
  /\ UNCHANGED <<target, partial, promised>>

Report(copy) ==
  /\ promised' = [target |-> target, beside |-> copy]
  /\ At("none")

EndBeside ==
  /\ From("beside")
  /\ beside' = Copy(registry) /\ Report(Copy(registry))
  /\ UNCHANGED <<target, partial>>

NoRegistry ==
  /\ From("replaced") /\ registry = <<>>
  /\ Report(NoFile)
  /\ UNCHANGED <<target, partial, beside>>

\* The command raises or is killed; files stay as they are.
StopBackup ==
  /\ ~From("none")
  /\ backup' = NoBackup
  /\ UNCHANGED <<target, partial, beside, promised>>

BackupNext ==
  \/ StartBackup \/ Prepare \/ BeginCopy \/ EndCopy \/ CheckFails \/ Replace
  \/ BeginBeside \/ EndBeside \/ NoRegistry \/ StopBackup

-----------------------------------------------------------------------------
(* Files and the command keep their types.                                 *)
BackupTypeOK ==
  /\ \A file \in {target, partial} :
       file \in {NoFile, Cut} \/ file \in [state : {"whole"}, rows : SUBSET Rows]
  /\ backup \in [at : {"none", "started", "copying", "checking", "replaced", "beside"},
                 force : BOOLEAN]

(* sqlite/__init__.py:305-310: whenever the process is killed, the         *)
(* recovery point is absent or a whole snapshot: it is not cut short and   *)
(* no run is there by half, though runs commit and fail while it is taken. *)
PointIsWhole ==
  /\ target # Cut
  /\ target # NoFile => \A x \in target.rows : Whole(target.rows, x.run)

(* cli.py:470-472: what a successful backup reported stays on disk, with   *)
(* the registry it reported beside it, until a forced one replaces it: not *)
(* while that one is under way, nor when it fails.                         *)
PromiseKept ==
  promised # Nothing =>
    /\ target = promised.target
    /\ promised.beside # NoFile => beside = promised.beside
=============================================================================
