-------------------------------- MODULE Stores --------------------------------
(***************************************************************************)
(* The files the program keeps: the production store with its admission    *)
(* (Admission), its writes in blocks (StoreTx) and its recovery points     *)
(* (Backup), the continuity registry (Continuity) and the review archive   *)
(* (QcReview).  A behaviour works on one of them; recovery points are      *)
(* taken while the store or the registry is written.                       *)
(***************************************************************************)
EXTENDS Admission, Backup, QcReview

VARIABLE part  \* the files this behaviour is about; it stays

storesVars == <<vars, txVars, continuityVars, backupVars, qcVars, part>>

StoresInit ==
  /\ part \in {"admission", "store", "registry", "archive"}
  /\ Init /\ (part # "admission" => origin = Fresh)
  /\ TxInit /\ ContinuityInit /\ BackupInit /\ QcInit

Admit(p) ==
  /\ part = "admission" /\ Step(p)
  /\ UNCHANGED <<txVars, continuityVars, backupVars, qcVars, part>>

AdmissionFails ==
  /\ part = "admission" /\ \E p \in Procs : StatementFails(p) \/ Crash(p)
  /\ UNCHANGED <<txVars, continuityVars, backupVars, qcVars, part>>

WriteStore ==
  /\ part = "store" /\ TxNext
  /\ UNCHANGED <<vars, continuityVars, backupVars, qcVars, part>>

WriteRegistry ==
  /\ part = "registry" /\ ContinuityNext
  /\ UNCHANGED <<vars, txVars, backupVars, qcVars, part>>

TakeBackup ==
  /\ part \in {"store", "registry"} /\ BackupNext
  /\ UNCHANGED <<vars, txVars, continuityVars, qcVars, part>>

WriteArchive ==
  /\ part = "archive" /\ QcNext
  /\ UNCHANGED <<vars, txVars, continuityVars, backupVars, part>>

StoresNext ==
  (\E p \in Procs : Admit(p)) \/ AdmissionFails
  \/ WriteStore \/ WriteRegistry \/ TakeBackup \/ WriteArchive

\* The scheduler opens the store again and again, and an opener goes on.
StoresSpec ==
  /\ StoresInit /\ [][StoresNext]_storesVars
  /\ \A p \in Procs : WF_storesVars(Admit(p))

-----------------------------------------------------------------------------
(* The variables of all files keep their types.                            *)
StoresTypeOK ==
  TypeOK /\ TxTypeOK /\ ContinuityTypeOK /\ BackupTypeOK /\ QcTypeOK
=============================================================================
