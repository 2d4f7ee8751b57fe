---------------------------- MODULE Qualification ----------------------------
(***************************************************************************)
(* core/qualification.py over one scope: prepare() and finish() of runs    *)
(* that may overlap (run --no-lock), change the material identity between  *)
(* them, or die; gate() at any time.                                       *)
(*                                                                         *)
(* prepare() reads the current epoch, and the gate when the epoch stays,   *)
(* before its first write opens a transaction; its writes are one commit.  *)
(***************************************************************************)
EXTENDS Naturals

CONSTANTS
  Procs,       \* processes that may run collectors of the scope
  Provenances, \* of the runs: "SCHEDULED", "MANUAL", "TEST" or "UNKNOWN"
  Materials,   \* material identities
  NoMaterial,  \* no row
  MaxRuns      \* bound on collector_runs rows

Provenance == {"SCHEDULED", "MANUAL", "TEST", "UNKNOWN"}

ASSUME QualificationAssumption ==
  /\ NoMaterial \notin Materials
  /\ Provenances \subseteq Provenance
  /\ MaxRuns \in Nat

VARIABLES
  runs,       \* collector_runs: status and the qualification columns
  lastRun,
  epochs,     \* qualification_epochs
  lastEpoch,
  state,      \* qualification_state of the scope
  terminals,  \* qualification_events of type TERMINAL
  resets,     \* and of type RESET
  proc,       \* where each process is, and its run's context
  overlapped  \* history: a run without the run lock met another one

tables == <<epochs, lastEpoch, state, terminals, resets>>
vars == <<runs, lastRun, tables, proc, overlapped>>

-----------------------------------------------------------------------------
RunIds == 1..MaxRuns
EpochIds == 1..MaxRuns    \* a run opens at most one

NoRun == [status |-> "none", provenance |-> "UNKNOWN", epoch |-> 0,
          material |-> NoMaterial, gate |-> "UNKNOWN"]

NoEpoch == [material |-> NoMaterial, prior |-> NoMaterial]

NoState == [epoch |-> 0, material |-> NoMaterial]

Idle == [pc |-> "idle", run |-> 0, provenance |-> "UNKNOWN", material |-> NoMaterial,
         seen |-> NoState, epoch |-> 0, gate |-> "UNKNOWN", status |-> "none"]

Init ==
  /\ runs = [r \in RunIds |-> NoRun]
  /\ lastRun = 0
  /\ epochs = [e \in EpochIds |-> NoEpoch]
  /\ lastEpoch = 0
  /\ state = NoState
  /\ terminals = {}
  /\ resets = {}
  /\ proc = [p \in Procs |-> Idle]
  /\ overlapped = FALSE

\* run_started, with provenance and material of the process.  The run lock
\* keeps runs apart; --no-lock does not.
StartRun(p) ==
  /\ proc[p].pc = "idle" /\ lastRun < MaxRuns
  /\ \E v \in Provenances, m \in Materials :
       /\ proc' = [proc EXCEPT ![p] = [Idle EXCEPT !.pc = "started", !.run = lastRun + 1,
                                                   !.provenance = v, !.material = m]]
       /\ runs' = [runs EXCEPT ![lastRun + 1] = [NoRun EXCEPT !.status = "running",
                                                              !.provenance = v]]
  /\ lastRun' = lastRun + 1
  /\ overlapped' = (overlapped \/ \E q \in Procs : proc[q].pc # "idle")
  /\ UNCHANGED tables

\* prepare() selects the scope's current row.
ReadState(p) ==
  /\ proc[p].pc = "started"
  /\ proc' = [proc EXCEPT ![p].pc = "read", ![p].seen = state]
  /\ UNCHANGED <<runs, lastRun, tables, overlapped>>

\* _gate: evidence of this epoch and material, for a trusted provenance.
MutantGateStatus(e, m, v) ==    \* any ok run is evidence
  IF v = "UNKNOWN" THEN "UNKNOWN"
  ELSE IF \E t \in terminals : t.epoch = e /\ t.material = m /\ t.status = "ok"
       THEN "QUALIFIED" ELSE "NOT_QUALIFIED"

GateStatus(e, m, v) ==
  IF v = "UNKNOWN" THEN "UNKNOWN"
  ELSE IF \E t \in terminals : t.epoch = e /\ t.material = m /\ t.status = "ok" /\ t.counts
       THEN "QUALIFIED" ELSE "NOT_QUALIFIED"

\* prepare() commits on epoch e under gate g.
Prepared(p, e, g) ==
  LET me == proc[p] IN
  /\ runs' = [runs EXCEPT ![me.run].epoch = e, ![me.run].material = me.material,
                          ![me.run].gate = g]
  /\ proc' = [proc EXCEPT ![p].pc = "collecting", ![p].epoch = e, ![p].gate = g]

MaterialChanged(p) == proc[p].seen.material # proc[p].material

\* A RESET unless the epoch is the first the process knows of.
MutantReset(p, e) ==    \* the first epoch is a reset too
  {[run |-> proc[p].run, epoch |-> e, prior |-> proc[p].seen.material]}

Reset(p, e) ==
  IF proc[p].seen = NoState THEN {}
  ELSE {[run |-> proc[p].run, epoch |-> e, prior |-> proc[p].seen.material]}

\* No row, or another material: a new epoch becomes the scope's.
OpenEpoch(p) ==
  LET me == proc[p]
      e == lastEpoch + 1 IN
  /\ me.pc = "read" /\ MaterialChanged(p)
  /\ lastEpoch' = e
  /\ epochs' = [epochs EXCEPT ![e] = [material |-> me.material, prior |-> me.seen.material]]
  /\ state' = [epoch |-> e, material |-> me.material]
  /\ resets' = resets \cup Reset(p, e)
  /\ Prepared(p, e, GateStatus(e, me.material, me.provenance))
  /\ UNCHANGED <<lastRun, terminals, overlapped>>

ReadGate(p) ==
  LET me == proc[p] IN
  /\ me.pc = "read" /\ ~MaterialChanged(p)
  /\ proc' = [proc EXCEPT ![p].pc = "gated",
                          ![p].gate = GateStatus(me.seen.epoch, me.material, me.provenance)]
  /\ UNCHANGED <<runs, lastRun, tables, overlapped>>

KeepEpoch(p) ==
  /\ proc[p].pc = "gated"
  /\ Prepared(p, proc[p].seen.epoch, proc[p].gate)
  /\ UNCHANGED <<lastRun, tables, overlapped>>

\* run_finished with the outcome of the collection (module Runner).
FinishRun(p) ==
  /\ proc[p].pc = "collecting"
  /\ \E s \in {"ok", "failed", "blocked_zero_result"} :
       /\ runs' = [runs EXCEPT ![proc[p].run].status = s]
       /\ proc' = [proc EXCEPT ![p].pc = "finished", ![p].status = s]
  /\ UNCHANGED <<lastRun, tables, overlapped>>

Counts(status, provenance) == status = "ok" /\ provenance = "SCHEDULED"

\* finish(): the context of the run, not the current state of the scope.
MutantFinish(p) ==    \* evidence goes to whatever epoch is current
  LET me == proc[p] IN
  /\ me.pc = "finished"
  /\ terminals' = terminals \cup
       {[run |-> me.run, epoch |-> state.epoch, material |-> me.material,
         status |-> me.status, counts |-> Counts(me.status, me.provenance)]}
  /\ proc' = [proc EXCEPT ![p] = Idle]
  /\ UNCHANGED <<runs, lastRun, epochs, lastEpoch, state, resets, overlapped>>

Finish(p) ==
  LET me == proc[p] IN
  /\ me.pc = "finished"
  /\ terminals' = terminals \cup
       {[run |-> me.run, epoch |-> me.epoch, material |-> me.material,
         status |-> me.status, counts |-> Counts(me.status, me.provenance)]}
  /\ proc' = [proc EXCEPT ![p] = Idle]
  /\ UNCHANGED <<runs, lastRun, epochs, lastEpoch, state, resets, overlapped>>

Crash(p) ==
  /\ proc[p].pc # "idle"
  /\ proc' = [proc EXCEPT ![p] = Idle]
  /\ UNCHANGED <<runs, lastRun, tables, overlapped>>

Next ==
  \E p \in Procs :
    \/ StartRun(p) \/ ReadState(p) \/ OpenEpoch(p) \/ ReadGate(p) \/ KeepEpoch(p)
    \/ FinishRun(p) \/ Finish(p) \/ Crash(p)

Spec == Init /\ [][Next]_vars

-----------------------------------------------------------------------------
(* gate() for a caller that asks about material m; it looks at the epoch   *)
(* of a piece of evidence, not at its material.                            *)
Gate(m) ==
  IF state = NoState THEN "UNKNOWN"
  ELSE IF state.material # m THEN "STALE"
  ELSE IF \E t \in terminals : t.epoch = state.epoch /\ t.status = "ok" /\ t.counts
       THEN "QUALIFIED" ELSE "NOT_QUALIFIED"

-----------------------------------------------------------------------------
(* Rows and contexts keep their types.                                     *)
TypeOK ==
  /\ runs \in [RunIds -> [status : {"none", "running", "ok", "failed", "blocked_zero_result"},
                          provenance : Provenance, epoch : Nat,
                          material : Materials \cup {NoMaterial},
                          gate : {"UNKNOWN", "NOT_QUALIFIED", "QUALIFIED"}]]
  /\ lastRun \in 0..MaxRuns
  /\ epochs \in [EpochIds -> [material : Materials \cup {NoMaterial},
                              prior : Materials \cup {NoMaterial}]]
  /\ lastEpoch \in 0..lastRun
  /\ state \in [epoch : 0..lastEpoch, material : Materials \cup {NoMaterial}]
  /\ terminals \subseteq [run : RunIds, epoch : EpochIds, material : Materials,
                          status : {"ok", "failed", "blocked_zero_result"}, counts : BOOLEAN]
  /\ resets \subseteq [run : RunIds, epoch : EpochIds, prior : Materials]
  /\ overlapped \in BOOLEAN
  /\ proc \in [Procs -> [pc : {"idle", "started", "read", "gated", "collecting", "finished"},
                         run : 0..MaxRuns, provenance : Provenance,
                         material : Materials \cup {NoMaterial},
                         seen : [epoch : Nat, material : Materials \cup {NoMaterial}],
                         epoch : Nat, gate : {"UNKNOWN", "NOT_QUALIFIED", "QUALIFIED"},
                         status : {"none", "ok", "failed", "blocked_zero_result"}]]

(* A scope qualifies for a material only on a scheduled run that finished  *)
(* ok with that very material since the scope last changed: evidence never *)
(* survives a change, not even a change back, however runs overlap.        *)
QualifiedIsEarned ==
  \A m \in Materials : Gate(m) = "QUALIFIED" =>
    \E r \in RunIds : /\ runs[r].status = "ok" /\ runs[r].provenance = "SCHEDULED"
                      /\ runs[r].epoch = state.epoch /\ runs[r].material = m
                      /\ epochs[state.epoch].material = m

(* The gate a run was prepared under stays true to the record: QUALIFIED   *)
(* needs the evidence of another run, in the same epoch.                   *)
PreparedUnderEvidence ==
  \A r \in RunIds : runs[r].gate = "QUALIFIED" =>
    \E t \in terminals : /\ t.run # r /\ t.counts /\ t.epoch = runs[r].epoch
                         /\ t.material = runs[r].material

(* While runs keep apart the lineage is unbroken: every epoch but the first   *)
(* has one RESET, by the run that opened it, naming the material of the    *)
(* epoch before it, the first has none, and the newest is the current one. *)
LineageIsUnbroken ==
  ~overlapped =>
    /\ state.epoch = lastEpoch
    /\ \A e \in 2..lastEpoch :
         /\ epochs[e].prior = epochs[e - 1].material /\ epochs[e].prior # epochs[e].material
         /\ \E t \in resets : t.epoch = e /\ t.prior = epochs[e].prior /\ runs[t.run].epoch = e
    /\ \A s, t \in resets : s.epoch > 1 /\ (s.epoch = t.epoch => s = t)
=============================================================================
