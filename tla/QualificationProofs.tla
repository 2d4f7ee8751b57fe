-------------------------- MODULE QualificationProofs --------------------------
(***************************************************************************)
(* Evidence is never inherited: however many processes prepare and finish  *)
(* runs of the scope, change its material and die.                         *)
(***************************************************************************)
EXTENDS Qualification, FiniteSetTheorems, TLAPS

Rows == [status : {"none", "running", "ok", "failed", "blocked_zero_result"},
         provenance : Provenance, epoch : Nat, material : Materials \cup {NoMaterial},
         gate : {"UNKNOWN", "NOT_QUALIFIED", "QUALIFIED"}]

Contexts == [pc : {"idle", "started", "read", "gated", "collecting", "finished"},
             run : 0..MaxRuns, provenance : Provenance, material : Materials \cup {NoMaterial},
             seen : [epoch : Nat, material : Materials \cup {NoMaterial}],
             epoch : Nat, gate : {"UNKNOWN", "NOT_QUALIFIED", "QUALIFIED"},
             status : {"none", "ok", "failed", "blocked_zero_result"}]

\* The types, by the names of this module.
Epochs == [material : Materials \cup {NoMaterial}, prior : Materials \cup {NoMaterial}]

States == [epoch : Nat, material : Materials \cup {NoMaterial}]

Terminals == [run : RunIds, epoch : EpochIds, material : Materials,
              status : {"ok", "failed", "blocked_zero_result"}, counts : BOOLEAN]

Typed ==
  /\ runs \in [RunIds -> Rows] /\ proc \in [Procs -> Contexts]
  /\ lastRun \in Nat /\ lastRun <= MaxRuns /\ lastEpoch \in Nat /\ lastEpoch <= lastRun
  /\ epochs \in [EpochIds -> Epochs]
  /\ state \in States /\ state.epoch <= lastEpoch
  /\ terminals \subseteq Terminals
  /\ resets \subseteq [run : RunIds, epoch : EpochIds, prior : Materials]
  /\ overlapped \in BOOLEAN

Active(p) == proc[p].pc # "idle"

\* Runs that were prepared on an epoch; there are as many as epochs.
Opened == {r \in RunIds : runs[r].epoch # 0}

RunsInOrder ==
  /\ \A r \in RunIds : r > lastRun => runs[r] = NoRun
  /\ lastEpoch <= Cardinality(Opened)

EpochsKnown ==
  /\ state.epoch = lastEpoch
  /\ lastEpoch = 0 => state = NoState
  /\ \A e \in 1..lastEpoch : epochs[e].material \in Materials
  /\ lastEpoch > 0 => state.material = epochs[lastEpoch].material

\* A row of qualification_state as some process read it.
WasState(s) ==
  s = NoState \/ (s.epoch \in 1..lastEpoch /\ s.material = epochs[s.epoch].material)

Evidence(e, m) ==
  \E t \in terminals : t.epoch = e /\ t.material = m /\ t.status = "ok" /\ t.counts

\* What a process knows of its run and epoch.
Context(p) ==
  LET me == proc[p] IN
  /\ me.pc = "idle" => me.run = 0
  /\ me.pc # "idle" => /\ me.run \in 1..lastRun /\ me.material \in Materials
                       /\ runs[me.run].provenance = me.provenance
  /\ me.pc \in {"started", "read", "gated"} =>
       runs[me.run].epoch = 0 /\ runs[me.run].gate = "UNKNOWN"
  /\ me.pc \in {"read", "gated"} => WasState(me.seen)
  /\ me.pc = "gated" => /\ me.seen.material = me.material
                        /\ me.gate = "QUALIFIED" => Evidence(me.seen.epoch, me.material)
  /\ me.pc \in {"collecting", "finished"} =>
       /\ me.epoch \in 1..lastEpoch /\ epochs[me.epoch].material = me.material
       /\ runs[me.run].epoch = me.epoch /\ runs[me.run].material = me.material
  /\ me.pc = "finished" => runs[me.run].status = me.status /\ me.status # "none"

OwnRuns == \A p, q \in Procs : Active(p) /\ Active(q) /\ p # q => proc[p].run # proc[q].run

\* A piece of evidence is what its run, which is over, is recorded as.
Truthful(t) ==
  /\ t.run \in 1..lastRun /\ t.epoch \in 1..lastEpoch
  /\ epochs[t.epoch].material = t.material
  /\ runs[t.run].epoch = t.epoch /\ runs[t.run].material = t.material
  /\ runs[t.run].status = t.status
  /\ t.counts => runs[t.run].provenance = "SCHEDULED"
  /\ \A p \in Procs : proc[p].run # t.run

IInv ==
  /\ TypeOK
  /\ RunsInOrder
  /\ EpochsKnown
  /\ \A p \in Procs : Context(p)
  /\ OwnRuns
  /\ \A t \in terminals : Truthful(t)
  /\ PreparedUnderEvidence

-----------------------------------------------------------------------------
(* The invariant's types are those of the module.                          *)
LEMMA Types == TypeOK <=> Typed
<1>1. MaxRuns \in Nat
  BY QualificationAssumption
<1>2. ASSUME NEW n \in Nat
      PROVE  \A s : s \in [epoch : 0..n, material : Materials \cup {NoMaterial}]
                     <=> s \in States /\ s.epoch <= n
  BY <1>2 DEF States
<1> QED BY <1>1, <1>2 DEF TypeOK, Typed, Rows, Contexts, Epochs, Terminals

\* A process that does nothing has a context.
LEMMA IdleContext == Idle \in Contexts
<1>1. 0 \in 0..MaxRuns /\ 0 \in Nat
  BY QualificationAssumption
<1>2. NoState \in [epoch : Nat, material : Materials \cup {NoMaterial}]
  BY DEF NoState
<1> QED BY <1>1, <1>2 DEF Idle, Contexts, Provenance

\* There are no more prepared runs than runs.
LEMMA OpenedIsFinite == IsFiniteSet(Opened)
<1>1. Opened \in SUBSET (1..MaxRuns)
  BY DEF Opened, RunIds
<1>2. 1 \in Int /\ MaxRuns \in Int
  BY QualificationAssumption
<1>3. IsFiniteSet(1..MaxRuns)
  BY <1>2, FS_Interval
<1> QED BY <1>1, <1>3, FS_Subset

(* Nothing is prepared, known or recorded at first.                        *)
LEMMA InvInit == Init => IInv
<1> SUFFICES ASSUME Init PROVE IInv
  OBVIOUS
<1>1. Opened = {}
  BY DEF Init, Opened, NoRun
<1>2. Cardinality(Opened) = 0
  BY <1>1, FS_EmptySet
<1>3. TypeOK
  <2>1. runs \in [RunIds -> Rows]
    BY DEF Init, Rows, NoRun, Provenance
  <2>2. proc \in [Procs -> Contexts]
    BY IdleContext DEF Init
  <2>3. epochs \in [EpochIds -> Epochs] /\ state \in States /\ state.epoch = 0
    BY DEF Init, NoEpoch, NoState, Epochs, States
  <2>4. /\ lastRun = 0 /\ lastEpoch = 0 /\ terminals = {} /\ resets = {}
        /\ overlapped = FALSE /\ MaxRuns \in Nat
    BY QualificationAssumption DEF Init
  <2>5. /\ lastRun \in Nat /\ lastRun <= MaxRuns /\ lastEpoch \in Nat
        /\ lastEpoch <= lastRun /\ state.epoch <= lastEpoch
    BY <2>3, <2>4
  <2>6. Typed
    BY <2>1, <2>2, <2>3, <2>4, <2>5 DEF Typed
  <2> QED BY <2>6, Types
<1>4. RunsInOrder /\ EpochsKnown
  BY <1>2 DEF Init, RunsInOrder, EpochsKnown, NoState, RunIds
<1>5. \A p \in Procs : Context(p)
  BY DEF Init, Context, Idle
<1>6. OwnRuns /\ PreparedUnderEvidence /\ \A t \in terminals : Truthful(t)
  BY DEF Init, OwnRuns, Active, PreparedUnderEvidence, Idle, NoRun
<1> QED BY <1>3, <1>4, <1>5, <1>6 DEF IInv

\* What a step of process p leaves alone: everything that is over or is
\* somebody else's.
Effect(p) ==
  /\ \A q \in Procs \ {p} : proc'[q] = proc[q]
  /\ lastRun' \in Nat /\ lastRun <= lastRun'
  /\ lastEpoch' \in Nat /\ lastEpoch <= lastEpoch'
  /\ \A r \in 1..lastRun : r # proc[p].run => runs'[r] = runs[r]
  /\ \A e \in 1..lastEpoch : epochs'[e] = epochs[e]
  /\ terminals \subseteq terminals'

(* What another process knows stays true.                                  *)
LEMMA ContextStays ==
  ASSUME IInv, NEW p \in Procs, NEW q \in Procs, p # q, Effect(p)
  PROVE  Context(q)'
<1>1. Context(q) /\ proc'[q] = proc[q]
  BY DEF IInv, Effect
<1>2. Active(q) => proc[q].run # proc[p].run
  <2>1. CASE Active(p)
    BY <2>1 DEF IInv, OwnRuns
  <2>2. CASE ~Active(p)
    BY <2>2 DEF IInv, Context, Active
  <2> QED BY <2>1, <2>2
<1>3. Active(q) => proc[q].run \in 1..lastRun' /\ runs'[proc[q].run] = runs[proc[q].run]
  BY <1>1, <1>2 DEF Context, Effect, Active, IInv, TypeOK
<1>4. \A e \in 1..lastEpoch : e \in 1..lastEpoch' /\ epochs'[e] = epochs[e]
  BY DEF Effect, IInv, TypeOK
<1>5. \A e, m : Evidence(e, m) => Evidence(e, m)'
  BY DEF Effect, Evidence
<1>6. WasState(proc[q].seen) => WasState(proc[q].seen)'
  BY <1>1, <1>4 DEF WasState
<1> QED BY <1>1, <1>3, <1>4, <1>5, <1>6 DEF Context, Active

(* So does what was recorded of runs that are over.                        *)
LEMMA RecordStays ==
  ASSUME IInv, NEW p \in Procs, Effect(p), proc'[p].run \in {0, proc[p].run} \/ proc'[p].run > lastRun,
         NEW t \in terminals
  PROVE  Truthful(t)'
<1>1. Truthful(t)
  BY DEF IInv
<1>2. \A q \in Procs : proc'[q].run # t.run
  BY <1>1 DEF Truthful, Effect, IInv, TypeOK
<1>3. t.run # proc[p].run
  BY <1>1 DEF Truthful
<1> QED BY <1>1, <1>2, <1>3 DEF Truthful, Effect, IInv, TypeOK

\* The run a process goes on with is its own, or new.
OwnRun(p) ==
  \/ proc'[p].pc = "idle"
  \/ proc'[p].run > lastRun
  \/ Active(p) /\ proc'[p].run = proc[p].run

(* A step preserves the invariant when what it writes itself is right.     *)
LEMMA StepKeeps ==
  ASSUME IInv, NEW p \in Procs, Effect(p), OwnRun(p), TypeOK', RunsInOrder', EpochsKnown',
         Context(p)', \A t \in terminals' \ terminals : Truthful(t)',
         \A r \in RunIds : runs'[r].gate = "QUALIFIED" =>
           \/ runs'[r] = runs[r]
           \/ /\ runs[r].gate = "QUALIFIED" /\ runs'[r].gate = runs[r].gate
              /\ runs'[r].epoch = runs[r].epoch /\ runs'[r].material = runs[r].material
           \/ \E t \in terminals : /\ t.run # r /\ t.counts /\ t.epoch = runs'[r].epoch
                                   /\ t.material = runs'[r].material
  PROVE  IInv'
<1>1. \A q \in Procs : Context(q)'
  <2> SUFFICES ASSUME NEW q \in Procs, q # p PROVE Context(q)'
    OBVIOUS
  <2> QED BY ContextStays
<1>2. proc'[p].run \in {0, proc[p].run} \/ proc'[p].run > lastRun
  BY DEF OwnRun, Context
<1>3. \A t \in terminals' : Truthful(t)'
  <2> SUFFICES ASSUME NEW t \in terminals PROVE Truthful(t)'
    OBVIOUS
  <2> QED BY <1>2, RecordStays
<1>4. OwnRuns'
  <2> SUFFICES ASSUME NEW q \in Procs, q # p, proc'[p].pc # "idle", proc'[q].pc # "idle"
               PROVE  proc'[p].run # proc'[q].run
    BY DEF Effect, OwnRuns, Active, IInv
  <2>1. proc'[q] = proc[q] /\ Active(q) /\ proc[q].run \in 1..lastRun /\ lastRun \in Nat
    BY DEF Effect, Active, IInv, Context, TypeOK
  <2> QED BY <2>1 DEF OwnRun, OwnRuns, IInv, Active
<1>5. PreparedUnderEvidence'
  <2> SUFFICES ASSUME NEW r \in RunIds, runs'[r].gate = "QUALIFIED"
               PROVE  \E t \in terminals : /\ t.run # r /\ t.counts /\ t.epoch = runs'[r].epoch
                                          /\ t.material = runs'[r].material
    BY DEF Effect, PreparedUnderEvidence, RunIds
  <2> QED BY DEF IInv, PreparedUnderEvidence
<1> QED BY <1>1, <1>3, <1>4, <1>5 DEF IInv

-----------------------------------------------------------------------------
(* A run starts on a row of its own.                                       *)
LEMMA StartRunKeeps ==
  ASSUME IInv, NEW p \in Procs, StartRun(p) PROVE IInv'
<1>1. PICK v \in Provenances, m \in Materials :
        /\ proc' = [proc EXCEPT ![p] = [Idle EXCEPT !.pc = "started", !.run = lastRun + 1,
                                                    !.provenance = v, !.material = m]]
        /\ runs' = [runs EXCEPT ![lastRun + 1] = [NoRun EXCEPT !.status = "running",
                                                               !.provenance = v]]
  BY DEF StartRun
<1>2. /\ Typed /\ lastRun \in Nat /\ MaxRuns \in Nat /\ lastRun < MaxRuns
      /\ proc[p].pc = "idle" /\ lastRun' = lastRun + 1 /\ v \in Provenance
      /\ UNCHANGED tables /\ lastRun + 1 \in RunIds
  BY Types, QualificationAssumption DEF IInv, StartRun, Typed, RunIds
<1>3. /\ proc' = [proc EXCEPT ![p] = proc'[p]]
      /\ proc'[p].pc = "started" /\ proc'[p].run = lastRun + 1
      /\ proc'[p].provenance = v /\ proc'[p].material = m
      /\ proc'[p] \in Contexts
  <2>1. lastRun + 1 \in 0..MaxRuns /\ proc \in [Procs -> Contexts]
    BY <1>2 DEF Typed
  <2>2. [Idle EXCEPT !.pc = "started", !.run = lastRun + 1, !.provenance = v, !.material = m]
          \in Contexts
    BY <1>2, <2>1, IdleContext DEF Contexts
  <2>3. proc'[p] = [Idle EXCEPT !.pc = "started", !.run = lastRun + 1, !.provenance = v,
                                !.material = m]
    BY <1>1, <2>1
  <2> QED BY <1>1, <2>1, <2>2, <2>3 DEF Idle
<1>4. /\ runs' = [runs EXCEPT ![lastRun + 1] = runs'[lastRun + 1]]
      /\ runs'[lastRun + 1].provenance = v /\ runs'[lastRun + 1].epoch = 0
      /\ runs'[lastRun + 1].gate = "UNKNOWN" /\ runs'[lastRun + 1] \in Rows
  BY <1>1, <1>2 DEF NoRun, Rows, Typed
<1>5. Effect(p) /\ OwnRun(p)
  BY <1>2, <1>3, <1>4 DEF Effect, OwnRun, tables, RunIds, Typed
<1>6. TypeOK'
  <2>1. runs' \in [RunIds -> Rows] /\ proc' \in [Procs -> Contexts]
    BY <1>2, <1>3, <1>4 DEF Typed
  <2>2. overlapped' \in BOOLEAN
    BY DEF StartRun
  <2>3. Typed'
    BY <1>2, <2>1, <2>2 DEF Typed, tables
  <2> QED BY <2>3, Types, PTL
<1>7. RunsInOrder'
  <2>1. runs[lastRun + 1].epoch = 0
    BY <1>2 DEF IInv, RunsInOrder, NoRun
  <2>2. \A r \in RunIds : runs'[r].epoch = runs[r].epoch
    BY <1>2, <1>4, <2>1 DEF Typed
  <2>3. Opened' = Opened
    BY <2>2 DEF Opened
  <2>4. Cardinality(Opened)' = Cardinality(Opened)
    BY <2>3
  <2>5. \A r \in RunIds : r > lastRun' => r > lastRun /\ r # lastRun + 1
    BY <1>2 DEF RunIds
  <2>6. \A r \in RunIds : r > lastRun' => runs'[r] = NoRun
    BY <1>2, <1>4, <2>5 DEF IInv, RunsInOrder, Typed
  <2> QED BY <1>2, <2>4, <2>6 DEF IInv, RunsInOrder, tables
<1>8. EpochsKnown' /\ Context(p)'
  BY <1>2, <1>3, <1>4 DEF IInv, EpochsKnown, tables, Context
<1>9. \A r \in RunIds : runs'[r] = runs[r] \/ runs'[r].gate = "UNKNOWN"
  BY <1>2, <1>4 DEF Typed
<1> QED BY <1>2, <1>5, <1>6, <1>7, <1>8, <1>9, StepKeeps DEF tables

(* A step that moves one process and at most adds evidence.                *)
LEMMA QuietKeeps ==
  ASSUME IInv, NEW p \in Procs, Active(p), UNCHANGED <<runs, lastRun, epochs, lastEpoch>>,
         UNCHANGED <<state, resets, overlapped>>,
         proc' = [proc EXCEPT ![p] = proc'[p]], proc'[p] \in Contexts, Context(p)',
         proc'[p].pc = "idle" \/ proc'[p].run = proc[p].run,
         terminals \subseteq terminals', terminals' \subseteq Terminals,
         \A t \in terminals' \ terminals : Truthful(t)'
  PROVE  IInv'
<1>1. Typed
  BY Types DEF IInv
<1>2. TypeOK'
  <2>1. Typed'
    BY <1>1 DEF Typed
  <2> QED BY <2>1, Types, PTL
<1>3. Effect(p) /\ OwnRun(p)
  BY <1>1 DEF Effect, OwnRun, Typed
<1>4. RunsInOrder' /\ EpochsKnown'
  <2>1. Opened' = Opened
    BY DEF Opened
  <2>2. Cardinality(Opened)' = Cardinality(Opened)
    BY <2>1
  <2> QED BY <2>2 DEF IInv, RunsInOrder, EpochsKnown
<1> QED BY <1>2, <1>3, <1>4, StepKeeps

(* What a process reads of the scope is a row that was there.              *)
LEMMA ReadStateKeeps ==
  ASSUME IInv, NEW p \in Procs, ReadState(p) PROVE IInv'
<1>1. /\ Typed /\ Context(p) /\ proc[p].pc = "started" /\ EpochsKnown
      /\ UNCHANGED <<runs, lastRun, tables, overlapped>>
  BY Types DEF IInv, ReadState
<1>2. /\ proc' = [proc EXCEPT ![p] = proc'[p]] /\ proc'[p] \in Contexts
      /\ proc'[p].pc = "read" /\ proc'[p].seen = state /\ proc'[p].run = proc[p].run
      /\ proc'[p].material = proc[p].material /\ proc'[p].provenance = proc[p].provenance
  BY <1>1 DEF ReadState, Typed, Contexts, States
<1>3. WasState(state)
  BY <1>1 DEF WasState, EpochsKnown, Typed
<1>4. Context(p)'
  BY <1>1, <1>2, <1>3 DEF Context, WasState, tables
<1> QED BY <1>1, <1>2, <1>4, QuietKeeps DEF Active, tables, Typed

(* A gate says QUALIFIED on evidence that is there.                        *)
LEMMA ReadGateKeeps ==
  ASSUME IInv, NEW p \in Procs, ReadGate(p) PROVE IInv'
<1>1. /\ Typed /\ Context(p) /\ proc[p].pc = "read"
      /\ proc[p].seen.material = proc[p].material
      /\ UNCHANGED <<runs, lastRun, tables, overlapped>>
  BY Types DEF IInv, ReadGate, MaterialChanged
<1> DEFINE g == GateStatus(proc[p].seen.epoch, proc[p].material, proc[p].provenance)
<1>2. g \in {"UNKNOWN", "NOT_QUALIFIED", "QUALIFIED"}
  BY DEF GateStatus
<1>3. g = "QUALIFIED" => Evidence(proc[p].seen.epoch, proc[p].material)
  BY DEF GateStatus, Evidence
<1>4. proc' = [proc EXCEPT ![p].pc = "gated", ![p].gate = g]
  BY DEF ReadGate
<1> HIDE DEF g
<1>5. /\ proc' = [proc EXCEPT ![p] = proc'[p]] /\ proc'[p] \in Contexts
      /\ proc'[p].pc = "gated" /\ proc'[p].gate = g /\ proc'[p].run = proc[p].run
      /\ proc'[p].material = proc[p].material /\ proc'[p].provenance = proc[p].provenance
      /\ proc'[p].seen = proc[p].seen
  BY <1>1, <1>2, <1>4 DEF Typed, Contexts
<1>6. Context(p)'
  <2>1. \A e, m : Evidence(e, m) => Evidence(e, m)'
    BY <1>1 DEF Evidence, tables
  <2> QED BY <1>1, <1>3, <1>5, <2>1 DEF Context, WasState, tables
<1> QED BY <1>1, <1>5, <1>6, QuietKeeps DEF Active, tables, Typed

(* A process that dies leaves its run as it is.                            *)
LEMMA CrashKeeps ==
  ASSUME IInv, NEW p \in Procs, Crash(p) PROVE IInv'
<1>1. /\ Typed /\ Active(p) /\ UNCHANGED <<runs, lastRun, tables, overlapped>>
      /\ proc' = [proc EXCEPT ![p] = Idle]
  BY Types DEF IInv, Crash, Active
<1>2. /\ proc' = [proc EXCEPT ![p] = proc'[p]] /\ proc'[p] \in Contexts
      /\ proc'[p].pc = "idle" /\ proc'[p].run = 0
  BY <1>1, IdleContext DEF Typed, Idle
<1>3. Context(p)'
  BY <1>2 DEF Context
<1> QED BY <1>1, <1>2, <1>3, QuietKeeps DEF tables, Typed

(* A terminal event says what its run was and on which epoch.              *)
LEMMA FinishKeeps ==
  ASSUME IInv, NEW p \in Procs, Finish(p) PROVE IInv'
<1> DEFINE me == proc[p]
           new == [run |-> me.run, epoch |-> me.epoch, material |-> me.material,
                   status |-> me.status, counts |-> Counts(me.status, me.provenance)]
<1>1. /\ Typed /\ Context(p) /\ me.pc = "finished" /\ terminals' = terminals \cup {new}
      /\ UNCHANGED <<runs, lastRun, epochs, lastEpoch, state, resets, overlapped>>
      /\ proc' = [proc EXCEPT ![p] = Idle]
  BY Types DEF IInv, Finish
<1>2. /\ me.run \in 1..lastRun /\ me.epoch \in 1..lastEpoch /\ me.material \in Materials
      /\ epochs[me.epoch].material = me.material
      /\ runs[me.run].epoch = me.epoch /\ runs[me.run].material = me.material
      /\ runs[me.run].status = me.status /\ me.status # "none"
      /\ runs[me.run].provenance = me.provenance
  BY <1>1 DEF Context
<1>3. /\ proc' = [proc EXCEPT ![p] = proc'[p]] /\ proc'[p] \in Contexts
      /\ proc'[p].pc = "idle" /\ proc'[p].run = 0
  BY <1>1, IdleContext DEF Typed, Idle
<1>4. new \in Terminals
  <2>1. me.run \in RunIds /\ me.epoch \in EpochIds
    BY <1>1, <1>2, QualificationAssumption DEF Typed, RunIds, EpochIds
  <2>2. me.status \in {"ok", "failed", "blocked_zero_result"}
    BY <1>1, <1>2 DEF Typed, Contexts
  <2> QED BY <1>2, <2>1, <2>2 DEF Terminals, Counts
<1>5. \A t \in terminals' \ terminals : Truthful(t)'
  <2> SUFFICES ASSUME NEW t \in terminals', t = new PROVE Truthful(t)'
    BY <1>1
  <2>1. \A q \in Procs : proc'[q].run # me.run
    <3> SUFFICES ASSUME NEW q \in Procs PROVE proc'[q].run # me.run
      OBVIOUS
    <3>1. CASE q = p
      BY <1>2, <1>3, <3>1
    <3>2. CASE q # p
      BY <1>1, <1>2, <3>2 DEF IInv, OwnRuns, Active, Typed, Context
    <3> QED BY <3>1, <3>2
  <2> QED BY <1>1, <1>2, <2>1 DEF Truthful, Counts
<1>6. Context(p)'
  BY <1>3 DEF Context
<1>7. terminals \subseteq terminals' /\ terminals' \subseteq Terminals
  BY <1>1, <1>4 DEF Typed
<1>8. Active(p) /\ (proc'[p].pc = "idle" \/ proc'[p].run = proc[p].run)
  BY <1>1, <1>3 DEF Active
<1> HIDE DEF new
<1> QED BY <1>1, <1>3, <1>5, <1>6, <1>7, <1>8, QuietKeeps

\* The row of a process's own run is one of the rows.
LEMMA OwnRow ==
  ASSUME IInv, NEW p \in Procs, Active(p)
  PROVE  /\ proc[p].run \in RunIds /\ proc[p].run \in 1..lastRun /\ proc[p] \in Contexts
         /\ runs[proc[p].run] \in Rows
<1>1. Typed /\ Context(p)
  BY Types DEF IInv
<1> QED BY <1>1, QualificationAssumption DEF Typed, Context, Active, RunIds

(* A run that finishes keeps its epoch and material.                       *)
LEMMA FinishRunKeeps ==
  ASSUME IInv, NEW p \in Procs, FinishRun(p) PROVE IInv'
<1>1. PICK s \in {"ok", "failed", "blocked_zero_result"} :
        /\ runs' = [runs EXCEPT ![proc[p].run].status = s]
        /\ proc' = [proc EXCEPT ![p].pc = "finished", ![p].status = s]
  BY DEF FinishRun
<1>2. /\ Typed /\ Context(p) /\ Active(p) /\ proc[p].pc = "collecting"
      /\ UNCHANGED <<lastRun, tables, overlapped>>
  BY Types DEF IInv, FinishRun, Active
<1> DEFINE n == proc[p].run
<1>3. n \in RunIds /\ n \in 1..lastRun /\ runs[n] \in Rows
  BY <1>2, OwnRow
<1>4. /\ proc' = [proc EXCEPT ![p] = proc'[p]] /\ proc'[p] \in Contexts
      /\ proc'[p].pc = "finished" /\ proc'[p].status = s /\ proc'[p].run = n
      /\ proc'[p].material = proc[p].material /\ proc'[p].provenance = proc[p].provenance
      /\ proc'[p].epoch = proc[p].epoch
  BY <1>1, <1>2 DEF Typed, Contexts
<1>5. /\ runs' = [runs EXCEPT ![n] = runs'[n]] /\ runs'[n] \in Rows
      /\ runs'[n].status = s /\ runs'[n].epoch = runs[n].epoch /\ runs'[n].gate = runs[n].gate
      /\ runs'[n].material = runs[n].material /\ runs'[n].provenance = runs[n].provenance
  BY <1>1, <1>2, <1>3 DEF Typed, Rows
<1> HIDE DEF n
<1>6. Effect(p) /\ OwnRun(p)
  BY <1>2, <1>4, <1>5, QualificationAssumption DEF Effect, OwnRun, tables, Typed, RunIds, n
<1>7. TypeOK'
  <2>1. Typed'
    BY <1>2, <1>4, <1>5 DEF Typed, tables
  <2> QED BY <2>1, Types, PTL
<1>8. RunsInOrder'
  <2>1. \A r \in RunIds : runs'[r].epoch = runs[r].epoch
    BY <1>2, <1>5 DEF Typed
  <2>2. Opened' = Opened
    BY <2>1 DEF Opened
  <2>3. Cardinality(Opened)' = Cardinality(Opened)
    BY <2>2
  <2>4. \A r \in RunIds : r > lastRun => r # n
    BY <1>2, <1>3 DEF Typed, RunIds
  <2> QED BY <1>2, <1>5, <2>3, <2>4 DEF IInv, RunsInOrder, tables, Typed
<1>9. EpochsKnown' /\ Context(p)'
  BY <1>1, <1>2, <1>3, <1>4, <1>5 DEF IInv, EpochsKnown, tables, Context, n
<1>10. \A r \in RunIds : runs'[r].gate = "QUALIFIED" =>
        /\ runs[r].gate = "QUALIFIED" /\ runs'[r].gate = runs[r].gate
        /\ runs'[r].epoch = runs[r].epoch /\ runs'[r].material = runs[r].material
  BY <1>2, <1>5 DEF Typed
<1> QED BY <1>2, <1>6, <1>7, <1>8, <1>9, <1>10, StepKeeps DEF tables

(* A run prepared under an unchanged material joins the epoch it saw.      *)
LEMMA KeepEpochKeeps ==
  ASSUME IInv, NEW p \in Procs, KeepEpoch(p) PROVE IInv'
<1> DEFINE n == proc[p].run
           e == proc[p].seen.epoch
           m == proc[p].material
           g == proc[p].gate
<1>1. /\ Typed /\ Context(p) /\ Active(p) /\ proc[p].pc = "gated"
      /\ UNCHANGED <<lastRun, tables, overlapped>>
      /\ runs' = [runs EXCEPT ![n].epoch = e, ![n].material = m, ![n].gate = g]
      /\ proc' = [proc EXCEPT ![p].pc = "collecting", ![p].epoch = e, ![p].gate = g]
  BY Types DEF IInv, KeepEpoch, Prepared, Active
<1>2. n \in RunIds /\ n \in 1..lastRun /\ runs[n] \in Rows /\ proc[p] \in Contexts
  BY <1>1, OwnRow
<1>3. /\ m \in Materials /\ e \in 1..lastEpoch /\ e \in Nat /\ epochs[e].material = m
      /\ runs[n].epoch = 0 /\ runs[n].gate = "UNKNOWN" /\ runs[n].provenance = proc[p].provenance
      /\ g = "QUALIFIED" => Evidence(e, m)
      /\ g \in {"UNKNOWN", "NOT_QUALIFIED", "QUALIFIED"}
  BY <1>1, <1>2, QualificationAssumption DEF Context, WasState, NoState, Contexts, Typed
<1> HIDE DEF n, e, m, g
<1>4. /\ proc' = [proc EXCEPT ![p] = proc'[p]] /\ proc'[p] \in Contexts
      /\ proc'[p].pc = "collecting" /\ proc'[p].epoch = e /\ proc'[p].run = n
      /\ proc'[p].material = m /\ proc'[p].provenance = proc[p].provenance
  BY <1>1, <1>2, <1>3 DEF Typed, Contexts, n, m
<1>5. /\ runs' = [runs EXCEPT ![n] = runs'[n]] /\ runs'[n] \in Rows
      /\ runs'[n].epoch = e /\ runs'[n].gate = g
      /\ runs'[n].material = m /\ runs'[n].provenance = runs[n].provenance
  BY <1>1, <1>2, <1>3 DEF Typed, Rows
<1>6. Effect(p) /\ OwnRun(p)
  BY <1>1, <1>4, <1>5, QualificationAssumption DEF Effect, OwnRun, tables, Typed, RunIds, n
<1>7. TypeOK'
  <2>1. Typed'
    BY <1>1, <1>4, <1>5 DEF Typed, tables
  <2> QED BY <2>1, Types, PTL
<1>8. RunsInOrder'
  <2>1. Opened' = Opened \cup {n}
    BY <1>1, <1>2, <1>3, <1>5 DEF Opened, Typed
  <2>2. n \notin Opened /\ IsFiniteSet(Opened)
    BY <1>3, OpenedIsFinite DEF Opened
  <2>3. Cardinality(Opened) \in Nat /\ Cardinality(Opened') = Cardinality(Opened) + 1
    BY <2>1, <2>2, FS_AddElement, FS_CardinalityType
  <2>4. lastEpoch' <= Cardinality(Opened')
    BY <1>1, <2>3 DEF IInv, RunsInOrder, tables, Typed
  <2>5. \A r \in RunIds : r > lastRun => r # n
    BY <1>1, <1>2 DEF Typed, RunIds
  <2> QED BY <1>1, <1>5, <2>4, <2>5 DEF IInv, RunsInOrder, tables, Typed
<1>9. EpochsKnown' /\ Context(p)'
  <2>1. EpochsKnown'
    BY <1>1 DEF IInv, EpochsKnown, tables
  <2>2. /\ proc'[p].run \in 1..lastRun' /\ proc'[p].epoch \in 1..lastEpoch'
        /\ epochs'[proc'[p].epoch].material = proc'[p].material
        /\ runs'[proc'[p].run].provenance = proc'[p].provenance
        /\ runs'[proc'[p].run].epoch = proc'[p].epoch
        /\ runs'[proc'[p].run].material = proc'[p].material
    BY <1>1, <1>2, <1>3, <1>4, <1>5 DEF tables
  <2>3. Context(p)'
    BY <1>3, <1>4, <2>2 DEF Context
  <2> QED BY <2>1, <2>3
<1>10. \A r \in RunIds : runs'[r] = runs[r] \/ (r = n /\ (runs'[r].gate = "QUALIFIED" =>
         \E t \in terminals : /\ t.run # r /\ t.counts /\ t.epoch = runs'[r].epoch
                              /\ t.material = runs'[r].material))
  <2>1. \A t \in terminals : t.run # n
    BY DEF IInv, Truthful, n
  <2> QED BY <1>1, <1>3, <1>5, <2>1 DEF Typed, Evidence
<1> QED BY <1>1, <1>6, <1>7, <1>8, <1>9, <1>10, StepKeeps DEF tables

(* An epoch that is opened is new, belongs to the run that opened it, and  *)
(* there is no evidence in it.                                             *)
LEMMA OpenEpochKeeps ==
  ASSUME IInv, NEW p \in Procs, OpenEpoch(p) PROVE IInv'
<1> DEFINE n == proc[p].run
           e == lastEpoch + 1
           m == proc[p].material
           prior == proc[p].seen.material
           g == GateStatus(e, m, proc[p].provenance)
<1>1. /\ Typed /\ Context(p) /\ Active(p) /\ proc[p].pc = "read"
      /\ UNCHANGED <<lastRun, terminals, overlapped>>
      /\ runs' = [runs EXCEPT ![n].epoch = e, ![n].material = m, ![n].gate = g]
      /\ proc' = [proc EXCEPT ![p].pc = "collecting", ![p].epoch = e, ![p].gate = g]
      /\ lastEpoch' = e /\ epochs' = [epochs EXCEPT ![e] = [material |-> m, prior |-> prior]]
      /\ state' = [epoch |-> e, material |-> m] /\ resets' = resets \cup Reset(p, e)
      /\ EpochsKnown /\ RunsInOrder
  BY Types DEF IInv, OpenEpoch, Prepared, Active
<1>2. n \in RunIds /\ n \in 1..lastRun /\ runs[n] \in Rows /\ proc[p] \in Contexts
  BY <1>1, OwnRow
<1>3. /\ m \in Materials /\ runs[n].epoch = 0 /\ runs[n].gate = "UNKNOWN"
      /\ runs[n].provenance = proc[p].provenance /\ WasState(proc[p].seen)
  BY <1>1, <1>2 DEF Context
<1>4. /\ g = "QUALIFIED" => Evidence(e, m)
      /\ g \in {"UNKNOWN", "NOT_QUALIFIED", "QUALIFIED"}
  BY DEF GateStatus, Evidence
<1>5. Cardinality(Opened \cup {n}) = Cardinality(Opened) + 1 /\ Cardinality(Opened) \in Nat
  <2>1. n \notin Opened /\ IsFiniteSet(Opened)
    BY <1>3, OpenedIsFinite DEF Opened
  <2> QED BY <2>1, FS_AddElement, FS_CardinalityType
<1>6. e \in Nat /\ e <= Cardinality(Opened \cup {n}) /\ e <= lastRun /\ e \in EpochIds
  <2>1. \A r \in Opened : r \in 1..lastRun
    BY <1>1 DEF Opened, RunsInOrder, NoRun, RunIds, Typed
  <2>2. Opened \cup {n} \in SUBSET (1..lastRun)
    BY <1>2, <2>1
  <2>3. 1 \in Int /\ lastRun \in Int /\ lastRun \in Nat /\ lastRun <= MaxRuns /\ lastEpoch \in Nat
    BY <1>1 DEF Typed
  <2>4. IsFiniteSet(1..lastRun) /\ Cardinality(1..lastRun) = lastRun
    BY <2>3, FS_Interval
  <2>5. Cardinality(Opened \cup {n}) <= lastRun
    BY <2>2, <2>4, FS_Subset
  <2> QED BY <1>1, <1>5, <2>3, <2>5, QualificationAssumption DEF RunsInOrder, EpochIds
<1>7. Reset(p, e) \subseteq [run : RunIds, epoch : EpochIds, prior : Materials]
  <2>1. proc[p].seen # NoState => prior \in Materials
    BY <1>1, <1>3 DEF WasState, EpochsKnown
  <2> QED BY <1>2, <1>6, <2>1 DEF Reset
<1> DEFINE reset == Reset(p, e)
<1> HIDE DEF n, m, g, reset
<1>8. /\ proc' = [proc EXCEPT ![p] = proc'[p]] /\ proc'[p] \in Contexts
      /\ proc'[p].pc = "collecting" /\ proc'[p].epoch = e /\ proc'[p].run = n
      /\ proc'[p].material = m /\ proc'[p].provenance = proc[p].provenance
  BY <1>1, <1>2, <1>4, <1>6 DEF Typed, Contexts, n, m
<1>9. /\ runs' = [runs EXCEPT ![n] = runs'[n]] /\ runs'[n] \in Rows
      /\ runs'[n].epoch = e /\ runs'[n].gate = g
      /\ runs'[n].material = m /\ runs'[n].provenance = runs[n].provenance
  BY <1>1, <1>2, <1>3, <1>4, <1>6 DEF Typed, Rows
<1>10. epochs' \in [EpochIds -> Epochs] /\ epochs'[e].material = m /\ state' \in States
  <2>1. prior \in Materials \cup {NoMaterial}
    BY <1>2 DEF Contexts
  <2> QED BY <1>1, <1>3, <1>6, <2>1 DEF Typed, Epochs, States
<1>11. Effect(p) /\ OwnRun(p)
  BY <1>1, <1>6, <1>8, <1>9, QualificationAssumption
     DEF Effect, OwnRun, Typed, RunIds, EpochIds, n
<1>12. TypeOK'
  <2>1. resets' \subseteq [run : RunIds, epoch : EpochIds, prior : Materials]
    BY <1>1, <1>7 DEF Typed
  <2>2. state'.epoch = e
    BY <1>1
  <2>3. runs' \in [RunIds -> Rows] /\ proc' \in [Procs -> Contexts]
    BY <1>1, <1>8, <1>9 DEF Typed
  <2>4. /\ lastRun' \in Nat /\ lastRun' <= MaxRuns /\ lastEpoch' \in Nat /\ lastEpoch' <= lastRun'
        /\ state'.epoch <= lastEpoch' /\ terminals' \subseteq Terminals /\ overlapped' \in BOOLEAN
    BY <1>1, <1>6, <2>2 DEF Typed
  <2>5. Typed'
    BY <1>10, <2>1, <2>3, <2>4 DEF Typed
  <2> QED BY <2>5, Types, PTL
<1>13. RunsInOrder'
  <2>1. Opened' = Opened \cup {n}
    BY <1>1, <1>2, <1>6, <1>9 DEF Opened, Typed
  <2>2. lastEpoch' <= Cardinality(Opened')
    BY <1>1, <1>6, <2>1
  <2>3. \A r \in RunIds : r > lastRun => r # n
    BY <1>1, <1>2 DEF Typed, RunIds
  <2> QED BY <1>1, <1>9, <2>2, <2>3 DEF RunsInOrder, Typed
<1>14. EpochsKnown'
  <2>1. state'.epoch = lastEpoch' /\ lastEpoch' # 0 /\ state'.material = m /\ epochs'[e].material = m
    BY <1>1, <1>6, <1>10 DEF Typed
  <2>2. \A d \in 1..lastEpoch' : epochs'[d].material \in Materials
    <3> SUFFICES ASSUME NEW d \in 1..lastEpoch', d # e PROVE epochs'[d].material \in Materials
      BY <1>3, <1>10
    <3>1. d \in 1..lastEpoch
      BY <1>1, <1>6 DEF Typed
    <3> QED BY <1>1, <3>1, <1>11 DEF Effect, EpochsKnown
  <2> QED BY <1>1, <2>1, <2>2 DEF EpochsKnown
<1>15. Context(p)'
  <2>1. /\ proc'[p].run \in 1..lastRun' /\ proc'[p].epoch \in 1..lastEpoch'
        /\ epochs'[proc'[p].epoch].material = proc'[p].material
        /\ runs'[proc'[p].run].provenance = proc'[p].provenance
        /\ runs'[proc'[p].run].epoch = proc'[p].epoch
        /\ runs'[proc'[p].run].material = proc'[p].material
    BY <1>1, <1>2, <1>3, <1>6, <1>8, <1>9, <1>10 DEF Typed
  <2> QED BY <1>3, <1>8, <2>1 DEF Context
<1>16. \A r \in RunIds : runs'[r] = runs[r] \/ (r = n /\ (runs'[r].gate = "QUALIFIED" =>
         \E t \in terminals : /\ t.run # r /\ t.counts /\ t.epoch = runs'[r].epoch
                              /\ t.material = runs'[r].material))
  <2>1. \A t \in terminals : t.run # n
    BY DEF IInv, Truthful, n
  <2> QED BY <1>1, <1>4, <1>9, <2>1 DEF Typed, Evidence
<1> QED BY <1>1, <1>11, <1>12, <1>13, <1>14, <1>15, <1>16, StepKeeps

-----------------------------------------------------------------------------
(* The invariant is inductive.                                             *)
LEMMA InvNext == IInv /\ [Next]_vars => IInv'
<1> SUFFICES ASSUME IInv, [Next]_vars PROVE IInv'
  OBVIOUS
<1>1. ASSUME Next PROVE IInv'
  BY <1>1, StartRunKeeps, ReadStateKeeps, OpenEpochKeeps, ReadGateKeeps, KeepEpochKeeps,
     FinishRunKeeps, FinishKeeps, CrashKeeps DEF Next
<1>2. CASE UNCHANGED vars
  <2>1. Opened' = Opened
    BY <1>2 DEF vars, Opened
  <2>2. Cardinality(Opened)' = Cardinality(Opened)
    BY <2>1
  <2>3. TypeOK' /\ RunsInOrder' /\ EpochsKnown' /\ OwnRuns' /\ PreparedUnderEvidence'
    BY <1>2, <2>2 DEF vars, tables, IInv, TypeOK, RunsInOrder, EpochsKnown, OwnRuns, Active,
                      PreparedUnderEvidence
  <2>4. \A p \in Procs : Context(p)'
    BY <1>2 DEF vars, tables, IInv, Context, WasState, Evidence
  <2>5. \A t \in terminals' : Truthful(t)'
    BY <1>2 DEF vars, tables, IInv, Truthful
  <2> QED BY <2>3, <2>4, <2>5 DEF IInv
<1> QED BY <1>1, <1>2

(* Every behaviour keeps it.                                               *)
LEMMA Invariance == Spec => []IInv
  BY InvInit, InvNext, PTL DEF Spec

(* Rows and contexts keep their types: in particular the counter of epochs *)
(* never passes the one of runs, so that every epoch has a run that opened *)
(* it.                                                                     *)
THEOREM TypeCorrect == Spec => []TypeOK
<1>1. IInv => TypeOK
  BY DEF IInv
<1> QED BY <1>1, Invariance, PTL

(* gate() says QUALIFIED of a material only on the record of a scheduled   *)
(* run that finished ok, in the current epoch and with that material.      *)
THEOREM QualifiedOnlyWhenEarned == Spec => []QualifiedIsEarned
<1>1. IInv => QualifiedIsEarned
  <2> SUFFICES ASSUME IInv, NEW m \in Materials, Gate(m) = "QUALIFIED"
               PROVE  \E r \in RunIds :
                        /\ runs[r].status = "ok" /\ runs[r].provenance = "SCHEDULED"
                        /\ runs[r].epoch = state.epoch /\ runs[r].material = m
                        /\ epochs[state.epoch].material = m
    BY DEF QualifiedIsEarned
  <2>1. /\ state # NoState /\ state.material = m
        /\ \E t \in terminals : t.epoch = state.epoch /\ t.status = "ok" /\ t.counts
    BY DEF Gate
  <2>2. PICK t \in terminals : t.epoch = state.epoch /\ t.status = "ok" /\ t.counts
    BY <2>1
  <2>3. Truthful(t) /\ EpochsKnown /\ Typed /\ t.run \in RunIds
    BY <2>2, Types DEF IInv, Typed, Terminals
  <2>4. epochs[state.epoch].material = m
    BY <2>1, <2>3 DEF EpochsKnown, Typed
  <2> QED BY <2>2, <2>3, <2>4 DEF Truthful
<1> QED BY <1>1, Invariance, PTL

(* prepare() lets a run start QUALIFIED only on the evidence of another    *)
(* run of its epoch, and that evidence stays.                              *)
THEOREM GateStaysTrue == Spec => []PreparedUnderEvidence
<1>1. IInv => PreparedUnderEvidence
  BY DEF IInv
<1> QED BY <1>1, Invariance, PTL

-----------------------------------------------------------------------------
\* While runs keep apart one process is active, and what it read is current.
Apart ==
  ~overlapped =>
    /\ \A p, q \in Procs : Active(p) /\ Active(q) => p = q
    /\ \A p \in Procs : proc[p].pc \in {"read", "gated"} => proc[p].seen = state

ResetsKnown ==
  \A t \in resets : /\ t.run \in 1..lastRun /\ t.epoch \in 2..lastEpoch
                    /\ runs[t.run].epoch = t.epoch

ResetsUnique == \A s, t \in resets : s.epoch = t.epoch => s = t

\* Epoch e was opened by a change of the material before it.
Inherited(e) ==
  /\ epochs[e].prior = epochs[e - 1].material /\ epochs[e].prior # epochs[e].material
  /\ \E t \in resets : t.epoch = e /\ t.prior = epochs[e].prior /\ runs[t.run].epoch = e

Lineage ==
  /\ IInv
  /\ Apart
  /\ ResetsKnown
  /\ ResetsUnique
  /\ ~overlapped => \A e \in 2..lastEpoch : Inherited(e)

(* There is no lineage at first.                                           *)
LEMMA LineageInit == Init => Lineage
<1> SUFFICES ASSUME Init PROVE Lineage
  OBVIOUS
<1>1. \A p \in Procs : proc[p].pc = "idle"
  BY DEF Init, Idle
<1> QED BY <1>1, InvInit DEF Lineage, Init, Apart, Active, ResetsKnown, ResetsUnique

\* What a step that opens no epoch keeps of the lineage.
LEMMA LineageStays ==
  ASSUME Lineage, IInv', Apart', UNCHANGED tables \/ UNCHANGED <<epochs, lastEpoch, resets>>,
         overlapped => overlapped', lastRun <= lastRun',
         \A r \in 1..lastRun : runs[r].epoch # 0 => runs'[r].epoch = runs[r].epoch
  PROVE  Lineage'
<1>1. /\ UNCHANGED <<epochs, lastEpoch, resets>> /\ lastRun \in Nat /\ lastRun' \in Nat
      /\ lastEpoch \in Nat
  BY Types, QualificationAssumption DEF tables, Lineage, IInv, TypeOK
<1>2. \A t \in resets : runs'[t.run].epoch = runs[t.run].epoch /\ t.run \in 1..lastRun'
  BY <1>1 DEF Lineage, ResetsKnown
<1>3. ResetsKnown' /\ ResetsUnique'
  BY <1>1, <1>2 DEF Lineage, ResetsKnown, ResetsUnique
<1>4. ASSUME ~overlapped', NEW e \in 2..lastEpoch PROVE Inherited(e)'
  BY <1>1, <1>2, <1>4 DEF Lineage, Inherited
<1> QED BY <1>1, <1>3, <1>4 DEF Lineage

\* A step of one process that starts no run leaves runs as far apart.
LEMMA ApartStays ==
  ASSUME Apart, NEW p \in Procs, Active(p), UNCHANGED <<state, overlapped>>,
         \A q \in Procs \ {p} : proc'[q] = proc[q],
         proc'[p].pc \in {"read", "gated"} => proc'[p].seen = state \/
           (proc[p].pc \in {"read", "gated"} /\ proc'[p].seen = proc[p].seen)
  PROVE  Apart'
<1> SUFFICES ASSUME ~overlapped
             PROVE  /\ \A q, r \in Procs : proc'[q].pc # "idle" /\ proc'[r].pc # "idle" => q = r
                    /\ \A q \in Procs : proc'[q].pc \in {"read", "gated"} => proc'[q].seen = state
  BY DEF Apart, Active
<1>1. \A q \in Procs : Active(q) => q = p
  BY DEF Apart
<1>2. \A q \in Procs : q # p => proc'[q].pc = "idle"
  BY <1>1 DEF Active
<1> QED BY <1>2 DEF Apart

(* Opening an epoch while runs keep apart extends the lineage by one.      *)
LEMMA OpenEpochExtends ==
  ASSUME Lineage, NEW p \in Procs, OpenEpoch(p) PROVE Lineage'
<1> DEFINE n == proc[p].run
           e == lastEpoch + 1
           m == proc[p].material
           prior == proc[p].seen.material
           new == [run |-> n, epoch |-> e, prior |-> prior]
<1>1. /\ Typed /\ Context(p) /\ Active(p) /\ proc[p].pc = "read" /\ IInv /\ IInv' /\ prior # m
      /\ UNCHANGED <<lastRun, terminals, overlapped>> /\ EpochsKnown
      /\ lastEpoch' = e /\ epochs' = [epochs EXCEPT ![e] = [material |-> m, prior |-> prior]]
      /\ resets' = resets \cup Reset(p, e) /\ Typed'
  <2>1. IInv /\ IInv'
    BY OpenEpochKeeps DEF Lineage
  <2>2. Typed /\ Typed'
    BY <2>1, Types, PTL DEF IInv
  <2> QED BY <2>1, <2>2 DEF IInv, OpenEpoch, Active, MaterialChanged
<1>2. /\ \A q \in Procs \ {p} : proc'[q] = proc[q] 
      /\ proc'[p].pc = "collecting"
  BY <1>1 DEF OpenEpoch, Prepared, Typed
<1>3. /\ \A r \in RunIds : r # n => runs'[r] = runs[r]
      /\ n \in RunIds /\ n \in 1..lastRun /\ runs[n].epoch = 0 /\ runs'[n].epoch = e
  <2>1. n \in RunIds /\ n \in 1..lastRun /\ runs[n] \in Rows /\ runs[n].epoch = 0
    BY <1>1, OwnRow DEF Context
  <2>2. PICK g : runs' = [runs EXCEPT ![n].epoch = e, ![n].material = m, ![n].gate = g]
    BY DEF OpenEpoch, Prepared
  <2> QED BY <1>1, <2>1, <2>2 DEF Typed, Rows
<1>4. lastEpoch \in Nat /\ lastRun \in Nat /\ e \in EpochIds /\ \A d \in 1..lastEpoch : d \in EpochIds
  BY <1>1, QualificationAssumption DEF Typed, EpochIds
<1>5. /\ epochs'[e].material = m /\ epochs'[e].prior = prior
      /\ \A d \in 1..lastEpoch : epochs'[d] = epochs[d]
  BY <1>1, <1>4 DEF Typed
<1>6. Reset(p, e) = IF proc[p].seen = NoState THEN {} ELSE {new}
  BY DEF Reset
<1>7. proc[p].seen # NoState => lastEpoch >= 1
  BY <1>1, <1>4 DEF Context, WasState
<1>8. \A t \in resets : /\ runs'[t.run].epoch = runs[t.run].epoch /\ t.run \in 1..lastRun
                        /\ t.epoch \in 2..lastEpoch /\ runs[t.run].epoch = t.epoch
  <2> SUFFICES ASSUME NEW t \in resets
               PROVE  /\ runs'[t.run].epoch = runs[t.run].epoch /\ t.run \in 1..lastRun
                      /\ t.epoch \in 2..lastEpoch /\ runs[t.run].epoch = t.epoch
    OBVIOUS
  <2>1. /\ t.run \in 1..lastRun /\ t.epoch \in 2..lastEpoch /\ runs[t.run].epoch = t.epoch
        /\ t.run \in RunIds
    BY <1>1 DEF Lineage, ResetsKnown, Typed
  <2>2. t.run # n
    BY <1>3, <1>4, <2>1
  <2> QED BY <1>3, <2>1, <2>2
<1> HIDE DEF n, m, prior
<1>9. ResetsKnown'
  BY <1>1, <1>3, <1>4, <1>6, <1>7, <1>8 DEF ResetsKnown
<1>10. ResetsUnique'
  <2>1. \A t \in resets : t.epoch # e
    BY <1>4, <1>8
  <2> QED BY <1>1, <1>6, <2>1 DEF Lineage, ResetsUnique
<1>11. Apart'
  <2> SUFFICES ASSUME ~overlapped
               PROVE  /\ \A q, r \in Procs : proc'[q].pc # "idle" /\ proc'[r].pc # "idle" => q = r
                      /\ \A q \in Procs : proc'[q].pc \notin {"read", "gated"}
    BY <1>1 DEF Apart, Active
  <2>1. \A q \in Procs : q # p => proc'[q].pc = "idle"
    BY <1>1, <1>2 DEF Lineage, Apart, Active
  <2> QED BY <1>2, <2>1
<1>12. ASSUME ~overlapped, NEW d \in 2..lastEpoch' PROVE Inherited(d)'
  <2>1. CASE d = e
    <3>1. proc[p].seen = state
      BY <1>1, <1>12 DEF Lineage, Apart
    <3>2. state.epoch = lastEpoch /\ lastEpoch \in 1..lastEpoch /\ lastEpoch = e - 1
      BY <1>1, <1>4, <2>1 DEF EpochsKnown
    <3>3. prior = epochs[e - 1].material /\ proc[p].seen # NoState
      BY <1>1, <3>1, <3>2, <1>4 DEF EpochsKnown, NoState, prior
    <3>4. new \in resets' /\ new.epoch = e /\ new.prior = prior /\ new.run = n
      BY <1>1, <1>6, <3>3
    <3>5. epochs'[e].prior = epochs'[e - 1].material
      BY <1>5, <3>2, <3>3
    <3> HIDE DEF new, e
    <3> QED BY <1>1, <1>3, <1>5, <2>1, <3>4, <3>5 DEF Inherited
  <2>2. CASE d # e
    <3>1. d \in 2..lastEpoch /\ d \in 1..lastEpoch /\ d - 1 \in 1..lastEpoch
      BY <1>1, <1>4, <2>2
    <3>2. Inherited(d)
      BY <1>12, <3>1 DEF Lineage
    <3> QED BY <1>1, <1>5, <1>8, <3>1, <3>2 DEF Inherited
  <2> QED BY <2>1, <2>2
<1> QED BY <1>1, <1>9, <1>10, <1>11, <1>12 DEF Lineage

(* So the lineage is an invariant: no other step touches it, and a run     *)
(* that starts beside another ends the promise.                            *)
LEMMA LineageNext == Lineage /\ [Next]_vars => Lineage'
<1> SUFFICES ASSUME Lineage, [Next]_vars PROVE Lineage'
  OBVIOUS
<1>1. IInv /\ IInv' /\ Typed /\ Typed'
  <2>1. IInv /\ IInv'
    BY InvNext DEF Lineage
  <2> QED BY <2>1, Types, PTL DEF IInv
<1>2. ASSUME NEW p \in Procs, StartRun(p) PROVE Lineage'
  <2>1. PICK v \in Provenances, m \in Materials :
          proc' = [proc EXCEPT ![p] = [Idle EXCEPT !.pc = "started", !.run = lastRun + 1,
                                                   !.provenance = v, !.material = m]]
    BY <1>2 DEF StartRun
  <2>2. /\ proc'[p].pc = "started" /\ \A q \in Procs \ {p} : proc'[q] = proc[q]
        /\ UNCHANGED tables /\ lastRun' = lastRun + 1
        /\ overlapped' <=> (overlapped \/ \E q \in Procs : proc[q].pc # "idle")
    BY <1>1, <1>2, <2>1 DEF StartRun, Typed, Idle
  <2>3. Apart'
    BY <2>2 DEF Apart, Active
  <2>4. \A r \in 1..lastRun : runs'[r] = runs[r]
    BY <1>1, <1>2, QualificationAssumption DEF StartRun, Typed, RunIds
  <2> QED BY <1>1, <2>2, <2>3, <2>4, LineageStays DEF Typed
<1>3. ASSUME NEW p \in Procs, ReadState(p) \/ ReadGate(p) \/ Crash(p) \/ Finish(p)
      PROVE  Lineage'
  <2>1. /\ Active(p) /\ \A q \in Procs \ {p} : proc'[q] = proc[q]
        /\ UNCHANGED <<runs, lastRun, epochs, lastEpoch, state, resets, overlapped>>
    BY <1>1, <1>3 DEF ReadState, ReadGate, Crash, Finish, Active, Typed, tables
  <2>2. proc'[p].pc \in {"read", "gated"} =>
          proc'[p].seen = state \/
          (proc[p].pc \in {"read", "gated"} /\ proc'[p].seen = proc[p].seen)
    BY <1>1, <1>3 DEF ReadState, ReadGate, Crash, Finish, Idle, Typed, Contexts
  <2>3. Apart'
    BY <2>1, <2>2, ApartStays DEF Lineage
  <2> QED BY <1>1, <2>1, <2>3, LineageStays DEF Typed
<1>4. ASSUME NEW p \in Procs, KeepEpoch(p) \/ FinishRun(p) PROVE Lineage'
  <2>1. /\ Active(p) /\ \A q \in Procs \ {p} : proc'[q] = proc[q]
        /\ UNCHANGED <<lastRun, tables, overlapped>>
    BY <1>1, <1>4 DEF KeepEpoch, FinishRun, Prepared, Active, Typed
  <2>2. proc'[p].pc \notin {"read", "gated"}
    BY <1>1, <1>4 DEF KeepEpoch, FinishRun, Prepared, Typed, Contexts
  <2>3. Apart'
    BY <2>1, <2>2, ApartStays DEF Lineage, tables
  <2>4. proc[p].run \in RunIds /\ runs[proc[p].run] \in Rows
    BY <1>1, <2>1, OwnRow
  <2>5. KeepEpoch(p) => runs[proc[p].run].epoch = 0
    BY <1>1 DEF KeepEpoch, IInv, Context
  <2>6. \A r \in RunIds : runs[r].epoch # 0 => runs'[r].epoch = runs[r].epoch
    <3>1. CASE KeepEpoch(p)
      BY <1>1, <2>4, <2>5, <3>1 DEF KeepEpoch, Prepared, Typed
    <3>2. CASE FinishRun(p)
      <4>1. PICK s : runs' = [runs EXCEPT ![proc[p].run].status = s]
        BY <3>2 DEF FinishRun
      <4> QED BY <1>1, <2>4, <4>1 DEF Typed, Rows
    <3> QED BY <1>4, <3>1, <3>2
  <2>7. \A r \in 1..lastRun : r \in RunIds
    BY <1>1, QualificationAssumption DEF Typed, RunIds
  <2> QED BY <1>1, <2>1, <2>3, <2>6, <2>7, LineageStays DEF Typed, tables
<1>5. CASE UNCHANGED vars
  <2>1. Apart'
    BY <1>5 DEF vars, tables, Lineage, Apart, Active
  <2> QED BY <1>1, <1>5, <2>1, LineageStays DEF vars, tables, Typed
<1> QED BY <1>2, <1>3, <1>4, <1>5, OpenEpochExtends DEF Next

(* While no run meets another, the epochs form one chain: each was opened  *)
(* by one RESET that names the material of the one before, and the newest  *)
(* is the scope's.                                                         *)
THEOREM LineageUnbroken == Spec => []LineageIsUnbroken
<1>1. Lineage => LineageIsUnbroken
  <2> SUFFICES ASSUME Lineage, ~overlapped
               PROVE  /\ state.epoch = lastEpoch
                      /\ \A e \in 2..lastEpoch : Inherited(e)
                      /\ \A s, t \in resets : s.epoch > 1 /\ (s.epoch = t.epoch => s = t)
    BY DEF LineageIsUnbroken, Inherited
  <2>1. state.epoch = lastEpoch
    BY DEF Lineage, IInv, EpochsKnown
  <2>2. \A t \in resets : t.epoch > 1
    BY Types DEF Lineage, ResetsKnown, IInv, Typed
  <2> QED BY <2>1, <2>2 DEF Lineage, ResetsUnique
<1> QED BY <1>1, LineageInit, LineageNext, PTL DEF Spec
=============================================================================
