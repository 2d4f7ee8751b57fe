----------------------------- MODULE Collection -----------------------------
(***************************************************************************)
(* local_collection.py: the dashboard's controller.  HTTP threads start    *)
(* one collector or all production collectors, each in a worker thread;    *)
(* workers of the dashboard and runs of the command line exclude each      *)
(* other by one run lock per database.                                     *)
(***************************************************************************)
EXTENDS Sequences, SequencesExt

CONSTANTS
  Sources,     \* registered collectors
  Scope,       \* scope.production_collectors, in order
  Threads,     \* worker threads that may exist at a time
  Cli,         \* a run of the command line
  Nobody,      \* no holder
  Failures     \* how opening store and scope may fail: "refused" by the
               \* compatibility gate, "raised" whatever else

ASSUME CollectionAssumption ==
  /\ Scope \in Seq(Sources) /\ IsInjective(Scope)
  /\ Cli \notin Threads /\ Nobody \notin Threads \cup {Cli}
  /\ Failures \subseteq {"refused", "raised"}

VARIABLES
  states,   \* _states: one per source
  lock,     \* holder of the run lock of each database
  worker    \* where each thread is: its database and the sources left to it

vars == <<states, lock, worker>>

-----------------------------------------------------------------------------
Mode == {"production", "experimental"}

Busy == \E s \in Sources : states[s] \in {"queued", "running"}

NoWorker == [pc |-> "none", mode |-> "production", todo |-> <<>>]

Init ==
  /\ states = [s \in Sources |-> "idle"]
  /\ lock = [m \in Mode |-> Nobody]
  /\ worker = [t \in Threads |-> NoWorker]

\* _set for every source of a sequence.
Set(seq, state) == [s \in Sources |-> IF s \in ToSet(seq) THEN state ELSE states[s]]

\* The check and the queueing are one critical section of _guard.
MutantQueue(t, seq, mode) ==    \* the guard is dropped between check and queue
  /\ worker[t].pc = "none" /\ seq # <<>>
  /\ \E s \in Sources : states[s] # "running"
  /\ states' = Set(seq, "queued")
  /\ worker' = [worker EXCEPT ![t] = [pc |-> "spawned", mode |-> mode, todo |-> seq]]
  /\ UNCHANGED lock

Queue(t, seq, mode) ==
  /\ worker[t].pc = "none" /\ seq # <<>>
  /\ ~Busy
  /\ states' = Set(seq, "queued")
  /\ worker' = [worker EXCEPT ![t] = [pc |-> "spawned", mode |-> mode, todo |-> seq]]
  /\ UNCHANGED lock

Start(t) == \E s \in Sources, mode \in Mode : Queue(t, <<s>>, mode)

StartAllProduction(t) == Queue(t, Scope, "production")

-----------------------------------------------------------------------------
(* Worker threads: _run_one and _run_all_production.                       *)

MutantAcquire(t) ==    \* a busy lock is reported but not respected
  LET me == worker[t] IN
  /\ me.pc = "spawned"
  /\ lock' = [lock EXCEPT ![me.mode] = t]
  /\ worker' = [worker EXCEPT ![t].pc = "opening"]
  /\ UNCHANGED states

Acquire(t) ==
  LET me == worker[t] IN
  /\ me.pc = "spawned"
  /\ \/ /\ lock[me.mode] = Nobody
        /\ lock' = [lock EXCEPT ![me.mode] = t]
        /\ worker' = [worker EXCEPT ![t].pc = "opening"]
        /\ UNCHANGED states
     \/ /\ lock[me.mode] # Nobody
        /\ states' = Set(me.todo, "already_running")
        /\ worker' = [worker EXCEPT ![t] = NoWorker]
        /\ UNCHANGED lock

\* SqliteStore(...) and load_scope; only StateCompatibilityError is caught.
Open(t) ==
  LET me == worker[t] IN
  /\ me.pc = "opening"
  /\ \/ worker' = [worker EXCEPT ![t].pc = "next"] /\ UNCHANGED states
     \/ \E failure \in Failures :
          /\ states' = IF failure = "refused" THEN Set(me.todo, "blocked") ELSE states
          /\ worker' = [worker EXCEPT ![t].pc = "closing", ![t].todo = <<>>]
  /\ UNCHANGED lock

\* How _run_single words what the runner returned or raised; nothing the
\* collector or the runner raises escapes it.
Outcome == {"success", "failed", "blocked"}

RunSingle(t) ==
  LET me == worker[t] IN
  /\ me.pc = "next" /\ me.todo # <<>>
  /\ states' = [states EXCEPT ![Head(me.todo)] = "running"]
  /\ worker' = [worker EXCEPT ![t].pc = "collecting"]
  /\ UNCHANGED lock

MutantEndSingle(t) ==    \* an exception of the collector ends the thread
  LET me == worker[t] IN
  /\ me.pc = "collecting"
  /\ \/ /\ states' = [states EXCEPT ![Head(me.todo)] = "success"]
        /\ worker' = [worker EXCEPT ![t].pc = "next", ![t].todo = Tail(me.todo)]
     \/ /\ worker' = [worker EXCEPT ![t].pc = "closing", ![t].todo = <<>>]
        /\ UNCHANGED states
  /\ UNCHANGED lock

EndSingle(t) ==
  LET me == worker[t] IN
  /\ me.pc = "collecting"
  /\ \E outcome \in Outcome :
       states' = [states EXCEPT ![Head(me.todo)] = outcome]
  /\ worker' = [worker EXCEPT ![t].pc = "next", ![t].todo = Tail(me.todo)]
  /\ UNCHANGED lock

\* The last state is already final when store and lock are given back.
Close(t) ==
  LET me == worker[t] IN
  /\ me.pc = "closing" \/ (me.pc = "next" /\ me.todo = <<>>)
  /\ lock' = [lock EXCEPT ![me.mode] = Nobody]
  /\ worker' = [worker EXCEPT ![t] = NoWorker]
  /\ UNCHANGED states

-----------------------------------------------------------------------------
\* cmd_run and cmd_run_experimental hold the lock of their database.
CliAcquire(m) == lock[m] = Nobody /\ lock' = [lock EXCEPT ![m] = Cli] /\ UNCHANGED <<states, worker>>
CliRelease(m) == lock[m] = Cli /\ lock' = [lock EXCEPT ![m] = Nobody] /\ UNCHANGED <<states, worker>>

Step(t) == Acquire(t) \/ Open(t) \/ RunSingle(t) \/ EndSingle(t) \/ Close(t)

Next ==
  \/ \E t \in Threads : Start(t) \/ StartAllProduction(t) \/ Step(t)
  \/ \E m \in Mode : CliAcquire(m) \/ CliRelease(m)

Spec == Init /\ [][Next]_vars

\* A spawned thread keeps running; nobody has to press a button.
FairSpec == Spec /\ \A t \in Threads : WF_vars(Step(t))

-----------------------------------------------------------------------------
Working(t) == worker[t].pc \in {"opening", "next", "collecting", "closing"}

(* States, locks and workers keep their types; a worker lists no source    *)
(* twice.                                                                  *)
TypeOK ==
  /\ states \in [Sources -> {"idle", "queued", "running", "success", "failed",
                             "blocked", "already_running"}]
  /\ lock \in [Mode -> Threads \cup {Cli, Nobody}]
  /\ worker \in [Threads ->
       [pc : {"none", "spawned", "opening", "next", "collecting", "closing"},
        mode : Mode, todo : {seq \in Seq(Sources) : IsInjective(seq)}]]

(* Whatever start() refuses as collection_already_running has a live       *)
(* worker that will end it, and only one: a final state is never           *)
(* overwritten by another worker, and the refusal is true.                 *)
BusyHasOwner ==
  \A s \in Sources : states[s] \in {"queued", "running"} =>
    \E t \in Threads : /\ s \in ToSet(worker[t].todo)
                       /\ \A u \in Threads \ {t} : worker[u].todo = <<>>

(* One collection per database, dashboard and command line together.       *)
OneRunPerDatabase ==
  \A t \in Threads : Working(t) =>
    /\ lock[worker[t].mode] = t
    /\ \A u \in Threads \ {t} : Working(u) => worker[u].mode # worker[t].mode

(* Every accepted start comes to an end and the controls are free again.   *)
StartsEnd == Busy ~> ~Busy
=============================================================================
