--------------------------- MODULE CollectionProofs ---------------------------
(***************************************************************************)
(* One collection per database, and no collector reported busy without a   *)
(* thread that will end it, for any sources, scope and number of threads.  *)
(***************************************************************************)
EXTENDS Collection, TLAPS

Lists == {seq \in Seq(Sources) : IsInjective(seq)}

Workers == [pc : {"none", "spawned", "opening", "next", "collecting", "closing"},
            mode : Mode, todo : Lists]

\* A worker that works holds the lock of its database.
Holds == \A t \in Threads : Working(t) => lock[worker[t].mode] = t

\* Who collects has a source to collect.
Collects == \A t \in Threads : worker[t].pc = "collecting" => worker[t].todo # <<>>

LInv == TypeOK /\ Holds /\ Collects

\* What a sequence of distinct sources lists.
LEMMA Listed ==
  ASSUME NEW seq \in Lists, seq # <<>>
  PROVE  /\ Head(seq) \in Sources /\ Head(seq) \in ToSet(seq) /\ Tail(seq) \in Lists
         /\ ToSet(Tail(seq)) = ToSet(seq) \ {Head(seq)}
<1>1. /\ seq \in Seq(Sources) /\ Len(seq) \in Nat /\ Len(seq) > 0
      /\ \A i, j \in 1..Len(seq) : seq[i] = seq[j] => i = j
  BY DEF Lists, IsInjective
<1>2. /\ Head(seq) = seq[1] /\ Head(seq) \in Sources
      /\ Tail(seq) \in Seq(Sources) /\ Len(Tail(seq)) = Len(seq) - 1
      /\ \A i \in 1..(Len(seq) - 1) : Tail(seq)[i] = seq[i + 1]
  BY <1>1
<1>3. IsInjective(Tail(seq))
  BY <1>1, <1>2 DEF IsInjective
<1>5. DOMAIN seq = 1..Len(seq) /\ DOMAIN Tail(seq) = 1..(Len(seq) - 1)
  BY <1>1, <1>2
<1>4. ToSet(Tail(seq)) = ToSet(seq) \ {Head(seq)}
  <2>1. ASSUME NEW i \in 1..(Len(seq) - 1) PROVE Tail(seq)[i] \in ToSet(seq) /\ Tail(seq)[i] # Head(seq)
    <3>1. i + 1 \in 1..Len(seq) /\ 1 \in 1..Len(seq) /\ i + 1 # 1 /\ Tail(seq)[i] = seq[i + 1]
      BY <1>1, <1>2
    <3> QED BY <1>1, <1>2, <1>5, <3>1 DEF ToSet
  <2>2. ASSUME NEW i \in 1..Len(seq), seq[i] # seq[1] PROVE seq[i] \in ToSet(Tail(seq))
    <3>1. i - 1 \in 1..(Len(seq) - 1) /\ (i - 1) + 1 = i
      BY <1>1, <2>2
    <3>2. Tail(seq)[i - 1] = seq[i]
      BY <1>2, <3>1
    <3> QED BY <1>5, <3>1, <3>2 DEF ToSet
  <2>3. \A x \in ToSet(seq) : x # Head(seq) => x \in ToSet(Tail(seq))
    BY <1>2, <1>5, <2>2 DEF ToSet
  <2>4. \A x \in ToSet(Tail(seq)) : x \in ToSet(seq) /\ x # Head(seq)
    BY <1>5, <2>1 DEF ToSet
  <2> QED BY <2>3, <2>4
<1>6. Head(seq) \in ToSet(seq)
  BY <1>1, <1>2, <1>5 DEF ToSet
<1> QED BY <1>2, <1>3, <1>4, <1>6 DEF Lists

\* Lists that are there.
LEMMA SomeLists ==
  /\ <<>> \in Lists /\ Scope \in Lists /\ \A s \in Sources : <<s>> \in Lists
<1>1. <<>> \in Lists
  BY DEF Lists, IsInjective
<1>2. \A s \in Sources : <<s>> \in Lists
  BY DEF Lists, IsInjective
<1> QED BY <1>1, <1>2, CollectionAssumption DEF Lists

-----------------------------------------------------------------------------
States == {"idle", "queued", "running", "success", "failed", "blocked", "already_running"}

\* The types, by the names of this module.
LEMMA Types ==
  TypeOK <=> /\ states \in [Sources -> States] /\ lock \in [Mode -> Threads \cup {Cli, Nobody}]
             /\ worker \in [Threads -> Workers]
BY DEF TypeOK, States, Workers, Lists

\* What a step of worker t does to the workers.
OnlyMoves(t) == worker' = [worker EXCEPT ![t] = worker'[t]] /\ worker'[t] \in Workers

\* A worker that neither takes nor gives a lock keeps it.
LEMMA LockKept ==
  ASSUME LInv, NEW t \in Threads, OnlyMoves(t), UNCHANGED lock, states' \in [Sources -> States],
         Working(t)' => Working(t) /\ worker'[t].mode = worker[t].mode,
         worker'[t].pc = "collecting" => worker'[t].todo # <<>>
  PROVE  LInv'
<1>1. worker \in [Threads -> Workers] /\ lock \in [Mode -> Threads \cup {Cli, Nobody}]
  BY Types DEF LInv
<1>2. worker' \in [Threads -> Workers] /\ \A u \in Threads \ {t} : worker'[u] = worker[u]
  BY <1>1 DEF OnlyMoves
<1>3. TypeOK'
  BY <1>1, <1>2 DEF TypeOK, States, Workers, Lists
<1>4. Holds'
  BY <1>2 DEF LInv, Holds, Working
<1>5. Collects'
  BY <1>2 DEF LInv, Collects
<1> QED BY <1>3, <1>4, <1>5 DEF LInv

(* Queueing takes no lock.                                                 *)
LEMMA QueueMoves ==
  ASSUME LInv, NEW t \in Threads, NEW seq \in Lists, NEW mode \in Mode, Queue(t, seq, mode)
  PROVE  /\ OnlyMoves(t) /\ states' = Set(seq, "queued") /\ seq # <<>> /\ ~Busy
         /\ worker'[t].pc = "spawned" /\ worker'[t].todo = seq /\ LInv'
<1>1. worker \in [Threads -> Workers] /\ states \in [Sources -> States]
  BY Types DEF LInv
<1>2. /\ OnlyMoves(t) /\ worker'[t].pc = "spawned" /\ worker'[t].todo = seq
      /\ states' = Set(seq, "queued") /\ seq # <<>> /\ ~Busy /\ UNCHANGED lock
  BY <1>1 DEF Queue, OnlyMoves, Workers
<1>3. states' \in [Sources -> States]
  BY <1>1, <1>2 DEF Set, States
<1> QED BY <1>2, <1>3, LockKept DEF Working

\* Both buttons queue a list of distinct sources.
LEMMA StartQueues ==
  ASSUME NEW t \in Threads, Start(t) \/ StartAllProduction(t)
  PROVE  \E seq \in Lists, mode \in Mode : Queue(t, seq, mode)
BY SomeLists DEF Start, StartAllProduction, Mode

(* A worker takes a free lock only, and gives back its own only.           *)
LEMMA StepMoves ==
  ASSUME LInv, NEW t \in Threads, Step(t)
  PROVE  OnlyMoves(t) /\ LInv'
<1>1. /\ TypeOK /\ worker \in [Threads -> Workers] /\ states \in [Sources -> States]
      /\ lock \in [Mode -> Threads \cup {Cli, Nobody}] /\ worker[t] \in Workers
  BY Types DEF LInv
<1>2. NoWorker \in Workers
  BY SomeLists DEF NoWorker, Workers, Mode
<1>3. \A state \in States : Set(worker[t].todo, state) \in [Sources -> States]
  BY <1>1 DEF Set
<1>4. CASE Acquire(t)
  <2>1. CASE lock[worker[t].mode] = Nobody
    <3>1. /\ lock' = [lock EXCEPT ![worker[t].mode] = t] /\ UNCHANGED states
          /\ worker' = [worker EXCEPT ![t].pc = "opening"]
      BY <1>4, <2>1 DEF Acquire
    <3>2. /\ OnlyMoves(t) /\ worker'[t].pc = "opening" /\ worker'[t].mode = worker[t].mode
          /\ worker[t].mode \in Mode
      BY <1>1, <3>1 DEF OnlyMoves, Workers
    <3>3. worker' \in [Threads -> Workers] /\ \A u \in Threads \ {t} : worker'[u] = worker[u]
      BY <1>1, <3>2 DEF OnlyMoves
    <3>4. lock' \in [Mode -> Threads \cup {Cli, Nobody}] /\ lock'[worker[t].mode] = t
      BY <1>1, <3>1, <3>2
    <3>5. TypeOK'
      BY <1>1, <3>1, <3>3, <3>4 DEF TypeOK, States, Workers, Lists
    <3>6. \A u \in Threads : Working(u) => worker[u].mode # worker[t].mode
      BY <2>1, CollectionAssumption DEF LInv, Holds
    <3>7. Holds'
      BY <1>1, <3>1, <3>2, <3>3, <3>4, <3>6 DEF LInv, Holds, Working
    <3>8. Collects'
      BY <3>2, <3>3 DEF LInv, Collects
    <3> QED BY <3>2, <3>5, <3>7, <3>8 DEF LInv
  <2>2. CASE lock[worker[t].mode] # Nobody
    <3>1. /\ states' = Set(worker[t].todo, "already_running") /\ UNCHANGED lock
          /\ worker' = [worker EXCEPT ![t] = NoWorker]
      BY <1>4, <2>2 DEF Acquire
    <3>2. OnlyMoves(t) /\ worker'[t].pc = "none"
      BY <1>1, <1>2, <3>1 DEF OnlyMoves, NoWorker
    <3> QED BY <1>3, <3>1, <3>2, LockKept DEF Working, States
  <2> QED BY <2>1, <2>2
<1>5. CASE Open(t) \/ RunSingle(t) \/ EndSingle(t)
  <2>1. Working(t) /\ UNCHANGED lock
    BY <1>5 DEF Open, RunSingle, EndSingle, Working
  <2>2. /\ states' \in [Sources -> States] /\ OnlyMoves(t) /\ worker'[t].mode = worker[t].mode
        /\ worker'[t].pc = "collecting" => worker'[t].todo # <<>>
    <3>1. CASE Open(t)
      <4>1. states' \in {states, Set(worker[t].todo, "blocked")}
        BY <3>1 DEF Open
      <4>2. \/ worker' = [worker EXCEPT ![t].pc = "next"]
            \/ worker' = [worker EXCEPT ![t].pc = "closing", ![t].todo = <<>>]
        BY <3>1 DEF Open
      <4>3. /\ OnlyMoves(t) /\ worker'[t].mode = worker[t].mode
            /\ worker'[t].pc # "collecting"
        BY <1>1, <4>2, SomeLists DEF OnlyMoves, Workers
      <4> QED BY <1>1, <1>3, <4>1, <4>3 DEF States
    <3>2. CASE RunSingle(t)
      BY <1>1, <3>2 DEF RunSingle, OnlyMoves, Workers, States
    <3>3. CASE EndSingle(t)
      <4>1. worker[t].todo \in Lists /\ worker[t].todo # <<>>
        BY <1>1, <3>3 DEF EndSingle, LInv, Collects, Workers
      <4>2. Tail(worker[t].todo) \in Lists
        BY <4>1, Listed
      <4> QED BY <1>1, <3>3, <4>2 DEF EndSingle, OnlyMoves, Workers, States, Outcome
    <3> QED BY <1>5, <3>1, <3>2, <3>3
  <2> QED BY <2>1, <2>2, LockKept
<1>6. CASE Close(t)
  <2>1. /\ lock' = [lock EXCEPT ![worker[t].mode] = Nobody] /\ UNCHANGED states /\ Working(t)
        /\ worker' = [worker EXCEPT ![t] = NoWorker]
    BY <1>6 DEF Close, Working
  <2>2. OnlyMoves(t) /\ worker'[t].pc = "none"
    BY <1>1, <1>2, <2>1 DEF OnlyMoves, NoWorker
  <2>3. worker' \in [Threads -> Workers] /\ \A u \in Threads \ {t} : worker'[u] = worker[u]
    BY <1>1, <2>2 DEF OnlyMoves
  <2>4. lock' \in [Mode -> Threads \cup {Cli, Nobody}] /\ TypeOK'
    BY <1>1, <2>1, <2>3 DEF TypeOK, States, Workers, Lists
  <2>5. \A u \in Threads \ {t} : Working(u) => worker[u].mode # worker[t].mode
    BY <2>1 DEF LInv, Holds
  <2>6. Holds'
    BY <1>1, <2>1, <2>2, <2>3, <2>5 DEF LInv, Holds, Working, Workers
  <2>7. Collects'
    BY <2>2, <2>3 DEF LInv, Collects
  <2> QED BY <2>2, <2>4, <2>6, <2>7 DEF LInv
<1> QED BY <1>4, <1>5, <1>6 DEF Step

\* The command line takes and gives back its own lock.
LEMMA CliMoves ==
  ASSUME LInv, NEW m \in Mode, CliAcquire(m) \/ CliRelease(m)
  PROVE  LInv' /\ UNCHANGED <<states, worker>>
<1>1. /\ TypeOK /\ UNCHANGED <<states, worker>> /\ lock \in [Mode -> Threads \cup {Cli, Nobody}]
      /\ lock[m] \in {Cli, Nobody} /\ \E h \in {Cli, Nobody} : lock' = [lock EXCEPT ![m] = h]
  BY Types DEF LInv, CliAcquire, CliRelease
<1>2. TypeOK'
  BY <1>1 DEF TypeOK
<1>3. Holds'
  BY <1>1, CollectionAssumption DEF LInv, Holds, Working
<1>4. Collects'
  BY <1>1 DEF LInv, Collects
<1> QED BY <1>1, <1>2, <1>3, <1>4 DEF LInv

(* Nobody holds anything at first.                                         *)
LEMMA LockInit == Init => LInv
<1> SUFFICES ASSUME Init PROVE LInv
  OBVIOUS
<1>1. NoWorker \in Workers
  BY SomeLists DEF NoWorker, Workers, Mode
<1>2. TypeOK
  BY <1>1, Types DEF Init, States
<1> QED BY <1>2 DEF LInv, Holds, Collects, Working, Init, NoWorker

(* Locks and types are invariant.                                          *)
LEMMA LockInvariance == Spec => []LInv
<1>1. Init => LInv
  BY LockInit
<1>2. LInv /\ [Next]_vars => LInv'
  <2> SUFFICES ASSUME LInv, [Next]_vars PROVE LInv'
    OBVIOUS
  <2>1. ASSUME NEW t \in Threads, Start(t) \/ StartAllProduction(t) \/ Step(t) PROVE LInv'
    BY <2>1, StartQueues, QueueMoves, StepMoves
  <2>2. ASSUME NEW m \in Mode, CliAcquire(m) \/ CliRelease(m) PROVE LInv'
    BY <2>2, CliMoves
  <2>3. CASE UNCHANGED vars
    BY <2>3 DEF vars, LInv, TypeOK, Holds, Collects, Working
  <2> QED BY <2>1, <2>2, <2>3 DEF Next
<1> QED BY <1>1, <1>2, PTL DEF Spec

(* States, locks and workers keep their types.                             *)
THEOREM TypeCorrect == Spec => []TypeOK
<1>1. LInv => TypeOK
  BY DEF LInv
<1> QED BY <1>1, LockInvariance, PTL

(* One collection per database, dashboard and command line together: a     *)
(* worker that has opened its store holds the lock, and no other does.     *)
THEOREM OneRun == Spec => []OneRunPerDatabase
<1>1. LInv => OneRunPerDatabase
  BY DEF LInv, Holds, OneRunPerDatabase
<1> QED BY <1>1, LockInvariance, PTL

-----------------------------------------------------------------------------
\* A source still on a worker's list waits for it or is being collected.
Kept == \A t \in Threads : \A s \in ToSet(worker[t].todo) : states[s] \in {"queued", "running"}

\* At most one worker has a list, and whatever is busy is on it.
Alone == \A t, u \in Threads : worker[t].todo # <<>> /\ worker[u].todo # <<>> => t = u

Owned ==
  \A s \in Sources : states[s] \in {"queued", "running"} =>
    \E t \in Threads : s \in ToSet(worker[t].todo)

Ended == \A t \in Threads : worker[t].pc \in {"none", "closing"} => worker[t].todo = <<>>

BInv ==
  /\ "raised" \notin Failures
  /\ LInv /\ Kept /\ Alone /\ Owned /\ Ended

\* A list with something on it is not empty.
LEMMA OnList ==
  /\ ToSet(<<>>) = {}
  /\ \A seq \in Lists : ToSet(seq) \subseteq Sources
BY DEF ToSet, Lists

\* A busy source belongs to the only worker that has a list.
LEMMA OwnerIsAlone ==
  ASSUME BInv PROVE BusyHasOwner
<1> SUFFICES ASSUME NEW s \in Sources, states[s] \in {"queued", "running"}
             PROVE  \E t \in Threads : /\ s \in ToSet(worker[t].todo)
                                       /\ \A u \in Threads \ {t} : worker[u].todo = <<>>
  BY DEF BusyHasOwner
<1>1. PICK t \in Threads : s \in ToSet(worker[t].todo)
  BY DEF BInv, Owned
<1>2. worker[t].todo # <<>>
  BY <1>1, OnList
<1> QED BY <1>1, <1>2 DEF BInv, Alone

(* A list shrinks as its sources reach a final state.                      *)
LEMMA ListShrinks ==
  ASSUME BInv, LInv', NEW t \in Threads, OnlyMoves(t),
         ToSet(worker'[t].todo) \subseteq ToSet(worker[t].todo),
         worker[t].todo = <<>> => worker'[t].todo = <<>>,
         worker'[t].pc \in {"none", "closing"} => worker'[t].todo = <<>>,
         \A s \in Sources \ ToSet(worker[t].todo) : states'[s] = states[s],
         \A s \in ToSet(worker[t].todo) :
           states'[s] \in {"queued", "running"} <=> s \in ToSet(worker'[t].todo)
  PROVE  BInv'
<1>1. worker \in [Threads -> Workers]
  BY Types DEF BInv, LInv
<1>2. \A u \in Threads \ {t} : worker'[u] = worker[u]
  BY <1>1 DEF OnlyMoves
<1>3. \A u \in Threads : ToSet(worker[u].todo) \subseteq Sources
  BY <1>1, OnList DEF Workers
<1>4. Alone' /\ Ended'
  BY <1>2 DEF BInv, Alone, Ended
<1>5. ASSUME NEW u \in Threads, NEW s \in ToSet(worker'[u].todo)
      PROVE  states'[s] \in {"queued", "running"}
  <2>1. CASE u = t
    BY <1>5, <2>1
  <2>2. CASE u # t
    <3>1. s \in ToSet(worker[u].todo) /\ worker[u].todo # <<>>
      BY <1>2, <1>5, <2>2, OnList
    <3>2. ToSet(worker[t].todo) = {}
      BY <2>2, <3>1, OnList DEF BInv, Alone
    <3> QED BY <1>3, <3>1, <3>2 DEF BInv, Kept
  <2> QED BY <2>1, <2>2
<1>6. ASSUME NEW s \in Sources, states'[s] \in {"queued", "running"}
      PROVE  \E u \in Threads : s \in ToSet(worker'[u].todo)
  <2>1. CASE s \in ToSet(worker[t].todo)
    BY <1>6, <2>1
  <2>2. CASE s \notin ToSet(worker[t].todo)
    <3>1. PICK u \in Threads : s \in ToSet(worker[u].todo)
      BY <1>6, <2>2 DEF BInv, Owned
    <3>2. u # t
      BY <2>2, <3>1
    <3> QED BY <1>2, <3>1, <3>2
  <2> QED BY <2>1, <2>2
<1> QED BY <1>4, <1>5, <1>6 DEF BInv, Kept, Owned

(* A new list is of sources that nothing else has.                         *)
LEMMA QueueOwns ==
  ASSUME BInv, NEW t \in Threads, Start(t) \/ StartAllProduction(t) PROVE BInv'
<1>1. PICK seq \in Lists, mode \in Mode : Queue(t, seq, mode)
  BY StartQueues
<1>2. /\ OnlyMoves(t) /\ states' = Set(seq, "queued") /\ seq # <<>> /\ ~Busy
      /\ worker'[t].pc = "spawned" /\ worker'[t].todo = seq /\ LInv'
  BY <1>1, QueueMoves DEF BInv
<1>3. worker \in [Threads -> Workers] /\ \A u \in Threads \ {t} : worker'[u] = worker[u]
  BY <1>2, Types DEF BInv, LInv, OnlyMoves
<1>4. \A u \in Threads : worker[u].todo = <<>>
  <2> SUFFICES ASSUME NEW u \in Threads, worker[u].todo # <<>> PROVE FALSE
    OBVIOUS
  <2>1. worker[u].todo \in Lists
    BY <1>3 DEF Workers
  <2>2. Head(worker[u].todo) \in ToSet(worker[u].todo) /\ Head(worker[u].todo) \in Sources
    BY <2>1, Listed
  <2> QED BY <1>2, <2>2 DEF BInv, Kept, Busy
<1>5. \A s \in Sources : states'[s] \in {"queued", "running"} <=> s \in ToSet(seq)
  BY <1>2 DEF Set, Busy
<1>6. ToSet(seq) \subseteq Sources
  BY OnList
<1>7. Kept' /\ Owned'
  BY <1>2, <1>3, <1>4, <1>5, <1>6, OnList DEF Kept, Owned
<1>8. Alone' /\ Ended'
  BY <1>2, <1>3, <1>4 DEF Alone, Ended, BInv
<1> QED BY <1>2, <1>7, <1>8 DEF BInv

(* Every step of a worker shrinks its list, or leaves it.                  *)
LEMMA StepOwns ==
  ASSUME BInv, NEW t \in Threads, Step(t) PROVE BInv'
<1> DEFINE todo == worker[t].todo
<1>1. OnlyMoves(t) /\ LInv'
  BY StepMoves DEF BInv
<1>2. /\ worker \in [Threads -> Workers] /\ states \in [Sources -> States] /\ worker[t] \in Workers
      /\ ToSet(todo) \subseteq Sources
      /\ \A s \in ToSet(todo) : states[s] \in {"queued", "running"}
  BY Types, OnList DEF BInv, LInv, Kept, Workers
<1>3. ASSUME UNCHANGED states, worker'[t].todo = todo, worker'[t].pc \notin {"none", "closing"}
      PROVE  BInv'
  BY <1>1, <1>2, <1>3, ListShrinks
<1>4. ASSUME NEW state \in {"already_running", "blocked"}, states' = Set(todo, state),
             worker'[t].todo = <<>>
      PROVE  BInv'
  <2>1. /\ \A s \in Sources \ ToSet(todo) : states'[s] = states[s]
        /\ \A s \in ToSet(todo) : states'[s] = state
    BY <1>2, <1>4 DEF Set
  <2> QED BY <1>1, <1>4, <2>1, OnList, ListShrinks
<1>5. CASE Acquire(t)
  <2>1. CASE lock[worker[t].mode] = Nobody
    <3>1. UNCHANGED states /\ worker' = [worker EXCEPT ![t].pc = "opening"]
      BY <1>5, <2>1 DEF Acquire
    <3>2. worker'[t].todo = todo /\ worker'[t].pc = "opening"
      BY <1>2, <3>1 DEF Workers
    <3> QED BY <1>3, <3>1, <3>2
  <2>2. CASE lock[worker[t].mode] # Nobody
    <3>1. states' = Set(todo, "already_running") /\ worker' = [worker EXCEPT ![t] = NoWorker]
      BY <1>5, <2>2 DEF Acquire
    <3>2. worker'[t].todo = <<>>
      BY <1>2, <3>1 DEF NoWorker
    <3> QED BY <1>4, <3>1, <3>2
  <2> QED BY <2>1, <2>2
<1>6. CASE Open(t)
  <2>1. \/ worker' = [worker EXCEPT ![t].pc = "next"] /\ UNCHANGED states
        \/ /\ states' = Set(todo, "blocked")
           /\ worker' = [worker EXCEPT ![t].pc = "closing", ![t].todo = <<>>]
    BY <1>6, CollectionAssumption DEF Open, BInv
  <2>2. CASE worker' = [worker EXCEPT ![t].pc = "next"] /\ UNCHANGED states
    <3>1. worker'[t].todo = todo /\ worker'[t].pc = "next"
      BY <1>2, <2>2 DEF Workers
    <3> QED BY <1>3, <2>2, <3>1
  <2>3. CASE /\ states' = Set(todo, "blocked")
             /\ worker' = [worker EXCEPT ![t].pc = "closing", ![t].todo = <<>>]
    <3>1. worker'[t].todo = <<>>
      BY <1>2, <2>3 DEF Workers
    <3> QED BY <1>4, <2>3, <3>1
  <2> QED BY <2>1, <2>2, <2>3
<1>7. CASE RunSingle(t)
  <2>1. /\ todo # <<>> /\ states' = [states EXCEPT ![Head(todo)] = "running"]
        /\ worker' = [worker EXCEPT ![t].pc = "collecting"]
    BY <1>7 DEF RunSingle
  <2>2. worker'[t].todo = todo /\ worker'[t].pc = "collecting"
    BY <1>2, <2>1 DEF Workers
  <2>3. Head(todo) \in ToSet(todo) /\ todo \in Lists
    BY <1>2, <2>1, Listed DEF Workers
  <2>4. /\ \A s \in Sources \ ToSet(todo) : states'[s] = states[s]
        /\ \A s \in ToSet(todo) : states'[s] \in {"queued", "running"}
    BY <1>2, <2>1, <2>3
  <2> QED BY <1>1, <2>1, <2>2, <2>4, ListShrinks
<1>8. CASE EndSingle(t)
  <2>1. PICK outcome \in Outcome : states' = [states EXCEPT ![Head(todo)] = outcome]
    BY <1>8 DEF EndSingle
  <2>2. /\ todo # <<>> /\ worker' = [worker EXCEPT ![t].pc = "next", ![t].todo = Tail(todo)]
    BY <1>8 DEF EndSingle, BInv, LInv, Collects
  <2>3. worker'[t].todo = Tail(todo) /\ worker'[t].pc = "next"
    BY <1>2, <2>2 DEF Workers
  <2>4. /\ Head(todo) \in ToSet(todo) /\ todo \in Lists
        /\ ToSet(Tail(todo)) = ToSet(todo) \ {Head(todo)}
    BY <1>2, <2>2, Listed DEF Workers
  <2>5. /\ \A s \in Sources \ ToSet(todo) : states'[s] = states[s]
        /\ \A s \in ToSet(todo) :
             states'[s] \in {"queued", "running"} <=> s \in ToSet(Tail(todo))
    BY <1>2, <2>1, <2>4 DEF Outcome
  <2> HIDE DEF todo
  <2>6. BInv'
    BY <1>1, <2>2, <2>3, <2>4, <2>5, ListShrinks DEF todo
  <2> QED BY <2>6
<1>9. CASE Close(t)
  <2>1. UNCHANGED states /\ worker' = [worker EXCEPT ![t] = NoWorker] /\ todo = <<>>
    BY <1>9 DEF Close, BInv, Ended
  <2>2. worker'[t].todo = <<>>
    BY <1>2, <2>1 DEF NoWorker
  <2> QED BY <1>1, <2>1, <2>2, OnList, ListShrinks
<1> QED BY <1>5, <1>6, <1>7, <1>8, <1>9 DEF Step

(* While opening a store fails in no way but the compatibility gate's,     *)
(* whatever is refused as collection_already_running has one live worker   *)
(* that will end it; the run with other failures shows that the proviso is *)
(* needed.                                                                 *)
THEOREM BusyIsOwned == Spec /\ "raised" \notin Failures => []BusyHasOwner
<1>1. Init /\ "raised" \notin Failures => BInv
  <2> SUFFICES ASSUME Init, "raised" \notin Failures PROVE BInv
    OBVIOUS
  <2>1. LInv
    BY LockInit
  <2> QED BY <2>1, OnList DEF Init, BInv, Kept, Alone, Owned, Ended, NoWorker
<1>2. BInv /\ [Next]_vars => BInv'
  <2> SUFFICES ASSUME BInv, [Next]_vars PROVE BInv'
    OBVIOUS
  <2>1. ASSUME NEW t \in Threads, Start(t) \/ StartAllProduction(t) \/ Step(t) PROVE BInv'
    BY <2>1, QueueOwns, StepOwns
  <2>2. ASSUME LInv', UNCHANGED <<states, worker>> PROVE BInv'
    BY <2>2 DEF BInv, Kept, Alone, Owned, Ended
  <2>3. ASSUME NEW m \in Mode, CliAcquire(m) \/ CliRelease(m) PROVE BInv'
    BY <2>2, <2>3, CliMoves DEF BInv
  <2>4. CASE UNCHANGED vars
    <3>1. LInv'
      BY <2>4 DEF vars, BInv, LInv, TypeOK, Holds, Collects, Working
    <3> QED BY <2>2, <2>4, <3>1 DEF vars
  <2> QED BY <2>1, <2>3, <2>4 DEF Next
<1>3. BInv => BusyHasOwner
  BY OwnerIsAlone
<1> QED BY <1>1, <1>2, <1>3, PTL DEF Spec

-----------------------------------------------------------------------------
\* Before the lock, before the store, at the sources, done with them.
Stage(pc) ==
  CASE pc = "spawned" -> 1 [] pc = "opening" -> 2 [] pc \in {"next", "collecting"} -> 3 [] OTHER -> 4

\* A worker goes on: it ends, or comes to its next stage, or has a source
\* less to collect, or begins with the one at hand.
Advances(t) ==
  LET me == worker[t]  then == worker'[t] IN
  \/ then = NoWorker
  \/ then.mode = me.mode /\ Stage(me.pc) < Stage(then.pc)
  \/ /\ then.mode = me.mode /\ Stage(me.pc) = Stage(then.pc)
     /\ \/ Len(then.todo) < Len(me.todo)
        \/ me.pc = "next" /\ then.pc = "collecting" /\ then.todo = me.todo

LEMMA StepAdvances ==
  ASSUME LInv, NEW t \in Threads, Step(t)
  PROVE  Advances(t) /\ \A u \in Threads \ {t} : worker'[u] = worker[u]
<1>1. /\ worker \in [Threads -> Workers] /\ worker[t] \in Workers
      /\ worker[t].pc = "collecting" => worker[t].todo # <<>>
  BY Types DEF LInv, Collects
<1>2. \A u \in Threads \ {t} : worker'[u] = worker[u]
  BY <1>1, StepMoves DEF OnlyMoves
<1>3. CASE Acquire(t)
  BY <1>1, <1>3 DEF Acquire, Advances, Stage, Workers
<1>4. CASE Open(t)
  BY <1>1, <1>4 DEF Open, Advances, Stage, Workers
<1>5. CASE RunSingle(t)
  BY <1>1, <1>5 DEF RunSingle, Advances, Stage, Workers
<1>6. CASE EndSingle(t)
  <2>1. /\ worker'[t].mode = worker[t].mode /\ worker'[t].pc = "next"
        /\ worker'[t].todo = Tail(worker[t].todo) /\ worker[t].pc = "collecting"
    BY <1>1, <1>6 DEF EndSingle, Workers
  <2>2. Len(Tail(worker[t].todo)) < Len(worker[t].todo)
    <3>1. worker[t].todo \in Seq(Sources) /\ worker[t].todo # <<>>
      BY <1>1, <2>1 DEF Workers, Lists
    <3> QED BY <3>1
  <2>3. Stage("next") = 3 /\ Stage("collecting") = 3
    BY DEF Stage
  <2> QED BY <1>2, <2>1, <2>2, <2>3 DEF Advances
<1>7. CASE Close(t)
  BY <1>1, <1>7 DEF Close, Advances
<1> QED BY <1>2, <1>3, <1>4, <1>5, <1>6, <1>7 DEF Step

(* local_collection.py:122-234: a worker never takes back a step, and      *)
(* nobody else moves it: not another worker, a button or the command line. *)
(* Its stages and its sources are finitely many, so one that keeps running *)
(* comes to its end.  This is the safety half of StartsEnd.                *)
THEOREM WorkersGoOn ==
  Spec => [][\A t \in Threads :
               worker[t].pc # "none" => worker'[t] = worker[t] \/ Advances(t)]_vars
<1>1. LInv /\ [Next]_vars =>
        [\A t \in Threads : worker[t].pc # "none" => worker'[t] = worker[t] \/ Advances(t)]_vars
  <2> SUFFICES ASSUME LInv, Next, NEW t \in Threads, worker[t].pc # "none"
               PROVE  worker'[t] = worker[t] \/ Advances(t)
    OBVIOUS
  <2>1. ASSUME NEW u \in Threads, Start(u) \/ StartAllProduction(u)
        PROVE  worker'[t] = worker[t]
    <3>1. PICK seq \in Lists, mode \in Mode : Queue(u, seq, mode)
      BY <2>1, StartQueues
    <3>2. u # t /\ worker \in [Threads -> Workers]
      BY <2>1, <3>1, Types DEF Queue, LInv
    <3>3. \E new : worker' = [worker EXCEPT ![u] = new]
      BY <3>1 DEF Queue
    <3> QED BY <3>2, <3>3
  <2>2. ASSUME NEW u \in Threads, Step(u)
        PROVE  worker'[t] = worker[t] \/ Advances(t)
    BY <2>2, StepAdvances
  <2>3. ASSUME NEW m \in Mode, CliAcquire(m) \/ CliRelease(m)
        PROVE  worker'[t] = worker[t]
    BY <2>3, CliMoves
  <2> QED BY <2>1, <2>2, <2>3 DEF Next
<1> QED BY <1>1, LockInvariance, PTL DEF Spec
=============================================================================
