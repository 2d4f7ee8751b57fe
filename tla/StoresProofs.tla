----------------------------- MODULE StoresProofs -----------------------------
(***************************************************************************)
(* Proofs about Stores: recovery points, the continuity registry and the   *)
(* review archive, and that what holds of each file by itself holds of all *)
(* of them together.                                                       *)
(***************************************************************************)
EXTENDS Stores, AdmissionProofs, StoreTxProofs

-----------------------------------------------------------------------------
(* The registry.                                                           *)

Lines == ToSet(Seeds) \cup {TornLine}

Seeding(k) == keeper[k].at = "seeding"

\* An overlapping process may have lost what it wrote behind a torn line.
Swallowed == crowded /\ TornLine \in ToSet(registry)

\* What a process has read or written is there, and with it all the seeds
\* behind it.
Informed(k) ==
  \/ Swallowed
  \/ /\ keeper[k].known \subseteq ToSet(registry)
     /\ \A i \in 1..(keeper[k].next - 1) : Seeds[i] \in ToSet(registry)

\* Processes that keep apart know everything that is there.
Alone ==
  ~crowded => /\ \A j, k \in Keepers : Seeding(j) /\ Seeding(k) => j = k
              /\ \A k \in Keepers : Seeding(k) => ToSet(registry) \subseteq keeper[k].known

RegistryInv ==
  /\ ContinuityTypeOK
  /\ \A k \in Keepers : Seeding(k) => Informed(k)
  /\ Alone
  /\ SeedsOnce
  /\ EnsuredIsComplete

-----------------------------------------------------------------------------
(* Recovery points.                                                        *)

IsSnapshot(file) == file \in [state : {"whole"}, rows : SUBSET Rows]

WholeFile(file) == IsSnapshot(file) /\ \A x \in file.rows : Whole(file.rows, x.run)

PointInv ==
  /\ BackupTypeOK
  /\ target # NoFile => WholeFile(target)
  /\ From("checking") => WholeFile(partial)
  /\ backup.at \in {"copying", "checking"} /\ ~backup.force => target = NoFile
  /\ backup.at \in {"replaced", "beside"} => promised = Nothing /\ target # NoFile
  /\ promised # Nothing => target # NoFile
  /\ PromiseKept

-----------------------------------------------------------------------------
(* Reviews.                                                                *)

\* The run that recorded event e is the latest that had started by then.
Recorded(e) ==
  LET event == events[e] IN
  /\ event.detected <= clock
  /\ event.run \in 1..Len(starts) /\ starts[event.run] <= event.detected
  /\ \A r \in 1..Len(starts) : starts[r] <= event.detected => r <= event.run

\* What a request carries is about its event, and stays so.
Pertinent(t) ==
  LET me == thread[t] IN
  me.at # "free" =>
    /\ me.event \in 1..Len(events) /\ me.decision \in Decisions
    /\ me.run = events[me.event].run
    /\ me.at = "begun" => /\ me.existing = reviews[me.event]
                          /\ \A u \in Threads : thread[u].at = "begun" => u = t

Reviewed(e) ==
  /\ verdicts[e] # <<>> => reviews[e].decision \in Decisions
  /\ reviews[e] # NoReview => e \in 1..Len(events)

ArchiveInv ==
  /\ QcTypeOK
  /\ Len(starts) <= clock /\ Len(events) <= clock
  /\ \A r \in 1..Len(starts) : starts[r] <= clock
  /\ \A e \in 1..Len(events) : Recorded(e)
  /\ \A t \in Threads : Pertinent(t)
  /\ \A e \in EventIds : Reviewed(e)
  /\ NoVerdictLost
  /\ ReviewNamesItsRun

-----------------------------------------------------------------------------
(* The registry's lines and seeds as the proofs use them.                  *)
LEMMA SeedFacts ==
  /\ Len(Seeds) \in Nat /\ DOMAIN Seeds = 1..Len(Seeds) /\ TornLine \notin ToSet(Seeds)
  /\ \A i \in 1..Len(Seeds) : Seeds[i] \in ToSet(Seeds)
  /\ ToSet(Seeds) = {Seeds[i] : i \in 1..Len(Seeds)}
BY SeedsAssumption DEF ToSet

(* One more line at the end of a sequence.                                 *)
LEMMA OneMore ==
  ASSUME NEW S, NEW seq \in Seq(S), NEW line \in S
  PROVE  /\ Append(seq, line) \in Seq(S)
         /\ ToSet(Append(seq, line)) = ToSet(seq) \cup {line}
         /\ IsInjective(seq) /\ line \notin ToSet(seq) => IsInjective(Append(seq, line))
<1>1. /\ Len(seq) \in Nat /\ DOMAIN seq = 1..Len(seq)
      /\ Append(seq, line) \in Seq(S) /\ Len(Append(seq, line)) = Len(seq) + 1
      /\ DOMAIN Append(seq, line) = 1..(Len(seq) + 1)
      /\ \A i \in 1..Len(seq) : Append(seq, line)[i] = seq[i]
      /\ Append(seq, line)[Len(seq) + 1] = line
  OBVIOUS
<1>2. \A i \in 1..(Len(seq) + 1) : i \in 1..Len(seq) \/ i = Len(seq) + 1
  BY <1>1
<1>3. ToSet(Append(seq, line)) = ToSet(seq) \cup {line}
  <2>1. ToSet(Append(seq, line)) \subseteq ToSet(seq) \cup {line}
    BY <1>1, <1>2 DEF ToSet
  <2>2. ToSet(seq) \subseteq ToSet(Append(seq, line))
    BY <1>1 DEF ToSet
  <2>3. line \in ToSet(Append(seq, line))
    <3>1. Len(seq) + 1 \in 1..(Len(seq) + 1)
      BY <1>1
    <3> QED BY <1>1, <3>1 DEF ToSet
  <2> QED BY <2>1, <2>2, <2>3
<1>4. ASSUME IsInjective(seq), line \notin ToSet(seq)
      PROVE  IsInjective(Append(seq, line))
  <2> SUFFICES ASSUME NEW i \in 1..(Len(seq) + 1), NEW j \in 1..(Len(seq) + 1),
                      Append(seq, line)[i] = Append(seq, line)[j]
               PROVE  i = j
    BY <1>1 DEF IsInjective
  <2>1. \A x \in 1..Len(seq) : seq[x] \in ToSet(seq)
    BY <1>1 DEF ToSet
  <2>2. \A x, y \in 1..Len(seq) : seq[x] = seq[y] => x = y
    BY <1>1, <1>4 DEF IsInjective
  <2> QED BY <1>1, <1>2, <1>4, <2>1, <2>2
<1> QED BY <1>1, <1>3, <1>4

(* continuity.py:126: an append adds its line, or is lost behind a torn    *)
(* one; nothing that was there goes away.                                  *)
LEMMA Appending ==
  ASSUME registry \in Seq(Lines), NEW line \in Lines
  PROVE  /\ Appended(line) \in Seq(Lines)
         /\ ToSet(registry) \subseteq ToSet(Appended(line))
         /\ TornLine \notin ToSet(registry) => Appended(line) = Append(registry, line)
         /\ \/ line \in ToSet(Appended(line))
            \/ TornLine \in ToSet(registry)
<1>1. CASE registry # <<>> /\ Last(registry) = TornLine
  <2>1. TornLine \in ToSet(registry)
    <3>1. Len(registry) \in DOMAIN registry
      BY <1>1
    <3> QED BY <1>1, <3>1 DEF ToSet, Last
  <2> QED BY <1>1, <2>1 DEF Appended
<1>2. CASE ~(registry # <<>> /\ Last(registry) = TornLine)
  <2>1. Appended(line) = Append(registry, line)
    BY <1>2 DEF Appended
  <2> QED BY <2>1, OneMore
<1> QED BY <1>1, <1>2

KeeperType == [at : {"absent", "seeding", "ensured", "failed"},
               known : SUBSET ToSet(Seeds), next : 1..(Len(Seeds) + 1)]

LEMMA RegistryInit == ContinuityInit => RegistryInv
<1> SUFFICES ASSUME ContinuityInit PROVE RegistryInv
  OBVIOUS
<1>1. registry \in Seq(Lines) /\ ToSet(registry) = {} /\ IsInjective(registry)
  BY DEF ContinuityInit, ToSet, IsInjective
<1>2. Absent \in KeeperType
  BY SeedFacts DEF Absent, KeeperType
<1>3. ContinuityTypeOK
  BY <1>1, <1>2 DEF ContinuityInit, ContinuityTypeOK, KeeperType, Lines
<1>4. \A k \in Keepers : keeper[k].at = "absent"
  BY DEF ContinuityInit, Absent
<1>5. SeedsOnce
  BY <1>1 DEF SeedsOnce, ContinuityInit
<1> QED BY <1>3, <1>4, <1>5 DEF RegistryInv, Seeding, Alone, EnsuredIsComplete

(* A step of process k alone: the registry has only grown, and what the    *)
(* others know of it is still so.                                          *)
LEMMA RegistryStep ==
  ASSUME RegistryInv, NEW k \in Keepers, NEW m \in KeeperType,
         keeper' = [keeper EXCEPT ![k] = m],
         registry' \in Seq(Lines), ToSet(registry) \subseteq ToSet(registry'),
         crowded' \in BOOLEAN, crowded => crowded',
         m.at = "seeding" => Informed(k)',
         m.at = "ensured" => ToSet(Seeds) \subseteq ToSet(registry') \/ Swallowed',
         Alone', SeedsOnce'
  PROVE  RegistryInv'
<1>1. keeper \in [Keepers -> KeeperType]
  BY DEF RegistryInv, ContinuityTypeOK, KeeperType
<1>2. \A j \in Keepers : keeper'[j] = IF j = k THEN m ELSE keeper[j]
  BY <1>1
<1>3. ContinuityTypeOK'
  BY <1>1 DEF ContinuityTypeOK, KeeperType, Lines
<1>4. Swallowed => Swallowed'
  BY DEF Swallowed
<1>5. ASSUME NEW j \in Keepers, Seeding(j)'
      PROVE  Informed(j)'
  <2>1. CASE j = k
    BY <1>2, <1>5, <2>1 DEF Seeding
  <2>2. CASE j # k
    BY <1>2, <1>4, <1>5, <2>2 DEF RegistryInv, Seeding, Informed
  <2> QED BY <2>1, <2>2
<1>6. EnsuredIsComplete'
  BY <1>2, <1>4 DEF RegistryInv, EnsuredIsComplete, Swallowed
<1> QED BY <1>3, <1>5, <1>6 DEF RegistryInv

(* Who leaves or goes on without a write to the registry disturbs nobody.  *)
LEMMA RegistryRest ==
  ASSUME RegistryInv, NEW k \in Keepers, NEW m \in KeeperType,
         keeper' = [keeper EXCEPT ![k] = m], UNCHANGED <<registry, crowded>>,
         m.at = "seeding" => Seeding(k) /\ m.known = keeper[k].known
  PROVE  Alone' /\ SeedsOnce'
<1>1. keeper \in [Keepers -> KeeperType]
  BY DEF RegistryInv, ContinuityTypeOK, KeeperType
<1>2. \A j \in Keepers : Seeding(j)' => Seeding(j) /\ keeper'[j].known = keeper[j].known
  BY <1>1 DEF Seeding
<1> QED BY <1>2 DEF RegistryInv, Alone, SeedsOnce

LEMMA AbsentKeeper == Absent \in KeeperType /\ [Absent EXCEPT !.at = "failed"] \in KeeperType
BY SeedFacts DEF Absent, KeeperType

(* Continuity: a process starts and reads.                                 *)
LEMMA ReadKeeps ==
  ASSUME RegistryInv, NEW k \in Keepers, Read(k)
  PROVE  RegistryInv'
<1> DEFINE m == IF TornLine \in ToSet(registry) THEN [Absent EXCEPT !.at = "failed"]
                ELSE [at |-> "seeding", next |-> 1, known |-> ToSet(registry)]
<1>1. /\ registry \in Seq(Lines) /\ keeper \in [Keepers -> KeeperType] /\ crowded \in BOOLEAN
      /\ keeper' = [keeper EXCEPT ![k] = m] /\ registry' = registry
      /\ crowded' = (crowded \/ \E j \in Keepers : Seeding(j))
  BY DEF RegistryInv, ContinuityTypeOK, KeeperType, Lines, Read, Seeding
<1>2. TornLine \notin ToSet(registry) => ToSet(registry) \subseteq ToSet(Seeds)
  BY <1>1 DEF Lines, ToSet
<1>3. m \in KeeperType
  BY <1>2, AbsentKeeper, SeedFacts DEF KeeperType
<1>4. \A j \in Keepers : keeper'[j] = IF j = k THEN m ELSE keeper[j]
  BY <1>1
<1>5. Informed(k)' \/ m.at # "seeding"
  BY <1>1, <1>4, SeedFacts DEF Informed
<1>6. m.at # "ensured"
  BY DEF Absent
<1>7. Alone'
  <2>1. ~crowded' => \A j \in Keepers : ~Seeding(j)
    BY <1>1
  <2>2. (\A j \in Keepers : ~Seeding(j)) => \A j \in Keepers : Seeding(j)' => j = k
    BY <1>4 DEF Seeding
  <2>3. Seeding(k)' => ToSet(registry') \subseteq keeper'[k].known
    BY <1>1, <1>4 DEF Seeding, Absent
  <2> QED BY <2>1, <2>2, <2>3 DEF Alone
<1>8. SeedsOnce'
  BY <1>1 DEF RegistryInv, SeedsOnce
<1>9. crowded' \in BOOLEAN /\ (crowded => crowded')
  BY <1>1
<1> HIDE DEF m
<1> QED BY <1>1, <1>3, <1>5, <1>6, <1>7, <1>8, <1>9, RegistryStep

(* Continuity: a seed that is known, the end of the list, and an exit.     *)
LEMMA QuietKeeps ==
  ASSUME RegistryInv, NEW k \in Keepers, SeedKnown(k) \/ Ensured(k) \/ Leaves(k)
  PROVE  RegistryInv'
<1>1. /\ registry \in Seq(Lines) /\ keeper \in [Keepers -> KeeperType] /\ crowded \in BOOLEAN
      /\ UNCHANGED <<registry, crowded>>
  BY DEF RegistryInv, ContinuityTypeOK, KeeperType, Lines, SeedKnown, Ensured, Leaves
<1>2. keeper[k] \in KeeperType
  BY <1>1
<1>3. CASE SeedKnown(k)
  <2> DEFINE m == [keeper[k] EXCEPT !.next = @ + 1]
  <2>1. /\ keeper' = [keeper EXCEPT ![k] = m] /\ Seeding(k) /\ keeper[k].next \in 1..Len(Seeds)
        /\ Seeds[keeper[k].next] \in keeper[k].known
    BY <1>1, <1>2, <1>3, SeedFacts DEF SeedKnown, Seeding, KeeperType
  <2>2. m \in KeeperType /\ m.at = "seeding" /\ m.known = keeper[k].known
    <3>1. keeper[k].next + 1 \in 1..(Len(Seeds) + 1)
      BY <2>1, SeedFacts
    <3> QED BY <1>2, <2>1, <3>1 DEF KeeperType, Seeding
  <2>3. Informed(k)'
    <3>1. keeper'[k] = m /\ keeper'[k].next = keeper[k].next + 1
      BY <1>1, <1>2, <2>1 DEF KeeperType
    <3>2. CASE Swallowed
      BY <1>1, <3>2 DEF Informed, Swallowed
    <3>3. CASE ~Swallowed
      <4>1. /\ keeper[k].known \subseteq ToSet(registry)
            /\ \A i \in 1..(keeper[k].next - 1) : Seeds[i] \in ToSet(registry)
        BY <2>1, <3>3 DEF RegistryInv, Informed
      <4>2. \A i \in 1..keeper[k].next : i \in 1..(keeper[k].next - 1) \/ i = keeper[k].next
        BY <2>1, SeedFacts
      <4>3. keeper'[k].next - 1 = keeper[k].next
        BY <2>1, <3>1, SeedFacts
      <4> QED BY <1>1, <2>1, <2>2, <3>1, <4>1, <4>2, <4>3 DEF Informed
    <3> QED BY <3>2, <3>3
  <2>4. Alone' /\ SeedsOnce'
    BY <1>1, <2>1, <2>2, RegistryRest
  <2> HIDE DEF m
  <2> QED BY <1>1, <2>1, <2>2, <2>3, <2>4, RegistryStep
<1>4. CASE Ensured(k)
  <2> DEFINE m == [keeper[k] EXCEPT !.at = "ensured"]
  <2>1. keeper' = [keeper EXCEPT ![k] = m] /\ Seeding(k) /\ keeper[k].next = Len(Seeds) + 1
    BY <1>1, <1>2, <1>4, SeedFacts DEF Ensured, Seeding, KeeperType
  <2>2. m \in KeeperType /\ m.at = "ensured"
    BY <1>2 DEF KeeperType
  <2>3. ToSet(Seeds) \subseteq ToSet(registry) \/ Swallowed
    BY <2>1, SeedFacts DEF RegistryInv, Informed
  <2>4. Alone' /\ SeedsOnce'
    BY <1>1, <2>1, <2>2, RegistryRest
  <2>5. Swallowed => Swallowed'
    BY <1>1 DEF Swallowed
  <2> HIDE DEF m
  <2> QED BY <1>1, <2>1, <2>2, <2>3, <2>4, <2>5, RegistryStep
<1>5. CASE Leaves(k)
  <2>1. keeper' = [keeper EXCEPT ![k] = Absent] /\ Absent.at = "absent"
    BY <1>5 DEF Leaves, Absent
  <2>2. Alone' /\ SeedsOnce'
    BY <1>1, <2>1, AbsentKeeper, RegistryRest
  <2> QED BY <1>1, <2>1, <2>2, AbsentKeeper, RegistryStep
<1> QED BY <1>3, <1>4, <1>5

(* A process that keeps apart meets no torn line and no seed of its own.   *)
LEMMA Apart ==
  ASSUME RegistryInv, NEW k \in Keepers, Seeding(k), ~crowded
  PROVE  /\ TornLine \notin ToSet(registry) /\ ToSet(registry) = keeper[k].known
         /\ \A j \in Keepers : Seeding(j) => j = k
<1>1. keeper[k].known \subseteq ToSet(Seeds)
  BY DEF RegistryInv, ContinuityTypeOK
<1> QED BY <1>1, SeedFacts DEF RegistryInv, Alone, Informed, Swallowed

(* Continuity: a seed is appended.                                         *)
LEMMA AppendSeedKeeps ==
  ASSUME RegistryInv, NEW k \in Keepers, AppendSeed(k)
  PROVE  RegistryInv'
<1> DEFINE seed == Seeds[keeper[k].next]
           m == [at |-> "seeding", known |-> keeper[k].known \cup {seed},
                 next |-> keeper[k].next + 1]
<1>1. /\ registry \in Seq(Lines) /\ keeper \in [Keepers -> KeeperType] /\ crowded \in BOOLEAN
      /\ Seeding(k) /\ keeper[k].next <= Len(Seeds) /\ seed \notin keeper[k].known
      /\ registry' = Appended(seed) /\ crowded' = crowded
      /\ keeper' = [keeper EXCEPT ![k] = m]
  BY DEF RegistryInv, ContinuityTypeOK, KeeperType, Lines, AppendSeed, Seeding
<1>2. keeper[k] \in KeeperType /\ keeper[k].next \in 1..Len(Seeds)
  BY <1>1, SeedFacts DEF KeeperType
<1>3. seed \in ToSet(Seeds) /\ seed \in Lines /\ seed # TornLine
  BY <1>2, SeedFacts DEF Lines
<1>4. m \in KeeperType /\ m.next = keeper[k].next + 1 /\ m.known = keeper[k].known \cup {seed}
      /\ m.at = "seeding"
  <2>1. keeper[k].next + 1 \in 1..(Len(Seeds) + 1)
    <3>1. Len(Seeds) \in Nat /\ keeper[k].next \in 1..Len(Seeds)
      BY <1>2, SeedFacts
    <3> QED BY <3>1
  <2>2. keeper[k].known \cup {seed} \subseteq ToSet(Seeds)
    BY <1>2, <1>3 DEF KeeperType
  <2> QED BY <2>1, <2>2 DEF KeeperType
<1>5. \A j \in Keepers : keeper'[j] = IF j = k THEN m ELSE keeper[j]
  BY <1>1
<1> HIDE DEF m, seed
<1>6. /\ registry' \in Seq(Lines) /\ ToSet(registry) \subseteq ToSet(registry')
      /\ seed \in ToSet(registry') \/ TornLine \in ToSet(registry)
  BY <1>1, <1>3, Appending
<1>7. ~crowded => /\ registry' = Append(registry, seed) /\ ToSet(registry') = ToSet(registry) \cup {seed}
                  /\ TornLine \notin ToSet(registry') /\ IsInjective(registry')
  <2> SUFFICES ASSUME ~crowded PROVE /\ registry' = Append(registry, seed)
                                     /\ ToSet(registry') = ToSet(registry) \cup {seed}
                                     /\ TornLine \notin ToSet(registry') /\ IsInjective(registry')
    OBVIOUS
  <2>1. TornLine \notin ToSet(registry) /\ ToSet(registry) = keeper[k].known
    BY <1>1, Apart
  <2>2. IsInjective(registry) /\ seed \notin ToSet(registry)
    BY <1>1, <2>1 DEF RegistryInv, SeedsOnce
  <2>3. registry' = Append(registry, seed)
    BY <1>1, <1>3, <2>1, Appending
  <2> QED BY <1>1, <1>3, <2>1, <2>2, <2>3, OneMore
<1>8. Informed(k)'
  <2>1. CASE Swallowed
    BY <1>1, <1>6, <2>1 DEF Informed, Swallowed
  <2>2. CASE ~Swallowed
    <3>1. /\ keeper[k].known \subseteq ToSet(registry)
          /\ \A i \in 1..(keeper[k].next - 1) : Seeds[i] \in ToSet(registry)
      BY <1>1, <2>2 DEF RegistryInv, Informed
    <3>2. seed \in ToSet(registry')
      BY <1>6, <1>7, <2>2, <1>1 DEF Swallowed
    <3>3. \A i \in 1..keeper[k].next : i \in 1..(keeper[k].next - 1) \/ i = keeper[k].next
      BY <1>2, SeedFacts
    <3>4. m.next - 1 = keeper[k].next
      BY <1>2, <1>4, SeedFacts
    <3>5. \A i \in 1..keeper[k].next : Seeds[i] \in ToSet(registry')
      BY <1>6, <3>1, <3>2, <3>3 DEF seed
    <3> QED BY <1>4, <1>5, <1>6, <3>1, <3>2, <3>4, <3>5 DEF Informed
  <2> QED BY <2>1, <2>2
<1>9. Alone'
  <2>1. ~crowded => \A j \in Keepers : Seeding(j)' => j = k
    BY <1>1, <1>5, Apart DEF Seeding
  <2>2. ~crowded => ToSet(registry') \subseteq keeper'[k].known
    BY <1>1, <1>4, <1>5, <1>7, Apart
  <2> QED BY <1>1, <2>1, <2>2 DEF Alone
<1>10. SeedsOnce'
  <2>1. ~crowded => \A i \in 1..Len(registry') : registry'[i] # TornLine
    BY <1>6, <1>7 DEF ToSet
  <2> QED BY <1>1, <1>7, <2>1 DEF SeedsOnce
<1> QED BY <1>1, <1>4, <1>6, <1>8, <1>9, <1>10, RegistryStep

(* Continuity: a process stops in the middle of a line.                    *)
LEMMA TearLineKeeps ==
  ASSUME RegistryInv, NEW k \in Keepers, TearLine(k)
  PROVE  RegistryInv'
<1>1. /\ registry \in Seq(Lines) /\ keeper \in [Keepers -> KeeperType] /\ crowded \in BOOLEAN
      /\ Seeding(k) /\ TornLine \in Lines
      /\ registry' = Appended(TornLine) /\ crowded' = crowded
      /\ keeper' = [keeper EXCEPT ![k] = Absent] /\ Absent.at = "absent"
  BY DEF RegistryInv, ContinuityTypeOK, KeeperType, Lines, TearLine, Seeding, Absent
<1>2. registry' \in Seq(Lines) /\ ToSet(registry) \subseteq ToSet(registry')
  BY <1>1, Appending
<1>3. ~crowded => \A j \in Keepers : ~Seeding(j)'
  BY <1>1, Apart DEF Seeding
<1>4. Alone'
  BY <1>1, <1>3 DEF Alone
<1>5. SeedsOnce'
  <2> SUFFICES ASSUME ~crowded
               PROVE  IsInjective(registry') /\ \A i \in 1..Len(registry') :
                        registry'[i] = TornLine => i = Len(registry')
    BY <1>1 DEF SeedsOnce
  <2>1. TornLine \notin ToSet(registry) /\ IsInjective(registry)
    BY <1>1, Apart DEF RegistryInv, SeedsOnce
  <2>2. registry' = Append(registry, TornLine)
    BY <1>1, <2>1, Appending
  <2>3. IsInjective(registry')
    BY <1>1, <2>1, <2>2, OneMore
  <2>4. \A i \in 1..Len(registry) : registry[i] # TornLine
    BY <1>1, <2>1 DEF ToSet
  <2> QED BY <1>1, <2>2, <2>3, <2>4
<1> QED BY <1>1, <1>2, <1>4, <1>5, AbsentKeeper, RegistryStep

LEMMA RegistryNext == RegistryInv /\ [ContinuityNext]_continuityVars => RegistryInv'
<1> SUFFICES ASSUME RegistryInv, [ContinuityNext]_continuityVars PROVE RegistryInv'
  OBVIOUS
<1>1. CASE ContinuityNext
  BY <1>1, ReadKeeps, QuietKeeps, AppendSeedKeeps, TearLineKeeps DEF ContinuityNext
<1>2. CASE UNCHANGED continuityVars
  <2>1. UNCHANGED <<registry, keeper, crowded>>
    BY <1>2 DEF continuityVars
  <2> QED BY <2>1 DEF RegistryInv, ContinuityTypeOK, Seeding, Informed, Swallowed, Alone,
                      SeedsOnce, EnsuredIsComplete
<1> QED BY <1>1, <1>2

-----------------------------------------------------------------------------
(* Recovery points.                                                        *)

\* Marks and whole files differ.
LEMMA FileStates ==
  /\ NoFile.state = "absent" /\ Cut.state = "cut" /\ NoFile # Cut
  /\ \A file : IsSnapshot(file) => file # NoFile /\ file # Cut
BY DEF NoFile, Cut, IsSnapshot

LEMMA PointInit == BackupInit => PointInv
BY FileStates DEF BackupInit, PointInv, BackupTypeOK, NoBackup, From, PromiseKept, Nothing

(* sqlite/__init__.py:324: the copy ends with the committed rows of one    *)
(* moment, and those are whole runs.                                       *)
LEMMA CopyIsWhole == TxInv => WholeFile(Snapshot(durable))
BY DEF TxInv, BlocksAreWhole, WholeFile, IsSnapshot, Snapshot

(* Backup: the steps up to the rename.                                     *)
LEMMA CopyKeeps ==
  ASSUME PointInv, TxInv,
         StartBackup \/ Prepare \/ BeginCopy \/ EndCopy \/ CheckFails
  PROVE  PointInv'
<1> USE FileStates DEF PointInv, BackupTypeOK, PromiseKept, From, At, Nothing
<1>1. CASE StartBackup
  BY <1>1 DEF StartBackup
<1>2. CASE Prepare
  BY <1>2 DEF Prepare
<1>3. CASE BeginCopy
  BY <1>3 DEF BeginCopy
<1>4. CASE EndCopy
  BY <1>4, CopyIsWhole DEF EndCopy, WholeFile, IsSnapshot
<1>5. CASE CheckFails
  BY <1>5 DEF CheckFails
<1> QED BY <1>1, <1>2, <1>3, <1>4, <1>5

(* Backup: the rename and what follows.                                    *)
LEMMA ReportKeeps ==
  ASSUME PointInv, Replace \/ BeginBeside \/ EndBeside \/ NoRegistry \/ StopBackup
  PROVE  PointInv'
<1> USE FileStates DEF PointInv, BackupTypeOK, PromiseKept, From, At, Nothing
<1>1. CASE Replace
  BY <1>1 DEF Replace, WholeFile, IsSnapshot
<1>2. CASE BeginBeside
  BY <1>2 DEF BeginBeside
<1>3. CASE EndBeside
  BY <1>3 DEF EndBeside, Report
<1>4. CASE NoRegistry
  BY <1>4 DEF NoRegistry, Report
<1>5. CASE StopBackup
  BY <1>5 DEF StopBackup, NoBackup
<1> QED BY <1>1, <1>2, <1>3, <1>4, <1>5

LEMMA PointNext == PointInv /\ TxInv /\ [BackupNext]_backupVars => PointInv'
<1>1. PointInv /\ UNCHANGED backupVars => PointInv'
  BY DEF backupVars, PointInv, BackupTypeOK, PromiseKept, From
<1> QED BY <1>1, CopyKeeps, ReportKeeps DEF BackupNext

LEMMA PointIsKept == PointInv => PointIsWhole
BY FileStates DEF PointInv, PointIsWhole, WholeFile

-----------------------------------------------------------------------------
(* Reviews.                                                                *)

LEMMA ArchiveInit == QcInit => ArchiveInv
<1> SUFFICES ASSUME QcInit PROVE ArchiveInv
  OBVIOUS
<1>1. 0 \in Times /\ EventIds \subseteq Times /\ NoDecision \notin Decisions
  BY QcAssumption DEF Times, EventIds
<1>2. NoReview \in Reviews
  BY <1>1 DEF NoReview, Reviews
<1>3. NoRequest \in Requests /\ NoRequest.at = "free"
  BY <1>1, <1>2 DEF NoRequest, Requests
<1>4. QcTypeOK
  BY <1>1, <1>2, <1>3 DEF QcInit, QcTypeOK
<1>5. Len(starts) = 0 /\ Len(events) = 0 /\ clock = 0
  BY DEF QcInit
<1>6. \A t \in Threads : Pertinent(t)
  BY <1>3 DEF QcInit, Pertinent
<1>7. \A e \in EventIds : reviews[e] = NoReview /\ verdicts[e] = <<>>
  BY DEF QcInit
<1> QED BY <1>4, <1>5, <1>6, <1>7 DEF ArchiveInv, Reviewed, NoVerdictLost, ReviewNamesItsRun

\* The archive's rows and requests as the proofs use them.
LEMMA ArchiveTypes ==
  ASSUME ArchiveInv
  PROVE  /\ MaxTime \in Nat /\ EventIds = 1..MaxTime /\ Times = 0..MaxTime /\ clock \in Times
         /\ starts \in Seq(Times) /\ Len(starts) \in Nat /\ Len(starts) <= clock
         /\ events \in Seq([detected : Times, run : Times]) /\ Len(events) \in Nat
         /\ Len(events) <= clock /\ 1..Len(events) \subseteq EventIds
         /\ reviews \in [EventIds -> Reviews] /\ thread \in [Threads -> Requests]
         /\ verdicts \in [EventIds -> Seq(Decisions)]
<1>1. /\ MaxTime \in Nat /\ EventIds = 1..MaxTime /\ Times = 0..MaxTime /\ clock \in Times
      /\ starts \in Seq(Times) /\ Len(starts) <= clock
      /\ events \in Seq([detected : Times, run : Times]) /\ Len(events) <= clock
      /\ reviews \in [EventIds -> Reviews] /\ thread \in [Threads -> Requests]
      /\ verdicts \in [EventIds -> Seq(Decisions)]
  BY QcAssumption DEF ArchiveInv, QcTypeOK, EventIds, Times
<1>2. Len(starts) \in Nat /\ Len(events) \in Nat
  BY <1>1
<1>3. 1..Len(events) \subseteq EventIds
  BY <1>1, <1>2
<1> QED BY <1>1, <1>2, <1>3

\* An event has its times, and the run that recorded it.
LEMMA EventFacts ==
  ASSUME ArchiveInv, NEW e \in 1..Len(events)
  PROVE  /\ events[e].detected \in Nat /\ events[e].run \in Nat /\ Recorded(e)
         /\ events[e].detected \in Times /\ events[e].run \in Times
<1> DEFINE S == [detected : Times, run : Times]
<1>1. events \in Seq(S) /\ e \in 1..Len(events)
  BY ArchiveTypes
<1> HIDE DEF S
<1>2. events[e] \in S
  BY <1>1
<1>3. events[e].detected \in Times /\ events[e].run \in Times
  BY <1>2 DEF S
<1>4. Times \subseteq Nat
  BY DEF Times
<1> QED BY <1>3, <1>4 DEF ArchiveInv

\* The clock goes on.
LEMMA Ticks ==
  ASSUME ArchiveInv, Tick
  PROVE  clock' = clock + 1 /\ clock' \in Times /\ clock' > clock /\ clock' >= 1
BY ArchiveTypes DEF Tick

(* dashboard.py:380: runs and events only add to what was there, and the   *)
(* run found by an event's time is the one that recorded it.               *)
LEMMA LookUp ==
  ASSUME ArchiveInv, NEW e \in 1..Len(events)
  PROVE  RecordedBy(events[e].detected) = events[e].run
<1> DEFINE v == events[e]
<1>1. /\ Len(starts) \in Nat /\ v.run \in 1..Len(starts) /\ starts[v.run] <= v.detected
      /\ \A r \in 1..Len(starts) : starts[r] <= v.detected => r <= v.run
  BY ArchiveTypes DEF ArchiveInv, Recorded
<1> DEFINE Latest(r) == /\ starts[r] <= v.detected
                        /\ \A q \in 1..Len(starts) : starts[q] <= v.detected => q <= r
<1>2. Latest(v.run)
  BY <1>1
<1>3. \A r \in 1..Len(starts) : Latest(r) => r = v.run
  BY <1>1
<1>4. RecordedBy(v.detected) = CHOOSE r \in 1..Len(starts) : Latest(r)
  BY DEF RecordedBy
<1> HIDE DEF v, Latest
<1>5. \E r \in 1..Len(starts) : Latest(r)
  BY <1>1, <1>2
<1>6. (CHOOSE r \in 1..Len(starts) : Latest(r)) \in 1..Len(starts)
      /\ Latest(CHOOSE r \in 1..Len(starts) : Latest(r))
  BY <1>5
<1>7. RecordedBy(v.detected) = v.run
  BY <1>3, <1>4, <1>6
<1> QED BY <1>7 DEF v

\* The archive is not touched, and what is known of events stays.
LEMMA ArchiveRest ==
  ASSUME ArchiveInv, UNCHANGED <<reviews, verdicts>>,
         Len(events) <= Len(events'), \A e \in 1..Len(events) : events'[e] = events[e]
  PROVE  (\A e \in EventIds : Reviewed(e)') /\ NoVerdictLost' /\ ReviewNamesItsRun'
<1>1. Len(events) \in Nat /\ Len(events') >= Len(events)
  BY ArchiveTypes
<1>2. \A e \in EventIds : Reviewed(e)'
  <2> SUFFICES ASSUME NEW e \in EventIds PROVE Reviewed(e)'
    OBVIOUS
  <2>1. Reviewed(e)
    BY DEF ArchiveInv
  <2>2. e \in 1..Len(events) => e \in 1..Len(events')
    BY <1>1, ArchiveTypes
  <2> QED BY <2>1, <2>2 DEF Reviewed
<1>3. NoVerdictLost'
  BY DEF ArchiveInv, NoVerdictLost
<1>4. ReviewNamesItsRun'
  BY DEF ArchiveInv, ReviewNamesItsRun, Reviewed
<1> QED BY <1>2, <1>3, <1>4

(* A run starts: it is the latest from now on, and for no earlier event.   *)
LEMMA RunStartsKeeps ==
  ASSUME ArchiveInv, RunStarts
  PROVE  ArchiveInv'
<1>1. /\ starts' = Append(starts, clock') /\ UNCHANGED <<events, reviews, thread, verdicts>>
      /\ clock' = clock + 1 /\ clock' \in Times
  BY Ticks DEF RunStarts
<1>2. /\ Len(starts) \in Nat /\ Len(starts') = Len(starts) + 1 /\ starts' \in Seq(Times)
      /\ \A r \in 1..Len(starts) : starts'[r] = starts[r] /\ starts[r] \in Times
      /\ starts'[Len(starts) + 1] = clock'
      /\ \A r \in 1..(Len(starts) + 1) : r \in 1..Len(starts) \/ r = Len(starts) + 1
      /\ clock \in Nat
  BY <1>1, ArchiveTypes DEF Times
<1>3. QcTypeOK'
  BY <1>1, <1>2 DEF ArchiveInv, QcTypeOK
<1>4. /\ (Len(starts) <= clock /\ Len(events) <= clock)'
      /\ \A r \in 1..Len(starts') : starts'[r] <= clock'
  <2>1. \A r \in 1..Len(starts) : starts[r] <= clock
    BY DEF ArchiveInv
  <2>2. Len(events) \in Nat /\ Len(starts) <= clock /\ Len(events) <= clock
    BY ArchiveTypes
  <2>3. \A r \in 1..Len(starts') : starts'[r] <= clock'
    <3> SUFFICES ASSUME NEW r \in 1..Len(starts') PROVE starts'[r] <= clock'
      OBVIOUS
    <3>1. CASE r \in 1..Len(starts)
      <4>1. starts'[r] = starts[r] /\ starts[r] \in Nat /\ starts[r] <= clock
        BY <1>2, <2>1, <3>1, ArchiveTypes
      <4> QED BY <1>1, <1>2, <4>1
    <3>2. CASE r = Len(starts) + 1
      BY <1>1, <1>2, <3>2
    <3> QED BY <1>2, <3>1, <3>2
  <2> QED BY <1>1, <1>2, <2>2, <2>3
<1>5. \A e \in 1..Len(events) : Recorded(e)'
  <2> SUFFICES ASSUME NEW e \in 1..Len(events) PROVE Recorded(e)'
    OBVIOUS
  <2>1. /\ events[e].detected \in Nat /\ events[e].run \in Nat
    BY EventFacts
  <2>2. Recorded(e)
    BY DEF ArchiveInv
  <2>3. events[e].detected <= clock' /\ ~(clock' <= events[e].detected)
    BY <1>1, <1>2, <2>1, <2>2 DEF Recorded
  <2>4. \A r \in 1..Len(starts') : starts'[r] <= events[e].detected => r <= events[e].run
    BY <1>2, <2>2, <2>3 DEF Recorded
  <2>5. events[e].run \in 1..Len(starts') /\ starts'[events[e].run] <= events[e].detected
    BY <1>2, <2>2 DEF Recorded
  <2> QED BY <1>1, <2>3, <2>4, <2>5 DEF Recorded
<1>6. \A t \in Threads : Pertinent(t)'
  BY <1>1 DEF ArchiveInv, Pertinent
<1>7. (\A e \in EventIds : Reviewed(e)') /\ NoVerdictLost' /\ ReviewNamesItsRun'
  BY <1>1, ArchiveTypes, ArchiveRest
<1> QED BY <1>1, <1>3, <1>4, <1>5, <1>6, <1>7 DEF ArchiveInv

(* An event is recorded by the latest run.                                 *)
LEMMA EventDetectedKeeps ==
  ASSUME ArchiveInv, EventDetected
  PROVE  ArchiveInv'
<1> DEFINE event == [detected |-> clock', run |-> Len(starts)]
<1>1. /\ events' = Append(events, event) /\ UNCHANGED <<starts, reviews, thread, verdicts>>
      /\ clock' = clock + 1 /\ clock' \in Times /\ starts # <<>>
  BY Ticks DEF EventDetected
<1>2. Len(starts) \in Times /\ Len(starts) \in 1..Len(starts)
  <2>1. Len(starts) \in Nat /\ Len(starts) # 0
    BY <1>1, ArchiveTypes
  <2> QED BY <2>1, ArchiveTypes
<1>3. /\ Len(events) \in Nat /\ Len(events') = Len(events) + 1
      /\ events' \in Seq([detected : Times, run : Times])
      /\ \A e \in 1..Len(events) : events'[e] = events[e]
      /\ events'[Len(events) + 1] = event
      /\ \A e \in 1..(Len(events) + 1) : e \in 1..Len(events) \/ e = Len(events) + 1
      /\ clock \in Nat
  BY <1>1, <1>2, ArchiveTypes
<1>4. QcTypeOK'
  BY <1>1, <1>3 DEF ArchiveInv, QcTypeOK
<1>5. \A r \in 1..Len(starts) : starts[r] \in Nat /\ starts[r] <= clock /\ starts[r] <= clock'
  BY <1>1, <1>3, ArchiveTypes DEF ArchiveInv
<1>6. /\ (Len(starts) <= clock /\ Len(events) <= clock)'
      /\ \A r \in 1..Len(starts') : starts'[r] <= clock'
  BY <1>1, <1>3, <1>5, ArchiveTypes
<1>7. \A e \in 1..Len(events') : Recorded(e)'
  <2> SUFFICES ASSUME NEW e \in 1..Len(events') PROVE Recorded(e)'
    OBVIOUS
  <2>1. CASE e \in 1..Len(events)
    <3>1. Recorded(e) /\ events'[e] = events[e] /\ events[e].detected \in Nat
      BY <1>3, <2>1, EventFacts
    <3>2. events[e].detected <= clock'
      BY <1>1, <1>3, <3>1 DEF Recorded
    <3> QED BY <1>1, <3>1, <3>2 DEF Recorded
  <2>2. CASE e = Len(events) + 1
    <3>1. events'[e].detected = clock' /\ events'[e].run = Len(starts)
      BY <1>3, <2>2
    <3>2. clock' <= clock' /\ \A r \in 1..Len(starts) : r <= Len(starts)
      BY <1>1, <1>3
    <3> QED BY <1>1, <1>2, <1>5, <3>1, <3>2 DEF Recorded
  <2> QED BY <1>3, <2>1, <2>2
<1>8. \A t \in Threads : Pertinent(t)'
  <2> SUFFICES ASSUME NEW t \in Threads, thread[t].at # "free" PROVE Pertinent(t)'
    BY <1>1 DEF Pertinent
  <2>1. Pertinent(t) /\ thread[t].event \in 1..Len(events)
    BY DEF ArchiveInv, Pertinent
  <2>2. events'[thread[t].event] = events[thread[t].event] /\ thread[t].event \in 1..Len(events')
    BY <1>3, <2>1
  <2> QED BY <1>1, <2>1, <2>2 DEF Pertinent
<1>9. (\A e \in EventIds : Reviewed(e)') /\ NoVerdictLost' /\ ReviewNamesItsRun'
  BY <1>1, <1>3, ArchiveRest
<1> QED BY <1>1, <1>4, <1>6, <1>7, <1>8, <1>9 DEF ArchiveInv

\* Only a request's own place changes.
LEMMA ThreadStep ==
  ASSUME ArchiveInv, NEW t \in Threads, NEW m \in Requests,
         thread' = [thread EXCEPT ![t] = m], UNCHANGED <<starts, events, reviews, verdicts>>,
         clock' \in Times, clock <= clock',
         \A u \in Threads : Pertinent(u)'
  PROVE  ArchiveInv'
<1>1. QcTypeOK'
  BY ArchiveTypes DEF ArchiveInv, QcTypeOK
<1>2. clock \in Nat /\ clock' \in Nat
  BY ArchiveTypes
<1>3. (Len(starts) <= clock /\ Len(events) <= clock)'
  BY <1>2, ArchiveTypes
<1>4. \A r \in 1..Len(starts') : starts'[r] <= clock'
  <2>1. \A r \in 1..Len(starts) : starts[r] \in Nat /\ starts[r] <= clock
    BY ArchiveTypes DEF ArchiveInv
  <2> QED BY <1>2, <2>1
<1>5. \A e \in 1..Len(events') : Recorded(e)'
  <2> SUFFICES ASSUME NEW e \in 1..Len(events) PROVE Recorded(e)'
    OBVIOUS
  <2>1. Recorded(e) /\ events[e].detected \in Nat
    BY EventFacts
  <2> QED BY <1>2, <2>1 DEF Recorded
<1>6. (\A e \in EventIds : Reviewed(e)') /\ NoVerdictLost' /\ ReviewNamesItsRun'
  BY ArchiveTypes, ArchiveRest
<1> QED BY <1>1, <1>3, <1>4, <1>5, <1>6 DEF ArchiveInv

(* dashboard.py:380: a request carries what it has found of its event.     *)
LEMMA RequestKeeps ==
  ASSUME ArchiveInv, NEW t \in Threads, Request(t)
  PROVE  ArchiveInv'
<1>1. PICK e \in 1..Len(events), d \in Decisions :
        thread' = [thread EXCEPT ![t] =
          [at |-> "stamped", event |-> e, decision |-> d,
           run |-> RecordedBy(events[e].detected), now |-> clock', existing |-> NoReview]]
  BY DEF Request
<1> DEFINE m == [at |-> "stamped", event |-> e, decision |-> d, run |-> events[e].run,
                 now |-> clock', existing |-> NoReview]
<1>2. thread' = [thread EXCEPT ![t] = m]
  <2>1. RecordedBy(events[e].detected) = events[e].run
    BY LookUp
  <2> QED BY <1>1, <2>1
<1>3. /\ UNCHANGED <<starts, events, reviews, verdicts>> /\ thread[t].at = "free"
      /\ clock' = clock + 1 /\ clock' \in Times
  BY Ticks DEF Request
<1>4. m \in Requests
  <2>1. events[e].run \in Times
    BY EventFacts
  <2>2. 0 \in Times /\ e \in Times
    BY ArchiveTypes
  <2>3. NoReview \in Reviews
    BY <2>2 DEF NoReview, Reviews
  <2> QED BY <1>3, <2>1, <2>2, <2>3 DEF Requests
<1>5. \A u \in Threads : thread'[u] = IF u = t THEN m ELSE thread[u]
  BY <1>2, ArchiveTypes
<1>6. \A u \in Threads : Pertinent(u)'
  BY <1>3, <1>5 DEF ArchiveInv, Pertinent
<1>7. clock <= clock'
  BY <1>3, ArchiveTypes DEF Times
<1> HIDE DEF m
<1> QED BY <1>2, <1>3, <1>4, <1>6, <1>7, ThreadStep

(* qc_store.py:242: from BEGIN IMMEDIATE on nobody else changes the row    *)
(* that was read.                                                          *)
LEMMA BeginKeeps ==
  ASSUME ArchiveInv, NEW t \in Threads, Begin(t)
  PROVE  ArchiveInv'
<1> DEFINE me == thread[t]
           m == [me EXCEPT !.at = "begun", !.existing = reviews[me.event]]
<1>1. /\ UNCHANGED <<clock, starts, events, reviews, verdicts>> /\ me.at = "stamped"
      /\ \A u \in Threads : thread[u].at # "begun"
  BY DEF Begin
<1>2. me \in Requests /\ me.event \in 1..Len(events)
  BY <1>1, ArchiveTypes DEF ArchiveInv, Pertinent
<1>3. reviews[me.event] \in Reviews
  BY <1>2, ArchiveTypes
<1>4. m \in Requests
  BY <1>2, <1>3 DEF Requests
<1>5. thread' = [thread EXCEPT ![t] = m]
  BY <1>2, ArchiveTypes DEF Begin, Requests
<1>6. \A u \in Threads : thread'[u] = IF u = t THEN m ELSE thread[u]
  BY <1>5, ArchiveTypes
<1>7. Pertinent(t)
  BY DEF ArchiveInv
<1>8. /\ m.at = "begun" /\ m.event = me.event /\ m.decision = me.decision /\ m.run = me.run
      /\ m.existing = reviews[m.event]
  BY <1>2 DEF Requests
<1> HIDE DEF m
<1>9. \A u \in Threads : Pertinent(u)'
  BY <1>1, <1>6, <1>7, <1>8 DEF ArchiveInv, Pertinent
<1>10. clock' \in Times /\ clock <= clock'
  BY <1>1, ArchiveTypes DEF Times
<1> QED BY <1>1, <1>4, <1>5, <1>9, <1>10, ThreadStep

(* A request that fails leaves nothing.                                    *)
LEMMA RequestFailsKeeps ==
  ASSUME ArchiveInv, NEW t \in Threads, RequestFails(t)
  PROVE  ArchiveInv'
<1>1. /\ UNCHANGED <<clock, starts, events, reviews, verdicts>>
      /\ thread' = [thread EXCEPT ![t] = NoRequest]
  BY DEF RequestFails
<1>2. NoRequest \in Requests /\ NoRequest.at = "free"
  <2>1. 0 \in Times
    BY QcAssumption DEF Times
  <2> QED BY <2>1 DEF NoRequest, Requests, NoReview, Reviews
<1>3. \A u \in Threads : thread'[u] = IF u = t THEN NoRequest ELSE thread[u]
  BY <1>1, ArchiveTypes
<1>4. \A u \in Threads : Pertinent(u)'
  BY <1>1, <1>2, <1>3 DEF ArchiveInv, Pertinent
<1>5. clock' \in Times /\ clock <= clock'
  BY <1>1, ArchiveTypes DEF Times
<1> QED BY <1>1, <1>2, <1>4, <1>5, ThreadStep

\* A row keeps the verdicts of an event but for repetitions: what it takes to
\* keep one more.
LEMMA KeepsFirst == ASSUME NEW d PROVE Condenses(<<d>>, <<d>>)
<1> DEFINE g == [i \in 1..1 |-> 1]
<1>1. g \in [1..Len(<<d>>) -> 1..Len(<<d>>)] /\ g[1] = 1 /\ Len(<<d>>) = 1
  OBVIOUS
<1>2. \A i \in 1..1 : <<d>>[i] = <<d>>[g[i]]
  OBVIOUS
<1>3. 2..1 = {}
  OBVIOUS
<1> HIDE DEF g
<1> QED BY <1>1, <1>2, <1>3 DEF Condenses

LEMMA EndsAlike ==
  ASSUME NEW D, NEW t \in Seq(D), NEW s \in Seq(D), s # <<>>, Condenses(t, s)
  PROVE  /\ Len(s) \in Nat \ {0} /\ Len(t) \in Nat \ {0}
         /\ s[Len(s)] = t[Len(t)]
<1>1. Len(s) \in Nat \ {0} /\ Len(t) \in Nat
  OBVIOUS
<1>2. PICK g \in [1..Len(s) -> 1..Len(t)] :
        /\ g[1] = 1 /\ g[Len(s)] = Len(t)
        /\ \A i \in 1..Len(s) : s[i] = t[g[i]]
        /\ \A i \in 2..Len(s) : g[i] \in {g[i - 1], g[i - 1] + 1}
  BY DEF Condenses
<1>3. 1 \in 1..Len(s) /\ Len(s) \in 1..Len(s)
  BY <1>1
<1>4. g[1] \in 1..Len(t) /\ s[Len(s)] = t[g[Len(s)]]
  BY <1>2, <1>3
<1> QED BY <1>1, <1>2, <1>4

LEMMA KeepsRepeated ==
  ASSUME NEW D, NEW t \in Seq(D), NEW s \in Seq(D), s # <<>>, Condenses(t, s),
         NEW d \in D, d = t[Len(t)]
  PROVE  Condenses(t, Append(s, d))
<1>1. Len(s) \in Nat \ {0} /\ Len(t) \in Nat \ {0}
  BY EndsAlike
<1>2. PICK g \in [1..Len(s) -> 1..Len(t)] :
        /\ g[1] = 1 /\ g[Len(s)] = Len(t)
        /\ \A i \in 1..Len(s) : s[i] = t[g[i]]
        /\ \A i \in 2..Len(s) : g[i] \in {g[i - 1], g[i - 1] + 1}
  BY DEF Condenses
<1> DEFINE n == Len(s) + 1
           h == [i \in 1..n |-> IF i = n THEN Len(t) ELSE g[i]]
           r == Append(s, d)
<1>3. /\ Len(r) = n /\ n \in Nat /\ r[n] = d /\ \A i \in 1..Len(s) : r[i] = s[i]
      /\ \A i \in 1..n : i \in 1..Len(s) \/ i = n
      /\ \A i \in 1..Len(s) : i \in 1..n /\ i # n
  BY <1>1
<1>4. /\ h \in [1..n -> 1..Len(t)] /\ h[n] = Len(t)
      /\ \A i \in 1..Len(s) : h[i] = g[i]
  BY <1>1, <1>2, <1>3
<1> HIDE DEF h, r
<1>5. h[1] = 1
  BY <1>1, <1>2, <1>4
<1>6. \A i \in 1..n : r[i] = t[h[i]]
  BY <1>2, <1>3, <1>4
<1>7. \A i \in 2..n : h[i] \in {h[i - 1], h[i - 1] + 1}
  <2> SUFFICES ASSUME NEW i \in 2..n PROVE h[i] \in {h[i - 1], h[i - 1] + 1}
    OBVIOUS
  <2>1. i - 1 \in 1..Len(s)
    BY <1>1
  <2>2. CASE i = n
    BY <1>1, <1>2, <1>4, <2>1, <2>2
  <2>3. CASE i # n
    <3>1. i \in 2..Len(s) /\ i \in 1..Len(s)
      BY <1>1, <2>3
    <3> QED BY <1>2, <1>4, <2>1, <3>1
  <2> QED BY <2>2, <2>3
<1>8. Condenses(t, r)
  BY <1>2, <1>3, <1>4, <1>5, <1>6, <1>7 DEF Condenses
<1> QED BY <1>8 DEF r

LEMMA KeepsDifferent ==
  ASSUME NEW D, NEW t \in Seq(D), NEW s \in Seq(D), s # <<>>, Condenses(t, s),
         NEW d \in D, d # t[Len(t)]
  PROVE  Condenses(Append(t, d), Append(s, d))
<1>1. Len(s) \in Nat \ {0} /\ Len(t) \in Nat \ {0}
  BY EndsAlike
<1>2. PICK g \in [1..Len(s) -> 1..Len(t)] :
        /\ g[1] = 1 /\ g[Len(s)] = Len(t)
        /\ \A i \in 1..Len(s) : s[i] = t[g[i]]
        /\ \A i \in 2..Len(s) : g[i] \in {g[i - 1], g[i - 1] + 1}
  BY DEF Condenses
<1> DEFINE n == Len(s) + 1
           m == Len(t) + 1
           h == [i \in 1..n |-> IF i = n THEN m ELSE g[i]]
           r == Append(s, d)
           q == Append(t, d)
<1>3. /\ Len(r) = n /\ n \in Nat /\ r[n] = d /\ \A i \in 1..Len(s) : r[i] = s[i]
      /\ \A i \in 1..n : i \in 1..Len(s) \/ i = n
      /\ \A i \in 1..Len(s) : i \in 1..n /\ i # n
  BY <1>1
<1>4. /\ Len(q) = m /\ m \in Nat /\ q[m] = d /\ \A i \in 1..Len(t) : q[i] = t[i]
      /\ \A i \in 1..m : i \in 1..Len(t) \/ i = m
  BY <1>1
<1>5. /\ h \in [1..n -> 1..m] /\ h[n] = m
      /\ \A i \in 1..Len(s) : h[i] = g[i]
  BY <1>1, <1>2, <1>3
<1> HIDE DEF h, r, q
<1>6. h[1] = 1
  BY <1>1, <1>2, <1>5
<1>7. \A i \in 1..n : r[i] = q[h[i]]
  <2> SUFFICES ASSUME NEW i \in 1..n PROVE r[i] = q[h[i]]
    OBVIOUS
  <2>1. CASE i = n
    BY <1>3, <1>4, <1>5, <2>1
  <2>2. CASE i \in 1..Len(s)
    <3>1. g[i] \in 1..Len(t)
      BY <1>2, <2>2
    <3> QED BY <1>2, <1>3, <1>4, <1>5, <2>2, <3>1
  <2> QED BY <1>3, <2>1, <2>2
<1>8. \A i \in 2..n : h[i] \in {h[i - 1], h[i - 1] + 1}
  <2> SUFFICES ASSUME NEW i \in 2..n PROVE h[i] \in {h[i - 1], h[i - 1] + 1}
    OBVIOUS
  <2>1. i - 1 \in 1..Len(s)
    BY <1>1
  <2>2. CASE i = n
    <3>1. i - 1 = Len(s)
      BY <1>1, <2>2
    <3>2. h[i - 1] = Len(t) /\ h[i] = m
      BY <1>2, <1>5, <2>1, <2>2, <3>1
    <3> QED BY <3>2
  <2>3. CASE i # n
    <3>1. i \in 2..Len(s) /\ i \in 1..Len(s)
      BY <1>1, <2>3
    <3> QED BY <1>2, <1>5, <2>1, <3>1
  <2> QED BY <2>2, <2>3
<1>9. \A i \in 2..Len(q) : q[i] # q[i - 1]
  <2> SUFFICES ASSUME NEW i \in 2..m PROVE q[i] # q[i - 1]
    BY <1>4
  <2>1. i - 1 \in 1..Len(t) /\ q[i - 1] = t[i - 1]
    BY <1>1, <1>4
  <2>2. CASE i = m
    <3>1. i - 1 = Len(t)
      BY <1>1, <2>2
    <3> QED BY <1>4, <2>1, <2>2, <3>1
  <2>3. CASE i # m
    <3>1. i \in 2..Len(t) /\ i \in 1..Len(t)
      BY <1>1, <2>3
    <3> QED BY <1>4, <2>1, <3>1 DEF Condenses
  <2> QED BY <2>2, <2>3
<1>10. Condenses(q, r)
  BY <1>3, <1>4, <1>5, <1>6, <1>7, <1>8, <1>9 DEF Condenses
<1> QED BY <1>10 DEF q, r

\* What a row tells: what was superseded, then its decision.
LEMMA Telling ==
  ASSUME NEW row \in Reviews, row.decision \in Decisions
  PROVE  /\ Told(row) \in Seq(Decisions) /\ Len(Told(row)) = Len(row.history) + 1
         /\ Told(row)[Len(Told(row))] = row.decision
<1> DEFINE n == Len(row.history)
           past == [i \in 1..n |-> row.history[i].previous]
<1>1. row.history \in Seq(Corrections)
  BY DEF Reviews
<1>2. n \in Nat /\ \A i \in 1..n : row.history[i] \in Corrections
  BY <1>1
<1>3. \A i \in 1..n : row.history[i].previous \in Decisions
  BY <1>2 DEF Corrections
<1> HIDE DEF n
<1>4. past \in Seq(Decisions) /\ Len(past) = n
  BY <1>2, <1>3
<1> HIDE DEF past
<1>5. /\ Append(past, row.decision) \in Seq(Decisions)
      /\ Len(Append(past, row.decision)) = n + 1
      /\ Append(past, row.decision)[n + 1] = row.decision
  BY <1>2, <1>4
<1> QED BY <1>5 DEF Told, past, n

\* A different verdict is told after the ones before it.
LEMMA TellsOneMore ==
  ASSUME NEW row \in Reviews, row.decision \in Decisions, NEW me \in Requests,
         me.decision \in Decisions, row.decision # me.decision
  PROVE  /\ Decided(row, me) \in Reviews
         /\ Decided(row, me).decision = me.decision /\ Decided(row, me).run = row.run
         /\ Decided(row, me).corrected = TRUE
         /\ Told(Decided(row, me)) = Append(Told(row), me.decision)
<1> DEFINE step == [previous |-> row.decision, decided |-> row.decided, corrected |-> me.now]
           past == Append(row.history, step)
           new == Decided(row, me)
           n == Len(row.history)
<1>1. row # NoReview
  BY QcAssumption DEF NoReview
<1>2. step \in Corrections /\ row.history \in Seq(Corrections)
  BY DEF Corrections, Reviews, Requests
<1>3. /\ past \in Seq(Corrections) /\ Len(past) = n + 1 /\ past[n + 1] = step
      /\ n \in Nat /\ \A i \in 1..n : past[i] = row.history[i]
      /\ \A i \in 1..(n + 1) : i \in 1..n \/ i = n + 1
  BY <1>2
<1>4. new = [decision |-> me.decision, run |-> row.run, decided |-> row.decided,
             corrected |-> TRUE, history |-> past]
  BY <1>1 DEF Decided, Reviews
<1>5. new \in Reviews
  BY <1>3, <1>4 DEF Reviews, Requests
<1>6. new.history = past /\ new.decision = me.decision /\ new.run = row.run /\ new.corrected
  BY <1>4
<1> HIDE DEF past, new, n
<1> DEFINE told == [i \in 1..n |-> row.history[i].previous]
           then == [i \in 1..(n + 1) |-> past[i].previous]
<1>7. then = Append(told, row.decision)
  <2>1. told \in Seq(Decisions \cup {NoDecision})
    <3>1. \A i \in 1..n : row.history[i].previous \in Decisions
      <4>1. \A i \in 1..n : row.history[i] \in Corrections
        BY <1>2 DEF n
      <4> QED BY <4>1 DEF Corrections
    <3> QED BY <1>3, <3>1
  <2>2. Len(told) = n
    BY <1>3
  <2>3. \A i \in 1..(n + 1) : then[i] = Append(told, row.decision)[i]
    <3> SUFFICES ASSUME NEW i \in 1..(n + 1) PROVE then[i] = Append(told, row.decision)[i]
      OBVIOUS
    <3>1. CASE i \in 1..n
      <4>1. then[i] = row.history[i].previous /\ told[i] = row.history[i].previous
        BY <1>3, <3>1
      <4> HIDE DEF then, told
      <4> QED BY <2>1, <2>2, <3>1, <4>1
    <3>2. CASE i = n + 1
      <4>1. then[i] = row.decision
        BY <1>3, <3>2
      <4> HIDE DEF then, told
      <4> QED BY <2>1, <2>2, <3>2, <4>1
    <3> QED BY <1>3, <3>1, <3>2
  <2>4. then = [i \in 1..(n + 1) |-> then[i]]
    OBVIOUS
  <2>5. Append(told, row.decision) = [i \in 1..(n + 1) |-> Append(told, row.decision)[i]]
    <3> HIDE DEF then, told
    <3> QED BY <2>1, <2>2
  <2> HIDE DEF then, told
  <2> QED BY <2>3, <2>4, <2>5
<1>8. Told(new) = Append(then, me.decision) /\ Told(row) = Append(told, row.decision)
  BY <1>3, <1>6 DEF Told, n
<1> QED BY <1>5, <1>6, <1>7, <1>8 DEF new, Told, n

(* What a decision makes of the row of its event, whatever it was: the new *)
(* row is right for the verdicts with the decision added to them.          *)
LEMMA DecidedKeeps ==
  ASSUME ArchiveInv, NEW t \in Threads, thread[t].at = "begun",
         NEW e \in EventIds, e = thread[t].event
  PROVE  LET new == Decided(thread[t].existing, thread[t])
             s == Append(verdicts[e], thread[t].decision)
         IN  /\ new \in Reviews /\ new.decision \in Decisions /\ new.run = events[e].run
             /\ Condenses(Told(new), s)
             /\ new.corrected <=> \E i \in 2..Len(s) : s[i] # s[i - 1]
<1> DEFINE me == thread[t]
           d == me.decision
           row == reviews[e]
           v == verdicts[e]
           s == Append(v, d)
           new == Decided(row, me)
<1>1. /\ me \in Requests /\ d \in Decisions /\ me.run = events[e].run /\ me.existing = row
      /\ row \in Reviews /\ v \in Seq(Decisions) /\ me.run \in Times /\ me.now \in Times
  BY ArchiveTypes DEF ArchiveInv, Pertinent, Requests
<1>2. /\ v # <<>> => row.decision \in Decisions
      /\ IF v = <<>> THEN row = NoReview
         ELSE /\ Condenses(Told(row), v)
              /\ row.corrected <=> \E i \in 2..Len(v) : v[i] # v[i - 1]
      /\ row # NoReview => row.run = events[e].run
  BY DEF ArchiveInv, Reviewed, NoVerdictLost, ReviewNamesItsRun
<1>3. /\ s \in Seq(Decisions) /\ Len(s) = Len(v) + 1 /\ Len(v) \in Nat /\ s[Len(v) + 1] = d
      /\ \A i \in 1..Len(v) : s[i] = v[i]
  BY <1>1
<1> HIDE DEF me, row, v
<1>4. ASSUME row = NoReview
      PROVE  /\ new \in Reviews /\ new.decision = d /\ new.run = me.run
             /\ Condenses(Told(new), s)
             /\ new.corrected <=> \E i \in 2..Len(s) : s[i] # s[i - 1]
  <2>1. v = <<>>
    <3>1. row.decision \notin Decisions
      BY <1>4, QcAssumption DEF NoReview
    <3> QED BY <1>2, <3>1
  <2>2. new = [decision |-> d, run |-> me.run, decided |-> me.now, corrected |-> FALSE,
               history |-> <<>>]
    BY <1>4 DEF Decided
  <2>3. new \in Reviews /\ new.decision = d /\ new.run = me.run /\ new.corrected = FALSE
    <3>1. <<>> \in Seq(Corrections)
      OBVIOUS
    <3> QED BY <1>1, <2>2, <3>1 DEF Reviews
  <2>4. new.history = <<>>
    BY <2>2
  <2> HIDE DEF new
  <2>5. Told(new) = <<d>> /\ s = <<d>>
    <3> DEFINE past == [i \in 1..Len(new.history) |-> new.history[i].previous]
    <3>1. Len(new.history) = 0
      BY <2>4
    <3>2. past \in [1..0 -> {d}]
      BY <3>1
    <3>3. past \in Seq({d}) /\ Len(past) = 0
      BY <3>2
    <3> HIDE DEF past
    <3>4. past = <<>>
      BY <3>3
    <3>5. Append(past, d) = <<d>> /\ Append(v, d) = <<d>>
      BY <2>1, <3>4
    <3>6. Told(new) = Append(past, new.decision)
      BY DEF Told, past
    <3> QED BY <2>3, <3>5, <3>6
  <2>6. Condenses(Told(new), s)
    BY <2>5, KeepsFirst
  <2>7. \A i \in 2..Len(s) : FALSE
    BY <2>5
  <2> QED BY <2>3, <2>6, <2>7
<1>5. ASSUME row # NoReview
      PROVE  /\ v # <<>> /\ row.decision \in Decisions /\ Condenses(Told(row), v)
             /\ Told(row) \in Seq(Decisions) /\ v[Len(v)] = row.decision
             /\ Told(row)[Len(Told(row))] = row.decision /\ Len(v) \in Nat \ {0}
             /\ (\E i \in 2..Len(s) : s[i] # s[i - 1])
                <=> row.corrected \/ d # row.decision
  <2>1. v # <<>> /\ row.decision \in Decisions /\ Condenses(Told(row), v)
    BY <1>2, <1>5
  <2>2. /\ Told(row) \in Seq(Decisions) /\ Told(row)[Len(Told(row))] = row.decision
    BY <1>1, <2>1, Telling
  <2>3. v[Len(v)] = row.decision /\ Len(v) \in Nat \ {0}
    BY <1>1, <2>1, <2>2, EndsAlike
  <2>4. ASSUME NEW i \in 2..Len(s), s[i] # s[i - 1]
        PROVE  row.corrected \/ d # row.decision
    <3>1. i - 1 \in 1..Len(v) /\ s[i - 1] = v[i - 1]
      BY <1>3
    <3>2. CASE i = Len(v) + 1
      <4>1. i - 1 = Len(v)
        BY <1>3, <3>2
      <4> QED BY <1>3, <2>3, <2>4, <3>1, <3>2, <4>1
    <3>3. CASE i # Len(v) + 1
      <4>1. i \in 2..Len(v) /\ i \in 1..Len(v)
        BY <1>3, <3>3
      <4>2. v[i] # v[i - 1]
        BY <1>3, <2>4, <3>1, <4>1
      <4> QED BY <1>2, <2>1, <4>1, <4>2
    <3> QED BY <3>2, <3>3
  <2>5. ASSUME row.corrected
        PROVE  \E i \in 2..Len(s) : s[i] # s[i - 1]
    <3>1. PICK i \in 2..Len(v) : v[i] # v[i - 1]
      BY <1>2, <2>1, <2>5
    <3>2. i \in 1..Len(v) /\ i - 1 \in 1..Len(v) /\ i \in 2..Len(s)
      BY <1>3
    <3> QED BY <1>3, <3>1, <3>2
  <2>6. ASSUME d # row.decision
        PROVE  \E i \in 2..Len(s) : s[i] # s[i - 1]
    <3>1. Len(v) + 1 \in 2..Len(s) /\ (Len(v) + 1) - 1 = Len(v) /\ Len(v) \in 1..Len(v)
      BY <1>3, <2>3
    <3>2. s[Len(v) + 1] # s[(Len(v) + 1) - 1]
      BY <1>3, <2>3, <2>6, <3>1
    <3> QED BY <3>1, <3>2
  <2> QED BY <2>1, <2>2, <2>3, <2>4, <2>5, <2>6
<1>6. ASSUME row # NoReview, row.decision = d
      PROVE  /\ new \in Reviews /\ new.decision = d /\ new.run = row.run
             /\ Condenses(Told(new), s)
             /\ new.corrected <=> \E i \in 2..Len(s) : s[i] # s[i - 1]
  <2>1. new = row
    BY <1>6 DEF Decided
  <2>2. Condenses(Told(row), s)
    BY <1>1, <1>5, <1>6, KeepsRepeated
  <2>3. row.corrected \in BOOLEAN
    BY <1>1 DEF Reviews
  <2> HIDE DEF new, s
  <2> QED BY <1>1, <1>5, <1>6, <2>1, <2>2, <2>3
<1>7. ASSUME row # NoReview, row.decision # d
      PROVE  /\ new \in Reviews /\ new.decision = d /\ new.run = row.run
             /\ Condenses(Told(new), s)
             /\ new.corrected <=> \E i \in 2..Len(s) : s[i] # s[i - 1]
  <2>1. /\ new \in Reviews /\ new.decision = d /\ new.run = row.run /\ new.corrected = TRUE
        /\ Told(new) = Append(Told(row), d)
    BY <1>1, <1>5, <1>7, TellsOneMore
  <2>2. Condenses(Append(Told(row), d), s)
    BY <1>1, <1>5, <1>7, KeepsDifferent
  <2> HIDE DEF new, s
  <2> QED BY <1>5, <1>7, <2>1, <2>2
<1>8. /\ new \in Reviews /\ new.decision = d /\ new.run = events[e].run
      /\ Condenses(Told(new), s)
      /\ new.corrected <=> \E i \in 2..Len(s) : s[i] # s[i - 1]
  <2> HIDE DEF new, s
  <2> QED BY <1>1, <1>2, <1>4, <1>6, <1>7
<1> QED BY <1>1, <1>8 DEF me, row, v

(* qc_store.py:242: what a request commits is added to what its row tells. *)
LEMMA CommitKeeps ==
  ASSUME ArchiveInv, NEW t \in Threads, Commit(t)
  PROVE  ArchiveInv'
<1> DEFINE me == thread[t]
           e == me.event
           d == me.decision
           s == Append(verdicts[e], d)
           new == Decided(me.existing, me)
<1>1. /\ me.at = "begun" /\ UNCHANGED <<clock, starts, events>>
      /\ reviews' = [reviews EXCEPT ![e] = new] /\ verdicts' = [verdicts EXCEPT ![e] = s]
      /\ thread' = [thread EXCEPT ![t] = NoRequest]
  BY DEF Commit
<1>2. Pertinent(t) /\ e \in 1..Len(events) /\ e \in EventIds /\ d \in Decisions
  BY <1>1, ArchiveTypes DEF ArchiveInv, Pertinent
<1>3. /\ new \in Reviews /\ new.decision \in Decisions /\ new.run = events[e].run
      /\ Condenses(Told(new), s)
      /\ new.corrected <=> \E i \in 2..Len(s) : s[i] # s[i - 1]
  BY <1>1, <1>2, DecidedKeeps
<1>4. s \in Seq(Decisions) /\ s # <<>>
  <2>1. verdicts[e] \in Seq(Decisions)
    BY <1>2, ArchiveTypes
  <2>2. s \in Seq(Decisions) /\ Len(s) = Len(verdicts[e]) + 1 /\ Len(verdicts[e]) \in Nat
    BY <1>2, <2>1
  <2> QED BY <2>2
<1>5. NoRequest \in Requests /\ NoRequest.at = "free"
  <2>1. 0 \in Times
    BY QcAssumption DEF Times
  <2> QED BY <2>1 DEF NoRequest, Requests, NoReview, Reviews
<1> HIDE DEF new, s
<1>6. /\ \A f \in EventIds : reviews'[f] = IF f = e THEN new ELSE reviews[f]
      /\ \A f \in EventIds : verdicts'[f] = IF f = e THEN s ELSE verdicts[f]
      /\ \A u \in Threads : thread'[u] = IF u = t THEN NoRequest ELSE thread[u]
  BY <1>1, <1>2, ArchiveTypes
<1>7. QcTypeOK'
  BY <1>1, <1>2, <1>3, <1>4, <1>5, ArchiveTypes DEF ArchiveInv, QcTypeOK
<1>8. \A u \in Threads : Pertinent(u)'
  <2> SUFFICES ASSUME NEW u \in Threads, u # t, thread[u].at # "free" PROVE Pertinent(u)'
    BY <1>5, <1>6 DEF Pertinent
  <2>1. Pertinent(u) /\ thread[u].at # "begun"
    BY <1>1, <1>2 DEF ArchiveInv, Pertinent
  <2> QED BY <1>1, <1>6, <2>1 DEF Pertinent
<1>9. \A f \in EventIds : Reviewed(f)'
  <2> SUFFICES ASSUME NEW f \in EventIds PROVE Reviewed(f)'
    OBVIOUS
  <2>1. Reviewed(f)
    BY DEF ArchiveInv
  <2> QED BY <1>1, <1>2, <1>3, <1>6, <2>1 DEF Reviewed
<1>10. NoVerdictLost'
  <2> SUFFICES ASSUME NEW f \in EventIds
               PROVE  IF verdicts'[f] = <<>> THEN reviews'[f] = NoReview
                      ELSE /\ Condenses(Told(reviews'[f]), verdicts'[f])
                           /\ reviews'[f].corrected
                              <=> \E i \in 2..Len(verdicts'[f]) :
                                    verdicts'[f][i] # verdicts'[f][i - 1]
    BY DEF NoVerdictLost, Condenses, Told
  <2>1. CASE f = e
    BY <1>3, <1>4, <1>6, <2>1
  <2>2. CASE f # e
    BY <1>6, <2>2 DEF ArchiveInv, NoVerdictLost
  <2> QED BY <2>1, <2>2
<1>11. ReviewNamesItsRun'
  BY <1>1, <1>3, <1>6 DEF ArchiveInv, ReviewNamesItsRun
<1> QED BY <1>1, <1>7, <1>8, <1>9, <1>10, <1>11 DEF ArchiveInv, Recorded

LEMMA ArchiveNext == ArchiveInv /\ [QcNext]_qcVars => ArchiveInv'
<1>1. ASSUME ArchiveInv, UNCHANGED qcVars PROVE ArchiveInv'
  <2>1. UNCHANGED <<clock, starts, events, reviews, thread, verdicts>>
    BY <1>1 DEF qcVars
  <2>2. QcTypeOK' /\ \A t \in Threads : Pertinent(t)'
    BY <1>1, <2>1 DEF ArchiveInv, QcTypeOK, Pertinent
  <2>3. (\A e \in EventIds : Reviewed(e)') /\ NoVerdictLost' /\ ReviewNamesItsRun'
    BY <1>1, <2>1, ArchiveTypes, ArchiveRest
  <2> QED BY <1>1, <2>1, <2>2, <2>3 DEF ArchiveInv, Recorded
<1> QED BY <1>1, RunStartsKeeps, EventDetectedKeeps, RequestKeeps, BeginKeeps, CommitKeeps,
           RequestFailsKeeps DEF QcNext

-----------------------------------------------------------------------------
(* All the files together.                                                 *)

StoresInv == IInv /\ TxInv /\ RegistryInv /\ PointInv /\ ArchiveInv

LEMMA StoresInvariant == StoresSpec => []StoresInv
<1>1. StoresInit => StoresInv
  BY InitInv, TxInitially, RegistryInit, PointInit, ArchiveInit DEF StoresInit, StoresInv
<1>2. StoresInv /\ [StoresNext]_storesVars => StoresInv'
  <2> SUFFICES ASSUME StoresInv, [StoresNext]_storesVars PROVE StoresInv'
    OBVIOUS
  <2>1. [Next]_vars
    BY DEF StoresNext, storesVars, Admit, AdmissionFails, WriteStore, WriteRegistry,
           TakeBackup, WriteArchive, Next
  <2>2. [TxNext]_txVars
    BY DEF StoresNext, storesVars, Admit, AdmissionFails, WriteStore, WriteRegistry,
           TakeBackup, WriteArchive
  <2>3. [ContinuityNext]_continuityVars
    BY DEF StoresNext, storesVars, Admit, AdmissionFails, WriteStore, WriteRegistry,
           TakeBackup, WriteArchive
  <2>4. [BackupNext]_backupVars
    BY DEF StoresNext, storesVars, Admit, AdmissionFails, WriteStore, WriteRegistry,
           TakeBackup, WriteArchive
  <2>5. [QcNext]_qcVars
    BY DEF StoresNext, storesVars, Admit, AdmissionFails, WriteStore, WriteRegistry,
           TakeBackup, WriteArchive
  <2> QED BY <2>1, <2>2, <2>3, <2>4, <2>5, NextInv, TxInductive, RegistryNext, PointNext,
             ArchiveNext DEF StoresInv
<1> QED BY <1>1, <1>2, PTL DEF StoresSpec

(* All files keep their types, whichever of them are worked on.            *)
THEOREM StoresTypeCorrect == StoresSpec => []StoresTypeOK
<1>1. TxInv => TxTypeOK
  BY DEF TxInv, TxTypeOK, Places
<1>2. StoresInv => StoresTypeOK
  BY <1>1 DEF StoresInv, StoresTypeOK, IInv, RegistryInv, PointInv, ArchiveInv
<1> QED BY <1>2, StoresInvariant, PTL

(* Admission and the writes in blocks work in the program as they do by    *)
(* themselves: a step of the files is one of theirs or leaves them alone.  *)
THEOREM StoresImplementParts == StoresSpec => Spec /\ TxSpec
<1>1. StoresInit => Init /\ TxInit
  BY DEF StoresInit
<1>2. [StoresNext]_storesVars => [Next]_vars /\ [TxNext]_txVars
  BY DEF StoresNext, storesVars, Admit, AdmissionFails, WriteStore, WriteRegistry,
         TakeBackup, WriteArchive, Next
<1> QED BY <1>1, <1>2, PTL DEF StoresSpec, Spec, TxSpec

(* sqlite/__init__.py:306: a recovery point is absent or a whole snapshot, *)
(* with no run by half, whoever writes to the store while it is taken and  *)
(* wherever the command stops.                                             *)
THEOREM PointsAreWhole == StoresSpec => []PointIsWhole
<1>1. StoresInv => PointIsWhole
  BY PointIsKept DEF StoresInv
<1> QED BY <1>1, StoresInvariant, PTL

(* cli.py:470: what a successful backup reported stays on disk until a     *)
(* forced one replaces it.                                                 *)
THEOREM PromisesAreKept == StoresSpec => []PromiseKept
<1>1. StoresInv => PromiseKept
  BY DEF StoresInv, PointInv
<1> QED BY <1>1, StoresInvariant, PTL

(* continuity.py: processes that keep apart write every seed at most once, *)
(* whichever of them dies in the middle of a line.                         *)
THEOREM SeedsAreWrittenOnce == StoresSpec => []SeedsOnce
<1>1. StoresInv => SeedsOnce
  BY DEF StoresInv, RegistryInv
<1> QED BY <1>1, StoresInvariant, PTL

(* continuity.py: a process that reports the registry seeded has left      *)
(* every seed in it, unless an overlapping one tore a line.                *)
THEOREM EnsuredSeedsAreThere == StoresSpec => []EnsuredIsComplete
<1>1. StoresInv => EnsuredIsComplete
  BY DEF StoresInv, RegistryInv
<1> QED BY <1>1, StoresInvariant, PTL

(* qc_store.py:24: a row tells every committed verdict in order, however   *)
(* many requests race for it, and says whether it was corrected.           *)
THEOREM VerdictsAreKept == StoresSpec => []NoVerdictLost
<1>1. StoresInv => NoVerdictLost
  BY DEF StoresInv, ArchiveInv
<1> QED BY <1>1, StoresInvariant, PTL

(* dashboard.py:380: a review names the run that recorded its event,       *)
(* however late it comes.                                                  *)
THEOREM ReviewsNameTheirRun == StoresSpec => []ReviewNamesItsRun
<1>1. StoresInv => ReviewNamesItsRun
  BY DEF StoresInv, ArchiveInv
<1> QED BY <1>1, StoresInvariant, PTL
=============================================================================
