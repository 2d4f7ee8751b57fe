------------------------------ MODULE Continuity ------------------------------
(***************************************************************************)
(* core/continuity.py: processes that make sure the append-only registry   *)
(* holds its seed records (continuity --ensure-seed).  A process reads the *)
(* registry once and appends what was missing; only the append itself is   *)
(* under a lock, and that one is for threads.                              *)
(***************************************************************************)
EXTENDS Naturals, Sequences, SequencesExt

CONSTANTS
  Keepers,  \* processes that run continuity --ensure-seed
  Seeds,    \* SEED_EVENTS, a sequence of records
  TornLine  \* a line that is no record: a write cut short

ASSUME SeedsAssumption ==
  Seeds \in Seq(ToSet(Seeds)) /\ TornLine \notin ToSet(Seeds) /\ IsInjective(Seeds)

VARIABLES
  registry,  \* the lines of continuity-events.jsonl
  keeper,    \* where each process is, the records it read, its next seed
  crowded    \* history: a process started while another one was at it

continuityVars == <<registry, keeper, crowded>>

-----------------------------------------------------------------------------
Absent == [at |-> "absent", known |-> {}, next |-> 1]

ContinuityInit ==
  /\ registry = <<>>
  /\ keeper = [k \in Keepers |-> Absent]
  /\ crowded = FALSE

\* read_events: any line that is no record makes it raise.
MutantRead(k) ==    \* a registry that exists is taken to be seeded
  /\ keeper[k].at = "absent"
  /\ keeper' = [keeper EXCEPT ![k] =
       IF TornLine \in ToSet(registry) THEN [Absent EXCEPT !.at = "failed"]
       ELSE [at |-> "seeding", next |-> 1,
             known |-> IF registry = <<>> THEN {} ELSE ToSet(Seeds)]]
  /\ crowded' = (crowded \/ \E j \in Keepers : keeper[j].at = "seeding")
  /\ UNCHANGED registry

MutantReadIgnorant(k) ==    \* what is there is not looked at
  /\ keeper[k].at = "absent"
  /\ keeper' = [keeper EXCEPT ![k] =
       IF TornLine \in ToSet(registry) THEN [Absent EXCEPT !.at = "failed"]
       ELSE [at |-> "seeding", next |-> 1, known |-> {}]]
  /\ crowded' = (crowded \/ \E j \in Keepers : keeper[j].at = "seeding")
  /\ UNCHANGED registry

Read(k) ==
  /\ keeper[k].at = "absent"
  /\ keeper' = [keeper EXCEPT ![k] =
       IF TornLine \in ToSet(registry) THEN [Absent EXCEPT !.at = "failed"]
       ELSE [at |-> "seeding", next |-> 1, known |-> ToSet(registry)]]
  /\ crowded' = (crowded \/ \E j \in Keepers : keeper[j].at = "seeding")
  /\ UNCHANGED registry

\* What an append to the file leaves: behind a torn line it has no newline
\* to start after and becomes part of that line.
Appended(line) ==
  IF registry # <<>> /\ Last(registry) = TornLine THEN registry ELSE Append(registry, line)

SeedKnown(k) ==
  /\ keeper[k].at = "seeding" /\ keeper[k].next <= Len(Seeds)
  /\ Seeds[keeper[k].next] \in keeper[k].known
  /\ keeper' = [keeper EXCEPT ![k].next = @ + 1]
  /\ UNCHANGED <<registry, crowded>>

AppendSeed(k) ==
  LET seed == Seeds[keeper[k].next] IN
  /\ keeper[k].at = "seeding" /\ keeper[k].next <= Len(Seeds)
  /\ seed \notin keeper[k].known
  /\ registry' = Appended(seed)
  /\ keeper' = [keeper EXCEPT ![k] = [at |-> "seeding", known |-> keeper[k].known \cup {seed},
                                      next |-> keeper[k].next + 1]]
  /\ UNCHANGED crowded

\* The disk is full or the machine stops in the middle of the line.
TearLine(k) ==
  /\ keeper[k].at = "seeding" /\ keeper[k].next <= Len(Seeds)
  /\ Seeds[keeper[k].next] \notin keeper[k].known
  /\ registry' = Appended(TornLine)
  /\ keeper' = [keeper EXCEPT ![k] = Absent]
  /\ UNCHANGED crowded

Ensured(k) ==
  /\ keeper[k].at = "seeding" /\ keeper[k].next > Len(Seeds)
  /\ keeper' = [keeper EXCEPT ![k].at = "ensured"]
  /\ UNCHANGED <<registry, crowded>>

\* The process ends: reported, refused, or killed between two lines.
Leaves(k) ==
  /\ keeper[k].at # "absent"
  /\ keeper' = [keeper EXCEPT ![k] = Absent]
  /\ UNCHANGED <<registry, crowded>>

ContinuityNext ==
  \E k \in Keepers :
    Read(k) \/ SeedKnown(k) \/ AppendSeed(k) \/ TearLine(k) \/ Ensured(k) \/ Leaves(k)

-----------------------------------------------------------------------------
(* Lines and places keep their types.                                      *)
ContinuityTypeOK ==
  /\ registry \in Seq(ToSet(Seeds) \cup {TornLine})
  /\ keeper \in [Keepers -> [at : {"absent", "seeding", "ensured", "failed"},
                             known : SUBSET ToSet(Seeds), next : 1..(Len(Seeds) + 1)]]
  /\ crowded \in BOOLEAN

(* continuity.py:149-158, "Idempotent": while processes keep apart, no     *)
(* sequence of runs, deaths and retries writes a seed twice, and nothing   *)
(* is ever written behind a torn line.                                     *)
SeedsOnce == ~crowded => IsInjective(registry) /\ \A i \in 1..Len(registry) :
                           registry[i] = TornLine => i = Len(registry)

(* A process that reports success leaves every seed in the registry, in    *)
(* spite of the deaths before it; only a line torn by a process it met     *)
(* can swallow one.                                                        *)
EnsuredIsComplete ==
  \A k \in Keepers : keeper[k].at = "ensured" =>
    ToSet(Seeds) \subseteq ToSet(registry) \/ (crowded /\ TornLine \in ToSet(registry))
=============================================================================
