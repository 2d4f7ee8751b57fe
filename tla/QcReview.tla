------------------------------- MODULE QcReview -------------------------------
(***************************************************************************)
(* Human reviews of events: do_POST of dashboard.py in threads of their    *)
(* own, and QcArchiveStore.submit_review.  The event is read from the      *)
(* production store, which is closed before the archive is opened; the     *)
(* time of the decision is taken before the archive's write lock.          *)
(***************************************************************************)
EXTENDS Naturals, Sequences, SequencesExt

CONSTANTS
  Threads,    \* of the ThreadingHTTPServer
  Decisions,
  NoDecision, \* no review
  MaxTime     \* bound on the clock, and so on runs, events and requests

ASSUME QcAssumption == NoDecision \notin Decisions /\ MaxTime \in Nat

VARIABLES
  clock,
  starts,    \* started_at of the runs of the source
  events,    \* each event: detected_at, and the run that recorded it
  reviews,   \* the archive's row of each event
  thread,    \* what each request is about and where it is
  verdicts   \* history: the decisions committed for each event

qcVars == <<clock, starts, events, reviews, thread, verdicts>>

-----------------------------------------------------------------------------
EventIds == 1..MaxTime

NoReview == [decision |-> NoDecision, run |-> 0, decided |-> 0, corrected |-> FALSE,
             history |-> <<>>]

NoRequest == [at |-> "free", event |-> 0, decision |-> NoDecision, run |-> 0, now |-> 0,
              existing |-> NoReview]

QcInit ==
  /\ clock = 0 /\ starts = <<>> /\ events = <<>>
  /\ reviews = [e \in EventIds |-> NoReview]
  /\ thread = [t \in Threads |-> NoRequest]
  /\ verdicts = [e \in EventIds |-> <<>>]

Tick == clock < MaxTime /\ clock' = clock + 1

\* Runs of the source follow one another; the newest records events.
RunStarts ==
  /\ Tick
  /\ starts' = Append(starts, clock')
  /\ UNCHANGED <<events, reviews, thread, verdicts>>

EventDetected ==
  /\ Tick /\ starts # <<>>
  /\ events' = Append(events, [detected |-> clock', run |-> Len(starts)])
  /\ UNCHANGED <<starts, reviews, thread, verdicts>>

\* The latest run of the source that started by then.
MutantRecordedBy(detected) == Len(starts)    \* the latest run

RecordedBy(detected) ==
  CHOOSE r \in 1..Len(starts) :
    starts[r] <= detected /\ \A q \in 1..Len(starts) : starts[q] <= detected => q <= r

\* The event, its run and the time, all before the archive is locked.
Request(t) ==
  /\ thread[t].at = "free" /\ Tick
  /\ \E e \in 1..Len(events), d \in Decisions :
       thread' = [thread EXCEPT ![t] =
         [at |-> "stamped", event |-> e, decision |-> d,
          run |-> RecordedBy(events[e].detected), now |-> clock', existing |-> NoReview]]
  /\ UNCHANGED <<starts, events, reviews, verdicts>>

\* BEGIN IMMEDIATE: one thread at a time from here to its commit.
MutantBegin(t) ==    \* a deferred transaction: two threads may have read
  /\ thread[t].at = "stamped"
  /\ thread' = [thread EXCEPT ![t].at = "begun", ![t].existing = reviews[thread[t].event]]
  /\ UNCHANGED <<clock, starts, events, reviews, verdicts>>

Begin(t) ==
  /\ thread[t].at = "stamped" /\ \A u \in Threads : thread[u].at # "begun"
  /\ thread' = [thread EXCEPT ![t].at = "begun", ![t].existing = reviews[thread[t].event]]
  /\ UNCHANGED <<clock, starts, events, reviews, verdicts>>

\* The row a decision makes of the one that was there: a different decision
\* is a correction and keeps the one it supersedes.
Decided(row, me) ==
  IF row = NoReview
  THEN [decision |-> me.decision, run |-> me.run, decided |-> me.now, corrected |-> FALSE,
        history |-> <<>>]
  ELSE IF row.decision = me.decision THEN row
  ELSE [row EXCEPT !.decision = me.decision, !.corrected = TRUE,
          !.history = Append(@, [previous |-> row.decision, decided |-> row.decided,
                                 corrected |-> me.now])]

Commit(t) ==
  LET me == thread[t] IN
  /\ me.at = "begun"
  /\ reviews' = [reviews EXCEPT ![me.event] = Decided(me.existing, me)]
  /\ verdicts' = [verdicts EXCEPT ![me.event] = Append(@, me.decision)]
  /\ thread' = [thread EXCEPT ![t] = NoRequest]
  /\ UNCHANGED <<clock, starts, events>>

\* The archive is refused or locked too long, a statement raises (rollback)
\* or the server dies.
RequestFails(t) ==
  /\ thread[t].at # "free"
  /\ thread' = [thread EXCEPT ![t] = NoRequest]
  /\ UNCHANGED <<clock, starts, events, reviews, verdicts>>

QcNext ==
  \/ RunStarts \/ EventDetected
  \/ \E t \in Threads : Request(t) \/ Begin(t) \/ Commit(t) \/ RequestFails(t)

-----------------------------------------------------------------------------
Times == 0..MaxTime

Corrections == [previous : Decisions, decided : Times, corrected : Times]

Reviews == [decision : Decisions \cup {NoDecision}, run : Times, decided : Times,
            corrected : BOOLEAN, history : Seq(Corrections)]

Requests == [at : {"free", "stamped", "begun"}, event : Times,
             decision : Decisions \cup {NoDecision}, run : Times, now : Times,
             existing : Reviews]

(* Reviews and requests keep their types.                                  *)
QcTypeOK ==
  /\ clock \in Times
  /\ starts \in Seq(Times) /\ events \in Seq([detected : Times, run : Times])
  /\ reviews \in [EventIds -> Reviews]
  /\ thread \in [Threads -> Requests]
  /\ verdicts \in [EventIds -> Seq(Decisions)]

\* t is s without its immediate repetitions: no two neighbours of t agree,
\* and g says at which place of t each place of s is.
Condenses(t, s) ==
  /\ \A i \in 2..Len(t) : t[i] # t[i - 1]
  /\ \E g \in [1..Len(s) -> 1..Len(t)] :
       /\ g[1] = 1 /\ g[Len(s)] = Len(t)
       /\ \A i \in 1..Len(s) : s[i] = t[g[i]]
       /\ \A i \in 2..Len(s) : g[i] \in {g[i - 1], g[i - 1] + 1}

\* All the decisions a row knows of.
Told(row) == Append([i \in 1..Len(row.history) |-> row.history[i].previous], row.decision)

(* qc_store.py:24-31: racing submissions for one event never both win and  *)
(* a correction stays auditable: the row's history and decision are every  *)
(* committed verdict in order, and it is marked corrected when there were  *)
(* different ones.                                                         *)
NoVerdictLost ==
  \A e \in EventIds :
    IF verdicts[e] = <<>> THEN reviews[e] = NoReview
    ELSE /\ Condenses(Told(reviews[e]), verdicts[e])
         /\ reviews[e].corrected <=> \E i \in 2..Len(verdicts[e]) :
                                      verdicts[e][i] # verdicts[e][i - 1]

(* qc_store.py:3-10, dashboard.py:380: a review is attributed to the run   *)
(* that recorded its event, however late the decision and however many     *)
(* runs and corrections came in between.                                   *)
ReviewNamesItsRun ==
  \A e \in EventIds : reviews[e] # NoReview => reviews[e].run = events[e].run
=============================================================================
