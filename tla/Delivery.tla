------------------------------ MODULE Delivery ------------------------------
(***************************************************************************)
(* providers/discord: drain() and enqueue_test() of several processes over *)
(* one outbox, with the operator's commands around them (deliver           *)
(* --requeue-failed, deliver --include-held, delivery-activation) and the  *)
(* rows a collection run enqueues.                                         *)
(*                                                                         *)
(* Every store call is one committed statement and one step; so is every   *)
(* request.  The grant is a kernel lock that dies with its process.  The   *)
(* channel is not under our control: posts[r] counts what reached it.      *)
(***************************************************************************)
EXTENDS Naturals, FiniteSetsExt

CONSTANTS
  Procs,        \* processes that may drain or test
  Nobody,       \* no process: the delivery grant is free
  MaxRows,      \* bound on notification rows
  Times,        \* detected_at values of events
  Unknown,      \* the detected_at of a row without an event
  NoCutoff,     \* no activation policy is installed
  Unreadable,   \* one is, and does not parse
  Policies,     \* policies the database may start with
  MaxAttempts,  \* MAX_ATTEMPTS
  MaxRequeued,  \* bound: --requeue-failed stops at rows with so many attempts
  MaxFaults,    \* bound on crashes, 429 answers and accepted posts unheard of
  Testing       \* TRUE when test-notify may run

ASSUME DeliveryAssumption ==
  /\ MaxRows \in Nat /\ MaxFaults \in Nat /\ MaxRequeued \in Nat
  /\ MaxAttempts \in Nat \ {0}
  /\ Nobody \notin Procs
  /\ Times \subseteq Nat /\ Unknown \notin Times
  /\ Policies \subseteq Times \cup {NoCutoff, Unreadable}
  /\ NoCutoff # Unreadable /\ {NoCutoff, Unreadable} \cap Times = {}
  /\ Testing \in BOOLEAN

VARIABLES
  rows,     \* notifications: status, attempts, not_before in force, event time
  cutoff,   \* delivery_policy
  grant,    \* holder of the delivery lock
  proc,     \* where each process is, and its local variables
  posts,    \* copies of each row the channel accepted
  lost,     \* those of them whose answer no process recorded or will
  faults    \* faults so far

vars == <<rows, cutoff, grant, proc, posts, lost, faults>>

-----------------------------------------------------------------------------
RowIds == 1..MaxRows

NoRow == [status |-> "none", attempts |-> 0, deferred |-> FALSE, time |-> Unknown]

\* snap: the attempts and floors a drain selected; todo: rows it has yet to
\* look at; heard: the answer to the post of `row` it has yet to record.
Idle == [pc |-> "idle", held |-> FALSE, policy |-> NoCutoff, todo |-> {},
         snap |-> [r \in RowIds |-> NoRow], row |-> 0, heard |-> "none"]

NewRow(status, time) == [NoRow EXCEPT !.status = status, !.time = time]

\* Ids are handed out in order.
IsNextRow(r) == rows[r].status = "none" /\ \A q \in 1..(r - 1) : rows[q].status # "none"

Pending == {r \in RowIds : rows[r].status = "pending"}

\* decide(): anything but SEND is a reason to hold the row.
Send(time, policy) ==
  /\ policy # Unreadable
  /\ policy = NoCutoff \/ (time # Unknown /\ time >= policy)

\* mark_notification counts an attempt whatever it records.
Marked(r, status) ==
  [rows EXCEPT ![r].status = status, ![r].attempts = @ + 1]

Init ==
  /\ rows = [r \in RowIds |-> NoRow]
  /\ cutoff \in Policies
  /\ grant = Nobody
  /\ proc = [p \in Procs |-> Idle]
  /\ posts = [r \in RowIds |-> 0]
  /\ lost = [r \in RowIds |-> 0]
  /\ faults = 0

-----------------------------------------------------------------------------
(* Commands that never take the delivery grant.                            *)

\* A collection run commits an event and its row (module Runner).
Enqueue(r, status, time) ==
  /\ IsNextRow(r)
  /\ rows' = [rows EXCEPT ![r] = NewRow(status, time)]
  /\ UNCHANGED <<cutoff, grant, proc, posts, lost, faults>>

Failed == {r \in RowIds : rows[r].status = "failed"}

\* requeue_failed_notifications: every failed row, attempts kept.
Requeue ==
  /\ Failed # {} /\ \A r \in Failed : rows[r].attempts < MaxRequeued
  /\ rows' = [r \in RowIds |-> IF r \in Failed THEN [rows[r] EXCEPT !.status = "pending"]
                                               ELSE rows[r]]
  /\ UNCHANGED <<cutoff, grant, proc, posts, lost, faults>>

\* delivery-activation --set-cutoff refuses what does not parse.
SetCutoff(t) ==
  /\ cutoff # t
  /\ cutoff' = t
  /\ UNCHANGED <<rows, grant, proc, posts, lost, faults>>

\* A Retry-After floor passes.
FloorPasses(r) ==
  /\ rows[r].deferred
  /\ rows' = [rows EXCEPT ![r].deferred = FALSE]
  /\ UNCHANGED <<cutoff, grant, proc, posts, lost, faults>>

-----------------------------------------------------------------------------
(* drain().  A busy drain and a drain without a webhook change nothing.    *)

\* The policy is read right under the grant, before the rows.
MutantStartDrain(p, held) ==    \* drain without the grant
  /\ proc[p].pc = "idle"
  /\ proc' = [proc EXCEPT ![p] = [Idle EXCEPT !.pc = "selecting", !.held = held, !.policy = cutoff]]
  /\ UNCHANGED <<rows, grant, cutoff, posts, lost, faults>>

StartDrain(p, held) ==
  /\ proc[p].pc = "idle" /\ grant = Nobody
  /\ grant' = p
  /\ proc' = [proc EXCEPT ![p] = [Idle EXCEPT !.pc = "selecting", !.held = held, !.policy = cutoff]]
  /\ UNCHANGED <<rows, cutoff, posts, lost, faults>>

Select(p) ==
  /\ proc[p].pc = "selecting"
  /\ proc' = [proc EXCEPT ![p].pc = "draining", ![p].snap = rows, ![p].todo = Pending]
  /\ UNCHANGED <<rows, cutoff, grant, posts, lost, faults>>

\* The row a drain looks at next, in id order.
IsHead(p, r) == proc[p].pc = "draining" /\ r \in proc[p].todo /\ \A q \in proc[p].todo : r <= q

\* A selected floor is in force until it passes.
Deferred(p, r) == proc[p].snap[r].deferred /\ rows[r].deferred

Held(p, r) == ~proc[p].held /\ ~Send(proc[p].snap[r].time, proc[p].policy)

PassOver(p, r) ==
  /\ IsHead(p, r)
  /\ Deferred(p, r) \/ Held(p, r)
  /\ proc' = [proc EXCEPT ![p].todo = @ \ {r}]
  /\ UNCHANGED <<rows, cutoff, grant, posts, lost, faults>>

\* One request.  An error may hide a post the channel accepted (a timeout on
\* the answer).
Request(r, heard) ==
  \/ /\ heard = "accepted"
     /\ posts' = [posts EXCEPT ![r] = @ + 1]
     /\ UNCHANGED <<lost, faults>>
  \/ /\ heard = "limited" /\ faults < MaxFaults
     /\ faults' = faults + 1
     /\ UNCHANGED <<posts, lost>>
  \/ /\ heard = "error"
     /\ UNCHANGED <<posts, lost, faults>>
  \/ /\ heard = "error" /\ faults < MaxFaults
     /\ faults' = faults + 1
     /\ posts' = [posts EXCEPT ![r] = @ + 1]
     /\ lost' = [lost EXCEPT ![r] = @ + 1]

Post(p, r) ==
  /\ IsHead(p, r) /\ ~Deferred(p, r) /\ ~Held(p, r)
  /\ \E heard \in {"accepted", "limited", "error"} :
       /\ Request(r, heard)
       /\ proc' = [proc EXCEPT ![p].pc = "recording", ![p].todo = @ \ {r},
                               ![p].row = r, ![p].heard = heard]
  /\ UNCHANGED <<rows, cutoff, grant>>

MutantAfterError(attempts) ==    \* one failure too early
  IF attempts + 2 >= MaxAttempts THEN "failed" ELSE "pending"

\* attempts is the count the drain selected, not the row's.
AfterError(attempts) == IF attempts + 1 >= MaxAttempts THEN "failed" ELSE "pending"

\* A 429 records a floor and ends the drain (a Retry-After of "nan" raises
\* before the floor is written and ends it too); other answers are marked.
Record(p) ==
  LET me == proc[p] IN
  /\ me.pc = "recording"
  /\ \/ me.heard = "accepted" /\ rows' = Marked(me.row, "sent")
     \/ me.heard = "limited" /\ rows' \in {[rows EXCEPT ![me.row].deferred = TRUE], rows}
     \/ me.heard = "error" /\ rows' = Marked(me.row, AfterError(me.snap[me.row].attempts))
  /\ proc' = [proc EXCEPT ![p].pc = "draining", ![p].row = 0, ![p].heard = "none",
                          ![p].todo = IF me.heard = "limited" THEN {} ELSE @]
  /\ UNCHANGED <<cutoff, grant, posts, lost, faults>>

EndDrain(p) ==
  /\ proc[p].pc = "draining" /\ proc[p].todo = {}
  /\ grant' = Nobody
  /\ proc' = [proc EXCEPT ![p] = Idle]
  /\ UNCHANGED <<rows, cutoff, posts, lost, faults>>

-----------------------------------------------------------------------------
(* enqueue_test().                                                         *)

\* The row is pending and committed before the grant is asked for.
PutTest(p, r) ==
  /\ Testing /\ proc[p].pc = "idle" /\ IsNextRow(r)
  /\ rows' = [rows EXCEPT ![r] = NewRow("pending", Unknown)]
  /\ proc' = [proc EXCEPT ![p] = [Idle EXCEPT !.pc = "test_put", !.row = r]]
  /\ UNCHANGED <<cutoff, grant, posts, lost, faults>>

TestUnconfigured(p) ==
  /\ proc[p].pc = "test_put"
  /\ rows' = Marked(proc[p].row, "failed")
  /\ proc' = [proc EXCEPT ![p] = Idle]
  /\ UNCHANGED <<cutoff, grant, posts, lost, faults>>

TestAcquire(p) ==
  /\ proc[p].pc = "test_put"
  /\ IF grant = Nobody
     THEN grant' = p /\ proc' = [proc EXCEPT ![p].pc = "test_send"]
     ELSE proc' = [proc EXCEPT ![p] = Idle] /\ UNCHANGED grant
  /\ UNCHANGED <<rows, cutoff, posts, lost, faults>>

\* The grant is given back before the answer is recorded.
TestPost(p) ==
  /\ proc[p].pc = "test_send"
  /\ \E heard \in {"accepted", "limited", "error"} :
       /\ Request(proc[p].row, heard)
       /\ proc' = [proc EXCEPT ![p].pc = "test_heard", ![p].heard = heard]
  /\ grant' = Nobody
  /\ UNCHANGED <<rows, cutoff>>

TestRecord(p) ==
  /\ proc[p].pc = "test_heard"
  /\ rows' = Marked(proc[p].row, IF proc[p].heard = "accepted" THEN "sent" ELSE "failed")
  /\ proc' = [proc EXCEPT ![p] = Idle]
  /\ UNCHANGED <<cutoff, grant, posts, lost, faults>>

-----------------------------------------------------------------------------
MutantCrash(p) ==    \* a lock that outlives its process
  /\ proc[p].pc # "idle" /\ faults < MaxFaults
  /\ faults' = faults + 1
  /\ lost' = IF proc[p].heard = "accepted" THEN [lost EXCEPT ![proc[p].row] = @ + 1] ELSE lost
  /\ proc' = [proc EXCEPT ![p] = Idle]
  /\ UNCHANGED <<rows, cutoff, grant, posts>>

\* The process dies, or a statement of it fails and raises; the grant goes.
Crash(p) ==
  /\ proc[p].pc # "idle" /\ faults < MaxFaults
  /\ faults' = faults + 1
  /\ grant' = IF grant = p THEN Nobody ELSE grant
  /\ lost' = IF proc[p].heard = "accepted" THEN [lost EXCEPT ![proc[p].row] = @ + 1] ELSE lost
  /\ proc' = [proc EXCEPT ![p] = Idle]
  /\ UNCHANGED <<rows, cutoff, posts>>

\* What a process that has started does next.
Step(p) ==
  \/ Select(p) \/ Record(p) \/ EndDrain(p)
  \/ \E r \in RowIds : PassOver(p, r) \/ Post(p, r)
  \/ TestUnconfigured(p) \/ TestAcquire(p) \/ TestPost(p) \/ TestRecord(p)

Operator ==
  \/ Requeue
  \/ \E t \in Times : SetCutoff(t)
  \/ \E r \in RowIds, status \in {"pending", "suppressed"}, t \in Times : Enqueue(r, status, t)

Next ==
  \/ Operator
  \/ \E r \in RowIds : FloorPasses(r)
  \/ \E p \in Procs :
       \/ \E held \in BOOLEAN : StartDrain(p, held)
       \/ \E r \in RowIds : PutTest(p, r)
       \/ Step(p)
       \/ Crash(p)

Spec == Init /\ [][Next]_vars

\* A scheduled drain comes again and again, processes run, floors pass.
Fairness ==
  /\ WF_vars(\E p \in Procs : StartDrain(p, FALSE))
  /\ \A p \in Procs : WF_vars(Step(p))
  /\ \A r \in RowIds : WF_vars(FloorPasses(r))

FairSpec == Spec /\ Fairness

-----------------------------------------------------------------------------
(* Vocabulary of the properties.                                           *)

EventRows == {r \in RowIds : rows[r].status # "none" /\ rows[r].time # Unknown}
TestRows == {r \in RowIds : rows[r].status # "none" /\ rows[r].time = Unknown}

Draining(p) == proc[p].pc \in {"selecting", "draining", "recording"}

\* Rows a drain has selected and not yet recorded an answer for.
InHand(p) == IF Draining(p) THEN proc[p].todo \cup ({proc[p].row} \ {0}) ELSE {}

-----------------------------------------------------------------------------
(* Rows, processes and ledgers keep their types.                           *)
RowType == [status : {"none", "pending", "sent", "failed", "suppressed"},
            attempts : Nat, deferred : BOOLEAN, time : Times \cup {Unknown}]

TypeOK ==
  /\ rows \in [RowIds -> RowType]
  /\ cutoff \in Times \cup {NoCutoff, Unreadable}
  /\ grant \in Procs \cup {Nobody}
  /\ proc \in [Procs -> [pc : {"idle", "selecting", "draining", "recording",
                              "test_put", "test_send", "test_heard"},
                        held : BOOLEAN, policy : Times \cup {NoCutoff, Unreadable},
                        todo : SUBSET RowIds, snap : [RowIds -> RowType],
                        row : 0..MaxRows, heard : {"none", "accepted", "limited", "error"}]]
  /\ posts \in [RowIds -> Nat] /\ lost \in [RowIds -> Nat]
  /\ faults \in 0..MaxFaults

(* A drain works on a copy of the rows for as long as its requests take:   *)
(* what it holds of an event's row is still true when it sends and when it *)
(* records, whatever other drains, requeues, tests and runs did meanwhile. *)
SelectionIsCurrent ==
  \A p \in Procs : \A r \in InHand(p) \cap EventRows :
    /\ grant = p
    /\ rows[r].status = "pending"
    /\ rows[r].attempts = proc[p].snap[r].attempts

(* An event's row is given up only after MAX_ATTEMPTS recorded failures:   *)
(* rate limits, holds, busy drains and crashes never count towards it.     *)
FailedIsEarned ==
  \A r \in EventRows : rows[r].status = "failed" => rows[r].attempts >= MaxAttempts

(* The outbox seen as its abstract specification: event rows only, since a *)
(* test row is sent by its own process.                                    *)
Ledger(f, none) == [r \in RowIds |-> IF r \in EventRows THEN f[r] ELSE none]

Abstract == INSTANCE Outbox WITH
  Rows <- RowIds,
  state <- Ledger([r \in RowIds |-> rows[r].status], "none"),
  copies <- Ledger(posts, 0),
  unheard <- Ledger(lost, 0)

(* At least once, and once unless an answer was lost: event rows implement *)
(* Outbox (sent is final, a suppressed row never leaves, each copy past    *)
(* the first has a crash or a timeout behind it).                          *)
ImplementsOutbox == Abstract!Spec

(* Once faults have ceased, an event's row that the policy lets through is *)
(* sent or given up, unless the operator moves the cutoff past it.         *)
EligibleSettles ==
  \A r \in RowIds :
    (r \in EventRows /\ rows[r].status = "pending" /\ Send(rows[r].time, cutoff))
      ~> (rows[r].status \in {"sent", "failed"} \/ ~Send(rows[r].time, cutoff))

-----------------------------------------------------------------------------
(* Statements of the repository's comments that the code does not meet.    *)

(* discord:13-16: two overlapping senders cannot both post the same        *)
(* pending row; without a fault no row is posted twice.                    *)
PostedOnce == \A r \in RowIds : posts[r] <= 1 + lost[r]
=============================================================================
