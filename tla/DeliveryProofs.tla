---------------------------- MODULE DeliveryProofs ----------------------------
(***************************************************************************)
(* The outbox keeps its promise: whatever drains, tests, requeues, crashes *)
(* and lost answers do to event rows is something module Outbox allows.    *)
(***************************************************************************)
EXTENDS Delivery, TLAPS

Grants ==
  \A p \in Procs : proc[p].pc \in {"selecting", "draining", "recording", "test_send"} => grant = p

\* What process p has in its hands is what the tables say.
Local(p) ==
  LET me == proc[p] IN
  /\ me.pc \in {"test_put", "test_send", "test_heard"} =>
       me.row \in RowIds /\ rows[me.row].status # "none" /\ rows[me.row].time = Unknown
  /\ me.pc \in {"selecting", "draining"} => me.row = 0
  /\ me.heard # "none" => me.pc \in {"recording", "test_heard"}
  /\ me.pc = "selecting" => me.todo = {}
  /\ me.pc = "recording" => me.row \in RowIds /\ me.row \notin me.todo /\ me.heard # "none"
  /\ \A r \in InHand(p) :
       /\ rows[r].status # "none"
       /\ rows[r].time # Unknown => /\ rows[r].status = "pending"
                                    /\ rows[r].attempts = me.snap[r].attempts

Untouched == \A r \in RowIds : rows[r].status = "none" => posts[r] = 0 /\ lost[r] = 0

\* A drain knows of a copy that reached the channel, and nobody else does.
Flying(p) == proc[p].pc = "recording" /\ proc[p].heard = "accepted"

InFlight(r) == \E p \in Procs : Flying(p) /\ proc[p].row = r

Owing(r) == rows[r].time # Unknown /\ rows[r].status \in {"pending", "failed"}

Account(r) == Owing(r) => posts[r] = lost[r] + (IF InFlight(r) THEN 1 ELSE 0)

DInv ==
  /\ TypeOK
  /\ Grants
  /\ \A p \in Procs : Local(p)
  /\ FailedIsEarned
  /\ Untouched
  /\ \A r \in RowIds : Account(r)

-----------------------------------------------------------------------------
ProcType == [pc : {"idle", "selecting", "draining", "recording",
                   "test_put", "test_send", "test_heard"},
             held : BOOLEAN, policy : Times \cup {NoCutoff, Unreadable},
             todo : SUBSET RowIds, snap : [RowIds -> RowType],
             row : 0..MaxRows, heard : {"none", "accepted", "limited", "error"}]

\* The constants as the proofs use them.
LEMMA Constants ==
  /\ MaxRows \in Nat /\ MaxFaults \in Nat /\ MaxAttempts \in Nat \ {0} /\ Nobody \notin Procs
  /\ Unknown \notin Times /\ Policies \subseteq Times \cup {NoCutoff, Unreadable}
  /\ RowIds \subseteq 0..MaxRows /\ 0 \notin RowIds
BY DeliveryAssumption DEF RowIds

\* A row nobody wrote and a process that does nothing have their types.
LEMMA Blank == NoRow \in RowType /\ Idle \in ProcType
<1>1. NoRow \in RowType
  BY DEF NoRow, RowType
<1>2. 0 \in 0..MaxRows
  BY Constants
<1> QED BY <1>1, <1>2 DEF Idle, ProcType

(* Nothing is there at first.                                              *)
LEMMA DInit == Init => DInv
<1> SUFFICES ASSUME Init PROVE DInv
  OBVIOUS
<1>1. /\ rows \in [RowIds -> RowType] /\ proc \in [Procs -> ProcType]
      /\ posts \in [RowIds -> Nat] /\ lost \in [RowIds -> Nat]
  BY Blank DEF Init
<1>2. TypeOK
  BY <1>1, Constants DEF Init, TypeOK, ProcType
<1>3. Grants /\ FailedIsEarned /\ Untouched
  BY DEF Init, Grants, FailedIsEarned, Untouched, Idle, NoRow, EventRows
<1>4. \A p \in Procs : Local(p)
  BY DEF Init, Local, Idle, InHand, Draining
<1>5. \A r \in RowIds : Account(r)
  BY DEF Init, Account, Owing, NoRow
<1> QED BY <1>2, <1>3, <1>4, <1>5 DEF DInv

\* What happens to an event row in the hands of process q while another one
\* takes its step.
Spared(q) ==
  \A r \in RowIds : rows[r].status # "none" =>
    /\ rows'[r].status # "none" /\ rows'[r].time = rows[r].time
    /\ rows[r].time # Unknown /\ rows[r].status = "pending" /\ grant = q =>
         rows'[r].status = "pending" /\ rows'[r].attempts = rows[r].attempts

(* A process keeps what it holds when nobody touches its rows.             *)
LEMMA LocalStays ==
  ASSUME DInv, NEW q \in Procs, proc'[q] = proc[q], Spared(q)
  PROVE  Local(q)'
<1>1. Local(q) /\ proc[q] \in ProcType
  BY DEF DInv, TypeOK, ProcType
<1>2. \A r \in InHand(q) : r \in RowIds /\ grant = q
  BY <1>1 DEF Local, InHand, Draining, DInv, Grants, ProcType
<1>3. InHand(q)' = InHand(q)
  BY DEF InHand, Draining
<1>4. \A r \in InHand(q) :
        /\ rows'[r].status # "none"
        /\ rows'[r].time # Unknown => /\ rows'[r].status = "pending"
                                      /\ rows'[r].attempts = proc'[q].snap[r].attempts
  BY <1>1, <1>2 DEF Local, Spared
<1>5. proc[q].pc \in {"test_put", "test_send", "test_heard"} =>
        proc[q].row \in RowIds /\ rows'[proc[q].row].status # "none"
        /\ rows'[proc[q].row].time = Unknown
  BY <1>1 DEF Local, Spared
<1> QED BY <1>1, <1>3, <1>4, <1>5 DEF Local

(* A step preserves the invariant when what it writes itself is right.     *)
LEMMA StepKeeps ==
  ASSUME DInv, TypeOK', Grants', FailedIsEarned', Untouched', NEW P \in SUBSET Procs,
         \A q \in Procs \ P : proc'[q] = proc[q] /\ Spared(q),
         \A p \in P : Local(p)', \A r \in RowIds : Account(r)'
  PROVE  DInv'
<1>1. \A q \in Procs : Local(q)'
  <2> SUFFICES ASSUME NEW q \in Procs, q \notin P PROVE Local(q)'
    OBVIOUS
  <2> QED BY LocalStays
<1> QED BY <1>1 DEF DInv

(* Ledgers that nobody writes stay right when no answer is taken or given. *)
LEMMA AccountStays ==
  ASSUME DInv, UNCHANGED <<posts, lost>>, \A q \in Procs : Flying(q)' <=> Flying(q),
         \A q \in Procs : Flying(q) => proc'[q].row = proc[q].row,
         NEW r \in RowIds,
         Owing(r)' => Owing(r) \/ (posts[r] = 0 /\ lost[r] = 0 /\ ~InFlight(r))
  PROVE  Account(r)'
<1>1. InFlight(r)' <=> InFlight(r)
  BY DEF InFlight
<1> QED BY <1>1 DEF DInv, Account

-----------------------------------------------------------------------------
\* Steps that leave rows and ledgers alone.
LEMMA QuietKeeps ==
  ASSUME DInv, NEW p \in Procs, UNCHANGED <<rows, posts, lost, faults>>,
         cutoff' \in Times \cup {NoCutoff, Unreadable}, grant' \in Procs \cup {Nobody},
         proc' = [proc EXCEPT ![p] = proc'[p]], proc'[p] \in ProcType, Local(p)',
         Grants', ~Flying(p), ~Flying(p)'
  PROVE  DInv'
<1>1. TypeOK /\ proc \in [Procs -> ProcType]
  BY DEF DInv, TypeOK, ProcType
<1>2. TypeOK'
  BY <1>1 DEF TypeOK, ProcType
<1>3. FailedIsEarned' /\ Untouched'
  BY DEF DInv, FailedIsEarned, Untouched, EventRows
<1>4. \A q \in Procs \ {p} : proc'[q] = proc[q]
  BY <1>1
<1>5. \A q \in Procs : Spared(q)
  BY DEF Spared
<1>6. \A q \in Procs : (Flying(q)' <=> Flying(q)) /\ (Flying(q) => proc'[q].row = proc[q].row)
  BY <1>4 DEF Flying
<1>7. \A r \in RowIds : Owing(r)' <=> Owing(r)
  BY DEF Owing
<1>8. \A r \in RowIds : Account(r)'
  BY <1>6, <1>7, AccountStays
<1>9. {p} \in SUBSET Procs
  OBVIOUS
<1> QED BY <1>2, <1>3, <1>4, <1>5, <1>8, <1>9, StepKeeps

(* A drain starts with nothing in its hands.                               *)
LEMMA StartDrainKeeps ==
  ASSUME DInv, NEW p \in Procs, NEW held \in BOOLEAN, StartDrain(p, held) PROVE DInv'
<1>1. TypeOK /\ proc \in [Procs -> ProcType] /\ proc[p].pc = "idle" /\ grant = Nobody
  BY DEF DInv, TypeOK, ProcType, StartDrain
<1>2. /\ proc' = [proc EXCEPT ![p] = proc'[p]] /\ proc'[p] \in ProcType
      /\ proc'[p].pc = "selecting" /\ proc'[p].row = 0 /\ proc'[p].todo = {}
      /\ proc'[p].heard = "none"
  <2>1. proc' = [proc EXCEPT ![p] = [Idle EXCEPT !.pc = "selecting", !.held = held,
                                                 !.policy = cutoff]]
    BY DEF StartDrain
  <2>2. [Idle EXCEPT !.pc = "selecting", !.held = held, !.policy = cutoff] \in ProcType
    BY <1>1, Blank DEF ProcType, TypeOK
  <2> QED BY <1>1, <2>1, <2>2 DEF Idle
<1>3. Grants'
  BY <1>1, <1>2, Constants DEF DInv, Grants, StartDrain
<1>4. Local(p)'
  BY <1>2 DEF Local, InHand, Draining
<1> QED BY <1>1, <1>2, <1>3, <1>4, QuietKeeps DEF StartDrain, Flying, TypeOK

(* It selects the pending rows as they are.                                *)
LEMMA SelectKeeps ==
  ASSUME DInv, NEW p \in Procs, Select(p) PROVE DInv'
<1>1. /\ TypeOK /\ proc \in [Procs -> ProcType] /\ proc[p].pc = "selecting" /\ Local(p)
      /\ UNCHANGED <<rows, cutoff, grant, posts, lost, faults>>
  BY DEF DInv, TypeOK, ProcType, Select
<1>2. /\ proc' = [proc EXCEPT ![p] = proc'[p]] /\ proc'[p] \in ProcType
      /\ proc'[p].pc = "draining" /\ proc'[p].row = proc[p].row /\ proc'[p].todo = Pending
      /\ proc'[p].heard = proc[p].heard /\ proc'[p].snap = rows
  BY <1>1 DEF Select, ProcType, Pending, TypeOK
<1>3. Grants'
  BY <1>1, <1>2 DEF DInv, Grants
<1>4. Local(p)'
  BY <1>1, <1>2 DEF Local, InHand, Draining, Pending
<1> QED BY <1>1, <1>2, <1>3, <1>4, QuietKeeps DEF Flying, TypeOK

(* A row passed over is out of its hands.                                  *)
LEMMA PassOverKeeps ==
  ASSUME DInv, NEW p \in Procs, NEW r \in RowIds, PassOver(p, r) PROVE DInv'
<1>1. /\ TypeOK /\ proc \in [Procs -> ProcType] /\ proc[p].pc = "draining" /\ Local(p)
      /\ UNCHANGED <<rows, cutoff, grant, posts, lost, faults>>
  BY DEF DInv, TypeOK, ProcType, PassOver, IsHead
<1>2. /\ proc' = [proc EXCEPT ![p] = proc'[p]] /\ proc'[p] \in ProcType
      /\ proc'[p].pc = "draining" /\ proc'[p].row = proc[p].row
      /\ proc'[p].todo = proc[p].todo \ {r}
      /\ proc'[p].heard = proc[p].heard /\ proc'[p].snap = proc[p].snap
  BY <1>1 DEF PassOver, ProcType
<1>3. Grants'
  BY <1>1, <1>2 DEF DInv, Grants
<1>4. Local(p)'
  BY <1>1, <1>2 DEF Local, InHand, Draining
<1> QED BY <1>1, <1>2, <1>3, <1>4, QuietKeeps DEF Flying, TypeOK

(* A drain gives the grant back when its hands are empty.                  *)
LEMMA EndDrainKeeps ==
  ASSUME DInv, NEW p \in Procs, EndDrain(p) PROVE DInv'
<1>1. /\ TypeOK /\ proc \in [Procs -> ProcType] /\ proc[p].pc = "draining" /\ grant = p
      /\ UNCHANGED <<rows, cutoff, posts, lost, faults>> /\ grant' = Nobody
      /\ proc' = [proc EXCEPT ![p] = Idle]
  BY DEF DInv, TypeOK, ProcType, EndDrain, Grants
<1>2. /\ proc' = [proc EXCEPT ![p] = proc'[p]] /\ proc'[p] \in ProcType
      /\ proc'[p].pc = "idle" /\ proc'[p].heard = "none"
  BY <1>1, Blank DEF Idle
<1>3. Grants'
  BY <1>1, <1>2 DEF DInv, Grants
<1>4. Local(p)'
  BY <1>2 DEF Local, InHand, Draining
<1> QED BY <1>1, <1>2, <1>3, <1>4, QuietKeeps DEF Flying, TypeOK

(* A test takes the grant, or leaves its row to a later drain.             *)
LEMMA TestAcquireKeeps ==
  ASSUME DInv, NEW p \in Procs, TestAcquire(p) PROVE DInv'
<1>1. /\ TypeOK /\ proc \in [Procs -> ProcType] /\ proc[p].pc = "test_put" /\ Local(p)
      /\ UNCHANGED <<rows, cutoff, posts, lost, faults>>
  BY DEF DInv, TypeOK, ProcType, TestAcquire
<1>2. \/ /\ grant = Nobody /\ grant' = p /\ proc' = [proc EXCEPT ![p] = proc'[p]]
         /\ proc'[p].pc = "test_send" /\ proc'[p].row = proc[p].row
         /\ proc'[p].heard = proc[p].heard /\ proc'[p] \in ProcType
      \/ /\ grant' = grant /\ proc' = [proc EXCEPT ![p] = proc'[p]]
         /\ proc'[p].pc = "idle" /\ proc'[p].heard = "none" /\ proc'[p] \in ProcType
  <2>1. CASE grant = Nobody
    <3>1. grant' = p /\ proc' = [proc EXCEPT ![p].pc = "test_send"]
      BY <2>1 DEF TestAcquire
    <3> QED BY <1>1, <2>1, <3>1 DEF ProcType
  <2>2. CASE grant # Nobody
    <3>1. grant' = grant /\ proc' = [proc EXCEPT ![p] = Idle]
      BY <2>2 DEF TestAcquire
    <3> QED BY <1>1, <3>1, Blank DEF Idle
  <2> QED BY <2>1, <2>2
<1>3. Grants'
  BY <1>1, <1>2, Constants DEF DInv, Grants
<1>4. Local(p)'
  BY <1>1, <1>2 DEF Local, InHand, Draining
<1> QED BY <1>1, <1>2, <1>3, <1>4, QuietKeeps DEF Flying, TypeOK

-----------------------------------------------------------------------------
\* A row that is marked.
LEMMA MarkedRow ==
  ASSUME rows \in [RowIds -> RowType], NEW r \in RowIds, NEW status \in {"pending", "sent", "failed"},
         rows' = Marked(r, status)
  PROVE  /\ rows' \in [RowIds -> RowType] /\ rows'[r].status = status
         /\ rows'[r].attempts = rows[r].attempts + 1 /\ rows'[r].time = rows[r].time
         /\ \A x \in RowIds \ {r} : rows'[x] = rows[x]
BY DEF Marked, RowType

\* The grant lets one drain fly.
LEMMA OneFlies ==
  ASSUME DInv, NEW p \in Procs, NEW q \in Procs, Flying(p),
         proc[q].pc \in {"selecting", "draining", "recording", "test_send"}
  PROVE  p = q
BY DEF DInv, Grants, Flying

\* What flies is a row that is there.
LEMMA FlyingRow ==
  ASSUME DInv, NEW p \in Procs, Flying(p)
  PROVE  proc[p].row \in RowIds /\ rows[proc[p].row].status # "none" /\ proc[p].row \in InHand(p)
<1>1. Local(p)
  BY DEF DInv
<1>2. proc[p].row \in RowIds /\ proc[p].row # 0
  BY <1>1, Constants DEF Local, Flying
<1>3. proc[p].row \in InHand(p)
  BY <1>2 DEF InHand, Draining, Flying
<1> QED BY <1>1, <1>2, <1>3 DEF Local

\* A row that is put takes an id nobody holds.
LEMMA PutRow ==
  ASSUME DInv, NEW r \in RowIds, NEW status \in {"pending", "suppressed"},
         NEW time \in Times \cup {Unknown}, rows[r].status = "none",
         rows' = [rows EXCEPT ![r] = NewRow(status, time)], UNCHANGED <<posts, lost>>
  PROVE  /\ rows' \in [RowIds -> RowType] /\ FailedIsEarned' /\ Untouched'
         /\ rows'[r].status = status /\ rows'[r].time = time
         /\ \A q \in Procs : Spared(q)
         /\ \A x \in RowIds :
              Owing(x)' => Owing(x) \/ (posts[x] = 0 /\ lost[x] = 0 /\ ~InFlight(x))
<1>1. rows \in [RowIds -> RowType]
  BY DEF DInv, TypeOK
<1>2. /\ NewRow(status, time).status = status /\ NewRow(status, time).time = time
      /\ NewRow(status, time) \in RowType
  BY Blank DEF NewRow, RowType, NoRow
<1>3. /\ rows' \in [RowIds -> RowType] /\ rows'[r].status = status /\ rows'[r].time = time
      /\ \A x \in RowIds \ {r} : rows'[x] = rows[x]
  BY <1>1, <1>2
<1>4. FailedIsEarned' /\ Untouched' /\ \A q \in Procs : Spared(q)
  BY <1>3 DEF DInv, FailedIsEarned, Untouched, EventRows, Spared
<1>5. posts[r] = 0 /\ lost[r] = 0 /\ ~InFlight(r)
  BY FlyingRow DEF DInv, Untouched, InFlight
<1> QED BY <1>3, <1>4, <1>5 DEF Owing

(* A run adds a row.                                                       *)
LEMMA EnqueueKeeps ==
  ASSUME DInv, NEW r \in RowIds, NEW status \in {"pending", "suppressed"}, NEW time \in Times,
         Enqueue(r, status, time)
  PROVE  DInv'
<1>1. /\ rows[r].status = "none" /\ rows' = [rows EXCEPT ![r] = NewRow(status, time)]
      /\ UNCHANGED <<cutoff, grant, proc, posts, lost, faults>>
  BY DEF Enqueue, IsNextRow
<1>2. /\ rows' \in [RowIds -> RowType] /\ FailedIsEarned' /\ Untouched'
      /\ \A q \in Procs : Spared(q)
      /\ \A x \in RowIds :
           Owing(x)' => Owing(x) \/ (posts[x] = 0 /\ lost[x] = 0 /\ ~InFlight(x))
  BY <1>1, PutRow
<1>3. \A x \in RowIds : Account(x)'
  BY <1>1, <1>2, AccountStays DEF Flying
<1>4. TypeOK' /\ Grants'
  BY <1>1, <1>2 DEF DInv, TypeOK, Grants
<1>5. {} \in SUBSET Procs
  OBVIOUS
<1> QED BY <1>1, <1>2, <1>3, <1>4, <1>5, StepKeeps

(* A test adds its row.                                                    *)
LEMMA PutTestKeeps ==
  ASSUME DInv, NEW p \in Procs, NEW r \in RowIds, PutTest(p, r) PROVE DInv'
<1>1. /\ rows[r].status = "none" /\ rows' = [rows EXCEPT ![r] = NewRow("pending", Unknown)]
      /\ UNCHANGED <<cutoff, grant, posts, lost, faults>> /\ proc[p].pc = "idle"
      /\ proc' = [proc EXCEPT ![p] = [Idle EXCEPT !.pc = "test_put", !.row = r]]
      /\ TypeOK /\ proc \in [Procs -> ProcType]
  BY DEF PutTest, IsNextRow, DInv, TypeOK, ProcType
<1>2. /\ rows' \in [RowIds -> RowType] /\ FailedIsEarned' /\ Untouched'
      /\ rows'[r].status = "pending" /\ rows'[r].time = Unknown
      /\ \A q \in Procs : Spared(q)
      /\ \A x \in RowIds :
           Owing(x)' => Owing(x) \/ (posts[x] = 0 /\ lost[x] = 0 /\ ~InFlight(x))
  BY <1>1, PutRow
<1>3. /\ \A q \in Procs \ {p} : proc'[q] = proc[q]
      /\ proc'[p].pc = "test_put" /\ proc'[p].row = r /\ proc'[p].heard = "none"
      /\ proc' \in [Procs -> ProcType]
  <2>1. [Idle EXCEPT !.pc = "test_put", !.row = r] \in ProcType
    BY Blank, Constants DEF ProcType
  <2> QED BY <1>1, <2>1 DEF Idle
<1>4. \A x \in RowIds : Account(x)'
  BY <1>1, <1>2, <1>3, AccountStays DEF Flying
<1>5. TypeOK' /\ Grants'
  BY <1>1, <1>2, <1>3 DEF DInv, TypeOK, ProcType, Grants
<1>6. Local(p)'
  BY <1>2, <1>3 DEF Local, InHand, Draining
<1>7. {p} \in SUBSET Procs
  OBVIOUS
<1> QED BY <1>2, <1>3, <1>4, <1>5, <1>6, <1>7, StepKeeps

\* Commands of the operator, and time, that change no process.
LEMMA OperatorKeeps ==
  ASSUME DInv, UNCHANGED <<grant, proc, posts, lost, faults>>,
         cutoff' \in Times \cup {NoCutoff, Unreadable}, rows' \in [RowIds -> RowType],
         \A r \in RowIds :
           /\ rows'[r].time = rows[r].time /\ rows'[r].attempts = rows[r].attempts
           /\ rows'[r].status = rows[r].status \/
                (rows[r].status = "failed" /\ rows'[r].status = "pending")
  PROVE  DInv'
<1>1. TypeOK' /\ Grants' /\ FailedIsEarned' /\ Untouched'
  BY DEF DInv, TypeOK, Grants, FailedIsEarned, EventRows, Untouched
<1>2. \A q \in Procs : Spared(q)
  BY DEF Spared
<1>3. \A r \in RowIds : Account(r)'
  BY AccountStays DEF Flying, Owing
<1>4. {} \in SUBSET Procs
  OBVIOUS
<1> QED BY <1>1, <1>2, <1>3, <1>4, StepKeeps

(* Failed rows become pending again, a cutoff moves, a floor passes.       *)
LEMMA CommandKeeps ==
  ASSUME DInv, Requeue \/ (\E t \in Times : SetCutoff(t)) \/ \E r \in RowIds : FloorPasses(r)
  PROVE  DInv'
<1>1. TypeOK /\ rows \in [RowIds -> RowType]
  BY DEF DInv, TypeOK
<1>2. CASE Requeue
  <2>1. /\ UNCHANGED <<cutoff, grant, proc, posts, lost, faults>>
        /\ rows' = [r \in RowIds |-> IF r \in Failed THEN [rows[r] EXCEPT !.status = "pending"]
                                                      ELSE rows[r]]
    BY <1>2 DEF Requeue
  <2>2. \A r \in RowIds :
          /\ rows'[r] \in RowType
          /\ rows'[r].time = rows[r].time /\ rows'[r].attempts = rows[r].attempts
          /\ rows'[r].status = rows[r].status \/
               (rows[r].status = "failed" /\ rows'[r].status = "pending")
    BY <1>1, <2>1 DEF Failed, RowType
  <2>3. rows' \in [RowIds -> RowType]
    BY <2>1, <2>2
  <2> QED BY <1>1, <2>1, <2>2, <2>3, OperatorKeeps DEF TypeOK
<1>3. CASE \E t \in Times : SetCutoff(t)
  BY <1>1, <1>3, OperatorKeeps DEF SetCutoff
<1>4. CASE \E r \in RowIds : FloorPasses(r)
  <2>1. PICK x \in RowIds : rows' = [rows EXCEPT ![x].deferred = FALSE]
    BY <1>4 DEF FloorPasses
  <2>2. UNCHANGED <<cutoff, grant, proc, posts, lost, faults>>
    BY <1>4 DEF FloorPasses
  <2>3. \A r \in RowIds :
          /\ rows'[r].time = rows[r].time /\ rows'[r].attempts = rows[r].attempts
          /\ rows'[r].status = rows[r].status
    BY <1>1, <2>1 DEF RowType
  <2>4. rows' \in [RowIds -> RowType]
    BY <1>1, <2>1 DEF RowType
  <2> QED BY <1>1, <2>2, <2>3, <2>4, OperatorKeeps DEF TypeOK
<1> QED BY <1>2, <1>3, <1>4

-----------------------------------------------------------------------------
\* What a request does to the ledgers of one row.
LEMMA RequestCounts ==
  ASSUME TypeOK, NEW r \in RowIds, NEW heard \in {"accepted", "limited", "error"}, Request(r, heard)
  PROVE  /\ posts' \in [RowIds -> Nat] /\ lost' \in [RowIds -> Nat] /\ faults' \in 0..MaxFaults
         /\ \A x \in RowIds \ {r} : posts'[x] = posts[x] /\ lost'[x] = lost[x]
         /\ IF heard = "accepted" THEN posts'[r] = posts[r] + 1 /\ lost'[r] = lost[r]
            ELSE \/ posts'[r] = posts[r] /\ lost'[r] = lost[r]
                 \/ posts'[r] = posts[r] + 1 /\ lost'[r] = lost[r] + 1
<1>1. /\ posts \in [RowIds -> Nat] /\ lost \in [RowIds -> Nat] /\ faults \in 0..MaxFaults
      /\ MaxFaults \in Nat
  BY Constants DEF TypeOK
<1>2. faults' \in 0..MaxFaults
  BY <1>1 DEF Request
<1> QED BY <1>1, <1>2 DEF Request

(* A copy that is accepted flies until its answer is recorded.             *)
LEMMA PostKeeps ==
  ASSUME DInv, NEW p \in Procs, NEW r \in RowIds, Post(p, r) PROVE DInv'
<1>1. PICK heard \in {"accepted", "limited", "error"} :
        /\ Request(r, heard)
        /\ proc' = [proc EXCEPT ![p].pc = "recording", ![p].todo = @ \ {r},
                                ![p].row = r, ![p].heard = heard]
  BY DEF Post
<1>2. /\ TypeOK /\ proc \in [Procs -> ProcType] /\ proc[p].pc = "draining" /\ Local(p)
      /\ r \in proc[p].todo /\ UNCHANGED <<rows, cutoff, grant>>
  BY DEF DInv, TypeOK, ProcType, Post, IsHead
<1>3. /\ \A q \in Procs \ {p} : proc'[q] = proc[q]
      /\ proc' \in [Procs -> ProcType] /\ proc'[p].pc = "recording"
      /\ proc'[p].todo = proc[p].todo \ {r} /\ proc'[p].row = r /\ proc'[p].heard = heard
      /\ proc'[p].snap = proc[p].snap
  BY <1>1, <1>2, Constants DEF ProcType
<1>4. /\ posts' \in [RowIds -> Nat] /\ lost' \in [RowIds -> Nat] /\ faults' \in 0..MaxFaults
      /\ \A x \in RowIds \ {r} : posts'[x] = posts[x] /\ lost'[x] = lost[x]
      /\ IF heard = "accepted" THEN posts'[r] = posts[r] + 1 /\ lost'[r] = lost[r]
         ELSE \/ posts'[r] = posts[r] /\ lost'[r] = lost[r]
              \/ posts'[r] = posts[r] + 1 /\ lost'[r] = lost[r] + 1
  BY <1>1, <1>2, RequestCounts
<1>5. TypeOK'
  BY <1>2, <1>3, <1>4 DEF TypeOK, ProcType
<1>6. Grants'
  BY <1>2, <1>3 DEF DInv, Grants
<1>7. rows[r].status # "none"
  BY <1>2 DEF Local, InHand, Draining
<1>8. FailedIsEarned' /\ Untouched'
  BY <1>2, <1>4, <1>7 DEF DInv, FailedIsEarned, EventRows, Untouched
<1>9. Local(p)'
  <2>1. InHand(p)' = InHand(p)
    <3>1. r # 0 /\ proc[p].row = 0
      BY <1>2, Constants DEF Local
    <3> QED BY <1>2, <1>3, <3>1 DEF InHand, Draining
  <2> QED BY <1>2, <1>3, <2>1 DEF Local
<1>10. \A q \in Procs : ~Flying(q)
  BY <1>2, OneFlies DEF Flying
<1>11. \A x \in RowIds : ~InFlight(x) /\ (InFlight(x)' <=> x = r /\ heard = "accepted")
  BY <1>3, <1>10 DEF InFlight, Flying
<1>12. \A x \in RowIds : Owing(x)' <=> Owing(x)
  BY <1>2 DEF Owing
<1>13. \A x \in RowIds : posts[x] \in Nat /\ lost[x] \in Nat
  BY <1>2 DEF TypeOK
<1>14. \A x \in RowIds : Account(x)'
  BY <1>4, <1>11, <1>12, <1>13 DEF DInv, Account
<1>15. {p} \in SUBSET Procs /\ \A q \in Procs : Spared(q)
  BY <1>2 DEF Spared
<1> QED BY <1>3, <1>5, <1>6, <1>8, <1>9, <1>14, <1>15, StepKeeps

\* A row is given up on its last allowed failure.
LEMMA GivenUp ==
  ASSUME NEW n \in Nat
  PROVE  /\ AfterError(n) \in {"pending", "failed"}
         /\ AfterError(n) = "failed" => n + 1 >= MaxAttempts
BY DEF AfterError

\* How an answer is recorded.
LEMMA RecordWrites ==
  ASSUME DInv, NEW p \in Procs, Record(p)
  PROVE  LET r == proc[p].row IN
         /\ r \in RowIds /\ r \in InHand(p) /\ rows' \in [RowIds -> RowType]
         /\ \A x \in RowIds \ {r} : rows'[x] = rows[x]
         /\ rows'[r].time = rows[r].time
         /\ proc[p].heard = "accepted" => rows'[r].status = "sent"
         /\ proc[p].heard # "accepted" => \/ rows'[r].status = rows[r].status
                                           \/ rows'[r].status \in {"pending", "failed"}
         /\ rows'[r].status = "failed" /\ rows[r].status = "pending" /\ rows[r].time # Unknown =>
              rows'[r].attempts >= MaxAttempts
         /\ rows'[r].status = "failed" /\ rows[r].status # "failed" => proc[p].heard = "error"
<1> DEFINE r == proc[p].row
<1>1. /\ rows \in [RowIds -> RowType] /\ proc[p] \in ProcType /\ proc[p].pc = "recording"
      /\ Local(p)
  BY DEF DInv, TypeOK, ProcType, Record
<1>2. r \in RowIds /\ r # 0 /\ r \in InHand(p)
  BY <1>1, Constants DEF Local, InHand, Draining
<1>3. CASE proc[p].heard = "accepted"
  <2>1. rows' = Marked(r, "sent")
    BY <1>3 DEF Record
  <2> QED BY <1>1, <1>2, <1>3, <2>1, MarkedRow
<1>4. CASE proc[p].heard = "limited"
  <2>1. rows' \in {[rows EXCEPT ![r].deferred = TRUE], rows}
    BY <1>4 DEF Record
  <2>2. /\ rows' \in [RowIds -> RowType] /\ \A x \in RowIds \ {r} : rows'[x] = rows[x]
        /\ rows'[r].time = rows[r].time /\ rows'[r].status = rows[r].status
    BY <1>1, <1>2, <2>1 DEF RowType
  <2> QED BY <1>2, <1>4, <2>2
<1>5. CASE proc[p].heard = "error"
  <2> DEFINE n == proc[p].snap[r].attempts
  <2>1. rows' = Marked(r, AfterError(n)) /\ n \in Nat
    BY <1>1, <1>2, <1>5 DEF Record, ProcType, RowType
  <2>2. AfterError(n) \in {"pending", "failed"} /\ (AfterError(n) = "failed" => n + 1 >= MaxAttempts)
    BY <2>1, GivenUp
  <2>3. /\ rows' \in [RowIds -> RowType] /\ rows'[r].status = AfterError(n)
        /\ rows'[r].attempts = rows[r].attempts + 1 /\ rows'[r].time = rows[r].time
        /\ \A x \in RowIds \ {r} : rows'[x] = rows[x]
    BY <1>1, <1>2, <2>1, <2>2, MarkedRow
  <2>4. rows[r].time # Unknown => rows[r].attempts = n
    BY <1>1, <1>2 DEF Local
  <2> QED BY <1>2, <1>5, <2>2, <2>3, <2>4
<1>6. proc[p].heard \in {"accepted", "limited", "error"}
  BY <1>1 DEF Local, ProcType
<1> QED BY <1>3, <1>4, <1>5, <1>6

(* Recording an answer settles what flew.                                  *)
LEMMA RecordKeeps ==
  ASSUME DInv, NEW p \in Procs, Record(p) PROVE DInv'
<1> DEFINE r == proc[p].row
<1>1. /\ r \in RowIds /\ r \in InHand(p) /\ rows' \in [RowIds -> RowType]
      /\ \A x \in RowIds \ {r} : rows'[x] = rows[x]
      /\ rows'[r].time = rows[r].time
      /\ proc[p].heard = "accepted" => rows'[r].status = "sent"
      /\ proc[p].heard # "accepted" => \/ rows'[r].status = rows[r].status
                                        \/ rows'[r].status \in {"pending", "failed"}
      /\ rows'[r].status = "failed" /\ rows[r].status = "pending" /\ rows[r].time # Unknown =>
           rows'[r].attempts >= MaxAttempts
  BY RecordWrites
<1>2. /\ TypeOK /\ proc \in [Procs -> ProcType] /\ proc[p].pc = "recording" /\ Local(p)
      /\ UNCHANGED <<cutoff, grant, posts, lost, faults>> /\ grant = p
      /\ proc' = [proc EXCEPT ![p].pc = "draining", ![p].row = 0, ![p].heard = "none",
                              ![p].todo = IF proc[p].heard = "limited" THEN {} ELSE @]
  BY DEF DInv, TypeOK, ProcType, Record, Grants
<1>3. /\ \A q \in Procs \ {p} : proc'[q] = proc[q]
      /\ proc' \in [Procs -> ProcType] /\ proc'[p].pc = "draining" /\ proc'[p].heard = "none"
      /\ proc'[p].todo \subseteq proc[p].todo /\ proc'[p].row = 0 /\ proc'[p].snap = proc[p].snap
  <2> DEFINE left == IF proc[p].heard = "limited" THEN {} ELSE proc[p].todo
  <2>1. left \subseteq proc[p].todo /\ left \subseteq RowIds /\ proc[p] \in ProcType /\ 0 \in 0..MaxRows
    BY <1>2, Constants DEF ProcType
  <2>2. proc' = [proc EXCEPT ![p].pc = "draining", ![p].row = 0, ![p].heard = "none",
                             ![p].todo = left]
    BY <1>2
  <2> HIDE DEF left
  <2>3. /\ proc'[p].pc = "draining" /\ proc'[p].row = 0 /\ proc'[p].heard = "none"
        /\ proc'[p].todo = left /\ proc'[p].snap = proc[p].snap /\ proc'[p] \in ProcType
    <3>1. proc'[p] = [proc[p] EXCEPT !.pc = "draining", !.row = 0, !.heard = "none", !.todo = left]
      BY <1>2, <2>2
    <3>2. /\ [proc[p] EXCEPT !.pc = "draining", !.row = 0, !.heard = "none", !.todo = left]
               \in ProcType
          /\ proc'[p].pc = "draining" /\ proc'[p].row = 0 /\ proc'[p].heard = "none"
          /\ proc'[p].todo = left /\ proc'[p].snap = proc[p].snap
      BY <2>1, <3>1 DEF ProcType
    <3> QED BY <3>1, <3>2
  <2>4. \A q \in Procs \ {p} : proc'[q] = proc[q]
    BY <1>2, <2>2
  <2>5. proc' \in [Procs -> ProcType]
    BY <1>2, <2>2, <2>3
  <2> QED BY <2>1, <2>3, <2>4, <2>5
<1>4. /\ r \notin proc[p].todo /\ rows[r].status # "none"
      /\ rows[r].time # Unknown => rows[r].status = "pending"
  BY <1>1, <1>2 DEF Local
<1> HIDE DEF r
<1>5. rows'[r].status # "none"
  BY <1>1, <1>4
<1>6. TypeOK' /\ Grants'
  BY <1>1, <1>2, <1>3 DEF DInv, TypeOK, ProcType, Grants
<1>7. FailedIsEarned' /\ Untouched'
  BY <1>1, <1>2, <1>4, <1>5 DEF DInv, FailedIsEarned, EventRows, Untouched
<1>8. Local(p)'
  <2>1. InHand(p)' = proc'[p].todo /\ proc[p].todo \subseteq InHand(p) /\ proc[p].todo \subseteq RowIds
    BY <1>2, <1>3 DEF InHand, Draining, ProcType
  <2>2. \A x \in InHand(p)' : rows'[x] = rows[x] /\ x \in InHand(p)
    BY <1>1, <1>3, <1>4, <2>1
  <2> QED BY <1>2, <1>3, <2>2 DEF Local
<1>9. \A q \in Procs \ {p} : Spared(q)
  BY <1>1, <1>2, <1>5 DEF Spared
<1>10. \A q \in Procs : ~Flying(q)' /\ (Flying(q) => q = p)
  BY <1>2, <1>3, OneFlies DEF Flying
<1>11. \A x \in RowIds : ~InFlight(x)' /\ (InFlight(x) => x = r /\ proc[p].heard = "accepted")
  BY <1>10 DEF InFlight, Flying, r
<1>12. \A x \in RowIds : Owing(x)' => Owing(x) /\ ~InFlight(x)
  <2> SUFFICES ASSUME NEW x \in RowIds, Owing(x)' PROVE Owing(x) /\ ~InFlight(x)
    OBVIOUS
  <2>1. CASE x = r
    BY <1>1, <1>4, <1>11, <2>1 DEF Owing
  <2>2. CASE x # r
    BY <1>1, <1>11, <2>2 DEF Owing
  <2> QED BY <2>1, <2>2
<1>13. \A x \in RowIds : Account(x)'
  BY <1>2, <1>11, <1>12 DEF DInv, Account
<1>14. {p} \in SUBSET Procs
  OBVIOUS
<1> QED BY <1>3, <1>6, <1>7, <1>8, <1>9, <1>13, <1>14, StepKeeps

-----------------------------------------------------------------------------
\* The row of a test belongs to it, and to no ledger of event rows.
LEMMA TestRow ==
  ASSUME DInv, NEW p \in Procs, proc[p].pc \in {"test_put", "test_send", "test_heard"}
  PROVE  /\ proc[p].row \in RowIds /\ rows[proc[p].row].status # "none"
         /\ rows[proc[p].row].time = Unknown /\ ~Flying(p)
BY DEF DInv, Local, Flying

\* A test that ends marks its row and nothing else.
LEMMA TestEndKeeps ==
  ASSUME DInv, NEW p \in Procs, NEW status \in {"sent", "failed"},
         proc[p].pc \in {"test_put", "test_heard"}, rows' = Marked(proc[p].row, status),
         proc' = [proc EXCEPT ![p] = Idle], UNCHANGED <<cutoff, grant, posts, lost, faults>>
  PROVE  DInv'
<1> DEFINE r == proc[p].row
<1>1. r \in RowIds /\ rows[r].status # "none" /\ rows[r].time = Unknown /\ ~Flying(p)
  BY TestRow
<1>2. TypeOK /\ rows \in [RowIds -> RowType] /\ proc \in [Procs -> ProcType]
  BY DEF DInv, TypeOK, ProcType
<1>3. /\ rows' \in [RowIds -> RowType] /\ rows'[r].status = status
      /\ rows'[r].time = Unknown /\ \A x \in RowIds \ {r} : rows'[x] = rows[x]
  BY <1>1, <1>2, MarkedRow
<1>4. /\ proc' \in [Procs -> ProcType] /\ proc'[p].pc = "idle" /\ proc'[p].heard = "none"
      /\ \A q \in Procs \ {p} : proc'[q] = proc[q]
  BY <1>2, Blank DEF Idle
<1> HIDE DEF r
<1>5. TypeOK' /\ Grants'
  BY <1>2, <1>3, <1>4 DEF DInv, TypeOK, ProcType, Grants
<1>6. FailedIsEarned' /\ Untouched' /\ \A q \in Procs : Spared(q)
  BY <1>1, <1>3 DEF DInv, FailedIsEarned, EventRows, Untouched, Spared
<1>7. Local(p)'
  BY <1>4 DEF Local, InHand, Draining
<1>8. \A q \in Procs : (Flying(q)' <=> Flying(q)) /\ (Flying(q) => proc'[q].row = proc[q].row)
  BY <1>1, <1>4 DEF Flying
<1>9. \A x \in RowIds : Owing(x)' => Owing(x)
  BY <1>1, <1>3 DEF Owing
<1>10. \A x \in RowIds : Account(x)'
  BY <1>8, <1>9, AccountStays
<1>11. {p} \in SUBSET Procs
  OBVIOUS
<1> QED BY <1>4, <1>5, <1>6, <1>7, <1>10, <1>11, StepKeeps

(* So do its post, which only its own row's ledger sees, and its two ends. *)
LEMMA TestKeeps ==
  ASSUME DInv, NEW p \in Procs, TestUnconfigured(p) \/ TestPost(p) \/ TestRecord(p)
  PROVE  DInv'
<1>1. CASE TestUnconfigured(p)
  BY <1>1, TestEndKeeps DEF TestUnconfigured
<1>2. CASE TestRecord(p)
  <2> DEFINE status == IF proc[p].heard = "accepted" THEN "sent" ELSE "failed"
  <2>1. status \in {"sent", "failed"} /\ rows' = Marked(proc[p].row, status)
    BY <1>2 DEF TestRecord
  <2> HIDE DEF status
  <2> QED BY <1>2, <2>1, TestEndKeeps DEF TestRecord
<1>3. CASE TestPost(p)
  <2> DEFINE r == proc[p].row
  <2>1. PICK heard \in {"accepted", "limited", "error"} :
          Request(r, heard) /\ proc' = [proc EXCEPT ![p].pc = "test_heard", ![p].heard = heard]
    BY <1>3 DEF TestPost
  <2>2. /\ TypeOK /\ proc \in [Procs -> ProcType] /\ proc[p].pc = "test_send"
        /\ UNCHANGED <<rows, cutoff>> /\ grant = p /\ grant' = Nobody
    BY <1>3 DEF DInv, TypeOK, ProcType, TestPost, Grants
  <2>3. r \in RowIds /\ rows[r].status # "none" /\ rows[r].time = Unknown /\ ~Flying(p)
    BY <2>2, TestRow
  <2>4. /\ posts' \in [RowIds -> Nat] /\ lost' \in [RowIds -> Nat] /\ faults' \in 0..MaxFaults
        /\ \A x \in RowIds \ {r} : posts'[x] = posts[x] /\ lost'[x] = lost[x]
    BY <2>1, <2>2, <2>3, RequestCounts
  <2>5. /\ proc' \in [Procs -> ProcType] /\ proc'[p].pc = "test_heard" /\ proc'[p].heard = heard
        /\ proc'[p].row = r /\ \A q \in Procs \ {p} : proc'[q] = proc[q]
    <3>1. proc[p] \in ProcType
      BY <2>2
    <3>2. /\ proc'[p].pc = "test_heard" /\ proc'[p].heard = heard /\ proc'[p].row = r
          /\ \A q \in Procs \ {p} : proc'[q] = proc[q]
      BY <2>1, <2>2, <3>1 DEF ProcType
    <3>3. [proc[p] EXCEPT !.pc = "test_heard", !.heard = heard] \in ProcType
      BY <3>1 DEF ProcType
    <3>4. proc' \in [Procs -> ProcType]
      BY <2>1, <2>2, <3>3
    <3> QED BY <3>2, <3>4
  <2> HIDE DEF r
  <2>6. TypeOK'
    BY <2>2, <2>4, <2>5 DEF TypeOK, ProcType
  <2>7. Grants'
    BY <2>2, <2>5, Constants DEF DInv, Grants
  <2>8. FailedIsEarned' /\ Untouched' /\ \A q \in Procs : Spared(q)
    BY <2>2, <2>3, <2>4 DEF DInv, FailedIsEarned, EventRows, Untouched, Spared
  <2>9. Local(p)'
    BY <2>2, <2>3, <2>5 DEF Local, InHand, Draining
  <2>10. \A q \in Procs : (Flying(q)' <=> Flying(q)) /\ (Flying(q) => proc'[q].row = proc[q].row)
    BY <2>3, <2>5 DEF Flying
  <2>11. \A x \in RowIds : InFlight(x)' <=> InFlight(x)
    BY <2>10 DEF InFlight
  <2>12. \A x \in RowIds : Owing(x)' => Owing(x) /\ x # r
    BY <2>2, <2>3 DEF Owing
  <2>13. \A x \in RowIds : Account(x)'
    BY <2>4, <2>11, <2>12 DEF DInv, Account
  <2>14. {p} \in SUBSET Procs
    OBVIOUS
  <2> QED BY <2>5, <2>6, <2>7, <2>8, <2>9, <2>13, <2>14, StepKeeps
<1> QED BY <1>1, <1>2, <1>3

(* A crash drops what flew into the ledger of lost answers.                *)
LEMMA CrashKeeps ==
  ASSUME DInv, NEW p \in Procs, Crash(p) PROVE DInv'
<1> DEFINE r == proc[p].row
<1>1. /\ TypeOK /\ proc \in [Procs -> ProcType] /\ proc[p].pc # "idle" /\ Local(p)
      /\ UNCHANGED <<rows, cutoff, posts>> /\ proc' = [proc EXCEPT ![p] = Idle]
      /\ grant' = (IF grant = p THEN Nobody ELSE grant)
      /\ lost' = (IF proc[p].heard = "accepted" THEN [lost EXCEPT ![r] = @ + 1] ELSE lost)
  BY DEF DInv, TypeOK, ProcType, Crash
<1>2. /\ proc' \in [Procs -> ProcType] /\ proc'[p].pc = "idle" /\ proc'[p].heard = "none"
      /\ \A q \in Procs \ {p} : proc'[q] = proc[q]
  BY <1>1, Blank DEF Idle
<1>3. proc[p].heard = "accepted" =>
        r \in RowIds /\ rows[r].status # "none" /\ (Flying(p) \/ rows[r].time = Unknown)
  <2>1. proc[p].heard = "accepted" => proc[p].pc \in {"recording", "test_heard"}
    BY <1>1 DEF Local
  <2> QED BY <2>1, TestRow, FlyingRow DEF Flying
<1> HIDE DEF r
<1>4. faults' \in 0..MaxFaults
  BY <1>1, Constants DEF Crash, TypeOK
<1>5. /\ lost' \in [RowIds -> Nat] /\ posts \in [RowIds -> Nat]
      /\ \A x \in RowIds : lost'[x] =
           IF proc[p].heard = "accepted" /\ x = r THEN lost[x] + 1 ELSE lost[x]
  BY <1>1, <1>3 DEF TypeOK
<1>6. TypeOK'
  BY <1>1, <1>2, <1>4, <1>5 DEF TypeOK, ProcType
<1>7. Grants'
  BY <1>1, <1>2 DEF DInv, Grants
<1>8. FailedIsEarned' /\ Untouched' /\ \A q \in Procs : Spared(q)
  BY <1>1, <1>3, <1>5 DEF DInv, FailedIsEarned, EventRows, Untouched, Spared
<1>9. Local(p)'
  BY <1>2 DEF Local, InHand, Draining
<1>10. \A q \in Procs : (Flying(q)' <=> Flying(q) /\ q # p) /\ (q # p => proc'[q].row = proc[q].row)
  BY <1>2 DEF Flying
<1>11. \A x \in RowIds : Owing(x)' <=> Owing(x)
  BY <1>1 DEF Owing
<1>12. ASSUME NEW x \in RowIds, Owing(x) PROVE Account(x)'
  <2>1. posts[x] = lost[x] + (IF InFlight(x) THEN 1 ELSE 0) /\ lost[x] \in Nat /\ posts[x] \in Nat
    BY <1>1, <1>12 DEF DInv, Account, TypeOK
  <2>2. CASE Flying(p)
    <3>1. \A q \in Procs : Flying(q) => q = p
      BY <2>2, OneFlies DEF Flying
    <3>2. ~InFlight(x)' /\ (InFlight(x) <=> x = r)
      BY <1>10, <2>2, <3>1 DEF InFlight, r
    <3> QED BY <1>1, <1>5, <2>1, <2>2, <3>2 DEF Account, Flying
  <2>3. CASE ~Flying(p)
    <3>1. InFlight(x)' <=> InFlight(x)
      BY <1>10, <2>3 DEF InFlight
    <3>2. lost'[x] = lost[x]
      BY <1>3, <1>5, <1>12, <2>3 DEF Owing
    <3> QED BY <1>1, <2>1, <3>1, <3>2 DEF Account
  <2> QED BY <2>2, <2>3
<1>13. \A x \in RowIds : Account(x)'
  BY <1>11, <1>12 DEF Account
<1>14. {p} \in SUBSET Procs
  OBVIOUS
<1> QED BY <1>2, <1>6, <1>7, <1>8, <1>9, <1>13, <1>14, StepKeeps

(* The invariant is inductive.                                             *)
LEMMA DNext == DInv /\ [Next]_vars => DInv'
<1> SUFFICES ASSUME DInv, [Next]_vars PROVE DInv'
  OBVIOUS
<1>1. CASE Operator \/ \E r \in RowIds : FloorPasses(r)
  BY <1>1, EnqueueKeeps, CommandKeeps DEF Operator
<1>2. ASSUME NEW p \in Procs, NEW held \in BOOLEAN, StartDrain(p, held) PROVE DInv'
  BY <1>2, StartDrainKeeps
<1>3. ASSUME NEW p \in Procs, NEW r \in RowIds, PutTest(p, r) PROVE DInv'
  BY <1>3, PutTestKeeps
<1>4. ASSUME NEW p \in Procs, Step(p) PROVE DInv'
  BY <1>4, SelectKeeps, RecordKeeps, EndDrainKeeps, PassOverKeeps, PostKeeps, TestAcquireKeeps,
     TestKeeps DEF Step
<1>5. ASSUME NEW p \in Procs, Crash(p) PROVE DInv'
  BY <1>5, CrashKeeps
<1>6. CASE UNCHANGED vars
  <2>1. {} \in SUBSET Procs
    OBVIOUS
  <2>2. TypeOK' /\ Grants' /\ FailedIsEarned' /\ Untouched'
    BY <1>6 DEF vars, DInv, TypeOK, Grants, FailedIsEarned, EventRows, Untouched
  <2>3. \A q \in Procs : Spared(q)
    BY <1>6 DEF vars, Spared
  <2>4. \A x \in RowIds : Account(x)'
    BY <1>6, AccountStays DEF vars, Flying, Owing
  <2> QED BY <1>6, <2>1, <2>2, <2>3, <2>4, StepKeeps DEF vars
<1> QED BY <1>1, <1>2, <1>3, <1>4, <1>5, <1>6 DEF Next

(* Every behaviour keeps it.                                               *)
LEMMA Invariance == Spec => []DInv
  BY DInit, DNext, PTL DEF Spec

(* Rows, processes and ledgers keep their types.                           *)
THEOREM TypeCorrect == Spec => []TypeOK
<1>1. DInv => TypeOK
  BY DEF DInv
<1> QED BY <1>1, Invariance, PTL

(* A drain's copy of the event rows it works on is current when it sends   *)
(* and when it records, for any number of processes and rows.              *)
THEOREM SelectionStaysCurrent == Spec => []SelectionIsCurrent
<1>1. DInv => SelectionIsCurrent
  <2> SUFFICES ASSUME DInv, NEW p \in Procs, NEW r \in InHand(p) \cap EventRows
               PROVE  /\ grant = p /\ rows[r].status = "pending"
                      /\ rows[r].attempts = proc[p].snap[r].attempts
    BY DEF SelectionIsCurrent
  <2>1. Local(p)
    BY DEF DInv
  <2>2. grant = p
    BY DEF DInv, Grants, InHand, Draining
  <2> QED BY <2>1, <2>2 DEF Local, EventRows
<1> QED BY <1>1, Invariance, PTL

(* An event's row is given up only after MAX_ATTEMPTS recorded failures.   *)
THEOREM FailureIsEarned == Spec => []FailedIsEarned
<1>1. DInv => FailedIsEarned
  BY DEF DInv
<1> QED BY <1>1, Invariance, PTL

-----------------------------------------------------------------------------
(* The refinement.                                                         *)

IsEvent(r) == rows[r].status # "none" /\ rows[r].time # Unknown

\* Row x is to Outbox what it was.
Unmoved(x) ==
  /\ IsEvent(x)' <=> IsEvent(x)
  /\ IsEvent(x) => /\ rows'[x].status = rows[x].status
                   /\ posts'[x] = posts[x] /\ lost'[x] = lost[x]

\* What Outbox sees of the tables.
Status == Ledger([r \in RowIds |-> rows[r].status], "none")
Copies == Ledger(posts, 0)
Unheard == Ledger(lost, 0)

LEMMA Seen ==
  /\ Status = [x \in RowIds |-> IF IsEvent(x) THEN rows[x].status ELSE "none"]
  /\ Copies = [x \in RowIds |-> IF IsEvent(x) THEN posts[x] ELSE 0]
  /\ Unheard = [x \in RowIds |-> IF IsEvent(x) THEN lost[x] ELSE 0]
BY DEF Status, Copies, Unheard, Ledger, EventRows, IsEvent

\* A step that moves no row is a stutter.
LEMMA Stutters ==
  ASSUME \A x \in RowIds : Unmoved(x) PROVE UNCHANGED <<Status, Copies, Unheard>>
BY Seen DEF Unmoved, IsEvent, Status, Copies, Unheard, Ledger, EventRows

\* A step that moves one event row changes the ledgers there.
LEMMA MovesOne ==
  ASSUME NEW r \in RowIds, \A x \in RowIds \ {r} : Unmoved(x), IsEvent(r)'
  PROVE  /\ Status' = [Status EXCEPT ![r] = rows'[r].status]
         /\ Copies' = [Copies EXCEPT ![r] = posts'[r]]
         /\ Unheard' = [Unheard EXCEPT ![r] = lost'[r]]
         /\ IsEvent(r) => Status[r] = rows[r].status /\ Copies[r] = posts[r] /\ Unheard[r] = lost[r]
         /\ ~IsEvent(r) => Status[r] = "none" /\ Copies[r] = 0 /\ Unheard[r] = 0
BY DEF Unmoved, IsEvent, Status, Copies, Unheard, Ledger, EventRows

(* The outbox starts empty.                                                *)
LEMMA AbstractInit == Init => Abstract!Init
BY DEF Init, Abstract!Init, Ledger, EventRows, NoRow

\* What Outbox lets happen to one event row.
Delivers(r) ==
  /\ rows[r].status = "pending" /\ posts[r] = lost[r]
  /\ rows'[r].status = "pending" /\ posts'[r] = posts[r] + 1
  /\ lost'[r] = lost[r] \/ lost'[r] = lost[r] + 1

Forgets(r) ==
  /\ rows[r].status = "pending" /\ posts[r] > lost[r]
  /\ rows'[r].status = "pending" /\ posts'[r] = posts[r] /\ lost'[r] = lost[r] + 1

Settles(r) ==
  /\ rows[r].status = "pending" /\ posts'[r] = posts[r] /\ lost'[r] = lost[r]
  /\ \/ posts[r] > lost[r] /\ rows'[r].status = "sent"
     \/ posts[r] = lost[r] /\ rows'[r].status = "failed"

LEMMA MovesOnly ==
  ASSUME NEW r \in RowIds, \A x \in RowIds \ {r} : Unmoved(x), IsEvent(r), IsEvent(r)',
         Delivers(r) \/ Forgets(r) \/ Settles(r)
  PROVE  Abstract!Next
<1>1. /\ Status' = [Status EXCEPT ![r] = rows'[r].status]
      /\ Copies' = [Copies EXCEPT ![r] = posts'[r]]
      /\ Unheard' = [Unheard EXCEPT ![r] = lost'[r]]
      /\ Status[r] = rows[r].status /\ Copies[r] = posts[r] /\ Unheard[r] = lost[r]
  BY MovesOne
<1>2. /\ Status[r] = rows'[r].status => Status' = Status
      /\ Copies[r] = posts'[r] => Copies' = Copies
      /\ Unheard[r] = lost'[r] => Unheard' = Unheard
  <2>1. /\ Status = [Status EXCEPT ![r] = Status[r]]
        /\ Copies = [Copies EXCEPT ![r] = Copies[r]]
        /\ Unheard = [Unheard EXCEPT ![r] = Unheard[r]]
    BY Seen
  <2> QED BY <1>1, <2>1
<1>3. CASE Delivers(r)
  <2>1. Abstract!Deliver(r)
    BY <1>1, <1>2, <1>3 DEF Delivers, Abstract!Deliver, Status, Copies, Unheard
  <2> QED BY <2>1 DEF Abstract!Next
<1>4. CASE Forgets(r)
  <2>1. Abstract!Forget(r)
    BY <1>1, <1>2, <1>4 DEF Forgets, Abstract!Forget, Status, Copies, Unheard
  <2> QED BY <2>1 DEF Abstract!Next
<1>5. CASE Settles(r)
  <2>1. Abstract!Confirm(r) \/ Abstract!GiveUp(r)
    BY <1>1, <1>2, <1>5 DEF Settles, Abstract!Confirm, Abstract!GiveUp, Status, Copies, Unheard
  <2> QED BY <2>1 DEF Abstract!Next
<1> QED BY <1>3, <1>4, <1>5

(* A run's row appears in the outbox with no copy of it sent.              *)
LEMMA EnqueueImplements ==
  ASSUME DInv, NEW r \in RowIds, NEW status \in {"pending", "suppressed"}, NEW time \in Times,
         Enqueue(r, status, time)
  PROVE  Abstract!Next
<1>1. /\ rows \in [RowIds -> RowType] /\ rows[r].status = "none" /\ posts[r] = 0 /\ lost[r] = 0
      /\ UNCHANGED <<posts, lost>> /\ time # Unknown
      /\ rows' = [rows EXCEPT ![r] = NewRow(status, time)]
  BY Constants DEF DInv, TypeOK, Enqueue, IsNextRow, Untouched
<1>2. /\ rows'[r].status = status /\ rows'[r].time = time
      /\ \A x \in RowIds \ {r} : rows'[x] = rows[x]
  BY <1>1 DEF NewRow, NoRow
<1>3. ~IsEvent(r) /\ IsEvent(r)' /\ \A x \in RowIds \ {r} : Unmoved(x)
  BY <1>1, <1>2 DEF IsEvent, Unmoved
<1>4. /\ Status' = [Status EXCEPT ![r] = rows'[r].status]
      /\ Copies' = [Copies EXCEPT ![r] = posts'[r]]
      /\ Unheard' = [Unheard EXCEPT ![r] = lost'[r]]
      /\ Status[r] = "none" /\ Copies[r] = 0 /\ Unheard[r] = 0
  BY <1>3, MovesOne
<1>5. /\ Copies = [Copies EXCEPT ![r] = Copies[r]]
      /\ Unheard = [Unheard EXCEPT ![r] = Unheard[r]]
  BY Seen
<1>6. Copies' = Copies /\ Unheard' = Unheard
  BY <1>1, <1>4, <1>5
<1>7. Abstract!Enqueue(r)
  BY <1>2, <1>4, <1>6 DEF Abstract!Enqueue, Status, Copies, Unheard
<1> QED BY <1>7 DEF Abstract!Next

(* Requeueing is the outbox's.                                             *)
LEMMA RequeueImplements ==
  ASSUME DInv, Requeue PROVE Abstract!Next
<1>1. /\ rows \in [RowIds -> RowType] /\ UNCHANGED <<posts, lost>>
      /\ rows' = [x \in RowIds |-> IF x \in Failed THEN [rows[x] EXCEPT !.status = "pending"]
                                                    ELSE rows[x]]
  BY DEF DInv, TypeOK, Requeue
<1>2. \A x \in RowIds :
        /\ rows'[x].time = rows[x].time
        /\ rows'[x].status = IF rows[x].status = "failed" THEN "pending" ELSE rows[x].status
  BY <1>1 DEF Failed, RowType
<1>3. \A x \in RowIds : IsEvent(x)' <=> IsEvent(x)
  BY <1>2 DEF IsEvent
<1>4. Copies' = Copies /\ Unheard' = Unheard
  BY <1>1, <1>3 DEF Copies, Unheard, Ledger, EventRows, IsEvent
<1>5. Status' = [x \in RowIds |-> IF Status[x] = "failed" THEN "pending" ELSE Status[x]]
  BY <1>2, <1>3 DEF Status, Ledger, EventRows, IsEvent
<1>6. Abstract!Requeue
  BY <1>4, <1>5 DEF Abstract!Requeue, Status, Copies, Unheard
<1> QED BY <1>6 DEF Abstract!Next

(* A post of an event's row is a delivery: none is waiting to be recorded. *)
LEMMA PostImplements ==
  ASSUME DInv, NEW p \in Procs, NEW r \in RowIds, Post(p, r)
  PROVE  Abstract!Next \/ UNCHANGED <<Status, Copies, Unheard>>
<1>1. PICK heard \in {"accepted", "limited", "error"} : Request(r, heard)
  BY DEF Post
<1>2. /\ TypeOK /\ proc[p].pc = "draining" /\ Local(p) /\ r \in InHand(p) /\ UNCHANGED rows
  BY DEF DInv, Post, IsHead, InHand, Draining
<1>3. /\ \A x \in RowIds \ {r} : posts'[x] = posts[x] /\ lost'[x] = lost[x]
      /\ IF heard = "accepted" THEN posts'[r] = posts[r] + 1 /\ lost'[r] = lost[r]
         ELSE \/ posts'[r] = posts[r] /\ lost'[r] = lost[r]
              \/ posts'[r] = posts[r] + 1 /\ lost'[r] = lost[r] + 1
  BY <1>1, <1>2, RequestCounts
<1>4. \A x \in RowIds \ {r} : Unmoved(x)
  BY <1>2, <1>3 DEF Unmoved, IsEvent
<1>5. CASE ~IsEvent(r)
  <2>1. Unmoved(r)
    BY <1>2, <1>5 DEF Unmoved, IsEvent
  <2> QED BY <1>4, <2>1, Stutters
<1>6. CASE posts'[r] = posts[r] /\ lost'[r] = lost[r]
  <2>1. Unmoved(r)
    BY <1>2, <1>6 DEF Unmoved, IsEvent
  <2> QED BY <1>4, <2>1, Stutters
<1>7. CASE IsEvent(r) /\ ~(posts'[r] = posts[r] /\ lost'[r] = lost[r])
  <2>1. \A q \in Procs : ~Flying(q)
    BY <1>2, OneFlies DEF Flying
  <2>2. rows[r].status = "pending" /\ posts[r] = lost[r]
    BY <1>2, <1>7, <2>1 DEF Local, IsEvent, DInv, Account, Owing, InFlight, TypeOK
  <2>3. Delivers(r) /\ IsEvent(r)'
    BY <1>2, <1>3, <1>7, <2>2 DEF Delivers, IsEvent
  <2> QED BY <1>4, <1>7, <2>3, MovesOnly
<1> QED BY <1>5, <1>6, <1>7

(* Recording an answer confirms or gives up, or leaves the row pending.    *)
LEMMA RecordImplements ==
  ASSUME DInv, NEW p \in Procs, Record(p)
  PROVE  Abstract!Next \/ UNCHANGED <<Status, Copies, Unheard>>
<1>1. PICK r \in RowIds :
      /\ r = proc[p].row /\ r \in InHand(p)
      /\ \A x \in RowIds \ {r} : rows'[x] = rows[x]
      /\ rows'[r].time = rows[r].time
      /\ proc[p].heard = "accepted" => rows'[r].status = "sent"
      /\ proc[p].heard # "accepted" => \/ rows'[r].status = rows[r].status
                                        \/ rows'[r].status \in {"pending", "failed"}
  BY RecordWrites
<1>2. Local(p) /\ proc[p].pc = "recording" /\ UNCHANGED <<posts, lost>> /\ TypeOK
  BY DEF DInv, Record
<1>3. rows[r].status # "none" /\ (rows[r].time # Unknown => rows[r].status = "pending")
  BY <1>1, <1>2 DEF Local
<1>4. InFlight(r) <=> proc[p].heard = "accepted"
  <2>1. \A q \in Procs : Flying(q) => q = p
    BY <1>2, OneFlies
  <2> QED BY <1>1, <1>2, <2>1 DEF InFlight, Flying
<1>5. rows[r].time # Unknown =>
        posts[r] = lost[r] + (IF proc[p].heard = "accepted" THEN 1 ELSE 0)
  BY <1>1, <1>3, <1>4 DEF DInv, Account, Owing
<1>6. lost[r] \in Nat
  BY <1>1, <1>2 DEF TypeOK
<1>7. \A x \in RowIds \ {r} : Unmoved(x)
  BY <1>1, <1>2 DEF Unmoved, IsEvent
<1>8. CASE rows[r].time = Unknown \/ rows'[r].status = rows[r].status
  <2>1. Unmoved(r)
    BY <1>1, <1>2, <1>8 DEF Unmoved, IsEvent
  <2> QED BY <1>7, <2>1, Stutters
<1>9. CASE rows[r].time # Unknown /\ rows'[r].status # rows[r].status
  <2>1. Settles(r)
    <3>1. CASE proc[p].heard = "accepted"
      BY <1>1, <1>2, <1>3, <1>5, <1>6, <1>9, <3>1 DEF Settles
    <3>2. CASE proc[p].heard # "accepted"
      BY <1>1, <1>2, <1>3, <1>5, <1>6, <1>9, <3>2 DEF Settles
    <3> QED BY <3>1, <3>2
  <2>2. IsEvent(r) /\ IsEvent(r)'
    BY <1>1, <1>3, <1>9, <2>1 DEF IsEvent, Settles
  <2> QED BY <1>1, <1>7, <2>1, <2>2, MovesOnly
<1> QED BY <1>8, <1>9

(* A crash forgets the answer that flew.                                   *)
LEMMA CrashImplements ==
  ASSUME DInv, NEW p \in Procs, Crash(p)
  PROVE  Abstract!Next \/ UNCHANGED <<Status, Copies, Unheard>>
<1>1. /\ TypeOK /\ Local(p) /\ UNCHANGED <<rows, posts>>
      /\ lost' = (IF proc[p].heard = "accepted" THEN [lost EXCEPT ![proc[p].row] = @ + 1] ELSE lost)
  BY DEF DInv, Crash
<1>2. CASE proc[p].heard = "accepted" /\ Flying(p)
  <2>1. PICK r \in RowIds : r = proc[p].row /\ r \in InHand(p)
    BY <1>2, FlyingRow
  <2>2. lost'[r] = lost[r] + 1 /\ \A x \in RowIds \ {r} : lost'[x] = lost[x]
    BY <1>1, <1>2, <2>1 DEF TypeOK
  <2>3. \A x \in RowIds \ {r} : Unmoved(x)
    BY <1>1, <2>2 DEF Unmoved, IsEvent
  <2>4. CASE IsEvent(r)
    <3>1. rows[r].status = "pending"
      BY <1>1, <2>1, <2>4 DEF Local, IsEvent
    <3>2. InFlight(r)
      BY <1>2, <2>1 DEF InFlight
    <3>3. posts[r] = lost[r] + 1 /\ lost[r] \in Nat
      BY <1>1, <2>4, <3>1, <3>2 DEF DInv, Account, Owing, IsEvent, TypeOK
    <3>4. Forgets(r) /\ IsEvent(r)'
      BY <1>1, <2>2, <2>4, <3>1, <3>3 DEF Forgets, IsEvent
    <3> QED BY <2>3, <2>4, <3>4, MovesOnly
  <2>5. CASE ~IsEvent(r)
    <3>1. Unmoved(r)
      BY <1>1, <2>5 DEF Unmoved, IsEvent
    <3> QED BY <2>3, <3>1, Stutters
  <2> QED BY <2>4, <2>5
<1>3. CASE proc[p].heard = "accepted" /\ ~Flying(p)
  <2>1. proc[p].pc = "test_heard"
    BY <1>1, <1>3 DEF Local, Flying
  <2>2. PICK r \in RowIds : r = proc[p].row /\ rows[r].time = Unknown
    BY <2>1, TestRow
  <2>3. \A x \in RowIds \ {r} : lost'[x] = lost[x]
    BY <1>1, <1>3, <2>2 DEF TypeOK
  <2>4. \A x \in RowIds : Unmoved(x)
    BY <1>1, <2>2, <2>3 DEF Unmoved, IsEvent
  <2> QED BY <2>4, Stutters
<1>4. CASE proc[p].heard # "accepted"
  <2>1. \A x \in RowIds : Unmoved(x)
    BY <1>1, <1>4 DEF Unmoved, IsEvent
  <2> QED BY <2>1, Stutters
<1> QED BY <1>2, <1>3, <1>4

(* The outbox sees nothing of a test.                                      *)
LEMMA TestImplements ==
  ASSUME DInv, NEW p \in Procs,
         \/ \E r \in RowIds : PutTest(p, r)
         \/ TestUnconfigured(p) \/ TestPost(p) \/ TestRecord(p)
  PROVE  UNCHANGED <<Status, Copies, Unheard>>
<1>1. TypeOK /\ rows \in [RowIds -> RowType]
  BY DEF DInv, TypeOK
<1>2. CASE \E r \in RowIds : PutTest(p, r)
  <2>1. PICK r \in RowIds : PutTest(p, r)
    BY <1>2
  <2>2. /\ rows[r].status = "none" /\ rows' = [rows EXCEPT ![r] = NewRow("pending", Unknown)]
        /\ UNCHANGED <<posts, lost>>
    BY <2>1 DEF PutTest, IsNextRow
  <2>3. rows'[r].time = Unknown /\ \A x \in RowIds \ {r} : rows'[x] = rows[x]
    BY <1>1, <2>2 DEF NewRow, NoRow
  <2>4. \A x \in RowIds : Unmoved(x)
    BY <2>2, <2>3 DEF Unmoved, IsEvent
  <2> QED BY <2>4, Stutters
<1>3. CASE TestUnconfigured(p) \/ TestRecord(p)
  <2>1. proc[p].pc \in {"test_put", "test_heard"} /\ UNCHANGED <<posts, lost>>
    BY <1>3 DEF TestUnconfigured, TestRecord
  <2>2. PICK r \in RowIds : r = proc[p].row /\ rows[r].time = Unknown /\ rows[r].status # "none"
    BY <2>1, TestRow
  <2>3. PICK status \in {"sent", "failed"} : rows' = Marked(r, status)
    BY <1>3, <2>2 DEF TestUnconfigured, TestRecord
  <2>4. rows'[r].time = Unknown /\ \A x \in RowIds \ {r} : rows'[x] = rows[x]
    BY <1>1, <2>2, <2>3, MarkedRow
  <2>5. \A x \in RowIds : Unmoved(x)
    BY <2>1, <2>2, <2>4 DEF Unmoved, IsEvent
  <2> QED BY <2>5, Stutters
<1>4. CASE TestPost(p)
  <2>1. PICK heard \in {"accepted", "limited", "error"} : Request(proc[p].row, heard)
    BY <1>4 DEF TestPost
  <2>2. proc[p].pc = "test_send" /\ UNCHANGED rows
    BY <1>4 DEF TestPost
  <2>3. PICK r \in RowIds : r = proc[p].row /\ rows[r].time = Unknown
    BY <2>2, TestRow
  <2>4. \A x \in RowIds \ {r} : posts'[x] = posts[x] /\ lost'[x] = lost[x]
    BY <1>1, <2>1, <2>3, RequestCounts
  <2>5. \A x \in RowIds : Unmoved(x)
    BY <2>2, <2>3, <2>4 DEF Unmoved, IsEvent
  <2> QED BY <2>5, Stutters
<1> QED BY <1>2, <1>3, <1>4

\* Steps that write neither status, time nor ledgers.
LEMMA SilentImplements ==
  ASSUME DInv, UNCHANGED <<posts, lost>>,
         UNCHANGED rows \/ \E r \in RowIds : FloorPasses(r)
  PROVE  UNCHANGED <<Status, Copies, Unheard>>
<1>1. rows \in [RowIds -> RowType]
  BY DEF DInv, TypeOK
<1>2. \A x \in RowIds : rows'[x].status = rows[x].status /\ rows'[x].time = rows[x].time
  <2>1. CASE UNCHANGED rows
    BY <2>1
  <2>2. CASE \E r \in RowIds : FloorPasses(r)
    <3>1. PICK r \in RowIds : rows' = [rows EXCEPT ![r].deferred = FALSE]
      BY <2>2 DEF FloorPasses
    <3> QED BY <1>1, <3>1 DEF RowType
  <2> QED BY <2>1, <2>2
<1>3. \A x \in RowIds : Unmoved(x)
  BY <1>2 DEF Unmoved, IsEvent
<1> QED BY <1>3, Stutters

(* Every step is one of the outbox's, or a stutter.                        *)
LEMMA StepImplements == DInv /\ [Next]_vars => [Abstract!Next]_(Abstract!outboxVars)
<1> SUFFICES ASSUME DInv, [Next]_vars
             PROVE  Abstract!Next \/ UNCHANGED <<Status, Copies, Unheard>>
  BY DEF Abstract!outboxVars, Status, Copies, Unheard
<1>1. CASE Operator
  <2>1. CASE Requeue
    BY <2>1, RequeueImplements
  <2>2. CASE \E t \in Times : SetCutoff(t)
    BY <2>2, SilentImplements DEF SetCutoff
  <2>3. CASE \E r \in RowIds, status \in {"pending", "suppressed"}, t \in Times : Enqueue(r, status, t)
    BY <2>3, EnqueueImplements
  <2> QED BY <1>1, <2>1, <2>2, <2>3 DEF Operator
<1>2. CASE \E r \in RowIds : FloorPasses(r)
  BY <1>2, SilentImplements DEF FloorPasses
<1>3. ASSUME NEW p \in Procs, NEW held \in BOOLEAN, StartDrain(p, held)
      PROVE  UNCHANGED <<Status, Copies, Unheard>>
  BY <1>3, SilentImplements DEF StartDrain
<1>4. ASSUME NEW p \in Procs, NEW r \in RowIds, PutTest(p, r)
      PROVE  UNCHANGED <<Status, Copies, Unheard>>
  BY <1>4, TestImplements
<1>5. ASSUME NEW p \in Procs, Crash(p)
      PROVE  Abstract!Next \/ UNCHANGED <<Status, Copies, Unheard>>
  BY <1>5, CrashImplements
<1>6. ASSUME NEW p \in Procs, Step(p)
      PROVE  Abstract!Next \/ UNCHANGED <<Status, Copies, Unheard>>
  <2>1. CASE Record(p)
    BY <2>1, RecordImplements
  <2>2. CASE \E r \in RowIds : Post(p, r)
    BY <2>2, PostImplements
  <2>3. CASE TestUnconfigured(p) \/ TestPost(p) \/ TestRecord(p)
    BY <2>3, TestImplements
  <2>4. CASE Select(p) \/ EndDrain(p) \/ TestAcquire(p) \/ \E r \in RowIds : PassOver(p, r)
    BY <2>4, SilentImplements DEF Select, EndDrain, TestAcquire, PassOver
  <2> QED BY <1>6, <2>1, <2>2, <2>3, <2>4 DEF Step
<1>7. CASE UNCHANGED vars
  BY <1>7, SilentImplements DEF vars
<1> QED BY <1>1, <1>2, <1>3, <1>4, <1>5, <1>6, <1>7 DEF Next

(* At least once, and once unless an answer was lost: for any number of    *)
(* processes, rows, faults and requeues, the outbox of event rows is the   *)
(* one that module Outbox specifies.                                       *)
THEOREM DeliveryImplementsOutbox == Spec => ImplementsOutbox
<1>1. ImplementsOutbox <=> Abstract!Init /\ [][Abstract!Next]_(Abstract!outboxVars)
  BY DEF ImplementsOutbox, Abstract!Spec
<1> QED BY <1>1, AbstractInit, StepImplements, Invariance, PTL DEF Spec

-----------------------------------------------------------------------------
(* What is left of a row and of a drain.                                   *)

\* A row that is owed is not tried, or is sent, or has one try less.
Tried(r) ==
  LET row == rows[r]  then == rows'[r] IN
  \/ then.status = "pending" /\ then.attempts = row.attempts
  \/ then.status = "sent"
  \/ /\ then.attempts = row.attempts + 1
     /\ then.status = IF then.attempts >= MaxAttempts THEN "failed" ELSE "pending"

LEMMA RecordTries ==
  ASSUME DInv, NEW p \in Procs, Record(p), NEW r \in RowIds, IsEvent(r)
  PROVE  Tried(r) \/ rows'[r] = rows[r]
<1>1. /\ rows \in [RowIds -> RowType] /\ proc[p] \in ProcType /\ proc[p].pc = "recording"
      /\ Local(p) /\ RowIds \subseteq Int
  BY DEF DInv, TypeOK, ProcType, Record, RowIds
<1>2. /\ proc[p].row \in RowIds /\ proc[p].row \in InHand(p)
      /\ \A x \in RowIds \ {proc[p].row} : rows'[x] = rows[x]
  BY RecordWrites
<1>3. CASE r # proc[p].row
  BY <1>2, <1>3
<1>4. CASE r = proc[p].row
  <2>1. rows[r].status = "pending" /\ rows[r].attempts = proc[p].snap[r].attempts
    BY <1>1, <1>2, <1>4 DEF Local, IsEvent
  <2>2. CASE proc[p].heard = "accepted"
    <3>1. rows' = Marked(r, "sent")
      BY <1>4, <2>2 DEF Record
    <3> QED BY <1>1, <3>1, MarkedRow DEF Tried
  <2>3. CASE proc[p].heard = "limited"
    <3>1. rows' \in {[rows EXCEPT ![r].deferred = TRUE], rows}
      BY <1>4, <2>3 DEF Record
    <3> QED BY <1>1, <2>1, <3>1 DEF Tried, RowType
  <2>4. CASE proc[p].heard = "error"
    <3> DEFINE n == rows[r].attempts
    <3>1. rows' = Marked(r, AfterError(n)) /\ n \in Nat
      BY <1>1, <1>4, <2>1, <2>4 DEF Record, RowType
    <3>2. AfterError(n) = (IF n + 1 >= MaxAttempts THEN "failed" ELSE "pending")
      BY DEF AfterError
    <3>3. rows'[r].status = AfterError(n) /\ rows'[r].attempts = n + 1
      BY <1>1, <3>1, <3>2, MarkedRow
    <3> QED BY <3>2, <3>3 DEF Tried
  <2>5. proc[p].heard \in {"accepted", "limited", "error"}
    BY <1>1 DEF Local, ProcType
  <2> QED BY <2>2, <2>3, <2>4, <2>5
<1> QED BY <1>3, <1>4

(* discord/__init__.py:397-434: whatever a drain, a test, a requeue or a   *)
(* crash does, a pending event row leaves that state by being sent or      *)
(* given up, and each answer recorded as an error takes one of its tries,  *)
(* however old the count is that the drain selected; so a row is posted a  *)
(* bounded number of times with its answer heard.  This is part of the     *)
(* safety half of EligibleSettles.                                         *)
THEOREM RetriesRunOut ==
  Spec => [][\A r \in EventRows : rows[r].status = "pending" => Tried(r)]_vars
<1>1. DInv /\ [Next]_vars => [\A r \in EventRows : rows[r].status = "pending" => Tried(r)]_vars
  <2> SUFFICES ASSUME DInv, Next, NEW r \in EventRows, rows[r].status = "pending"
               PROVE  Tried(r)
    OBVIOUS
  <2>1. /\ rows \in [RowIds -> RowType] /\ r \in RowIds /\ IsEvent(r)
    BY DEF DInv, TypeOK, EventRows, IsEvent
  <2>2. ASSUME rows'[r] = rows[r] PROVE Tried(r)
    BY <2>2 DEF Tried
  <2>3. CASE Operator
    <3>1. ASSUME NEW x \in RowIds, NEW status, NEW t, Enqueue(x, status, t) PROVE rows'[r] = rows[r]
      BY <2>1, <3>1 DEF Enqueue, IsNextRow
    <3>2. ASSUME Requeue PROVE rows'[r] = rows[r]
      <4>1. r \notin Failed
        BY DEF Failed
      <4> QED BY <2>1, <3>2, <4>1 DEF Requeue
    <3> QED BY <2>2, <2>3, <3>1, <3>2 DEF Operator, SetCutoff
  <2>4. ASSUME NEW x \in RowIds, FloorPasses(x) PROVE Tried(r)
    BY <2>1, <2>4 DEF FloorPasses, Tried, RowType
  <2>5. ASSUME NEW p \in Procs, NEW x \in RowIds, PutTest(p, x) PROVE Tried(r)
    BY <2>1, <2>2, <2>5 DEF PutTest, IsNextRow
  <2>6. ASSUME NEW p \in Procs, Record(p) PROVE Tried(r)
    BY <2>1, <2>2, <2>6, RecordTries
  <2>7. ASSUME NEW p \in Procs, TestUnconfigured(p) \/ TestRecord(p) PROVE Tried(r)
    <3>1. proc[p].pc \in {"test_put", "test_heard"}
      BY <2>7 DEF TestUnconfigured, TestRecord
    <3>2. PICK x \in RowIds : x = proc[p].row /\ rows[x].time = Unknown
      BY <3>1, TestRow
    <3>3. PICK status \in {"sent", "failed"} : rows' = Marked(x, status)
      BY <2>7, <3>2 DEF TestUnconfigured, TestRecord
    <3>4. rows'[r] = rows[r]
      BY <2>1, <3>2, <3>3, MarkedRow DEF IsEvent
    <3> QED BY <2>2, <3>4
  <2>8. ASSUME UNCHANGED rows PROVE Tried(r)
    BY <2>2, <2>8
  <2> QED BY <2>3, <2>4, <2>5, <2>6, <2>7, <2>8
          DEF Next, Step, StartDrain, Select, PassOver, Post, EndDrain, TestAcquire, TestPost, Crash
<1> QED BY <1>1, Invariance, PTL DEF Spec

\* Where a command stands.
Stage(pc) ==
  CASE pc \in {"selecting", "test_put"} -> 1
    [] pc \in {"draining", "recording", "test_send"} -> 2
    [] pc = "test_heard" -> 3
    [] OTHER -> 0

\* A command goes on: it ends or comes to its next stage; a drain has a row
\* less to look at, or has recorded the answer of the row at hand.
GoesOn(p) ==
  LET me == proc[p]  then == proc'[p] IN
  \/ then = Idle
  \/ Stage(me.pc) < Stage(then.pc)
  \/ /\ Stage(me.pc) = Stage(then.pc) /\ then.todo \subseteq me.todo
     /\ then.todo # me.todo \/ (me.pc = "recording" /\ then.pc = "draining")

(* discord/__init__.py:383-436: each step of a drain or a test brings it   *)
(* nearer to its end, whatever others do to the tables in between, and     *)
(* nobody else moves it: it looks at each row it selected once.  This is   *)
(* the other part of the safety half of EligibleSettles.                   *)
THEOREM CommandsGoOn ==
  Spec => [][\A p \in Procs : proc[p].pc # "idle" => proc'[p] = proc[p] \/ GoesOn(p)]_vars
<1>1. DInv /\ [Next]_vars =>
        [\A p \in Procs : proc[p].pc # "idle" => proc'[p] = proc[p] \/ GoesOn(p)]_vars
  <2> SUFFICES ASSUME DInv, Next, NEW p \in Procs, proc[p].pc # "idle"
               PROVE  proc'[p] = proc[p] \/ GoesOn(p)
    OBVIOUS
  <2>1. proc \in [Procs -> ProcType]
    BY DEF DInv, TypeOK, ProcType
  <2>2. Stage("selecting") = 1 /\ Stage("test_put") = 1 /\ Stage("draining") = 2
        /\ Stage("recording") = 2 /\ Stage("test_send") = 2 /\ Stage("test_heard") = 3
    BY DEF Stage
  <2>3. CASE Operator \/ \E r \in RowIds : FloorPasses(r)
    BY <2>3 DEF Operator, Requeue, SetCutoff, Enqueue, FloorPasses
  <2>4. ASSUME NEW q \in Procs, NEW held, StartDrain(q, held) PROVE proc'[p] = proc[p]
    BY <2>1, <2>4 DEF StartDrain
  <2>5. ASSUME NEW q \in Procs, NEW r \in RowIds, PutTest(q, r) PROVE proc'[p] = proc[p]
    BY <2>1, <2>5 DEF PutTest
  <2>6. ASSUME NEW q \in Procs, Select(q) PROVE proc'[p] = proc[p] \/ GoesOn(p)
    BY <2>1, <2>2, <2>6 DEF Select, GoesOn, ProcType
  <2>7. ASSUME NEW q \in Procs, NEW r \in RowIds, PassOver(q, r) PROVE proc'[p] = proc[p] \/ GoesOn(p)
    BY <2>1, <2>2, <2>7 DEF PassOver, IsHead, GoesOn, ProcType
  <2>8. ASSUME NEW q \in Procs, NEW r \in RowIds, Post(q, r) PROVE proc'[p] = proc[p] \/ GoesOn(p)
    BY <2>1, <2>2, <2>8 DEF Post, IsHead, GoesOn, ProcType
  <2>9. ASSUME NEW q \in Procs, Record(q) PROVE proc'[p] = proc[p] \/ GoesOn(p)
    BY <2>1, <2>2, <2>9 DEF Record, GoesOn, ProcType
  <2>10. ASSUME NEW q \in Procs, EndDrain(q) \/ TestUnconfigured(q) \/ TestRecord(q) \/ Crash(q)
         PROVE  proc'[p] = proc[p] \/ GoesOn(p)
    BY <2>1, <2>10 DEF EndDrain, TestUnconfigured, TestRecord, Crash, GoesOn
  <2>11. ASSUME NEW q \in Procs, TestAcquire(q) PROVE proc'[p] = proc[p] \/ GoesOn(p)
    BY <2>1, <2>2, <2>11 DEF TestAcquire, GoesOn, ProcType
  <2>12. ASSUME NEW q \in Procs, TestPost(q) PROVE proc'[p] = proc[p] \/ GoesOn(p)
    BY <2>1, <2>2, <2>12 DEF TestPost, GoesOn, ProcType
  <2> QED BY <2>3, <2>4, <2>5, <2>6, <2>7, <2>8, <2>9, <2>10, <2>11, <2>12 DEF Next, Step
<1> QED BY <1>1, Invariance, PTL DEF Spec
=============================================================================
