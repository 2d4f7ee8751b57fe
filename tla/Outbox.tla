------------------------------- MODULE Outbox -------------------------------
(***************************************************************************)
(* What the notification outbox promises, with no lock, process, snapshot, *)
(* policy or retry in it: at-least-once delivery in which every copy past  *)
(* the first is paid for by one answer that was lost.                      *)
(***************************************************************************)
EXTENDS Naturals

CONSTANT Rows    \* notification rows that may ever exist

VARIABLES
  state,     \* status of a row
  copies,    \* posts of a row that reached the channel
  unheard    \* those of them no process will ever record

outboxVars == <<state, copies, unheard>>

Init ==
  /\ state = [r \in Rows |-> "none"]
  /\ copies = [r \in Rows |-> 0]
  /\ unheard = [r \in Rows |-> 0]

Enqueue(r) ==
  /\ state[r] = "none"
  /\ \E s \in {"pending", "suppressed"} : state' = [state EXCEPT ![r] = s]
  /\ UNCHANGED <<copies, unheard>>

\* A copy leaves only while none is waiting to be recorded.
Deliver(r) ==
  /\ state[r] = "pending" /\ copies[r] = unheard[r]
  /\ copies' = [copies EXCEPT ![r] = @ + 1]
  /\ \/ UNCHANGED unheard
     \/ unheard' = [unheard EXCEPT ![r] = @ + 1]
  /\ UNCHANGED state

\* The process that posted it dies before it records the answer.
Forget(r) ==
  /\ state[r] = "pending" /\ copies[r] > unheard[r]
  /\ unheard' = [unheard EXCEPT ![r] = @ + 1]
  /\ UNCHANGED <<state, copies>>

Confirm(r) ==
  /\ state[r] = "pending" /\ copies[r] > unheard[r]
  /\ state' = [state EXCEPT ![r] = "sent"]
  /\ UNCHANGED <<copies, unheard>>

GiveUp(r) ==
  /\ state[r] = "pending" /\ copies[r] = unheard[r]
  /\ state' = [state EXCEPT ![r] = "failed"]
  /\ UNCHANGED <<copies, unheard>>

Requeue ==
  /\ state' = [r \in Rows |-> IF state[r] = "failed" THEN "pending" ELSE state[r]]
  /\ UNCHANGED <<copies, unheard>>

Next == Requeue \/ \E r \in Rows :
  Enqueue(r) \/ Deliver(r) \/ Forget(r) \/ Confirm(r) \/ GiveUp(r)

Spec == Init /\ [][Next]_outboxVars
=============================================================================
