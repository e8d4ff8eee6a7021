--------------------------- MODULE CallbackOutbox ---------------------------
(***************************************************************************)
(* The durable outbox of event callbacks (internal/service, file           *)
(* callback_deliveries.go): rows written in the transaction of their task  *)
(* event, and on every replica a worker that leases due rows, executes     *)
(* them one after the other and records the outcome.  A webhook or Slack   *)
(* delivery is an HTTP request, a create_task delivery submits a task      *)
(* under an id derived from the row.                                       *)
(*                                                                         *)
(* Execution and the recording of its outcome are separate actions: other  *)
(* replicas, the lease clock and operators act between them.               *)
(***************************************************************************)
EXTENDS Naturals, FiniteSets

CONSTANTS
  Deliveries,   \* one per (callback_id, event_id), the unique key of the table
  SpawnTask,    \* the deliveries whose action_type is create_task
  Replicas,     \* the server processes
  MaxAttempts,  \* defaultCallbackDeliveryMaxAttempts
  ClaimLimit,   \* callbackDeliveryClaimLimit
  LeaseItems,   \* callbackDeliveryLease / callbackDeliveryRequestTimeout
  MaxResets,    \* bound: operator retries per delivery
  MaxEffects    \* bound: effects are counted up to here

ASSUME ConstantsAssumption ==
  /\ IsFiniteSet(Deliveries)
  /\ SpawnTask \subseteq Deliveries
  /\ MaxAttempts \in Nat \ {0}
  /\ ClaimLimit \in Nat \ {0}
  /\ LeaseItems \in Nat \ {0}
  /\ MaxResets \in Nat
  /\ MaxEffects \in Nat \ {0}

VARIABLES
  row,      \* row[d]: the callback_deliveries row of d
  batch,    \* batch[p]: the claimed items replica p has yet to execute
  current,  \* current[p]: the executed item of p whose outcome is not recorded
  effects   \* history: how often the endpoint took the request of d, or a task was created

vars == <<row, batch, current, effects>>
-----------------------------------------------------------------------------
\* "skipped" is a destination the SSRF policy rejects at enqueue, "pruned" a
\* row deleted by retention.
Status == {"absent", "pending", "in_flight", "failed", "completed", "dead_letter",
           "skipped", "pruned"}

Settled == {"completed", "dead_letter", "skipped", "pruned"}

\* due is next_attempt_at, lease is lease_expires_at, against the clock.
Row == [status : Status, attempts : Nat, due : BOOLEAN,
        lease : {"none", "live", "expired"}, resets : Nat]

\* What a worker remembers of a claimed row: of is the size of its batch.
Item == [id : Deliveries, attempts : Nat, of : Nat]

\* ok: 2xx, or the task is there.  error: a failure that may pass.  terminal:
\* SSRF rejection, recursion limit or bad snapshot.  capacity: the admission
\* gate refused the task.  hung: no answer within callbackDeliveryRequestTimeout.
Results == {"ok", "error", "terminal", "capacity", "hung"}

Nothing == [res |-> "nothing"]

Executed == [item : Item, res : Results]

\* Every row, batch and pending outcome is well formed, and a row carries a
\* lease exactly while it is in flight.
TypeOK ==
  /\ row \in [Deliveries -> Row]
  /\ \A d \in Deliveries : row[d].lease = "none" <=> row[d].status # "in_flight"
  /\ batch \in [Replicas -> SUBSET Item]
  /\ current \in [Replicas -> Executed \cup {Nothing}]
  /\ effects \in [Deliveries -> 0..MaxEffects]

Init ==
  /\ row = [d \in Deliveries |-> [status |-> "absent", attempts |-> 0, due |-> FALSE,
                                  lease |-> "none", resets |-> 0]]
  /\ batch = [p \in Replicas |-> {}]
  /\ current = [p \in Replicas |-> Nothing]
  /\ effects = [d \in Deliveries |-> 0]
-----------------------------------------------------------------------------
(***************************************************************************)
(* Enqueue, in the transaction of the task event.                          *)
(***************************************************************************)

\* A config that cannot produce a delivery is stored as dead_letter.
Enqueued(status) ==
  [status |-> status, attempts |-> IF status = "dead_letter" THEN 1 ELSE 0,
   due |-> status = "pending", lease |-> "none", resets |-> 0]

EnqueueTaskEventCallbackDeliveries(d) ==
  /\ row[d].status = "absent"
  /\ \E status \in {"pending", "dead_letter"} \cup (IF d \in SpawnTask THEN {} ELSE {"skipped"}) :
       row' = [row EXCEPT ![d] = Enqueued(status)]
  /\ UNCHANGED <<batch, current, effects>>
-----------------------------------------------------------------------------
(***************************************************************************)
(* The worker of replica p.                                                *)
(***************************************************************************)

\* Mutant of Due: the rows of a crashed worker are not reclaimed.
DueNeverReclaimed(d) == row[d].status \in {"pending", "failed"} /\ row[d].due

Due(d) ==
  \/ row[d].status \in {"pending", "failed"} /\ row[d].due
  \/ row[d].status = "in_flight" /\ row[d].lease = "expired"

\* One transaction.  SKIP LOCKED and the limit make it any set of due rows; a
\* worker claims only when the batch of its last cycle is through.
ClaimDueCallbackDeliveries(p, S) ==
  /\ batch[p] = {} /\ current[p] = Nothing
  /\ S # {} /\ Cardinality(S) <= ClaimLimit
  /\ \A d \in S : Due(d)
  /\ row' = [d \in Deliveries |->
               IF d \in S THEN [row[d] EXCEPT !.status = "in_flight", !.lease = "live"] ELSE row[d]]
  /\ batch' = [batch EXCEPT ![p] = {[id |-> d, attempts |-> row[d].attempts,
                                          of |-> Cardinality(S)] : d \in S}]
  /\ UNCHANGED <<current, effects>>

\* How many effects an execution with this result adds.  An unanswered request
\* or an ambiguous commit may have worked.  callbackDeliveryTaskID makes a
\* second task a duplicate key: the existing one is adopted.
EffectOf(d, res) ==
  IF d \in SpawnTask /\ effects[d] > 0 THEN {0}
  ELSE IF res = "ok" THEN {1} ELSE IF res \in {"error", "hung"} THEN {0, 1} ELSE {0}

DeliverCallbackDelivery(p, it, res) ==
  /\ current[p] = Nothing
  /\ it \in batch[p]
  /\ res = "capacity" => it.id \in SpawnTask
  /\ batch' = [batch EXCEPT ![p] = @ \ {it}]
  /\ current' = [current EXCEPT ![p] = [item |-> it, res |-> res]]
  /\ \E n \in EffectOf(it.id, res) :
       effects' = [effects EXCEPT ![it.id] = IF @ + n <= MaxEffects THEN @ + n ELSE @]
  /\ UNCHANGED row

\* nextCallbackDeliveryAttempt.
AfterFailure(attemptsAfter) == IF attemptsAfter >= MaxAttempts THEN "dead_letter" ELSE "failed"

\* isCallbackDeliveryPermanentError knows no message of the admission gate, so
\* a capacity error is permanent.  The retry decision uses the attempts read
\* when the row was claimed.
Outcome(x) ==
  CASE x.res = "ok" -> "completed"
    [] x.res \in {"terminal", "capacity"} -> "dead_letter"
    [] x.res = "error" -> AfterFailure(x.item.attempts + 1)

\* Mutant of Recorded: the status is not tested.
RecordedAnyStatus(R, status) ==
  [R EXCEPT !.status = status, !.lease = "none", !.due = FALSE,
            !.attempts = IF status = "completed" THEN @ ELSE @ + 1]

\* MarkCallbackDeliverySucceeded and FailCallbackDelivery update a row that is
\* in flight, whoever holds the lease.
Recorded(R, status) ==
  IF R.status # "in_flight" THEN R
  ELSE [R EXCEPT !.status = status, !.lease = "none", !.due = FALSE,
                 !.attempts = IF status = "completed" THEN @ ELSE @ + 1]

RecordOutcome(p) ==
  /\ current[p] # Nothing
  /\ current[p].res # "hung"
  /\ row' = [row EXCEPT ![current[p].item.id] = Recorded(@, Outcome(current[p]))]
  /\ current' = [current EXCEPT ![p] = Nothing]
  /\ UNCHANGED <<batch, effects>>

\* The outcome is written under the context of the request, which a request
\* without answer has used up: nothing is recorded.
OutcomeTooLate(p) ==
  /\ current[p] # Nothing
  /\ current[p].res = "hung"
  /\ current' = [current EXCEPT ![p] = Nothing]
  /\ UNCHANGED <<row, batch, effects>>

\* The replica crashes, its cycle context ends or the update fails: claimed
\* rows stay in flight until their lease expires.  (A hung last item is lost by
\* OutcomeTooLate already.)
Abort(p) ==
  /\ batch[p] # {} \/ current[p].res \notin {"nothing", "hung"}
  /\ batch' = [batch EXCEPT ![p] = {}]
  /\ current' = [current EXCEPT ![p] = Nothing]
  /\ UNCHANGED <<row, effects>>
-----------------------------------------------------------------------------
(***************************************************************************)
(* Operators, retention and the clock.                                     *)
(***************************************************************************)

Resettable(R) == R.status \in {"failed", "dead_letter"}

RetryCallbackDelivery(d) ==
  /\ Resettable(row[d])
  /\ row[d].resets < MaxResets
  /\ row' = [row EXCEPT ![d] = [status |-> "pending", attempts |-> 0, due |-> TRUE,
                                lease |-> "none", resets |-> @.resets + 1]]
  /\ UNCHANGED <<batch, current, effects>>

PruneTerminalDeliveries(d) ==
  /\ row[d].status \in {"completed", "dead_letter"}
  /\ row' = [row EXCEPT ![d].status = "pruned"]
  /\ UNCHANGED <<batch, current, effects>>

\* The items of p whose outcome is not recorded.
Held(p) == batch[p] \cup (IF current[p] = Nothing THEN {} ELSE {current[p].item})

\* The lease of a batch starts with the claim and outlasts LeaseItems
\* executions, so it is over with it still in hand only after as many others.
Outlived(p, it) == it.of - Cardinality(Held(p)) >= LeaseItems

\* lease_expires_at passes.
LeaseElapses(d) ==
  /\ row[d].status = "in_flight" /\ row[d].lease = "live"
  /\ \A p \in Replicas : \A it \in Held(p) : it.id = d => Outlived(p, it)
  /\ row' = [row EXCEPT ![d].lease = "expired"]
  /\ UNCHANGED <<batch, current, effects>>

\* next_attempt_at, set by callbackDeliveryBackoff, passes.
BackoffElapses(d) ==
  /\ row[d].status = "failed" /\ ~row[d].due
  /\ row' = [row EXCEPT ![d].due = TRUE]
  /\ UNCHANGED <<batch, current, effects>>
-----------------------------------------------------------------------------
Worker(p) ==
  \/ \E S \in SUBSET Deliveries : ClaimDueCallbackDeliveries(p, S)
  \/ \E it \in batch[p], res \in Results : DeliverCallbackDelivery(p, it, res)
  \/ RecordOutcome(p)
  \/ OutcomeTooLate(p)

Next ==
  \/ \E p \in Replicas : Worker(p) \/ Abort(p)
  \/ \E d \in Deliveries :
       \/ EnqueueTaskEventCallbackDeliveries(d)
       \/ RetryCallbackDelivery(d)
       \/ PruneTerminalDeliveries(d)
       \/ LeaseElapses(d)
       \/ BackoffElapses(d)

Spec == Init /\ [][Next]_vars

(***************************************************************************)
(* callbackDeliveryLoop ticks every 5 s on each replica and takes the rows *)
(* with the oldest next_attempt_at; every execution ends by its timeout;   *)
(* time passes.                                                            *)
(***************************************************************************)
Fairness ==
  /\ \A d \in Deliveries :
       /\ SF_vars(\E p \in Replicas, S \in SUBSET Deliveries :
                    d \in S /\ ClaimDueCallbackDeliveries(p, S))
       /\ WF_vars(LeaseElapses(d))
       /\ WF_vars(BackoffElapses(d))
  /\ \A p \in Replicas :
       /\ WF_vars(\E it \in batch[p], res \in Results : DeliverCallbackDelivery(p, it, res))
       /\ WF_vars(RecordOutcome(p))
       /\ WF_vars(OutcomeTooLate(p))

FairSpec == Spec /\ Fairness
-----------------------------------------------------------------------------
(***************************************************************************)
(* Properties.                                                             *)
(***************************************************************************)

\* A row is `completed' only if the endpoint took the request or the task
\* exists, also when the completing replica had lost its lease to another.
CompletedTookEffect ==
  \A d \in Deliveries : row[d].status = "completed" => effects[d] > 0

\* A settled row stays settled: no late outcome of a replica that lost its
\* lease reopens it, only an operator reopens a dead letter, and `completed'
\* is never left except by retention.
SettledStaysSettled ==
  [][\A d \in Deliveries :
       row[d].status \in Settled /\ row'[d].status # row[d].status =>
         \/ row'[d].status = "pruned"
         \/ row[d].status = "dead_letter" /\ RetryCallbackDelivery(d)]_vars

\* No delivery is lost: if crashes stop and requests get an answer, every
\* enqueued row is completed or dead-lettered.
EveryDeliverySettles ==
  (/\ <>[](\A p \in Replicas : current[p].res # "hung")
   /\ <>[][\A p \in Replicas : ~Abort(p)]_vars)
  => \A d \in Deliveries : (row[d].status = "pending") ~> (row[d].status \in Settled)

\* A row as an item of the abstract work table.
Phase(status) ==
  CASE status = "absent" -> "absent"
    [] status \in {"pending", "in_flight", "failed"} -> "open"
    [] status = "completed" -> "done"
    [] status \in {"dead_letter", "skipped"} -> "failed"
    [] status = "pruned" -> "gone"

Work == INSTANCE DurableWork WITH
  Items <- Deliveries, Once <- SpawnTask, Ignorable <- {}, Fenced <- TRUE,
  phase <- [d \in Deliveries |-> Phase(row[d].status)]

\* The outbox is a durable work table with a fence: a row is done only after
\* its effect, a late worker changes no settled row, and a task is created
\* once, whatever the replicas' leases, crashes and retries.
ImplementsDurableWork == Work!Spec
=============================================================================
