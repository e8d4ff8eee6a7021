-------------------------- MODULE InboundDeliveries --------------------------
(***************************************************************************)
(* The inbox of inbound webhooks: the receiver (package inbound), which    *)
(* inserts a row before it answers 202, and on every replica a worker that *)
(* leases due rows and submits the task of each under an id derived from   *)
(* the row.  Execution and the recording of its outcome are separate       *)
(* steps; the record tests neither status nor lease.                       *)
(***************************************************************************)
EXTENDS Naturals, FiniteSets

CONSTANTS
  Requests,     \* POSTs of external systems; a row bears the name of the request that inserted it
  KeyOf,        \* the delivery id a request carries, or NoKey
  NoKey,
  Replicas,     \* the server processes
  MaxAttempts,  \* defaultInboundDeliveryMaxAttempts
  ClaimLimit,   \* inboundDeliveryClaimLimit
  MaxPending,   \* inbound.Config.MaxPending
  MaxResets     \* bound: operator retries per row

ASSUME InboxAssumption ==
  /\ MaxAttempts \in Nat \ {0}
  /\ ClaimLimit \in Nat \ {0}
  /\ MaxPending \in Nat \ {0}
  /\ MaxResets \in Nat

VARIABLES
  endpoint,  \* the materialised endpoint row
  req,       \* req[q]: the receiver's handling of q
  row,       \* row[q]: the inbound_deliveries row q inserted
  made,      \* made[q]: tasks created for that row
  batch,     \* batch[p]: claimed items replica p has yet to process
  current    \* current[p]: the processed item of p whose outcome is not recorded, if any

vars == <<endpoint, req, row, made, batch, current>>

Open == {"pending", "processing", "retry_wait"}
Terminal == {"succeeded", "failed_permanent", "dead_letter"}

\* acts: enabled, and the event is accepted.  filters: the event is not one
\* of accepted_events.  off: disabled, or the definition is gone.
Endpoints == {"acts", "filters", "off"}

\* ready: next_attempt_at has come, or lease_expires_at has passed.
Row == [status : Open \cup Terminal \cup {"absent", "pruned"}, attempts : 0 .. MaxAttempts,
        ready : BOOLEAN, task : BOOLEAN, resets : 0 .. MaxResets]

Item == [id : Requests, attempts : 0 .. MaxAttempts]

\* What processInboundDelivery is about to record.
Verdict == [status : {"succeeded", "failed_permanent", "retry_wait"}, task : BOOLEAN]

TypeOK ==
  /\ endpoint \in Endpoints
  /\ req \in [Requests -> {"new", "counted", "accepted", "refused"}]
  /\ row \in [Requests -> Row]
  /\ made \in [Requests -> Nat]
  /\ batch \in [Replicas -> SUBSET Item]
  /\ current \in [Replicas -> SUBSET [item : Item, verdict : Verdict]]

Init ==
  /\ endpoint = "acts"
  /\ req = [q \in Requests |-> "new"]
  /\ row = [q \in Requests |-> [status |-> "absent", attempts |-> 0, ready |-> FALSE,
                                task |-> FALSE, resets |-> 0]]
  /\ made = [q \in Requests |-> 0]
  /\ batch = [p \in Replicas |-> {}]
  /\ current = [p \in Replicas |-> {}]

Exists(q) == row[q].status \notin {"absent", "pruned"}
-----------------------------------------------------------------------------
(***************************************************************************)
(* The receiver.                                                           *)
(***************************************************************************)

Pending == Cardinality({q \in Requests : row[q].status \in Open})

\* The endpoint is resolved, the request authenticated, the backlog counted.
Count(q) ==
  /\ req[q] = "new" /\ endpoint # "off" /\ Pending < MaxPending
  /\ req' = [req EXCEPT ![q] = "counted"]
  /\ UNCHANGED <<endpoint, row, made, batch, current>>

\* Every answer but 202 that leaves no row.
Refuse(q) ==
  /\ req[q] \in {"new", "counted"}
  /\ req' = [req EXCEPT ![q] = "refused"]
  /\ UNCHANGED <<endpoint, row, made, batch, current>>

\* Mutant of Replay: the existing row is looked up by request, not by key.
ReplayMissed(q) == Exists(q)

\* uq_inbound_deliveries_endpoint_delivery: NULL keys never collide.
Replay(q) == KeyOf[q] # NoKey /\ \E r \in Requests : Exists(r) /\ KeyOf[r] = KeyOf[q]

NewRow(q) == [row[q] EXCEPT !.status = "pending", !.ready = TRUE]

\* Mutant of InsertDelivery: 202 before the insert.
InsertDeliveryLate(q) ==
  /\ req[q] = "counted"
  /\ req' = [req EXCEPT ![q] = "accepted"]
  /\ row' \in {row, [row EXCEPT ![q] = NewRow(q)]}
  /\ UNCHANGED <<endpoint, made, batch, current>>

\* 202 after the row is committed, or for a replay.
InsertDelivery(q) ==
  /\ req[q] = "counted"
  /\ req' = [req EXCEPT ![q] = "accepted"]
  /\ row' = IF Replay(q) THEN row ELSE [row EXCEPT ![q] = NewRow(q)]
  /\ UNCHANGED <<endpoint, made, batch, current>>

\* The row is committed, the answer of the database lost: 503.
InsertUnanswered(q) ==
  /\ req[q] = "counted" /\ ~Replay(q)
  /\ req' = [req EXCEPT ![q] = "refused"]
  /\ row' = [row EXCEPT ![q] = NewRow(q)]
  /\ UNCHANGED <<endpoint, made, batch, current>>

\* A definitions sync changes the endpoint.
MaterializeEndpoint ==
  /\ endpoint' \in Endpoints \ {endpoint}
  /\ UNCHANGED <<req, row, made, batch, current>>
-----------------------------------------------------------------------------
(***************************************************************************)
(* The delivery worker.                                                    *)
(***************************************************************************)

Due == {q \in Requests : row[q].status \in Open /\ row[q].ready}

\* attempts is only ever compared with MaxAttempts.
Raised(n) == IF n < MaxAttempts THEN n + 1 ELSE n

Claimed(S) ==
  [q \in Requests |-> IF q \in S THEN [row[q] EXCEPT !.status = "processing",
                                         !.attempts = Raised(@), !.ready = FALSE]
                                 ELSE row[q]]

\* One transaction; its answer may be lost after the commit.
ClaimDue(p, S, answered) ==
  /\ batch[p] = {} /\ current[p] = {}
  /\ S \subseteq Due /\ S # {}
  /\ Cardinality(S) = IF Cardinality(Due) < ClaimLimit THEN Cardinality(Due) ELSE ClaimLimit
  /\ row' = Claimed(S)
  /\ batch' = IF answered
              THEN [batch EXCEPT ![p] = {[id |-> q, attempts |-> Raised(row[q].attempts)] : q \in S}]
              ELSE batch
  /\ UNCHANGED <<endpoint, req, made, current>>

Outcome(status, task) == [status |-> status, task |-> task]

\* Mutant of Submission: the id of the task is not derived from the row.
SubmissionFreshId(q) == {<<1, Outcome("succeeded", TRUE)>>, <<1, Outcome("retry_wait", FALSE)>>}

\* renderInboundPrompt and SubmitTask under the row's task id: how many tasks
\* it creates, and the verdict.  Errors are permanent unless their text has a
\* transient marker; the refusal of the admission gate has none, and the error
\* of a commit whose answer is lost need not have one.
Submission(q) ==
  {<<0, Outcome("retry_wait", FALSE)>>, <<0, Outcome("failed_permanent", FALSE)>>}
  \cup IF made[q] > 0
       THEN {<<0, Outcome("succeeded", TRUE)>>}
       ELSE {<<1, Outcome("succeeded", TRUE)>>, <<1, Outcome("retry_wait", FALSE)>>,
             <<1, Outcome("failed_permanent", FALSE)>>}

Processing(q) ==
  CASE endpoint = "off" -> {<<0, Outcome("failed_permanent", FALSE)>>}
    [] endpoint = "filters" -> {<<0, Outcome("succeeded", FALSE)>>}
    [] endpoint = "acts" -> Submission(q)

\* processInboundDelivery up to the record of its outcome.
Process(p, it) ==
  /\ current[p] = {} /\ it \in batch[p]
  /\ \E o \in Processing(it.id) :
       /\ made' = [made EXCEPT ![it.id] = @ + o[1]]
       /\ current' = [current EXCEPT ![p] = {[item |-> it, verdict |-> o[2]]}]
  /\ batch' = [batch EXCEPT ![p] = @ \ {it}]
  /\ UNCHANGED <<endpoint, req, row>>

\* The endpoint cannot be read: the row stays processing until its lease ends.
LoadFails(p, it) ==
  /\ current[p] = {} /\ it \in batch[p]
  /\ batch' = [batch EXCEPT ![p] = @ \ {it}]
  /\ UNCHANGED <<endpoint, req, row, made, current>>

\* Mutant of Recorded: the task id is written whatever the outcome.
RecordedLinksAlways(r, it, v) == [r EXCEPT !.status = v.status, !.ready = FALSE, !.task = TRUE]

\* markInboundDeliverySucceeded writes task_id, markInboundDeliveryFailed
\* does not; a transient failure of the last attempt is a dead letter.
Recorded(r, it, v) ==
  CASE v.status = "succeeded" -> [r EXCEPT !.status = "succeeded", !.ready = FALSE, !.task = v.task]
    [] v.status = "retry_wait" /\ it.attempts < MaxAttempts ->
         [r EXCEPT !.status = "retry_wait", !.ready = FALSE]
    [] v.status = "retry_wait" /\ it.attempts >= MaxAttempts ->
         [r EXCEPT !.status = "dead_letter", !.ready = FALSE]
    [] v.status = "failed_permanent" -> [r EXCEPT !.status = "failed_permanent", !.ready = FALSE]

\* The row is found by its id alone, and may be gone.
Record(p, c) ==
  /\ row' = IF Exists(c.item.id)
            THEN [row EXCEPT ![c.item.id] = Recorded(@, c.item, c.verdict)] ELSE row
  /\ current' = [current EXCEPT ![p] = {}]
  /\ UNCHANGED <<endpoint, req, made, batch>>

\* The record fails, as it must once the context of the cycle is over.
RecordFails(p) ==
  /\ current[p] # {}
  /\ current' = [current EXCEPT ![p] = {}]
  /\ UNCHANGED <<endpoint, req, row, made, batch>>

\* The process dies with its batch.
Crash(p) ==
  /\ batch[p] # {} \/ current[p] # {}
  /\ batch' = [batch EXCEPT ![p] = {}]
  /\ current' = [current EXCEPT ![p] = {}]
  /\ UNCHANGED <<endpoint, req, row, made>>

\* The backoff or the lease of the row ends.  A batch of items of two minutes
\* each outlives its leases of one.
Elapses(q) ==
  /\ row[q].status \in {"processing", "retry_wait"} /\ ~row[q].ready
  /\ row' = [row EXCEPT ![q].ready = TRUE]
  /\ UNCHANGED <<endpoint, req, made, batch, current>>

\* RetryInboundDelivery, a guarded update.
RetryInboundDelivery(q) ==
  /\ row[q].status \in {"failed_permanent", "dead_letter"} /\ row[q].resets < MaxResets
  /\ row' = [row EXCEPT ![q].status = "pending", ![q].attempts = 0, ![q].ready = TRUE,
                        ![q].resets = @ + 1]
  /\ UNCHANGED <<endpoint, req, made, batch, current>>

PruneTerminalDeliveries(q) ==
  /\ row[q].status \in Terminal
  /\ row' = [row EXCEPT ![q].status = "pruned"]
  /\ UNCHANGED <<endpoint, req, made, batch, current>>
-----------------------------------------------------------------------------
Receiver(q) == Count(q) \/ Refuse(q) \/ InsertDelivery(q) \/ InsertUnanswered(q)

Next ==
  \/ \E q \in Requests : Receiver(q) \/ Elapses(q) \/ RetryInboundDelivery(q)
                         \/ PruneTerminalDeliveries(q)
  \/ MaterializeEndpoint
  \/ \E p \in Replicas :
       \/ \E S \in SUBSET Requests, answered \in BOOLEAN : ClaimDue(p, S, answered)
       \/ \E it \in batch[p] : Process(p, it) \/ LoadFails(p, it)
       \/ \E c \in current[p] : Record(p, c)
       \/ RecordFails(p) \/ Crash(p)

Spec == Init /\ [][Next]_vars
-----------------------------------------------------------------------------
(***************************************************************************)
(* Properties.                                                             *)
(***************************************************************************)

\* The identity an external system gives a delivery.
SameDelivery(q, r) == q = r \/ (KeyOf[q] # NoKey /\ KeyOf[q] = KeyOf[r])

\* Sender retries, worker retries, crashes, expired leases and lost answers
\* create one task per delivery, as long as its row is retained.
OneTaskPerDelivery ==
  \A q, r \in Requests :
    (SameDelivery(q, r) /\ made[q] > 0 /\ made[r] > 0 /\ q # r)
      => (row[q].status = "pruned" \/ row[r].status = "pruned")

\* A delivery answered with 202 is on record (ServeHTTP, InsertDelivery).
AcceptedIsRecorded ==
  \A q \in Requests :
    req[q] = "accepted" => \E r \in Requests : SameDelivery(q, r) /\ row[r].status # "absent"

\* The task a row names was created, whichever attempt of whichever replica
\* wrote the name (processInboundDelivery).
LinkedTaskExists == \A q \in Requests : row[q].task => made[q] > 0

\* A row as an item of the abstract work table.
Phase(status) ==
  CASE status = "absent" -> "absent"
    [] status \in Open -> "open"
    [] status = "succeeded" -> "done"
    [] status \in {"failed_permanent", "dead_letter"} -> "failed"
    [] status = "pruned" -> "gone"

Work == INSTANCE DurableWork WITH
  Items <- Requests, Once <- Requests, Ignorable <- Requests, Fenced <- FALSE,
  phase <- [q \in Requests |-> Phase(row[q].status)], effects <- made

\* The inbox is a durable work table without a fence: no accepted row is lost
\* and no row's task is created twice.
ImplementsDurableWork == Work!Spec
=============================================================================
