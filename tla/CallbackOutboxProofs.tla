----------------------- MODULE CallbackOutboxProofs -----------------------
(***************************************************************************)
(* Theorems about CallbackOutbox, for any deliveries and replicas.         *)
(***************************************************************************)
EXTENDS CallbackOutbox, FiniteSetTheorems, TLAPS

\* What a worker writes is one of three statuses.
LEMMA OutcomeFacts ==
  ASSUME NEW x \in Executed, x.res # "hung"
  PROVE  /\ Outcome(x) \in {"completed", "dead_letter", "failed"}
         /\ Outcome(x) = "completed" => x.res = "ok"
  BY DEF Executed, Results, Outcome, AfterFailure

\* A recorded outcome changes rows in flight only, and ends the lease.
LEMMA RecordedFacts ==
  ASSUME NEW R \in Row, NEW status \in {"completed", "dead_letter", "failed"},
         R.lease = "none" <=> R.status # "in_flight"
  PROVE  /\ Recorded(R, status) \in Row
         /\ Recorded(R, status).lease = "none"
         /\ Recorded(R, status).status # "in_flight"
         /\ R.status # "in_flight" => Recorded(R, status) = R
         /\ R.status = "in_flight" => Recorded(R, status).status = status
<1>1. CASE R.status # "in_flight"
  BY <1>1 DEF Recorded, Row, Status
<1>2. CASE R.status = "in_flight"
  <2> DEFINE n == IF status = "completed" THEN R.attempts ELSE R.attempts + 1
  <2>1. n \in Nat
    BY DEF Row
  <2>2. Recorded(R, status) = [R EXCEPT !.status = status, !.lease = "none", !.due = FALSE, !.attempts = n]
    BY <1>2 DEF Recorded
  <2> HIDE DEF n
  <2> QED BY <1>2, <2>1, <2>2 DEF Row, Status
<1> QED BY <1>1, <1>2

\* One row is rewritten, by a row that is well formed.
LEMMA RowWritten ==
  ASSUME TypeOK, NEW d \in Deliveries, NEW R \in Row, R.lease = "none" <=> R.status # "in_flight",
         row' = [row EXCEPT ![d] = R]
  PROVE  /\ row' \in [Deliveries -> Row]
         /\ \A c \in Deliveries : row'[c].lease = "none" <=> row'[c].status # "in_flight"
         /\ row'[d] = R
         /\ \A c \in Deliveries \ {d} : row'[c] = row[c]
  BY DEF TypeOK

\* Every step that rewrites one row and nothing else.
RowSteps(d) ==
  \/ EnqueueTaskEventCallbackDeliveries(d)
  \/ RetryCallbackDelivery(d)
  \/ PruneTerminalDeliveries(d)
  \/ LeaseElapses(d)
  \/ BackoffElapses(d)

LEMMA RowStepFacts ==
  ASSUME TypeOK, NEW d \in Deliveries, RowSteps(d)
  PROVE  /\ TypeOK'
         /\ UNCHANGED <<batch, current, effects>>
         /\ \A c \in Deliveries \ {d} : row'[c] = row[c]
         /\ row'[d].status = "completed" => row[d].status = "completed"
         /\ row[d].status \in Settled /\ row'[d].status # row[d].status =>
              row'[d].status = "pruned" \/ (row[d].status = "dead_letter" /\ RetryCallbackDelivery(d))
<1>0. row[d] \in Row /\ (row[d].lease = "none" <=> row[d].status # "in_flight")
  BY DEF TypeOK
<1> DEFINE Goal(R) == /\ R \in Row
                      /\ R.lease = "none" <=> R.status # "in_flight"
                      /\ R.status = "completed" => row[d].status = "completed"
                      /\ row' = [row EXCEPT ![d] = R]
                      /\ UNCHANGED <<batch, current, effects>>
                      /\ row[d].status \in Settled /\ R.status # row[d].status =>
                           R.status = "pruned" \/ (row[d].status = "dead_letter" /\ RetryCallbackDelivery(d))
<1>1. SUFFICES \E R : Goal(R)
  <2>1. PICK R : Goal(R)
    BY <1>1
  <2>2. TypeOK'
    BY <2>1, RowWritten DEF TypeOK
  <2> QED BY <2>1, <2>2, RowWritten
<1>2. CASE EnqueueTaskEventCallbackDeliveries(d)
  <2>1. PICK status \in {"pending", "dead_letter", "skipped"} : row' = [row EXCEPT ![d] = Enqueued(status)]
    BY <1>2 DEF EnqueueTaskEventCallbackDeliveries
  <2>2. Goal(Enqueued(status))
    BY <1>2, <2>1 DEF EnqueueTaskEventCallbackDeliveries, Enqueued, Row, Status, Settled
  <2> QED BY <2>2
<1>3. CASE RetryCallbackDelivery(d)
  <2> DEFINE R == [status |-> "pending", attempts |-> 0, due |-> TRUE,
                   lease |-> "none", resets |-> row[d].resets + 1]
  <2>1. row' = [row EXCEPT ![d] = R]
    BY <1>3 DEF RetryCallbackDelivery, TypeOK
  <2>2. R \in Row
    BY <1>0 DEF Row, Status
  <2>3. Goal(R)
    BY <1>3, <2>1, <2>2 DEF RetryCallbackDelivery, Resettable, Settled
  <2> QED BY <2>3
<1>4. CASE PruneTerminalDeliveries(d)
  <2>1. Goal([row[d] EXCEPT !.status = "pruned"])
    BY <1>0, <1>4 DEF PruneTerminalDeliveries, Row, Status, Settled, TypeOK
  <2> QED BY <2>1
<1>5. CASE LeaseElapses(d)
  <2>1. Goal([row[d] EXCEPT !.lease = "expired"])
    BY <1>0, <1>5 DEF LeaseElapses, Row, Status, Settled, TypeOK
  <2> QED BY <2>1
<1>6. CASE BackoffElapses(d)
  <2>1. Goal([row[d] EXCEPT !.due = TRUE])
    BY <1>0, <1>6 DEF BackoffElapses, Row, Status, Settled, TypeOK
  <2> QED BY <2>1
<1> QED BY <1>2, <1>3, <1>4, <1>5, <1>6 DEF RowSteps

\* The claim of a batch touches due rows only, which are not settled.
LEMMA ClaimFacts ==
  ASSUME TypeOK, NEW p \in Replicas, NEW S \in SUBSET Deliveries, ClaimDueCallbackDeliveries(p, S)
  PROVE  /\ TypeOK'
         /\ UNCHANGED <<current, effects>>
         /\ \A d \in Deliveries : row'[d] = row[d]
                                  \/ (row[d].status \notin Settled /\ row'[d].status = "in_flight")
<1>1. row' = [d \in Deliveries |->
               IF d \in S THEN [row[d] EXCEPT !.status = "in_flight", !.lease = "live"] ELSE row[d]]
  BY DEF ClaimDueCallbackDeliveries
<1>2. ASSUME NEW d \in Deliveries
      PROVE  /\ row'[d] \in Row
             /\ row'[d].lease = "none" <=> row'[d].status # "in_flight"
             /\ row'[d] = row[d] \/ (row[d].status \notin Settled /\ row'[d].status = "in_flight")
  <2>1. row[d] \in Row /\ (row[d].lease = "none" <=> row[d].status # "in_flight")
    BY DEF TypeOK
  <2>2. CASE d \in S
    <3>1. row'[d] = [row[d] EXCEPT !.status = "in_flight", !.lease = "live"]
      BY <1>1, <2>2
    <3>2. row[d].status \notin Settled
      BY <2>2 DEF ClaimDueCallbackDeliveries, Due, Settled
    <3> QED BY <2>1, <3>1, <3>2 DEF Row, Status
  <2>3. CASE d \notin S
    BY <1>1, <2>1, <2>3
  <2> QED BY <2>2, <2>3
<1>3. row' \in [Deliveries -> Row]
  BY <1>1, <1>2, Zenon
<1>4. batch' \in [Replicas -> SUBSET Item]
  <2>1. Cardinality(S) \in Nat
    BY ConstantsAssumption, FS_Subset, FS_CardinalityType
  <2>2. \A d \in S : [id |-> d, attempts |-> row[d].attempts, of |-> Cardinality(S)] \in Item
    BY <2>1 DEF Item, TypeOK, Row
  <2> QED BY <2>2 DEF ClaimDueCallbackDeliveries, TypeOK
<1> QED BY <1>2, <1>3, <1>4 DEF ClaimDueCallbackDeliveries, TypeOK

\* An execution leaves the rows alone, adds to the effects of its delivery, and
\* a success leaves at least one.
LEMMA DeliverFacts ==
  ASSUME TypeOK, NEW p \in Replicas, NEW it \in batch[p], NEW res \in Results,
         DeliverCallbackDelivery(p, it, res)
  PROVE  /\ TypeOK' /\ UNCHANGED row
         /\ \A d \in Deliveries : effects[d] <= effects'[d]
         /\ res = "ok" => effects'[it.id] > 0
<1>1. it \in Item /\ it.id \in Deliveries
  BY DEF TypeOK, Item
<1>2. batch' \in [Replicas -> SUBSET Item] /\ current' \in [Replicas -> Executed \cup {Nothing}]
  BY <1>1 DEF DeliverCallbackDelivery, TypeOK, Executed
<1>3. PICK n \in EffectOf(it.id, res) :
        effects' = [effects EXCEPT ![it.id] = IF @ + n <= MaxEffects THEN @ + n ELSE @]
  BY DEF DeliverCallbackDelivery
<1>4. /\ n \in {0, 1} /\ effects[it.id] \in 0..MaxEffects /\ MaxEffects \in Nat \ {0}
      /\ it.id \in SpawnTask /\ effects[it.id] > 0 => n = 0
      /\ res = "ok" => n = 1 \/ effects[it.id] > 0
  BY <1>1, <1>3, ConstantsAssumption DEF EffectOf, TypeOK
<1>5. /\ effects'[it.id] = IF effects[it.id] + n <= MaxEffects THEN effects[it.id] + n ELSE effects[it.id]
      /\ \A d \in Deliveries \ {it.id} : effects'[d] = effects[d]
      /\ effects' \in [Deliveries -> 0..MaxEffects]
  BY <1>1, <1>3, <1>4 DEF TypeOK
<1>6. \A d \in Deliveries : effects[d] \in Nat
  BY ConstantsAssumption DEF TypeOK
<1> QED BY <1>1, <1>2, <1>4, <1>5, <1>6, ConstantsAssumption DEF DeliverCallbackDelivery, TypeOK

\* Recording an outcome.
LEMMA RecordFacts ==
  ASSUME TypeOK, NEW p \in Replicas, RecordOutcome(p)
  PROVE  /\ TypeOK' /\ UNCHANGED effects
         /\ current' = [current EXCEPT ![p] = Nothing]
         /\ \A d \in Deliveries :
              /\ row[d].status \in Settled => row'[d] = row[d]
              /\ row'[d].status = "completed" =>
                   row[d].status = "completed" \/ (current[p].res = "ok" /\ current[p].item.id = d)
<1> DEFINE x == current[p]
<1>1. x \in Executed /\ x.res # "hung" /\ x.item.id \in Deliveries
  BY DEF RecordOutcome, TypeOK, Executed, Item
<1>2. Outcome(x) \in {"completed", "dead_letter", "failed"} /\ (Outcome(x) = "completed" => x.res = "ok")
  BY <1>1, OutcomeFacts
<1>3. row' = [row EXCEPT ![x.item.id] = Recorded(row[x.item.id], Outcome(x))]
  BY <1>1 DEF RecordOutcome, TypeOK
<1>4. row[x.item.id] \in Row /\ (row[x.item.id].lease = "none" <=> row[x.item.id].status # "in_flight")
  BY <1>1 DEF TypeOK
<1>5. /\ Recorded(row[x.item.id], Outcome(x)) \in Row
      /\ Recorded(row[x.item.id], Outcome(x)).lease = "none"
      /\ Recorded(row[x.item.id], Outcome(x)).status # "in_flight"
      /\ row[x.item.id].status # "in_flight" => Recorded(row[x.item.id], Outcome(x)) = row[x.item.id]
      /\ row[x.item.id].status = "in_flight" => Recorded(row[x.item.id], Outcome(x)).status = Outcome(x)
  BY <1>2, <1>4, RecordedFacts
<1>6. /\ row' \in [Deliveries -> Row]
      /\ \A c \in Deliveries : row'[c].lease = "none" <=> row'[c].status # "in_flight"
      /\ row'[x.item.id] = Recorded(row[x.item.id], Outcome(x))
      /\ \A c \in Deliveries \ {x.item.id} : row'[c] = row[c]
  BY <1>1, <1>3, <1>5, RowWritten
<1>7. TypeOK' /\ UNCHANGED effects /\ current' = [current EXCEPT ![p] = Nothing]
  BY <1>6 DEF RecordOutcome, TypeOK
<1> HIDE DEF x
<1> QED BY <1>2, <1>5, <1>6, <1>7 DEF Settled, x

\* A worker drops what it held.
LEMMA DropFacts ==
  ASSUME TypeOK, NEW p \in Replicas, OutcomeTooLate(p) \/ Abort(p)
  PROVE  /\ TypeOK' /\ UNCHANGED <<row, effects>>
         /\ current' = [current EXCEPT ![p] = Nothing]
  BY DEF OutcomeTooLate, Abort, TypeOK
-----------------------------------------------------------------------------
(***************************************************************************)
(* The inductive invariant.  An executed success that is not recorded yet  *)
(* has had its effect already.                                             *)
(***************************************************************************)
SuccessTookEffect ==
  \A p \in Replicas : current[p] # Nothing /\ current[p].res = "ok" => effects[current[p].item.id] > 0

OutboxInv == TypeOK /\ CompletedTookEffect /\ SuccessTookEffect

LEMMA OutboxInit == Init => OutboxInv
<1> SUFFICES ASSUME Init PROVE OutboxInv
  OBVIOUS
<1>1. row \in [Deliveries -> Row]
  BY DEF Init, Row, Status
<1>2. \A d \in Deliveries : row[d].lease = "none" /\ row[d].status = "absent"
  BY DEF Init
<1>3. effects \in [Deliveries -> 0..MaxEffects]
  BY ConstantsAssumption DEF Init
<1> QED BY <1>1, <1>2, <1>3, ConstantsAssumption
  DEF Init, OutboxInv, TypeOK, CompletedTookEffect, SuccessTookEffect

LEMMA OutboxStep == OutboxInv /\ [Next]_vars => OutboxInv'
<1> SUFFICES ASSUME OutboxInv, [Next]_vars PROVE OutboxInv'
  OBVIOUS
<1> USE ConstantsAssumption
<1> USE DEF OutboxInv
<1>0. /\ \A d \in Deliveries : effects[d] \in Nat
      /\ \A p \in Replicas : current[p] # Nothing => current[p].item.id \in Deliveries
  BY DEF TypeOK, Executed, Item
<1>1. ASSUME NEW d \in Deliveries, RowSteps(d) PROVE OutboxInv'
  BY <1>1, RowStepFacts DEF CompletedTookEffect, SuccessTookEffect
<1>2. ASSUME NEW p \in Replicas, NEW S \in SUBSET Deliveries, ClaimDueCallbackDeliveries(p, S)
      PROVE  OutboxInv'
  <2>1. /\ TypeOK' /\ UNCHANGED <<current, effects>>
        /\ \A d \in Deliveries : row'[d].status = "completed" => row[d].status = "completed"
    BY <1>2, ClaimFacts
  <2> QED BY <2>1 DEF CompletedTookEffect, SuccessTookEffect
<1>3. ASSUME NEW p \in Replicas, NEW it \in batch[p], NEW res \in Results,
             DeliverCallbackDelivery(p, it, res)
      PROVE  OutboxInv'
  <2>1. /\ TypeOK' /\ UNCHANGED row
        /\ \A d \in Deliveries : effects[d] <= effects'[d]
        /\ res = "ok" => effects'[it.id] > 0
    BY <1>3, DeliverFacts
  <2>2. \A d \in Deliveries : effects'[d] \in Nat
    BY <2>1 DEF TypeOK
  <2>3. CompletedTookEffect'
    BY <1>0, <2>1, <2>2 DEF CompletedTookEffect
  <2>4. SuccessTookEffect'
    <3> SUFFICES ASSUME NEW q \in Replicas, current'[q] # Nothing, current'[q].res = "ok"
                 PROVE  effects'[current'[q].item.id] > 0
      BY DEF SuccessTookEffect
    <3>1. CASE q = p
      <4>1. current'[q] = [item |-> it, res |-> res]
        BY <1>3, <3>1 DEF DeliverCallbackDelivery, TypeOK
      <4> QED BY <2>1, <4>1
    <3>2. CASE q # p
      <4>1. current'[q] = current[q]
        BY <1>3, <3>2 DEF DeliverCallbackDelivery, TypeOK
      <4> QED BY <1>0, <2>1, <2>2, <4>1 DEF SuccessTookEffect
    <3> QED BY <3>1, <3>2
  <2> QED BY <2>1, <2>3, <2>4
<1>4. ASSUME NEW p \in Replicas, current' = [current EXCEPT ![p] = Nothing], UNCHANGED effects
      PROVE  SuccessTookEffect'
  BY <1>4 DEF SuccessTookEffect, TypeOK
<1>5. ASSUME NEW p \in Replicas, RecordOutcome(p) PROVE OutboxInv'
  <2>1. current[p] # Nothing
    BY <1>5 DEF RecordOutcome
  <2>2. CompletedTookEffect'
    BY <1>5, <2>1, RecordFacts DEF CompletedTookEffect, SuccessTookEffect
  <2> QED BY <1>4, <1>5, <2>2, RecordFacts
<1>6. ASSUME NEW p \in Replicas, OutcomeTooLate(p) \/ Abort(p) PROVE OutboxInv'
  BY <1>4, <1>6, DropFacts DEF CompletedTookEffect
<1>7. CASE UNCHANGED vars
  BY <1>7 DEF vars, TypeOK, CompletedTookEffect, SuccessTookEffect
<1> QED BY <1>1, <1>2, <1>3, <1>5, <1>6, <1>7 DEF Next, Worker, RowSteps

LEMMA OutboxCorrect == Spec => []OutboxInv
  BY OutboxInit, OutboxStep, PTL DEF Spec

\* The worker, the operator, retention and the clock keep every row, batch and
\* outcome well formed, and a row carries a lease exactly while it is in flight
\* (callback_deliveries.sql clears it with every outcome).
THEOREM TypeCorrect == Spec => []TypeOK
<1>1. OutboxInv => TypeOK
  BY DEF OutboxInv
<1> QED BY OutboxCorrect, <1>1, PTL

\* For any number of replicas, however their leases overlap and whenever they
\* crash: a completed row had its effect (completeCallbackDelivery).
THEOREM CompletionIsHonest == Spec => []CompletedTookEffect
<1>1. OutboxInv => CompletedTookEffect
  BY DEF OutboxInv
<1> QED BY OutboxCorrect, <1>1, PTL

\* Late outcomes never reopen a settled row: MarkCallbackDeliverySucceeded and
\* FailCallbackDelivery test the status, and claims take due rows only.
THEOREM SettledRowsStay == Spec => SettledStaysSettled
<1> DEFINE Kept(d) == row[d].status \in Settled /\ row'[d].status # row[d].status =>
                        \/ row'[d].status = "pruned"
                        \/ row[d].status = "dead_letter" /\ RetryCallbackDelivery(d)
<1>1. ASSUME TypeOK, [Next]_vars PROVE [\A d \in Deliveries : Kept(d)]_vars
  <2>1. ASSUME NEW c \in Deliveries, RowSteps(c), NEW d \in Deliveries PROVE Kept(d)
    BY <1>1, <2>1, RowStepFacts
  <2>2. ASSUME NEW p \in Replicas, NEW S \in SUBSET Deliveries, ClaimDueCallbackDeliveries(p, S),
               NEW d \in Deliveries
        PROVE  Kept(d)
    BY <1>1, <2>2, ClaimFacts
  <2>3. ASSUME NEW p \in Replicas, RecordOutcome(p), NEW d \in Deliveries PROVE Kept(d)
    BY <1>1, <2>3, RecordFacts
  <2>4. ASSUME UNCHANGED row, NEW d \in Deliveries PROVE Kept(d)
    BY <2>4
  <2> QED BY <1>1, <2>1, <2>2, <2>3, <2>4
    DEF Next, Worker, RowSteps, DeliverCallbackDelivery, OutcomeTooLate, Abort
<1> QED BY <1>1, TypeCorrect, PTL DEF Spec, SettledStaysSettled
-----------------------------------------------------------------------------
(***************************************************************************)
(* The refinement.  A worker takes effects for rows on record only.        *)
(***************************************************************************)
HeldOnRecord == \A p \in Replicas : \A it \in batch[p] : row[it.id].status # "absent"

\* No step turns a row back into an absent one.
LEMMA NeverAbsentAgain ==
  ASSUME OutboxInv, [Next]_vars, NEW d \in Deliveries, row[d].status # "absent"
  PROVE  row'[d].status # "absent"
<1>0. TypeOK /\ row[d] \in Row
  BY DEF OutboxInv, TypeOK
<1>1. ASSUME NEW c \in Deliveries, RowSteps(c) PROVE row'[d].status # "absent"
  <2>1. CASE d # c
    BY <1>0, <1>1, <2>1, RowStepFacts
  <2>2. CASE d = c
    BY <1>0, <1>1, <2>2 DEF RowSteps, EnqueueTaskEventCallbackDeliveries, RetryCallbackDelivery,
       PruneTerminalDeliveries, LeaseElapses, BackoffElapses, TypeOK, Row
  <2> QED BY <2>1, <2>2
<1>2. ASSUME NEW p \in Replicas, NEW S \in SUBSET Deliveries, ClaimDueCallbackDeliveries(p, S)
      PROVE  row'[d].status # "absent"
  BY <1>0, <1>2, ClaimFacts
<1>3. ASSUME NEW p \in Replicas, RecordOutcome(p) PROVE row'[d].status # "absent"
  <2> DEFINE x == current[p]
  <2>1. x \in Executed /\ x.res # "hung" /\ x.item.id \in Deliveries
    BY <1>0, <1>3 DEF RecordOutcome, TypeOK, Executed, Item
  <2>2. row' = [row EXCEPT ![x.item.id] = Recorded(row[x.item.id], Outcome(x))]
    BY <1>0, <1>3, <2>1 DEF RecordOutcome, TypeOK
  <2>3. Outcome(x) \in {"completed", "dead_letter", "failed"}
    BY <2>1, OutcomeFacts
  <2>4. d = x.item.id => Recorded(row[d], Outcome(x)).status # "absent"
    BY <1>0, <2>3, RecordedFacts DEF TypeOK
  <2> HIDE DEF x
  <2> QED BY <1>0, <2>1, <2>2, <2>4 DEF TypeOK
<1>4. CASE UNCHANGED row
  BY <1>4
<1> QED BY <1>1, <1>2, <1>3, <1>4
  DEF Next, Worker, RowSteps, DeliverCallbackDelivery, OutcomeTooLate, Abort, vars

LEMMA HeldOnRecordStep == OutboxInv /\ HeldOnRecord /\ [Next]_vars => HeldOnRecord'
<1> SUFFICES ASSUME OutboxInv, HeldOnRecord, [Next]_vars, NEW q \in Replicas, NEW it \in batch'[q]
             PROVE  row'[it.id].status # "absent"
  BY DEF HeldOnRecord
<1>0. /\ TypeOK
      /\ \A c \in Deliveries : row[c].status # "absent" => row'[c].status # "absent"
      /\ \A p \in Replicas : \A i \in batch[p] : i.id \in Deliveries
  BY NeverAbsentAgain DEF OutboxInv, TypeOK, Item
<1>1. CASE it \in batch[q]
  BY <1>0, <1>1 DEF HeldOnRecord
<1>2. CASE it \notin batch[q]
  <2>1. ASSUME NEW p \in Replicas, NEW S \in SUBSET Deliveries, ClaimDueCallbackDeliveries(p, S)
        PROVE  row'[it.id].status # "absent"
    <3>1. p = q
      BY <1>0, <1>2, <2>1 DEF ClaimDueCallbackDeliveries, TypeOK
    <3>2. it.id \in S
      <4>1. batch'[q] = {[id |-> d, attempts |-> row[d].attempts, of |-> Cardinality(S)] : d \in S}
        BY <1>0, <2>1, <3>1 DEF ClaimDueCallbackDeliveries, TypeOK
      <4>2. PICK d \in S : it = [id |-> d, attempts |-> row[d].attempts, of |-> Cardinality(S)]
        BY <4>1
      <4> QED BY <4>2
    <3>3. row[it.id].status # "absent"
      BY <2>1, <3>2 DEF ClaimDueCallbackDeliveries, Due
    <3> QED BY <1>0, <3>2, <3>3
  <2>2. ASSUME NEW p \in Replicas, NEW i \in batch[p], NEW res \in Results, DeliverCallbackDelivery(p, i, res)
        PROVE  FALSE
    BY <1>0, <1>2, <2>2 DEF DeliverCallbackDelivery, TypeOK
  <2>3. ASSUME NEW p \in Replicas, Abort(p) PROVE FALSE
    BY <1>0, <1>2, <2>3 DEF Abort, TypeOK
  <2>4. CASE UNCHANGED batch
    BY <1>2, <2>4
  <2>5. ASSUME NEW p \in Replicas, RecordOutcome(p) \/ OutcomeTooLate(p) PROVE UNCHANGED batch
    BY <2>5 DEF RecordOutcome, OutcomeTooLate
  <2>6. ASSUME NEW c \in Deliveries, RowSteps(c) PROVE UNCHANGED batch
    BY <1>0, <2>6, RowStepFacts
  <2> QED BY <2>1, <2>2, <2>3, <2>4, <2>5, <2>6 DEF Next, Worker, RowSteps, vars
<1> QED BY <1>1, <1>2

\* The phases of the abstract table.
Phases == [d \in Deliveries |-> Phase(row[d].status)]

\* Rewriting one row moves one item.
LEMMA PhaseWritten ==
  ASSUME TypeOK, NEW d \in Deliveries, NEW R, row' = [row EXCEPT ![d] = R]
  PROVE  Phases' = [Phases EXCEPT ![d] = Phase(R.status)]
  BY DEF Phases, TypeOK

LEMMA PhasesSame ==
  ASSUME \A d \in Deliveries : Phase(row'[d].status) = Phase(row[d].status)
  PROVE  Phases' = Phases
  BY DEF Phases

\* Enqueue, operator retry, retention and the clock.
LEMMA RowStepRefines ==
  ASSUME TypeOK, NEW d \in Deliveries, RowSteps(d)
  PROVE  [Work!Next]_(Work!vars)
<1>0. row[d] \in Row /\ Phases[d] = Phase(row[d].status) /\ UNCHANGED effects
  BY RowStepFacts DEF TypeOK, Phases
<1>1. CASE EnqueueTaskEventCallbackDeliveries(d)
  <2>1. PICK status \in {"pending", "dead_letter", "skipped"} : row' = [row EXCEPT ![d] = Enqueued(status)]
    BY <1>1 DEF EnqueueTaskEventCallbackDeliveries
  <2>2. Phases' = [Phases EXCEPT ![d] = Phase(Enqueued(status).status)]
    BY <2>1, PhaseWritten
  <2>3. Phase(Enqueued(status).status) \in {"open", "failed"} /\ Phases[d] = "absent"
    BY <1>0, <1>1 DEF Enqueued, Phase, EnqueueTaskEventCallbackDeliveries
  <2>4. Work!Enqueue(d)
    BY <1>0, <2>2, <2>3 DEF Work!Enqueue, Work!To, Phases
  <2> QED BY <2>4 DEF Work!Next
<1>2. CASE RetryCallbackDelivery(d)
  <2> DEFINE R == [status |-> "pending", attempts |-> 0, due |-> TRUE,
                   lease |-> "none", resets |-> row[d].resets + 1]
  <2>1. row' = [row EXCEPT ![d] = R] /\ Phase(R.status) = "open"
    BY <1>2 DEF RetryCallbackDelivery, TypeOK, Phase
  <2>2. Phases' = [Phases EXCEPT ![d] = "open"]
    BY <2>1, PhaseWritten
  <2>3. CASE row[d].status = "dead_letter"
    <3>1. Phases[d] = "failed"
      BY <1>0, <2>3 DEF Phase
    <3>2. Work!Reopen(d)
      BY <1>0, <2>2, <3>1 DEF Work!Reopen, Work!To, Phases
    <3> QED BY <3>2 DEF Work!Next
  <2>4. CASE row[d].status = "failed"
    <3>1. Phases[d] = "open"
      BY <1>0, <2>4 DEF Phase
    <3>2. Phases' = Phases
      BY <2>2, <3>1 DEF Phases
    <3> QED BY <1>0, <3>2 DEF Work!vars, Phases
  <2> QED BY <1>2, <2>3, <2>4 DEF RetryCallbackDelivery, Resettable
<1>3. CASE PruneTerminalDeliveries(d)
  <2>1. row' = [row EXCEPT ![d] = [row[d] EXCEPT !.status = "pruned"]]
    BY <1>3 DEF PruneTerminalDeliveries, TypeOK
  <2>2. Phases' = [Phases EXCEPT ![d] = "gone"]
    <3> DEFINE R == [row[d] EXCEPT !.status = "pruned"]
    <3>1. Phase(R.status) = "gone"
      BY <1>0 DEF Row, Phase
    <3>2. row' = [row EXCEPT ![d] = R]
      BY <2>1
    <3> HIDE DEF R
    <3> QED BY <3>1, <3>2, PhaseWritten
  <2>3. Phases[d] \in {"done", "failed"}
    BY <1>0, <1>3 DEF PruneTerminalDeliveries, Phase
  <2>4. Work!Purge(d)
    BY <1>0, <2>2, <2>3 DEF Work!Purge, Work!To, Phases
  <2> QED BY <2>4 DEF Work!Next
<1>4. CASE LeaseElapses(d) \/ BackoffElapses(d)
  <2>1. \A c \in Deliveries : row'[c].status = row[c].status
    BY <1>0, <1>4 DEF LeaseElapses, BackoffElapses, TypeOK, Row
  <2>2. Phases' = Phases
    BY <2>1, PhasesSame
  <2> QED BY <1>0, <2>2 DEF Work!vars, Phases
<1> QED BY <1>1, <1>2, <1>3, <1>4 DEF RowSteps

\* An execution takes effect once, or not at all.
LEMMA DeliverRefines ==
  ASSUME TypeOK, HeldOnRecord, NEW p \in Replicas, NEW it \in batch[p], NEW res \in Results,
         DeliverCallbackDelivery(p, it, res)
  PROVE  [Work!Next]_(Work!vars)
<1>1. it.id \in Deliveries /\ row[it.id] \in Row /\ UNCHANGED row
  BY DEF TypeOK, Item, DeliverCallbackDelivery
<1>2. PICK n \in EffectOf(it.id, res) :
        effects' = [effects EXCEPT ![it.id] = IF @ + n <= MaxEffects THEN @ + n ELSE @]
  BY DEF DeliverCallbackDelivery
<1>3. /\ n \in {0, 1} /\ effects[it.id] \in Nat
      /\ it.id \in SpawnTask /\ effects[it.id] > 0 => n = 0
  BY <1>1, <1>2, ConstantsAssumption DEF EffectOf, TypeOK
<1>4. Phases' = Phases
  BY <1>1 DEF Phases
<1>5. CASE effects' = effects
  BY <1>4, <1>5 DEF Work!vars, Phases
<1>6. CASE effects' # effects
  <2>1. n = 1 /\ effects' = [effects EXCEPT ![it.id] = @ + 1]
    <3>1. effects' = [effects EXCEPT ![it.id] = effects[it.id]] => effects' = effects
      BY <1>1 DEF TypeOK
    <3>2. effects[it.id] + 0 = effects[it.id]
      BY <1>3
    <3>3. effects' = [effects EXCEPT ![it.id] = IF effects[it.id] + n <= MaxEffects THEN effects[it.id] + n
                                                ELSE effects[it.id]]
      BY <1>2
    <3> QED BY <1>3, <1>6, <3>1, <3>2, <3>3
  <2>2. Phases[it.id] # "absent"
    BY <1>1 DEF HeldOnRecord, Phases, Phase, Row, Status
  <2>3. it.id \in SpawnTask => effects[it.id] = 0
    BY <1>3, <2>1
  <2>4. Work!TakeEffect(it.id)
    BY <1>1, <1>4, <2>1, <2>2, <2>3 DEF Work!TakeEffect, Phases
  <2> QED BY <1>1, <2>4 DEF Work!Next
<1> QED BY <1>5, <1>6

\* A recorded outcome closes an open item whose effect took place, or not.
LEMMA RecordRefines ==
  ASSUME OutboxInv, NEW p \in Replicas, RecordOutcome(p)
  PROVE  [Work!Next]_(Work!vars)
<1> DEFINE x == current[p]
           d == x.item.id
<1>1. TypeOK /\ x \in Executed /\ x.res # "hung" /\ d \in Deliveries /\ x # Nothing
  BY DEF RecordOutcome, OutboxInv, TypeOK, Executed, Item
<1>2. row' = [row EXCEPT ![d] = Recorded(row[d], Outcome(x))] /\ UNCHANGED effects
  BY <1>1 DEF RecordOutcome, TypeOK
<1>3. Outcome(x) \in {"completed", "dead_letter", "failed"} /\ (Outcome(x) = "completed" => x.res = "ok")
  BY <1>1, OutcomeFacts
<1>4. row[d] \in Row /\ (row[d].lease = "none" <=> row[d].status # "in_flight")
  BY <1>1 DEF TypeOK
<1>5. x.res = "ok" => effects[d] > 0
  BY <1>1 DEF OutboxInv, SuccessTookEffect
<1>6. Phases' = [Phases EXCEPT ![d] = Phase(Recorded(row[d], Outcome(x)).status)]
  BY <1>1, <1>2, PhaseWritten
<1> HIDE DEF x, d
<1>7. CASE row[d].status # "in_flight"
  <2>1. Recorded(row[d], Outcome(x)) = row[d]
    BY <1>3, <1>4, <1>7, RecordedFacts
  <2>2. Phases' = Phases
    BY <1>1, <1>6, <2>1 DEF Phases
  <2> QED BY <1>2, <2>2 DEF Work!vars, Phases
<1>8. CASE row[d].status = "in_flight"
  <2>1. Recorded(row[d], Outcome(x)).status = Outcome(x)
    BY <1>3, <1>4, <1>8, RecordedFacts
  <2>2. Phases[d] = "open"
    BY <1>1, <1>8 DEF Phases, Phase
  <2>3. CASE Outcome(x) = "completed"
    <3>1. Phases' = [Phases EXCEPT ![d] = "done"]
      BY <1>6, <2>1, <2>3 DEF Phase
    <3>2. Work!Finish(d)
      BY <1>2, <1>3, <1>5, <2>2, <2>3, <3>1 DEF Work!Finish, Work!To, Phases
    <3> QED BY <1>1, <3>2 DEF Work!Next
  <2>4. CASE Outcome(x) = "dead_letter"
    <3>1. Phases' = [Phases EXCEPT ![d] = "failed"]
      BY <1>6, <2>1, <2>4 DEF Phase
    <3>2. Work!Fail(d)
      BY <1>2, <2>2, <3>1 DEF Work!Fail, Work!To, Phases
    <3> QED BY <1>1, <3>2 DEF Work!Next
  <2>5. CASE Outcome(x) = "failed"
    <3>1. Phases' = Phases
      BY <1>1, <1>6, <2>1, <2>2, <2>5 DEF Phase, Phases
    <3> QED BY <1>2, <3>1 DEF Work!vars, Phases
  <2> QED BY <1>3, <2>3, <2>4, <2>5
<1> QED BY <1>7, <1>8

\* The outbox is a durable work table with a fence, for any deliveries and
\* replicas: every step of enqueue, worker, operator, retention and clock is a
\* step of DurableWork or none.
THEOREM OutboxImplements == Spec => ImplementsDurableWork
<1>1. Init => Work!Init /\ HeldOnRecord
  BY DEF Init, Work!Init, HeldOnRecord, Phase
<1>2. ASSUME OutboxInv, HeldOnRecord, [Next]_vars PROVE [Work!Next]_(Work!vars)
  <2>0. TypeOK
    BY <1>2 DEF OutboxInv
  <2>1. ASSUME NEW d \in Deliveries, RowSteps(d) PROVE [Work!Next]_(Work!vars)
    BY <2>0, <2>1, RowStepRefines
  <2>2. ASSUME NEW p \in Replicas, NEW S \in SUBSET Deliveries, ClaimDueCallbackDeliveries(p, S)
        PROVE  [Work!Next]_(Work!vars)
    <3>1. \A d \in Deliveries : row'[d].status = row[d].status
                                \/ (row[d].status \in {"pending", "failed", "in_flight"} /\ row'[d].status = "in_flight")
      BY <2>0, <2>2 DEF ClaimDueCallbackDeliveries, Due, TypeOK, Row
    <3>2. Phases' = Phases /\ UNCHANGED effects
      BY <2>2, <3>1, PhasesSame DEF Phase, ClaimDueCallbackDeliveries
    <3> QED BY <3>2 DEF Work!vars, Phases
  <2>3. ASSUME NEW p \in Replicas, NEW it \in batch[p], NEW res \in Results,
               DeliverCallbackDelivery(p, it, res)
        PROVE  [Work!Next]_(Work!vars)
    BY <1>2, <2>0, <2>3, DeliverRefines
  <2>4. ASSUME NEW p \in Replicas, RecordOutcome(p) PROVE [Work!Next]_(Work!vars)
    BY <1>2, <2>4, RecordRefines
  <2>5. CASE UNCHANGED <<row, effects>>
    BY <2>5 DEF Work!vars
  <2>6. ASSUME NEW p \in Replicas, OutcomeTooLate(p) \/ Abort(p) PROVE UNCHANGED <<row, effects>>
    BY <2>6 DEF OutcomeTooLate, Abort
  <2> QED BY <1>2, <2>1, <2>2, <2>3, <2>4, <2>5, <2>6 DEF Next, Worker, RowSteps, vars
<1> QED BY <1>1, <1>2, OutboxCorrect, HeldOnRecordStep, PTL DEF Spec, ImplementsDurableWork, Work!Spec
===========================================================================
