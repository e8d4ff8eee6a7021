---------------------- MODULE InboundDeliveriesProofs ----------------------
(***************************************************************************)
(* Theorems about InboundDeliveries, for any requests, keys and replicas.  *)
(***************************************************************************)
EXTENDS InboundDeliveries, TLAPS

Stored == Open \cup Terminal

\* What an item and a verdict do to the row they are recorded in.
LEMMA RecordedFacts ==
  ASSUME NEW R \in Row, NEW it \in Item, NEW v \in Verdict
  PROVE  /\ Recorded(R, it, v) \in Row
         /\ Recorded(R, it, v).status \in Stored
         /\ Recorded(R, it, v).task => R.task \/ v.task
<1> USE InboxAssumption DEF Row, Verdict, Item, Recorded, Open, Terminal, Stored
<1>1. CASE v.status = "succeeded"
  BY <1>1
<1>2. CASE v.status = "failed_permanent"
  BY <1>2
<1>3. CASE v.status = "retry_wait" /\ it.attempts < MaxAttempts
  BY <1>3
<1>4. CASE v.status = "retry_wait" /\ it.attempts >= MaxAttempts
  <2>1. Recorded(R, it, v) = [R EXCEPT !.status = "dead_letter", !.ready = FALSE]
    BY <1>4
  <2> QED BY <2>1
<1> QED BY <1>1, <1>2, <1>3, <1>4

Statuses == {"succeeded", "failed_permanent", "retry_wait"}

\* The parts of a pair of Processing.
LEMMA OutcomeFacts ==
  ASSUME NEW n, NEW s \in Statuses, NEW b \in BOOLEAN
  PROVE  /\ <<n, Outcome(s, b)>>[1] = n
         /\ <<n, Outcome(s, b)>>[2] \in Verdict
         /\ <<n, Outcome(s, b)>>[2].task = b
<1>1. Outcome(s, b) \in Verdict /\ Outcome(s, b).task = b
  BY DEF Outcome, Verdict, Statuses
<1>2. \A x : <<n, x>>[1] = n /\ <<n, x>>[2] = x
  OBVIOUS
<1> QED BY <1>1, <1>2, Zenon

\* Processing creates at most one task, and only if the row has none; a
\* verdict names a task that exists.
LEMMA ProcessingFacts ==
  ASSUME TypeOK, NEW q \in Requests, NEW o \in Processing(q)
  PROVE  /\ o[1] \in {0, 1}
         /\ o[2] \in Verdict
         /\ o[1] = 1 => made[q] = 0
         /\ o[2].task => (o[1] = 1 \/ made[q] > 0)
<1>1. made[q] > 0 \/ made[q] = 0
  BY DEF TypeOK
<1>2. 0 # 1
  OBVIOUS
<1>3. ASSUME NEW s \in Statuses, o = <<0, Outcome(s, FALSE)>>
      PROVE  o[1] = 0 /\ o[2] \in Verdict /\ o[2].task = FALSE
  BY <1>3, OutcomeFacts, Zenon
<1>4. ASSUME NEW s \in Statuses, o = <<1, Outcome(s, FALSE)>>
      PROVE  o[1] = 1 /\ o[2] \in Verdict /\ o[2].task = FALSE
  BY <1>4, OutcomeFacts, Zenon
<1>5. ASSUME NEW n, o = <<n, Outcome("succeeded", TRUE)>>
      PROVE  o[1] = n /\ o[2] \in Verdict
  BY <1>5, OutcomeFacts, Zenon DEF Statuses
<1>6. \/ \E s \in Statuses : o = <<0, Outcome(s, FALSE)>>
      \/ made[q] > 0 /\ o = <<0, Outcome("succeeded", TRUE)>>
      \/ made[q] = 0 /\ o = <<1, Outcome("succeeded", TRUE)>>
      \/ made[q] = 0 /\ \E s \in Statuses : o = <<1, Outcome(s, FALSE)>>
  <2>1. CASE endpoint = "off"
    BY <2>1, Zenon DEF Processing, Statuses
  <2>2. CASE endpoint = "filters"
    <3>1. "filters" # "off"
      OBVIOUS
    <3>2. o \in {<<0, Outcome("succeeded", FALSE)>>}
      BY <2>2 DEF Processing
    <3> QED BY <3>2, Zenon DEF Statuses
  <2>3. CASE endpoint = "acts"
    <3>1. o \in Submission(q)
      BY <2>3 DEF Processing
    <3>2. made[q] > 0 => ~(made[q] = 0)
      BY DEF TypeOK
    <3> QED BY <1>1, <3>1, <3>2, Zenon DEF Submission, Statuses
  <2> QED BY <2>1, <2>2, <2>3 DEF TypeOK, Endpoints
<1>7. CASE \E s \in Statuses : o = <<0, Outcome(s, FALSE)>>
  <2>1. o[1] = 0 /\ o[2] \in Verdict /\ o[2].task = FALSE
    BY <1>3, <1>7, Zenon
  <2> QED BY <1>2, <2>1, Zenon
<1>8. CASE made[q] > 0 /\ o = <<0, Outcome("succeeded", TRUE)>>
  <2>1. o[1] = 0 /\ o[2] \in Verdict
    BY <1>5, <1>8, Zenon
  <2> QED BY <1>2, <1>8, <2>1, Zenon
<1>9. CASE made[q] = 0 /\ o = <<1, Outcome("succeeded", TRUE)>>
  <2>1. o[1] = 1 /\ o[2] \in Verdict
    BY <1>5, <1>9, Zenon
  <2> QED BY <1>9, <2>1, Zenon
<1>10. CASE made[q] = 0 /\ \E s \in Statuses : o = <<1, Outcome(s, FALSE)>>
  <2>1. o[1] = 1 /\ o[2] \in Verdict
    BY <1>4, <1>10, Zenon
  <2> QED BY <1>10, <2>1, Zenon
<1> QED BY <1>6, <1>7, <1>8, <1>9, <1>10, Zenon
-----------------------------------------------------------------------------
(***************************************************************************)
(* The inductive invariant.                                                *)
(***************************************************************************)

\* A request inserts its row once.
InsertedOnce == \A q \in Requests : req[q] \in {"new", "counted"} => row[q].status = "absent"

\* The unique index on the key of the endpoint's deliveries.
KeysUnique ==
  \A q, r \in Requests : (q # r /\ SameDelivery(q, r)) => ~(Exists(q) /\ Exists(r))

\* Workers hold rows on record only, and tasks are made for those only.
HeldOnRecord ==
  /\ \A p \in Replicas : \A it \in batch[p] : row[it.id].status # "absent"
  /\ \A q \in Requests : made[q] > 0 => row[q].status # "absent"

\* A verdict that is not recorded yet names a task that exists.
VerdictHonest ==
  \A p \in Replicas : \A c \in current[p] : c.verdict.task => made[c.item.id] > 0

InboxInv ==
  /\ TypeOK /\ InsertedOnce /\ KeysUnique /\ HeldOnRecord /\ VerdictHonest
  /\ LinkedTaskExists /\ AcceptedIsRecorded

LEMMA InboxInit == Init => InboxInv
<1> SUFFICES ASSUME Init PROVE InboxInv
  OBVIOUS
<1>1. row \in [Requests -> Row]
  BY InboxAssumption DEF Init, Row
<1>2. \A q \in Requests : row[q].status = "absent" /\ row[q].task = FALSE /\ ~Exists(q)
  BY DEF Init, Exists
<1>3. TypeOK
  BY <1>1 DEF Init, TypeOK, Endpoints
<1> QED BY <1>2, <1>3 DEF Init, InboxInv, InsertedOnce, KeysUnique, HeldOnRecord, VerdictHonest,
                         LinkedTaskExists, AcceptedIsRecorded

\* Steps that change rows only, and turn no row absent, present or linked.
Touched ==
  /\ UNCHANGED <<endpoint, req, made, current>>
  /\ row' \in [Requests -> Row]
  /\ \A q \in Requests : /\ row'[q].status = "absent" <=> row[q].status = "absent"
                         /\ row'[q].status \in Stored => row[q].status \in Stored
                         /\ row'[q].task => row[q].task

LEMMA TouchedKeeps ==
  ASSUME InboxInv, Touched,
         \/ UNCHANGED batch
         \/ /\ batch' \in [Replicas -> SUBSET Item]
            /\ \A p \in Replicas : \A it \in batch'[p] : row'[it.id].status # "absent"
  PROVE  InboxInv'
<1>0. \A p \in Replicas : \A it \in batch[p] : it.id \in Requests
  BY DEF InboxInv, TypeOK, Item
<1>1. TypeOK'
  BY DEF InboxInv, TypeOK, Touched
<1>2. InsertedOnce' /\ VerdictHonest' /\ AcceptedIsRecorded'
  BY DEF InboxInv, Touched, InsertedOnce, VerdictHonest, AcceptedIsRecorded, SameDelivery
<1>3. LinkedTaskExists'
  BY DEF InboxInv, Touched, LinkedTaskExists
<1>4. HeldOnRecord'
  <2>1. \A q \in Requests : made'[q] > 0 => row'[q].status # "absent"
    BY DEF InboxInv, Touched, HeldOnRecord
  <2>2. \A p \in Replicas : \A it \in batch'[p] : row'[it.id].status # "absent"
    BY <1>0 DEF InboxInv, Touched, HeldOnRecord
  <2> QED BY <2>1, <2>2 DEF HeldOnRecord
<1>5. \A q \in Requests : Exists(q)' => Exists(q)
  <2>1. \A q \in Requests : row[q] \in Row /\ row'[q] \in Row
    BY <1>1 DEF InboxInv, TypeOK
  <2> QED BY <2>1 DEF Touched, Exists, Stored, Row, Open, Terminal
<1>6. KeysUnique'
  BY <1>5 DEF InboxInv, KeysUnique, SameDelivery
<1> QED BY <1>1, <1>2, <1>3, <1>4, <1>6 DEF InboxInv

\* The insert of a row, answered or not.
LEMMA InsertKeeps ==
  ASSUME InboxInv, NEW q \in Requests, InsertDelivery(q) \/ InsertUnanswered(q)
  PROVE  InboxInv'
<1>0. /\ TypeOK /\ req[q] = "counted" /\ row[q].status = "absent" /\ row[q] \in Row
      /\ UNCHANGED <<endpoint, made, batch, current>>
      /\ req' \in [Requests -> {"new", "counted", "accepted", "refused"}]
      /\ req'[q] \in {"accepted", "refused"} /\ \A r \in Requests \ {q} : req'[r] = req[r]
  BY DEF InboxInv, TypeOK, InsertedOnce, InsertDelivery, InsertUnanswered
<1>1. CASE row' = row /\ Replay(q)
  <2>1. PICK r \in Requests : Exists(r) /\ KeyOf[r] = KeyOf[q] /\ KeyOf[q] # NoKey
    BY <1>1 DEF Replay
  <2>2. AcceptedIsRecorded'
    <3>1. SameDelivery(q, r) /\ row'[r].status # "absent"
      BY <1>1, <2>1 DEF SameDelivery, Exists
    <3> QED BY <1>0, <1>1, <3>1 DEF InboxInv, AcceptedIsRecorded, SameDelivery
  <2>3. TypeOK' /\ InsertedOnce' /\ HeldOnRecord' /\ VerdictHonest' /\ LinkedTaskExists'
    BY <1>0, <1>1 DEF InboxInv, TypeOK, InsertedOnce, HeldOnRecord, VerdictHonest, LinkedTaskExists
  <2>4. KeysUnique'
    BY <1>1 DEF InboxInv, KeysUnique, SameDelivery, Exists
  <2> QED BY <2>2, <2>3, <2>4 DEF InboxInv
<1>2. CASE ~Replay(q) /\ row' = [row EXCEPT ![q] = NewRow(q)]
  <2>1. /\ NewRow(q) \in Row /\ NewRow(q).status = "pending" /\ NewRow(q).task = row[q].task
        /\ row'[q] = NewRow(q) /\ \A r \in Requests \ {q} : row'[r] = row[r]
        /\ row' \in [Requests -> Row]
    BY <1>0, <1>2 DEF NewRow, Row, Open, TypeOK
  <2>2. TypeOK'
    BY <1>0, <2>1 DEF TypeOK
  <2>3. InsertedOnce'
    BY <1>0, <2>1 DEF InboxInv, InsertedOnce
  <2>4. KeysUnique'
    <3> SUFFICES ASSUME NEW a \in Requests, NEW b \in Requests, a # b, SameDelivery(a, b),
                        Exists(a)', Exists(b)'
                 PROVE  FALSE
      BY DEF KeysUnique, SameDelivery
    <3>1. \A r \in Requests : r # q /\ SameDelivery(q, r) => ~Exists(r)
      BY <1>2 DEF Replay, SameDelivery
    <3>2. \A r \in Requests : r # q => (Exists(r)' <=> Exists(r))
      BY <2>1 DEF Exists
    <3> QED BY <3>1, <3>2 DEF InboxInv, KeysUnique, SameDelivery
  <2>5. HeldOnRecord' /\ VerdictHonest'
    BY <1>0, <2>1 DEF InboxInv, HeldOnRecord, VerdictHonest, TypeOK, Item
  <2>6. LinkedTaskExists'
    BY <1>0, <2>1 DEF InboxInv, LinkedTaskExists
  <2>7. AcceptedIsRecorded'
    <3>1. \A r \in Requests : row[r].status # "absent" => row'[r].status # "absent"
      BY <2>1
    <3> QED BY <1>0, <2>1, <3>1 DEF InboxInv, AcceptedIsRecorded, SameDelivery
  <2> QED BY <2>2, <2>3, <2>4, <2>5, <2>6, <2>7 DEF InboxInv
<1> QED BY <1>1, <1>2 DEF InsertDelivery, InsertUnanswered

\* The claim of due rows.
LEMMA ClaimKeeps ==
  ASSUME InboxInv, NEW p \in Replicas, NEW S \in SUBSET Requests, NEW answered \in BOOLEAN,
         ClaimDue(p, S, answered)
  PROVE  InboxInv'
<1>0. TypeOK /\ \A q \in Requests : row[q] \in Row
  BY DEF InboxInv, TypeOK
<1>1. row' = [q \in Requests |-> IF q \in S THEN [row[q] EXCEPT !.status = "processing",
                                         !.attempts = Raised(row[q].attempts), !.ready = FALSE]
                                 ELSE row[q]]
  BY DEF ClaimDue, Claimed
<1>2. \A n \in 0 .. MaxAttempts : Raised(n) \in 0 .. MaxAttempts
  BY InboxAssumption DEF Raised
<1>3. ASSUME NEW q \in Requests
      PROVE  /\ row'[q] \in Row /\ row'[q].task = row[q].task
             /\ q \in S => row[q].status \in Open /\ row'[q].status = "processing"
             /\ q \notin S => row'[q] = row[q]
  <2>1. CASE q \in S
    <3>1. row'[q] = [row[q] EXCEPT !.status = "processing",
                                   !.attempts = Raised(row[q].attempts), !.ready = FALSE]
      BY <1>1, <2>1
    <3>2. row[q].status \in Open /\ Raised(row[q].attempts) \in 0 .. MaxAttempts
      BY <1>0, <1>2, <2>1 DEF ClaimDue, Due, Row
    <3> QED BY <1>0, <2>1, <3>1, <3>2 DEF Row, Open
  <2>2. CASE q \notin S
    BY <1>0, <1>1, <2>2
  <2> QED BY <2>1, <2>2
<1>4. row' \in [Requests -> Row]
  BY <1>1, <1>3, Zenon
<1>5. Touched
  BY <1>3, <1>4 DEF Touched, ClaimDue, Open, Stored
<1>6. CASE ~answered
  BY <1>5, <1>6, TouchedKeeps DEF ClaimDue
<1>7. CASE answered
  <2>1. batch' = [batch EXCEPT ![p] = {[id |-> q, attempts |-> Raised(row[q].attempts)] : q \in S}]
    BY <1>7 DEF ClaimDue
  <2>2. \A q \in S : [id |-> q, attempts |-> Raised(row[q].attempts)] \in Item
    BY <1>0, <1>2 DEF Item, Row
  <2>3. batch' \in [Replicas -> SUBSET Item]
    BY <1>0, <2>1, <2>2 DEF TypeOK
  <2>4. ASSUME NEW r \in Replicas, NEW it \in batch'[r] PROVE row'[it.id].status # "absent"
    <3>1. CASE r = p
      <4>1. PICK q \in S : it = [id |-> q, attempts |-> Raised(row[q].attempts)]
        BY <1>0, <2>1, <2>4, <3>1 DEF TypeOK
      <4> QED BY <1>3, <4>1
    <3>2. CASE r # p
      <4>1. it \in batch[r]
        BY <1>0, <2>1, <2>4, <3>2 DEF TypeOK
      <4>2. it.id \in Requests /\ row[it.id].status # "absent"
        BY <1>0, <4>1 DEF TypeOK, Item, InboxInv, HeldOnRecord
      <4> QED BY <1>5, <4>2 DEF Touched
    <3> QED BY <3>1, <3>2
  <2> QED BY <1>5, <2>3, <2>4, TouchedKeeps
<1> QED BY <1>6, <1>7

\* The processing of an item.
LEMMA ProcessKeeps ==
  ASSUME InboxInv, NEW p \in Replicas, NEW it \in batch[p], Process(p, it)
  PROVE  InboxInv'
<1>0. /\ TypeOK /\ it \in Item /\ it.id \in Requests /\ row[it.id].status # "absent"
      /\ made[it.id] \in Nat /\ UNCHANGED <<endpoint, req, row>>
  BY DEF InboxInv, TypeOK, Item, HeldOnRecord, Process
<1>1. PICK o \in Processing(it.id) :
        /\ made' = [made EXCEPT ![it.id] = @ + o[1]]
        /\ current' = [current EXCEPT ![p] = {[item |-> it, verdict |-> o[2]]}]
  BY DEF Process
<1>2. /\ o[1] \in {0, 1} /\ o[2] \in Verdict
      /\ o[2].task => (o[1] = 1 \/ made[it.id] > 0)
  BY <1>0, ProcessingFacts
<1>3. /\ made' \in [Requests -> Nat] /\ made'[it.id] = made[it.id] + o[1]
      /\ \A q \in Requests \ {it.id} : made'[q] = made[q]
  BY <1>0, <1>1, <1>2 DEF TypeOK
<1>4. /\ batch' \in [Replicas -> SUBSET Item]
      /\ \A r \in Replicas : batch'[r] \subseteq batch[r]
      /\ current' \in [Replicas -> SUBSET [item : Item, verdict : Verdict]]
  <2>1. {[item |-> it, verdict |-> o[2]]} \in SUBSET [item : Item, verdict : Verdict]
    BY <1>0, <1>2
  <2>2. current' \in [Replicas -> SUBSET [item : Item, verdict : Verdict]]
    BY <1>0, <1>1, <2>1 DEF TypeOK
  <2>3. batch' = [batch EXCEPT ![p] = batch[p] \ {it}]
    BY DEF Process
  <2> QED BY <1>0, <2>2, <2>3 DEF TypeOK
<1>5. TypeOK'
  BY <1>0, <1>3, <1>4 DEF TypeOK
<1>6. \A q \in Requests : made[q] > 0 => made'[q] > 0
  BY <1>0, <1>2, <1>3 DEF TypeOK
<1>7. VerdictHonest'
  <2> SUFFICES ASSUME NEW r \in Replicas, NEW c \in current'[r], c.verdict.task
               PROVE  made'[c.item.id] > 0
    BY DEF VerdictHonest
  <2>1. CASE r = p
    <3>1. c = [item |-> it, verdict |-> o[2]]
      BY <1>0, <1>1, <2>1 DEF TypeOK
    <3> QED BY <1>0, <1>2, <1>3, <3>1
  <2>2. CASE r # p
    <3>1. c \in current[r]
      BY <1>0, <1>1, <2>2 DEF TypeOK
    <3>2. c.item.id \in Requests /\ made[c.item.id] > 0
      BY <1>0, <3>1 DEF TypeOK, Item, InboxInv, VerdictHonest
    <3> QED BY <1>6, <3>2
  <2> QED BY <2>1, <2>2
<1>8. HeldOnRecord'
  BY <1>0, <1>3, <1>4 DEF InboxInv, HeldOnRecord
<1>9. LinkedTaskExists'
  BY <1>0, <1>6 DEF InboxInv, LinkedTaskExists
<1>10. InsertedOnce' /\ AcceptedIsRecorded'
  BY <1>0 DEF InboxInv, InsertedOnce, AcceptedIsRecorded
<1>11. KeysUnique'
  BY <1>0 DEF InboxInv, KeysUnique, SameDelivery, Exists
<1> QED BY <1>5, <1>7, <1>8, <1>9, <1>10, <1>11 DEF InboxInv

\* The record of an outcome.
LEMMA RecordKeeps ==
  ASSUME InboxInv, NEW p \in Replicas, NEW c \in current[p], Record(p, c)
  PROVE  InboxInv'
<1> DEFINE q == c.item.id
<1>0. /\ TypeOK /\ c.item \in Item /\ c.verdict \in Verdict /\ q \in Requests /\ row[q] \in Row
      /\ UNCHANGED <<endpoint, req, made, batch>>
      /\ c.verdict.task => made[q] > 0
  BY DEF InboxInv, TypeOK, Item, VerdictHonest, Record
<1>1. /\ current' \in [Replicas -> SUBSET [item : Item, verdict : Verdict]]
      /\ \A r \in Replicas : current'[r] \subseteq current[r]
  BY <1>0 DEF Record, TypeOK
<1>2. /\ row' \in [Requests -> Row]
      /\ \A r \in Requests : r # q => row'[r] = row[r]
      /\ row'[q] = row[q]
         \/ (Exists(q) /\ row'[q].status \in Stored /\ (row'[q].task => row[q].task \/ c.verdict.task))
  <2>1. CASE Exists(q)
    <3>1. row' = [row EXCEPT ![q] = Recorded(row[q], c.item, c.verdict)]
      BY <1>0, <2>1 DEF Record, TypeOK
    <3> QED BY <1>0, <2>1, <3>1, RecordedFacts DEF TypeOK
  <2>2. CASE ~Exists(q)
    BY <1>0, <2>2 DEF Record, TypeOK
  <2> QED BY <2>1, <2>2
<1>3. \A r \in Requests : /\ row[r].status # "absent" => row'[r].status # "absent"
                          /\ Exists(r)' => Exists(r)
                          /\ row[r].status = "absent" => row'[r].status = "absent"
  BY <1>2 DEF Exists, Stored, Open, Terminal
<1> HIDE DEF q
<1>4. TypeOK'
  BY <1>0, <1>1, <1>2 DEF TypeOK
<1>5. InsertedOnce' /\ AcceptedIsRecorded'
  BY <1>0, <1>3 DEF InboxInv, InsertedOnce, AcceptedIsRecorded
<1>6. KeysUnique'
  BY <1>3 DEF InboxInv, KeysUnique, SameDelivery
<1>7. HeldOnRecord' /\ VerdictHonest'
  BY <1>0, <1>1, <1>3 DEF InboxInv, HeldOnRecord, VerdictHonest, TypeOK, Item
<1>8. LinkedTaskExists'
  BY <1>0, <1>2 DEF InboxInv, LinkedTaskExists
<1> QED BY <1>4, <1>5, <1>6, <1>7, <1>8 DEF InboxInv

\* Time, operators and retention.
RowSteps(q) == Elapses(q) \/ RetryInboundDelivery(q) \/ PruneTerminalDeliveries(q)

LEMMA RowStepFacts ==
  ASSUME TypeOK, NEW q \in Requests, RowSteps(q)
  PROVE  /\ Touched /\ UNCHANGED batch
         /\ \A r \in Requests : r # q => row'[r] = row[r]
<1>0. row[q] \in Row
  BY DEF TypeOK
<1>1. PICK R : /\ row' = [row EXCEPT ![q] = R] /\ R \in Row /\ R.task = row[q].task
               /\ R.status # "absent" /\ row[q].status # "absent"
               /\ R.status \in Stored => row[q].status \in Stored
  <2>1. CASE Elapses(q)
    <3> DEFINE R == [row[q] EXCEPT !.ready = TRUE]
    <3>1. R \in Row /\ R.task = row[q].task /\ R.status = row[q].status
      BY <1>0 DEF Row
    <3>2. row' = [row EXCEPT ![q] = R]
      BY <2>1 DEF Elapses, TypeOK
    <3>3. row[q].status # "absent"
      BY <2>1 DEF Elapses
    <3> HIDE DEF R
    <3> QED BY <3>1, <3>2, <3>3
  <2>2. CASE RetryInboundDelivery(q)
    <3> DEFINE R == [row[q] EXCEPT !.status = "pending", !.attempts = 0, !.ready = TRUE,
                                   !.resets = row[q].resets + 1]
    <3>1. row[q].resets + 1 \in 0 .. MaxResets /\ 0 \in 0 .. MaxAttempts
      BY <1>0, <2>2, InboxAssumption DEF RetryInboundDelivery, Row
    <3>2. R \in Row /\ R.task = row[q].task /\ R.status = "pending"
      BY <1>0, <3>1 DEF Row, Open
    <3>3. row' = [row EXCEPT ![q] = R]
      BY <2>2 DEF RetryInboundDelivery, TypeOK
    <3> QED BY <2>2, <3>2, <3>3 DEF RetryInboundDelivery, Stored, Terminal
  <2>3. CASE PruneTerminalDeliveries(q)
    <3> DEFINE R == [row[q] EXCEPT !.status = "pruned"]
    <3>1. R \in Row /\ R.task = row[q].task /\ R.status = "pruned"
      BY <1>0 DEF Row
    <3>2. row' = [row EXCEPT ![q] = R]
      BY <2>3 DEF PruneTerminalDeliveries, TypeOK
    <3>3. row[q].status \in Stored /\ row[q].status # "absent"
      BY <2>3 DEF PruneTerminalDeliveries, Terminal, Stored
    <3> HIDE DEF R
    <3> QED BY <3>1, <3>2, <3>3 DEF Stored
  <2> QED BY <2>1, <2>2, <2>3 DEF RowSteps
<1>2. UNCHANGED <<endpoint, req, made, batch, current>>
  BY DEF RowSteps, Elapses, RetryInboundDelivery, PruneTerminalDeliveries
<1> QED BY <1>1, <1>2 DEF Touched, TypeOK

\* Steps of the receiver that insert nothing, of the definitions and of a
\* worker that gives up.
Idle ==
  /\ UNCHANGED <<row, made>>
  /\ endpoint' \in Endpoints
  /\ req' \in [Requests -> {"new", "counted", "accepted", "refused"}]
  /\ \A q \in Requests : /\ req'[q] \in {"new", "counted"} => req[q] \in {"new", "counted"}
                         /\ req'[q] = "accepted" => req[q] = "accepted"
  /\ batch' \in [Replicas -> SUBSET Item] /\ \A p \in Replicas : batch'[p] \subseteq batch[p]
  /\ current' \in [Replicas -> SUBSET [item : Item, verdict : Verdict]]
  /\ \A p \in Replicas : current'[p] \subseteq current[p]

IdleSteps ==
  \/ \E q \in Requests : Count(q) \/ Refuse(q)
  \/ MaterializeEndpoint
  \/ \E p \in Replicas : RecordFails(p) \/ Crash(p) \/ \E it \in batch[p] : LoadFails(p, it)

LEMMA IdleFacts ==
  ASSUME TypeOK, IdleSteps \/ UNCHANGED vars
  PROVE  Idle
<1>1. ASSUME NEW q \in Requests, Count(q) \/ Refuse(q) PROVE Idle
  BY <1>1 DEF Count, Refuse, Idle, TypeOK
<1>2. CASE MaterializeEndpoint
  BY <1>2 DEF MaterializeEndpoint, Idle, TypeOK
<1>3. ASSUME NEW p \in Replicas, RecordFails(p) \/ Crash(p) \/ \E it \in batch[p] : LoadFails(p, it)
      PROVE  Idle
  BY <1>3 DEF RecordFails, Crash, LoadFails, Idle, TypeOK
<1>4. CASE UNCHANGED vars
  BY <1>4 DEF vars, Idle, TypeOK
<1> QED BY <1>1, <1>2, <1>3, <1>4 DEF IdleSteps

LEMMA IdleKeeps == ASSUME InboxInv, Idle PROVE InboxInv'
<1>1. TypeOK'
  BY DEF InboxInv, TypeOK, Idle
<1>2. InsertedOnce' /\ HeldOnRecord' /\ VerdictHonest' /\ LinkedTaskExists' /\ AcceptedIsRecorded'
  BY DEF InboxInv, Idle, InsertedOnce, HeldOnRecord, VerdictHonest, LinkedTaskExists, AcceptedIsRecorded
<1>3. KeysUnique'
  BY DEF InboxInv, Idle, KeysUnique, SameDelivery, Exists
<1> QED BY <1>1, <1>2, <1>3 DEF InboxInv

\* Next, by the kinds above.
LEMMA StepKinds ==
  ASSUME [Next]_vars
  PROVE  \/ IdleSteps \/ UNCHANGED vars
         \/ \E q \in Requests : InsertDelivery(q) \/ InsertUnanswered(q)
         \/ \E q \in Requests : RowSteps(q)
         \/ \E p \in Replicas : \E S \in SUBSET Requests, answered \in BOOLEAN : ClaimDue(p, S, answered)
         \/ \E p \in Replicas : \E it \in batch[p] : Process(p, it)
         \/ \E p \in Replicas : \E c \in current[p] : Record(p, c)
  BY DEF Next, Receiver, RowSteps, IdleSteps

LEMMA InboxStep == InboxInv /\ [Next]_vars => InboxInv'
<1> SUFFICES ASSUME InboxInv, [Next]_vars PROVE InboxInv'
  OBVIOUS
<1>0. TypeOK
  BY DEF InboxInv
<1>1. CASE IdleSteps \/ UNCHANGED vars
  BY <1>0, <1>1, IdleFacts, IdleKeeps
<1>2. ASSUME NEW q \in Requests, RowSteps(q) PROVE InboxInv'
  BY <1>0, <1>2, RowStepFacts, TouchedKeeps
<1> QED BY <1>1, <1>2, StepKinds, InsertKeeps, ClaimKeeps, ProcessKeeps, RecordKeeps

LEMMA InboxCorrect == Spec => []InboxInv
  BY InboxInit, InboxStep, PTL DEF Spec
-----------------------------------------------------------------------------
\* Receiver, worker, operator and retention keep every row well formed, with
\* attempts within the limit (inbound_deliveries.go).
THEOREM TypeCorrect == Spec => []TypeOK
<1>1. InboxInv => TypeOK
  BY DEF InboxInv
<1> QED BY InboxCorrect, <1>1, PTL

\* Two rows of one delivery never exist together and the task of a row is
\* created under its id: however often the sender, the workers and the
\* operators retry, a second task needs the row to have been pruned first.
THEOREM DeliveryActsOnce == Spec => []OneTaskPerDelivery
<1>1. InboxInv => OneTaskPerDelivery
  BY DEF InboxInv, OneTaskPerDelivery, KeysUnique, HeldOnRecord, Exists
<1> QED BY InboxCorrect, <1>1, PTL

\* ServeHTTP answers 202 only for a delivery that is on record.
THEOREM AcceptedNeverLost == Spec => []AcceptedIsRecorded
<1>1. InboxInv => AcceptedIsRecorded
  BY DEF InboxInv
<1> QED BY InboxCorrect, <1>1, PTL

\* The task a row names exists, also when a replica that lost its lease wrote
\* it (markInboundDeliverySucceeded).
THEOREM LinkIsHonest == Spec => []LinkedTaskExists
<1>1. InboxInv => LinkedTaskExists
  BY DEF InboxInv
<1> QED BY InboxCorrect, <1>1, PTL

\* The phases of the abstract table.
Phases == [q \in Requests |-> Phase(row[q].status)]

LEMMA PhaseWritten ==
  ASSUME TypeOK, NEW q \in Requests, NEW R, row' = [row EXCEPT ![q] = R]
  PROVE  Phases' = [Phases EXCEPT ![q] = Phase(R.status)]
  BY DEF Phases, TypeOK

LEMMA PhasesSame ==
  ASSUME \A q \in Requests : Phase(row'[q].status) = Phase(row[q].status), UNCHANGED made
  PROVE  UNCHANGED Work!vars
<1>1. Phases' = Phases
  BY DEF Phases
<1> QED BY <1>1 DEF Work!vars, Phases

\* An insert enqueues; a replay is no step.
LEMMA InsertRefines ==
  ASSUME TypeOK, InsertedOnce, NEW q \in Requests, InsertDelivery(q) \/ InsertUnanswered(q)
  PROVE  [Work!Next]_(Work!vars)
<1>1. row[q] \in Row /\ row[q].status = "absent" /\ UNCHANGED made
  BY DEF TypeOK, InsertedOnce, InsertDelivery, InsertUnanswered
<1>2. CASE row' = row
  BY <1>1, <1>2, PhasesSame
<1>3. CASE row' = [row EXCEPT ![q] = NewRow(q)]
  <2>1. Phase(NewRow(q).status) = "open" /\ Phases[q] = "absent"
    BY <1>1 DEF NewRow, Row, Phase, Phases, Open
  <2>2. Phases' = [Phases EXCEPT ![q] = "open"]
    BY <1>3, <2>1, PhaseWritten
  <2>3. Work!Enqueue(q)
    BY <1>1, <2>1, <2>2 DEF Work!Enqueue, Work!To, Phases
  <2> QED BY <2>3 DEF Work!Next
<1> QED BY <1>2, <1>3 DEF InsertDelivery, InsertUnanswered

\* Clock, operator and retention.
LEMMA RowStepRefines ==
  ASSUME TypeOK, NEW q \in Requests, RowSteps(q)
  PROVE  [Work!Next]_(Work!vars)
<1>1. row[q] \in Row /\ Phases[q] = Phase(row[q].status) /\ UNCHANGED made
  BY RowStepFacts DEF TypeOK, Phases, Touched
<1>2. CASE Elapses(q)
  <2>1. \A r \in Requests : row'[r].status = row[r].status
    BY <1>1, <1>2 DEF Elapses, TypeOK, Row
  <2> QED BY <1>1, <2>1, PhasesSame
<1>3. CASE RetryInboundDelivery(q)
  <2> DEFINE R == [row[q] EXCEPT !.status = "pending", !.attempts = 0, !.ready = TRUE,
                                 !.resets = row[q].resets + 1]
  <2>1. row' = [row EXCEPT ![q] = R]
    BY <1>3 DEF RetryInboundDelivery, TypeOK
  <2>2. Phase(R.status) = "open" /\ Phases[q] = "failed"
    BY <1>1, <1>3 DEF RetryInboundDelivery, Row, Phase, Open
  <2> HIDE DEF R
  <2>3. Phases' = [Phases EXCEPT ![q] = "open"]
    BY <2>1, <2>2, PhaseWritten
  <2>4. Work!Reopen(q)
    BY <1>1, <2>2, <2>3 DEF Work!Reopen, Work!To, Phases
  <2> QED BY <2>4 DEF Work!Next
<1>4. CASE PruneTerminalDeliveries(q)
  <2> DEFINE R == [row[q] EXCEPT !.status = "pruned"]
  <2>1. row' = [row EXCEPT ![q] = R]
    BY <1>4 DEF PruneTerminalDeliveries, TypeOK
  <2>2. Phase(R.status) = "gone" /\ Phases[q] \in {"done", "failed"}
    BY <1>1, <1>4 DEF PruneTerminalDeliveries, Row, Phase, Open, Terminal
  <2> HIDE DEF R
  <2>3. Phases' = [Phases EXCEPT ![q] = "gone"]
    BY <2>1, <2>2, PhaseWritten
  <2>4. Work!Purge(q)
    BY <1>1, <2>2, <2>3 DEF Work!Purge, Work!To, Phases
  <2> QED BY <2>4 DEF Work!Next
<1> QED BY <1>2, <1>3, <1>4 DEF RowSteps

\* The task of a row is created once.
LEMMA ProcessRefines ==
  ASSUME TypeOK, HeldOnRecord, NEW p \in Replicas, NEW it \in batch[p], Process(p, it)
  PROVE  [Work!Next]_(Work!vars)
<1>1. /\ it.id \in Requests /\ row[it.id] \in Row /\ row[it.id].status # "absent"
      /\ made[it.id] \in Nat /\ UNCHANGED row
  BY DEF TypeOK, Item, HeldOnRecord, Process
<1>2. PICK o \in Processing(it.id) : made' = [made EXCEPT ![it.id] = @ + o[1]]
  BY DEF Process
<1>3. o[1] \in {0, 1} /\ (o[1] = 1 => made[it.id] = 0)
  BY <1>1, ProcessingFacts
<1>4. CASE o[1] = 0
  <2>1. made' = made
    BY <1>1, <1>2, <1>4 DEF TypeOK
  <2> QED BY <1>1, <2>1, PhasesSame
<1>5. CASE o[1] = 1
  <2>1. Phases' = Phases /\ Phases[it.id] # "absent"
    BY <1>1 DEF Phases, Phase, Row, Open, Terminal
  <2>2. made' = [made EXCEPT ![it.id] = @ + 1] /\ made[it.id] = 0
    BY <1>2, <1>3, <1>5
  <2>3. Work!TakeEffect(it.id)
    BY <1>1, <2>1, <2>2 DEF Work!TakeEffect, Phases
  <2> QED BY <1>1, <2>3 DEF Work!Next
<1> QED BY <1>3, <1>4, <1>5

\* A record closes an open row, or replaces the outcome of another replica.
LEMMA RecordRefines ==
  ASSUME TypeOK, NEW p \in Replicas, NEW c \in current[p], Record(p, c)
  PROVE  [Work!Next]_(Work!vars)
<1> DEFINE q == c.item.id
           R == Recorded(row[q], c.item, c.verdict)
<1>1. /\ c.item \in Item /\ c.verdict \in Verdict /\ q \in Requests /\ row[q] \in Row
      /\ UNCHANGED made
  BY DEF TypeOK, Item, Record
<1>2. CASE ~Exists(q)
  <2>1. row' = row
    BY <1>2 DEF Record
  <2> QED BY <1>1, <2>1, PhasesSame
<1>3. CASE Exists(q)
  <2>1. row' = [row EXCEPT ![q] = R]
    BY <1>1, <1>3 DEF Record, TypeOK
  <2>2. R.status \in Stored
    BY <1>1, RecordedFacts
  <2> HIDE DEF q, R
  <2>3. Phase(R.status) \in {"open", "done", "failed"}
    BY <2>2 DEF Phase, Stored, Open, Terminal
  <2>4. Phases[q] \in {"open", "done", "failed"} /\ Phases[q] = Phase(row[q].status)
    BY <1>1, <1>3 DEF Phases, Phase, Exists, Row, Open, Terminal
  <2>5. Phases' = [Phases EXCEPT ![q] = Phase(R.status)]
    BY <1>1, <2>1, PhaseWritten
  <2>6. CASE Phases[q] = "open" /\ Phase(R.status) = "open"
    <3>1. \A r \in Requests : Phase(row'[r].status) = Phase(row[r].status)
      BY <1>1, <2>1, <2>4, <2>6 DEF TypeOK
    <3> QED BY <1>1, <3>1, PhasesSame
  <2>7. CASE Phases[q] = "open" /\ Phase(R.status) = "done"
    <3>1. Work!Finish(q)
      BY <1>1, <2>5, <2>7 DEF Work!Finish, Work!To, Phases
    <3> QED BY <1>1, <3>1 DEF Work!Next
  <2>8. CASE Phases[q] = "open" /\ Phase(R.status) = "failed"
    <3>1. Work!Fail(q)
      BY <1>1, <2>5, <2>8 DEF Work!Fail, Work!To, Phases
    <3> QED BY <1>1, <3>1 DEF Work!Next
  <2>9. CASE Phases[q] \in {"done", "failed"}
    <3>1. Work!LateRecord(q)
      BY <1>1, <2>3, <2>5, <2>9 DEF Work!LateRecord, Work!To, Phases
    <3> QED BY <1>1, <3>1 DEF Work!Next
  <2> QED BY <2>3, <2>4, <2>6, <2>7, <2>8, <2>9
<1> QED BY <1>2, <1>3

\* The inbox is a durable work table without a fence, for any requests, keys
\* and replicas: every step of receiver, worker, operator, retention and clock
\* is a step of DurableWork or none.
THEOREM InboxImplements == Spec => ImplementsDurableWork
<1>1. Init => Work!Init
  <2>1. Init => \A q \in Requests : row[q].status = "absent"
    BY DEF Init
  <2>2. Phase("absent") = "absent"
    BY DEF Phase, Open
  <2> QED BY <2>1, <2>2 DEF Init, Work!Init
<1>2. ASSUME InboxInv, [Next]_vars PROVE [Work!Next]_(Work!vars)
  <2>0. TypeOK /\ InsertedOnce /\ HeldOnRecord
    BY <1>2 DEF InboxInv
  <2>1. CASE IdleSteps \/ UNCHANGED vars
    <3>1. UNCHANGED <<row, made>>
      BY <2>0, <2>1, IdleFacts DEF Idle
    <3> QED BY <3>1, PhasesSame
  <2>2. ASSUME NEW p \in Replicas, NEW S \in SUBSET Requests, NEW answered \in BOOLEAN,
               ClaimDue(p, S, answered)
        PROVE  [Work!Next]_(Work!vars)
    <3>1. \A q \in Requests : row'[q].status = row[q].status
                              \/ (row[q].status \in Open /\ row'[q].status \in Open)
      <4>1. ASSUME NEW q \in Requests, q \in S
            PROVE  row[q].status \in Open /\ row'[q].status \in Open
        <5>1. row[q] \in Row /\ row[q].status \in Open
          BY <2>0, <2>2, <4>1 DEF ClaimDue, Due, TypeOK
        <5>2. row'[q] = [row[q] EXCEPT !.status = "processing",
                                       !.attempts = Raised(row[q].attempts), !.ready = FALSE]
          BY <2>2, <4>1 DEF ClaimDue, Claimed
        <5> QED BY <5>1, <5>2 DEF Row, Open
      <4>2. ASSUME NEW q \in Requests, q \notin S PROVE row'[q] = row[q]
        BY <2>2, <4>2 DEF ClaimDue, Claimed
      <4> QED BY <4>1, <4>2
    <3>2. \A q \in Requests : Phase(row'[q].status) = Phase(row[q].status)
      BY <3>1 DEF Phase, Open
    <3> QED BY <2>2, <3>2, PhasesSame DEF ClaimDue
  <2> QED BY <1>2, <2>0, <2>1, <2>2, StepKinds, InsertRefines, RowStepRefines, ProcessRefines, RecordRefines
<1> QED BY <1>1, <1>2, InboxCorrect, PTL DEF Spec, ImplementsDurableWork, Work!Spec
=============================================================================
