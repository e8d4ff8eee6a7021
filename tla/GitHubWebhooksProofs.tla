------------------------ MODULE GitHubWebhooksProofs ------------------------
(***************************************************************************)
(* Theorems about GitHubWebhooks, for any deliveries, triggers, replicas   *)
(* and bounds.                                                             *)
(***************************************************************************)
EXTENDS GitHubWebhooks, TLAPS

\* The keys of runs.
LEMMA KeyFacts ==
  ASSUME NEW r \in Replicas, NEW d \in Deliveries, NEW w \in Callers
  PROVE  <<r, d, w>> \in Keys
BY DEF Keys

LEMMA KeyParts ==
  ASSUME NEW k \in Keys
  PROVE  /\ k[1] \in Replicas /\ k[2] \in Deliveries /\ k[3] \in Callers
         /\ k = <<k[1], k[2], k[3]>>
BY DEF Keys

\* The updates of a run.
LEMMA JobUpdates ==
  ASSUME NEW j \in Job
  PROVE  /\ [j EXCEPT !.pc = "handling", !.next = NumTriggers] \in Job
         /\ [j EXCEPT !.next = 0] \in Job
         /\ [j EXCEPT !.next = 0, !.err = TRUE] \in Job
         /\ \A n \in Nat : [j EXCEPT !.pc = "failing", !.read = n] \in Job
         /\ j.next \in Triggers =>
              \A b : [j EXCEPT !.next = @ - 1, !.err = @ \/ b] \in Job
<1>1. 0 \in 0 .. NumTriggers /\ NumTriggers \in 0 .. NumTriggers
  BY WebhookAssumption
<1>2. [j EXCEPT !.pc = "handling", !.next = NumTriggers] \in Job
  <2>1. [j EXCEPT !.pc = "handling"] \in Job
    BY DEF Job
  <2>2. \A q \in Job : [q EXCEPT !.next = NumTriggers] \in Job
    BY <1>1 DEF Job
  <2> QED BY <2>1, <2>2
<1>3. [j EXCEPT !.next = 0] \in Job /\ [j EXCEPT !.next = 0, !.err = TRUE] \in Job
  BY <1>1 DEF Job
<1>4. \A n \in Nat : [j EXCEPT !.pc = "failing", !.read = n] \in Job
  BY DEF Job
<1>5. ASSUME j.next \in Triggers, NEW b PROVE [j EXCEPT !.next = @ - 1, !.err = @ \/ b] \in Job
  <2>1. j.next - 1 \in 0 .. NumTriggers
    BY <1>5, WebhookAssumption DEF Triggers
  <2>2. (j.err \/ b) \in BOOLEAN
    OBVIOUS
  <2> QED BY <2>1, <2>2 DEF Job
<1> QED BY <1>2, <1>3, <1>4, <1>5

\* The marks, counts and runs stay typed through every step.
LEMMA TypeStep == TypeOK /\ [Next]_vars => TypeOK'
<1> SUFFICES ASSUME TypeOK, [Next]_vars PROVE TypeOK'
  OBVIOUS
<1> USE WebhookAssumption
<1>1. CASE UNCHANGED vars
  BY <1>1 DEF vars, receiver, hist, TypeOK
<1>2. ASSUME NEW r \in Replicas, RetryFailedDeliveries(r) PROVE TypeOK'
  <2>1. NewJob \in Job
    BY DEF NewJob, Job
  <2>2. job' \in [Keys -> SUBSET Job]
    BY <1>2, <2>1 DEF RetryFailedDeliveries, TypeOK
  <2> QED BY <1>2, <2>2 DEF RetryFailedDeliveries, TypeOK, receiver, hist
<1>3. ASSUME NEW r \in Replicas, Crash(r) PROVE TypeOK'
  <2>1. CutOff(r) \subseteq Deliveries
    BY DEF CutOff
  <2> QED BY <1>3, <2>1 DEF Crash, TypeOK
<1>4. ASSUME NEW d \in Deliveries, BackoffElapses(d) PROVE TypeOK'
  BY <1>4 DEF BackoffElapses, TypeOK, Row, receiver, hist
<1>5. ASSUME NEW r \in Replicas, NEW d \in Deliveries, ServeHTTP(r, d) PROVE TypeOK'
  BY <1>5 DEF ServeHTTP, TypeOK, hist
<1>6. ASSUME NEW r \in Replicas, NEW d \in Deliveries, Forget(r, d) PROVE TypeOK'
  BY <1>6 DEF Forget, TypeOK, hist
<1>7. ASSUME NEW r \in Replicas, NEW d \in Deliveries, Record(r, d) PROVE TypeOK'
  <2>0. NewJob \in Job
    BY DEF NewJob, Job
  <2>00. Received \in Row
    BY DEF Received, NoRow, Row, Statuses
  <2>1. CASE RecordDelivery(r, d)
    BY <2>0, <2>00, <2>1, KeyFacts DEF RecordDelivery, TypeOK, hist, Callers
  <2>2. ASSUME NEW c \in BOOLEAN, RecordFails(r, d, c) PROVE TypeOK'
    BY <2>00, <2>2 DEF RecordFails, TypeOK
  <2> QED BY <1>7, <2>1, <2>2 DEF Record
<1>8. ASSUME NEW r \in Replicas, NEW d \in Deliveries, NEW w \in Callers, ProcessDelivery(r, d, w)
      PROVE TypeOK'
  <2> DEFINE k == <<r, d, w>>
  <2>1. PICK j \in job[k] :
          \/ MarkDeliveryProcessing(r, d, w, j)
          \/ \E c \in BOOLEAN : MarkProcessingFails(r, d, w, j, c)
          \/ HandleIgnores(r, d, w, j) \/ HandleBreaks(r, d, w, j)
          \/ \E c, ok \in BOOLEAN : SubmitTask(r, d, w, j, c, ok)
          \/ MarkDeliveryCompleted(r, d, w, j) \/ ReadAttempts(r, d, w, j)
          \/ MarkDeliveryFailed(r, d, w, j) \/ MarkFails(r, d, w, j)
    BY <1>8 DEF ProcessDelivery
  <2>2. k \in Keys /\ j \in Job /\ row[d] \in Row
    BY <2>1, KeyFacts DEF TypeOK
  <2>3. \A q \in Job : [job EXCEPT ![k] = {q}] \in [Keys -> SUBSET Job]
    BY <2>2 DEF TypeOK
  <2>4. [job EXCEPT ![k] = {}] \in [Keys -> SUBSET Job]
    BY <2>2 DEF TypeOK
  <2>5. \A st \in Statuses : Marked(d, st) \in [Deliveries -> Row]
    BY <2>2 DEF TypeOK, Marked, Row
  <2>6. Ran(r, d, w) \in [Replicas -> SUBSET Deliveries]
    BY DEF Ran, TypeOK
  <2> HIDE DEF k
  <2>7. CASE MarkDeliveryProcessing(r, d, w, j)
    <3>1. [j EXCEPT !.pc = "handling", !.next = NumTriggers] \in Job
      BY <2>2, JobUpdates
    <3> QED BY <2>3, <2>5, <2>6, <2>7, <3>1 DEF MarkDeliveryProcessing, Goes, k, TypeOK, receiver, Statuses
  <2>8. ASSUME NEW c \in BOOLEAN, MarkProcessingFails(r, d, w, j, c) PROVE TypeOK'
    BY <2>4, <2>5, <2>8 DEF MarkProcessingFails, Ends, k, TypeOK, receiver, Statuses
  <2>9. CASE HandleIgnores(r, d, w, j)
    <3>1. [j EXCEPT !.next = 0] \in Job
      BY <2>2, JobUpdates
    <3> QED BY <2>3, <2>9, <3>1 DEF HandleIgnores, Goes, k, TypeOK, receiver
  <2>10. CASE HandleBreaks(r, d, w, j)
    <3>1. [j EXCEPT !.next = 0, !.err = TRUE] \in Job
      BY <2>2, JobUpdates
    <3> QED BY <2>3, <2>10, <3>1 DEF HandleBreaks, Goes, k, TypeOK, receiver, hist
  <2>11. ASSUME NEW c \in BOOLEAN, NEW ok \in BOOLEAN, SubmitTask(r, d, w, j, c, ok) PROVE TypeOK'
    <3>1. j.next \in Triggers
      BY <2>2, <2>11 DEF SubmitTask, Job, Triggers
    <3>2. [j EXCEPT !.next = @ - 1, !.err = @ \/ SubmissionError(d, ok)] \in Job
      BY <2>2, <3>1, JobUpdates
    <3> QED BY <2>3, <2>11, <3>1, <3>2 DEF SubmitTask, Goes, k, TypeOK, receiver
  <2>12. CASE MarkDeliveryCompleted(r, d, w, j)
    BY <2>4, <2>5, <2>12 DEF MarkDeliveryCompleted, Ends, k, TypeOK, receiver, Statuses
  <2>13. CASE ReadAttempts(r, d, w, j)
    <3>1. [j EXCEPT !.pc = "failing", !.read = row[d].attempts] \in Job
      BY <2>2, JobUpdates DEF Row
    <3> QED BY <2>3, <2>13, <3>1 DEF ReadAttempts, Goes, k, TypeOK, receiver, hist
  <2>14. CASE MarkDeliveryFailed(r, d, w, j)
    <3>1. [status |-> FailedStatus(j.read + 1), attempts |-> j.read + 1, due |-> FALSE] \in Row
      BY <2>2 DEF Job, Row, FailedStatus, Statuses
    <3> QED BY <2>4, <2>14, <3>1 DEF MarkDeliveryFailed, Ends, k, TypeOK, receiver
  <2>15. CASE MarkFails(r, d, w, j)
    BY <2>4, <2>15 DEF MarkFails, Ends, k, TypeOK, receiver
  <2> QED BY <2>1, <2>7, <2>8, <2>9, <2>10, <2>11, <2>12, <2>13, <2>14, <2>15
<1> QED BY <1>1, <1>2, <1>3, <1>4, <1>5, <1>6, <1>7, <1>8 DEF Next

LEMMA TypeInit == Init => TypeOK
BY WebhookAssumption DEF Init, TypeOK, NoRow, Row, Statuses, Keys

\* Rows, memories and runs stay well formed whatever the receivers, goroutines
\* and workers of all replicas do (package webhook, webhook_deliveries.go).
THEOREM TypeCorrect == Spec => []TypeOK
BY TypeInit, TypeStep, PTL DEF Spec
-----------------------------------------------------------------------------
(***************************************************************************)
(* What a step of a run may touch.                                         *)
(***************************************************************************)

Later == {"completed", "failed", "dead_letter"}

\* A run changes itself and the row of its delivery; the outcome is written by
\* its last step.
LEMMA ProcessTouches ==
  ASSUME TypeOK, NEW r \in Replicas, NEW d \in Deliveries, NEW w \in Callers,
         ProcessDelivery(r, d, w)
  PROVE  /\ job[<<r, d, w>>] # {}
         /\ \A k \in Keys : k # <<r, d, w>> => job'[k] = job[k]
         /\ \A e \in Deliveries : e # d => row'[e] = row[e]
         /\ row'[d].status \in {row[d].status, "processing"} \cup Later
         /\ job'[<<r, d, w>>] # {} => row'[d].status \in {row[d].status, "processing"}
         /\ \A m, n \in job'[<<r, d, w>>] : m = n
<1> DEFINE k == <<r, d, w>>
<1>1. PICK j \in job[k] :
        \/ MarkDeliveryProcessing(r, d, w, j)
        \/ \E c \in BOOLEAN : MarkProcessingFails(r, d, w, j, c)
        \/ HandleIgnores(r, d, w, j) \/ HandleBreaks(r, d, w, j)
        \/ \E c, ok \in BOOLEAN : SubmitTask(r, d, w, j, c, ok)
        \/ MarkDeliveryCompleted(r, d, w, j) \/ ReadAttempts(r, d, w, j)
        \/ MarkDeliveryFailed(r, d, w, j) \/ MarkFails(r, d, w, j)
  BY DEF ProcessDelivery
<1>2. k \in Keys /\ row[d] \in Row
  BY KeyFacts DEF TypeOK
<1>3. ASSUME NEW q, job' = [job EXCEPT ![k] = q]
      PROVE  job'[k] = q /\ \A l \in Keys : l # k => job'[l] = job[l]
  BY <1>2, <1>3 DEF TypeOK
<1>4. ASSUME NEW st, row' = Marked(d, st)
      PROVE  row'[d].status = st /\ \A e \in Deliveries : e # d => row'[e] = row[e]
  BY <1>2, <1>4 DEF TypeOK, Marked, Row
<1> HIDE DEF k
<1>5. CASE MarkDeliveryProcessing(r, d, w, j)
  <2>1. PICK n : Goes(k, n) /\ row' = Marked(d, "processing")
    BY <1>5 DEF MarkDeliveryProcessing, k
  <2>2. job'[k] = {n} /\ \A l \in Keys : l # k => job'[l] = job[l]
    BY <1>3, <2>1 DEF Goes
  <2>3. row'[d].status = "processing" /\ \A e \in Deliveries : e # d => row'[e] = row[e]
    BY <1>4, <2>1
  <2> QED BY <1>1, <2>2, <2>3 DEF k
<1>6. ASSUME NEW c \in BOOLEAN, MarkProcessingFails(r, d, w, j, c)
      PROVE  /\ job'[k] = {} /\ \A l \in Keys : l # k => job'[l] = job[l]
             /\ row'[d].status \in {row[d].status, "processing"}
             /\ \A e \in Deliveries : e # d => row'[e] = row[e]
  BY <1>3, <1>4, <1>6 DEF MarkProcessingFails, Ends, k
<1>a. ASSUME NEW n, Goes(k, n), row' = row
      PROVE  /\ \A l \in Keys : l # k => job'[l] = job[l]
             /\ \A e \in Deliveries : e # d => row'[e] = row[e]
             /\ row'[d].status = row[d].status
             /\ \A p, q \in job'[k] : p = q
  <2>1. job'[k] = {n} /\ \A l \in Keys : l # k => job'[l] = job[l]
    BY <1>3, <1>a DEF Goes
  <2> QED BY <2>1, <1>a
<1>7. CASE HandleIgnores(r, d, w, j) \/ HandleBreaks(r, d, w, j) \/ ReadAttempts(r, d, w, j)
  <2>1. PICK n : Goes(k, n) /\ row' = row
    BY <1>7 DEF HandleIgnores, HandleBreaks, ReadAttempts, k
  <2> QED BY <1>1, <1>a, <2>1 DEF k
<1>8. CASE \E c, ok \in BOOLEAN : SubmitTask(r, d, w, j, c, ok)
  <2>1. PICK n : Goes(k, n) /\ row' = row
    BY <1>8 DEF SubmitTask, k
  <2> QED BY <1>1, <1>a, <2>1 DEF k
<1>9. CASE MarkDeliveryCompleted(r, d, w, j)
  BY <1>1, <1>3, <1>4, <1>9 DEF MarkDeliveryCompleted, Ends, k, Later
<1>10. CASE MarkDeliveryFailed(r, d, w, j)
  <2>1. /\ row'[d].status = FailedStatus(j.read + 1)
        /\ \A e \in Deliveries : e # d => row'[e] = row[e]
    BY <1>10 DEF MarkDeliveryFailed, TypeOK
  <2> QED BY <1>1, <1>3, <1>10, <2>1 DEF MarkDeliveryFailed, FailedStatus, Ends, k, Later
<1>11. CASE MarkFails(r, d, w, j)
  BY <1>1, <1>3, <1>11 DEF MarkFails, Ends, k
<1> QED BY <1>1, <1>5, <1>6, <1>7, <1>8, <1>9, <1>10, <1>11 DEF k

\* A run of the worker spends the freshness of its delivery when it starts, and
\* a recorded failure renews it on every replica.
LEMMA ProcessFresh ==
  ASSUME TypeOK, NEW r \in Replicas, NEW d \in Deliveries, NEW w \in Callers,
         ProcessDelivery(r, d, w)
  PROVE  /\ \A q \in Replicas, e \in Deliveries :
              e \in fresh[q] /\ e \notin fresh'[q] =>
                /\ q = r /\ e = d /\ w = "worker"
                /\ \A n \in job'[<<r, d, w>>] : n.pc # "new"
                /\ row'[d].status = "processing"
         /\ row'[d].status = "failed" =>
              row[d].status = "failed" \/ \A q \in Replicas : d \in fresh'[q]
         /\ (\E n \in job'[<<r, d, w>>] : n.pc = "new") => \E j \in job[<<r, d, w>>] : j.pc = "new"
<1> DEFINE k == <<r, d, w>>
<1>1. PICK j \in job[k] :
        \/ MarkDeliveryProcessing(r, d, w, j)
        \/ \E c \in BOOLEAN : MarkProcessingFails(r, d, w, j, c)
        \/ HandleIgnores(r, d, w, j) \/ HandleBreaks(r, d, w, j)
        \/ \E c, ok \in BOOLEAN : SubmitTask(r, d, w, j, c, ok)
        \/ MarkDeliveryCompleted(r, d, w, j) \/ ReadAttempts(r, d, w, j)
        \/ MarkDeliveryFailed(r, d, w, j) \/ MarkFails(r, d, w, j)
  BY DEF ProcessDelivery
<1>2. k \in Keys /\ row[d] \in Row /\ j \in Job
  BY <1>1, KeyFacts DEF TypeOK
<1>3. ASSUME NEW q, job' = [job EXCEPT ![k] = q] PROVE job'[k] = q
  BY <1>2, <1>3 DEF TypeOK
<1>4. ASSUME NEW st, row' = Marked(d, st) PROVE row'[d].status = st
  BY <1>2, <1>4 DEF TypeOK, Marked, Row
<1> HIDE DEF k
<1>5. CASE MarkDeliveryProcessing(r, d, w, j)
  <2>1. row'[d].status = "processing"
    BY <1>4, <1>5 DEF MarkDeliveryProcessing
  <2>2. job'[k] = {[j EXCEPT !.pc = "handling", !.next = NumTriggers]}
    BY <1>3, <1>5 DEF MarkDeliveryProcessing, Goes, k
  <2>3. \A n \in job'[k] : n.pc # "new"
    BY <1>2, <2>2 DEF Job
  <2>4. \A q \in Replicas, e \in Deliveries :
          e \in fresh[q] /\ e \notin fresh'[q] => q = r /\ e = d /\ w = "worker"
    BY <1>5 DEF MarkDeliveryProcessing, Ran, TypeOK
  <2> QED BY <2>1, <2>3, <2>4 DEF k
<1>6. CASE \E c \in BOOLEAN : MarkProcessingFails(r, d, w, j, c)
  BY <1>3, <1>4, <1>6 DEF MarkProcessingFails, Ends, k
<1>7. CASE HandleIgnores(r, d, w, j) \/ HandleBreaks(r, d, w, j) \/ ReadAttempts(r, d, w, j)
  <2>1. PICK n : job'[k] = {n} /\ n.pc \in {"handling", "failing"}
    <3>1. CASE HandleIgnores(r, d, w, j)
      <4>1. job'[k] = {[j EXCEPT !.next = 0]} /\ j.pc = "handling"
        BY <1>3, <3>1 DEF HandleIgnores, Goes, k
      <4>2. [j EXCEPT !.next = 0].pc = "handling"
        BY <1>2, <4>1 DEF Job
      <4> QED BY <4>1, <4>2
    <3>2. CASE HandleBreaks(r, d, w, j)
      <4>1. job'[k] = {[j EXCEPT !.next = 0, !.err = TRUE]} /\ j.pc = "handling"
        BY <1>3, <3>2 DEF HandleBreaks, Goes, k
      <4>2. [j EXCEPT !.next = 0, !.err = TRUE].pc = "handling"
        BY <1>2, <4>1 DEF Job
      <4> QED BY <4>1, <4>2
    <3>3. CASE ReadAttempts(r, d, w, j)
      <4>1. job'[k] = {[j EXCEPT !.pc = "failing", !.read = row[d].attempts]}
        BY <1>3, <3>3 DEF ReadAttempts, Goes, k
      <4>2. [j EXCEPT !.pc = "failing", !.read = row[d].attempts].pc = "failing"
        BY <1>2 DEF Job
      <4> QED BY <4>1, <4>2
    <3> QED BY <1>7, <3>1, <3>2, <3>3
  <2> QED BY <1>7, <2>1 DEF HandleIgnores, HandleBreaks, ReadAttempts, hist, k
<1>8. CASE \E c, ok \in BOOLEAN : SubmitTask(r, d, w, j, c, ok)
  <2>1. \A n \in job'[k] : n.pc = j.pc
    <3>1. PICK ok \in BOOLEAN :
            job'[k] = {[j EXCEPT !.next = @ - 1, !.err = @ \/ SubmissionError(d, ok)]}
      BY <1>3, <1>8 DEF SubmitTask, Goes, k
    <3> QED BY <1>2, <3>1 DEF Job
  <2> QED BY <1>1, <1>8, <2>1 DEF SubmitTask, k
<1>9. CASE MarkDeliveryCompleted(r, d, w, j)
  BY <1>3, <1>4, <1>9 DEF MarkDeliveryCompleted, Ends, k
<1>10. CASE MarkDeliveryFailed(r, d, w, j)
  <2>1. row'[d].status = FailedStatus(j.read + 1)
    BY <1>10 DEF MarkDeliveryFailed, TypeOK
  <2>2. /\ \A q \in Replicas, e \in Deliveries : e \in fresh[q] => e \in fresh'[q]
        /\ row'[d].status = "failed" => \A q \in Replicas : d \in fresh'[q]
    BY <1>10, <2>1 DEF MarkDeliveryFailed
  <2>3. job'[k] = {}
    BY <1>3, <1>10 DEF MarkDeliveryFailed, Ends, k
  <2> QED BY <2>2, <2>3 DEF k
<1>11. CASE MarkFails(r, d, w, j)
  BY <1>3, <1>11 DEF MarkFails, Ends, k
<1> QED BY <1>1, <1>5, <1>6, <1>7, <1>8, <1>9, <1>10, <1>11
-----------------------------------------------------------------------------
(***************************************************************************)
(* The first handling is exclusive.                                        *)
(***************************************************************************)

\* A delivery without a row has no runs, and while the goroutine of its request
\* is at work the row is received or processing, never failed.
FirstOpen ==
  /\ \A k \in Keys : job[k] # {} => row[k[2]].status # "none"
  /\ \A r \in Replicas, d \in Deliveries :
       job[<<r, d, "handler">>] # {} => row[d].status \in {"received", "processing"}

ExclusiveInv == TypeOK /\ FirstOpen /\ FirstHandlingExclusive

LEMMA ExclusiveInit == Init => FirstOpen /\ FirstHandlingExclusive
BY KeyParts, KeyFacts DEF Init, FirstOpen, FirstHandlingExclusive, Callers

LEMMA ExclusiveStep == ExclusiveInv /\ [Next]_vars => FirstOpen' /\ FirstHandlingExclusive'
<1> SUFFICES ASSUME ExclusiveInv, [Next]_vars PROVE FirstOpen' /\ FirstHandlingExclusive'
  OBVIOUS
<1> USE DEF ExclusiveInv
<1>0. ASSUME NEW r \in Replicas, NEW d \in Deliveries PROVE <<r, d, "handler">> \in Keys
  BY KeyFacts DEF Callers
\* Steps that add no run and leave the rows' statuses.
<1>1. ASSUME \A k \in Keys : job'[k] # {} => job[k] # {},
             \A d \in Deliveries : row'[d].status = row[d].status
      PROVE  FirstOpen' /\ FirstHandlingExclusive'
  BY <1>0, <1>1, KeyParts DEF FirstOpen, FirstHandlingExclusive
<1>2. CASE UNCHANGED vars
  BY <1>1, <1>2 DEF vars
<1>3. ASSUME NEW r \in Replicas, RetryFailedDeliveries(r)
      PROVE  FirstOpen' /\ FirstHandlingExclusive'
  <2>1. row' = row
    BY <1>3 DEF RetryFailedDeliveries
  <2>2. \A k \in Keys : \/ job'[k] = job[k]
                        \/ k[3] = "worker" /\ row[k[2]].status = "failed"
    BY <1>3 DEF RetryFailedDeliveries, Due
  <2>3. FirstOpen'
    BY <1>0, <2>1, <2>2, KeyParts DEF FirstOpen
  <2>4. ASSUME NEW q \in Replicas, NEW d \in Deliveries, job'[<<q, d, "handler">>] # {},
               NEW k \in Keys, k[2] = d, job'[k] # {}
        PROVE  k = <<q, d, "handler">>
    <3>1. job[<<q, d, "handler">>] # {}
      BY <1>0, <2>2, <2>4
    <3>2. row[d].status # "failed"
      BY <3>1 DEF FirstOpen
    <3>3. job[k] # {}
      BY <2>2, <2>4, <3>2
    <3> QED BY <2>4, <3>1, <3>3 DEF FirstHandlingExclusive
  <2> QED BY <2>3, <2>4 DEF FirstHandlingExclusive
<1>4. ASSUME NEW r \in Replicas, Crash(r) PROVE FirstOpen' /\ FirstHandlingExclusive'
  BY <1>1, <1>4 DEF Crash, TypeOK
<1>5. ASSUME NEW d \in Deliveries, BackoffElapses(d) PROVE FirstOpen' /\ FirstHandlingExclusive'
  BY <1>1, <1>5 DEF BackoffElapses, TypeOK, Row
<1>6. ASSUME NEW r \in Replicas, NEW d \in Deliveries, ServeHTTP(r, d) \/ Forget(r, d)
      PROVE  FirstOpen' /\ FirstHandlingExclusive'
  BY <1>1, <1>6 DEF ServeHTTP, Forget
<1>7. ASSUME NEW r \in Replicas, NEW d \in Deliveries, RecordDelivery(r, d)
      PROVE  FirstOpen' /\ FirstHandlingExclusive'
  <2>1. CASE row[d] # NoRow
    BY <1>1, <1>7, <2>1 DEF RecordDelivery
  <2>2. CASE row[d] = NoRow
    <3> DEFINE h == <<r, d, "handler">>
    <3>1. h \in Keys
      BY <1>0
    <3>2. \A k \in Keys : k[2] = d => job[k] = {}
      BY <2>2 DEF FirstOpen, NoRow
    <3>3. \A k \in Keys : k # h => job'[k] = job[k]
      BY <1>7, <2>2 DEF RecordDelivery, TypeOK
    <3>4. row'[d].status = "received" /\ \A e \in Deliveries : e # d => row'[e] = row[e]
      BY <1>7, <2>2 DEF RecordDelivery, TypeOK, Received, NoRow
    <3>5. h[2] = d
      OBVIOUS
    <3> HIDE DEF h
    <3>6. \A q \in Replicas, e \in Deliveries : e # d => <<q, e, "handler">> # h
      BY DEF h
    <3>7. \A q \in Replicas : <<q, d, "handler">> # h => job'[<<q, d, "handler">>] = {}
      <4> TAKE q \in Replicas
      <4>1. <<q, d, "handler">>[2] = d
        OBVIOUS
      <4> QED BY <1>0, <3>2, <3>3, <4>1
    <3>8. FirstOpen'
      <4>1. ASSUME NEW k \in Keys, job'[k] # {} PROVE row'[k[2]].status # "none"
        BY <3>3, <3>4, <3>5, <4>1, KeyParts DEF FirstOpen
      <4>2. ASSUME NEW q \in Replicas, NEW e \in Deliveries, job'[<<q, e, "handler">>] # {}
            PROVE  row'[e].status \in {"received", "processing"}
        BY <1>0, <3>3, <3>4, <3>6, <4>2 DEF FirstOpen
      <4> QED BY <4>1, <4>2 DEF FirstOpen
    <3>9. ASSUME NEW q \in Replicas, NEW e \in Deliveries, job'[<<q, e, "handler">>] # {},
                 NEW k \in Keys, k[2] = e, job'[k] # {}
          PROVE  k = <<q, e, "handler">>
      <4>1. CASE e = d
        <5>1. k = h
          BY <3>2, <3>3, <3>9, <4>1
        <5>2. <<q, e, "handler">> = h
          BY <3>7, <3>9, <4>1
        <5> QED BY <5>1, <5>2
      <4>2. CASE e # d
        <5>1. k # h /\ <<q, e, "handler">> # h
          BY <3>5, <3>6, <3>9, <4>2
        <5>2. job[k] # {} /\ job[<<q, e, "handler">>] # {}
          BY <1>0, <3>3, <3>9, <5>1
        <5> QED BY <3>9, <5>2 DEF FirstHandlingExclusive
      <4> QED BY <4>1, <4>2
    <3> QED BY <3>8, <3>9 DEF FirstHandlingExclusive
  <2> QED BY <2>1, <2>2
<1>8. ASSUME NEW r \in Replicas, NEW d \in Deliveries, NEW c \in BOOLEAN, RecordFails(r, d, c)
      PROVE  FirstOpen' /\ FirstHandlingExclusive'
  <2>1. job' = job /\ \A e \in Deliveries : row'[e] = row[e] \/ (row[e] = NoRow /\ row'[e].status = "received")
    BY <1>8 DEF RecordFails, TypeOK, Received, NoRow
  <2>2. \A e \in Deliveries : row[e] = NoRow => row[e].status = "none"
    BY DEF NoRow
  <2> QED BY <1>0, <2>1, <2>2, KeyParts DEF FirstOpen, FirstHandlingExclusive
<1>9. ASSUME NEW r \in Replicas, NEW d \in Deliveries, NEW w \in Callers, ProcessDelivery(r, d, w)
      PROVE  FirstOpen' /\ FirstHandlingExclusive'
  <2> DEFINE k == <<r, d, w>>
  <2>1. /\ k \in Keys /\ k[2] = d /\ job[k] # {}
        /\ \A l \in Keys : l # k => job'[l] = job[l]
        /\ \A e \in Deliveries : e # d => row'[e] = row[e]
        /\ row'[d].status \in {row[d].status, "processing"} \cup Later
        /\ job'[k] # {} => row'[d].status \in {row[d].status, "processing"}
    BY <1>9, ProcessTouches, KeyFacts
  <2>2. \A l \in Keys : job'[l] # {} => job[l] # {}
    BY <2>1
  <2>3. FirstHandlingExclusive'
    BY <1>0, <2>2 DEF FirstHandlingExclusive
  <2>4. ASSUME NEW l \in Keys, job'[l] # {} PROVE row'[l[2]].status # "none"
    BY <2>1, <2>2, <2>4, KeyParts DEF FirstOpen, Later
  <2> HIDE DEF k
  <2>5. ASSUME NEW q \in Replicas, NEW e \in Deliveries, job'[<<q, e, "handler">>] # {}
        PROVE  row'[e].status \in {"received", "processing"}
    <3>1. job[<<q, e, "handler">>] # {} /\ row[e].status \in {"received", "processing"}
      BY <1>0, <2>2, <2>5 DEF FirstOpen
    <3>2. CASE e # d
      BY <2>1, <3>1, <3>2
    <3>3. CASE e = d
      <4>1. k = <<q, e, "handler">>
        BY <2>1, <3>1, <3>3 DEF FirstHandlingExclusive
      <4> QED BY <2>1, <2>5, <3>1, <3>3, <4>1
    <3> QED BY <3>2, <3>3
  <2> QED BY <2>3, <2>4, <2>5 DEF FirstOpen
<1> QED BY <1>2, <1>3, <1>4, <1>5, <1>6, <1>7, <1>8, <1>9 DEF Next, Record

\* While the goroutine of the request handles a delivery, no other request, on
\* any replica, and no retry worker does (ServeHTTP, retryFailedDeliveries).
THEOREM FirstHandlingAlone == Spec => []FirstHandlingExclusive
<1>1. Init => ExclusiveInv
  BY TypeInit, ExclusiveInit DEF ExclusiveInv
<1>2. ExclusiveInv /\ [Next]_vars => ExclusiveInv'
  BY TypeStep, ExclusiveStep DEF ExclusiveInv
<1> QED BY <1>1, <1>2, PTL DEF Spec, ExclusiveInv
-----------------------------------------------------------------------------
(***************************************************************************)
(* One retry per failure and worker.                                       *)
(***************************************************************************)

\* A failed row is fresh for every worker, and so is a run that has not begun.
FreshInv ==
  /\ \A d \in Deliveries, q \in Replicas : row[d].status = "failed" => d \in fresh[q]
  /\ \A q \in Replicas, d \in Deliveries :
       (\E j \in job[<<q, d, "worker">>] : j.pc = "new") => d \in fresh[q]

LEMMA FreshInit == Init => FreshInv
<1> SUFFICES ASSUME Init PROVE FreshInv
  OBVIOUS
<1>1. \A d \in Deliveries : row[d].status = "none"
  BY DEF Init, NoRow
<1>2. \A q \in Replicas, d \in Deliveries : job[<<q, d, "worker">>] = {}
  BY KeyFacts DEF Init, Callers
<1> QED BY <1>1, <1>2 DEF FreshInv

LEMMA FreshStep == TypeOK /\ FreshInv /\ [Next]_vars => FreshInv'
<1> SUFFICES ASSUME TypeOK, FreshInv, [Next]_vars PROVE FreshInv'
  OBVIOUS
<1>0. ASSUME NEW q \in Replicas, NEW d \in Deliveries PROVE <<q, d, "worker">> \in Keys
  BY KeyFacts DEF Callers
\* Steps that add no run of a worker, fail no row and spend no freshness.
<1>1. ASSUME \A q \in Replicas, d \in Deliveries :
               job'[<<q, d, "worker">>] \in {{}, job[<<q, d, "worker">>]},
             \A d \in Deliveries : row'[d].status = "failed" => row[d].status = "failed",
             fresh' = fresh
      PROVE  FreshInv'
  BY <1>1 DEF FreshInv
<1>2. CASE UNCHANGED vars
  BY <1>1, <1>2 DEF vars, hist
<1>3. ASSUME NEW r \in Replicas, RetryFailedDeliveries(r) PROVE FreshInv'
  <2>1. row' = row /\ fresh' = fresh
    BY <1>3 DEF RetryFailedDeliveries, hist
  <2>2. \A q \in Replicas, d \in Deliveries :
          job'[<<q, d, "worker">>] = job[<<q, d, "worker">>] \/ row[d].status = "failed"
    BY <1>0, <1>3 DEF RetryFailedDeliveries, Due
  <2> QED BY <2>1, <2>2 DEF FreshInv
<1>4. ASSUME NEW r \in Replicas, Crash(r) PROVE FreshInv'
  <2>1. \A k \in Keys : job'[k] \in {{}, job[k]}
    BY <1>4 DEF Crash
  <2> QED BY <1>0, <1>1, <1>4, <2>1 DEF Crash
<1>5. ASSUME NEW d \in Deliveries, BackoffElapses(d) PROVE FreshInv'
  BY <1>1, <1>5 DEF BackoffElapses, TypeOK, Row, hist
<1>6. ASSUME NEW r \in Replicas, NEW d \in Deliveries, ServeHTTP(r, d) \/ Forget(r, d)
      PROVE  FreshInv'
  BY <1>1, <1>6 DEF ServeHTTP, Forget, hist
<1>7. ASSUME NEW r \in Replicas, NEW d \in Deliveries, RecordDelivery(r, d) PROVE FreshInv'
  <2>1. \A q \in Replicas, e \in Deliveries : job'[<<q, e, "worker">>] = job[<<q, e, "worker">>]
    BY <1>0, <1>7 DEF RecordDelivery, TypeOK
  <2>2. \A e \in Deliveries : row'[e].status = "failed" => row[e].status = "failed"
    BY <1>7 DEF RecordDelivery, TypeOK, Received, NoRow
  <2> QED BY <1>1, <1>7, <2>1, <2>2 DEF RecordDelivery, hist
<1>8. ASSUME NEW r \in Replicas, NEW d \in Deliveries, NEW c \in BOOLEAN, RecordFails(r, d, c)
      PROVE  FreshInv'
  <2>1. \A e \in Deliveries : row'[e].status = "failed" => row[e].status = "failed"
    BY <1>8 DEF RecordFails, TypeOK, Received, NoRow
  <2> QED BY <1>1, <1>8, <2>1 DEF RecordFails
<1>9. ASSUME NEW r \in Replicas, NEW d \in Deliveries, NEW w \in Callers, ProcessDelivery(r, d, w)
      PROVE  FreshInv'
  <2> DEFINE k == <<r, d, w>>
  <2>1. /\ \A l \in Keys : l # k => job'[l] = job[l]
        /\ \A e \in Deliveries : e # d => row'[e] = row[e]
    BY <1>9, ProcessTouches
  <2>2. /\ \A q \in Replicas, e \in Deliveries :
             e \in fresh[q] /\ e \notin fresh'[q] =>
               /\ q = r /\ e = d /\ w = "worker"
               /\ \A n \in job'[k] : n.pc # "new"
               /\ row'[d].status = "processing"
        /\ row'[d].status = "failed" =>
             row[d].status = "failed" \/ \A q \in Replicas : d \in fresh'[q]
        /\ (\E n \in job'[k] : n.pc = "new") => \E j \in job[k] : j.pc = "new"
    BY <1>9, ProcessFresh
  <2>3. ASSUME NEW e \in Deliveries, NEW q \in Replicas, row'[e].status = "failed"
        PROVE  e \in fresh'[q]
    BY <2>1, <2>2, <2>3 DEF FreshInv
  <2>4. ASSUME NEW q \in Replicas, NEW e \in Deliveries,
               \E n \in job'[<<q, e, "worker">>] : n.pc = "new"
        PROVE  e \in fresh'[q]
    <3>1. CASE <<q, e, "worker">> = k
      BY <2>2, <2>4, <3>1 DEF FreshInv
    <3>2. CASE <<q, e, "worker">> # k
      <4>1. e \in fresh[q]
        BY <1>0, <2>1, <2>4, <3>2 DEF FreshInv
      <4> QED BY <2>2, <3>2, <4>1
    <3> QED BY <3>1, <3>2
  <2> QED BY <2>3, <2>4 DEF FreshInv
<1> QED BY <1>2, <1>3, <1>4, <1>5, <1>6, <1>7, <1>8, <1>9 DEF Next, Record

\* Although all workers read the same rows without a lease and overwrite each
\* other's marks, each runs a delivery once per recorded failure
\* (retryFailedDeliveries, MarkDeliveryFailed).
THEOREM OneRetryPerFailure == Spec => RetriedOncePerFailure
<1> DEFINE Inv == TypeOK /\ FreshInv
<1>1. Init => Inv
  BY TypeInit, FreshInit
<1>2. Inv /\ [Next]_vars => Inv'
  BY TypeStep, FreshStep
<1>3. Inv => [\A r \in Replicas, d \in Deliveries :
                \A j \in job[<<r, d, "worker">>], n \in job'[<<r, d, "worker">>] :
                  j.pc = "new" /\ n.pc # "new" => d \in fresh[r]]_vars
  BY DEF FreshInv
<1> QED BY <1>1, <1>2, <1>3, PTL DEF Spec, RetriedOncePerFailure
-----------------------------------------------------------------------------
(***************************************************************************)
(* A completed delivery has been acted upon.                               *)
(***************************************************************************)

\* A run without an error has served the triggers it has passed.
Acted(d, j) ==
  (j.pc = "handling" /\ ~j.err) => \A n \in Triggers : n > j.next => n \in served[d]

ActedInv ==
  /\ \A k \in Keys : \A j \in job[k] : k[2] \notin Lenient => Acted(k[2], j)
  /\ CompletedActed

LEMMA ActedInit == Init => ActedInv
BY DEF Init, ActedInv, CompletedActed, NoRow

\* What a run adds to served, to its row and to itself.
LEMMA ProcessActs ==
  ASSUME TypeOK, ActedInv,
         NEW r \in Replicas, NEW d \in Deliveries, NEW w \in Callers, ProcessDelivery(r, d, w)
  PROVE  /\ \A e \in Deliveries : served[e] \subseteq served'[e]
         /\ d \notin Lenient =>
              /\ \A n \in job'[<<r, d, w>>] : Acted(d, n)'
              /\ row'[d].status = "completed" => Triggers \subseteq served'[d]
<1> DEFINE k == <<r, d, w>>
<1>1. PICK j \in job[k] :
        \/ MarkDeliveryProcessing(r, d, w, j)
        \/ \E c \in BOOLEAN : MarkProcessingFails(r, d, w, j, c)
        \/ HandleIgnores(r, d, w, j) \/ HandleBreaks(r, d, w, j)
        \/ \E c, ok \in BOOLEAN : SubmitTask(r, d, w, j, c, ok)
        \/ MarkDeliveryCompleted(r, d, w, j) \/ ReadAttempts(r, d, w, j)
        \/ MarkDeliveryFailed(r, d, w, j) \/ MarkFails(r, d, w, j)
  BY DEF ProcessDelivery
<1>2. k \in Keys /\ k[2] = d /\ row[d] \in Row /\ j \in Job /\ NumTriggers \in Nat
  BY <1>1, KeyFacts, WebhookAssumption DEF TypeOK
<1>3. d \notin Lenient =>
        Acted(d, j) /\ (row[d].status = "completed" => served[d] = Triggers)
  BY <1>1, <1>2 DEF ActedInv, CompletedActed
<1>4. ASSUME NEW q, job' = [job EXCEPT ![k] = q] PROVE job'[k] = q
  BY <1>2, <1>4 DEF TypeOK
<1>5. ASSUME NEW st, row' = Marked(d, st) PROVE row'[d].status = st
  BY <1>2, <1>5 DEF TypeOK, Marked, Row
<1>6. served \in [Deliveries -> SUBSET Triggers]
  BY DEF TypeOK
<1> HIDE DEF k
<1>7. CASE MarkDeliveryProcessing(r, d, w, j)
  <2>1. job'[k] = {[j EXCEPT !.pc = "handling", !.next = NumTriggers]}
    BY <1>4, <1>7 DEF MarkDeliveryProcessing, Goes, k
  <2>2. \A n \in job'[k] : n.next = NumTriggers
    BY <1>2, <2>1 DEF Job
  <2>3. \A n \in job'[k] : Acted(d, n)'
    BY <1>2, <2>2 DEF Acted, Triggers
  <2>4. row'[d].status = "processing" /\ served' = served
    BY <1>5, <1>7 DEF MarkDeliveryProcessing
  <2> QED BY <2>3, <2>4 DEF k
<1>8. CASE \E c \in BOOLEAN : MarkProcessingFails(r, d, w, j, c)
  <2>1. job'[k] = {} /\ served' = served /\ row'[d].status \in {row[d].status, "processing"}
    BY <1>4, <1>5, <1>8 DEF MarkProcessingFails, Ends, k
  <2> QED BY <1>3, <2>1 DEF k
<1>9. CASE HandleIgnores(r, d, w, j)
  <2>1. served' = [served EXCEPT ![d] = Triggers] /\ row' = row
    BY <1>9 DEF HandleIgnores
  <2> QED BY <1>3, <1>6, <2>1 DEF Acted
<1>10. CASE HandleBreaks(r, d, w, j)
  <2>1. job'[k] = {[j EXCEPT !.next = 0, !.err = TRUE]} /\ served' = served /\ row' = row
    BY <1>4, <1>10 DEF HandleBreaks, Goes, k, hist
  <2>2. \A n \in job'[k] : n.err
    BY <1>2, <2>1 DEF Job
  <2> QED BY <1>3, <2>1, <2>2 DEF Acted, k
<1>11. ASSUME NEW c \in BOOLEAN, NEW ok \in BOOLEAN, SubmitTask(r, d, w, j, c, ok)
       PROVE  /\ \A e \in Deliveries : served[e] \subseteq served'[e]
              /\ d \notin Lenient =>
                   /\ \A n \in job'[k] : Acted(d, n)'
                   /\ row'[d].status = "completed" => Triggers \subseteq served'[d]
  <2>1. /\ job'[k] = {[j EXCEPT !.next = @ - 1, !.err = @ \/ SubmissionError(d, ok)]}
        /\ served' = (IF c THEN [served EXCEPT ![d] = @ \cup {j.next}] ELSE served)
        /\ row' = row /\ (ok => c)
    BY <1>4, <1>11 DEF SubmitTask, Goes, k
  <2>2. \A e \in Deliveries : served[e] \subseteq served'[e]
    BY <1>6, <2>1
  <2>3. ASSUME d \notin Lenient, NEW n \in job'[k], n.pc = "handling", ~n.err
        PROVE  \A m \in Triggers : m > n.next => m \in served'[d]
    <3>1. n.pc = j.pc /\ n.next = j.next - 1
      BY <1>2, <2>1, <2>3 DEF Job
    <3>2. n.err = (j.err \/ SubmissionError(d, ok))
      BY <1>2, <2>1, <2>3, Zenon DEF Job
    <3>3. ~j.err /\ ok
      BY <2>3, <3>2 DEF SubmissionError
    <3>4. j.next \in served'[d]
      BY <1>6, <2>1, <3>3
    <3>5. \A m \in Triggers : m > j.next => m \in served[d]
      BY <1>3, <2>3, <3>1, <3>3 DEF Acted
    <3> QED BY <1>2, <2>2, <3>1, <3>4, <3>5 DEF Triggers, Job
  <2> QED BY <1>3, <2>1, <2>2, <2>3 DEF Acted
<1>12. CASE MarkDeliveryCompleted(r, d, w, j)
  <2>1. job'[k] = {} /\ served' = served
    BY <1>4, <1>12 DEF MarkDeliveryCompleted, Ends, k
  <2>2. d \notin Lenient => Triggers \subseteq served[d]
    BY <1>3, <1>12 DEF MarkDeliveryCompleted, Handled, Acted, Triggers
  <2> QED BY <2>1, <2>2 DEF k
<1>13. CASE ReadAttempts(r, d, w, j)
  <2>1. job'[k] = {[j EXCEPT !.pc = "failing", !.read = row[d].attempts]} /\ served' = served /\ row' = row
    BY <1>4, <1>13 DEF ReadAttempts, Goes, k, hist
  <2>2. \A n \in job'[k] : n.pc = "failing"
    BY <1>2, <2>1 DEF Job
  <2> QED BY <1>3, <2>1, <2>2 DEF Acted, k
<1>14. CASE MarkDeliveryFailed(r, d, w, j)
  <2>1. row'[d].status = FailedStatus(j.read + 1)
    BY <1>14 DEF MarkDeliveryFailed, TypeOK
  <2>2. job'[k] = {} /\ served' = served
    BY <1>4, <1>14 DEF MarkDeliveryFailed, Ends, k
  <2> QED BY <2>1, <2>2 DEF FailedStatus, k
<1>15. CASE MarkFails(r, d, w, j)
  <2>1. job'[k] = {} /\ served' = served /\ row' = row
    BY <1>4, <1>15 DEF MarkFails, Ends, k
  <2> QED BY <1>3, <2>1 DEF k
<1> QED BY <1>1, <1>7, <1>8, <1>9, <1>10, <1>11, <1>12, <1>13, <1>14, <1>15 DEF k

LEMMA ActedStep == TypeOK /\ ActedInv /\ [Next]_vars => ActedInv'
<1> SUFFICES ASSUME TypeOK, ActedInv, [Next]_vars PROVE ActedInv'
  OBVIOUS
\* Steps that add runs that have not begun at most, and complete no row.
<1>1. ASSUME \A k \in Keys : job'[k] \in {{}, {NewJob}, job[k]},
             \A d \in Deliveries : row'[d].status = "completed" => row[d].status = "completed",
             served' = served
      PROVE  ActedInv'
  <2>1. ASSUME NEW k \in Keys, NEW j \in job'[k], k[2] \notin Lenient PROVE Acted(k[2], j)'
    <3>1. NewJob.pc = "new"
      BY DEF NewJob
    <3> QED BY <1>1, <2>1, <3>1 DEF ActedInv, Acted
  <2> QED BY <1>1, <2>1 DEF ActedInv, CompletedActed
<1>2. CASE UNCHANGED vars
  BY <1>1, <1>2 DEF vars, hist
<1>3. ASSUME NEW r \in Replicas, RetryFailedDeliveries(r) PROVE ActedInv'
  <2>1. \A k \in Keys : job'[k] \in {{NewJob}, job[k]}
    BY <1>3 DEF RetryFailedDeliveries
  <2> QED BY <1>1, <1>3, <2>1 DEF RetryFailedDeliveries, hist
<1>4. ASSUME NEW r \in Replicas, Crash(r) PROVE ActedInv'
  <2>1. \A k \in Keys : job'[k] \in {{}, job[k]}
    BY <1>4 DEF Crash
  <2> QED BY <1>1, <1>4, <2>1 DEF Crash
<1>5. ASSUME NEW d \in Deliveries, BackoffElapses(d) PROVE ActedInv'
  BY <1>1, <1>5 DEF BackoffElapses, TypeOK, Row, hist
<1>6. ASSUME NEW r \in Replicas, NEW d \in Deliveries, ServeHTTP(r, d) \/ Forget(r, d)
      PROVE  ActedInv'
  BY <1>1, <1>6 DEF ServeHTTP, Forget, hist
<1>7. ASSUME NEW r \in Replicas, NEW d \in Deliveries, RecordDelivery(r, d) PROVE ActedInv'
  <2>1. \A k \in Keys : job'[k] \in {{NewJob}, job[k]}
    BY <1>7 DEF RecordDelivery, TypeOK
  <2>2. \A e \in Deliveries : row'[e].status = "completed" => row[e].status = "completed"
    BY <1>7 DEF RecordDelivery, TypeOK, Received, NoRow
  <2> QED BY <1>1, <1>7, <2>1, <2>2 DEF RecordDelivery, hist
<1>8. ASSUME NEW r \in Replicas, NEW d \in Deliveries, NEW c \in BOOLEAN, RecordFails(r, d, c)
      PROVE  ActedInv'
  <2>1. \A e \in Deliveries : row'[e].status = "completed" => row[e].status = "completed"
    BY <1>8 DEF RecordFails, TypeOK, Received, NoRow
  <2> QED BY <1>1, <1>8, <2>1 DEF RecordFails
<1>9. ASSUME NEW r \in Replicas, NEW d \in Deliveries, NEW w \in Callers, ProcessDelivery(r, d, w)
      PROVE  ActedInv'
  <2> DEFINE k == <<r, d, w>>
  <2>1. /\ \A l \in Keys : l # k => job'[l] = job[l]
        /\ \A e \in Deliveries : e # d => row'[e] = row[e]
    BY <1>9, ProcessTouches
  <2>2. /\ \A e \in Deliveries : served[e] \subseteq served'[e]
        /\ d \notin Lenient =>
             /\ \A n \in job'[k] : Acted(d, n)'
             /\ row'[d].status = "completed" => Triggers \subseteq served'[d]
    BY <1>9, ProcessActs
  <2>3. served' \in [Deliveries -> SUBSET Triggers]
    BY TypeStep DEF TypeOK
  <2>4. ASSUME NEW l \in Keys, NEW n \in job'[l], l[2] \notin Lenient PROVE Acted(l[2], n)'
    <3>1. CASE l = k
      BY <2>2, <2>4, <3>1
    <3>2. CASE l # k
      <4>1. n \in job[l] /\ Acted(l[2], n) /\ l[2] \in Deliveries
        BY <2>1, <2>4, <3>2, KeyParts DEF ActedInv
      <4> QED BY <2>2, <4>1 DEF Acted
    <3> QED BY <3>1, <3>2
  <2>5. ASSUME NEW e \in Deliveries \ Lenient, row'[e].status = "completed"
        PROVE  served'[e] = Triggers
    <3>1. CASE e = d
      BY <2>2, <2>3, <2>5, <3>1
    <3>2. CASE e # d
      BY <2>1, <2>2, <2>3, <2>5, <3>2 DEF ActedInv, CompletedActed
    <3> QED BY <3>1, <3>2
  <2> QED BY <2>4, <2>5 DEF ActedInv, CompletedActed
<1> QED BY <1>2, <1>3, <1>4, <1>5, <1>6, <1>7, <1>8, <1>9 DEF Next, Record

\* A completed delivery has a task for every trigger, whichever of several
\* overlapping runs submitted it and whichever wrote last (ProcessDelivery,
\* MarkDeliveryCompleted).
THEOREM CompletionActed == Spec => []CompletedActed
<1> DEFINE Inv == TypeOK /\ ActedInv
<1>1. Init => Inv
  BY TypeInit, ActedInit
<1>2. Inv /\ [Next]_vars => Inv'
  BY TypeStep, ActedStep
<1>3. Inv => CompletedActed
  BY DEF ActedInv
<1> QED BY <1>1, <1>2, <1>3, PTL DEF Spec
-----------------------------------------------------------------------------
(***************************************************************************)
(* An unfinished delivery has a run.                                       *)
(***************************************************************************)

\* How a run may leave its row unfinished: it goes on, or it is cut off.
LEMMA ProcessHandles ==
  ASSUME TypeOK, NEW r \in Replicas, NEW d \in Deliveries, NEW w \in Callers,
         ProcessDelivery(r, d, w)
  PROVE  /\ faulty \subseteq faulty'
         /\ faulty' \subseteq faulty \cup {d}
         /\ \/ d \in faulty'
            \/ row'[d].status \in Later
            \/ row'[d].status = "processing" /\ \E n \in job'[<<r, d, w>>] : n.pc # "new"
            \/ row'[d] = row[d] /\ \E j \in job[<<r, d, w>>], n \in job'[<<r, d, w>>] :
                                      n.pc = j.pc \/ (j.pc = "handling" /\ n.pc = "failing")
            \/ row'[d] = row[d] /\ w = "worker" /\ \E j \in job[<<r, d, w>>] : j.pc = "new"
<1> DEFINE k == <<r, d, w>>
<1>1. PICK j \in job[k] :
        \/ MarkDeliveryProcessing(r, d, w, j)
        \/ \E c \in BOOLEAN : MarkProcessingFails(r, d, w, j, c)
        \/ HandleIgnores(r, d, w, j) \/ HandleBreaks(r, d, w, j)
        \/ \E c, ok \in BOOLEAN : SubmitTask(r, d, w, j, c, ok)
        \/ MarkDeliveryCompleted(r, d, w, j) \/ ReadAttempts(r, d, w, j)
        \/ MarkDeliveryFailed(r, d, w, j) \/ MarkFails(r, d, w, j)
  BY DEF ProcessDelivery
<1>2. k \in Keys /\ row[d] \in Row /\ j \in Job
  BY <1>1, KeyFacts DEF TypeOK
<1>3. ASSUME NEW q, job' = [job EXCEPT ![k] = q] PROVE job'[k] = q
  BY <1>2, <1>3 DEF TypeOK
<1>4. ASSUME NEW st, row' = Marked(d, st) PROVE row'[d].status = st
  BY <1>2, <1>4 DEF TypeOK, Marked, Row
<1> HIDE DEF k
<1>5. CASE MarkDeliveryProcessing(r, d, w, j)
  <2>1. row'[d].status = "processing" /\ faulty' = faulty
    BY <1>4, <1>5 DEF MarkDeliveryProcessing
  <2>2. job'[k] = {[j EXCEPT !.pc = "handling", !.next = NumTriggers]}
    BY <1>3, <1>5 DEF MarkDeliveryProcessing, Goes, k
  <2>3. [j EXCEPT !.pc = "handling", !.next = NumTriggers].pc # "new"
    BY <1>2 DEF Job
  <2> QED BY <2>1, <2>2, <2>3 DEF k
<1>6. CASE \E c \in BOOLEAN : MarkProcessingFails(r, d, w, j, c)
  <2>1. PICK c \in BOOLEAN : MarkProcessingFails(r, d, w, j, c)
    BY <1>6
  <2>2. faulty' = (IF c \/ w = "handler" THEN faulty \cup {d} ELSE faulty) /\ j.pc = "new"
    BY <2>1 DEF MarkProcessingFails
  <2>3. CASE c \/ w = "handler"
    BY <2>2, <2>3
  <2>4. CASE ~c /\ w = "worker"
    BY <1>1, <2>1, <2>2, <2>4 DEF MarkProcessingFails, k
  <2> QED BY <2>3, <2>4 DEF Callers
<1>7. CASE HandleIgnores(r, d, w, j) \/ HandleBreaks(r, d, w, j) \/ ReadAttempts(r, d, w, j)
  <2>1. row' = row /\ faulty' = faulty
    BY <1>7 DEF HandleIgnores, HandleBreaks, ReadAttempts, hist
  <2>2. \E n \in job'[k] : n.pc = j.pc \/ (j.pc = "handling" /\ n.pc = "failing")
    <3>1. CASE HandleIgnores(r, d, w, j)
      <4>1. job'[k] = {[j EXCEPT !.next = 0]}
        BY <1>3, <3>1 DEF HandleIgnores, Goes, k
      <4>2. [j EXCEPT !.next = 0].pc = j.pc
        BY <1>2 DEF Job
      <4> QED BY <4>1, <4>2
    <3>2. CASE HandleBreaks(r, d, w, j)
      <4>1. job'[k] = {[j EXCEPT !.next = 0, !.err = TRUE]}
        BY <1>3, <3>2 DEF HandleBreaks, Goes, k
      <4>2. [j EXCEPT !.next = 0, !.err = TRUE].pc = j.pc
        BY <1>2 DEF Job
      <4> QED BY <4>1, <4>2
    <3>3. CASE ReadAttempts(r, d, w, j)
      <4>1. job'[k] = {[j EXCEPT !.pc = "failing", !.read = row[d].attempts]} /\ j.pc = "handling"
        BY <1>3, <3>3 DEF ReadAttempts, Handled, Goes, k
      <4>2. [j EXCEPT !.pc = "failing", !.read = row[d].attempts].pc = "failing"
        BY <1>2 DEF Job
      <4> QED BY <4>1, <4>2
    <3> QED BY <1>7, <3>1, <3>2, <3>3
  <2> QED BY <1>1, <2>1, <2>2 DEF k
<1>8. CASE \E c, ok \in BOOLEAN : SubmitTask(r, d, w, j, c, ok)
  <2>1. PICK ok \in BOOLEAN :
          job'[k] = {[j EXCEPT !.next = @ - 1, !.err = @ \/ SubmissionError(d, ok)]}
    BY <1>3, <1>8 DEF SubmitTask, Goes, k
  <2>2. [j EXCEPT !.next = @ - 1, !.err = @ \/ SubmissionError(d, ok)].pc = j.pc
    BY <1>2 DEF Job
  <2>3. row' = row /\ faulty' = faulty
    BY <1>8 DEF SubmitTask
  <2> QED BY <1>1, <2>1, <2>2, <2>3 DEF k
<1>9. CASE MarkDeliveryCompleted(r, d, w, j)
  BY <1>4, <1>9 DEF MarkDeliveryCompleted, Later
<1>10. CASE MarkDeliveryFailed(r, d, w, j)
  <2>1. row'[d].status = FailedStatus(j.read + 1) /\ faulty' = faulty
    BY <1>10 DEF MarkDeliveryFailed, TypeOK
  <2> QED BY <2>1 DEF FailedStatus, Later
<1>11. CASE MarkFails(r, d, w, j)
  BY <1>11 DEF MarkFails
<1> QED BY <1>1, <1>5, <1>6, <1>7, <1>8, <1>9, <1>10, <1>11

\* There is one run at a key.
Single == \A k \in Keys : \A m, n \in job[k] : m = n

UnfinishedInv == ExclusiveInv /\ Single /\ UnfinishedIsHandled

LEMMA UnfinishedInit == Init => Single /\ UnfinishedIsHandled
<1> SUFFICES ASSUME Init PROVE Single /\ UnfinishedIsHandled
  OBVIOUS
<1>1. \A d \in Deliveries : row[d].status = "none"
  BY DEF Init, NoRow
<1>2. Single
  BY DEF Init, Single
<1> QED BY <1>1, <1>2 DEF UnfinishedIsHandled

LEMMA UnfinishedStep == UnfinishedInv /\ [Next]_vars => Single' /\ UnfinishedIsHandled'
<1> SUFFICES ASSUME UnfinishedInv, [Next]_vars PROVE Single' /\ UnfinishedIsHandled'
  OBVIOUS
<1> USE DEF UnfinishedInv, ExclusiveInv
<1>0. ASSUME NEW r \in Replicas, NEW d \in Deliveries PROVE <<r, d, "handler">> \in Keys
  BY KeyFacts DEF Callers
\* Steps that leave the status of rows and only add runs.
<1>1. ASSUME \A k \in Keys : job[k] = {} \/ job'[k] = job[k],
             \A k \in Keys : job'[k] \in {{NewJob}, job[k]},
             \A d \in Deliveries \ faulty' : row'[d].status = row[d].status,
             faulty \subseteq faulty'
      PROVE  Single' /\ UnfinishedIsHandled'
  <2>1. Single'
    BY <1>1 DEF Single
  <2>2. ASSUME NEW d \in Deliveries \ faulty', row'[d].status = "received"
        PROVE  \E r \in Replicas : \E j \in job'[<<r, d, "handler">>] : j.pc = "new"
    <3>1. PICK r \in Replicas : \E j \in job[<<r, d, "handler">>] : j.pc = "new"
      BY <1>1, <2>2 DEF UnfinishedIsHandled
    <3>2. job'[<<r, d, "handler">>] = job[<<r, d, "handler">>]
      BY <1>0, <1>1, <3>1
    <3> QED BY <3>1, <3>2
  <2>3. ASSUME NEW d \in Deliveries \ faulty', row'[d].status = "processing"
        PROVE  \E k \in Keys : k[2] = d /\ \E j \in job'[k] : j.pc # "new"
    <3>1. PICK k \in Keys : k[2] = d /\ \E j \in job[k] : j.pc # "new"
      BY <1>1, <2>3 DEF UnfinishedIsHandled
    <3>2. job'[k] = job[k]
      BY <1>1, <3>1
    <3> QED BY <3>1, <3>2
  <2> QED BY <2>1, <2>2, <2>3 DEF UnfinishedIsHandled
<1>2. CASE UNCHANGED vars
  BY <1>1, <1>2 DEF vars, hist
<1>3. ASSUME NEW r \in Replicas, RetryFailedDeliveries(r) PROVE Single' /\ UnfinishedIsHandled'
  <2>1. \A k \in Keys : job'[k] \in {{NewJob}, job[k]}
    BY <1>3 DEF RetryFailedDeliveries
  <2>2. \A k \in Keys : job[k] = {} \/ job'[k] = job[k]
    <3> TAKE k \in Keys
    <3>1. CASE k[1] = r /\ k[3] = "worker"
      <4>1. k[2] \in Deliveries /\ k = <<r, k[2], "worker">>
        BY <3>1, KeyParts
      <4> QED BY <1>3, <4>1 DEF RetryFailedDeliveries
    <3>2. CASE ~(k[1] = r /\ k[3] = "worker")
      BY <1>3, <3>2 DEF RetryFailedDeliveries
    <3> QED BY <3>1, <3>2
  <2> QED BY <1>1, <1>3, <2>1, <2>2 DEF RetryFailedDeliveries, hist
<1>4. ASSUME NEW r \in Replicas, Crash(r) PROVE Single' /\ UnfinishedIsHandled'
  <2>1. /\ \A k \in Keys : job'[k] = (IF k[1] = r THEN {} ELSE job[k])
        /\ row' = row /\ faulty' = faulty \cup CutOff(r)
    BY <1>4 DEF Crash
  <2>2. Single'
    BY <2>1 DEF Single
  <2>3. ASSUME NEW d \in Deliveries \ faulty', row'[d].status = "received"
        PROVE  \E q \in Replicas : \E j \in job'[<<q, d, "handler">>] : j.pc = "new"
    <3>1. PICK q \in Replicas : \E j \in job[<<q, d, "handler">>] : j.pc = "new"
      BY <2>1, <2>3 DEF UnfinishedIsHandled
    <3>2. q # r
      BY <2>1, <2>3, <3>1 DEF CutOff
    <3>3. job'[<<q, d, "handler">>] = job[<<q, d, "handler">>]
      BY <1>0, <2>1, <3>2
    <3> QED BY <3>1, <3>3
  <2>4. ASSUME NEW d \in Deliveries \ faulty', row'[d].status = "processing"
        PROVE  \E k \in Keys : k[2] = d /\ \E j \in job'[k] : j.pc # "new"
    <3>1. PICK k \in Keys : k[2] = d /\ \E j \in job[k] : j.pc # "new"
      BY <2>1, <2>4 DEF UnfinishedIsHandled
    <3>2. k[1] # r
      <4> SUFFICES ASSUME k[1] = r PROVE FALSE
        OBVIOUS
      <4>1. k = <<r, d, k[3]>> /\ k[3] \in {"handler", "worker"}
        BY <3>1, KeyParts DEF Callers
      <4>2. d \in CutOff(r)
        BY <3>1, <4>1 DEF CutOff
      <4> QED BY <2>1, <2>4, <4>2
    <3> QED BY <2>1, <3>1, <3>2
  <2> QED BY <2>2, <2>3, <2>4 DEF UnfinishedIsHandled
<1>5. ASSUME NEW d \in Deliveries, BackoffElapses(d) PROVE Single' /\ UnfinishedIsHandled'
  <2>1. \A e \in Deliveries : row'[e].status = row[e].status
    BY <1>5 DEF BackoffElapses, TypeOK, Row
  <2> QED BY <1>1, <1>5, <2>1 DEF BackoffElapses, hist
<1>6. ASSUME NEW r \in Replicas, NEW d \in Deliveries, ServeHTTP(r, d) \/ Forget(r, d)
      PROVE  Single' /\ UnfinishedIsHandled'
  BY <1>1, <1>6 DEF ServeHTTP, Forget, hist
<1>7. ASSUME NEW r \in Replicas, NEW d \in Deliveries, RecordDelivery(r, d)
      PROVE  Single' /\ UnfinishedIsHandled'
  <2>1. CASE row[d] # NoRow
    BY <1>1, <1>7, <2>1 DEF RecordDelivery, hist
  <2>2. CASE row[d] = NoRow
    <3> DEFINE h == <<r, d, "handler">>
    <3>1. h \in Keys /\ h[2] = d
      BY <1>0
    <3>2. job'[h] = {NewJob} /\ \A k \in Keys : k # h => job'[k] = job[k]
      BY <1>7, <2>2, <3>1 DEF RecordDelivery, TypeOK
    <3>3. /\ row'[d].status = "received" /\ faulty' = faulty
          /\ \A e \in Deliveries : e # d => row'[e] = row[e]
      BY <1>7, <2>2 DEF RecordDelivery, TypeOK, Received, NoRow, hist
    <3>4. NewJob.pc = "new"
      BY DEF NewJob
    <3> HIDE DEF h
    <3>5. Single'
      BY <3>1, <3>2 DEF Single
    <3>6. ASSUME NEW e \in Deliveries \ faulty', row'[e].status = "received"
          PROVE  \E q \in Replicas : \E j \in job'[<<q, e, "handler">>] : j.pc = "new"
      <4>1. CASE e = d
        BY <3>2, <3>4, <4>1 DEF h
      <4>2. CASE e # d
        <5>1. PICK q \in Replicas : \E j \in job[<<q, e, "handler">>] : j.pc = "new"
          BY <3>3, <3>6, <4>2 DEF UnfinishedIsHandled
        <5>2. <<q, e, "handler">> # h
          BY <4>2 DEF h
        <5> QED BY <1>0, <3>2, <5>1, <5>2
      <4> QED BY <4>1, <4>2
    <3>7. ASSUME NEW e \in Deliveries \ faulty', row'[e].status = "processing"
          PROVE  \E k \in Keys : k[2] = e /\ \E j \in job'[k] : j.pc # "new"
      <4>1. e # d
        BY <3>3, <3>7
      <4>2. PICK k \in Keys : k[2] = e /\ \E j \in job[k] : j.pc # "new"
        BY <3>3, <3>7, <4>1 DEF UnfinishedIsHandled
      <4> QED BY <3>1, <3>2, <4>1, <4>2
    <3> QED BY <3>5, <3>6, <3>7 DEF UnfinishedIsHandled
  <2> QED BY <2>1, <2>2
<1>8. ASSUME NEW r \in Replicas, NEW d \in Deliveries, NEW c \in BOOLEAN, RecordFails(r, d, c)
      PROVE  Single' /\ UnfinishedIsHandled'
  <2>1. \A e \in Deliveries \ faulty' : row'[e].status = row[e].status
    BY <1>8 DEF RecordFails, TypeOK
  <2> QED BY <1>1, <1>8, <2>1 DEF RecordFails
<1>9. ASSUME NEW r \in Replicas, NEW d \in Deliveries, NEW w \in Callers, ProcessDelivery(r, d, w)
      PROVE  Single' /\ UnfinishedIsHandled'
  <2> DEFINE k == <<r, d, w>>
  <2>1. /\ k \in Keys /\ k[2] = d /\ job[k] # {}
        /\ \A l \in Keys : l # k => job'[l] = job[l]
        /\ \A e \in Deliveries : e # d => row'[e] = row[e]
        /\ \A m, n \in job'[k] : m = n
    BY <1>9, ProcessTouches, KeyFacts
  <2>2. /\ faulty \subseteq faulty'
        /\ \/ d \in faulty'
           \/ row'[d].status \in Later
           \/ row'[d].status = "processing" /\ \E n \in job'[k] : n.pc # "new"
           \/ row'[d] = row[d] /\ \E j \in job[k], n \in job'[k] :
                                     n.pc = j.pc \/ (j.pc = "handling" /\ n.pc = "failing")
           \/ row'[d] = row[d] /\ w = "worker" /\ \E j \in job[k] : j.pc = "new"
    BY <1>9, ProcessHandles
  <2>3. Single'
    BY <2>1 DEF Single
  <2>31. w = "worker" => \A q \in Replicas : k # <<q, d, "handler">>
    OBVIOUS
  <2>32. \A q \in Replicas, e \in Deliveries : e # d => <<q, e, "handler">> # k
    OBVIOUS
  <2> HIDE DEF k
  <2>4. ASSUME NEW e \in Deliveries \ faulty', row'[e].status = "received"
        PROVE  \E q \in Replicas : \E j \in job'[<<q, e, "handler">>] : j.pc = "new"
    <3>1. CASE e # d
      <4>1. PICK q \in Replicas : \E j \in job[<<q, e, "handler">>] : j.pc = "new"
        BY <2>1, <2>2, <2>4, <3>1 DEF UnfinishedIsHandled
      <4> QED BY <1>0, <2>1, <2>32, <3>1, <4>1
    <3>2. CASE e = d
      <4>1. row[d].status = "received" /\ d \notin faulty /\ row'[d] = row[d]
        BY <2>2, <2>4, <3>2 DEF Later
      <4>2. PICK q \in Replicas : \E j \in job[<<q, d, "handler">>] : j.pc = "new"
        BY <4>1 DEF UnfinishedIsHandled
      <4>3. k = <<q, d, "handler">>
        BY <2>1, <4>2 DEF FirstHandlingExclusive
      <4>4. \A j \in job[k] : j.pc = "new"
        BY <2>1, <4>2, <4>3 DEF Single
      <4>5. \E n \in job'[k] : n.pc = "new"
        BY <2>2, <2>4, <2>31, <3>2, <4>1, <4>3, <4>4 DEF Later
      <4> QED BY <3>2, <4>3, <4>5
    <3> QED BY <3>1, <3>2
  <2>5. ASSUME NEW e \in Deliveries \ faulty', row'[e].status = "processing"
        PROVE  \E l \in Keys : l[2] = e /\ \E j \in job'[l] : j.pc # "new"
    <3>1. CASE e # d
      <4>1. PICK l \in Keys : l[2] = e /\ \E j \in job[l] : j.pc # "new"
        BY <2>1, <2>2, <2>5, <3>1 DEF UnfinishedIsHandled
      <4> QED BY <2>1, <3>1, <4>1
    <3>2. CASE e = d /\ \E n \in job'[k] : n.pc # "new"
      BY <2>1, <3>2
    <3>3. CASE e = d /\ ~\E n \in job'[k] : n.pc # "new"
      <4>1. row[d].status = "processing" /\ d \notin faulty /\ row'[d] = row[d]
        BY <2>2, <2>5, <3>3 DEF Later
      <4>2. PICK l \in Keys : l[2] = d /\ \E j \in job[l] : j.pc # "new"
        BY <4>1 DEF UnfinishedIsHandled
      <4>3. \E j \in job[k] : j.pc = "new"
        BY <2>2, <2>5, <3>3, <4>1 DEF Later
      <4>4. l # k
        BY <2>1, <4>2, <4>3 DEF Single
      <4> QED BY <2>1, <3>3, <4>2, <4>4
    <3> QED BY <3>1, <3>2, <3>3
  <2> QED BY <2>3, <2>4, <2>5 DEF UnfinishedIsHandled
<1> QED BY <1>2, <1>3, <1>4, <1>5, <1>6, <1>7, <1>8, <1>9 DEF Next, Record

\* A received or processing row, which no worker reads, has a run that will mark
\* it, unless a store error or a crash took it away: overlapping runs that
\* overwrite each other's marks leave no delivery behind (ProcessDelivery).
THEOREM UnfinishedHasRun == Spec => []UnfinishedIsHandled
<1>1. Init => UnfinishedInv
  BY TypeInit, ExclusiveInit, UnfinishedInit DEF UnfinishedInv, ExclusiveInv
<1>2. UnfinishedInv /\ [Next]_vars => UnfinishedInv'
  BY TypeStep, ExclusiveStep, UnfinishedStep DEF UnfinishedInv, ExclusiveInv
<1> QED BY <1>1, <1>2, PTL DEF Spec, UnfinishedInv
=============================================================================
