--------------------------- MODULE GitHubWebhooks ---------------------------
(***************************************************************************)
(* GitHub webhooks: the receiver with its in-memory and its stored         *)
(* duplicate check, the goroutine that handles a new delivery after the    *)
(* answer, and the worker of every replica that handles failed deliveries  *)
(* again.  The rows of webhook_deliveries carry no lease and the marks     *)
(* test no status.                                                         *)
(***************************************************************************)
EXTENDS Naturals, FiniteSets

CONSTANTS
  Deliveries,  \* X-GitHub-Delivery ids
  Lenient,     \* the issues events: a failed submission is only logged
  NumTriggers, \* how many triggers match a delivery
  Replicas,    \* the server processes
  MaxAttempts, \* max_attempts, 3
  MaxSends,    \* bound: times GitHub sends a delivery
  MaxCrashes   \* bound: crashes

ASSUME WebhookAssumption ==
  /\ Lenient \subseteq Deliveries /\ IsFiniteSet(Replicas)
  /\ NumTriggers \in Nat /\ MaxAttempts \in Nat \ {0} /\ MaxSends \in Nat /\ MaxCrashes \in Nat

VARIABLES
  row,      \* row[d]: the row of webhook_deliveries
  recent,   \* recent[r]: RecentDeliveries of r
  asked,    \* asked[r]: requests of r between Seen and RecordDelivery
  job,      \* job[k]: a run of ProcessDelivery, if any
  faulty,   \* history: a store error or a crash cut the delivery off
  served,   \* history: served[d]: the triggers with a task, or not meant by the event
  fresh,    \* history: fresh[r]: marked failed since the worker of r ran them last
  sends, crashes \* counters of the bounds

hist == <<faulty, served, fresh>>
receiver == <<recent, asked, sends>>
vars == <<row, receiver, job, hist, crashes>>

\* The goroutine of the request and the retry worker.
Callers == {"handler", "worker"}
Keys == Replicas \X Deliveries \X Callers

Statuses == {"none", "received", "processing", "completed", "failed", "dead_letter"}
Final == {"completed", "dead_letter"}
Row == [status : Statuses, attempts : Nat, due : BOOLEAN]
NoRow == [status |-> "none", attempts |-> 0, due |-> FALSE]

\* new: to be marked; handling: in the loop over the triggers; failing: between
\* the SELECT and the UPDATE of MarkDeliveryFailed.  next is the trigger to
\* submit, 0 after the last one.
Triggers == 1 .. NumTriggers
Job == [pc : {"new", "handling", "failing"}, next : 0 .. NumTriggers,
        err : BOOLEAN, read : Nat]
NewJob == [pc |-> "new", next |-> 0, err |-> FALSE, read |-> 0]

TypeOK ==
  /\ row \in [Deliveries -> Row]
  /\ recent \in [Replicas -> SUBSET Deliveries] /\ asked \in [Replicas -> SUBSET Deliveries]
  /\ job \in [Keys -> SUBSET Job]
  /\ faulty \subseteq Deliveries
  /\ served \in [Deliveries -> SUBSET Triggers] /\ fresh \in [Replicas -> SUBSET Deliveries]
  /\ sends \in [Deliveries -> 0 .. MaxSends] /\ crashes \in 0 .. MaxCrashes

Init ==
  /\ row = [d \in Deliveries |-> NoRow]
  /\ recent = [r \in Replicas |-> {}] /\ asked = [r \in Replicas |-> {}]
  /\ job = [k \in Keys |-> {}]
  /\ faulty = {}
  /\ served = [d \in Deliveries |-> {}] /\ fresh = [r \in Replicas |-> {}]
  /\ sends = [d \in Deliveries |-> 0] /\ crashes = 0
-----------------------------------------------------------------------------
(***************************************************************************)
(* The receiver.                                                           *)
(***************************************************************************)

\* GitHub, or an operator of the repository, sends the delivery to r; Seen
\* remembers it before anything is stored.
ServeHTTP(r, d) ==
  /\ sends[d] < MaxSends
  /\ sends' = [sends EXCEPT ![d] = @ + 1]
  /\ recent' = [recent EXCEPT ![r] = @ \cup {d}]
  /\ asked' = IF d \in recent[r] THEN asked ELSE [asked EXCEPT ![r] = @ \cup {d}]
  /\ UNCHANGED <<row, job, hist, crashes>>

\* The entry expires, or is evicted; a request is shorter than the ttl.  (Not
\* seen any more after the last delivery.)
Forget(r, d) ==
  /\ sends[d] < MaxSends /\ d \in recent[r] \ asked[r]
  /\ recent' = [recent EXCEPT ![r] = @ \ {d}]
  /\ UNCHANGED <<row, asked, sends, job, hist, crashes>>

Received == [NoRow EXCEPT !.status = "received"]

\* The insert, the answer and the goroutine; a duplicate key is answered only.
RecordDelivery(r, d) ==
  /\ d \in asked[r]
  /\ asked' = [asked EXCEPT ![r] = @ \ {d}]
  /\ IF row[d] = NoRow
     THEN /\ row' = [row EXCEPT ![d] = Received]
          /\ job' = [job EXCEPT ![<<r, d, "handler">>] = {NewJob}]
     ELSE UNCHANGED <<row, job>>
  /\ UNCHANGED <<recent, sends, hist, crashes>>

\* The insert returns an error, and may have been committed: 503.
RecordFails(r, d, committed) ==
  /\ d \in asked[r] /\ (committed => row[d] = NoRow)
  /\ asked' = [asked EXCEPT ![r] = @ \ {d}]
  /\ row' = IF committed THEN [row EXCEPT ![d] = Received] ELSE row
  /\ faulty' = faulty \cup {d}
  /\ UNCHANGED <<recent, sends, job, served, fresh, crashes>>

Record(r, d) == RecordDelivery(r, d) \/ \E committed \in BOOLEAN : RecordFails(r, d, committed)
-----------------------------------------------------------------------------
(***************************************************************************)
(* ProcessDelivery, by the goroutine of the request or by the worker.      *)
(***************************************************************************)

\* An UPDATE by delivery_id, whatever the status is; next_attempt_at counts only
\* while it is failed.
Marked(d, status) == [row EXCEPT ![d].status = status, ![d].due = FALSE]

Goes(k, j) == job' = [job EXCEPT ![k] = {j}]
Ends(k) == job' = [job EXCEPT ![k] = {}]

\* The worker handles the rows it has read one after the other.
WorkerFree(r, w) ==
  w = "worker" => \A e \in Deliveries : \A j \in job[<<r, e, w>>] : j.pc = "new"

Ran(r, d, w) == IF w = "worker" THEN [fresh EXCEPT ![r] = @ \ {d}] ELSE fresh

\* Mutant of MarkDeliveryProcessing: the status is left as it is.
MarkDeliveryProcessingSilent(r, d, w, j) ==
  /\ j.pc = "new" /\ WorkerFree(r, w)
  /\ Goes(<<r, d, w>>, [j EXCEPT !.pc = "handling", !.next = NumTriggers])
  /\ fresh' = Ran(r, d, w)
  /\ UNCHANGED <<row, receiver, faulty, served, crashes>>

MarkDeliveryProcessing(r, d, w, j) ==
  /\ j.pc = "new" /\ WorkerFree(r, w)
  /\ row' = Marked(d, "processing")
  /\ Goes(<<r, d, w>>, [j EXCEPT !.pc = "handling", !.next = NumTriggers])
  /\ fresh' = Ran(r, d, w)
  /\ UNCHANGED <<receiver, faulty, served, crashes>>

\* An error, perhaps after the commit, ends the run: what is not failed is not
\* handled again.
MarkProcessingFails(r, d, w, j, committed) ==
  /\ j.pc = "new" /\ WorkerFree(r, w)
  /\ row' = IF committed THEN Marked(d, "processing") ELSE row
  /\ Ends(<<r, d, w>>)
  /\ faulty' = IF committed \/ w = "handler" THEN faulty \cup {d} ELSE faulty
  /\ UNCHANGED <<receiver, served, fresh, crashes>>

\* An early return without an error: another action, no access, no trigger.
HandleIgnores(r, d, w, j) ==
  /\ j.pc = "handling" /\ j.next # 0 /\ j.next = NumTriggers
  /\ Goes(<<r, d, w>>, [j EXCEPT !.next = 0])
  /\ served' = [served EXCEPT ![d] = Triggers]
  /\ UNCHANGED <<row, receiver, faulty, fresh, crashes>>

\* Mutant of HandleBreaks: a panic ends the goroutine.
HandleBreaksUnmarked(r, d, w, j) ==
  /\ j.pc = "handling" /\ j.next # 0
  /\ Ends(<<r, d, w>>)
  /\ UNCHANGED <<row, receiver, hist, crashes>>

\* An early return with an error, or a panic that runDelivery turns into one.
HandleBreaks(r, d, w, j) ==
  /\ j.pc = "handling" /\ j.next # 0
  /\ Goes(<<r, d, w>>, [j EXCEPT !.next = 0, !.err = TRUE])
  /\ UNCHANGED <<row, receiver, hist, crashes>>

\* handleIssues logs the error of a submission, the other handlers return it.
SubmissionError(d, ok) == ~ok /\ d \notin Lenient

\* Mutant of SubmitTask: the error of the last submission counts.
SubmitTaskLastErr(r, d, w, j, committed, ok) ==
  /\ j.next # 0 /\ (ok => committed)
  /\ Goes(<<r, d, w>>, [j EXCEPT !.next = @ - 1, !.err = SubmissionError(d, ok)])
  /\ served' = IF committed THEN [served EXCEPT ![d] = @ \cup {j.next}] ELSE served
  /\ UNCHANGED <<row, receiver, faulty, fresh, crashes>>

\* One submission; an error, perhaps after the commit, does not end the loop.
SubmitTask(r, d, w, j, committed, ok) ==
  /\ j.next # 0 /\ (ok => committed)
  /\ Goes(<<r, d, w>>, [j EXCEPT !.next = @ - 1, !.err = @ \/ SubmissionError(d, ok)])
  /\ served' = IF committed THEN [served EXCEPT ![d] = @ \cup {j.next}] ELSE served
  /\ UNCHANGED <<row, receiver, faulty, fresh, crashes>>

Handled(j) == j.pc = "handling" /\ j.next = 0

MarkDeliveryCompleted(r, d, w, j) ==
  /\ Handled(j) /\ ~j.err
  /\ row' = Marked(d, "completed")
  /\ Ends(<<r, d, w>>)
  /\ UNCHANGED <<receiver, faulty, served, fresh, crashes>>

\* The SELECT of MarkDeliveryFailed.
ReadAttempts(r, d, w, j) ==
  /\ Handled(j) /\ j.err
  /\ Goes(<<r, d, w>>, [j EXCEPT !.pc = "failing", !.read = row[d].attempts])
  /\ UNCHANGED <<row, receiver, hist, crashes>>

FailedStatus(n) == IF n >= MaxAttempts THEN "dead_letter" ELSE "failed"

\* The UPDATE of MarkDeliveryFailed, from the attempts it has read.
MarkDeliveryFailed(r, d, w, j) ==
  LET status == FailedStatus(j.read + 1) IN
  /\ j.pc = "failing"
  /\ row' = [row EXCEPT ![d] = [status |-> status, attempts |-> j.read + 1, due |-> FALSE]]
  /\ fresh' = IF status = "failed" THEN [q \in Replicas |-> fresh[q] \cup {d}] ELSE fresh
  /\ Ends(<<r, d, w>>)
  /\ UNCHANGED <<receiver, faulty, served, crashes>>

\* A mark of the outcome returns an error.
MarkFails(r, d, w, j) ==
  /\ Handled(j) \/ j.pc = "failing"
  /\ Ends(<<r, d, w>>)
  /\ faulty' = faulty \cup {d}
  /\ UNCHANGED <<row, receiver, served, fresh, crashes>>

ProcessDelivery(r, d, w) ==
  \E j \in job[<<r, d, w>>] :
    \/ MarkDeliveryProcessing(r, d, w, j)
    \/ \E committed \in BOOLEAN : MarkProcessingFails(r, d, w, j, committed)
    \/ HandleIgnores(r, d, w, j) \/ HandleBreaks(r, d, w, j)
    \/ \E committed, ok \in BOOLEAN : SubmitTask(r, d, w, j, committed, ok)
    \/ MarkDeliveryCompleted(r, d, w, j) \/ ReadAttempts(r, d, w, j)
    \/ MarkDeliveryFailed(r, d, w, j) \/ MarkFails(r, d, w, j)
-----------------------------------------------------------------------------
(***************************************************************************)
(* The retry worker, time and crashes.                                     *)
(***************************************************************************)

\* Mutant of Due: what a crash left behind is handled again too.
DueOrUnfinished(d) ==
  row[d].status \in {"received", "processing"} \/ (row[d].status = "failed" /\ row[d].due)

\* Mutant of Due: only the first failure is retried.
DueOnce(d) == row[d].status = "failed" /\ row[d].due /\ row[d].attempts = 1

Due(d) == row[d].status = "failed" /\ row[d].due

\* The worker of r reads the due rows (its LIMIT is above the bound here) and
\* neither locks nor marks them.
RetryFailedDeliveries(r) ==
  /\ \A d \in Deliveries : job[<<r, d, "worker">>] = {}
  /\ \E d \in Deliveries : Due(d)
  /\ job' = [k \in Keys |-> IF k[1] = r /\ k[3] = "worker" /\ Due(k[2]) THEN {NewJob} ELSE job[k]]
  /\ UNCHANGED <<row, receiver, hist, crashes>>

BackoffElapses(d) ==
  /\ row[d].status = "failed" /\ ~row[d].due
  /\ row' = [row EXCEPT ![d].due = TRUE]
  /\ UNCHANGED <<receiver, job, hist, crashes>>

\* A run cut off after its mark, or the only one a new row gets, is lost; so is
\* a request whose repetition was already answered.
CutOff(r) ==
  {d \in Deliveries : \/ d \in asked[r] \/ job[<<r, d, "handler">>] # {}
                      \/ \E j \in job[<<r, d, "worker">>] : j.pc # "new"}

\* The process ends, by a crash or by a shutdown that has waited long enough.
Crash(r) ==
  /\ crashes < MaxCrashes
  /\ crashes' = crashes + 1
  /\ faulty' = faulty \cup CutOff(r)
  /\ job' = [k \in Keys |-> IF k[1] = r THEN {} ELSE job[k]]
  /\ recent' = [recent EXCEPT ![r] = {}] /\ asked' = [asked EXCEPT ![r] = {}]
  /\ UNCHANGED <<row, sends, served, fresh>>
-----------------------------------------------------------------------------
Next ==
  \/ \E r \in Replicas : RetryFailedDeliveries(r) \/ Crash(r)
  \/ \E d \in Deliveries : BackoffElapses(d)
  \/ \E r \in Replicas, d \in Deliveries :
       \/ ServeHTTP(r, d) \/ Forget(r, d) \/ Record(r, d)
       \/ \E w \in Callers : ProcessDelivery(r, d, w)

Spec == Init /\ [][Next]_vars

\* Every call of a request or a run has a deadline, the worker ticks every 10 s,
\* and a query or mark that is tried again and again succeeds some time.
FairSpec ==
  /\ Spec
  /\ \A d \in Deliveries : WF_vars(BackoffElapses(d))
  /\ \A r \in Replicas :
       /\ WF_vars(RetryFailedDeliveries(r))
       /\ \A d \in Deliveries :
            /\ WF_vars(Record(r, d))
            /\ WF_vars(\E w \in Callers : ProcessDelivery(r, d, w))
            /\ SF_vars(\E j \in job[<<r, d, "worker">>] : MarkDeliveryProcessing(r, d, "worker", j))
-----------------------------------------------------------------------------
(***************************************************************************)
(* Properties.                                                             *)
(***************************************************************************)

\* While the goroutine of the request handles a delivery, nobody else does:
\* no second request, on any replica, and no retry worker.
FirstHandlingExclusive ==
  \A r \in Replicas, d \in Deliveries :
    job[<<r, d, "handler">>] # {} =>
      \A k \in Keys : k[2] = d /\ job[k] # {} => k = <<r, d, "handler">>

\* The worker only reads failed rows, so a received or processing row needs a
\* run that will mark it, although runs overlap and overwrite each other's
\* marks, unless a store error or a crash took that run away.
UnfinishedIsHandled ==
  \A d \in Deliveries \ faulty :
    /\ row[d].status = "received" =>
         \E r \in Replicas : \E j \in job[<<r, d, "handler">>] : j.pc = "new"
    /\ row[d].status = "processing" =>
         \E k \in Keys : k[2] = d /\ \E j \in job[k] : j.pc # "new"

\* Although the workers of all replicas read the same rows and overwrite each
\* other's marks, each of them runs a delivery once per recorded failure.
RetriedOncePerFailure ==
  [][\A r \in Replicas, d \in Deliveries :
       \A j \in job[<<r, d, "worker">>], n \in job'[<<r, d, "worker">>] :
         j.pc = "new" /\ n.pc # "new" => d \in fresh[r]]_vars

\* A completed delivery has a task for every trigger, whichever of the runs
\* submitted it, unless the event was ignored or its errors are only logged.
CompletedActed ==
  \A d \in Deliveries \ Lenient :
    row[d].status = "completed" => served[d] = Triggers

\* A delivery that was sent is completed or dead-lettered in the end and stays
\* so, although workers may set its row back, unless a store error or a crash
\* cut it off.
EverySentSettles ==
  \A d \in Deliveries :
    sends[d] > 0 ~> [](row[d].status \in Final \/ d \in faulty)
=============================================================================
