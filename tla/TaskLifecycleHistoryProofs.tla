-------------------- MODULE TaskLifecycleHistoryProofs ---------------------
(***************************************************************************)
(* Proofs about what the rows of TaskLifecycle remember: what has ended    *)
(* stays ended, a prompt carries the outcome of its own attempt, and a     *)
(* resumed session executes where its workspace is; that in a task in      *)
(* order only the last row matters to any statement; and that the rows are *)
(* an implementation of TaskQueue.                                         *)
(***************************************************************************)
EXTENDS TaskLifecycleProofs

(***************************************************************************)
(* The invariants, stated for one aggregate.                               *)
(***************************************************************************)

\* Nothing was ever queued for a task that does not exist.
Blank(T) == Opened(T) /\ (T.status = "absent" => Len(T.work) = 0 /\ Len(T.sess) = 0)

\* PromptFollowsAttempt for one row.
FollowedRow(w) ==
  /\ w.status = "pending" => w.prompt = "pending"
  /\ w.status = "running" => w.prompt = "running"
  /\ w.status = "succeeded" => w.prompt = "completed"
  /\ w.status \in {"failed", "lost", "runner_unavailable"} => w.prompt = "failed"

Followed(T) == \A i \in DOMAIN T.work : FollowedRow(T.work[i])

\* Work queued for a resumed session is bound to the runner the session is
\* pinned to; ResumeKeepsRunner is what a claim makes of it.
PinnedRow(w, X) ==
  X.status = "resuming" =>
    /\ w.status = "pending" => w.req = X.pinned /\ X.pinned # NoRunner
    /\ w.status = "running" => w.runner = X.pinned

Pinned(T) == \A i \in DOMAIN T.work : PinnedRow(T.work[i], T.sess[T.work[i].sess])

\* What a resume request read of a session stays true: a session is pinned
\* when it leaves `running', which it never enters again, and a later report
\* pins it to the same runner.
Honoured(T, s, r) ==
  s \in DOMAIN T.sess /\ T.sess[s].status # "running" /\ T.sess[s].pinned = r

Blanks == \A t \in Tasks : Blank(task[t])
History == \A t \in Tasks : InOrder(task[t]) => Followed(task[t]) /\ Pinned(task[t])
Requests == \A q \in resumes : InOrder(task[q[1]]) => Honoured(task[q[1]], q[2], q[3])

(***************************************************************************)
(* Statements that end work, at most.                                      *)
(***************************************************************************)

\* Most statements only move the statuses of live rows and open sessions to
\* final ones; runners, sessions and pins stay what they are.
QuietRow(v, w) ==
  /\ w.sess = v.sess /\ w.runner = v.runner /\ w.req = v.req
  /\ w.status = v.status \/ (v.status \in Active /\ w.status \notin Active)

QuietSession(X, Y) ==
  /\ Y.pinned = X.pinned
  /\ Y.status = X.status \/ (X.status \notin ClosedSession /\ Y.status \in ClosedSession)

Quiet(T, U) ==
  /\ U.status \in {T.status} \cup Terminal
  /\ Len(U.work) = Len(T.work) /\ DOMAIN U.work = DOMAIN T.work
  /\ Len(U.sess) = Len(T.sess) /\ DOMAIN U.sess = DOMAIN T.sess
  /\ \A i \in DOMAIN T.work : QuietRow(T.work[i], U.work[i])
  /\ \A s \in DOMAIN T.sess : QuietSession(T.sess[s], U.sess[s])

\* And most of them leave the prompts to a later statement: none of the
\* statuses they write promises anything of the prompt.
Unanswered == {"timeout", "isolation_unavailable", "cancelled"}

HushedRow(v, w) ==
  w.prompt = v.prompt /\ (w.status = v.status \/ w.status \in Unanswered)

Hushed(T, U) ==
  /\ DOMAIN U.work = DOMAIN T.work
  /\ \A i \in DOMAIN T.work : HushedRow(T.work[i], U.work[i])

\* What a finished row or session keeps; no row ever changes its session.
KeptRow(v, w) ==
  w.sess = v.sess /\ (v.status \notin Active => w.status = v.status /\ w.runner = v.runner)

KeptSession(X, Y) == X.status \in ClosedSession => Y.status = X.status

Kept(T, U) ==
  /\ DOMAIN T.work \subseteq DOMAIN U.work /\ DOMAIN T.sess \subseteq DOMAIN U.sess
  /\ \A i \in DOMAIN T.work : KeptRow(T.work[i], U.work[i])
  /\ \A s \in DOMAIN T.sess : KeptSession(T.sess[s], U.sess[s])

\* A finished task is reopened with one new row; a task never disappears.
Reopens(T, U) ==
  /\ T.status \in Terminal /\ U.status \notin Terminal =>
       U.status = "pending" /\ Len(U.work) = Len(T.work) + 1
  /\ Blank(T) => Blank(U)

Ended(T, U) == Kept(T, U) /\ Reopens(T, U)

\* What resume requests rely on.
RememberedSession(X, Y) == X.status # "running" => Y.status # "running" /\ Y.pinned = X.pinned

Remembered(T, U) ==
  /\ DOMAIN T.sess \subseteq DOMAIN U.sess
  /\ \A s \in DOMAIN T.sess : RememberedSession(T.sess[s], U.sess[s])

LEMMA QuietTransitive ==
  ASSUME NEW T, NEW U, NEW V, Quiet(T, U), Quiet(U, V)
  PROVE  Quiet(T, V)
<1>1. \A i \in DOMAIN T.work : QuietRow(T.work[i], V.work[i])
  BY DEF Quiet, QuietRow
<1>2. \A s \in DOMAIN T.sess : QuietSession(T.sess[s], V.sess[s])
  BY DEF Quiet, QuietSession
<1> QED BY <1>1, <1>2 DEF Quiet

LEMMA HushedTransitive ==
  ASSUME NEW T, NEW U, NEW V, Hushed(T, U), Hushed(U, V)
  PROVE  Hushed(T, V)
BY DEF Hushed, HushedRow

LEMMA KeptTransitive ==
  ASSUME NEW T, NEW U, NEW V, Kept(T, U), Kept(U, V)
  PROVE  Kept(T, V)
<1>1. \A i \in DOMAIN T.work : KeptRow(T.work[i], V.work[i])
  BY DEF Kept, KeptRow
<1>2. \A s \in DOMAIN T.sess : KeptSession(T.sess[s], V.sess[s])
  BY DEF Kept, KeptSession
<1> QED BY <1>1, <1>2 DEF Kept

LEMMA RememberedTransitive ==
  ASSUME NEW T, NEW U, NEW V, Remembered(T, U), Remembered(U, V)
  PROVE  Remembered(T, V)
<1>1. \A s \in DOMAIN T.sess : RememberedSession(T.sess[s], V.sess[s])
  BY DEF Remembered, RememberedSession
<1> QED BY <1>1 DEF Remembered

\* So a task that is in order was in order before, and statements that end work
\* leave it in order.
LEMMA KeptOrder ==
  ASSUME NEW T, NEW U, Kept(T, U), InOrder(U)
  PROVE  InOrder(T)
BY DEF Kept, KeptRow, InOrder

LEMMA QuietOrder ==
  ASSUME NEW T, NEW U, Quiet(T, U), InOrder(T)
  PROVE  InOrder(U)
BY DEF Quiet, QuietRow, InOrder

LEMMA QuietKeeps ==
  ASSUME NEW T, NEW U, RowsOK(T), Quiet(T, U)
  PROVE  /\ Ended(T, U)
         /\ Remembered(T, U)
         /\ Pinned(T) => Pinned(U)
<1>1. Kept(T, U)
  BY DEF Quiet, QuietRow, QuietSession, Kept, KeptRow, KeptSession
<1>2. Reopens(T, U)
  BY DEF Quiet, Reopens, Blank, Opened, Terminal
<1>3. Remembered(T, U)
  BY DEF Quiet, QuietSession, Remembered, RememberedSession, ClosedSession
<1>4. ASSUME Pinned(T) PROVE Pinned(U)
  <2> SUFFICES ASSUME NEW i \in DOMAIN T.work
               PROVE  PinnedRow(U.work[i], U.sess[U.work[i].sess])
    BY DEF Quiet, Pinned
  <2>1. T.work[i].sess \in DOMAIN T.sess
    BY DEF RowsOK
  <2>2. /\ QuietRow(T.work[i], U.work[i])
        /\ QuietSession(T.sess[T.work[i].sess], U.sess[T.work[i].sess])
        /\ PinnedRow(T.work[i], T.sess[T.work[i].sess])
    BY <2>1, <1>4 DEF Quiet, Pinned
  <2> QED BY <2>2 DEF QuietRow, QuietSession, PinnedRow, ClosedSession, Active
<1> QED BY <1>1, <1>2, <1>3, <1>4 DEF Ended

LEMMA HushedKeeps ==
  ASSUME NEW T, NEW U, Hushed(T, U), Followed(T)
  PROVE  Followed(U)
BY DEF Hushed, HushedRow, Followed, FollowedRow, Unanswered

(***************************************************************************)
(* The UPDATE statements.                                                  *)
(***************************************************************************)

\* A statement that writes no session row.
LEMMA SameSessionsQuiet ==
  ASSUME NEW T, NEW U, RowsOK(T), U.sess = T.sess
  PROVE  /\ Len(U.sess) = Len(T.sess) /\ DOMAIN U.sess = DOMAIN T.sess
         /\ \A s \in DOMAIN T.sess : QuietSession(T.sess[s], U.sess[s])
BY DEF QuietSession

LEMMA MoveAttemptsQuiet ==
  ASSUME NEW T, RowsOK(T), NEW I, NEW st \in AttemptStatus \ Active,
         \A i \in I : i \in DOMAIN T.work /\ T.work[i].status \in Active
  PROVE  LET U == MoveAttempts(T, I, st) IN
         /\ RowsOK(U) /\ Quiet(T, U) /\ U.status = T.status /\ U.sess = T.sess
         /\ st \in Unanswered => Hushed(T, U)
         /\ \A i \in DOMAIN T.work : /\ U.work[i].prompt = T.work[i].prompt
                                     /\ U.work[i].status = IF i \in I THEN st ELSE T.work[i].status
<1> DEFINE U == MoveAttempts(T, I, st)
<1>1. /\ RowsOK(U) /\ U = [T EXCEPT !.work = U.work]
      /\ DOMAIN U.work = DOMAIN T.work /\ Len(U.work) = Len(T.work)
      /\ \A i \in DOMAIN T.work :
           U.work[i] = IF i \in I THEN [T.work[i] EXCEPT !.status = st] ELSE T.work[i]
  BY MoveAttemptsRows
<1>2. \A i \in DOMAIN T.work : T.work[i] \in WorkRow
  BY Shape
<1> HIDE DEF U
<1>3. U.sess = T.sess /\ U.status = T.status
  BY <1>1 DEF RowsOK, TaskRow
<1>4. \A i \in DOMAIN T.work :
        /\ U.work[i].sess = T.work[i].sess /\ U.work[i].runner = T.work[i].runner
        /\ U.work[i].req = T.work[i].req /\ U.work[i].prompt = T.work[i].prompt
        /\ U.work[i].status = IF i \in I THEN st ELSE T.work[i].status
  BY <1>1, <1>2 DEF WorkRow
<1>5. Quiet(T, U)
  <2>1. \A i \in DOMAIN T.work : QuietRow(T.work[i], U.work[i])
    BY <1>4 DEF QuietRow
  <2> QED BY <2>1, <1>1, <1>3, SameSessionsQuiet DEF Quiet
<1>6. st \in Unanswered => Hushed(T, U)
  BY <1>1, <1>4 DEF Hushed, HushedRow
<1> QED BY <1>1, <1>3, <1>4, <1>5, <1>6 DEF U

LEMMA MovePromptsQuiet ==
  ASSUME NEW T, RowsOK(T), NEW I, NEW st \in PromptStatus
  PROVE  LET U == MovePrompts(T, I, st) IN
         /\ RowsOK(U) /\ Quiet(T, U) /\ U.status = T.status /\ U.sess = T.sess
         /\ \A i \in DOMAIN T.work : /\ U.work[i].status = T.work[i].status
                                     /\ U.work[i].prompt = IF i \in I THEN st ELSE T.work[i].prompt
<1> DEFINE U == MovePrompts(T, I, st)
<1>1. /\ RowsOK(U) /\ U = [T EXCEPT !.work = U.work]
      /\ DOMAIN U.work = DOMAIN T.work /\ Len(U.work) = Len(T.work)
      /\ \A i \in DOMAIN T.work :
           U.work[i] = IF i \in I THEN [T.work[i] EXCEPT !.prompt = st] ELSE T.work[i]
  BY MovePromptsRows
<1>2. \A i \in DOMAIN T.work : T.work[i] \in WorkRow
  BY Shape
<1> HIDE DEF U
<1>3. U.sess = T.sess /\ U.status = T.status
  BY <1>1 DEF RowsOK, TaskRow
<1>4. \A i \in DOMAIN T.work :
        /\ U.work[i].sess = T.work[i].sess /\ U.work[i].runner = T.work[i].runner
        /\ U.work[i].req = T.work[i].req /\ U.work[i].status = T.work[i].status
        /\ U.work[i].prompt = IF i \in I THEN st ELSE T.work[i].prompt
  BY <1>1, <1>2 DEF WorkRow
<1>5. Quiet(T, U)
  <2>1. \A i \in DOMAIN T.work : QuietRow(T.work[i], U.work[i])
    BY <1>4 DEF QuietRow
  <2> QED BY <2>1, <1>1, <1>3, SameSessionsQuiet DEF Quiet
<1> QED BY <1>1, <1>3, <1>4, <1>5 DEF U

\* Open sessions are closed.
LEMMA MoveSessionsQuiet ==
  ASSUME NEW T, RowsOK(T), NEW S, NEW st \in ClosedSession,
         \A s \in S : s \in DOMAIN T.sess /\ T.sess[s].status \notin ClosedSession
  PROVE  LET U == MoveSessions(T, S, st) IN
         /\ RowsOK(U) /\ Quiet(T, U) /\ Hushed(T, U) /\ U.status = T.status /\ U.work = T.work
<1> DEFINE U == MoveSessions(T, S, st)
<1>1. /\ RowsOK(U) /\ U = [T EXCEPT !.sess = U.sess]
      /\ DOMAIN U.sess = DOMAIN T.sess /\ Len(U.sess) = Len(T.sess)
      /\ \A s \in DOMAIN T.sess :
           U.sess[s] = IF s \in S THEN [T.sess[s] EXCEPT !.status = st] ELSE T.sess[s]
  BY MoveSessionsRows
<1>2. \A s \in DOMAIN T.sess : T.sess[s] \in SessionRow
  BY Shape
<1> HIDE DEF U
<1>3. U.work = T.work /\ U.status = T.status
  BY <1>1 DEF RowsOK, TaskRow
<1>4. \A s \in DOMAIN T.sess : /\ U.sess[s].pinned = T.sess[s].pinned
                               /\ U.sess[s].status = IF s \in S THEN st ELSE T.sess[s].status
  BY <1>1, <1>2 DEF SessionRow
<1>5. Quiet(T, U)
  <2>1. \A s \in DOMAIN T.sess : QuietSession(T.sess[s], U.sess[s])
    BY <1>4 DEF QuietSession
  <2> QED BY <2>1, <1>1, <1>3 DEF Quiet, QuietRow
<1>6. Hushed(T, U)
  BY <1>3 DEF Hushed, HushedRow
<1> QED BY <1>1, <1>3, <1>5, <1>6 DEF U

\* The task row alone is ended.
LEMMA TaskEndedQuiet ==
  ASSUME NEW T, RowsOK(T), NEW U, U.work = T.work, U.sess = T.sess, U.status \in {T.status} \cup Terminal
  PROVE  Quiet(T, U) /\ Hushed(T, U)
BY DEF Quiet, QuietRow, QuietSession, Hushed, HushedRow

LEMMA StatusQuiet ==
  ASSUME NEW T, RowsOK(T), NEW c \in {"none", "runner_unavailable", "other"}
  PROVE  /\ Quiet(T, FailedTask(T, c)) /\ Hushed(T, FailedTask(T, c))
         /\ Quiet(T, Cancelled(T)) /\ Hushed(T, Cancelled(T))
<1>1. FailedTask(T, c).status \in {T.status} \cup Terminal /\ Cancelled(T).status \in {T.status} \cup Terminal
  BY FailedTaskRows, CancelledRows DEF Terminal
<1> QED BY <1>1, TaskEndedQuiet, FailedTaskRows, CancelledRows

\* Writing columns of work rows that no history property reads.
LEMMA ColumnsQuiet ==
  ASSUME NEW T, RowsOK(T), NEW f \in [DOMAIN T.work -> WorkRow],
         \A i \in DOMAIN T.work : QuietRow(T.work[i], f[i]) /\ HushedRow(T.work[i], f[i])
  PROVE  LET U == [T EXCEPT !.work = f] IN RowsOK(U) /\ Quiet(T, U) /\ Hushed(T, U)
<1> DEFINE U == [T EXCEPT !.work = f]
<1>1. RowsOK(U) /\ DOMAIN f = DOMAIN T.work /\ Len(f) = Len(T.work)
  BY WorkReplaced DEF QuietRow
<1>2. U.work = f /\ U.sess = T.sess /\ U.status = T.status
  BY DEF RowsOK, TaskRow
<1> HIDE DEF U
<1>3. Quiet(T, U) /\ Hushed(T, U)
  BY <1>1, <1>2, SameSessionsQuiet DEF Quiet, Hushed
<1> QED BY <1>1, <1>3 DEF U

LEMMA RowEditedQuiet ==
  ASSUME NEW T, RowsOK(T), NEW i \in DOMAIN T.work, NEW w \in WorkRow,
         QuietRow(T.work[i], w), HushedRow(T.work[i], w)
  PROVE  LET U == [T EXCEPT !.work = [T.work EXCEPT ![i] = w]] IN Quiet(T, U) /\ Hushed(T, U)
<1> DEFINE f == [T.work EXCEPT ![i] = w]
<1>1. /\ \A j \in DOMAIN T.work : T.work[j] \in WorkRow
      /\ T.work = [j \in DOMAIN T.work |-> T.work[j]]
  BY Shape
<1>2. /\ f \in [DOMAIN T.work -> WorkRow]
      /\ \A j \in DOMAIN T.work : f[j] = IF j = i THEN w ELSE T.work[j]
  BY <1>1
<1> HIDE DEF f
<1>3. \A j \in DOMAIN T.work : QuietRow(T.work[j], f[j]) /\ HushedRow(T.work[j], f[j])
  BY <1>2 DEF QuietRow, HushedRow
<1> QED BY <1>2, <1>3, ColumnsQuiet DEF f

(***************************************************************************)
(* The operations that only end work.                                      *)
(***************************************************************************)

Still(T, U) == Quiet(T, U) /\ Hushed(T, U)

LEMMA StillTransitive ==
  ASSUME NEW T, NEW U, NEW V, Still(T, U), Still(U, V)
  PROVE  Still(T, V)
BY QuietTransitive, HushedTransitive DEF Still

LEMMA StillReflexive ==
  ASSUME NEW T
  PROVE  Still(T, T)
BY DEF Still, Quiet, QuietRow, QuietSession, Hushed, HushedRow

LEMMA CancelAttemptsStill ==
  ASSUME NEW T, RowsOK(T), NEW S \in SUBSET Active
  PROVE  RowsOK(CancelAttempts(T, S)) /\ Still(T, CancelAttempts(T, S))
<1> DEFINE f == [i \in DOMAIN T.work |->
                  IF T.work[i].status \in S
                  THEN [T.work[i] EXCEPT !.status = "cancelled", !.lease = "none"] ELSE T.work[i]]
<1>1. \A i \in DOMAIN T.work : T.work[i] \in WorkRow
  BY Shape
<1>2. /\ f \in [DOMAIN T.work -> WorkRow]
      /\ \A i \in DOMAIN T.work :
           /\ f[i].status = IF T.work[i].status \in S THEN "cancelled" ELSE T.work[i].status
           /\ f[i].sess = T.work[i].sess /\ f[i].runner = T.work[i].runner
           /\ f[i].req = T.work[i].req /\ f[i].prompt = T.work[i].prompt
  BY <1>1 DEF WorkRow, AttemptStatus
<1>3. CancelAttempts(T, S) = [T EXCEPT !.work = f]
  BY DEF CancelAttempts
<1> HIDE DEF f
<1>4. \A i \in DOMAIN T.work : QuietRow(T.work[i], f[i]) /\ HushedRow(T.work[i], f[i])
  BY <1>2 DEF QuietRow, HushedRow, Active, Unanswered
<1> QED BY <1>2, <1>3, <1>4, ColumnsQuiet DEF Still

LEMMA OperatorStill ==
  ASSUME NEW T, RowsOK(T)
  PROVE  /\ Still(T, Cancelled(CancelAttempts(T, Active)))
         /\ Still(T, Cleared(T))
<1>1. \A S \in SUBSET Active : RowsOK(CancelAttempts(T, S)) /\ Still(T, CancelAttempts(T, S))
  BY CancelAttemptsStill
<1>2. {"pending"} \in SUBSET Active /\ Active \in SUBSET Active
  BY DEF Active
<1>3. \A U : RowsOK(U) => Still(U, Cancelled(U))
  BY StatusQuiet DEF Still
<1>4. Still(T, Cancelled(CancelAttempts(T, Active)))
  BY <1>1, <1>2, <1>3, StillTransitive
<1>5. Still(T, Cleared(T))
  BY <1>1, <1>2, <1>3, StillTransitive DEF Cleared
<1> QED BY <1>4, <1>5

LEMMA ExtendedStill ==
  ASSUME NEW T, RowsOK(T)
  PROVE  Still(T, Extended(T))
<1> DEFINE f == [i \in DOMAIN T.work |->
                  IF T.work[i].status \in Active
                  THEN [T.work[i] EXCEPT !.overdue = FALSE] ELSE T.work[i]]
<1>1. \A i \in DOMAIN T.work : T.work[i] \in WorkRow
  BY Shape
<1>2. /\ f \in [DOMAIN T.work -> WorkRow]
      /\ \A i \in DOMAIN T.work :
           /\ f[i].status = T.work[i].status /\ f[i].sess = T.work[i].sess
           /\ f[i].runner = T.work[i].runner /\ f[i].req = T.work[i].req
           /\ f[i].prompt = T.work[i].prompt
  BY <1>1 DEF WorkRow
<1>3. Extended(T) = [T EXCEPT !.work = f]
  BY DEF Extended
<1> HIDE DEF f
<1>4. \A i \in DOMAIN T.work : QuietRow(T.work[i], f[i]) /\ HushedRow(T.work[i], f[i])
  BY <1>2 DEF QuietRow, HushedRow
<1> QED BY <1>2, <1>3, <1>4, ColumnsQuiet DEF Still

LEMMA ClearedExportsStill ==
  ASSUME NEW T, RowsOK(T), NEW S
  PROVE  Still(T, ClearedExports(T, S))
<1> DEFINE f == [i \in DOMAIN T.work |->
                  IF T.work[i].sess \in S THEN [T.work[i] EXCEPT !.export = FALSE] ELSE T.work[i]]
<1>1. \A i \in DOMAIN T.work : T.work[i] \in WorkRow
  BY Shape
<1>2. /\ f \in [DOMAIN T.work -> WorkRow]
      /\ \A i \in DOMAIN T.work :
           /\ f[i].status = T.work[i].status /\ f[i].sess = T.work[i].sess
           /\ f[i].runner = T.work[i].runner /\ f[i].req = T.work[i].req
           /\ f[i].prompt = T.work[i].prompt
  BY <1>1 DEF WorkRow
<1>3. ClearedExports(T, S) = [T EXCEPT !.work = f]
  BY DEF ClearedExports
<1> HIDE DEF f
<1>4. \A i \in DOMAIN T.work : QuietRow(T.work[i], f[i]) /\ HushedRow(T.work[i], f[i])
  BY <1>2 DEF QuietRow, HushedRow
<1> QED BY <1>2, <1>3, <1>4, ColumnsQuiet DEF Still

\* The reaper's passes over attempts: timeouts, expired leases, isolation.
LEMMA RollupStill ==
  ASSUME NEW T, RowsOK(T)
  PROVE  Still(T, ReapStale(T)) /\ Still(T, FailExpired(T)) /\ Still(T, ReapIsolation(T))
<1>1. ASSUME NEW I, NEW st \in {"timeout", "isolation_unavailable"},
             \A i \in I : i \in DOMAIN T.work /\ T.work[i].status \in Active
      PROVE  RowsOK(MoveAttempts(T, I, st)) /\ Still(T, MoveAttempts(T, I, st))
  <2>1. st \in AttemptStatus \ Active /\ st \in Unanswered
    BY DEF AttemptStatus, Active, Unanswered
  <2> QED BY <1>1, <2>1, MoveAttemptsQuiet DEF Still
<1>2. ASSUME NEW U, RowsOK(U), Still(T, U) PROVE Still(T, FailedTask(U, "other"))
  BY <1>2, StatusQuiet, StillTransitive DEF Still
<1>3. Still(T, ReapStale(T))
  <2> DEFINE I == {i \in Attempts(T, {"running"}) : T.work[i].overdue}
             U == MoveAttempts(T, I, "timeout")
  <2>1. \A i \in I : i \in DOMAIN T.work /\ T.work[i].status \in Active
    BY DEF Attempts, Active
  <2>2. ReapStale(T) = IF U.status = "running" /\ I # {} THEN FailedTask(U, "other") ELSE U
    BY DEF ReapStale
  <2> HIDE DEF I
  <2>3. RowsOK(U) /\ Still(T, U)
    BY <2>1, <1>1
  <2> HIDE DEF U
  <2> QED BY <2>2, <2>3, <1>2
<1>4. Still(T, FailExpired(T))
  <2> DEFINE I == OutOfAttempts(T)
             U == MoveAttempts(T, I, "timeout")
  <2>1. \A i \in I : i \in DOMAIN T.work /\ T.work[i].status \in Active
    BY DEF OutOfAttempts, Expired, Attempts, Active
  <2>2. FailExpired(T) \in {FailedTask(U, "other"), U}
    BY DEF FailExpired
  <2> HIDE DEF I
  <2>3. RowsOK(U) /\ Still(T, U)
    BY <2>1, <1>1
  <2> HIDE DEF U
  <2> QED BY <2>2, <2>3, <1>2
<1>5. Still(T, ReapIsolation(T))
  <2> DEFINE I == Attempts(T, {"pending"})
             M == MoveAttempts(T, I, "isolation_unavailable")
  <2>1. \A i \in I : i \in DOMAIN T.work /\ T.work[i].status \in Active
    BY DEF Attempts, Active
  <2>2. PICK U \in {M, T} : ReapIsolation(T) \in {FailedTask(U, "other"), U}
    BY DEF ReapIsolation
  <2> HIDE DEF I
  <2>3. RowsOK(M) /\ Still(T, M)
    BY <2>1, <1>1
  <2> HIDE DEF M
  <2>4. RowsOK(U) /\ Still(T, U)
    BY <2>3, StillReflexive
  <2> QED BY <2>2, <2>4, <1>2
<1> QED BY <1>3, <1>4, <1>5

LEMMA SessionsStill ==
  ASSUME NEW T, RowsOK(T)
  PROVE  /\ Still(T, SettledSessions(T))
         /\ \A S \in SUBSET Expirable(T) : Still(T, MoveSessions(T, S, "expired"))
<1>1. ASSUME NEW S, NEW st \in ClosedSession, \A s \in S : s \in DOMAIN T.sess /\ T.sess[s].status \notin ClosedSession
      PROVE  Still(T, MoveSessions(T, S, st))
  BY <1>1, MoveSessionsQuiet DEF Still
<1>2. \A s \in Sessions(T, {"running"}) : s \in DOMAIN T.sess /\ T.sess[s].status \notin ClosedSession
  BY DEF Sessions, ClosedSession
<1>3. Still(T, SettledSessions(T))
  <2>1. CASE T.status \notin Terminal
    BY <2>1, StillReflexive DEF SettledSessions
  <2>2. CASE T.status \in Terminal
    <3> DEFINE S == Sessions(T, {"running"})
                      \cap SessionsWithPrompt(T, {"completed", "failed", "cancelled"})
               st == IF T.status = "done" THEN "completed" ELSE "error"
    <3>1. SettledSessions(T) = MoveSessions(T, S, st)
      BY <2>2 DEF SettledSessions
    <3>2. st \in ClosedSession
      BY DEF ClosedSession
    <3>3. \A s \in S : s \in DOMAIN T.sess /\ T.sess[s].status \notin ClosedSession
      BY <1>2
    <3> HIDE DEF S, st
    <3> QED BY <3>1, <3>2, <3>3, <1>1
  <2> QED BY <2>1, <2>2
<1>4. ASSUME NEW S \in SUBSET Expirable(T) PROVE Still(T, MoveSessions(T, S, "expired"))
  <2>1. \A s \in S : s \in DOMAIN T.sess /\ T.sess[s].status \notin ClosedSession
    BY DEF Expirable, Sessions, Paused, ClosedSession
  <2>2. "expired" \in ClosedSession
    BY DEF ClosedSession
  <2> QED BY <2>1, <2>2, <1>1
<1> QED BY <1>3, <1>4

(***************************************************************************)
(* The statements about prompts.                                           *)
(***************************************************************************)

LEMMA SettlingHistory ==
  ASSUME NEW T, RowsOK(T)
  PROVE  /\ Quiet(T, SettledPrompts(T)) /\ Quiet(T, RevertedPrompts(T))
         /\ Disciplined(T) /\ Followed(T) => Followed(SettledPrompts(T)) /\ Followed(RevertedPrompts(T))
<1>0. Quiet(T, T)
  BY StillReflexive DEF Still
<1>1. /\ Quiet(T, SettledPrompts(T))
      /\ Disciplined(T) /\ Followed(T) => Followed(SettledPrompts(T))
  <2>1. CASE T.status \notin Terminal
    BY <2>1, <1>0 DEF SettledPrompts
  <2>2. CASE T.status \in Terminal
    <3> DEFINE I == Prompts(T, {"running"})
               st == PromptOutcome(T.status)
               U == MovePrompts(T, I, st)
    <3>1. SettledPrompts(T) = U
      BY <2>2 DEF SettledPrompts
    <3>2. st \in PromptStatus
      BY <2>2 DEF PromptOutcome, PromptStatus, Terminal
    <3>3. \A i \in I : T.work[i].prompt = "running"
      BY DEF Prompts
    <3> HIDE DEF I, st
    <3>4. /\ RowsOK(U) /\ Quiet(T, U)
          /\ \A i \in DOMAIN T.work : /\ U.work[i].status = T.work[i].status
                                      /\ U.work[i].prompt = IF i \in I THEN st ELSE T.work[i].prompt
      BY <3>2, MovePromptsQuiet
    <3> HIDE DEF U
    <3>5. ASSUME Disciplined(T), Followed(T) PROVE Followed(U)
      <4> SUFFICES ASSUME NEW i \in DOMAIN T.work PROVE FollowedRow(U.work[i])
        BY <3>4 DEF Followed, Quiet
      <4>1. T.work[i].status \notin Active
        BY <2>2, <3>5, TerminalIdle DEF Terminal, Active
      <4>2. FollowedRow(T.work[i])
        BY <3>5 DEF Followed
      <4> QED BY <4>1, <4>2, <3>3, <3>4 DEF FollowedRow, Active
    <3> QED BY <3>1, <3>4, <3>5
  <2> QED BY <2>1, <2>2
<1>2. /\ Quiet(T, RevertedPrompts(T))
      /\ Disciplined(T) /\ Followed(T) => Followed(RevertedPrompts(T))
  <2>1. CASE T.status # "pending"
    BY <2>1, <1>0 DEF RevertedPrompts
  <2>2. CASE T.status = "pending"
    <3> DEFINE I == Prompts(T, {"running"})
               U == MovePrompts(T, I, "pending")
    <3>1. RevertedPrompts(T) = U
      BY <2>2 DEF RevertedPrompts
    <3>2. "pending" \in PromptStatus
      BY DEF PromptStatus
    <3>3. \A i \in I : T.work[i].prompt = "running"
      BY DEF Prompts
    <3> HIDE DEF I
    <3>4. /\ RowsOK(U) /\ Quiet(T, U)
          /\ \A i \in DOMAIN T.work : /\ U.work[i].status = T.work[i].status
                                      /\ U.work[i].prompt = IF i \in I THEN "pending" ELSE T.work[i].prompt
      BY <3>2, MovePromptsQuiet
    <3> HIDE DEF U
    <3>5. ASSUME Disciplined(T), Followed(T) PROVE Followed(U)
      <4> SUFFICES ASSUME NEW i \in DOMAIN T.work PROVE FollowedRow(U.work[i])
        BY <3>4 DEF Followed, Quiet
      <4>1. T.work[i].status # "running"
        BY <2>2, <3>5 DEF Disciplined, Governed, Active
      <4>2. FollowedRow(T.work[i])
        BY <3>5 DEF Followed
      <4> QED BY <4>1, <4>2, <3>3, <3>4 DEF FollowedRow
    <3> QED BY <3>1, <3>4, <3>5
  <2> QED BY <2>1, <2>2
<1> QED BY <1>1, <1>2

\* reapUnavailablePinnedResumeTasks fails every pending prompt of a task it
\* failed: that task has nothing else in flight.
LEMMA ReapPinnedHistory ==
  ASSUME NEW T, RowsOK(T)
  PROVE  /\ Quiet(T, ReapPinned(T))
         /\ Served(T) /\ Disciplined(T) /\ Followed(T) => Followed(ReapPinned(T))
<1> DEFINE st == "runner_unavailable"
           I == OrphanedResumes(T)
           U == MoveAttempts(T, I, st)
           rolled == U.status = "pending" /\ Attempts(U, {st}) # {}
           V == IF rolled THEN FailedTask(U, st) ELSE U
           P == Prompts(V, {"pending"})
           W == MovePrompts(V, P, "failed")
           S == Sessions(W, {"resuming"}) \cap SessionsWithPrompt(W, {"failed"})
           X == MoveSessions(W, S, "error")
<1>1. ReapPinned(T) = IF V.status = "error" /\ V.cat = st THEN X ELSE V
  BY DEF ReapPinned
<1>2. \A i \in I : i \in DOMAIN T.work /\ T.work[i].status = "pending"
  BY DEF OrphanedResumes, Attempts
<1>3. /\ RowsOK(U) /\ Quiet(T, U) /\ U.status = T.status /\ DOMAIN U.work = DOMAIN T.work
      /\ \A i \in DOMAIN T.work : /\ U.work[i].prompt = T.work[i].prompt
                                  /\ U.work[i].status = IF i \in I THEN st ELSE T.work[i].status
  <2>1. st \in AttemptStatus \ Active /\ \A i \in I : i \in DOMAIN T.work /\ T.work[i].status \in Active
    BY <1>2 DEF AttemptStatus, Active
  <2> HIDE DEF I, st
  <2> QED BY <2>1, MoveAttemptsQuiet DEF Quiet
<1> HIDE DEF I, U
<1>4. rolled <=> T.status = "pending" /\ \E k \in DOMAIN T.work : k \in I \/ T.work[k].status = st
  BY <1>3 DEF Attempts
<1> HIDE DEF rolled
<1>5. /\ RowsOK(V) /\ Quiet(U, V) /\ V.work = U.work
      /\ rolled => V.status = "error" /\ V.cat = st
      /\ ~rolled => V.status = T.status
  <2>1. CASE rolled
    <3>1. FailedTask(U, st).cat = st
      BY <1>3 DEF FailedTask, RowsOK, TaskRow
    <3> QED BY <2>1, <3>1, <1>3, StatusQuiet, FailedTaskRows
  <2>2. CASE ~rolled
    BY <2>2, <1>3, StillReflexive DEF Still
  <2> QED BY <2>1, <2>2
<1>p. P = {i \in DOMAIN V.work : V.work[i].prompt = "pending"}
  BY DEF Prompts
<1> HIDE DEF V, P
<1>6. /\ RowsOK(W) /\ Quiet(V, W)
      /\ \A i \in DOMAIN V.work : /\ W.work[i].status = V.work[i].status
                                  /\ W.work[i].prompt = IF i \in P THEN "failed" ELSE V.work[i].prompt
  <2>1. "failed" \in PromptStatus
    BY DEF PromptStatus
  <2> QED BY <2>1, <1>5, MovePromptsQuiet
<1>7. \A s \in S : s \in DOMAIN W.sess /\ W.sess[s].status \notin ClosedSession
  BY DEF Sessions, ClosedSession
<1> HIDE DEF W, S
<1>8. RowsOK(X) /\ Quiet(W, X) /\ X.work = W.work
  BY <1>6, <1>7, MoveSessionsQuiet DEF ClosedSession
<1> HIDE DEF X
<1>9. Quiet(T, ReapPinned(T))
  BY <1>1, <1>3, <1>5, <1>6, <1>8, QuietTransitive
<1>10. ASSUME Served(T), Disciplined(T), Followed(T) PROVE Followed(ReapPinned(T))
  <2>1. \A i \in DOMAIN T.work : FollowedRow(T.work[i])
    BY <1>10 DEF Followed
  <2>2. CASE V.status = "error" /\ V.cat = st
    <3>1. \A i \in DOMAIN T.work : V.work[i].status \notin Active
      <4>1. CASE rolled
        <5> SUFFICES ASSUME NEW i \in DOMAIN T.work, V.work[i].status \in Active PROVE FALSE
          OBVIOUS
        <5>1. PICK k \in DOMAIN T.work : k \in I \/ T.work[k].status = st
          BY <4>1, <1>4
        <5>2. PICK j \in DOMAIN T.work : T.work[j].status = "pending"
          BY <4>1, <1>4, <1>10 DEF Served
        <5>3. i \notin I /\ T.work[i].status \in Active
          BY <1>3, <1>5 DEF Active
        <5>4. i = Len(T.work) /\ j = Len(T.work) /\ k = Len(T.work)
          BY <5>1, <5>2, <5>3, <1>2, <1>10 DEF Disciplined, Governed, Unsettled, Active
        <5> QED BY <5>1, <5>2, <5>3, <5>4
      <4>2. CASE ~rolled
        <5>1. T.status \notin Active
          BY <4>2, <2>2, <1>5 DEF Active
        <5>2. \A i \in DOMAIN T.work : T.work[i].status \notin Active
          BY <5>1, <1>10, TerminalIdle
        <5> QED BY <5>2, <1>3, <1>5 DEF Active
      <4> QED BY <4>1, <4>2
    <3> SUFFICES ASSUME NEW i \in DOMAIN T.work PROVE FollowedRow(W.work[i])
      BY <2>2, <1>1, <1>3, <1>5, <1>6, <1>8 DEF Followed, Quiet
    <3>2. /\ W.work[i].status = IF i \in I THEN st ELSE T.work[i].status
          /\ W.work[i].prompt = IF T.work[i].prompt = "pending" THEN "failed" ELSE T.work[i].prompt
          /\ W.work[i].status \notin Active
      BY <3>1, <1>3, <1>5, <1>6, <1>p
    <3> QED BY <3>2, <2>1, <1>2 DEF FollowedRow, Active
  <2>3. CASE ~(V.status = "error" /\ V.cat = st)
    <3>1. ~rolled
      BY <2>3, <1>5
    <3>2. I = {}
      <4> SUFFICES ASSUME NEW i \in I PROVE FALSE
        OBVIOUS
      <4>1. T.status = "pending"
        BY <1>2, <1>10 DEF Disciplined, Governed, Active
      <4> QED BY <4>1, <3>1, <1>2, <1>4
    <3> SUFFICES ASSUME NEW i \in DOMAIN T.work PROVE FollowedRow(V.work[i])
      BY <2>3, <1>1, <1>3, <1>5 DEF Followed
    <3> QED BY <3>2, <2>1, <1>3, <1>5 DEF FollowedRow
  <2> QED BY <2>2, <2>3
<1> QED BY <1>9, <1>10

(***************************************************************************)
(* New work.                                                               *)
(***************************************************************************)

\* A new session is not a resumed one, and its prompt waits with its attempt.
LEMMA NewSessionHistory ==
  ASSUME NEW T, RowsOK(T), NEW ttl \in BOOLEAN
  PROVE  LET U == WithNewSession(T, ttl) IN
         /\ Kept(T, U) /\ Remembered(T, U)
         /\ Followed(T) => Followed(U)
         /\ Pinned(T) => Pinned(U)
<1> DEFINE U == WithNewSession(T, ttl)
           n == Len(T.work)
           m == Len(T.sess)
<1>1. /\ DOMAIN U.work = 1..(n + 1) /\ DOMAIN U.sess = 1..(m + 1)
      /\ \A i \in DOMAIN T.work : U.work[i] = T.work[i]
      /\ U.work[n + 1] = NewWork(m + 1, NoRunner)
      /\ \A s \in DOMAIN T.sess : U.sess[s] = T.sess[s]
      /\ U.sess[m + 1] = NewSession(ttl)
  BY WithNewSessionRows
<1>2. /\ n \in Nat /\ DOMAIN T.work = 1..n /\ m \in Nat /\ DOMAIN T.sess = 1..m
      /\ \A i \in DOMAIN T.work : T.work[i].sess \in DOMAIN T.sess
  BY Shape
<1> HIDE DEF U, n, m
<1>3. DOMAIN T.work \subseteq DOMAIN U.work /\ DOMAIN T.sess \subseteq DOMAIN U.sess
  BY <1>1, <1>2
<1>4. \A i \in DOMAIN U.work : i = n + 1 \/ i \in DOMAIN T.work
  BY <1>1, <1>2
<1>5. Kept(T, U)
  BY <1>1, <1>3 DEF Kept, KeptRow, KeptSession
<1>6. Remembered(T, U)
  BY <1>1, <1>3 DEF Remembered, RememberedSession
<1>7. Followed(T) => Followed(U)
  <2>1. FollowedRow(NewWork(m + 1, NoRunner))
    BY DEF FollowedRow, NewWork
  <2> QED BY <2>1, <1>1, <1>4 DEF Followed
<1>8. Pinned(T) => Pinned(U)
  <2>1. U.work[n + 1].sess = m + 1 /\ U.sess[m + 1].status = "running"
    BY <1>1 DEF NewWork, NewSession
  <2>2. PinnedRow(U.work[n + 1], U.sess[U.work[n + 1].sess])
    BY <2>1 DEF PinnedRow
  <2>3. \A i \in DOMAIN T.work : U.work[i] = T.work[i] /\ U.sess[U.work[i].sess] = T.sess[T.work[i].sess]
    BY <1>1, <1>2
  <2> QED BY <2>2, <2>3, <1>4 DEF Pinned
<1> QED BY <1>5, <1>6, <1>7, <1>8 DEF U

\* Queued work has no runner yet.
LEMMA NewSessionUnclaimed ==
  ASSUME NEW T, RowsOK(T), NEW ttl \in BOOLEAN
  PROVE  LastRunner(WithNewSession(T, ttl)) = NoRunner
<1> DEFINE U == WithNewSession(T, ttl)
<1>1. Len(T.work) \in Nat
  BY Shape
<1>2. /\ Len(U.work) = Len(T.work) + 1
      /\ U.work[Len(T.work) + 1] = NewWork(Len(T.sess) + 1, NoRunner)
  BY WithNewSessionRows
<1>3. NewWork(Len(T.sess) + 1, NoRunner).runner = NoRunner
  BY DEF NewWork
<1> HIDE DEF U
<1>4. LastRunner(U) = NoRunner
  BY <1>1, <1>2, <1>3 DEF LastRunner
<1> QED BY <1>4 DEF U

\* The row of a new session comes last in both orders.
LEMMA NewSessionOrder ==
  ASSUME NEW T, RowsOK(T), NEW ttl \in BOOLEAN, InOrder(T)
  PROVE  InOrder(WithNewSession(T, ttl))
<1> DEFINE U == WithNewSession(T, ttl)
           n == Len(T.work)
           m == Len(T.sess)
<1>1. /\ DOMAIN U.work = 1..(n + 1)
      /\ \A i \in DOMAIN T.work : U.work[i] = T.work[i]
      /\ U.work[n + 1] = NewWork(m + 1, NoRunner)
  BY WithNewSessionRows
<1>2. /\ n \in Nat /\ DOMAIN T.work = 1..n /\ m \in Nat /\ DOMAIN T.sess = 1..m
      /\ \A i \in DOMAIN T.work : T.work[i].sess \in DOMAIN T.sess
  BY Shape
<1> HIDE DEF U, n, m
<1>3. U.work[n + 1].sess = m + 1
  BY <1>1 DEF NewWork
<1>4. \A i \in DOMAIN T.work : U.work[i].sess = T.work[i].sess /\ U.work[i].sess \in 1..m
  BY <1>1, <1>2
<1> SUFFICES ASSUME NEW i \in 1..(n + 1), NEW j \in 1..(n + 1), i <= j
             PROVE  U.work[i].sess <= U.work[j].sess
  BY <1>1 DEF InOrder, U
<1>5. CASE j = n + 1
  BY <1>2, <1>3, <1>4, <1>5
<1>6. CASE j # n + 1
  <2>1. i \in DOMAIN T.work /\ j \in DOMAIN T.work
    BY <1>2, <1>6
  <2> QED BY <2>1, <1>4 DEF InOrder
<1> QED BY <1>5, <1>6

LEMMA FreshTaskHistory ==
  ASSUME NEW T, RowsOK(T), T.status = "absent", Blank(T),
         NEW mode \in ResumeModes, NEW iso \in BOOLEAN, NEW ttl \in BOOLEAN
  PROVE  LET U == FreshTask(mode, iso, ttl) IN
         /\ U.status = "pending" /\ Len(U.work) = 1 /\ LastRunner(U) = NoRunner /\ InOrder(U)
         /\ Ended(T, U) /\ Remembered(T, U) /\ Followed(U) /\ Pinned(U) /\ Blank(U)
<1> DEFINE B == [Absent EXCEPT !.status = "pending", !.mode = mode, !.iso = iso]
           U == FreshTask(mode, iso, ttl)
<1>1. Absent \in TaskRow /\ Absent.work = <<>> /\ Absent.sess = <<>>
  BY DEF Absent, TaskRow, ResumeModes
<1>2. B \in TaskRow /\ B.work = <<>> /\ B.sess = <<>> /\ B.status = "pending"
  BY <1>1 DEF TaskRow
<1>3. RowsOK(B) /\ Followed(B) /\ Pinned(B)
  BY <1>2 DEF RowsOK, Followed, Pinned
<1>4. U = WithNewSession(B, ttl)
  BY DEF FreshTask
<1> HIDE DEF B, U
<1>5. U.status = "pending" /\ Followed(U) /\ Pinned(U)
  BY <1>2, <1>3, <1>4, NewSessionHistory, WithNewSessionRows
<1>n. Len(U.work) = 1 /\ LastRunner(U) = NoRunner
  <2>1. Len(B.work) = 0
    BY <1>2
  <2>2. Len(U.work) = Len(B.work) + 1
    BY <1>3, <1>4, WithNewSessionRows
  <2> QED BY <2>1, <2>2, <1>3, <1>4, NewSessionUnclaimed
<1>o. InOrder(U)
  <2>1. InOrder(B)
    BY <1>2 DEF InOrder
  <2> QED BY <2>1, <1>3, <1>4, NewSessionOrder
<1>6. DOMAIN T.work = {} /\ DOMAIN T.sess = {}
  BY Shape DEF Blank
<1>7. Ended(T, U) /\ Remembered(T, U) /\ Blank(U)
  BY <1>5, <1>n, <1>6 DEF Ended, Kept, Reopens, Remembered, Blank, Opened, Terminal
<1> QED BY <1>5, <1>n, <1>o, <1>7 DEF U

LEMMA RecoveredHistory ==
  ASSUME NEW T, RowsOK(T), NEW ttl \in BOOLEAN
  PROVE  LET U == WithNewSession(Requeued(T), ttl) IN
         /\ InOrder(T) => InOrder(U)
         /\ Kept(T, U) /\ Remembered(T, U) /\ Reopens(T, U) /\ U.status = "pending"
         /\ Len(U.work) = Len(T.work) + 1 /\ LastRunner(U) = NoRunner
         /\ Followed(T) => Followed(U)
         /\ Pinned(T) => Pinned(U)
<1> DEFINE B == Requeued(T)
           U == WithNewSession(B, ttl)
<1>1. RowsOK(B) /\ B.status = "pending" /\ B.work = T.work /\ B.sess = T.sess
  BY RequeuedRows
<1> HIDE DEF B
<1>2. /\ Kept(B, U) /\ Remembered(B, U) /\ (Followed(B) => Followed(U)) /\ (Pinned(B) => Pinned(U))
      /\ U.status = "pending" /\ Len(U.work) = Len(T.work) + 1
  BY <1>1, NewSessionHistory, WithNewSessionRows
<1>n. LastRunner(U) = NoRunner
  BY <1>1, NewSessionUnclaimed
<1>o. InOrder(T) => InOrder(U)
  <2>1. InOrder(T) => InOrder(B)
    BY <1>1 DEF InOrder
  <2> QED BY <2>1, <1>1, NewSessionOrder
<1> HIDE DEF U
<1>3. /\ Kept(T, U) /\ Remembered(T, U) /\ (Followed(T) => Followed(U)) /\ (Pinned(T) => Pinned(U))
  BY <1>1, <1>2 DEF Kept, Remembered, Followed, Pinned
<1>4. Reopens(T, U)
  BY <1>2, Shape DEF Reopens, Blank, Opened
<1> QED BY <1>2, <1>n, <1>o, <1>3, <1>4 DEF U, B

\* ResumeAgentSession queues work for the runner that the request read.
LEMMA ResumedHistory ==
  ASSUME NEW T, RowsOK(T), NEW s \in DOMAIN T.sess, NEW r \in Runners, T.sess[s].status \in Paused
  PROVE  LET U == Resumed(T, s, r) IN
         /\ U.status = "pending" /\ Len(U.work) = Len(T.work) + 1 /\ LastRunner(U) = NoRunner
         /\ Ended(T, U) /\ Remembered(T, U)
         /\ Followed(T) => Followed(U)
         /\ Disciplined(T) /\ Opened(T) /\ InOrder(U) /\ Pinned(T) /\ Honoured(T, s, r) => Pinned(U)
<1> DEFINE n == Len(T.work)
           m == Len(T.sess)
           w == NewWork(s, r)
           W == Append(T.work, w)
           y == [T.sess[s] EXCEPT !.status = "resuming"]
           X == [T.sess EXCEPT ![s] = y]
           U == Resumed(T, s, r)
<1>1. /\ T.work \in Seq(WorkRow) /\ n \in Nat /\ DOMAIN T.work = 1..n
      /\ T.sess \in Seq(SessionRow) /\ m \in Nat /\ DOMAIN T.sess = 1..m
      /\ \A j \in DOMAIN T.work : T.work[j].sess \in DOMAIN T.sess
      /\ T.sess[s] \in SessionRow
  BY Shape
<1>2. /\ w \in WorkRow /\ w.sess = s /\ w.status = "pending" /\ w.prompt = "pending" /\ w.req = r
      /\ w.runner = NoRunner
  BY <1>1 DEF NewWork, WorkRow, PromptStatus, AttemptStatus, Active, SessionRow
<1>3. y \in SessionRow /\ y.status = "resuming" /\ y.pinned = T.sess[s].pinned
  BY <1>1 DEF SessionRow, Live
<1>4. /\ X \in [DOMAIN T.sess -> SessionRow]
      /\ \A x \in DOMAIN T.sess : X[x] = IF x = s THEN y ELSE T.sess[x]
  <2> HIDE DEF y
  <2>1. T.sess \in [DOMAIN T.sess -> SessionRow]
    BY <1>1
  <2> QED BY <1>3, <2>1
<1>5. RowsOK(Requeued(T)) /\ Requeued(T).status = "pending"
      /\ Requeued(T).work = T.work /\ Requeued(T).sess = T.sess
  BY RequeuedRows
<1>6. U = [Requeued(T) EXCEPT !.sess = X, !.work = W]
  BY <1>5 DEF Resumed, RowsOK, TaskRow
<1> HIDE DEF w, X, y
<1>7. /\ W \in Seq(WorkRow) /\ Len(W) = n + 1 /\ DOMAIN W = 1..(n + 1)
      /\ \A j \in DOMAIN T.work : W[j] = T.work[j]
      /\ W[n + 1] = w
  BY <1>1, <1>2, AppendProperties, LenProperties
<1> HIDE DEF W, U, n
<1>8. U.work = W /\ U.sess = X /\ U.status = "pending"
  BY <1>5, <1>6 DEF RowsOK, TaskRow
<1>n. Len(U.work) = n + 1 /\ LastRunner(U) = NoRunner
  BY <1>1, <1>2, <1>7, <1>8 DEF LastRunner
<1>9. DOMAIN T.work \subseteq DOMAIN W /\ DOMAIN X = DOMAIN T.sess
      /\ \A j \in DOMAIN W : j = n + 1 \/ j \in DOMAIN T.work
  BY <1>1, <1>4, <1>7
<1>10. Ended(T, U)
  <2>1. Kept(T, U)
    BY <1>4, <1>7, <1>8, <1>9 DEF Kept, KeptRow, KeptSession, Paused, ClosedSession
  <2>2. Reopens(T, U)
    BY <1>1, <1>7, <1>8 DEF Reopens, Blank, Opened, n
  <2> QED BY <2>1, <2>2 DEF Ended
<1>11. Remembered(T, U)
  BY <1>3, <1>4, <1>8, <1>9 DEF Remembered, RememberedSession
<1>12. Followed(T) => Followed(U)
  BY <1>2, <1>7, <1>8, <1>9 DEF Followed, FollowedRow
<1>13. ASSUME Disciplined(T), Opened(T), InOrder(U), Pinned(T), Honoured(T, s, r) PROVE Pinned(U)
  <2>0. s = m
    BY <1>13, ResumedGood DEF U, m
  <2> SUFFICES ASSUME NEW j \in DOMAIN W PROVE PinnedRow(W[j], X[W[j].sess])
    BY <1>8 DEF Pinned
  <2>1. CASE j = n + 1
    <3>1. W[j] = w /\ X[W[j].sess] = y
      BY <2>1, <1>2, <1>4, <1>7
    <3>2. y.pinned = r /\ r # NoRunner
      BY <1>3, <1>13, ConstantsAssumption DEF Honoured
    <3> QED BY <3>1, <3>2, <1>2 DEF PinnedRow
  <2>2. CASE j # n + 1
    <3>1. j \in DOMAIN T.work /\ W[j] = T.work[j]
      BY <2>2, <1>7, <1>9
    <3>2. W[j].status \notin Active
      BY <2>0, <3>1, <1>13 DEF Disciplined, Governed, Unsettled, m
    <3> QED BY <3>2 DEF PinnedRow, Active
  <2> QED BY <2>1, <2>2
<1> QED BY <1>8, <1>n, <1>10, <1>11, <1>12, <1>13 DEF U, m, n

(***************************************************************************)
(* Claims, reports and reclaims.                                           *)
(***************************************************************************)

\* GetUserPromptByTaskID finds the prompt of the work in flight.
LEMMA LatestIsActive ==
  ASSUME NEW T, RowsOK(T), Disciplined(T), NEW i \in DOMAIN T.work, T.work[i].status \in Active
  PROVE  LatestPrompts(T) = {i} /\ i = Len(T.work) /\ T.work[i].sess = Len(T.sess)
<1>1. i = Len(T.work) /\ T.work[i].sess = Len(T.sess) /\ DOMAIN T.work = 1..Len(T.work) /\ Len(T.work) \in Nat
  BY Shape DEF Disciplined, Governed, Unsettled
<1>2. i \in LatestPrompts(T)
  BY <1>1 DEF LatestPrompts, IsLatestPrompt, LatestSession
<1>3. \A j \in LatestPrompts(T) : j \in DOMAIN T.work /\ i <= j
  BY <1>1 DEF LatestPrompts, IsLatestPrompt, LatestSession
<1>4. \A j \in LatestPrompts(T) : j = i
  BY <1>1, <1>3
<1> QED BY <1>1, <1>2, <1>4

\* claimOnce: the runner that work of a resumed session is bound to claims it.
LEMMA ClaimedHistory ==
  ASSUME NEW T, RowsOK(T), NEW i \in DOMAIN T.work, NEW r \in Runners,
         T.status = "pending", T.work[i].status = "pending", T.work[i].req \in {NoRunner, r}
  PROVE  LET U == Claimed(T, i, r) IN
         /\ U.status = "running" /\ Len(U.work) = Len(T.work) /\ DOMAIN U.work = DOMAIN T.work
         /\ \A j \in DOMAIN T.work : /\ U.work[j].sess = T.work[j].sess
                                     /\ U.work[j].runner = IF j = i THEN r ELSE T.work[j].runner
         /\ Ended(T, U) /\ Remembered(T, U)
         /\ Pinned(T) => Pinned(U)
         /\ Disciplined(T) /\ Followed(T) => Followed(U)
<1> DEFINE I == LatestPrompts(T) \cap Prompts(T, {"pending"})
           P == MovePrompts(T, I, "running")
           w == [P.work[i] EXCEPT !.status = "running", !.runner = r,
                                  !.lease = "live", !.overdue = FALSE]
           f == [P.work EXCEPT ![i] = w]
           V == [P EXCEPT !.work = f]
           U == Claimed(T, i, r)
<1>1. /\ RowsOK(P) /\ Quiet(T, P) /\ P.sess = T.sess
      /\ \A j \in DOMAIN T.work : /\ P.work[j].status = T.work[j].status
                                  /\ P.work[j].prompt = IF j \in I THEN "running" ELSE T.work[j].prompt
  <2>1. "running" \in PromptStatus
    BY DEF PromptStatus
  <2> HIDE DEF I
  <2> QED BY <2>1, MovePromptsQuiet
<1>i. I = {j \in LatestPrompts(T) : T.work[j].prompt = "pending"}
  BY DEF Prompts, LatestPrompts
<1> HIDE DEF I, P
<1>2. /\ DOMAIN P.work = DOMAIN T.work /\ Len(P.work) = Len(T.work) /\ Len(P.sess) = Len(T.sess)
      /\ \A j \in DOMAIN T.work : /\ P.work[j].sess = T.work[j].sess
                                  /\ P.work[j].runner = T.work[j].runner
                                  /\ P.work[j].req = T.work[j].req
  BY <1>1 DEF Quiet, QuietRow
<1>3. /\ P.work[i] \in WorkRow /\ i \in DOMAIN P.work
      /\ P.work = [j \in DOMAIN P.work |-> P.work[j]]
  BY <1>1, <1>2, Shape
<1>4. /\ w \in WorkRow /\ w.sess = P.work[i].sess /\ w.status = "running" /\ w.runner = r
      /\ w.prompt = P.work[i].prompt
  BY <1>3 DEF WorkRow, AttemptStatus, Active
<1>5. U = [V EXCEPT !.status = "running"]
  BY <1>1, <1>3 DEF Claimed, P, I, RowsOK, TaskRow, WorkRow
<1> HIDE DEF w
<1>6. /\ RowsOK(V) /\ V.sess = P.sess
      /\ DOMAIN V.work = DOMAIN P.work /\ Len(V.work) = Len(P.work)
      /\ \A j \in DOMAIN P.work : V.work[j] = IF j = i THEN w ELSE P.work[j]
  BY <1>1, <1>3, <1>4, RowEdited
<1> HIDE DEF V
<1>7. U.work = V.work /\ U.sess = T.sess /\ U.status = "running"
  BY <1>1, <1>5, <1>6 DEF RowsOK, TaskRow
<1> HIDE DEF U
<1>8. /\ DOMAIN U.work = DOMAIN T.work /\ Len(U.work) = Len(T.work)
      /\ \A j \in DOMAIN T.work :
           /\ U.work[j].sess = T.work[j].sess
           /\ U.work[j].status = IF j = i THEN "running" ELSE T.work[j].status
           /\ U.work[j].runner = IF j = i THEN r ELSE T.work[j].runner
           /\ j # i => U.work[j].req = T.work[j].req
           /\ U.work[j].prompt = IF j \in I THEN "running" ELSE T.work[j].prompt
  BY <1>1, <1>2, <1>4, <1>6, <1>7
<1>9. Ended(T, U)
  <2>1. Kept(T, U)
    BY <1>7, <1>8 DEF Kept, KeptRow, KeptSession, Active
  <2> QED BY <2>1, <1>7, <1>8 DEF Ended, Reopens, Blank, Opened, Terminal
<1>10. Remembered(T, U)
  BY <1>7 DEF Remembered, RememberedSession
<1>11. Pinned(T) => Pinned(U)
  <2> SUFFICES ASSUME Pinned(T), NEW j \in DOMAIN T.work
               PROVE  PinnedRow(U.work[j], T.sess[T.work[j].sess])
    BY <1>7, <1>8 DEF Pinned
  <2>1. PinnedRow(T.work[j], T.sess[T.work[j].sess])
    BY DEF Pinned
  <2> QED BY <2>1, <1>8 DEF PinnedRow
<1>12. ASSUME Disciplined(T), Followed(T) PROVE Followed(U)
  <2> SUFFICES ASSUME NEW j \in DOMAIN T.work PROVE FollowedRow(U.work[j])
    BY <1>8 DEF Followed
  <2>1. LatestPrompts(T) = {i}
    BY <1>12, LatestIsActive DEF Active
  <2>2. FollowedRow(T.work[j])
    BY <1>12 DEF Followed
  <2>3. I = {i}
    BY <2>1, <1>i, <1>12 DEF Followed, FollowedRow
  <2> QED BY <2>2, <2>3, <1>8 DEF FollowedRow
<1> QED BY <1>7, <1>8, <1>9, <1>10, <1>11, <1>12 DEF U

\* What a report writes to the session.
LEMMA SessionOutcomeColumns ==
  ASSUME NEW X \in SessionRow, NEW mode, NEW r, NEW e \in EventType
  PROVE  LET Y == SessionOutcome(X, mode, r, e) IN
         /\ e.status = "running" => Y.status = X.status /\ Y.pinned = X.pinned
         /\ e.status # "running" => Y.status \notin Live /\ Y.pinned \in {X.pinned, r}
<1> DEFINE Y == SessionOutcome(X, mode, r, e)
<1>1. \A k : /\ [X EXCEPT !.saved = k].status = X.status
             /\ [X EXCEPT !.saved = k].pinned = X.pinned
  BY DEF SessionRow
<1>3. e.status = "running" => \E k : Y = [X EXCEPT !.saved = k]
  BY DEF SessionOutcome
<1>4. e.status # "running" =>
        \E k : \E st \in {"recoverable", "paused", "completed", "error"} :
          \/ Y = [X EXCEPT !.status = st, !.pinned = r, !.saved = k]
          \/ Y = [X EXCEPT !.status = st, !.saved = k]
  BY Zenon DEF SessionOutcome
<1> HIDE DEF Y
<1>5. e.status = "running" => Y.status = X.status /\ Y.pinned = X.pinned
  BY <1>1, <1>3
<1>6. ASSUME e.status # "running" PROVE Y.status \notin Live /\ Y.pinned \in {X.pinned, r}
  <2>1. PICK k, st : /\ st \in {"recoverable", "paused", "completed", "error"}
                     /\ \/ Y = [X EXCEPT !.status = st, !.pinned = r, !.saved = k]
                        \/ Y = [X EXCEPT !.status = st, !.saved = k]
    BY <1>4, <1>6
  <2>2. Y.status = st /\ Y.pinned \in {X.pinned, r}
    <3>1. CASE Y = [X EXCEPT !.status = st, !.pinned = r, !.saved = k]
      BY <3>1 DEF SessionRow
    <3>2. CASE Y = [X EXCEPT !.status = st, !.saved = k]
      BY <3>2 DEF SessionRow
    <3> QED BY <2>1, <3>1, <3>2
  <2> QED BY <2>1, <2>2 DEF Live
<1> QED BY <1>5, <1>6 DEF Y

\* What it writes to the attempts and the prompts.
LEMMA WorkOutcomeColumns ==
  ASSUME NEW T, RowsOK(T), NEW j \in DOMAIN T.work, NEW i, NEW e \in EventType
  PROVE  LET v == WorkOutcome(T, j, i, e) IN
         /\ v.runner = T.work[j].runner /\ v.req = T.work[j].req
         /\ v.prompt = IF e.status = "running" \/ j \notin LatestPrompts(T)
                       THEN T.work[j].prompt ELSE PromptOutcome(e.status)
<1>1. T.work[j] \in WorkRow
  BY Shape
<1> DEFINE l == IF e.status = "running" THEN "live" ELSE "none"
           w == IF j # i THEN T.work[j]
                ELSE [T.work[j] EXCEPT !.status = AttemptOutcome(e.status), !.lease = l]
           v == [w EXCEPT !.prompt = PromptOutcome(e.status), !.export = w.export \/ e.export]
<1>2. /\ w.runner = T.work[j].runner /\ w.req = T.work[j].req /\ w.prompt = T.work[j].prompt
      /\ DOMAIN w = DOMAIN T.work[j]
  BY <1>1 DEF WorkRow
<1>3. WorkOutcome(T, j, i, e) = IF e.status = "running" \/ j \notin LatestPrompts(T) THEN w ELSE v
  BY DEF WorkOutcome
<1>4. {"runner", "req", "prompt", "export"} \subseteq DOMAIN T.work[j]
  BY <1>1 DEF WorkRow
<1> HIDE DEF w
<1>5. v.runner = w.runner /\ v.req = w.req /\ v.prompt = PromptOutcome(e.status)
  BY <1>2, <1>4
<1> HIDE DEF v
<1> QED BY <1>2, <1>3, <1>5

LEMMA ReportedHistory ==
  ASSUME NEW T, RowsOK(T), NEW i \in DOMAIN T.work, NEW e \in EventType,
         T.work[i].status = "running", T.status \in {"running", e.status}
  PROVE  LET U == Reported(T, i, T.work[i].runner, e) IN
         /\ U.status = e.status /\ Len(U.work) = Len(T.work) /\ DOMAIN U.work = DOMAIN T.work
         /\ \A j \in DOMAIN T.work : /\ U.work[j].runner = T.work[j].runner
                                     /\ U.work[j].sess = T.work[j].sess
         /\ Ended(T, U)
         /\ Disciplined(T) /\ Pinned(T) => Remembered(T, U) /\ Pinned(U)
         /\ Disciplined(T) /\ Followed(T) => Followed(U)
<1> DEFINE r == T.work[i].runner
           W == [j \in DOMAIN T.work |-> WorkOutcome(T, j, i, e)]
           X == [s \in DOMAIN T.sess |->
                   IF s = LatestSession(T) /\ T.sess[s].status \in Live
                   THEN SessionOutcome(T.sess[s], T.mode, r, e) ELSE T.sess[s]]
           U == Reported(T, i, r, e)
<1>1. \A s \in DOMAIN T.sess : T.sess[s] \in SessionRow
  BY Shape
<1>2. e.status \in {"running", "done", "error", "cancelled"}
  BY DEF EventType
<1>3. \A j \in DOMAIN T.work :
        /\ W[j].sess = T.work[j].sess /\ W[j].runner = T.work[j].runner /\ W[j].req = T.work[j].req
        /\ W[j].status = IF j = i THEN AttemptOutcome(e.status) ELSE T.work[j].status
        /\ W[j].prompt = IF e.status = "running" \/ j \notin LatestPrompts(T)
                         THEN T.work[j].prompt ELSE PromptOutcome(e.status)
  <2> SUFFICES ASSUME NEW j \in DOMAIN T.work
               PROVE  LET v == WorkOutcome(T, j, i, e) IN
                 /\ v.sess = T.work[j].sess /\ v.runner = T.work[j].runner /\ v.req = T.work[j].req
                 /\ v.status = IF j = i THEN AttemptOutcome(e.status) ELSE T.work[j].status
                 /\ v.prompt = IF e.status = "running" \/ j \notin LatestPrompts(T)
                               THEN T.work[j].prompt ELSE PromptOutcome(e.status)
    OBVIOUS
  <2> QED BY WorkOutcomeType, WorkOutcomeColumns
<1>4. \A s \in DOMAIN T.sess :
        IF s = Len(T.sess) /\ T.sess[s].status \in Live
        THEN /\ e.status = "running" => X[s].status = T.sess[s].status /\ X[s].pinned = T.sess[s].pinned
             /\ e.status # "running" => X[s].status \notin Live /\ X[s].pinned \in {T.sess[s].pinned, r}
        ELSE X[s] = T.sess[s]
  BY <1>1, SessionOutcomeColumns DEF LatestSession
<1>5. U.work = W /\ U.sess = X /\ U.status = e.status
  BY DEF Reported, RowsOK, TaskRow
<1>6. DOMAIN W = DOMAIN T.work /\ DOMAIN X = DOMAIN T.sess
  OBVIOUS
<1>7. AttemptOutcome("running") = "running"
  BY DEF AttemptOutcome
<1>l. Len(W) = Len(T.work)
  <2>1. \A j \in DOMAIN T.work : WorkOutcome(T, j, i, e) \in WorkRow
    BY WorkOutcomeType
  <2>2. W \in [DOMAIN T.work -> WorkRow]
    BY <2>1
  <2> HIDE DEF W
  <2> QED BY <2>2, Shape, IndexedSeq
<1> HIDE DEF W, X, U
<1>8. Ended(T, U)
  <2>1. \A j \in DOMAIN T.work : KeptRow(T.work[j], U.work[j])
    BY <1>3, <1>5 DEF KeptRow, Active
  <2>2. \A s \in DOMAIN T.sess : KeptSession(T.sess[s], U.sess[s])
    BY <1>4, <1>5 DEF KeptSession, ClosedSession, Live
  <2>3. Reopens(T, U)
    <3>1. Len(U.work) # 0
      BY <1>5, <1>l, Shape
    <3> QED BY <3>1, <1>2, <1>5 DEF Reopens, Blank, Opened, Terminal
  <2> QED BY <2>1, <2>2, <2>3, <1>5, <1>6 DEF Ended, Kept
<1>9. ASSUME Disciplined(T), Pinned(T) PROVE Remembered(T, U) /\ Pinned(U)
  <2> DEFINE m == Len(T.sess)
  <2>1. T.work[i].sess = m /\ m \in DOMAIN T.sess /\ i = Len(T.work)
    BY <1>9, LatestIsActive, Shape DEF Active
  <2>2. T.sess[m].status = "resuming" => r = T.sess[m].pinned
    BY <2>1, <1>9 DEF Pinned, PinnedRow
  <2>3. \A s \in DOMAIN T.sess : RememberedSession(T.sess[s], X[s])
    BY <2>2, <1>2, <1>4 DEF RememberedSession, Live
  <2>4. Pinned(U)
    <3> SUFFICES ASSUME NEW j \in DOMAIN T.work PROVE PinnedRow(W[j], X[T.work[j].sess])
      BY <1>3, <1>5, <1>6 DEF Pinned
    <3>1. CASE e.status = "running"
      <4>1. T.work[j].sess \in DOMAIN T.sess /\ PinnedRow(T.work[j], T.sess[T.work[j].sess])
        BY <1>9 DEF RowsOK, Pinned
      <4>2. /\ X[T.work[j].sess].status = T.sess[T.work[j].sess].status
            /\ X[T.work[j].sess].pinned = T.sess[T.work[j].sess].pinned
        BY <4>1, <3>1, <1>4
      <4>3. W[j].status = T.work[j].status /\ W[j].runner = T.work[j].runner /\ W[j].req = T.work[j].req
        BY <3>1, <1>3, <1>7
      <4> QED BY <4>1, <4>2, <4>3 DEF PinnedRow
    <3>2. CASE e.status # "running"
      <4>1. j # i => T.work[j].status \notin Active
        BY <2>1, <1>9 DEF Disciplined, Governed, Unsettled
      <4>2. AttemptOutcome(e.status) \notin Active
        BY <3>2, <1>2 DEF AttemptOutcome, Active
      <4>3. W[j].status \notin Active
        BY <4>1, <4>2, <1>3
      <4> QED BY <4>3 DEF PinnedRow, Active
    <3> QED BY <3>1, <3>2
  <2> QED BY <2>3, <2>4, <1>5, <1>6 DEF Remembered
<1>10. ASSUME Disciplined(T), Followed(T) PROVE Followed(U)
  <2> SUFFICES ASSUME NEW j \in DOMAIN T.work PROVE FollowedRow(W[j])
    BY <1>5, <1>6 DEF Followed
  <2>1. LatestPrompts(T) = {i}
    BY <1>10, LatestIsActive DEF Active
  <2>2. FollowedRow(T.work[j])
    BY <1>10 DEF Followed
  <2>3. CASE j # i \/ e.status = "running"
    <3>1. W[j].status = T.work[j].status /\ W[j].prompt = T.work[j].prompt
      BY <2>1, <2>3, <1>3, <1>7
    <3> QED BY <2>2, <3>1 DEF FollowedRow
  <2>4. CASE j = i /\ e.status # "running"
    <3>1. W[j].status = AttemptOutcome(e.status) /\ W[j].prompt = PromptOutcome(e.status)
      BY <2>1, <2>4, <1>3
    <3> QED BY <2>4, <3>1, <1>2 DEF FollowedRow, AttemptOutcome, PromptOutcome
  <2> QED BY <2>3, <2>4
<1> QED BY <1>3, <1>5, <1>6, <1>l, <1>8, <1>9, <1>10 DEF U

\* The requeueing half of reapExpiredLeases.
LEMMA ReclaimedHistory ==
  ASSUME NEW T, RowsOK(T), NEW k, Reclaimable(T) = {k}
  PROVE  LET U == Reclaimed(T) IN
         /\ InOrder(T) => InOrder(U)
         /\ RowsOK(U) /\ Kept(T, U) /\ Remembered(T, U) /\ U.status = "pending"
         /\ Len(U.work) = Len(T.work) + 1 /\ LastRunner(U) = NoRunner
         /\ Pinned(T) => Pinned(U)
         /\ Disciplined(T) /\ Followed(T) => Followed(U)
<1> DEFINE A == MoveAttempts(T, {k}, "lost")
           I == LatestPrompts(T) \cap Prompts(T, {"pending", "running"})
           P == MovePrompts(A, I, "failed")
           S == {LatestSession(T)} \cap Sessions(T, Live)
           V == MoveSessions(P, S, "abandoned")
           ttl == T.sess[LatestSession(T)].ttl
           U == WithNewSession(Requeued(V), ttl)
<1>1. Reclaimed(T) = U
  BY DEF Reclaimed
<1>2. k \in DOMAIN T.work /\ T.work[k].status = "running"
  BY DEF Reclaimable, Expired, Attempts
<1>3. /\ RowsOK(A) /\ Quiet(T, A) /\ A.sess = T.sess
      /\ \A i \in DOMAIN T.work : /\ A.work[i].prompt = T.work[i].prompt
                                  /\ A.work[i].status = IF i = k THEN "lost" ELSE T.work[i].status
  <2>1. "lost" \in AttemptStatus \ Active /\ \A i \in {k} : i \in DOMAIN T.work /\ T.work[i].status \in Active
    BY <1>2 DEF AttemptStatus, Active
  <2> QED BY <2>1, MoveAttemptsQuiet
<1> HIDE DEF A
<1>i. I = {i \in LatestPrompts(T) : T.work[i].prompt \in {"pending", "running"}}
  BY DEF Prompts, LatestPrompts
<1> HIDE DEF I
<1>4. /\ RowsOK(P) /\ Quiet(A, P) /\ P.sess = T.sess
      /\ \A i \in DOMAIN A.work : /\ P.work[i].status = A.work[i].status
                                  /\ P.work[i].prompt = IF i \in I THEN "failed" ELSE A.work[i].prompt
  <2>1. "failed" \in PromptStatus
    BY DEF PromptStatus
  <2> QED BY <2>1, <1>3, MovePromptsQuiet
<1> HIDE DEF P
<1>5. RowsOK(V) /\ Quiet(P, V) /\ V.work = P.work
  <2>1. \A s \in S : s \in DOMAIN P.sess /\ P.sess[s].status \notin ClosedSession
    BY <1>4 DEF Sessions, Live, ClosedSession
  <2>2. "abandoned" \in ClosedSession
    BY DEF ClosedSession
  <2> HIDE DEF S
  <2> QED BY <1>4, <2>1, <2>2, MoveSessionsQuiet
<1> HIDE DEF V
<1>6. ttl \in BOOLEAN
  <2>1. T.work[k].sess \in 1..Len(T.sess) /\ Len(T.sess) \in Nat /\ DOMAIN T.sess = 1..Len(T.sess)
    BY <1>2, Shape
  <2>2. T.sess[Len(T.sess)] \in SessionRow
    BY <2>1, Shape
  <2> QED BY <2>2 DEF SessionRow, LatestSession
<1>7. Quiet(T, V)
  BY <1>3, <1>4, <1>5, QuietTransitive
<1>8. Kept(T, V) /\ Remembered(T, V) /\ (Pinned(T) => Pinned(V))
  BY <1>7, QuietKeeps DEF Ended
<1> HIDE DEF ttl
<1>9. /\ Kept(V, U) /\ Remembered(V, U) /\ U.status = "pending" /\ (InOrder(V) => InOrder(U))
      /\ Len(U.work) = Len(T.work) + 1 /\ LastRunner(U) = NoRunner
      /\ (Followed(V) => Followed(U)) /\ (Pinned(V) => Pinned(U))
  BY <1>5, <1>6, <1>7, RecoveredHistory DEF Quiet
<1>r. RowsOK(U)
  BY <1>5, <1>6, RequeuedRows, WithNewSessionRows
<1> HIDE DEF U
<1>10. Kept(T, U) /\ Remembered(T, U) /\ (Pinned(T) => Pinned(U))
  BY <1>8, <1>9, KeptTransitive, RememberedTransitive
<1>11. ASSUME Disciplined(T), Followed(T) PROVE Followed(V)
  <2> SUFFICES ASSUME NEW i \in DOMAIN T.work PROVE FollowedRow(V.work[i])
    BY <1>7 DEF Followed, Quiet
  <2>1. LatestPrompts(T) = {k}
    BY <1>2, <1>11, LatestIsActive DEF Active
  <2>2. FollowedRow(T.work[i]) /\ FollowedRow(T.work[k])
    BY <1>2, <1>11 DEF Followed
  <2>3. I = {k}
    BY <2>1, <2>2, <1>2, <1>i DEF FollowedRow
  <2>4. DOMAIN A.work = DOMAIN T.work
    BY <1>3 DEF Quiet
  <2>5. /\ V.work[i].status = IF i = k THEN "lost" ELSE T.work[i].status
        /\ V.work[i].prompt = IF i = k THEN "failed" ELSE T.work[i].prompt
    BY <2>3, <2>4, <1>3, <1>4, <1>5
  <2> QED BY <2>2, <2>5 DEF FollowedRow
<1>12. InOrder(T) => InOrder(V)
  BY <1>7, QuietOrder
<1> QED BY <1>1, <1>r, <1>9, <1>10, <1>11, <1>12

\* reapExpiredLeases.
LEMMA ReapLeasesHistory ==
  ASSUME NEW T, RowsOK(T),
         \A i \in Reclaimable(T) : T.status = "running" /\ Reclaimable(T) = {i}
  PROVE  LET U == ReapLeases(T) IN
         /\ Ended(T, U) /\ Remembered(T, U)
         /\ Pinned(T) => Pinned(U)
         /\ Disciplined(T) /\ Followed(T) => Followed(U)
<1>1. CASE Reclaimable(T) = {}
  BY <1>1, RollupStill, QuietKeeps, HushedKeeps DEF ReapLeases, Still
<1>2. CASE Reclaimable(T) # {}
  <2> DEFINE V == Reclaimed(T)
             U == FailExpired(V)
  <2>1. PICK k : T.status = "running" /\ Reclaimable(T) = {k}
    BY <1>2
  <2>2. /\ RowsOK(V) /\ Kept(T, V) /\ Remembered(T, V) /\ V.status = "pending"
        /\ Len(V.work) = Len(T.work) + 1
        /\ Pinned(T) => Pinned(V)
        /\ Disciplined(T) /\ Followed(T) => Followed(V)
    BY <2>1, ReclaimedHistory
  <2>3. ReapLeases(T) = U
    BY <1>2 DEF ReapLeases
  <2> HIDE DEF V
  <2>4. /\ Quiet(V, U) /\ Kept(V, U) /\ Remembered(V, U)
        /\ Pinned(V) => Pinned(U)
        /\ Followed(V) => Followed(U)
    BY <2>2, RollupStill, QuietKeeps, HushedKeeps DEF Still, Ended
  <2> HIDE DEF U
  <2>5. Reopens(T, U)
    <3>1. Len(U.work) # 0
      BY <2>2, <2>4, Shape DEF Quiet
    <3> QED BY <3>1, <2>1, <2>2, <2>4 DEF Reopens, Blank, Opened, Quiet, Terminal
  <2> QED BY <2>2, <2>3, <2>4, <2>5, KeptTransitive, RememberedTransitive DEF Ended
<1> QED BY <1>1, <1>2

(***************************************************************************)
(* Steps of the system.                                                    *)
(***************************************************************************)

Recorded(T) == Served(T) /\ Disciplined(T) /\ Followed(T) /\ Pinned(T)

\* What every step does to one aggregate; the second half holds of the tasks
\* that the step leaves in order.
Moves(T, U) ==
  /\ Ended(T, U)
  /\ Requests /\ Recorded(T) /\ InOrder(U) => Remembered(T, U) /\ Followed(U) /\ Pinned(U)

LEMMA StillMoves ==
  ASSUME NEW T, NEW U, RowsOK(T), Still(T, U)
  PROVE  Moves(T, U)
BY QuietKeeps, HushedKeeps DEF Still, Moves, Recorded

LEMMA HistoryStep ==
  ASSUME Rows, Blanks, [Next]_vars, NEW t \in Tasks
  PROVE  Moves(task[t], task'[t])
<1> USE ConstantsAssumption
<1>0. \A x \in Tasks : RowsOK(task[x])
  BY DEF Rows
<1>u. ASSUME UNCHANGED task PROVE Moves(task[t], task'[t])
  BY <1>0, <1>u, StillReflexive, StillMoves
<1>s. ASSUME NEW x \in Tasks, NEW U, task' = [task EXCEPT ![x] = U], Moves(task[x], U)
      PROVE  Moves(task[t], task'[t])
  <2>1. task' = [y \in Tasks |-> IF y = x THEN U ELSE task[y]]
    BY <1>s DEF Rows
  <2>2. Moves(task[t], task[t])
    BY <1>0, StillReflexive, StillMoves
  <2> QED BY <2>1, <2>2, <1>s
<1>c. ASSUME NEW x \in Tasks, NEW i \in DOMAIN task[x].work, NEW w \in WorkRow,
             QuietRow(task[x].work[i], w), HushedRow(task[x].work[i], w),
             task' = [task EXCEPT ![x] = [task[x] EXCEPT !.work = [task[x].work EXCEPT ![i] = w]]]
      PROVE  Moves(task[t], task'[t])
  <2> DEFINE U == [task[x] EXCEPT !.work = [task[x].work EXCEPT ![i] = w]]
  <2>1. Still(task[x], U)
    BY <1>0, <1>c, RowEditedQuiet DEF Still
  <2>2. task' = [task EXCEPT ![x] = U]
    BY <1>c
  <2> HIDE DEF U
  <2> QED BY <2>1, <2>2, <1>0, <1>s, StillMoves
<1>1. ASSUME NEW x \in Tasks, Client(x) PROVE Moves(task[t], task'[t])
  <2>1. ASSUME NEW mode \in ResumeModes, NEW iso \in BOOLEAN, NEW ttl \in BOOLEAN,
               task[x].status = "absent", task' = [task EXCEPT ![x] = FreshTask(mode, iso, ttl)]
        PROVE  Moves(task[t], task'[t])
    <3>1. Moves(task[x], FreshTask(mode, iso, ttl))
      BY <2>1, <1>0, FreshTaskHistory DEF Blanks, Moves
    <3> QED BY <2>1, <3>1, <1>s
  <2>2. CASE SubmitTask(x)
    <3>1. PICK in \in Submissions :
            task' = [task EXCEPT ![x] = FreshTask(in.mode, in.mode # "none" \/ in.iso, in.mode # "none")]
      BY <2>2 DEF SubmitTask
    <3>2. in.mode \in ResumeModes /\ (in.mode # "none" \/ in.iso) \in BOOLEAN /\ (in.mode # "none") \in BOOLEAN
      BY DEF SubmissionType, ResumeModes
    <3>3. task[x].status = "absent"
      BY <2>2 DEF SubmitTask
    <3> QED BY <3>1, <3>2, <3>3, <2>1
  <2>3. ASSUME NEW src \in Tasks, RerunTask(src, x) PROVE Moves(task[t], task'[t])
    <3>1. task[src].mode \in ResumeModes /\ task[src].iso \in BOOLEAN
      BY <1>0 DEF RowsOK, TaskRow
    <3> QED BY <2>1, <2>3, <3>1 DEF RerunTask
  <2>4. CASE RecoverTask(x)
    <3> DEFINE ttl == task[x].mode # "none"
               U == WithNewSession(Requeued(task[x]), ttl)
    <3>1. task' = [task EXCEPT ![x] = U]
      BY <2>4 DEF RecoverTask
    <3>2. ttl \in BOOLEAN
      OBVIOUS
    <3> HIDE DEF ttl
    <3>3. Moves(task[x], U)
      BY <3>2, <1>0, RecoveredHistory DEF Moves, Ended, Recorded
    <3> HIDE DEF U
    <3> QED BY <3>1, <3>3, <1>s
  <2>5. ASSUME NEW s \in DOMAIN task[x].sess, NEW r \in Runners, ResumeAgentSession(x, s, r)
        PROVE  Moves(task[t], task'[t])
    <3> DEFINE U == Resumed(task[x], s, r)
    <3>1. /\ task[x].sess[s].status \in Paused /\ <<x, s, r>> \in resumes
          /\ task' = [task EXCEPT ![x] = U]
      BY <2>5 DEF ResumeAgentSession, StillResumable
    <3>2. Requests /\ InOrder(task[x]) => Honoured(task[x], s, r)
      BY <3>1 DEF Requests
    <3>3. /\ Ended(task[x], U) /\ Remembered(task[x], U)
          /\ Followed(task[x]) => Followed(U)
          /\ Disciplined(task[x]) /\ Opened(task[x]) /\ InOrder(U) /\ Pinned(task[x])
               /\ Honoured(task[x], s, r) => Pinned(U)
      BY <3>1, <1>0, ResumedHistory
    <3>5. Opened(task[x])
      BY DEF Blanks, Blank
    <3> HIDE DEF U
    <3>6. InOrder(U) => InOrder(task[x])
      BY <3>3, KeptOrder DEF Ended
    <3>4. Moves(task[x], U)
      BY <3>2, <3>3, <3>5, <3>6 DEF Moves, Recorded
    <3> QED BY <3>1, <3>4, <1>s
  <2>6. ASSUME NEW s \in DOMAIN task[x].sess, CheckResume(x, s) PROVE UNCHANGED task
    BY <2>6 DEF CheckResume
  <2>7. CASE CancelTask(x)
    BY <2>7, <1>0, <1>s, OperatorStill, StillMoves DEF CancelTask
  <2>8. CASE ExtendTaskTimeout(x)
    BY <2>8, <1>0, <1>s, ExtendedStill, StillMoves DEF ExtendTaskTimeout
  <2> QED BY <1>1, <1>u, <2>2, <2>3, <2>4, <2>5, <2>6, <2>7, <2>8 DEF Client
<1>2. CASE ClearQueue
  BY <1>2, <1>0, OperatorStill, StillMoves DEF ClearQueue
<1>3. ASSUME NEW x \in Tasks, NEW i \in DOMAIN task[x].work, Runner(x, i)
      PROVE  Moves(task[t], task'[t])
  <2>0. task[x].work[i] \in WorkRow
    BY <1>0, Shape
  <2>1. ASSUME NEW r \in Runners, ClaimOnce(r, x, i) PROVE Moves(task[t], task'[t])
    <3>1. /\ task[x].status = "pending" /\ task[x].work[i].status = "pending"
          /\ task[x].work[i].req \in {NoRunner, r}
          /\ task' = [task EXCEPT ![x] = Claimed(task[x], i, r)]
      BY <2>1 DEF ClaimOnce, Claimable
    <3>2. Moves(task[x], Claimed(task[x], i, r))
      BY <3>1, <1>0, ClaimedHistory DEF Moves, Recorded
    <3> QED BY <3>1, <3>2, <1>s
  <2>2. CASE RenewLease(x, i)
    <3> DEFINE w == [task[x].work[i] EXCEPT !.lease = "live"]
    <3>1. w \in WorkRow /\ QuietRow(task[x].work[i], w) /\ HushedRow(task[x].work[i], w)
      BY <2>0 DEF WorkRow, QuietRow, HushedRow
    <3>2. task' = [task EXCEPT ![x] = [task[x] EXCEPT !.work = [task[x].work EXCEPT ![i] = w]]]
      BY <2>2 DEF RenewLease
    <3> HIDE DEF w
    <3> QED BY <3>1, <3>2, <1>c
  <2>3. ASSUME NEW e \in Events, RecordTaskEvent(x, i, e) PROVE Moves(task[t], task'[t])
    <3> DEFINE U == Reported(task[x], i, task[x].work[i].runner, e)
    <3>1. /\ task[x].work[i].status = "running" /\ task[x].status \in {"running", e.status}
          /\ task' = [task EXCEPT ![x] = U]
      BY <2>3 DEF RecordTaskEvent, EventAccepted
    <3>2. e \in EventType
      OBVIOUS
    <3>3. Moves(task[x], U)
      BY <3>1, <3>2, <1>0, ReportedHistory DEF Moves, Recorded
    <3> HIDE DEF U
    <3> QED BY <3>1, <3>3, <1>s
  <2> QED BY <1>3, <2>1, <2>2, <2>3 DEF Runner
<1>4. ASSUME NEW r \in Runners, NEW st \in Statuses, Heartbeat(r, st) PROVE UNCHANGED task
  BY <1>4 DEF Heartbeat
<1>5. CASE Reaper
  <2>1. CASE ReapStaleTasks
    BY <2>1, <1>0, RollupStill, StillMoves DEF ReapStaleTasks
  <2>2. CASE ReapExpiredLeases
    <3>1. /\ task'[t] = ReapLeases(task[t])
          /\ \A i \in Reclaimable(task[t]) : task[t].status = "running" /\ Reclaimable(task[t]) = {i}
      BY <2>2 DEF ReapExpiredLeases
    <3> QED BY <3>1, <1>0, ReapLeasesHistory DEF Moves, Recorded
  <2>3. CASE ReapStaleUserPrompts
    <3>1. task'[t] = SettledPrompts(task[t])
      BY <2>3 DEF ReapStaleUserPrompts
    <3> QED BY <3>1, <1>0, SettlingHistory, QuietKeeps DEF Moves, Recorded
  <2>4. CASE RevertOrphanedRunningUserPrompts
    <3>1. task'[t] = RevertedPrompts(task[t])
      BY <2>4 DEF RevertOrphanedRunningUserPrompts
    <3> QED BY <3>1, <1>0, SettlingHistory, QuietKeeps DEF Moves, Recorded
  <2>5. CASE ReapStaleSessionsForTerminalRuns
    BY <2>5, <1>0, SessionsStill, StillMoves DEF ReapStaleSessionsForTerminalRuns
  <2>6. CASE ReapUnavailablePinnedResumeTasks
    <3>1. task'[t] = ReapPinned(task[t])
      BY <2>6 DEF ReapUnavailablePinnedResumeTasks
    <3> QED BY <3>1, <1>0, ReapPinnedHistory, QuietKeeps DEF Moves, Recorded
  <2>7. CASE ReapIsolationUnavailableTasks
    BY <2>7, <1>0, RollupStill, StillMoves DEF ReapIsolationUnavailableTasks
  <2>8. ASSUME NEW x \in Tasks, ReapExpiredSessions(x) PROVE Moves(task[t], task'[t])
    <3>1. PICK S \in SUBSET Expirable(task[x]) :
            task' = [task EXCEPT ![x] = MoveSessions(task[x], S, "expired")]
      BY <2>8 DEF ReapExpiredSessions
    <3> QED BY <3>1, <1>0, <1>s, SessionsStill, StillMoves
  <2>9. ASSUME NEW x \in Tasks, ReapExpiredSessionArtifacts(x) PROVE Moves(task[t], task'[t])
    <3>1. PICK S : task' = [task EXCEPT ![x] = ClearedExports(task[x], S)]
      BY <2>9 DEF ReapExpiredSessionArtifacts
    <3> QED BY <3>1, <1>0, <1>s, ClearedExportsStill, StillMoves
  <2> QED BY <1>5, <2>1, <2>2, <2>3, <2>4, <2>5, <2>6, <2>7, <2>8, <2>9 DEF Reaper
<1>6. CASE Clock
  <2>1. ASSUME NEW x \in Tasks, NEW i \in DOMAIN task[x].work, LeaseElapses(x, i) \/ TimeoutElapses(x, i)
        PROVE  Moves(task[t], task'[t])
    <3>0. task[x].work[i] \in WorkRow
      BY <1>0, Shape
    <3>1. CASE LeaseElapses(x, i)
      <4> DEFINE w == [task[x].work[i] EXCEPT !.lease = "expired"]
      <4>1. w \in WorkRow /\ QuietRow(task[x].work[i], w) /\ HushedRow(task[x].work[i], w)
        BY <3>0 DEF WorkRow, QuietRow, HushedRow
      <4>2. task' = [task EXCEPT ![x] = [task[x] EXCEPT !.work = [task[x].work EXCEPT ![i] = w]]]
        BY <3>1 DEF LeaseElapses
      <4> HIDE DEF w
      <4> QED BY <4>1, <4>2, <1>c
    <3>2. CASE TimeoutElapses(x, i)
      <4> DEFINE w == [task[x].work[i] EXCEPT !.overdue = TRUE]
      <4>1. w \in WorkRow /\ QuietRow(task[x].work[i], w) /\ HushedRow(task[x].work[i], w)
        BY <3>0 DEF WorkRow, QuietRow, HushedRow
      <4>2. task' = [task EXCEPT ![x] = [task[x] EXCEPT !.work = [task[x].work EXCEPT ![i] = w]]]
        BY <3>2 DEF TimeoutElapses
      <4> HIDE DEF w
      <4> QED BY <4>1, <4>2, <1>c
    <3> QED BY <2>1, <3>1, <3>2
  <2>2. ASSUME NEW r \in Runners, Silence(r) PROVE UNCHANGED task
    BY <2>2 DEF Silence
  <2> QED BY <1>6, <1>u, <2>1, <2>2 DEF Clock
<1>7. CASE UNCHANGED vars
  BY <1>7, <1>u DEF vars
<1> QED BY <1>1, <1>2, <1>3, <1>4, <1>5, <1>6, <1>7, <1>u DEF Next

\* CheckResume, which reads a paused session, is the only step that records a
\* request.
LEMMA RequestsGrow ==
  ASSUME [Next]_vars, NEW q \in resumes'
  PROVE  \/ q \in resumes
         \/ UNCHANGED task /\ Honoured(task[q[1]], q[2], q[3])
<1>1. ASSUME NEW t \in Tasks, Client(t)
      PROVE  q \in resumes \/ (UNCHANGED task /\ Honoured(task[q[1]], q[2], q[3]))
  <2>1. ASSUME NEW s \in DOMAIN task[t].sess, CheckResume(t, s)
        PROVE  q \in resumes \/ (UNCHANGED task /\ Honoured(task[q[1]], q[2], q[3]))
    <3> DEFINE p == <<t, s, task[t].sess[s].pinned>>
    <3>1. resumes' = resumes \cup {p} /\ UNCHANGED task /\ task[t].sess[s].status \in Paused
      BY <2>1 DEF CheckResume, Resumable
    <3>2. Honoured(task[p[1]], p[2], p[3])
      BY <3>1 DEF Honoured, Paused
    <3> HIDE DEF p
    <3> QED BY <3>1, <3>2
  <2>2. ASSUME NEW s \in DOMAIN task[t].sess, NEW r \in Runners, ResumeAgentSession(t, s, r)
        PROVE  q \in resumes
    BY <2>2 DEF ResumeAgentSession
  <2>3. ASSUME NEW src \in Tasks, RerunTask(src, t) PROVE q \in resumes
    BY <2>3 DEF RerunTask
  <2>4. CASE SubmitTask(t) \/ RecoverTask(t) \/ CancelTask(t) \/ ExtendTaskTimeout(t)
    BY <2>4 DEF SubmitTask, RecoverTask, CancelTask, ExtendTaskTimeout
  <2> QED BY <1>1, <2>1, <2>2, <2>3, <2>4 DEF Client
<1>2. CASE ClearQueue
  BY <1>2 DEF ClearQueue
<1>3. ASSUME NEW t \in Tasks, NEW i \in DOMAIN task[t].work, Runner(t, i) PROVE q \in resumes
  BY <1>3 DEF Runner, ClaimOnce, RenewLease, RecordTaskEvent
<1>4. ASSUME NEW r \in Runners, NEW st \in Statuses, Heartbeat(r, st) PROVE q \in resumes
  BY <1>4 DEF Heartbeat
<1>5. CASE Reaper
  BY <1>5 DEF Reaper, ReapStaleTasks, ReapExpiredLeases, ReapStaleUserPrompts,
     RevertOrphanedRunningUserPrompts, ReapStaleSessionsForTerminalRuns,
     ReapUnavailablePinnedResumeTasks, ReapIsolationUnavailableTasks, ReapExpiredSessions,
     ReapExpiredSessionArtifacts
<1>6. CASE Clock
  BY <1>6 DEF Clock, LeaseElapses, TimeoutElapses, Silence
<1>7. CASE UNCHANGED vars
  BY <1>7 DEF vars
<1> QED BY <1>1, <1>2, <1>3, <1>4, <1>5, <1>6, <1>7 DEF Next

LEMMA RequestsStep ==
  ASSUME Asked, Requests, [Next]_vars,
         \A t \in Tasks : InOrder(task'[t]) => InOrder(task[t]) /\ Remembered(task[t], task'[t])
  PROVE  Requests'
<1> SUFFICES ASSUME NEW q \in resumes', InOrder(task'[q[1]]) PROVE Honoured(task'[q[1]], q[2], q[3])
  BY DEF Requests
<1>1. CASE q \in resumes
  <2>0. q[1] \in Tasks
    BY <1>1 DEF Asked
  <2>2. InOrder(task[q[1]]) /\ Remembered(task[q[1]], task'[q[1]])
    BY <2>0
  <2>1. Honoured(task[q[1]], q[2], q[3])
    BY <1>1, <2>2 DEF Requests
  <2> QED BY <2>1, <2>2 DEF Honoured, Remembered, RememberedSession
<1>2. CASE q \notin resumes
  BY <1>2, RequestsGrow
<1> QED BY <1>1, <1>2

LEMMA InitialHistory == Init => Blanks /\ History /\ Requests
<1> SUFFICES ASSUME Init PROVE Blanks /\ History /\ Requests
  OBVIOUS
<1>1. Absent \in TaskRow /\ Absent.work = <<>> /\ Absent.sess = <<>> /\ Absent.status = "absent"
  BY DEF Absent, TaskRow, ResumeModes
<1>2. RowsOK(Absent) /\ Blank(Absent) /\ Followed(Absent) /\ Pinned(Absent)
  BY <1>1 DEF RowsOK, Blank, Opened, Followed, Pinned
<1>3. \A T \in Inherited : Blank(T) /\ Followed(T) /\ Pinned(T)
  BY <1>1, <1>2, FreshTaskHistory DEF Inherited, ResumeModes
<1>4. \A t \in Tasks : task[t] \in Inherited
  BY DEF Init
<1> QED BY <1>3, <1>4 DEF Init, Blanks, History, Requests

LEMMA BlanksStep ==
  ASSUME Rows, Blanks, [Next]_vars
  PROVE  Blanks'
BY HistoryStep DEF Blanks, Moves, Ended, Reopens

LEMMA OrderStep ==
  ASSUME Rows, Blanks, [Next]_vars, NEW t \in Tasks, InOrder(task'[t])
  PROVE  InOrder(task[t])
BY HistoryStep, KeptOrder DEF Moves, Ended

\* In a task in order, the last row governs.
LEMMA DisciplineStep ==
  ASSUME Rows, Registry, Blanks, Discipline, [Next]_vars
  PROVE  Discipline'
<1> SUFFICES ASSUME NEW t \in Tasks, InOrder(task'[t]) PROVE Disciplined(task'[t])
  BY DEF Discipline
<1>1. Disciplined(task[t]) /\ Opened(task[t])
  BY OrderStep DEF Discipline, Blanks, Blank
<1>2. Governs
  BY NextStep
<1> QED BY <1>1, <1>2 DEF Governs

(***************************************************************************)
(* The queue that clients see.                                             *)
(***************************************************************************)

\* One step of TaskQueue, for one aggregate.
Opens(T, U) ==
  /\ T.status \in {"absent"} \cup Terminal
  /\ U.status = "pending" /\ Len(U.work) = Len(T.work) + 1 /\ LastRunner(U) = NoRunner

Starts(T, U) ==
  /\ T.status = "pending" /\ Len(T.work) <= MaxAttempts
  /\ U.status = "running" /\ Len(U.work) = Len(T.work)
  /\ LastRunner(U) \in Runners \/ (~InOrder(T) /\ LastRunner(U) = LastRunner(T))

Restarts(T, U) ==
  /\ T.status = "running" /\ AutoRecovery /\ Len(T.work) < MaxAttempts
  /\ U.status = "pending" /\ Len(U.work) = Len(T.work) + 1 /\ LastRunner(U) = NoRunner

\* Finish, Withdraw and Same.
Stops(T, U) ==
  /\ \/ U.status = T.status
     \/ T.status = "running" /\ U.status \in Terminal
     \/ T.status = "pending" /\ U.status \in {"error", "cancelled"}
  /\ Len(U.work) = Len(T.work) /\ LastRunner(U) = LastRunner(T)

\* Only what opens a task can put it out of order.
Hands(T, U) ==
  \/ Opens(T, U)
  \/ (Starts(T, U) \/ Restarts(T, U) \/ Stops(T, U)) /\ (InOrder(T) => InOrder(U))

\* A statement that ends work at most rolls up into an open task only.
Closes(T, U) ==
  U.status = T.status \/ (T.status \in Active /\ U.status \in {"error", "cancelled"})

LEMMA QuietStops ==
  ASSUME NEW T, RowsOK(T), NEW U, Quiet(T, U), Closes(T, U)
  PROVE  Stops(T, U) /\ (InOrder(T) => InOrder(U))
<1>1. Len(T.work) \in Nat /\ DOMAIN T.work = 1..Len(T.work)
  BY Shape
<1>2. LastRunner(U) = LastRunner(T)
  BY <1>1 DEF Quiet, QuietRow, LastRunner
<1>3. Len(U.work) = Len(T.work)
  BY DEF Quiet
<1>4. InOrder(T) => InOrder(U)
  BY QuietOrder
<1> QED BY <1>2, <1>3, <1>4 DEF Stops, Closes, Active, Terminal

LEMMA OperatorCloses ==
  ASSUME NEW T, RowsOK(T)
  PROVE  /\ T.status \in Active => Closes(T, Cancelled(CancelAttempts(T, Active)))
         /\ Closes(T, Cleared(T)) /\ Closes(T, Extended(T))
         /\ \A S : Closes(T, ClearedExports(T, S))
<1>1. \A S : RowsOK(CancelAttempts(T, S)) /\ CancelAttempts(T, S).status = T.status
  BY CancelAttemptsRows
<1>2. T.status \in Active => Closes(T, Cancelled(CancelAttempts(T, Active)))
  BY <1>1, CancelledRows DEF Closes
<1>3. Closes(T, Cleared(T))
  BY <1>1, CancelledRows DEF Closes, Cleared, Active
<1>4. Closes(T, Extended(T)) /\ \A S : Closes(T, ClearedExports(T, S))
  BY ColumnsKeepStatus DEF Extended, ClearedExports, Closes
<1> QED BY <1>2, <1>3, <1>4

LEMMA RollupCloses ==
  ASSUME NEW T, RowsOK(T)
  PROVE  /\ Closes(T, ReapStale(T)) /\ Closes(T, ReapIsolation(T))
         /\ Closes(T, FailExpired(T)) /\ (T.status = "pending" => FailExpired(T).status = "pending")
<1>1. \A I : \A st \in AttemptStatus :
        /\ RowsOK(MoveAttempts(T, I, st)) /\ MoveAttempts(T, I, st).status = T.status
  BY MoveAttemptsRows, MovesKeepStatus
<1>2. "timeout" \in AttemptStatus /\ "isolation_unavailable" \in AttemptStatus
  BY DEF AttemptStatus
<1>3. \A U : RowsOK(U) => FailedTask(U, "other").status = "error"
  BY FailedTaskRows
<1>4. Closes(T, ReapStale(T))
  BY <1>1, <1>2, <1>3 DEF ReapStale, Closes, Active
<1>5. Closes(T, FailExpired(T)) /\ (T.status = "pending" => FailExpired(T).status = "pending")
  BY <1>1, <1>2, <1>3 DEF FailExpired, Closes, Active
<1>6. Closes(T, ReapIsolation(T))
  BY <1>1, <1>2, <1>3 DEF ReapIsolation, Closes, Active
<1> QED BY <1>4, <1>5, <1>6

LEMMA PinnedCloses ==
  ASSUME NEW T, RowsOK(T)
  PROVE  Closes(T, ReapPinned(T))
<1> DEFINE U == MoveAttempts(T, OrphanedResumes(T), "runner_unavailable")
           V == IF U.status = "pending" /\ Attempts(U, {"runner_unavailable"}) # {}
                THEN FailedTask(U, "runner_unavailable") ELSE U
           W == MovePrompts(V, Prompts(V, {"pending"}), "failed")
           S == Sessions(W, {"resuming"}) \cap SessionsWithPrompt(W, {"failed"})
<1>1. RowsOK(U) /\ U.status = T.status
  <2>1. "runner_unavailable" \in AttemptStatus
    BY DEF AttemptStatus
  <2> QED BY <2>1, MoveAttemptsRows, MovesKeepStatus
<1>2. RowsOK(V) /\ Closes(T, V)
  <2> HIDE DEF U
  <2> QED BY <1>1, FailedTaskRows DEF Closes, Active
<1>3. RowsOK(W) /\ W.status = V.status
  <2>1. "failed" \in PromptStatus
    BY DEF PromptStatus
  <2> HIDE DEF V
  <2> QED BY <1>2, <2>1, MovePromptsRows, MovesKeepStatus
<1>4. MoveSessions(W, S, "error").status = V.status
  <2> HIDE DEF W, S
  <2> QED BY <1>3, MovesKeepStatus
<1>5. ReapPinned(T) = IF V.status = "error" /\ V.cat = "runner_unavailable"
                      THEN MoveSessions(W, S, "error") ELSE V
  BY DEF ReapPinned
<1> HIDE DEF U, V, W, S
<1> QED BY <1>2, <1>4, <1>5 DEF Closes

LEMMA SettlingCloses ==
  ASSUME NEW T, RowsOK(T)
  PROVE  Closes(T, SettledPrompts(T)) /\ Closes(T, RevertedPrompts(T)) /\ Closes(T, SettledSessions(T))
BY MovesKeepStatus DEF SettledPrompts, RevertedPrompts, SettledSessions, Closes

\* The claim hands an execution to the runner, of a task in order the newest.
LEMMA ClaimedStarts ==
  ASSUME NEW T, RowsOK(T), InOrder(T) => Disciplined(T), NEW i \in DOMAIN T.work, NEW r \in Runners,
         T.status = "pending", T.work[i].status = "pending", T.work[i].req \in {NoRunner, r},
         Len(T.work) <= MaxAttempts
  PROVE  Starts(T, Claimed(T, i, r)) /\ (InOrder(T) => InOrder(Claimed(T, i, r)))
<1> DEFINE U == Claimed(T, i, r)
<1>1. InOrder(T) => i = Len(T.work)
  BY LatestIsActive DEF Active
<1>2. Len(T.work) \in Nat /\ DOMAIN T.work = 1..Len(T.work)
  BY Shape
<1>3. /\ U.status = "running" /\ Len(U.work) = Len(T.work) /\ DOMAIN U.work = DOMAIN T.work
      /\ \A j \in DOMAIN T.work : /\ U.work[j].sess = T.work[j].sess
                                  /\ U.work[j].runner = IF j = i THEN r ELSE T.work[j].runner
  BY ClaimedHistory
<1> HIDE DEF U
<1>4. LastRunner(U) = IF i = Len(T.work) THEN r ELSE LastRunner(T)
  BY <1>2, <1>3 DEF LastRunner
<1>5. InOrder(T) => InOrder(U)
  BY <1>3 DEF InOrder
<1> QED BY <1>1, <1>3, <1>4, <1>5 DEF Starts, U

LEMMA ReportedStops ==
  ASSUME NEW T, RowsOK(T), NEW i \in DOMAIN T.work, NEW e \in EventType,
         T.work[i].status = "running", T.status \in {"running", e.status}
  PROVE  LET U == Reported(T, i, T.work[i].runner, e) IN Stops(T, U) /\ (InOrder(T) => InOrder(U))
<1> DEFINE U == Reported(T, i, T.work[i].runner, e)
<1>1. Len(T.work) \in Nat /\ DOMAIN T.work = 1..Len(T.work)
  BY Shape
<1>2. /\ U.status = e.status /\ Len(U.work) = Len(T.work) /\ DOMAIN U.work = DOMAIN T.work
      /\ \A j \in DOMAIN T.work : /\ U.work[j].runner = T.work[j].runner
                                  /\ U.work[j].sess = T.work[j].sess
  BY ReportedHistory
<1>3. e.status \in {"running"} \cup Terminal
  BY DEF EventType, Terminal
<1> HIDE DEF U
<1>4. LastRunner(U) = LastRunner(T)
  BY <1>1, <1>2 DEF LastRunner
<1>5. Stops(T, U)
  BY <1>2, <1>3, <1>4 DEF Stops
<1>6. InOrder(T) => InOrder(U)
  BY <1>2 DEF InOrder
<1> QED BY <1>5, <1>6 DEF U

LEMMA ReapLeasesHands ==
  ASSUME NEW T, RowsOK(T),
         \A i \in Reclaimable(T) : T.status = "running" /\ Reclaimable(T) = {i}
  PROVE  Hands(T, ReapLeases(T))
<1>1. CASE Reclaimable(T) = {}
  BY <1>1, RollupStill, RollupCloses, QuietStops DEF ReapLeases, Still, Hands
<1>2. CASE Reclaimable(T) # {}
  <2> DEFINE V == Reclaimed(T)
             U == FailExpired(V)
  <2>1. PICK k : T.status = "running" /\ Reclaimable(T) = {k}
    BY <1>2
  <2>2. AutoRecovery /\ Len(T.work) < MaxAttempts
    BY <2>1 DEF Reclaimable
  <2>3. /\ RowsOK(V) /\ V.status = "pending" /\ Len(V.work) = Len(T.work) + 1 /\ LastRunner(V) = NoRunner
        /\ InOrder(T) => InOrder(V)
    BY <2>1, ReclaimedHistory
  <2>4. ReapLeases(T) = U
    BY <1>2 DEF ReapLeases
  <2> HIDE DEF V
  <2>5. U.status = "pending" /\ Stops(V, U) /\ (InOrder(V) => InOrder(U))
    BY <2>3, RollupStill, RollupCloses, QuietStops DEF Still
  <2> HIDE DEF U
  <2> QED BY <2>1, <2>2, <2>3, <2>4, <2>5 DEF Hands, Restarts, Stops
<1> QED BY <1>1, <1>2

\* Every step hands each task on as the queue does.
LEMMA HandsStep ==
  ASSUME Rows, Blanks, Discipline, [Next]_vars, NEW t \in Tasks
  PROVE  Hands(task[t], task'[t])
<1> USE ConstantsAssumption
<1>0. \A x \in Tasks : RowsOK(task[x]) /\ (InOrder(task[x]) => Disciplined(task[x])) /\ Blank(task[x])
  BY DEF Rows, Discipline, Blanks
<1>q. ASSUME NEW x \in Tasks, NEW U, Quiet(task[x], U), Closes(task[x], U) PROVE Hands(task[x], U)
  BY <1>q, <1>0, QuietStops DEF Hands
<1>r. Hands(task[t], task[t])
  BY DEF Hands, Stops
<1>u. ASSUME UNCHANGED task PROVE Hands(task[t], task'[t])
  BY <1>u, <1>r
<1>s. ASSUME NEW x \in Tasks, NEW U, task' = [task EXCEPT ![x] = U], Hands(task[x], U)
      PROVE  Hands(task[t], task'[t])
  <2>1. task' = [y \in Tasks |-> IF y = x THEN U ELSE task[y]]
    BY <1>s DEF Rows
  <2> QED BY <2>1, <1>r, <1>s
<1>c. ASSUME NEW x \in Tasks, NEW i \in DOMAIN task[x].work, NEW w \in WorkRow,
             QuietRow(task[x].work[i], w), HushedRow(task[x].work[i], w),
             task' = [task EXCEPT ![x] = [task[x] EXCEPT !.work = [task[x].work EXCEPT ![i] = w]]]
      PROVE  Hands(task[t], task'[t])
  <2> DEFINE U == [task[x] EXCEPT !.work = [task[x].work EXCEPT ![i] = w]]
  <2>1. Quiet(task[x], U)
    BY <1>0, <1>c, RowEditedQuiet
  <2>2. Closes(task[x], U)
    BY <1>0, ColumnsKeepStatus DEF Closes
  <2>3. task' = [task EXCEPT ![x] = U]
    BY <1>c
  <2> HIDE DEF U
  <2> QED BY <2>1, <2>2, <2>3, <1>q, <1>s
<1>1. ASSUME NEW x \in Tasks, Client(x) PROVE Hands(task[t], task'[t])
  <2>1. ASSUME NEW mode \in ResumeModes, NEW iso \in BOOLEAN, NEW ttl \in BOOLEAN,
               task[x].status = "absent", task' = [task EXCEPT ![x] = FreshTask(mode, iso, ttl)]
        PROVE  Hands(task[t], task'[t])
    <3> DEFINE U == FreshTask(mode, iso, ttl)
    <3>1. Len(task[x].work) = 0
      BY <2>1, <1>0 DEF Blank
    <3>2. U.status = "pending" /\ Len(U.work) = 1 /\ LastRunner(U) = NoRunner
      BY <2>1, <1>0, FreshTaskHistory
    <3> HIDE DEF U
    <3>3. Hands(task[x], U)
      BY <2>1, <3>1, <3>2 DEF Hands, Opens
    <3> QED BY <2>1, <3>3, <1>s DEF U
  <2>2. CASE SubmitTask(x)
    <3>1. PICK in \in Submissions :
            task' = [task EXCEPT ![x] = FreshTask(in.mode, in.mode # "none" \/ in.iso, in.mode # "none")]
      BY <2>2 DEF SubmitTask
    <3>2. in.mode \in ResumeModes /\ (in.mode # "none" \/ in.iso) \in BOOLEAN /\ (in.mode # "none") \in BOOLEAN
      BY DEF SubmissionType, ResumeModes
    <3>3. task[x].status = "absent"
      BY <2>2 DEF SubmitTask
    <3> QED BY <3>1, <3>2, <3>3, <2>1
  <2>3. ASSUME NEW src \in Tasks, RerunTask(src, x) PROVE Hands(task[t], task'[t])
    <3>1. task[src].mode \in ResumeModes /\ task[src].iso \in BOOLEAN
      BY <1>0 DEF RowsOK, TaskRow
    <3> QED BY <2>1, <2>3, <3>1 DEF RerunTask
  <2>4. CASE RecoverTask(x)
    <3> DEFINE ttl == task[x].mode # "none"
               U == WithNewSession(Requeued(task[x]), ttl)
    <3>1. task' = [task EXCEPT ![x] = U] /\ task[x].status \in Terminal
      BY <2>4 DEF RecoverTask
    <3>2. ttl \in BOOLEAN
      OBVIOUS
    <3> HIDE DEF ttl
    <3>3. Opens(task[x], U)
      BY <3>1, <3>2, <1>0, RecoveredHistory DEF Opens
    <3> HIDE DEF U
    <3> QED BY <3>1, <3>3, <1>s DEF Hands
  <2>5. ASSUME NEW s \in DOMAIN task[x].sess, NEW r \in Runners, ResumeAgentSession(x, s, r)
        PROVE  Hands(task[t], task'[t])
    <3> DEFINE U == Resumed(task[x], s, r)
    <3>1. /\ task[x].sess[s].status \in Paused /\ task[x].status \in Terminal
          /\ task' = [task EXCEPT ![x] = U]
      BY <2>5 DEF ResumeAgentSession, StillResumable
    <3>2. Opens(task[x], U)
      BY <3>1, <1>0, ResumedHistory DEF Opens
    <3> HIDE DEF U
    <3> QED BY <3>1, <3>2, <1>s DEF Hands
  <2>6. ASSUME NEW s \in DOMAIN task[x].sess, CheckResume(x, s) PROVE UNCHANGED task
    BY <2>6 DEF CheckResume
  <2>7. CASE CancelTask(x)
    BY <2>7, <1>0, <1>q, <1>s, OperatorStill, OperatorCloses DEF CancelTask, Still
  <2>8. CASE ExtendTaskTimeout(x)
    BY <2>8, <1>0, <1>q, <1>s, ExtendedStill, OperatorCloses DEF ExtendTaskTimeout, Still
  <2> QED BY <1>1, <1>u, <2>2, <2>3, <2>4, <2>5, <2>6, <2>7, <2>8 DEF Client
<1>2. CASE ClearQueue
  BY <1>2, <1>0, <1>q, OperatorStill, OperatorCloses DEF ClearQueue, Still
<1>3. ASSUME NEW x \in Tasks, NEW i \in DOMAIN task[x].work, Runner(x, i)
      PROVE  Hands(task[t], task'[t])
  <2>1. ASSUME NEW r \in Runners, ClaimOnce(r, x, i) PROVE Hands(task[t], task'[t])
    <3>1. /\ task[x].status = "pending" /\ task[x].work[i].status = "pending"
          /\ task[x].work[i].req \in {NoRunner, r} /\ Len(task[x].work) <= MaxAttempts
          /\ task' = [task EXCEPT ![x] = Claimed(task[x], i, r)]
      BY <2>1 DEF ClaimOnce, Claimable
    <3>2. /\ Starts(task[x], Claimed(task[x], i, r))
          /\ InOrder(task[x]) => InOrder(Claimed(task[x], i, r))
      BY <3>1, <1>0, ClaimedStarts
    <3> QED BY <3>1, <3>2, <1>s DEF Hands
  <2>2. CASE RenewLease(x, i)
    <3> DEFINE w == [task[x].work[i] EXCEPT !.lease = "live"]
    <3>0. task[x].work[i] \in WorkRow
      BY <1>0, Shape
    <3>1. w \in WorkRow /\ QuietRow(task[x].work[i], w) /\ HushedRow(task[x].work[i], w)
      BY <3>0 DEF WorkRow, QuietRow, HushedRow
    <3>2. task' = [task EXCEPT ![x] = [task[x] EXCEPT !.work = [task[x].work EXCEPT ![i] = w]]]
      BY <2>2 DEF RenewLease
    <3> HIDE DEF w
    <3> QED BY <3>1, <3>2, <1>c
  <2>3. ASSUME NEW e \in Events, RecordTaskEvent(x, i, e) PROVE Hands(task[t], task'[t])
    <3> DEFINE U == Reported(task[x], i, task[x].work[i].runner, e)
    <3>1. /\ task[x].work[i].status = "running" /\ task[x].status \in {"running", e.status}
          /\ task' = [task EXCEPT ![x] = U]
      BY <2>3 DEF RecordTaskEvent, EventAccepted
    <3>2. e \in EventType
      OBVIOUS
    <3>3. Stops(task[x], U) /\ (InOrder(task[x]) => InOrder(U))
      BY <3>1, <3>2, <1>0, ReportedStops
    <3> HIDE DEF U
    <3> QED BY <3>1, <3>3, <1>s DEF Hands
  <2> QED BY <1>3, <2>1, <2>2, <2>3 DEF Runner
<1>4. ASSUME NEW r \in Runners, NEW st \in Statuses, Heartbeat(r, st) PROVE UNCHANGED task
  BY <1>4 DEF Heartbeat
<1>5. CASE Reaper
  <2>1. CASE ReapStaleTasks
    BY <2>1, <1>0, <1>q, RollupStill, RollupCloses DEF ReapStaleTasks, Still
  <2>2. CASE ReapExpiredLeases
    <3>1. /\ task'[t] = ReapLeases(task[t])
          /\ \A i \in Reclaimable(task[t]) : task[t].status = "running" /\ Reclaimable(task[t]) = {i}
      BY <2>2 DEF ReapExpiredLeases
    <3> QED BY <3>1, <1>0, ReapLeasesHands
  <2>3. CASE ReapStaleUserPrompts
    BY <2>3, <1>0, <1>q, SettlingHistory, SettlingCloses DEF ReapStaleUserPrompts
  <2>4. CASE RevertOrphanedRunningUserPrompts
    BY <2>4, <1>0, <1>q, SettlingHistory, SettlingCloses DEF RevertOrphanedRunningUserPrompts
  <2>5. CASE ReapStaleSessionsForTerminalRuns
    BY <2>5, <1>0, <1>q, SessionsStill, SettlingCloses DEF ReapStaleSessionsForTerminalRuns, Still
  <2>6. CASE ReapUnavailablePinnedResumeTasks
    BY <2>6, <1>0, <1>q, ReapPinnedHistory, PinnedCloses DEF ReapUnavailablePinnedResumeTasks
  <2>7. CASE ReapIsolationUnavailableTasks
    BY <2>7, <1>0, <1>q, RollupStill, RollupCloses DEF ReapIsolationUnavailableTasks, Still
  <2>8. ASSUME NEW x \in Tasks, ReapExpiredSessions(x) PROVE Hands(task[t], task'[t])
    <3>1. PICK S \in SUBSET Expirable(task[x]) :
            task' = [task EXCEPT ![x] = MoveSessions(task[x], S, "expired")]
      BY <2>8 DEF ReapExpiredSessions
    <3>2. Quiet(task[x], MoveSessions(task[x], S, "expired"))
      BY <1>0, SessionsStill DEF Still
    <3>3. Closes(task[x], MoveSessions(task[x], S, "expired"))
      BY <1>0, MovesKeepStatus DEF Closes
    <3> QED BY <3>1, <3>2, <3>3, <1>q, <1>s
  <2>9. ASSUME NEW x \in Tasks, ReapExpiredSessionArtifacts(x) PROVE Hands(task[t], task'[t])
    <3>1. PICK S : task' = [task EXCEPT ![x] = ClearedExports(task[x], S)]
      BY <2>9 DEF ReapExpiredSessionArtifacts
    <3> QED BY <3>1, <1>0, <1>q, <1>s, ClearedExportsStill, OperatorCloses DEF Still
  <2> QED BY <1>5, <2>1, <2>2, <2>3, <2>4, <2>5, <2>6, <2>7, <2>8, <2>9 DEF Reaper
<1>6. CASE Clock
  <2>1. ASSUME NEW x \in Tasks, NEW i \in DOMAIN task[x].work, LeaseElapses(x, i) \/ TimeoutElapses(x, i)
        PROVE  Hands(task[t], task'[t])
    <3>0. task[x].work[i] \in WorkRow
      BY <1>0, Shape
    <3>1. CASE LeaseElapses(x, i)
      <4> DEFINE w == [task[x].work[i] EXCEPT !.lease = "expired"]
      <4>1. w \in WorkRow /\ QuietRow(task[x].work[i], w) /\ HushedRow(task[x].work[i], w)
        BY <3>0 DEF WorkRow, QuietRow, HushedRow
      <4>2. task' = [task EXCEPT ![x] = [task[x] EXCEPT !.work = [task[x].work EXCEPT ![i] = w]]]
        BY <3>1 DEF LeaseElapses
      <4> HIDE DEF w
      <4> QED BY <4>1, <4>2, <1>c
    <3>2. CASE TimeoutElapses(x, i)
      <4> DEFINE w == [task[x].work[i] EXCEPT !.overdue = TRUE]
      <4>1. w \in WorkRow /\ QuietRow(task[x].work[i], w) /\ HushedRow(task[x].work[i], w)
        BY <3>0 DEF WorkRow, QuietRow, HushedRow
      <4>2. task' = [task EXCEPT ![x] = [task[x] EXCEPT !.work = [task[x].work EXCEPT ![i] = w]]]
        BY <3>2 DEF TimeoutElapses
      <4> HIDE DEF w
      <4> QED BY <4>1, <4>2, <1>c
    <3> QED BY <2>1, <3>1, <3>2
  <2>2. ASSUME NEW r \in Runners, Silence(r) PROVE UNCHANGED task
    BY <2>2 DEF Silence
  <2> QED BY <1>6, <1>u, <2>1, <2>2 DEF Clock
<1>7. CASE UNCHANGED vars
  BY <1>7, <1>u DEF vars
<1> QED BY <1>1, <1>2, <1>3, <1>4, <1>5, <1>6, <1>7, <1>u DEF Next

LEMMA InitialQueue == Init => Queue!Init
<1> SUFFICES ASSUME Init PROVE Queue!Init
  OBVIOUS
<1>1. Absent \in TaskRow /\ Absent.work = <<>> /\ Absent.sess = <<>> /\ Absent.status = "absent"
  BY DEF Absent, TaskRow, ResumeModes
<1>2. RowsOK(Absent) /\ Blank(Absent) /\ Len(Absent.work) = 0
  BY <1>1 DEF RowsOK, Blank, Opened
<1>3. \A T \in Inherited :
        /\ InOrder(T)
        /\ \/ T.status = "absent" /\ Len(T.work) = 0 /\ LastRunner(T) = NoRunner
           \/ T.status = "pending" /\ Len(T.work) = 1 /\ LastRunner(T) = NoRunner
  <2>1. InOrder(Absent)
    BY <1>1 DEF InOrder
  <2> QED BY <2>1, <1>1, <1>2, FreshTaskHistory DEF Inherited, ResumeModes, LastRunner
<1>4. \A t \in Tasks : task[t] \in Inherited
  BY DEF Init
<1> QED BY <1>3, <1>4 DEF Queue!Init

LEMMA QueueStep ==
  ASSUME Rows, Blanks, Discipline, [Next]_vars
  PROVE  Queue!Next
<1>1. \A t \in Tasks : Hands(task[t], task'[t]) /\ (InOrder(task'[t]) => InOrder(task[t]))
  BY HandsStep, OrderStep
<1> SUFFICES ASSUME NEW t \in Tasks
             PROVE  Queue!Enqueue(t) \/ Queue!Claim(t) \/ Queue!Finish(t) \/ Queue!Withdraw(t)
                      \/ Queue!Requeue(t) \/ Queue!Same(t)
  BY DEF Queue!Next
<1>2. CASE Opens(task[t], task'[t])
  BY <1>1, <1>2 DEF Opens, Queue!Enqueue, Queue!Finished, Terminal
<1>o. (InOrder(task'[t]) <=> InOrder(task[t])) \/ Opens(task[t], task'[t])
  BY <1>1 DEF Hands
<1>3. CASE Starts(task[t], task'[t]) /\ ~Opens(task[t], task'[t])
  BY <1>o, <1>3 DEF Starts, Queue!Claim
<1>4. CASE Restarts(task[t], task'[t]) /\ ~Opens(task[t], task'[t])
  BY <1>o, <1>4 DEF Restarts, Queue!Requeue
<1>5. CASE Stops(task[t], task'[t]) /\ ~Opens(task[t], task'[t])
  BY <1>o, <1>5 DEF Stops, Queue!Finish, Queue!Withdraw, Queue!Same, Queue!Finished, Terminal
<1> QED BY <1>1, <1>2, <1>3, <1>4, <1>5 DEF Hands

(***************************************************************************)
(* Theorems.                                                               *)
(***************************************************************************)

\* Whatever sessions clients resume and however late a report, a renewal or a
\* pass of another replica's reaper arrives: an attempt that ended keeps its
\* outcome and its runner, a closed session stays closed, and a finished task
\* is reopened only together with one new prompt and attempt.
THEOREM EndedForGood == Spec => EndedStaysEnded
<1>1. Init => Rows /\ Registry /\ Blanks
  BY Initial, InitialHistory
<1>2. Rows /\ Registry /\ Blanks /\ [Next]_vars => (Rows /\ Registry /\ Blanks)'
  BY NextStep, BlanksStep
<1>3. Rows /\ Blanks /\ [Next]_vars =>
        [\A t \in Tasks :
           /\ \A i \in DOMAIN task[t].work :
                task[t].work[i].status \notin Active =>
                  /\ task'[t].work[i].status = task[t].work[i].status
                  /\ task'[t].work[i].runner = task[t].work[i].runner
           /\ \A s \in DOMAIN task[t].sess :
                task[t].sess[s].status \in ClosedSession =>
                  task'[t].sess[s].status = task[t].sess[s].status
           /\ task[t].status \in Terminal /\ task'[t].status \notin Terminal =>
                /\ task'[t].status = "pending"
                /\ Len(task'[t].work) = Len(task[t].work) + 1]_vars
  BY HistoryStep DEF Moves, Ended, Kept, KeptRow, KeptSession, Reopens
<1> QED BY <1>1, <1>2, <1>3, PTL DEF Spec, EndedStaysEnded

\* In a task in order the last row governs: no statement that looks at all
\* attempts of a task, or at its latest session or prompt, hits anything but the
\* work in flight.
THEOREM LastRowAlwaysGoverns == Spec => []LastRowGoverns
<1> DEFINE Inv == Rows /\ Registry /\ Blanks /\ Discipline
<1>1. Init => Inv
  BY Initial, InitialHistory
<1>2. Inv /\ [Next]_vars => Inv'
  BY NextStep, BlanksStep, DisciplineStep
<1>3. Inv => LastRowGoverns
  BY Aggregates
<1> QED BY <1>1, <1>2, <1>3, PTL DEF Spec

\* Of a task in order at most one attempt is in flight, the newest, and the task
\* shows its status: it is never executed twice at once.
THEOREM OneAttemptInFlight == Spec => []ActiveAttemptMatchesTask
<1>1. LastRowGoverns => ActiveAttemptMatchesTask
  BY DEF LastRowGoverns, ActiveAttemptMatchesTask, Attempts, Unsettled
<1> QED BY <1>1, LastRowAlwaysGoverns, PTL

\* And what is in flight belongs to the latest session, which is running or
\* resuming: no attempt outlives the pause, expiry or abandonment of its session.
THEOREM InFlightSessionLive == Spec => []WorkRunsInLiveSession
<1>1. LastRowGoverns => WorkRunsInLiveSession
  BY DEF LastRowGoverns, WorkRunsInLiveSession, Attempts, Unsettled, LatestSession
<1> QED BY <1>1, LastRowAlwaysGoverns, PTL

\* The inductive invariant behind the next two theorems.
LEMMA HistoryInvariant == Spec => [](Rows /\ History)
<1> DEFINE Inv == Rows /\ Registry /\ Asked /\ Discipline /\ Blanks /\ History /\ Requests
<1>1. Init => Inv
  BY Initial, InitialHistory DEF Init, Asked
<1>2. Inv /\ [Next]_vars => Inv'
  <2> SUFFICES ASSUME Inv, [Next]_vars PROVE Inv'
    OBVIOUS
  <2>1. (Rows /\ Registry /\ Asked /\ Discipline /\ Blanks)'
    BY NextStep, AskedStep, BlanksStep, DisciplineStep
  <2>2. \A t \in Tasks : InOrder(task[t]) => Recorded(task[t])
    BY DEF Rows, Discipline, History, Recorded
  <2>3. \A t \in Tasks : InOrder(task'[t]) =>
          /\ InOrder(task[t]) /\ Remembered(task[t], task'[t])
          /\ Followed(task'[t]) /\ Pinned(task'[t])
    BY <2>2, OrderStep, HistoryStep DEF Moves
  <2>4. History' /\ Requests'
    BY <2>3, RequestsStep DEF History
  <2> QED BY <2>1, <2>4
<1>3. Inv => Rows /\ History
  OBVIOUS
<1> QED BY <1>1, <1>2, <1>3, PTL DEF Spec

\* The prompt rows of a task in order never tell another story than its
\* attempts: claims and reports, which address "the latest prompt of the task",
\* and the reaper's statements over all prompts of a task reach the prompt of the
\* attempt they are about.
THEOREM PromptsTellTheTruth == Spec => []PromptFollowsAttempt
<1>1. History => PromptFollowsAttempt
  BY DEF History, Followed, FollowedRow, PromptFollowsAttempt
<1> QED BY <1>1, HistoryInvariant, PTL

\* A resumed session of a task in order executes on the runner that holds its
\* workspace, for any number of requests, of any age, that were checked before
\* the one that commits.
THEOREM ResumesStayHome == Spec => []ResumeKeepsRunner
<1>1. History => ResumeKeepsRunner
  BY DEF History, Pinned, PinnedRow, ResumeKeepsRunner, Attempts
<1> QED BY <1>1, HistoryInvariant, PTL

\* The rows, leases and roll-ups are an implementation of TaskQueue, for any
\* tasks, runners and attempt limit and whatever sessions clients resume: every
\* handler, claim, report and pass of the reaper is a step of the queue or none.
THEOREM LifecycleImplements == Spec => ImplementsTaskQueue
<1> DEFINE Inv == Rows /\ Registry /\ Discipline /\ Blanks
<1>1. Init => Inv /\ Queue!Init
  BY Initial, InitialHistory, InitialQueue
<1>2. Inv /\ [Next]_vars => Inv'
  BY NextStep, BlanksStep, DisciplineStep
<1>3. Inv /\ [Next]_vars => [Queue!Next]_(Queue!vars)
  BY QueueStep
<1> QED BY <1>1, <1>2, <1>3, PTL DEF Spec, ImplementsTaskQueue, Queue!Spec
=============================================================================
