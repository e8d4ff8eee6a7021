------------------------ MODULE TaskLifecycleProofs ------------------------
(***************************************************************************)
(* Proofs about TaskLifecycle, for every number of tasks, runners and      *)
(* attempts and every value of the configuration.                          *)
(***************************************************************************)
EXTENDS TaskLifecycle, TLAPS, SequenceTheorems, FiniteSetTheorems

(***************************************************************************)
(* The invariants, stated for one aggregate.                               *)
(***************************************************************************)

RowsOK(T) ==
  /\ T \in TaskRow
  /\ \A i \in DOMAIN T.work : T.work[i].sess \in DOMAIN T.sess

Served(T) ==
  /\ T.status = "running" => \E i \in DOMAIN T.work : T.work[i].status = "running"
  /\ T.status = "pending" => \E i \in DOMAIN T.work : T.work[i].status = "pending"

Governed(T, i) ==
  /\ T.work[i].status \in Unsettled =>
       /\ i = Len(T.work)
       /\ ~T.work[i].export
       /\ T.sess[Len(T.sess)].status \notin Paused
  /\ T.work[i].status \in Active =>
       /\ T.status = T.work[i].status
       /\ T.sess[Len(T.sess)].status \in Live
  /\ i = Len(T.work) => T.work[i].sess = Len(T.sess)

Disciplined(T) == \A i \in DOMAIN T.work : Governed(T, i)

\* A session is created together with its first row.
Opened(T) == Len(T.work) = 0 => Len(T.sess) = 0

\* No row is left that a claim, an event or a roll-up could still act on.
Settled(T) == \A i \in DOMAIN T.work : T.work[i].status \notin Unsettled

(***************************************************************************)
(* Sequences given by their elements.                                      *)
(***************************************************************************)

\* A function on 1..n is a sequence of length n.
LEMMA IndexedSeq ==
  ASSUME NEW S, NEW n \in Nat, NEW f \in [1..n -> S]
  PROVE  f \in Seq(S) /\ Len(f) = n /\ DOMAIN f = 1..n
<1>1. f \in Seq(S)
  BY IsASeq, SMT
<1> QED BY <1>1, LenProperties, SMT

\* The columns of a well-formed aggregate.
LEMMA Shape ==
  ASSUME NEW T, RowsOK(T)
  PROVE  /\ T.work \in Seq(WorkRow) /\ Len(T.work) \in Nat /\ DOMAIN T.work = 1..Len(T.work)
         /\ T.sess \in Seq(SessionRow) /\ Len(T.sess) \in Nat /\ DOMAIN T.sess = 1..Len(T.sess)
         /\ \A i \in DOMAIN T.work : T.work[i] \in WorkRow
         /\ \A s \in DOMAIN T.sess : T.sess[s] \in SessionRow
         /\ \A i \in DOMAIN T.work : T.work[i].sess \in DOMAIN T.sess
<1>1. T.work \in Seq(WorkRow) /\ T.sess \in Seq(SessionRow)
  BY DEF RowsOK, TaskRow
<1> QED BY <1>1, LenProperties DEF RowsOK

\* An UPDATE of work rows that keeps their sessions.
LEMMA WorkReplaced ==
  ASSUME NEW T, RowsOK(T),
         NEW f, f \in [DOMAIN T.work -> WorkRow],
         \A i \in DOMAIN T.work : f[i].sess = T.work[i].sess
  PROVE  /\ RowsOK([T EXCEPT !.work = f])
         /\ DOMAIN f = DOMAIN T.work /\ Len(f) = Len(T.work)
<1>1. f \in Seq(WorkRow) /\ Len(f) = Len(T.work) /\ DOMAIN f = DOMAIN T.work
  BY Shape, IndexedSeq
<1>2. [T EXCEPT !.work = f] \in TaskRow
  BY <1>1 DEF RowsOK, TaskRow
<1> QED BY <1>1, <1>2 DEF RowsOK, TaskRow

\* An UPDATE of session rows.
LEMMA SessReplaced ==
  ASSUME NEW T, RowsOK(T),
         NEW f, f \in [DOMAIN T.sess -> SessionRow]
  PROVE  /\ RowsOK([T EXCEPT !.sess = f])
         /\ DOMAIN f = DOMAIN T.sess /\ Len(f) = Len(T.sess)
<1>1. f \in Seq(SessionRow) /\ Len(f) = Len(T.sess) /\ DOMAIN f = DOMAIN T.sess
  BY Shape, IndexedSeq
<1>2. [T EXCEPT !.sess = f] \in TaskRow
  BY <1>1 DEF RowsOK, TaskRow
<1> QED BY <1>1, <1>2 DEF RowsOK, TaskRow

(***************************************************************************)
(* The UPDATE statements.                                                  *)
(***************************************************************************)

LEMMA MoveAttemptsRows ==
  ASSUME NEW T, RowsOK(T), NEW I, NEW st \in AttemptStatus
  PROVE  LET U == MoveAttempts(T, I, st) IN
         /\ RowsOK(U) /\ U = [T EXCEPT !.work = U.work]
         /\ DOMAIN U.work = DOMAIN T.work /\ Len(U.work) = Len(T.work)
         /\ \A i \in DOMAIN T.work :
              U.work[i] = IF i \in I THEN [T.work[i] EXCEPT !.status = st] ELSE T.work[i]
<1> DEFINE f == [i \in DOMAIN T.work |->
                  IF i \in I THEN [T.work[i] EXCEPT !.status = st] ELSE T.work[i]]
<1>0. \A i \in DOMAIN T.work : T.work[i] \in WorkRow
  BY Shape
<1>1. f \in [DOMAIN T.work -> WorkRow] /\ \A i \in DOMAIN T.work : f[i].sess = T.work[i].sess
  BY <1>0 DEF WorkRow
<1>2. MoveAttempts(T, I, st) = [T EXCEPT !.work = f]
  BY DEF MoveAttempts
<1>3. \A i \in DOMAIN T.work :
        f[i] = IF i \in I THEN [T.work[i] EXCEPT !.status = st] ELSE T.work[i]
  OBVIOUS
<1> HIDE DEF f
<1>4. [T EXCEPT !.work = f].work = f
  BY DEF RowsOK, TaskRow
<1> QED BY <1>1, <1>2, <1>3, <1>4, WorkReplaced

LEMMA MovePromptsRows ==
  ASSUME NEW T, RowsOK(T), NEW I, NEW st \in PromptStatus
  PROVE  LET U == MovePrompts(T, I, st) IN
         /\ RowsOK(U) /\ U = [T EXCEPT !.work = U.work]
         /\ DOMAIN U.work = DOMAIN T.work /\ Len(U.work) = Len(T.work)
         /\ \A i \in DOMAIN T.work :
              U.work[i] = IF i \in I THEN [T.work[i] EXCEPT !.prompt = st] ELSE T.work[i]
<1> DEFINE f == [i \in DOMAIN T.work |->
                  IF i \in I THEN [T.work[i] EXCEPT !.prompt = st] ELSE T.work[i]]
<1>0. \A i \in DOMAIN T.work : T.work[i] \in WorkRow
  BY Shape
<1>1. f \in [DOMAIN T.work -> WorkRow] /\ \A i \in DOMAIN T.work : f[i].sess = T.work[i].sess
  BY <1>0 DEF WorkRow
<1>2. MovePrompts(T, I, st) = [T EXCEPT !.work = f]
  BY DEF MovePrompts
<1>3. \A i \in DOMAIN T.work :
        f[i] = IF i \in I THEN [T.work[i] EXCEPT !.prompt = st] ELSE T.work[i]
  OBVIOUS
<1> HIDE DEF f
<1>4. [T EXCEPT !.work = f].work = f
  BY DEF RowsOK, TaskRow
<1> QED BY <1>1, <1>2, <1>3, <1>4, WorkReplaced

LEMMA MoveSessionsRows ==
  ASSUME NEW T, RowsOK(T), NEW S, NEW st \in Live \cup Paused \cup ClosedSession
  PROVE  LET U == MoveSessions(T, S, st) IN
         /\ RowsOK(U) /\ U = [T EXCEPT !.sess = U.sess]
         /\ DOMAIN U.sess = DOMAIN T.sess /\ Len(U.sess) = Len(T.sess)
         /\ \A s \in DOMAIN T.sess :
              U.sess[s] = IF s \in S THEN [T.sess[s] EXCEPT !.status = st] ELSE T.sess[s]
<1> DEFINE f == [s \in DOMAIN T.sess |->
                  IF s \in S THEN [T.sess[s] EXCEPT !.status = st] ELSE T.sess[s]]
<1>0. \A s \in DOMAIN T.sess : T.sess[s] \in SessionRow
  BY Shape
<1>1. f \in [DOMAIN T.sess -> SessionRow]
  BY <1>0 DEF SessionRow
<1>2. MoveSessions(T, S, st) = [T EXCEPT !.sess = f]
  BY DEF MoveSessions
<1>3. \A s \in DOMAIN T.sess :
        f[s] = IF s \in S THEN [T.sess[s] EXCEPT !.status = st] ELSE T.sess[s]
  OBVIOUS
<1> HIDE DEF f
<1>4. [T EXCEPT !.sess = f].sess = f
  BY DEF RowsOK, TaskRow
<1> QED BY <1>1, <1>2, <1>3, <1>4, SessReplaced

LEMMA WithNewSessionRows ==
  ASSUME NEW T, RowsOK(T), NEW ttl \in BOOLEAN
  PROVE  LET U == WithNewSession(T, ttl) IN
         /\ RowsOK(U)
         /\ U.status = T.status /\ U.mode = T.mode /\ U.iso = T.iso /\ U.cat = T.cat
         /\ Len(U.work) = Len(T.work) + 1 /\ DOMAIN U.work = 1..(Len(T.work) + 1)
         /\ Len(U.sess) = Len(T.sess) + 1 /\ DOMAIN U.sess = 1..(Len(T.sess) + 1)
         /\ \A i \in DOMAIN T.work : U.work[i] = T.work[i]
         /\ U.work[Len(T.work) + 1] = NewWork(Len(T.sess) + 1, NoRunner)
         /\ \A s \in DOMAIN T.sess : U.sess[s] = T.sess[s]
         /\ U.sess[Len(T.sess) + 1] = NewSession(ttl)
<1> DEFINE w == NewWork(Len(T.sess) + 1, NoRunner)
           x == NewSession(ttl)
           W == Append(T.work, w)
           X == Append(T.sess, x)
           U == WithNewSession(T, ttl)
<1>1. /\ T.work \in Seq(WorkRow) /\ Len(T.work) \in Nat /\ DOMAIN T.work = 1..Len(T.work)
      /\ T.sess \in Seq(SessionRow) /\ Len(T.sess) \in Nat /\ DOMAIN T.sess = 1..Len(T.sess)
      /\ \A i \in DOMAIN T.work : T.work[i].sess \in DOMAIN T.sess
  BY Shape
<1>2. w \in WorkRow /\ w.sess = Len(T.sess) + 1
  BY <1>1 DEF NewWork, WorkRow, PromptStatus, AttemptStatus, Active
<1>3. x \in SessionRow
  BY DEF NewSession, SessionRow, Live
<1>4. U = [T EXCEPT !.sess = X, !.work = W]
  BY DEF WithNewSession
<1> HIDE DEF w, x
<1>5. /\ W \in Seq(WorkRow) /\ Len(W) = Len(T.work) + 1 /\ DOMAIN W = 1..(Len(T.work) + 1)
      /\ \A i \in DOMAIN T.work : W[i] = T.work[i]
      /\ W[Len(T.work) + 1] = w
  BY <1>1, <1>2, AppendProperties, LenProperties
<1>6. /\ X \in Seq(SessionRow) /\ Len(X) = Len(T.sess) + 1 /\ DOMAIN X = 1..(Len(T.sess) + 1)
      /\ \A s \in DOMAIN T.sess : X[s] = T.sess[s]
      /\ X[Len(T.sess) + 1] = x
  BY <1>1, <1>3, AppendProperties, LenProperties
<1> HIDE DEF W, X, U
<1>7. /\ U \in TaskRow /\ U.work = W /\ U.sess = X
      /\ U.status = T.status /\ U.mode = T.mode /\ U.iso = T.iso /\ U.cat = T.cat
  BY <1>4, <1>5, <1>6 DEF RowsOK, TaskRow
<1>8. \A i \in DOMAIN W : W[i].sess \in DOMAIN X
  <2> TAKE i \in DOMAIN W
  <2>1. CASE i = Len(T.work) + 1
    BY <2>1, <1>1, <1>2, <1>5, <1>6
  <2>2. CASE i # Len(T.work) + 1
    BY <2>2, <1>1, <1>5, <1>6
  <2> QED BY <2>1, <2>2
<1> QED BY <1>5, <1>6, <1>7, <1>8 DEF RowsOK, U, w, x

(***************************************************************************)
(* Queueing new work keeps the invariants.                                 *)
(***************************************************************************)

LEMMA NewSessionGood ==
  ASSUME NEW T, RowsOK(T), NEW ttl \in BOOLEAN, T.status = "pending"
  PROVE  /\ RowsOK(WithNewSession(T, ttl))
         /\ Served(WithNewSession(T, ttl))
         /\ Settled(T) => Disciplined(WithNewSession(T, ttl))
<1> DEFINE U == WithNewSession(T, ttl)
           n == Len(T.work)
           m == Len(T.sess)
<1>1. /\ RowsOK(U) /\ U.status = "pending"
      /\ Len(U.work) = n + 1 /\ DOMAIN U.work = 1..(n + 1)
      /\ Len(U.sess) = m + 1
      /\ \A i \in DOMAIN T.work : U.work[i] = T.work[i]
      /\ U.work[n + 1] = NewWork(m + 1, NoRunner)
      /\ U.sess[m + 1] = NewSession(ttl)
  BY WithNewSessionRows
<1>2. n \in Nat /\ DOMAIN T.work = 1..n
  BY Shape
<1> HIDE DEF U, n, m
<1>3. U.work[n + 1].status = "pending" /\ ~U.work[n + 1].export /\ U.work[n + 1].sess = m + 1
  BY <1>1 DEF NewWork
<1>4. U.sess[m + 1].status = "running"
  BY <1>1 DEF NewSession
<1>5. Served(U)
  BY <1>1, <1>2, <1>3 DEF Served
<1>6. ASSUME Settled(T) PROVE Disciplined(U)
  <2> SUFFICES ASSUME NEW i \in DOMAIN U.work PROVE Governed(U, i)
    BY DEF Disciplined
  <2>1. CASE i = n + 1
    BY <2>1, <1>1, <1>3, <1>4 DEF Governed, Paused, Live
  <2>2. CASE i # n + 1
    <3>1. i \in DOMAIN T.work /\ U.work[i] = T.work[i] /\ i # Len(U.work)
      BY <2>2, <1>1, <1>2
    <3>2. U.work[i].status \notin Unsettled
      BY <3>1, <1>6 DEF Settled
    <3> QED BY <3>1, <3>2 DEF Governed, Unsettled
  <2> QED BY <2>1, <2>2
<1> QED BY <1>1, <1>5, <1>6 DEF U

LEMMA FreshTaskGood ==
  ASSUME NEW mode \in ResumeModes, NEW iso \in BOOLEAN, NEW ttl \in BOOLEAN
  PROVE  /\ RowsOK(FreshTask(mode, iso, ttl))
         /\ Served(FreshTask(mode, iso, ttl))
         /\ Disciplined(FreshTask(mode, iso, ttl))
<1> DEFINE T == [Absent EXCEPT !.status = "pending", !.mode = mode, !.iso = iso]
<1>1. Absent \in TaskRow /\ Absent.work = <<>> /\ Absent.sess = <<>>
  BY DEF Absent, TaskRow, ResumeModes
<1>2. T \in TaskRow /\ T.work = <<>> /\ T.sess = <<>> /\ T.status = "pending"
  BY <1>1 DEF TaskRow
<1>3. RowsOK(T) /\ Settled(T)
  BY <1>2 DEF RowsOK, Settled
<1> HIDE DEF T
<1> QED BY <1>2, <1>3, NewSessionGood DEF FreshTask, T

LEMMA RequeuedRows ==
  ASSUME NEW T, RowsOK(T)
  PROVE  /\ RowsOK(Requeued(T)) /\ Requeued(T).status = "pending"
         /\ Requeued(T).work = T.work /\ Requeued(T).sess = T.sess /\ Requeued(T).mode = T.mode
BY DEF Requeued, RowsOK, TaskRow

\* RecoverTask: the export of the latest prompt shows that its attempt settled.
LEMMA RecoveredGood ==
  ASSUME NEW T, RowsOK(T), NEW ttl \in BOOLEAN,
         NEW i \in LatestPrompts(T), T.work[i].export
  PROVE  /\ RowsOK(WithNewSession(Requeued(T), ttl))
         /\ Served(WithNewSession(Requeued(T), ttl))
         /\ Disciplined(T) => Disciplined(WithNewSession(Requeued(T), ttl))
<1>1. /\ RowsOK(Requeued(T)) /\ Requeued(T).status = "pending" /\ Requeued(T).work = T.work
  BY RequeuedRows
<1>2. ASSUME Disciplined(T) PROVE Settled(Requeued(T))
  <2> SUFFICES ASSUME NEW j \in DOMAIN T.work, T.work[j].status \in Unsettled PROVE FALSE
    BY <1>1 DEF Settled
  <2>1. j = Len(T.work) /\ ~T.work[j].export /\ T.work[j].sess = Len(T.sess)
    BY <1>2 DEF Disciplined, Governed
  <2>2. i \in DOMAIN T.work /\ j <= i
    BY <2>1 DEF LatestPrompts, IsLatestPrompt, LatestSession
  <2>3. i = j
    BY <2>1, <2>2, Shape
  <2> QED BY <2>1, <2>3
<1> QED BY <1>1, <1>2, NewSessionGood

\* ResumeAgentSession: the task stays in order only when its latest session is
\* resumed, and that this one is paused shows that its last attempt settled.
LEMMA ResumedGood ==
  ASSUME NEW T, RowsOK(T), NEW s \in DOMAIN T.sess, NEW r \in Runners, T.sess[s].status \in Paused
  PROVE  /\ RowsOK(Resumed(T, s, r))
         /\ Served(Resumed(T, s, r))
         /\ Disciplined(T) /\ Opened(T) /\ InOrder(Resumed(T, s, r)) =>
              s = Len(T.sess) /\ Disciplined(Resumed(T, s, r))
<1> DEFINE n == Len(T.work)
           m == Len(T.sess)
           w == NewWork(s, r)
           W == Append(T.work, w)
           y == [T.sess[s] EXCEPT !.status = "resuming"]
           X == [T.sess EXCEPT ![s] = y]
           U == Resumed(T, s, r)
<1>1. /\ T.work \in Seq(WorkRow) /\ n \in Nat /\ DOMAIN T.work = 1..n
      /\ T.sess \in Seq(SessionRow) /\ m \in Nat /\ DOMAIN T.sess = 1..m
      /\ \A j \in DOMAIN T.work : T.work[j].sess \in DOMAIN T.sess
      /\ T.sess[s] \in SessionRow
  BY Shape
<1>2. w \in WorkRow /\ w.sess = s /\ w.status = "pending" /\ ~w.export
  BY <1>1 DEF NewWork, WorkRow, PromptStatus, AttemptStatus, Active, SessionRow
<1>y. y \in SessionRow /\ y.status = "resuming"
  BY <1>1 DEF SessionRow, Live
<1>3. X \in [DOMAIN T.sess -> SessionRow] /\ X[s].status = "resuming"
  <2> HIDE DEF y
  <2>1. T.sess \in [DOMAIN T.sess -> SessionRow]
    BY <1>1
  <2> QED BY <1>y, <2>1
<1>4. RowsOK(Requeued(T)) /\ Requeued(T).status = "pending"
      /\ Requeued(T).work = T.work /\ Requeued(T).sess = T.sess
  BY RequeuedRows
<1>5. U = [Requeued(T) EXCEPT !.sess = X, !.work = W]
  BY <1>4 DEF Resumed, RowsOK, TaskRow
<1> HIDE DEF w, X
<1>6. X \in Seq(SessionRow) /\ Len(X) = m /\ DOMAIN X = 1..m
  BY <1>1, <1>3, IndexedSeq
<1>7. /\ W \in Seq(WorkRow) /\ Len(W) = n + 1 /\ DOMAIN W = 1..(n + 1)
      /\ \A j \in DOMAIN T.work : W[j] = T.work[j]
      /\ W[n + 1] = w
  BY <1>1, <1>2, AppendProperties, LenProperties
<1> HIDE DEF W, U, n, m
<1>8. U \in TaskRow /\ U.work = W /\ U.sess = X /\ U.status = "pending"
  BY <1>4, <1>5, <1>6, <1>7 DEF RowsOK, TaskRow
<1>9. RowsOK(U)
  <2> SUFFICES ASSUME NEW j \in DOMAIN W PROVE W[j].sess \in DOMAIN X
    BY <1>8 DEF RowsOK
  <2>1. CASE j = n + 1
    BY <2>1, <1>1, <1>2, <1>6, <1>7
  <2>2. CASE j # n + 1
    BY <2>2, <1>1, <1>6, <1>7
  <2> QED BY <2>1, <2>2
<1>10. Served(U)
  BY <1>1, <1>2, <1>7, <1>8 DEF Served
<1>11. ASSUME Disciplined(T), Opened(T), InOrder(U) PROVE s = m
  <2>1. n # 0
    BY <1>1, <1>11 DEF Opened, n, m
  <2>2. n \in DOMAIN T.work /\ n \in DOMAIN W /\ n + 1 \in DOMAIN W /\ n <= n + 1
    BY <2>1, <1>1, <1>7
  <2>3. W[n].sess = m
    BY <2>2, <1>7, <1>11 DEF Disciplined, Governed, n, m
  <2>4. W[n].sess <= W[n + 1].sess
    BY <2>2, <1>8, <1>11 DEF InOrder
  <2> QED BY <2>3, <2>4, <1>1, <1>2, <1>7
<1>12. ASSUME Disciplined(T), s = m PROVE Disciplined(U)
  <2> SUFFICES ASSUME NEW j \in DOMAIN W PROVE Governed(U, j)
    BY <1>8 DEF Disciplined
  <2>1. CASE j = n + 1
    BY <2>1, <1>2, <1>3, <1>6, <1>7, <1>8, <1>12 DEF Governed, Paused, Live
  <2>2. CASE j # n + 1
    <3>1. j \in DOMAIN T.work /\ U.work[j] = T.work[j] /\ j # Len(U.work)
      BY <2>2, <1>1, <1>7, <1>8
    <3>2. U.work[j].status \notin Unsettled
      BY <3>1, <1>12 DEF Disciplined, Governed, m
    <3> QED BY <3>1, <3>2 DEF Governed, Unsettled
  <2> QED BY <2>1, <2>2
<1> QED BY <1>9, <1>10, <1>11, <1>12 DEF U, m

(***************************************************************************)
(* Statements that change no attempt status, and claims.                   *)
(***************************************************************************)

\* What an aggregate may look like after statements that touch prompts,
\* leases, exports, or sessions other than the latest.
Similar(T, U) ==
  /\ U.status = T.status
  /\ DOMAIN U.work = DOMAIN T.work /\ Len(U.work) = Len(T.work)
  /\ Len(U.sess) = Len(T.sess)
  /\ \A i \in DOMAIN T.work : /\ U.work[i].status = T.work[i].status
                              /\ U.work[i].sess = T.work[i].sess
                              /\ U.work[i].export => T.work[i].export

LEMMA SimilarGood ==
  ASSUME NEW T, NEW U, Similar(T, U)
  PROVE  /\ Served(T) => Served(U)
         /\ Disciplined(T) /\ U.sess = T.sess => Disciplined(U)
<1>1. Served(T) => Served(U)
  BY DEF Similar, Served
<1>2. Disciplined(T) /\ U.sess = T.sess => Disciplined(U)
  BY DEF Similar, Disciplined, Governed
<1> QED BY <1>1, <1>2

LEMMA MovePromptsSimilar ==
  ASSUME NEW T, RowsOK(T), NEW I, NEW st \in PromptStatus
  PROVE  LET U == MovePrompts(T, I, st) IN
         RowsOK(U) /\ Similar(T, U) /\ U.sess = T.sess /\ U.cat = T.cat /\ U.iso = T.iso
<1> DEFINE U == MovePrompts(T, I, st)
<1>1. /\ RowsOK(U) /\ U = [T EXCEPT !.work = U.work]
      /\ DOMAIN U.work = DOMAIN T.work /\ Len(U.work) = Len(T.work)
      /\ \A i \in DOMAIN T.work :
           U.work[i] = IF i \in I THEN [T.work[i] EXCEPT !.prompt = st] ELSE T.work[i]
  BY MovePromptsRows
<1>2. \A i \in DOMAIN T.work : T.work[i] \in WorkRow
  BY Shape
<1> HIDE DEF U
<1>3. U.sess = T.sess /\ U.status = T.status /\ U.cat = T.cat /\ U.iso = T.iso
  BY <1>1 DEF RowsOK, TaskRow
<1>4. \A i \in DOMAIN T.work : /\ U.work[i].status = T.work[i].status
                               /\ U.work[i].sess = T.work[i].sess
                               /\ U.work[i].export = T.work[i].export
  BY <1>1, <1>2 DEF WorkRow
<1> QED BY <1>1, <1>3, <1>4 DEF Similar, U

\* An UPDATE of one work row.
LEMMA RowEdited ==
  ASSUME NEW T, RowsOK(T), NEW i \in DOMAIN T.work,
         NEW w \in WorkRow, w.sess = T.work[i].sess
  PROVE  LET U == [T EXCEPT !.work = [T.work EXCEPT ![i] = w]] IN
         /\ RowsOK(U) /\ U.sess = T.sess /\ U.status = T.status
         /\ DOMAIN U.work = DOMAIN T.work /\ Len(U.work) = Len(T.work)
         /\ \A j \in DOMAIN T.work : U.work[j] = IF j = i THEN w ELSE T.work[j]
<1> DEFINE f == [T.work EXCEPT ![i] = w]
<1>1. \A j \in DOMAIN T.work : T.work[j] \in WorkRow
  BY Shape
<1>2. T.work = [j \in DOMAIN T.work |-> T.work[j]]
  BY Shape
<1>3. f \in [DOMAIN T.work -> WorkRow] /\ \A j \in DOMAIN T.work : f[j] = IF j = i THEN w ELSE T.work[j]
  BY <1>1, <1>2
<1> HIDE DEF f
<1>4. [T EXCEPT !.work = f].work = f /\ [T EXCEPT !.work = f].sess = T.sess
      /\ [T EXCEPT !.work = f].status = T.status
  BY DEF RowsOK, TaskRow
<1>5. \A j \in DOMAIN T.work : f[j].sess = T.work[j].sess
  BY <1>3
<1>6. RowsOK([T EXCEPT !.work = f]) /\ DOMAIN f = DOMAIN T.work /\ Len(f) = Len(T.work)
  BY <1>3, <1>5, WorkReplaced
<1> QED BY <1>3, <1>4, <1>6 DEF f

\* RenewLease, LeaseElapses and TimeoutElapses.
LEMMA ClockedRowGood ==
  ASSUME NEW T, RowsOK(T), NEW i \in DOMAIN T.work,
         NEW w \in WorkRow, w.sess = T.work[i].sess,
         w.status = T.work[i].status, w.export = T.work[i].export
  PROVE  LET U == [T EXCEPT !.work = [T.work EXCEPT ![i] = w]] IN
         /\ RowsOK(U)
         /\ Served(T) => Served(U)
         /\ Disciplined(T) => Disciplined(U)
<1> DEFINE U == [T EXCEPT !.work = [T.work EXCEPT ![i] = w]]
<1>1. /\ RowsOK(U) /\ U.sess = T.sess /\ U.status = T.status
      /\ DOMAIN U.work = DOMAIN T.work /\ Len(U.work) = Len(T.work)
      /\ \A j \in DOMAIN T.work : U.work[j] = IF j = i THEN w ELSE T.work[j]
  BY RowEdited
<1> HIDE DEF U
<1>2. Similar(T, U)
  BY <1>1 DEF Similar
<1> QED BY <1>1, <1>2, SimilarGood DEF U

\* claimOnce.
LEMMA ClaimedGood ==
  ASSUME NEW T, RowsOK(T), NEW i \in DOMAIN T.work, NEW r \in Runners,
         T.status = "pending", T.work[i].status = "pending"
  PROVE  /\ RowsOK(Claimed(T, i, r))
         /\ Served(Claimed(T, i, r))
         /\ Disciplined(T) => Disciplined(Claimed(T, i, r))
<1> DEFINE P == MovePrompts(T, LatestPrompts(T) \cap Prompts(T, {"pending"}), "running")
           w == [P.work[i] EXCEPT !.status = "running", !.runner = r,
                                  !.lease = "live", !.overdue = FALSE]
           V == [P EXCEPT !.work = [P.work EXCEPT ![i] = w]]
           U == [V EXCEPT !.status = "running"]
<1>1. RowsOK(P) /\ Similar(T, P) /\ P.sess = T.sess
  BY MovePromptsSimilar DEF PromptStatus
<1> HIDE DEF P
<1>2. /\ P.work[i] \in WorkRow /\ i \in DOMAIN P.work
      /\ P.work = [j \in DOMAIN P.work |-> P.work[j]]
  BY <1>1, Shape DEF Similar
<1>3. /\ w \in WorkRow /\ w.sess = P.work[i].sess /\ w.status = "running"
      /\ w.export = P.work[i].export
  BY <1>2 DEF WorkRow, AttemptStatus, Active
<1>4. Claimed(T, i, r) = U
  BY <1>1, <1>2 DEF Claimed, P, RowsOK, TaskRow, WorkRow
<1> HIDE DEF w
<1>5. /\ RowsOK(V) /\ V.sess = P.sess
      /\ DOMAIN V.work = DOMAIN P.work /\ Len(V.work) = Len(P.work)
      /\ \A j \in DOMAIN P.work : V.work[j] = IF j = i THEN w ELSE P.work[j]
  BY <1>1, <1>2, <1>3, RowEdited
<1> HIDE DEF V
<1>6. RowsOK(U) /\ U.work = V.work /\ U.sess = T.sess /\ U.status = "running"
  BY <1>1, <1>5 DEF RowsOK, TaskRow
<1> HIDE DEF U
<1>7. Served(U)
  BY <1>2, <1>3, <1>5, <1>6 DEF Served
<1>8. ASSUME Disciplined(T) PROVE Disciplined(U)
  <2> SUFFICES ASSUME NEW j \in DOMAIN T.work PROVE Governed(U, j)
    BY <1>1, <1>5, <1>6 DEF Disciplined, Similar
  <2>1. Governed(T, j) /\ Governed(T, i)
    BY <1>8 DEF Disciplined
  <2>2. /\ Len(U.work) = Len(T.work) /\ U.work[j].sess = T.work[j].sess
        /\ U.work[j].export => T.work[j].export
        /\ U.work[j].status = IF j = i THEN "running" ELSE T.work[j].status
    BY <1>1, <1>3, <1>5, <1>6 DEF Similar
  <2>3. i = Len(T.work)
    BY <2>1 DEF Governed, Unsettled, Active
  <2> QED BY <2>1, <2>2, <2>3, <1>6 DEF Governed, Unsettled, Active
<1> QED BY <1>4, <1>6, <1>7, <1>8

(***************************************************************************)
(* Reports.                                                                *)
(***************************************************************************)

LEMMA SessionOutcomeType ==
  ASSUME NEW X \in SessionRow, NEW mode \in ResumeModes, NEW r \in Runners \cup {NoRunner},
         NEW e \in EventType
  PROVE  /\ SessionOutcome(X, mode, r, e) \in SessionRow
         /\ e.status = "running" => SessionOutcome(X, mode, r, e).status = X.status
<1> DEFINE keep == X.saved \cup (e.evidence \cap {"harness"})
           both == X.saved \cup (e.evidence \ {"workspace"})
<1>1. X.saved \subseteq {"harness", "checkpoint"} /\ e.evidence \subseteq Evidence
  BY DEF SessionRow, EventType
<1>2. keep \in SUBSET {"harness", "checkpoint"} /\ both \in SUBSET {"harness", "checkpoint"}
  BY <1>1 DEF Evidence
<1> HIDE DEF keep, both
<1>3. \A k \in SUBSET {"harness", "checkpoint"}, st \in Live \cup Paused \cup ClosedSession :
        /\ [X EXCEPT !.status = st, !.pinned = r, !.saved = k] \in SessionRow
        /\ [X EXCEPT !.status = st, !.saved = k] \in SessionRow
  BY DEF SessionRow
<1>4. CASE e.status = "running"
  <2>1. SessionOutcome(X, mode, r, e) = [X EXCEPT !.saved = keep]
    BY <1>4 DEF SessionOutcome, keep
  <2>2. /\ [X EXCEPT !.saved = keep] \in SessionRow
        /\ [X EXCEPT !.saved = keep].status = X.status
    BY <1>2 DEF SessionRow
  <2> QED BY <2>1, <2>2
<1>5. CASE e.status # "running"
  <2>1. PICK k \in {keep, both}, st \in Live \cup Paused \cup ClosedSession :
          \/ SessionOutcome(X, mode, r, e) = [X EXCEPT !.status = st, !.pinned = r, !.saved = k]
          \/ SessionOutcome(X, mode, r, e) = [X EXCEPT !.status = st, !.saved = k]
    BY <1>5, Zenon DEF SessionOutcome, keep, both, Live, Paused, ClosedSession
  <2>2. k \in SUBSET {"harness", "checkpoint"}
    BY <1>2
  <2>3. /\ [X EXCEPT !.status = st, !.pinned = r, !.saved = k] \in SessionRow
        /\ [X EXCEPT !.status = st, !.saved = k] \in SessionRow
    BY <2>2, <1>3
  <2> QED BY <2>1, <2>3, <1>5
<1> QED BY <1>4, <1>5

LEMMA WorkOutcomeType ==
  ASSUME NEW T, RowsOK(T), NEW j \in DOMAIN T.work, NEW i, NEW e \in EventType
  PROVE  /\ WorkOutcome(T, j, i, e) \in WorkRow
         /\ WorkOutcome(T, j, i, e).sess = T.work[j].sess
         /\ WorkOutcome(T, j, i, e).status =
              IF j = i THEN AttemptOutcome(e.status) ELSE T.work[j].status
         /\ e.status = "running" => WorkOutcome(T, j, i, e).export = T.work[j].export
<1>1. T.work[j] \in WorkRow
  BY Shape
<1>2. e.status \in {"running", "done", "error", "cancelled"} /\ e.export \in BOOLEAN
  BY DEF EventType
<1>3. AttemptOutcome(e.status) \in AttemptStatus
  BY <1>2 DEF AttemptOutcome, AttemptStatus, Active
<1>4. e.status # "running" => PromptOutcome(e.status) \in PromptStatus
  BY <1>2 DEF PromptOutcome, PromptStatus
<1> DEFINE l == IF e.status = "running" THEN "live" ELSE "none"
           w == IF j # i THEN T.work[j]
                ELSE [T.work[j] EXCEPT !.status = AttemptOutcome(e.status), !.lease = l]
           v == [w EXCEPT !.prompt = PromptOutcome(e.status), !.export = w.export \/ e.export]
<1>5. /\ w \in WorkRow /\ w.sess = T.work[j].sess /\ w.export = T.work[j].export
      /\ w.status = IF j = i THEN AttemptOutcome(e.status) ELSE T.work[j].status
  BY <1>1, <1>3 DEF WorkRow
<1>6. WorkOutcome(T, j, i, e) = IF e.status = "running" \/ j \notin LatestPrompts(T) THEN w ELSE v
  BY DEF WorkOutcome
<1> HIDE DEF w
<1>7. e.status # "running" => v \in WorkRow /\ v.sess = w.sess /\ v.status = w.status
  BY <1>2, <1>4, <1>5 DEF WorkRow
<1> HIDE DEF v
<1> QED BY <1>5, <1>6, <1>7

LEMMA ReportedGood ==
  ASSUME NEW T, RowsOK(T), NEW i \in DOMAIN T.work, NEW r \in Runners \cup {NoRunner},
         NEW e \in EventType, T.work[i].status = "running"
  PROVE  /\ RowsOK(Reported(T, i, r, e))
         /\ Served(Reported(T, i, r, e))
         /\ Disciplined(T) => Disciplined(Reported(T, i, r, e))
<1> DEFINE W == [j \in DOMAIN T.work |-> WorkOutcome(T, j, i, e)]
           X == [s \in DOMAIN T.sess |->
                   IF s = LatestSession(T) /\ T.sess[s].status \in Live
                   THEN SessionOutcome(T.sess[s], T.mode, r, e) ELSE T.sess[s]]
           c == IF e.status \in {"error", "cancelled"} THEN "other" ELSE T.cat
           V == [T EXCEPT !.work = W]
           Y == [V EXCEPT !.sess = X]
           U == Reported(T, i, r, e)
<1>1. /\ T \in TaskRow /\ T.mode \in ResumeModes
      /\ \A s \in DOMAIN T.sess : T.sess[s] \in SessionRow
  BY Shape DEF RowsOK, TaskRow
<1>2. e.status \in {"running", "done", "error", "cancelled"}
  BY DEF EventType
<1>3. /\ W \in [DOMAIN T.work -> WorkRow]
      /\ \A j \in DOMAIN T.work :
           /\ W[j].sess = T.work[j].sess
           /\ W[j].status = IF j = i THEN AttemptOutcome(e.status) ELSE T.work[j].status
           /\ e.status = "running" => W[j].export = T.work[j].export
  BY WorkOutcomeType
<1>4. /\ X \in [DOMAIN T.sess -> SessionRow]
      /\ e.status = "running" => \A s \in DOMAIN T.sess : X[s].status = T.sess[s].status
  BY <1>1, SessionOutcomeType
<1>5. U = [T EXCEPT !.status = e.status, !.cat = c, !.work = W, !.sess = X]
  BY DEF Reported
<1> HIDE DEF W, X
<1>6. RowsOK(V) /\ DOMAIN W = DOMAIN T.work /\ Len(W) = Len(T.work) /\ V.sess = T.sess /\ V.work = W
  BY <1>1, <1>3, WorkReplaced DEF TaskRow
<1> HIDE DEF V
<1>7. RowsOK(Y) /\ DOMAIN X = DOMAIN T.sess /\ Len(X) = Len(T.sess)
  BY <1>4, <1>6, SessReplaced
<1>8. Y.work = W /\ Y.sess = X /\ Y = [T EXCEPT !.work = W, !.sess = X]
  BY <1>1, <1>6 DEF RowsOK, TaskRow, V
<1> HIDE DEF Y
<1>9. U = [Y EXCEPT !.status = e.status, !.cat = c]
  BY <1>1, <1>5, <1>8 DEF TaskRow
<1>10. c \in {"none", "runner_unavailable", "other"}
  BY <1>1 DEF TaskRow
<1> HIDE DEF U, c
<1>11. RowsOK(U) /\ U.work = W /\ U.sess = X /\ U.status = e.status
  BY <1>2, <1>7, <1>8, <1>9, <1>10 DEF RowsOK, TaskRow, Terminal
<1>12. AttemptOutcome("running") = "running"
  BY DEF AttemptOutcome
<1>13. e.status # "running" => AttemptOutcome(e.status) \notin Unsettled
  BY <1>2 DEF AttemptOutcome, Unsettled, Active
<1>14. Served(U)
  BY <1>2, <1>3, <1>6, <1>11, <1>12 DEF Served
<1>15. ASSUME Disciplined(T) PROVE Disciplined(U)
  <2> SUFFICES ASSUME NEW j \in DOMAIN T.work PROVE Governed(U, j)
    BY <1>6, <1>11 DEF Disciplined
  <2>1. Governed(T, j) /\ Governed(T, i)
    BY <1>15 DEF Disciplined
  <2>2. i = Len(T.work) /\ T.sess[Len(T.sess)].status \in Live
    BY <2>1 DEF Governed, Unsettled, Active
  <2>3. CASE e.status = "running"
    <3>1. Len(T.sess) \in DOMAIN T.sess
      BY <2>1, <2>2, Shape DEF Governed
    <3>2. X[Len(T.sess)].status = T.sess[Len(T.sess)].status
      BY <3>1, <2>3, <1>4
    <3>3. W[j].status = T.work[j].status /\ W[j].export = T.work[j].export
      BY <2>3, <1>3, <1>12
    <3>4. T.work[j].status \in Active => T.work[j].status = "running"
      BY <2>1, <2>2 DEF Governed, Unsettled
    <3> QED BY <2>1, <2>3, <3>2, <3>3, <3>4, <1>3, <1>6, <1>7, <1>11 DEF Governed
  <2>4. CASE e.status # "running"
    <3>1. W[j].status \notin Unsettled
      BY <2>1, <2>2, <2>4, <1>3, <1>13 DEF Governed
    <3> QED BY <2>1, <3>1, <1>3, <1>6, <1>7, <1>11 DEF Governed, Unsettled
  <2> QED BY <2>3, <2>4
<1> QED BY <1>11, <1>14, <1>15 DEF U

(***************************************************************************)
(* Operator requests.                                                      *)
(***************************************************************************)

LEMMA CancelAttemptsRows ==
  ASSUME NEW T, RowsOK(T), NEW S
  PROVE  LET U == CancelAttempts(T, S) IN
         /\ RowsOK(U) /\ U.sess = T.sess /\ U.status = T.status
         /\ DOMAIN U.work = DOMAIN T.work /\ Len(U.work) = Len(T.work)
         /\ \A i \in DOMAIN T.work :
              /\ U.work[i].status = IF T.work[i].status \in S THEN "cancelled" ELSE T.work[i].status
              /\ U.work[i].sess = T.work[i].sess /\ U.work[i].export = T.work[i].export
<1> DEFINE f == [i \in DOMAIN T.work |->
                  IF T.work[i].status \in S
                  THEN [T.work[i] EXCEPT !.status = "cancelled", !.lease = "none"] ELSE T.work[i]]
<1>0. \A i \in DOMAIN T.work : T.work[i] \in WorkRow
  BY Shape
<1>1. /\ f \in [DOMAIN T.work -> WorkRow]
      /\ \A i \in DOMAIN T.work :
           /\ f[i].status = IF T.work[i].status \in S THEN "cancelled" ELSE T.work[i].status
           /\ f[i].sess = T.work[i].sess /\ f[i].export = T.work[i].export
  BY <1>0 DEF WorkRow, AttemptStatus
<1>2. CancelAttempts(T, S) = [T EXCEPT !.work = f]
  BY DEF CancelAttempts
<1> HIDE DEF f
<1>3. [T EXCEPT !.work = f].work = f /\ [T EXCEPT !.work = f].sess = T.sess
      /\ [T EXCEPT !.work = f].status = T.status
  BY DEF RowsOK, TaskRow
<1>4. RowsOK([T EXCEPT !.work = f]) /\ DOMAIN f = DOMAIN T.work /\ Len(f) = Len(T.work)
  BY <1>1, WorkReplaced
<1> QED BY <1>1, <1>2, <1>3, <1>4

LEMMA CancelledRows ==
  ASSUME NEW T, RowsOK(T)
  PROVE  /\ RowsOK(Cancelled(T)) /\ Cancelled(T).status = "cancelled"
         /\ Cancelled(T).work = T.work /\ Cancelled(T).sess = T.sess
BY DEF Cancelled, RowsOK, TaskRow, Terminal

LEMMA CancelTaskGood ==
  ASSUME NEW T, RowsOK(T)
  PROVE  LET U == Cancelled(CancelAttempts(T, Active)) IN
         /\ RowsOK(U) /\ Served(U) /\ (Disciplined(T) => Disciplined(U))
<1> DEFINE V == CancelAttempts(T, Active)
           U == Cancelled(V)
<1>1. /\ RowsOK(V) /\ V.sess = T.sess
      /\ DOMAIN V.work = DOMAIN T.work /\ Len(V.work) = Len(T.work)
      /\ \A i \in DOMAIN T.work :
           /\ V.work[i].status = IF T.work[i].status \in Active THEN "cancelled" ELSE T.work[i].status
           /\ V.work[i].sess = T.work[i].sess /\ V.work[i].export = T.work[i].export
  BY CancelAttemptsRows
<1>2. RowsOK(U) /\ U.status = "cancelled" /\ U.work = V.work /\ U.sess = V.sess
  BY <1>1, CancelledRows
<1> HIDE DEF U, V
<1>3. Served(U)
  BY <1>2 DEF Served
<1>4. ASSUME Disciplined(T) PROVE Disciplined(U)
  <2> SUFFICES ASSUME NEW j \in DOMAIN T.work PROVE Governed(U, j)
    BY <1>1, <1>2 DEF Disciplined
  <2>1. Governed(T, j)
    BY <1>4 DEF Disciplined
  <2> QED BY <2>1, <1>1, <1>2 DEF Governed, Unsettled, Active
<1> QED BY <1>2, <1>3, <1>4 DEF U, V

LEMMA ClearedGood ==
  ASSUME NEW T, RowsOK(T)
  PROVE  /\ RowsOK(Cleared(T))
         /\ Served(T) => Served(Cleared(T))
         /\ Disciplined(T) => Disciplined(Cleared(T))
<1> DEFINE V == CancelAttempts(T, {"pending"})
           U == Cleared(T)
<1>1. /\ RowsOK(V) /\ V.sess = T.sess /\ V.status = T.status
      /\ DOMAIN V.work = DOMAIN T.work /\ Len(V.work) = Len(T.work)
      /\ \A i \in DOMAIN T.work :
           /\ V.work[i].status = IF T.work[i].status \in {"pending"} THEN "cancelled" ELSE T.work[i].status
           /\ V.work[i].sess = T.work[i].sess /\ V.work[i].export = T.work[i].export
  BY CancelAttemptsRows
<1>2. U = IF V.status = "pending" THEN Cancelled(V) ELSE V
  BY DEF Cleared
<1> HIDE DEF U, V
<1>3. /\ RowsOK(U) /\ U.work = V.work /\ U.sess = T.sess
      /\ U.status = IF T.status = "pending" THEN "cancelled" ELSE T.status
  BY <1>1, <1>2, CancelledRows
<1>4. Served(T) => Served(U)
  BY <1>1, <1>3 DEF Served
<1>5. ASSUME Disciplined(T) PROVE Disciplined(U)
  <2> SUFFICES ASSUME NEW j \in DOMAIN T.work PROVE Governed(U, j)
    BY <1>1, <1>3 DEF Disciplined
  <2>1. Governed(T, j)
    BY <1>5 DEF Disciplined
  <2> QED BY <2>1, <1>1, <1>3 DEF Governed, Unsettled, Active
<1> QED BY <1>3, <1>4, <1>5 DEF U

LEMMA ExtendedGood ==
  ASSUME NEW T, RowsOK(T)
  PROVE  /\ RowsOK(Extended(T))
         /\ Served(T) => Served(Extended(T))
         /\ Disciplined(T) => Disciplined(Extended(T))
<1> DEFINE f == [i \in DOMAIN T.work |->
                  IF T.work[i].status \in Active
                  THEN [T.work[i] EXCEPT !.overdue = FALSE] ELSE T.work[i]]
           U == Extended(T)
<1>0. \A i \in DOMAIN T.work : T.work[i] \in WorkRow
  BY Shape
<1>1. /\ f \in [DOMAIN T.work -> WorkRow]
      /\ \A i \in DOMAIN T.work :
           /\ f[i].status = T.work[i].status
           /\ f[i].sess = T.work[i].sess /\ f[i].export = T.work[i].export
  BY <1>0 DEF WorkRow
<1>2. U = [T EXCEPT !.work = f]
  BY DEF Extended
<1> HIDE DEF f, U
<1>3. U.work = f /\ U.sess = T.sess /\ U.status = T.status
  BY <1>2 DEF RowsOK, TaskRow
<1>4. RowsOK(U) /\ DOMAIN f = DOMAIN T.work /\ Len(f) = Len(T.work)
  BY <1>1, <1>2, WorkReplaced
<1>5. Similar(T, U)
  BY <1>1, <1>3, <1>4 DEF Similar
<1> QED BY <1>3, <1>4, <1>5, SimilarGood DEF U

LEMMA ClearedExportsGood ==
  ASSUME NEW T, RowsOK(T), NEW S
  PROVE  /\ RowsOK(ClearedExports(T, S))
         /\ Served(T) => Served(ClearedExports(T, S))
         /\ Disciplined(T) => Disciplined(ClearedExports(T, S))
<1> DEFINE f == [i \in DOMAIN T.work |->
                  IF T.work[i].sess \in S THEN [T.work[i] EXCEPT !.export = FALSE] ELSE T.work[i]]
           U == ClearedExports(T, S)
<1>0. \A i \in DOMAIN T.work : T.work[i] \in WorkRow
  BY Shape
<1>1. /\ f \in [DOMAIN T.work -> WorkRow]
      /\ \A i \in DOMAIN T.work :
           /\ f[i].status = T.work[i].status
           /\ f[i].sess = T.work[i].sess /\ (f[i].export => T.work[i].export)
  BY <1>0 DEF WorkRow
<1>2. U = [T EXCEPT !.work = f]
  BY DEF ClearedExports
<1> HIDE DEF f, U
<1>3. U.work = f /\ U.sess = T.sess /\ U.status = T.status
  BY <1>2 DEF RowsOK, TaskRow
<1>4. RowsOK(U) /\ DOMAIN f = DOMAIN T.work /\ Len(f) = Len(T.work)
  BY <1>1, <1>2, WorkReplaced
<1>5. Similar(T, U)
  BY <1>1, <1>3, <1>4 DEF Similar
<1> QED BY <1>3, <1>4, <1>5, SimilarGood DEF U

(***************************************************************************)
(* The reaper.                                                             *)
(***************************************************************************)

LEMMA MovePromptsGood ==
  ASSUME NEW T, RowsOK(T), NEW I, NEW st \in PromptStatus
  PROVE  LET U == MovePrompts(T, I, st) IN
         /\ RowsOK(U) /\ (Served(T) => Served(U)) /\ (Disciplined(T) => Disciplined(U))
BY MovePromptsSimilar, SimilarGood

\* Sessions are closed; the latest one only when nothing is in flight.
LEMMA MoveSessionsGood ==
  ASSUME NEW T, RowsOK(T), NEW S, NEW st \in ClosedSession
  PROVE  LET U == MoveSessions(T, S, st) IN
         /\ RowsOK(U)
         /\ Served(T) => Served(U)
         /\ Disciplined(T) /\ (Len(T.sess) \in S => \A i \in DOMAIN T.work : T.work[i].status \notin Active)
              => Disciplined(U)
<1> DEFINE U == MoveSessions(T, S, st)
<1>1. /\ RowsOK(U) /\ U = [T EXCEPT !.sess = U.sess]
      /\ DOMAIN U.sess = DOMAIN T.sess /\ Len(U.sess) = Len(T.sess)
      /\ \A s \in DOMAIN T.sess :
           U.sess[s] = IF s \in S THEN [T.sess[s] EXCEPT !.status = st] ELSE T.sess[s]
  BY MoveSessionsRows
<1> HIDE DEF U
<1>2. U.status = T.status /\ U.work = T.work
  BY <1>1 DEF RowsOK, TaskRow
<1>3. Served(T) => Served(U)
  BY <1>2 DEF Served
<1>4. ASSUME Disciplined(T), Len(T.sess) \in S => \A i \in DOMAIN T.work : T.work[i].status \notin Active
      PROVE  Disciplined(U)
  <2> SUFFICES ASSUME NEW i \in DOMAIN T.work PROVE Governed(U, i)
    BY <1>2 DEF Disciplined
  <2>1. Governed(T, i)
    BY <1>4 DEF Disciplined
  <2>2. Len(T.sess) \in DOMAIN T.sess /\ T.sess[Len(T.sess)] \in SessionRow
    <3>1. T.work[i].sess \in 1..Len(T.sess) /\ Len(T.sess) \in Nat /\ DOMAIN T.sess = 1..Len(T.sess)
      BY Shape
    <3>2. Len(T.sess) \in DOMAIN T.sess
      BY <3>1
    <3> QED BY <3>2, Shape
  <2>3. U.sess[Len(T.sess)].status = IF Len(T.sess) \in S THEN st ELSE T.sess[Len(T.sess)].status
    BY <2>2, <1>1 DEF SessionRow
  <2>4. st \notin Paused
    BY DEF ClosedSession, Paused
  <2> QED BY <2>1, <2>3, <2>4, <1>1, <1>2, <1>4 DEF Governed
<1> QED BY <1>1, <1>3, <1>4 DEF U

\* A finished task has nothing in flight.
LEMMA TerminalIdle ==
  ASSUME NEW T, Disciplined(T), T.status \notin Active
  PROVE  \A i \in DOMAIN T.work : T.work[i].status \notin Active
BY DEF Disciplined, Governed

LEMMA SettledPromptsGood ==
  ASSUME NEW T, RowsOK(T)
  PROVE  /\ RowsOK(SettledPrompts(T)) /\ RowsOK(RevertedPrompts(T))
         /\ Served(T) => Served(SettledPrompts(T)) /\ Served(RevertedPrompts(T))
         /\ Disciplined(T) => Disciplined(SettledPrompts(T)) /\ Disciplined(RevertedPrompts(T))
<1>1. T.status \in Terminal => PromptOutcome(T.status) \in PromptStatus
  BY DEF Terminal, PromptOutcome, PromptStatus
<1>2. "pending" \in PromptStatus
  BY DEF PromptStatus
<1>3. /\ RowsOK(SettledPrompts(T)) /\ (Served(T) => Served(SettledPrompts(T)))
      /\ Disciplined(T) => Disciplined(SettledPrompts(T))
  BY <1>1, MovePromptsGood DEF SettledPrompts
<1>4. /\ RowsOK(RevertedPrompts(T)) /\ (Served(T) => Served(RevertedPrompts(T)))
      /\ Disciplined(T) => Disciplined(RevertedPrompts(T))
  BY <1>2, MovePromptsGood DEF RevertedPrompts
<1> QED BY <1>3, <1>4

LEMMA SettledSessionsGood ==
  ASSUME NEW T, RowsOK(T)
  PROVE  /\ RowsOK(SettledSessions(T))
         /\ Served(T) => Served(SettledSessions(T))
         /\ Disciplined(T) => Disciplined(SettledSessions(T))
<1>1. CASE T.status \notin Terminal
  BY <1>1 DEF SettledSessions
<1>2. CASE T.status \in Terminal
  <2> DEFINE S == Sessions(T, {"running"})
                    \cap SessionsWithPrompt(T, {"completed", "failed", "cancelled"})
             st == IF T.status = "done" THEN "completed" ELSE "error"
  <2>1. SettledSessions(T) = MoveSessions(T, S, st)
    BY <1>2 DEF SettledSessions
  <2>2. st \in ClosedSession
    BY DEF ClosedSession
  <2>3. Disciplined(T) => \A i \in DOMAIN T.work : T.work[i].status \notin Active
    BY <1>2, TerminalIdle DEF Terminal, Active
  <2> HIDE DEF S, st
  <2> QED BY <2>1, <2>2, <2>3, MoveSessionsGood
<1> QED BY <1>1, <1>2

LEMMA ExpiredSessionsGood ==
  ASSUME NEW T, RowsOK(T), NEW S \in SUBSET Expirable(T)
  PROVE  /\ RowsOK(MoveSessions(T, S, "expired"))
         /\ Served(T) => Served(MoveSessions(T, S, "expired"))
         /\ Disciplined(T) => Disciplined(MoveSessions(T, S, "expired"))
<1>1. ASSUME Disciplined(T), Len(T.sess) \in S
      PROVE  \A i \in DOMAIN T.work : T.work[i].status \notin Active
  <2>1. T.sess[Len(T.sess)].status \in Paused
    BY <1>1 DEF Expirable, Sessions
  <2> QED BY <2>1, <1>1 DEF Disciplined, Governed, Paused, Live
<1>2. "expired" \in ClosedSession
  BY DEF ClosedSession
<1> QED BY <1>1, <1>2, MoveSessionsGood

LEMMA FailedTaskRows ==
  ASSUME NEW T, RowsOK(T), NEW c \in {"none", "runner_unavailable", "other"}
  PROVE  /\ RowsOK(FailedTask(T, c)) /\ FailedTask(T, c).status = "error"
         /\ FailedTask(T, c).work = T.work /\ FailedTask(T, c).sess = T.sess
BY DEF FailedTask, RowsOK, TaskRow, Terminal

\* A pass of the reaper ends the attempts in I and rolls the task up into V.
LEMMA EndedGood ==
  ASSUME NEW T, RowsOK(T), NEW I, NEW st \in Unsettled \ Active, NEW V,
         V.work = MoveAttempts(T, I, st).work, V.sess = T.sess,
         Disciplined(T),
         \A i \in I : i \in DOMAIN T.work /\ T.work[i].status \in Active,
         \A i \in DOMAIN T.work : i \notin I /\ T.work[i].status \in Active => V.status = T.status
  PROVE  Disciplined(V)
<1>0. st \in AttemptStatus
  BY DEF Unsettled, AttemptStatus
<1>1. /\ DOMAIN V.work = DOMAIN T.work /\ Len(V.work) = Len(T.work)
      /\ \A i \in DOMAIN T.work :
           V.work[i] = IF i \in I THEN [T.work[i] EXCEPT !.status = st] ELSE T.work[i]
  BY <1>0, MoveAttemptsRows
<1> SUFFICES ASSUME NEW i \in DOMAIN T.work PROVE Governed(V, i)
  BY <1>1 DEF Disciplined
<1>2. Governed(T, i)
  BY DEF Disciplined
<1>3. T.work[i] \in WorkRow
  BY Shape
<1>4. CASE i \in I
  <2>1. /\ V.work[i].status = st /\ V.work[i].export = T.work[i].export
        /\ V.work[i].sess = T.work[i].sess
    BY <1>1, <1>3, <1>4 DEF WorkRow
  <2> QED BY <2>1, <1>1, <1>2, <1>4 DEF Governed, Unsettled
<1>5. CASE i \notin I
  BY <1>1, <1>2, <1>5 DEF Governed
<1> QED BY <1>4, <1>5

\* store.ReapStaleTasks.
LEMMA ReapStaleGood ==
  ASSUME NEW T, RowsOK(T)
  PROVE  /\ RowsOK(ReapStale(T))
         /\ Served(T) => Served(ReapStale(T))
         /\ Disciplined(T) => Disciplined(ReapStale(T))
<1> DEFINE I == {i \in Attempts(T, {"running"}) : T.work[i].overdue}
           U == MoveAttempts(T, I, "timeout")
           V == ReapStale(T)
<1>1. V = IF U.status = "running" /\ I # {} THEN FailedTask(U, "other") ELSE U
  BY DEF ReapStale
<1>2. /\ RowsOK(U) /\ U = [T EXCEPT !.work = U.work]
      /\ DOMAIN U.work = DOMAIN T.work
      /\ \A i \in DOMAIN T.work :
           U.work[i] = IF i \in I THEN [T.work[i] EXCEPT !.status = "timeout"] ELSE T.work[i]
  <2>1. "timeout" \in AttemptStatus
    BY DEF AttemptStatus
  <2> HIDE DEF I
  <2> QED BY <2>1, MoveAttemptsRows
<1>3. \A i \in I : i \in DOMAIN T.work /\ T.work[i].status = "running"
  BY DEF Attempts
<1> HIDE DEF I, V
<1>4. U.status = T.status /\ U.sess = T.sess
  BY <1>2 DEF RowsOK, TaskRow, U
<1>5. /\ RowsOK(V) /\ V.work = U.work /\ V.sess = T.sess
      /\ V.status = IF T.status = "running" /\ I # {} THEN "error" ELSE T.status
  BY <1>1, <1>2, <1>4, FailedTaskRows
<1>6. Served(T) => Served(V)
  BY <1>2, <1>3, <1>5 DEF Served
<1>7. ASSUME Disciplined(T) PROVE Disciplined(V)
  <2>1. \A i \in DOMAIN T.work : i \notin I /\ T.work[i].status \in Active => V.status = T.status
    BY <1>3, <1>5, <1>7 DEF Disciplined, Governed, Unsettled, Active
  <2> QED BY <2>1, <1>3, <1>5, <1>7, EndedGood DEF Unsettled, Active
<1> QED BY <1>5, <1>6, <1>7 DEF V

\* The failing half of reapExpiredLeases.
LEMMA FailExpiredGood ==
  ASSUME NEW T, RowsOK(T)
  PROVE  /\ RowsOK(FailExpired(T))
         /\ Served(T) => Served(FailExpired(T))
         /\ Disciplined(T) => Disciplined(FailExpired(T))
<1> DEFINE I == OutOfAttempts(T)
           U == MoveAttempts(T, I, "timeout")
           rolled == U.status = "running" /\ \E i \in Attempts(U, {"timeout"}) : U.work[i].lease = "expired"
           V == FailExpired(T)
<1>1. V = IF rolled THEN FailedTask(U, "other") ELSE U
  BY DEF FailExpired
<1>2. /\ RowsOK(U) /\ U = [T EXCEPT !.work = U.work]
      /\ DOMAIN U.work = DOMAIN T.work
      /\ \A i \in DOMAIN T.work :
           U.work[i] = IF i \in I THEN [T.work[i] EXCEPT !.status = "timeout"] ELSE T.work[i]
  <2>1. "timeout" \in AttemptStatus
    BY DEF AttemptStatus
  <2> HIDE DEF I
  <2> QED BY <2>1, MoveAttemptsRows
<1>3. \A i \in I : i \in DOMAIN T.work /\ T.work[i].status = "running" /\ T.work[i].lease = "expired"
  BY DEF OutOfAttempts, Expired, Attempts
<1> HIDE DEF I, V
<1>4. U.status = T.status /\ U.sess = T.sess
  BY <1>2 DEF RowsOK, TaskRow, U
<1>5. \A i \in I : U.work[i].status = "timeout" /\ U.work[i].lease = "expired"
  <2>1. \A i \in DOMAIN T.work : T.work[i] \in WorkRow
    BY Shape
  <2> QED BY <1>2, <1>3, <2>1 DEF WorkRow
<1>6. T.status = "running" /\ I # {} => rolled
  BY <1>2, <1>3, <1>4, <1>5 DEF Attempts
<1>7. rolled => T.status = "running" /\ \E k \in DOMAIN T.work : k \in I \/ T.work[k].status = "timeout"
  BY <1>2, <1>4 DEF Attempts
<1> HIDE DEF rolled
<1>8. /\ RowsOK(V) /\ V.work = U.work /\ V.sess = T.sess
      /\ V.status = IF rolled THEN "error" ELSE T.status
  BY <1>1, <1>2, <1>4, FailedTaskRows
<1>9. ASSUME Served(T) PROVE Served(V)
  <2>1. ASSUME V.status = "running" PROVE \E i \in DOMAIN V.work : V.work[i].status = "running"
    <3>1. T.status = "running" /\ I = {}
      BY <2>1, <1>6, <1>8
    <3> QED BY <3>1, <1>2, <1>8, <1>9 DEF Served
  <2>2. ASSUME V.status = "pending" PROVE \E i \in DOMAIN V.work : V.work[i].status = "pending"
    <3>1. T.status = "pending"
      BY <2>2, <1>8
    <3>2. PICK i \in DOMAIN T.work : T.work[i].status = "pending"
      BY <3>1, <1>9 DEF Served
    <3> QED BY <3>2, <1>2, <1>3, <1>8
  <2> QED BY <2>1, <2>2 DEF Served
<1>10. ASSUME Disciplined(T) PROVE Disciplined(V)
  <2>1. ASSUME NEW i \in DOMAIN T.work, i \notin I, T.work[i].status \in Active
        PROVE  V.status = T.status
    <3> SUFFICES ASSUME rolled PROVE FALSE
      BY <1>8
    <3>1. PICK k \in DOMAIN T.work : k \in I \/ T.work[k].status = "timeout"
      BY <1>7
    <3>2. T.work[k].status \in Unsettled /\ k # i
      BY <3>1, <2>1, <1>3 DEF Unsettled, Active
    <3>3. k = Len(T.work) /\ i = Len(T.work)
      BY <3>2, <2>1, <1>10 DEF Disciplined, Governed, Unsettled
    <3> QED BY <3>2, <3>3
  <2> QED BY <2>1, <1>3, <1>8, <1>10, EndedGood DEF Unsettled, Active
<1> QED BY <1>8, <1>9, <1>10 DEF V

\* The requeueing half of reapExpiredLeases.
LEMMA ReclaimedGood ==
  ASSUME NEW T, RowsOK(T), NEW k, Reclaimable(T) = {k}
  PROVE  /\ RowsOK(Reclaimed(T))
         /\ Served(Reclaimed(T))
         /\ Disciplined(T) => Disciplined(Reclaimed(T))
<1> DEFINE A == MoveAttempts(T, Reclaimable(T), "lost")
           I == LatestPrompts(T) \cap Prompts(T, {"pending", "running"})
           U == MovePrompts(A, I, "failed")
           S == {LatestSession(T)} \cap Sessions(T, Live)
           V == MoveSessions(U, S, "abandoned")
           ttl == T.sess[LatestSession(T)].ttl
<1>1. Reclaimed(T) = WithNewSession(Requeued(V), ttl)
  BY DEF Reclaimed
<1>2. k \in DOMAIN T.work /\ T.work[k].status = "running"
  BY DEF Reclaimable, Expired, Attempts
<1>3. /\ RowsOK(A) /\ DOMAIN A.work = DOMAIN T.work
      /\ \A i \in DOMAIN T.work :
           A.work[i] = IF i = k THEN [T.work[i] EXCEPT !.status = "lost"] ELSE T.work[i]
  BY MoveAttemptsRows DEF AttemptStatus
<1> HIDE DEF A
<1>4. RowsOK(U) /\ Similar(A, U)
  BY <1>3, MovePromptsSimilar DEF PromptStatus
<1> HIDE DEF U
<1>5. RowsOK(V) /\ V = [U EXCEPT !.sess = V.sess]
  <2>1. "abandoned" \in Live \cup Paused \cup ClosedSession
    BY DEF ClosedSession
  <2> HIDE DEF S
  <2> QED BY <1>4, <2>1, MoveSessionsRows
<1> HIDE DEF V
<1>6. V.work = U.work
  BY <1>4, <1>5 DEF RowsOK, TaskRow
<1>7. /\ RowsOK(Requeued(V)) /\ Requeued(V).status = "pending" /\ Requeued(V).work = U.work
  BY <1>5, <1>6, RequeuedRows
<1>8. ttl \in BOOLEAN
  <2>1. T.work[k].sess \in 1..Len(T.sess) /\ Len(T.sess) \in Nat /\ DOMAIN T.sess = 1..Len(T.sess)
    BY <1>2, Shape
  <2>2. T.sess[Len(T.sess)] \in SessionRow
    BY <2>1, Shape
  <2> QED BY <2>2 DEF SessionRow, LatestSession
<1>9. ASSUME Disciplined(T) PROVE Settled(Requeued(V))
  <2> SUFFICES ASSUME NEW j \in DOMAIN T.work PROVE U.work[j].status \notin Unsettled
    BY <1>3, <1>4, <1>7 DEF Settled, Similar
  <2>1. k = Len(T.work)
    BY <1>2, <1>9 DEF Disciplined, Governed, Unsettled, Active
  <2>2. U.work[j].status = A.work[j].status
    BY <1>3, <1>4 DEF Similar
  <2>3. CASE j = k
    <3>1. T.work[k] \in WorkRow
      BY <1>2, Shape
    <3>2. A.work[k].status = "lost"
      BY <3>1, <1>2, <1>3 DEF WorkRow
    <3> QED BY <2>2, <2>3, <3>2 DEF Unsettled, Active
  <2>4. CASE j # k
    BY <2>1, <2>2, <2>4, <1>3, <1>9 DEF Disciplined, Governed
  <2> QED BY <2>3, <2>4
<1> HIDE DEF ttl
<1> QED BY <1>1, <1>7, <1>8, <1>9, NewSessionGood

LEMMA ReapLeasesGood ==
  ASSUME NEW T, RowsOK(T), Served(T),
         \A i \in Reclaimable(T) : Reclaimable(T) = {i}
  PROVE  /\ RowsOK(ReapLeases(T)) /\ Served(ReapLeases(T))
         /\ Disciplined(T) => Disciplined(ReapLeases(T))
<1>1. CASE Reclaimable(T) = {}
  BY <1>1, FailExpiredGood DEF ReapLeases
<1>2. CASE Reclaimable(T) # {}
  <2>1. PICK k : Reclaimable(T) = {k}
    BY <1>2
  <2>2. /\ RowsOK(Reclaimed(T)) /\ Served(Reclaimed(T))
        /\ Disciplined(T) => Disciplined(Reclaimed(T))
    BY <2>1, ReclaimedGood
  <2> QED BY <1>2, <2>2, FailExpiredGood DEF ReapLeases
<1> QED BY <1>1, <1>2

\* reapUnavailablePinnedResumeTasks.
LEMMA ReapPinnedGood ==
  ASSUME NEW T, RowsOK(T)
  PROVE  /\ RowsOK(ReapPinned(T))
         /\ Served(T) => Served(ReapPinned(T))
         /\ Disciplined(T) => Disciplined(ReapPinned(T))
<1> DEFINE st == "runner_unavailable"
           I == OrphanedResumes(T)
           U == MoveAttempts(T, I, st)
           rolled == U.status = "pending" /\ Attempts(U, {st}) # {}
           V == IF rolled THEN FailedTask(U, st) ELSE U
           W == MovePrompts(V, Prompts(V, {"pending"}), "failed")
           S == Sessions(W, {"resuming"}) \cap SessionsWithPrompt(W, {"failed"})
           X == MoveSessions(W, S, "error")
<1>1. ReapPinned(T) = IF V.status = "error" /\ V.cat = st THEN X ELSE V
  BY DEF ReapPinned
<1>2. /\ RowsOK(U) /\ U = [T EXCEPT !.work = U.work]
      /\ DOMAIN U.work = DOMAIN T.work
      /\ \A i \in DOMAIN T.work :
           U.work[i] = IF i \in I THEN [T.work[i] EXCEPT !.status = st] ELSE T.work[i]
  <2>1. st \in AttemptStatus
    BY DEF AttemptStatus
  <2> HIDE DEF I
  <2> QED BY <2>1, MoveAttemptsRows
<1>3. \A i \in I : i \in DOMAIN T.work /\ T.work[i].status = "pending"
  BY DEF OrphanedResumes, Attempts
<1> HIDE DEF I
<1>4. U.status = T.status /\ U.sess = T.sess
  BY <1>2 DEF RowsOK, TaskRow, U
<1>5. \A i \in I : U.work[i].status = st
  <2>1. \A i \in DOMAIN T.work : T.work[i] \in WorkRow
    BY Shape
  <2> QED BY <1>2, <1>3, <2>1 DEF WorkRow
<1>6. T.status = "pending" /\ I # {} => rolled
  BY <1>2, <1>3, <1>4, <1>5 DEF Attempts
<1>7. rolled => T.status = "pending" /\ \E k \in DOMAIN T.work : k \in I \/ T.work[k].status = st
  BY <1>2, <1>4 DEF Attempts
<1> HIDE DEF rolled
<1>8. /\ RowsOK(V) /\ V.work = U.work /\ V.sess = T.sess
      /\ V.status = IF rolled THEN "error" ELSE T.status
  BY <1>2, <1>4, FailedTaskRows
<1> HIDE DEF V
<1>9. Served(T) => Served(V)
  BY <1>2, <1>3, <1>6, <1>7, <1>8 DEF Served
<1>10. ASSUME Disciplined(T) PROVE Disciplined(V)
  <2>1. ASSUME NEW i \in DOMAIN T.work, i \notin I, T.work[i].status \in Active
        PROVE  V.status = T.status
    <3> SUFFICES ASSUME rolled PROVE FALSE
      BY <1>8
    <3>1. PICK k \in DOMAIN T.work : k \in I \/ T.work[k].status = st
      BY <1>7
    <3>2. T.work[k].status \in Unsettled /\ k # i
      BY <3>1, <2>1, <1>3 DEF Unsettled, Active
    <3>3. k = Len(T.work) /\ i = Len(T.work)
      BY <3>2, <2>1, <1>10 DEF Disciplined, Governed, Unsettled
    <3> QED BY <3>2, <3>3
  <2>2. st \in Unsettled \ Active
    BY DEF Unsettled, Active
  <2>3. \A i \in I : i \in DOMAIN T.work /\ T.work[i].status \in Active
    BY <1>3 DEF Active
  <2> HIDE DEF st
  <2> QED BY <2>1, <2>2, <2>3, <1>8, <1>10, EndedGood
<1>11. /\ RowsOK(W) /\ (Served(V) => Served(W)) /\ (Disciplined(V) => Disciplined(W))
       /\ W.status = V.status
  BY <1>8, MovePromptsGood, MovePromptsSimilar DEF PromptStatus, Similar
<1> HIDE DEF W
<1>12. /\ RowsOK(X) /\ (Served(W) => Served(X))
       /\ Disciplined(W) /\ W.status = "error" => Disciplined(X)
  <2>1. Disciplined(W) /\ W.status = "error" => \A i \in DOMAIN W.work : W.work[i].status \notin Active
    BY TerminalIdle DEF Active
  <2>2. "error" \in ClosedSession
    BY DEF ClosedSession
  <2> HIDE DEF S
  <2> QED BY <2>1, <2>2, <1>11, MoveSessionsGood
<1> HIDE DEF X
<1> QED BY <1>1, <1>8, <1>9, <1>10, <1>11, <1>12

\* reapIsolationUnavailableTasks.
LEMMA ReapIsolationGood ==
  ASSUME NEW T, RowsOK(T)
  PROVE  /\ RowsOK(ReapIsolation(T))
         /\ Served(T) => Served(ReapIsolation(T))
         /\ Disciplined(T) => Disciplined(ReapIsolation(T))
<1> DEFINE st == "isolation_unavailable"
           I == IF T.iso /\ ~CapableRunner THEN Attempts(T, {"pending"}) ELSE {}
           U == IF T.iso /\ ~CapableRunner THEN MoveAttempts(T, Attempts(T, {"pending"}), st) ELSE T
           M == MoveAttempts(T, I, st)
           rolled == U.status = "pending" /\ Attempts(U, {st}) # {}
           V == ReapIsolation(T)
<1>1. V = IF rolled THEN FailedTask(U, "other") ELSE U
  BY DEF ReapIsolation
<1>2. /\ RowsOK(M) /\ M = [T EXCEPT !.work = M.work]
      /\ DOMAIN M.work = DOMAIN T.work /\ Len(M.work) = Len(T.work)
      /\ \A i \in DOMAIN T.work :
           M.work[i] = IF i \in I THEN [T.work[i] EXCEPT !.status = st] ELSE T.work[i]
  <2>1. st \in AttemptStatus
    BY DEF AttemptStatus
  <2> HIDE DEF I
  <2> QED BY <2>1, MoveAttemptsRows
<1>3. \A i \in I : i \in DOMAIN T.work /\ T.work[i].status = "pending"
  BY DEF Attempts
<1>4. RowsOK(U) /\ U.work = M.work /\ U.sess = T.sess /\ U.status = T.status
  <2>1. CASE T.iso /\ ~CapableRunner
    <3>1. U = M
      BY <2>1
    <3> HIDE DEF U, M
    <3> QED BY <3>1, <1>2 DEF RowsOK, TaskRow
  <2>2. CASE ~(T.iso /\ ~CapableRunner)
    <3>1. U = T /\ I = {}
      BY <2>2
    <3> HIDE DEF U, M, I
    <3>2. \A i \in DOMAIN T.work : M.work[i] = T.work[i]
      BY <3>1, <1>2
    <3>3. M.work \in Seq(WorkRow) /\ T.work \in Seq(WorkRow)
      BY <1>2, Shape
    <3>4. M.work = T.work
      BY <3>2, <3>3, <1>2, SeqEqual, Shape
    <3> QED BY <3>1, <3>4
  <2> QED BY <2>1, <2>2
<1> HIDE DEF I, U, M, V
<1>5. \A i \in I : M.work[i].status = st
  <2>1. \A i \in DOMAIN T.work : T.work[i] \in WorkRow
    BY Shape
  <2> QED BY <1>2, <1>3, <2>1 DEF WorkRow
<1>6. T.status = "pending" /\ I # {} => rolled
  BY <1>2, <1>3, <1>4, <1>5 DEF Attempts
<1>7. rolled => T.status = "pending" /\ \E k \in DOMAIN T.work : k \in I \/ T.work[k].status = st
  BY <1>2, <1>4 DEF Attempts
<1> HIDE DEF rolled
<1>8. /\ RowsOK(V) /\ V.work = M.work /\ V.sess = T.sess
      /\ V.status = IF rolled THEN "error" ELSE T.status
  BY <1>1, <1>4, FailedTaskRows
<1>9. Served(T) => Served(V)
  BY <1>2, <1>3, <1>6, <1>7, <1>8 DEF Served
<1>10. ASSUME Disciplined(T) PROVE Disciplined(V)
  <2>1. ASSUME NEW i \in DOMAIN T.work, i \notin I, T.work[i].status \in Active
        PROVE  V.status = T.status
    <3> SUFFICES ASSUME rolled PROVE FALSE
      BY <1>8
    <3>1. PICK k \in DOMAIN T.work : k \in I \/ T.work[k].status = st
      BY <1>7
    <3>2. T.work[k].status \in Unsettled /\ k # i
      BY <3>1, <2>1, <1>3 DEF Unsettled, Active
    <3>3. k = Len(T.work) /\ i = Len(T.work)
      BY <3>2, <2>1, <1>10 DEF Disciplined, Governed, Unsettled
    <3> QED BY <3>2, <3>3
  <2>2. st \in Unsettled \ Active
    BY DEF Unsettled, Active
  <2>3. \A i \in I : i \in DOMAIN T.work /\ T.work[i].status \in Active
    BY <1>3 DEF Active
  <2>4. V.work = MoveAttempts(T, I, st).work /\ V.sess = T.sess
    BY <1>8 DEF M
  <2>5. \A i \in DOMAIN T.work : i \notin I /\ T.work[i].status \in Active => V.status = T.status
    BY <2>1
  <2> HIDE DEF st
  <2> QED BY <2>2, <2>3, <2>4, <2>5, <1>10, EndedGood
<1> QED BY <1>8, <1>9, <1>10 DEF V

(***************************************************************************)
(* The invariants of the whole state.                                      *)
(***************************************************************************)

Rows ==
  /\ task = [t \in Tasks |-> task[t]]
  /\ \A t \in Tasks : RowsOK(task[t]) /\ Served(task[t])

Discipline == \A t \in Tasks : InOrder(task[t]) => Disciplined(task[t])

\* What a step leaves of it for a task that is in order after the step.
Governs ==
  \A t \in Tasks : Disciplined(task[t]) /\ Opened(task[t]) /\ InOrder(task'[t]) => Disciplined(task'[t])

Registry == registry \in [Runners -> RunnerRow]

Asked == resumes \subseteq Tasks \X (Nat \ {0}) \X Runners

\* The statements of the specification are the statements about every aggregate.
LEMMA Aggregates ==
  /\ Rows /\ Registry /\ Asked <=> TypeOK /\ NoStrandedTask
  /\ Rows => NoStrandedTask
  /\ Discipline <=> LastRowGoverns
<1>1. Rows /\ Registry /\ Asked => TypeOK
  BY DEF Rows, Registry, Asked, TypeOK, RowsOK
<1>2. Rows => NoStrandedTask
  BY DEF Rows, NoStrandedTask, Served, Attempts
<1>3. TypeOK /\ NoStrandedTask => Rows /\ Registry /\ Asked
  <2> SUFFICES ASSUME TypeOK, NoStrandedTask PROVE Rows /\ Registry /\ Asked
    OBVIOUS
  <2>1. task = [t \in Tasks |-> task[t]] /\ Registry /\ Asked /\ \A t \in Tasks : RowsOK(task[t])
    BY DEF TypeOK, RowsOK, Registry, Asked
  <2>2. \A t \in Tasks : Served(task[t])
    BY DEF NoStrandedTask, Served, Attempts
  <2> QED BY <2>1, <2>2 DEF Rows
<1>4. Discipline <=> LastRowGoverns
  BY DEF Discipline, Disciplined, Governed, LastRowGoverns, LatestSession
<1> QED BY <1>1, <1>2, <1>3, <1>4

LEMMA OneTask ==
  ASSUME Rows, NEW t \in Tasks, NEW U, RowsOK(U), Served(U),
         task' = [task EXCEPT ![t] = U]
  PROVE  /\ Rows'
         /\ (Disciplined(task[t]) /\ Opened(task[t]) /\ InOrder(U) => Disciplined(U)) => Governs
<1>1. task' = [x \in Tasks |-> IF x = t THEN U ELSE task[x]]
  BY DEF Rows
<1> QED BY <1>1 DEF Rows, Governs

LEMMA ClientStep ==
  ASSUME Rows, NEW t \in Tasks, Client(t)
  PROVE  Rows' /\ UNCHANGED registry /\ Governs
<1> USE ConstantsAssumption
<1>0. RowsOK(task[t]) /\ task[t] \in TaskRow /\ task[t].mode \in ResumeModes /\ task[t].iso \in BOOLEAN
  BY DEF Rows, RowsOK, TaskRow
<1>1. CASE SubmitTask(t)
  <2>1. PICK in \in Submissions :
          task' = [task EXCEPT ![t] = FreshTask(in.mode, in.mode # "none" \/ in.iso, in.mode # "none")]
    BY <1>1 DEF SubmitTask
  <2>2. in.mode \in ResumeModes /\ (in.mode # "none" \/ in.iso) \in BOOLEAN /\ (in.mode # "none") \in BOOLEAN
    BY DEF SubmissionType, ResumeModes
  <2> QED BY <2>1, <2>2, <1>1, FreshTaskGood, OneTask DEF SubmitTask
<1>2. ASSUME NEW src \in Tasks, RerunTask(src, t)
      PROVE  Rows' /\ UNCHANGED registry /\ Governs
  <2>1. task[src].mode \in ResumeModes /\ task[src].iso \in BOOLEAN
    BY DEF Rows, RowsOK, TaskRow
  <2>2. task' = [task EXCEPT ![t] = FreshTask(task[src].mode, task[src].iso, FALSE)]
    BY <1>2 DEF RerunTask
  <2> QED BY <2>1, <2>2, <1>2, FreshTaskGood, OneTask DEF RerunTask
<1>3. CASE RecoverTask(t)
  <2>1. PICK i \in LatestPrompts(task[t]) : task[t].work[i].export
    BY <1>3 DEF RecoverTask
  <2>2. task' = [task EXCEPT ![t] = WithNewSession(Requeued(task[t]), task[t].mode # "none")]
    BY <1>3 DEF RecoverTask
  <2>3. (task[t].mode # "none") \in BOOLEAN
    OBVIOUS
  <2>4. LET U == WithNewSession(Requeued(task[t]), task[t].mode # "none") IN
        RowsOK(U) /\ Served(U) /\ (Disciplined(task[t]) => Disciplined(U))
    BY <2>1, <2>3, <1>0, RecoveredGood
  <2> QED BY <2>2, <2>4, <1>3, OneTask DEF RecoverTask, Governs
<1>4. ASSUME NEW s \in DOMAIN task[t].sess, NEW r \in Runners, ResumeAgentSession(t, s, r)
      PROVE  Rows' /\ UNCHANGED registry /\ Governs
  <2>1. /\ task[t].sess[s].status \in Paused
        /\ task' = [task EXCEPT ![t] = Resumed(task[t], s, r)]
        /\ UNCHANGED registry
    BY <1>4 DEF ResumeAgentSession, StillResumable
  <2>2. /\ RowsOK(Resumed(task[t], s, r)) /\ Served(Resumed(task[t], s, r))
        /\ Disciplined(task[t]) /\ Opened(task[t]) /\ InOrder(Resumed(task[t], s, r))
             => Disciplined(Resumed(task[t], s, r))
    BY <2>1, <1>0, ResumedGood
  <2> QED BY <2>1, <2>2, OneTask DEF Governs
<1>5. CASE CancelTask(t)
  <2>1. task' = [task EXCEPT ![t] = Cancelled(CancelAttempts(task[t], Active))]
    BY <1>5 DEF CancelTask
  <2> QED BY <2>1, <1>0, <1>5, CancelTaskGood, OneTask DEF CancelTask, Governs
<1>6. CASE ExtendTaskTimeout(t)
  <2>1. task' = [task EXCEPT ![t] = Extended(task[t])]
    BY <1>6 DEF ExtendTaskTimeout
  <2> QED BY <2>1, <1>0, <1>6, ExtendedGood, OneTask DEF ExtendTaskTimeout, Governs, Rows
<1>7. ASSUME NEW s \in DOMAIN task[t].sess, CheckResume(t, s)
      PROVE  Rows' /\ UNCHANGED registry /\ Governs
  BY <1>7 DEF CheckResume, Rows, Governs
<1> QED BY <1>1, <1>2, <1>3, <1>4, <1>5, <1>6, <1>7 DEF Client

\* RenewLease, LeaseElapses and TimeoutElapses write one column of one row.
LEMMA ColumnStep ==
  ASSUME Rows, NEW t \in Tasks, NEW i \in DOMAIN task[t].work, NEW w \in WorkRow,
         w.sess = task[t].work[i].sess, w.status = task[t].work[i].status,
         w.export = task[t].work[i].export,
         task' = [task EXCEPT ![t] = [task[t] EXCEPT !.work = [task[t].work EXCEPT ![i] = w]]]
  PROVE  Rows' /\ Governs
<1> DEFINE U == [task[t] EXCEPT !.work = [task[t].work EXCEPT ![i] = w]]
<1>1. /\ RowsOK(U) /\ (Served(task[t]) => Served(U))
      /\ Disciplined(task[t]) => Disciplined(U)
  BY ClockedRowGood DEF Rows
<1> HIDE DEF U
<1>2. task' = [task EXCEPT ![t] = U]
  BY DEF U
<1> QED BY <1>1, <1>2, OneTask DEF Governs, Rows

LEMMA RunnerStep ==
  ASSUME Rows, NEW t \in Tasks, NEW i \in DOMAIN task[t].work, Runner(t, i)
  PROVE  Rows' /\ UNCHANGED registry /\ Governs
<1>0. RowsOK(task[t]) /\ task[t].work[i] \in WorkRow
  BY Shape DEF Rows
<1>1. ASSUME NEW r \in Runners, ClaimOnce(r, t, i)
      PROVE  Rows' /\ UNCHANGED registry /\ Governs
  <2>1. /\ task[t].status = "pending" /\ task[t].work[i].status = "pending"
        /\ task' = [task EXCEPT ![t] = Claimed(task[t], i, r)]
        /\ UNCHANGED registry
    BY <1>1 DEF ClaimOnce, Claimable
  <2>2. /\ RowsOK(Claimed(task[t], i, r)) /\ Served(Claimed(task[t], i, r))
        /\ Disciplined(task[t]) => Disciplined(Claimed(task[t], i, r))
    BY <2>1, <1>0, ClaimedGood
  <2> QED BY <2>1, <2>2, OneTask DEF Governs
<1>2. CASE RenewLease(t, i)
  <2> DEFINE w == [task[t].work[i] EXCEPT !.lease = "live"]
  <2>1. /\ w \in WorkRow /\ w.sess = task[t].work[i].sess
        /\ w.status = task[t].work[i].status /\ w.export = task[t].work[i].export
    BY <1>0 DEF WorkRow
  <2>2. task' = [task EXCEPT ![t] = [task[t] EXCEPT !.work = [task[t].work EXCEPT ![i] = w]]]
    BY <1>2 DEF RenewLease
  <2> HIDE DEF w
  <2> QED BY <2>1, <2>2, <1>2, ColumnStep DEF RenewLease
<1>3. ASSUME NEW e \in Events, RecordTaskEvent(t, i, e)
      PROVE  Rows' /\ UNCHANGED registry /\ Governs
  <2> DEFINE r == task[t].work[i].runner
  <2>1. /\ task[t].work[i].status = "running"
        /\ task' = [task EXCEPT ![t] = Reported(task[t], i, r, e)]
        /\ UNCHANGED registry
    BY <1>3 DEF RecordTaskEvent, EventAccepted
  <2>2. r \in Runners \cup {NoRunner} /\ e \in EventType
    BY <1>0, ConstantsAssumption DEF WorkRow
  <2> HIDE DEF r
  <2>3. /\ RowsOK(Reported(task[t], i, r, e)) /\ Served(Reported(task[t], i, r, e))
        /\ Disciplined(task[t]) => Disciplined(Reported(task[t], i, r, e))
    BY <2>1, <2>2, <1>0, ReportedGood
  <2> QED BY <2>1, <2>3, OneTask DEF Governs
<1> QED BY <1>1, <1>2, <1>3 DEF Runner

LEMMA ClockStep ==
  ASSUME Rows, Registry, Clock
  PROVE  Rows' /\ Registry' /\ Governs
<1>1. ASSUME NEW t \in Tasks, NEW i \in DOMAIN task[t].work, LeaseElapses(t, i)
      PROVE  Rows' /\ UNCHANGED registry /\ Governs
  <2> DEFINE w == [task[t].work[i] EXCEPT !.lease = "expired"]
  <2>1. task[t].work[i] \in WorkRow
    BY Shape DEF Rows
  <2>2. /\ w \in WorkRow /\ w.sess = task[t].work[i].sess
        /\ w.status = task[t].work[i].status /\ w.export = task[t].work[i].export
    BY <2>1 DEF WorkRow
  <2>3. task' = [task EXCEPT ![t] = [task[t] EXCEPT !.work = [task[t].work EXCEPT ![i] = w]]]
    BY <1>1 DEF LeaseElapses
  <2> HIDE DEF w
  <2> QED BY <2>2, <2>3, <1>1, ColumnStep DEF LeaseElapses
<1>2. ASSUME NEW t \in Tasks, NEW i \in DOMAIN task[t].work, TimeoutElapses(t, i)
      PROVE  Rows' /\ UNCHANGED registry /\ Governs
  <2> DEFINE w == [task[t].work[i] EXCEPT !.overdue = TRUE]
  <2>1. task[t].work[i] \in WorkRow
    BY Shape DEF Rows
  <2>2. /\ w \in WorkRow /\ w.sess = task[t].work[i].sess
        /\ w.status = task[t].work[i].status /\ w.export = task[t].work[i].export
    BY <2>1 DEF WorkRow
  <2>3. task' = [task EXCEPT ![t] = [task[t] EXCEPT !.work = [task[t].work EXCEPT ![i] = w]]]
    BY <1>2 DEF TimeoutElapses
  <2> HIDE DEF w
  <2> QED BY <2>2, <2>3, <1>2, ColumnStep DEF TimeoutElapses
<1>3. ASSUME NEW r \in Runners, Silence(r)
      PROVE  Registry' /\ UNCHANGED task
  BY <1>3 DEF Silence, Registry, RunnerRow
<1>4. (UNCHANGED registry => Registry') /\ (UNCHANGED task => Rows' /\ Governs)
  BY DEF Registry, Rows, Governs
<1> QED BY <1>1, <1>2, <1>3, <1>4 DEF Clock

LEMMA ReaperStep ==
  ASSUME Rows, Reaper
  PROVE  Rows' /\ UNCHANGED registry /\ Governs
<1>0. \A t \in Tasks : RowsOK(task[t]) /\ Served(task[t])
  BY DEF Rows
<1>1. CASE ReapStaleTasks
  <2>1. task' = [t \in Tasks |-> ReapStale(task[t])] /\ UNCHANGED registry
    BY <1>1 DEF ReapStaleTasks
  <2> QED BY <2>1, <1>0, ReapStaleGood DEF Rows, Governs
<1>2. CASE ReapExpiredLeases
  <2>1. /\ task' = [t \in Tasks |-> ReapLeases(task[t])] /\ UNCHANGED registry
        /\ \A t \in Tasks : \A i \in Reclaimable(task[t]) : Reclaimable(task[t]) = {i}
    BY <1>2 DEF ReapExpiredLeases
  <2> QED BY <2>1, <1>0, ReapLeasesGood DEF Rows, Governs
<1>3. CASE ReapStaleUserPrompts
  <2>1. task' = [t \in Tasks |-> SettledPrompts(task[t])] /\ UNCHANGED registry
    BY <1>3 DEF ReapStaleUserPrompts
  <2> QED BY <2>1, <1>0, SettledPromptsGood DEF Rows, Governs
<1>4. CASE RevertOrphanedRunningUserPrompts
  <2>1. task' = [t \in Tasks |-> RevertedPrompts(task[t])] /\ UNCHANGED registry
    BY <1>4 DEF RevertOrphanedRunningUserPrompts
  <2> QED BY <2>1, <1>0, SettledPromptsGood DEF Rows, Governs
<1>5. CASE ReapStaleSessionsForTerminalRuns
  <2>1. task' = [t \in Tasks |-> SettledSessions(task[t])] /\ UNCHANGED registry
    BY <1>5 DEF ReapStaleSessionsForTerminalRuns
  <2> QED BY <2>1, <1>0, SettledSessionsGood DEF Rows, Governs
<1>6. CASE ReapUnavailablePinnedResumeTasks
  <2>1. task' = [t \in Tasks |-> ReapPinned(task[t])] /\ UNCHANGED registry
    BY <1>6 DEF ReapUnavailablePinnedResumeTasks
  <2> QED BY <2>1, <1>0, ReapPinnedGood DEF Rows, Governs
<1>7. CASE ReapIsolationUnavailableTasks
  <2>1. task' = [t \in Tasks |-> ReapIsolation(task[t])] /\ UNCHANGED registry
    BY <1>7 DEF ReapIsolationUnavailableTasks
  <2> QED BY <2>1, <1>0, ReapIsolationGood DEF Rows, Governs
<1>8. ASSUME NEW t \in Tasks, ReapExpiredSessions(t)
      PROVE  Rows' /\ UNCHANGED registry /\ Governs
  <2>1. PICK S \in SUBSET Expirable(task[t]) :
          task' = [task EXCEPT ![t] = MoveSessions(task[t], S, "expired")]
    BY <1>8 DEF ReapExpiredSessions
  <2> QED BY <2>1, <1>0, <1>8, ExpiredSessionsGood, OneTask DEF ReapExpiredSessions, Governs
<1>9. ASSUME NEW t \in Tasks, ReapExpiredSessionArtifacts(t)
      PROVE  Rows' /\ UNCHANGED registry /\ Governs
  <2>1. PICK S \in SUBSET Sessions(task[t], ClosedSession) :
          task' = [task EXCEPT ![t] = ClearedExports(task[t], S)]
    BY <1>9 DEF ReapExpiredSessionArtifacts
  <2> QED BY <2>1, <1>0, <1>9, ClearedExportsGood, OneTask DEF ReapExpiredSessionArtifacts, Governs
<1> QED BY <1>1, <1>2, <1>3, <1>4, <1>5, <1>6, <1>7, <1>8, <1>9 DEF Reaper

LEMMA Initial == Init => Rows /\ Registry /\ Discipline
<1> SUFFICES ASSUME Init PROVE Rows /\ Registry /\ Discipline
  OBVIOUS
<1>1. Absent \in TaskRow /\ Absent.work = <<>> /\ Absent.status = "absent"
  BY DEF Absent, TaskRow, ResumeModes
<1>2. RowsOK(Absent) /\ Served(Absent) /\ Disciplined(Absent)
  BY <1>1 DEF RowsOK, Served, Disciplined
<1>i. \A T \in Inherited : RowsOK(T) /\ Served(T) /\ Disciplined(T)
  BY <1>2, FreshTaskGood DEF Inherited, ResumeModes
<1>3. Rows /\ Discipline
  BY <1>i DEF Init, Rows, Discipline
<1>4. Registry
  BY DEF Init, Registry, RunnerRow, RunnerStatus
<1> QED BY <1>3, <1>4

LEMMA NextStep ==
  ASSUME Rows, Registry, [Next]_vars
  PROVE  Rows' /\ Registry' /\ Governs
<1>0. (UNCHANGED registry => Registry') /\ (UNCHANGED task => Rows' /\ Governs)
  BY DEF Registry, Rows, Governs
<1>1. ASSUME NEW t \in Tasks, Client(t)
      PROVE  Rows' /\ Registry' /\ Governs
  BY <1>0, <1>1, ClientStep
<1>2. CASE ClearQueue
  <2>1. task' = [t \in Tasks |-> Cleared(task[t])] /\ UNCHANGED registry
    BY <1>2 DEF ClearQueue
  <2> QED BY <2>1, <1>0, ClearedGood DEF Rows, Governs
<1>3. ASSUME NEW t \in Tasks, NEW i \in DOMAIN task[t].work, Runner(t, i)
      PROVE  Rows' /\ Registry' /\ Governs
  BY <1>0, <1>3, RunnerStep
<1>4. ASSUME NEW r \in Runners, NEW st \in Statuses, Heartbeat(r, st)
      PROVE  Rows' /\ Registry' /\ Governs
  <2>1. UNCHANGED task /\ Registry'
    BY <1>4, ConstantsAssumption DEF Heartbeat, Registry, RunnerRow
  <2> QED BY <2>1, <1>0
<1>5. CASE Reaper
  BY <1>0, <1>5, ReaperStep
<1>6. CASE Clock
  BY <1>6, ClockStep
<1>7. CASE UNCHANGED vars
  BY <1>0, <1>7 DEF vars
<1> QED BY <1>1, <1>2, <1>3, <1>4, <1>5, <1>6, <1>7 DEF Next

\* Only CheckResume records a request, and it records the runner that the
\* session is pinned to.
LEMMA AskedStep ==
  ASSUME Rows, Asked, [Next]_vars
  PROVE  Asked'
<1>0. UNCHANGED resumes => Asked'
  BY DEF Asked
<1>1. ASSUME NEW t \in Tasks, Client(t) PROVE Asked'
  <2>1. ASSUME NEW s \in DOMAIN task[t].sess, CheckResume(t, s) PROVE Asked'
    <3>1. /\ RowsOK(task[t])
          /\ task[t].sess[s].pinned # NoRunner
          /\ resumes' = resumes \cup {<<t, s, task[t].sess[s].pinned>>}
      BY <2>1 DEF Rows, CheckResume, Resumable
    <3>2. task[t].sess[s] \in SessionRow /\ s \in Nat \ {0}
      BY <3>1, Shape
    <3>3. task[t].sess[s].pinned \in Runners
      BY <3>1, <3>2 DEF SessionRow
    <3> QED BY <3>1, <3>2, <3>3 DEF Asked
  <2>2. ASSUME NEW s \in DOMAIN task[t].sess, NEW r \in Runners, ResumeAgentSession(t, s, r)
        PROVE  Asked'
    BY <1>0, <2>2 DEF ResumeAgentSession
  <2>3. ASSUME NEW src \in Tasks, RerunTask(src, t) PROVE Asked'
    BY <1>0, <2>3 DEF RerunTask
  <2>4. CASE SubmitTask(t) \/ RecoverTask(t) \/ CancelTask(t) \/ ExtendTaskTimeout(t)
    BY <1>0, <2>4 DEF SubmitTask, RecoverTask, CancelTask, ExtendTaskTimeout
  <2> QED BY <1>1, <2>1, <2>2, <2>3, <2>4 DEF Client
<1>2. CASE ClearQueue
  BY <1>0, <1>2 DEF ClearQueue
<1>3. ASSUME NEW t \in Tasks, NEW i \in DOMAIN task[t].work, Runner(t, i) PROVE Asked'
  BY <1>0, <1>3 DEF Runner, ClaimOnce, RenewLease, RecordTaskEvent
<1>4. ASSUME NEW r \in Runners, NEW st \in Statuses, Heartbeat(r, st) PROVE Asked'
  BY <1>0, <1>4 DEF Heartbeat
<1>5. CASE Reaper
  BY <1>0, <1>5 DEF Reaper, ReapStaleTasks, ReapExpiredLeases, ReapStaleUserPrompts,
     RevertOrphanedRunningUserPrompts, ReapStaleSessionsForTerminalRuns,
     ReapUnavailablePinnedResumeTasks, ReapIsolationUnavailableTasks, ReapExpiredSessions,
     ReapExpiredSessionArtifacts
<1>6. CASE Clock
  BY <1>0, <1>6 DEF Clock, LeaseElapses, TimeoutElapses, Silence
<1>7. CASE UNCHANGED vars
  BY <1>0, <1>7 DEF vars
<1> QED BY <1>1, <1>2, <1>3, <1>4, <1>5, <1>6, <1>7 DEF Next

(***************************************************************************)
(* Who joins the queue.                                                    *)
(***************************************************************************)

\* A statement that puts U in place of T queues only work that was queued or
\* running before.
Joins(T, U) == U.status = "pending" => T.status \in {"pending", "running"}

LEMMA ColumnsKeepStatus ==
  ASSUME NEW T, RowsOK(T), NEW f
  PROVE  [T EXCEPT !.work = f].status = T.status /\ [T EXCEPT !.sess = f].status = T.status
BY DEF RowsOK, TaskRow

LEMMA MovesKeepStatus ==
  ASSUME NEW T, RowsOK(T), NEW I, NEW st
  PROVE  /\ MoveAttempts(T, I, st).status = T.status
         /\ MovePrompts(T, I, st).status = T.status
         /\ MoveSessions(T, I, st).status = T.status
BY ColumnsKeepStatus DEF MoveAttempts, MovePrompts, MoveSessions

LEMMA OperatorJoins ==
  ASSUME NEW T, RowsOK(T)
  PROVE  /\ Joins(T, Cancelled(CancelAttempts(T, Active)))
         /\ Joins(T, Cleared(T)) /\ Joins(T, Extended(T))
         /\ \A S : Joins(T, ClearedExports(T, S))
<1>1. \A S : RowsOK(CancelAttempts(T, S)) /\ CancelAttempts(T, S).status = T.status
  BY CancelAttemptsRows
<1>2. Joins(T, Cancelled(CancelAttempts(T, Active)))
  BY <1>1, CancelledRows DEF Joins
<1>3. Joins(T, Cleared(T))
  BY <1>1, CancelledRows DEF Joins, Cleared
<1>4. Joins(T, Extended(T)) /\ \A S : Joins(T, ClearedExports(T, S))
  BY ColumnsKeepStatus DEF Extended, ClearedExports, Joins
<1> QED BY <1>2, <1>3, <1>4

LEMMA RollupJoins ==
  ASSUME NEW T, RowsOK(T)
  PROVE  Joins(T, ReapStale(T)) /\ Joins(T, FailExpired(T)) /\ Joins(T, ReapIsolation(T))
<1>1. \A I : \A st \in AttemptStatus :
        /\ RowsOK(MoveAttempts(T, I, st)) /\ MoveAttempts(T, I, st).status = T.status
  BY MoveAttemptsRows, MovesKeepStatus
<1>2. "timeout" \in AttemptStatus /\ "isolation_unavailable" \in AttemptStatus
  BY DEF AttemptStatus
<1>3. \A U : RowsOK(U) => FailedTask(U, "other").status = "error"
  BY FailedTaskRows
<1>4. Joins(T, ReapStale(T))
  BY <1>1, <1>2, <1>3 DEF ReapStale, Joins
<1>5. Joins(T, FailExpired(T))
  BY <1>1, <1>2, <1>3 DEF FailExpired, Joins
<1>6. Joins(T, ReapIsolation(T))
  BY <1>1, <1>2, <1>3 DEF ReapIsolation, Joins
<1> QED BY <1>4, <1>5, <1>6

LEMMA PinnedJoins ==
  ASSUME NEW T, RowsOK(T)
  PROVE  Joins(T, ReapPinned(T))
<1> DEFINE U == MoveAttempts(T, OrphanedResumes(T), "runner_unavailable")
           V == IF U.status = "pending" /\ Attempts(U, {"runner_unavailable"}) # {}
                THEN FailedTask(U, "runner_unavailable") ELSE U
           W == MovePrompts(V, Prompts(V, {"pending"}), "failed")
           S == Sessions(W, {"resuming"}) \cap SessionsWithPrompt(W, {"failed"})
<1>1. RowsOK(U) /\ U.status = T.status
  <2>1. "runner_unavailable" \in AttemptStatus
    BY DEF AttemptStatus
  <2> QED BY <2>1, MoveAttemptsRows, MovesKeepStatus
<1>2. RowsOK(V) /\ V.status \in {T.status, "error"}
  <2> HIDE DEF U
  <2> QED BY <1>1, FailedTaskRows
<1>3. RowsOK(W) /\ W.status = V.status
  <2>1. "failed" \in PromptStatus
    BY DEF PromptStatus
  <2> HIDE DEF V
  <2> QED BY <1>2, <2>1, MovePromptsRows, MovesKeepStatus
<1>4. MoveSessions(W, S, "error").status = V.status
  <2> HIDE DEF W, S
  <2> QED BY <1>3, MovesKeepStatus
<1>5. ReapPinned(T) = IF V.status = "error" /\ V.cat = "runner_unavailable"
                      THEN MoveSessions(W, S, "error") ELSE V
  BY DEF ReapPinned
<1> HIDE DEF U, V, W, S
<1> QED BY <1>2, <1>4, <1>5 DEF Joins

LEMMA SettlingJoins ==
  ASSUME NEW T, RowsOK(T)
  PROVE  Joins(T, SettledPrompts(T)) /\ Joins(T, RevertedPrompts(T)) /\ Joins(T, SettledSessions(T))
BY MovesKeepStatus DEF SettledPrompts, RevertedPrompts, SettledSessions, Joins

\* Every step but an admitted one lets only work join that was running.
LEMMA UnadmittedStep ==
  ASSUME Rows, [Next]_vars, ~Admitted, NEW t \in Tasks
  PROVE  Joins(task[t], task'[t])
<1>0. \A x \in Tasks : RowsOK(task[x])
  BY DEF Rows
<1>s. ASSUME NEW x \in Tasks, NEW U, task' = [task EXCEPT ![x] = U], Joins(task[x], U)
      PROVE  Joins(task[t], task'[t])
  BY <1>s DEF Rows, Joins
<1>u. ASSUME UNCHANGED task PROVE Joins(task[t], task'[t])
  BY <1>u DEF Joins
<1>1. ASSUME NEW x \in Tasks, Client(x) PROVE Joins(task[t], task'[t])
  <2>1. CASE CancelTask(x)
    BY <2>1, <1>0, <1>s, OperatorJoins DEF CancelTask
  <2>2. CASE ExtendTaskTimeout(x)
    BY <2>2, <1>0, <1>s, OperatorJoins DEF ExtendTaskTimeout
  <2>3. ASSUME NEW s \in DOMAIN task[x].sess, CheckResume(x, s) PROVE UNCHANGED task
    BY <2>3 DEF CheckResume
  <2>4. ~SubmitTask(x) /\ ~RecoverTask(x) /\ \A src \in Tasks : ~RerunTask(src, x)
    BY DEF SubmitTask, RecoverTask, RerunTask
  <2>5. \A s \in DOMAIN task[x].sess, r \in Runners : ~ResumeAgentSession(x, s, r)
    BY DEF ResumeAgentSession
  <2> QED BY <1>1, <1>u, <2>1, <2>2, <2>3, <2>4, <2>5 DEF Client
<1>2. CASE ClearQueue
  BY <1>2, <1>0, OperatorJoins DEF ClearQueue
<1>3. ASSUME NEW x \in Tasks, NEW i \in DOMAIN task[x].work, Runner(x, i)
      PROVE  Joins(task[t], task'[t])
  <2>1. ASSUME NEW r \in Runners, ClaimOnce(r, x, i) PROVE Joins(task[t], task'[t])
    <3>1. task[x].status = "pending" /\ task' = [task EXCEPT ![x] = Claimed(task[x], i, r)]
      BY <2>1 DEF ClaimOnce, Claimable
    <3>2. Joins(task[x], Claimed(task[x], i, r))
      BY <3>1 DEF Joins
    <3> QED BY <3>1, <3>2, <1>s
  <2>2. CASE RenewLease(x, i)
    <3>1. task' = [task EXCEPT ![x] = [task[x] EXCEPT !.work = [@ EXCEPT ![i].lease = "live"]]]
      BY <2>2 DEF RenewLease
    <3> QED BY <3>1, <1>0, <1>s, ColumnsKeepStatus DEF Joins
  <2>3. ASSUME NEW e \in Events, RecordTaskEvent(x, i, e) PROVE Joins(task[t], task'[t])
    <3> DEFINE U == Reported(task[x], i, task[x].work[i].runner, e)
    <3>1. task' = [task EXCEPT ![x] = U]
      BY <2>3 DEF RecordTaskEvent
    <3>2. U.status = e.status
      BY <1>0 DEF Reported, RowsOK, TaskRow
    <3>3. e.status # "pending"
      BY ConstantsAssumption DEF EventType
    <3> HIDE DEF U
    <3> QED BY <3>1, <3>2, <3>3, <1>s DEF Joins
  <2> QED BY <1>3, <2>1, <2>2, <2>3 DEF Runner
<1>4. ASSUME NEW r \in Runners, NEW st \in Statuses, Heartbeat(r, st) PROVE UNCHANGED task
  BY <1>4 DEF Heartbeat
<1>5. CASE Reaper
  <2>1. CASE ReapStaleTasks
    BY <2>1, <1>0, RollupJoins DEF ReapStaleTasks
  <2>2. CASE ReapExpiredLeases
    <3>1. /\ task'[t] = FailExpired(IF Reclaimable(task[t]) # {} THEN Reclaimed(task[t]) ELSE task[t])
          /\ \A i \in Reclaimable(task[t]) : task[t].status = "running"
      BY <2>2 DEF ReapExpiredLeases, ReapLeases
    <3>2. CASE Reclaimable(task[t]) = {}
      BY <3>1, <3>2, <1>0, RollupJoins
    <3>3. CASE Reclaimable(task[t]) # {}
      BY <3>1, <3>3 DEF Joins
    <3> QED BY <3>2, <3>3
  <2>3. CASE ReapStaleUserPrompts
    BY <2>3, <1>0, SettlingJoins DEF ReapStaleUserPrompts
  <2>4. CASE RevertOrphanedRunningUserPrompts
    BY <2>4, <1>0, SettlingJoins DEF RevertOrphanedRunningUserPrompts
  <2>5. CASE ReapStaleSessionsForTerminalRuns
    BY <2>5, <1>0, SettlingJoins DEF ReapStaleSessionsForTerminalRuns
  <2>6. CASE ReapUnavailablePinnedResumeTasks
    BY <2>6, <1>0, PinnedJoins DEF ReapUnavailablePinnedResumeTasks
  <2>7. CASE ReapIsolationUnavailableTasks
    BY <2>7, <1>0, RollupJoins DEF ReapIsolationUnavailableTasks
  <2>8. ASSUME NEW x \in Tasks, ReapExpiredSessions(x) PROVE Joins(task[t], task'[t])
    <3>1. PICK S : task' = [task EXCEPT ![x] = MoveSessions(task[x], S, "expired")]
      BY <2>8 DEF ReapExpiredSessions
    <3> QED BY <3>1, <1>0, <1>s, MovesKeepStatus DEF Joins
  <2>9. ASSUME NEW x \in Tasks, ReapExpiredSessionArtifacts(x) PROVE Joins(task[t], task'[t])
    <3>1. PICK S : task' = [task EXCEPT ![x] = ClearedExports(task[x], S)]
      BY <2>9 DEF ReapExpiredSessionArtifacts
    <3> QED BY <3>1, <1>0, <1>s, OperatorJoins
  <2> QED BY <1>5, <2>1, <2>2, <2>3, <2>4, <2>5, <2>6, <2>7, <2>8, <2>9 DEF Reaper
<1>6. CASE Clock
  <2>1. ASSUME NEW x \in Tasks, NEW i \in DOMAIN task[x].work, LeaseElapses(x, i)
        PROVE  Joins(task[t], task'[t])
    <3>1. task' = [task EXCEPT ![x] = [task[x] EXCEPT !.work = [@ EXCEPT ![i].lease = "expired"]]]
      BY <2>1 DEF LeaseElapses
    <3> QED BY <3>1, <1>0, <1>s, ColumnsKeepStatus DEF Joins
  <2>2. ASSUME NEW x \in Tasks, NEW i \in DOMAIN task[x].work, TimeoutElapses(x, i)
        PROVE  Joins(task[t], task'[t])
    <3>1. task' = [task EXCEPT ![x] = [task[x] EXCEPT !.work = [@ EXCEPT ![i].overdue = TRUE]]]
      BY <2>2 DEF TimeoutElapses
    <3> QED BY <3>1, <1>0, <1>s, ColumnsKeepStatus DEF Joins
  <2>3. ASSUME NEW r \in Runners, Silence(r) PROVE UNCHANGED task
    BY <2>3 DEF Silence
  <2> QED BY <1>6, <1>u, <2>1, <2>2, <2>3 DEF Clock
<1>7. CASE UNCHANGED vars
  BY <1>7, <1>u DEF vars
<1> QED BY <1>1, <1>2, <1>3, <1>4, <1>5, <1>6, <1>7, <1>u DEF Next

(***************************************************************************)
(* Theorems.                                                               *)
(***************************************************************************)

\* Every row keeps the columns of the schema, and every prompt its session,
\* under every handler and every reaper step.
THEOREM TypeCorrect == Spec => []TypeOK
<1>1. Init => Rows /\ Registry /\ Asked
  BY Initial DEF Init, Asked
<1>2. Rows /\ Registry /\ Asked /\ [Next]_vars => (Rows /\ Registry /\ Asked)'
  BY NextStep, AskedStep
<1>3. Rows /\ Registry /\ Asked => TypeOK
  BY Aggregates
<1> QED BY <1>1, <1>2, <1>3, PTL DEF Spec

\* No handler and no reaper step strands a task: a running task has a running
\* attempt and a pending task a queued one, whatever session clients resume.
THEOREM NothingStranded == Spec => []NoStrandedTask
<1>1. Init => Rows /\ Registry
  BY Initial
<1>2. Rows /\ Registry /\ [Next]_vars => (Rows /\ Registry)'
  BY NextStep
<1>3. Rows /\ Registry => NoStrandedTask
  BY Aggregates
<1> QED BY <1>1, <1>2, <1>3, PTL DEF Spec

\* When the queue is at its cap, submit, rerun, recover and resume are refused
\* and only the reaper's requeue of a running task adds to it, for any finite
\* number of tasks and whatever sessions clients resume.
THEOREM QueueCapRespected == ASSUME IsFiniteSet(Tasks) PROVE Spec => AdmissionCapHolds
<1>1. Init => Rows /\ Registry
  BY Initial
<1>2. Rows /\ Registry /\ [Next]_vars => (Rows /\ Registry)'
  BY NextStep
<1>3. Rows /\ [Next]_vars =>
        [MaxPendingTasks > 0 /\ Cardinality(PendingTasks) >= MaxPendingTasks =>
           \A t \in PendingTasks' \ PendingTasks : task[t].status = "running"]_vars
  <2> SUFFICES ASSUME Rows, [Next]_vars, MaxPendingTasks > 0,
                      Cardinality(PendingTasks) >= MaxPendingTasks,
                      NEW t \in PendingTasks' \ PendingTasks
               PROVE  task[t].status = "running"
    OBVIOUS
  <2>1. IsFiniteSet(PendingTasks) /\ Cardinality(PendingTasks) \in Nat
    BY FS_Subset, FS_CardinalityType DEF PendingTasks
  <2>2. ~Admitted
    BY <2>1, ConstantsAssumption DEF Admitted, PendingTasks
  <2>3. t \in Tasks /\ task'[t].status = "pending" /\ task[t].status # "pending"
    BY DEF PendingTasks
  <2> QED BY <2>2, <2>3, UnadmittedStep DEF Joins
<1> QED BY <1>1, <1>2, <1>3, PTL DEF Spec, AdmissionCapHolds
=============================================================================
