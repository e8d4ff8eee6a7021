----------------------- MODULE RunnerControllerProofs -----------------------
(***************************************************************************)
(* Theorems about RunnerController, for any executions of any tasks, any   *)
(* concurrency and any number of restarts.                                 *)
(***************************************************************************)
EXTENDS RunnerController, FiniteSetTheorems, TLAPS
-----------------------------------------------------------------------------
(***************************************************************************)
(* What the updates of a goroutine's record do.                            *)
(***************************************************************************)

LEMMA FreshFacts ==
  ASSUME NEW w \in Executions
  PROVE  /\ Fresh(w) \in Goroutine
         /\ Fresh(w).pc = "none" /\ ~Fresh(w).path /\ ~Fresh(w).preserve
         /\ Fresh(w).defers = {} /\ Fresh(w).ws = w /\ ~Fresh(w).panicked
BY DEF Fresh, Goroutine, Phases

LEMMA FailedFacts ==
  ASSUME NEW g \in Goroutine
  PROVE  /\ Failed(g) \in Goroutine
         /\ Failed(g).pc = "reporting" /\ Failed(g).path = g.path
         /\ Failed(g).preserve = g.preserve /\ Failed(g).defers = g.defers
         /\ Failed(g).ws = g.ws
BY DEF Failed, Goroutine, Phases

LEMMA UnwoundFacts ==
  ASSUME NEW g \in Goroutine, NEW b \in BOOLEAN
  PROVE  /\ Unwound(g, b) \in Goroutine
         /\ Unwound(g, b).pc = "teardown" /\ ~Unwound(g, b).path
         /\ Unwound(g, b).preserve = g.preserve /\ Unwound(g, b).defers = g.defers
         /\ Unwound(g, b).ws = g.ws
BY DEF Unwound, Fresh, Goroutine, Phases

LEMMA EndedFacts ==
  ASSUME NEW g \in Goroutine
  PROVE  /\ Ended(g) \in Goroutine
         /\ Ended(g).pc = "gone" /\ ~Ended(g).path /\ Ended(g).defers = {}
         /\ Ended(g).ws = g.ws
BY DEF Ended, Fresh, Goroutine, Phases

\* One goroutine moves.
LEMMA OneMoves ==
  ASSUME TypeOK, NEW e \in Executions, NEW h \in Goroutine, run' = [run EXCEPT ![e] = h]
  PROVE  /\ run' \in [Executions -> Goroutine] /\ run'[e] = h
         /\ \A f \in Executions : f # e => run'[f] = run[f]
BY DEF TypeOK

\* The columns that the invariant reads.
Keeps(g, h) == h.path = g.path /\ h.preserve = g.preserve /\ h.defers = g.defers /\ h.ws = g.ws

LEMMA SetPc ==
  ASSUME NEW g \in Goroutine, NEW x \in Phases, NEW h, h = [g EXCEPT !.pc = x]
  PROVE  h \in Goroutine /\ h.pc = x /\ Keeps(g, h)
BY DEF Goroutine, Keeps

LEMMA SetCtx ==
  ASSUME NEW g \in Goroutine, NEW x \in {"live", "cancelled", "deadline"}, NEW h, h = [g EXCEPT !.ctx = x]
  PROVE  h \in Goroutine /\ h.pc = g.pc /\ Keeps(g, h)
BY DEF Goroutine, Keeps

LEMMA SetStuck ==
  ASSUME NEW g \in Goroutine, NEW x \in BOOLEAN, NEW h, h = [g EXCEPT !.stuck = x]
  PROVE  h \in Goroutine /\ h.pc = g.pc /\ Keeps(g, h)
BY DEF Goroutine, Keeps

LEMMA SetPause ==
  ASSUME NEW g \in Goroutine, NEW x \in BOOLEAN, NEW h, h = [g EXCEPT !.pause = x]
  PROVE  h \in Goroutine /\ h.pc = g.pc /\ Keeps(g, h)
BY DEF Goroutine, Keeps

LEMMA SetStatus ==
  ASSUME NEW g \in Goroutine, NEW x \in {"none", "done", "error", "cancelled"}, NEW h, h = [g EXCEPT !.status = x]
  PROVE  h \in Goroutine /\ h.pc = g.pc /\ Keeps(g, h)
BY DEF Goroutine, Keeps

LEMMA SetWs ==
  ASSUME NEW g \in Goroutine, NEW x \in Executions, NEW h, h = [g EXCEPT !.ws = x]
  PROVE  /\ h \in Goroutine /\ h.pc = g.pc /\ h.path = g.path /\ h.preserve = g.preserve
         /\ h.defers = g.defers /\ h.ws = x
BY DEF Goroutine, Keeps

Undone == SUBSET {"box", "workspace", "session"}

LEMMA SetDefers ==
  ASSUME NEW g \in Goroutine, NEW x \in Undone, NEW h, h = [g EXCEPT !.defers = x]
  PROVE  /\ h \in Goroutine /\ h.pc = g.pc /\ h.path = g.path /\ h.preserve = g.preserve
         /\ h.defers = x /\ h.ws = g.ws
BY DEF Goroutine, Keeps, Undone

LEMMA SetPreserve ==
  ASSUME NEW g \in Goroutine, NEW x \in BOOLEAN, NEW h, h = [g EXCEPT !.preserve = x]
  PROVE  /\ h \in Goroutine /\ h.pc = g.pc /\ h.path = g.path /\ h.preserve = x
         /\ h.defers = g.defers /\ h.ws = g.ws
BY DEF Goroutine, Keeps

LEMMA SetPath ==
  ASSUME NEW g \in Goroutine, NEW x \in BOOLEAN, NEW h, h = [g EXCEPT !.path = x]
  PROVE  /\ h \in Goroutine /\ h.pc = g.pc /\ h.path = x /\ h.preserve = g.preserve
         /\ h.defers = g.defers /\ h.ws = g.ws
BY DEF Goroutine, Keeps

\* Only the goroutine of e moves; it moves to phase p and keeps these columns.
Others(e) ==
  /\ run' \in [Executions -> Goroutine]
  /\ \A f \in Executions : f # e => run'[f] = run[f]

Moved(e, p) == Others(e) /\ run'[e].pc = p /\ Keeps(run[e], run'[e])

LEMMA MovedTo ==
  ASSUME TypeOK, NEW e \in Executions, NEW p \in Phases, run' = [run EXCEPT ![e].pc = p]
  PROVE  Moved(e, p)
<1>1. run[e] \in Goroutine
  BY DEF TypeOK
<1>2. PICK h : h = [run[e] EXCEPT !.pc = p]
  OBVIOUS
<1>3. run' = [run EXCEPT ![e] = h]
  BY <1>2, Zenon
<1>4. h \in Goroutine /\ h.pc = p /\ Keeps(run[e], h)
  BY <1>1, <1>2, SetPc
<1> QED BY <1>3, <1>4, OneMoves DEF Moved, Others

LEMMA MovedFailed ==
  ASSUME TypeOK, NEW e \in Executions, run' = [run EXCEPT ![e] = Failed(@)]
  PROVE  Moved(e, "reporting")
<1>1. run[e] \in Goroutine
  BY DEF TypeOK
<1>2. run' = [run EXCEPT ![e] = Failed(run[e])]
  OBVIOUS
<1> QED BY <1>1, <1>2, FailedFacts, OneMoves DEF Moved, Others, Keeps

\* A goroutine joins the task group, or is refused before it is registered.
LEMMA EntryFacts ==
  ASSUME TypeOK, NEW e \in Executions
  PROVE  /\ Enter(e) => Moved(e, "entered")
         /\ GateRefuses(e) \/ PrepareFails(e) \/ StartContainerFails(e) => Moved(e, "reporting")
         /\ Leave(e) /\ run[e].panicked => Moved(e, "recovering")
<1>1. {"entered", "reporting", "recovering"} \subseteq Phases
  BY DEF Phases
<1> QED BY <1>1, MovedTo, MovedFailed DEF Enter, GateRefuses, PrepareFails, StartContainerFails, Leave

LEMMA RegisterFacts ==
  ASSUME TypeOK, NEW e \in Executions, Register(e)
  PROVE  \/ Moved(e, "reporting") /\ tasks' = tasks
         \/ /\ Others(e) /\ run'[e].pc = "preparing" /\ run'[e].defers = {"session"}
            /\ run'[e].path = run[e].path /\ run'[e].preserve = run[e].preserve
            /\ run'[e].ws = run[e].ws
            /\ tasks' = tasks \cup {e} /\ LiveExecutions(TaskOf[e]) = {}
<1>1. CASE LiveExecutions(TaskOf[e]) # {}
  BY <1>1, MovedFailed DEF Register
<1>2. CASE LiveExecutions(TaskOf[e]) = {}
  <2>1. PICK x \in {"cancelled", "live"} :
          run' = [run EXCEPT ![e].pc = "preparing", ![e].defers = {"session"}, ![e].ctx = x]
    BY <1>2, Zenon DEF Register
  <2>2. run[e] \in Goroutine /\ "preparing" \in Phases
    BY DEF TypeOK, Phases
  <2>3. PICK g : g = [run[e] EXCEPT !.pc = "preparing"]
    OBVIOUS
  <2>a. PICK D \in Undone : D = {"session"}
    BY DEF Undone
  <2>4. PICK q : q = [g EXCEPT !.defers = D]
    OBVIOUS
  <2>5. PICK h : h = [q EXCEPT !.ctx = x]
    OBVIOUS
  <2>6. run' = [run EXCEPT ![e] = h]
    BY <2>1, <2>3, <2>a, <2>4, <2>5, Zenon
  <2>7. g \in Goroutine /\ g.pc = "preparing" /\ Keeps(run[e], g)
    BY <2>2, <2>3, SetPc
  <2>8. /\ q \in Goroutine /\ q.pc = "preparing" /\ q.defers = D
        /\ q.path = g.path /\ q.preserve = g.preserve /\ q.ws = g.ws
    BY <2>4, <2>7, SetDefers
  <2>9. h \in Goroutine /\ h.pc = "preparing" /\ Keeps(q, h)
    BY <2>5, <2>8, SetCtx
  <2> QED BY <1>2, <2>a, <2>6, <2>7, <2>8, <2>9, OneMoves DEF Others, Keeps, Register
<1> QED BY <1>1, <1>2

LEMMA OpenWorkspaceFacts ==
  ASSUME TypeOK, NEW e \in Executions, OpenWorkspace(e)
  PROVE  \/ run[e].ws # e /\ disk' = disk /\ Moved(e, "reporting")
         \/ run[e].ws # e /\ run[e].ws \in disk /\ disk' = disk /\ Moved(e, "workspace")
         \/ /\ run[e].ws = e /\ disk' = disk \cup {e} /\ Others(e)
            /\ run'[e].pc = "workspace" /\ run'[e].defers = run[e].defers \cup {"workspace"}
            /\ run'[e].path = run[e].path /\ run'[e].preserve = run[e].preserve
            /\ run'[e].ws = run[e].ws
<1>0. run[e] \in Goroutine /\ "workspace" \in Phases
  BY DEF TypeOK, Phases
<1>1. CASE run[e].ws # e /\ run[e].ws \notin disk
  <2>1. run' = [run EXCEPT ![e] = Failed(@)] /\ disk' = disk
    BY <1>1 DEF OpenWorkspace
  <2> QED BY <1>1, <2>1, MovedFailed
<1>2. CASE run[e].ws # e /\ run[e].ws \in disk
  <2>1. run' = [run EXCEPT ![e].pc = "workspace"] /\ disk' = disk
    BY <1>2 DEF OpenWorkspace
  <2> QED BY <1>0, <1>2, <2>1, MovedTo
<1>3. CASE run[e].ws = e
  <2>1. /\ run' = [run EXCEPT ![e].pc = "workspace", ![e].defers = @ \cup {"workspace"}]
        /\ disk' = disk \cup {e}
    BY <1>3 DEF OpenWorkspace
  <2>2. PICK g : g = [run[e] EXCEPT !.pc = "workspace"]
    OBVIOUS
  <2>3. g \in Goroutine /\ g.pc = "workspace" /\ Keeps(run[e], g)
    BY <1>0, <2>2, SetPc
  <2>4. PICK D \in Undone : D = run[e].defers \cup {"workspace"}
    BY <1>0 DEF Goroutine, Undone
  <2>5. PICK h : h = [g EXCEPT !.defers = D]
    OBVIOUS
  <2>6. /\ h \in Goroutine /\ h.pc = "workspace" /\ h.defers = D
        /\ h.path = g.path /\ h.preserve = g.preserve /\ h.ws = g.ws
    BY <2>3, <2>5, SetDefers
  <2>7. run' = [run EXCEPT ![e] = h]
    BY <2>1, <2>2, <2>4, <2>5, Zenon
  <2>8. run'[e] = h /\ Others(e)
    BY <2>6, <2>7, OneMoves DEF Others
  <2> QED BY <1>3, <2>1, <2>3, <2>4, <2>6, <2>8 DEF Keeps
<1> QED BY <1>1, <1>2, <1>3

\* The phases of a registered goroutine.
LEMMA StartContainerFacts ==
  ASSUME TypeOK, NEW e \in Executions, StartContainer(e)
  PROVE  /\ Others(e) /\ run'[e].pc = "agent" /\ run'[e].defers = run[e].defers \cup {"box"}
         /\ run'[e].path = run[e].path /\ run'[e].preserve = run[e].preserve
         /\ run'[e].ws = run[e].ws
<1>0. run[e] \in Goroutine /\ "agent" \in Phases
  BY DEF TypeOK, Phases
<1>1. run' = [run EXCEPT ![e].pc = "agent", ![e].defers = @ \cup {"box"}]
  BY DEF StartContainer
<1>2. PICK g : g = [run[e] EXCEPT !.pc = "agent"]
  OBVIOUS
<1>3. g \in Goroutine /\ g.pc = "agent" /\ Keeps(run[e], g)
  BY <1>0, <1>2, SetPc
<1>4. PICK D \in Undone : D = run[e].defers \cup {"box"}
  BY <1>0 DEF Goroutine, Undone
<1>5. PICK h : h = [g EXCEPT !.defers = D]
  OBVIOUS
<1>6. /\ h \in Goroutine /\ h.pc = "agent" /\ h.defers = D
      /\ h.path = g.path /\ h.preserve = g.preserve /\ h.ws = g.ws
  BY <1>3, <1>5, SetDefers
<1>7. run' = [run EXCEPT ![e] = h]
  BY <1>1, <1>2, <1>4, <1>5, Zenon
<1> QED BY <1>3, <1>4, <1>6, <1>7, OneMoves DEF Others, Keeps

LEMMA PromptFacts ==
  ASSUME TypeOK, NEW e \in Executions, NEW ok \in BOOLEAN, PromptReturns(e, ok)
  PROVE  Moved(e, "finalizing")
<1>0. run[e] \in Goroutine /\ "finalizing" \in Phases
  BY DEF TypeOK, Phases
<1>1. PICK x \in {"none", "done", "error", "cancelled"} :
        run' = [run EXCEPT ![e].pc = "finalizing", ![e].status = x]
  BY Zenon DEF PromptReturns
<1>2. PICK g : g = [run[e] EXCEPT !.pc = "finalizing"]
  OBVIOUS
<1>3. g \in Goroutine /\ g.pc = "finalizing" /\ Keeps(run[e], g)
  BY <1>0, <1>2, SetPc
<1>4. PICK h : h = [g EXCEPT !.status = x]
  OBVIOUS
<1>5. h \in Goroutine /\ h.pc = "finalizing" /\ Keeps(g, h)
  BY <1>3, <1>4, SetStatus
<1>6. run' = [run EXCEPT ![e] = h]
  BY <1>1, <1>2, <1>4, Zenon
<1> QED BY <1>3, <1>5, <1>6, OneMoves DEF Moved, Others, Keeps

LEMMA DecideStatusFacts ==
  ASSUME TypeOK, NEW e \in Executions, DecideStatus(e)
  PROVE  Moved(e, "exporting")
<1>0. run[e] \in Goroutine /\ "exporting" \in Phases /\ FALSE \in BOOLEAN
  BY DEF TypeOK, Phases
<1>1. FinalStatus(run[e]) \in {"none", "done", "error", "cancelled"}
  BY <1>0 DEF FinalStatus, Goroutine
<1>2. PICK a : a = [run[e] EXCEPT !.status = FinalStatus(run[e])]
  OBVIOUS
<1>3. PICK b : b = [a EXCEPT !.pc = "exporting"]
  OBVIOUS
<1>4. PICK c : c = [b EXCEPT !.ctx = "live"]
  OBVIOUS
<1>5. PICK d : d = [c EXCEPT !.stuck = FALSE]
  OBVIOUS
<1>6. PICK h : h = [d EXCEPT !.pause = FALSE]
  OBVIOUS
<1>7. run' = [run EXCEPT ![e] = h]
  BY <1>2, <1>3, <1>4, <1>5, <1>6, Zenon DEF DecideStatus
<1>8. a \in Goroutine /\ Keeps(run[e], a)
  BY <1>0, <1>1, <1>2, SetStatus
<1>9. b \in Goroutine /\ b.pc = "exporting" /\ Keeps(a, b)
  BY <1>0, <1>3, <1>8, SetPc
<1>10. c \in Goroutine /\ c.pc = "exporting" /\ Keeps(b, c)
  BY <1>4, <1>9, SetCtx
<1>11. d \in Goroutine /\ d.pc = "exporting" /\ Keeps(c, d)
  BY <1>0, <1>5, <1>10, SetStuck
<1>12. h \in Goroutine /\ h.pc = "exporting" /\ Keeps(d, h)
  BY <1>0, <1>6, <1>11, SetPause
<1> QED BY <1>7, <1>8, <1>9, <1>10, <1>11, <1>12, OneMoves DEF Moved, Others, Keeps

LEMMA DecideWorkspaceFacts ==
  ASSUME TypeOK, NEW e \in Executions, NEW rec \in BOOLEAN, DecideWorkspace(e, rec)
  PROVE  /\ Others(e) /\ run'[e].pc = "reporting" /\ run'[e].defers = run[e].defers
         /\ run'[e].path => run'[e].preserve
         /\ run[e].preserve => run'[e].preserve
         /\ run'[e].ws = run[e].ws
<1>0. run[e] \in Goroutine /\ "reporting" \in Phases /\ run[e].preserve \in BOOLEAN
  BY DEF TypeOK, Phases, Goroutine
<1>1. PICK k \in BOOLEAN :
        run' = [run EXCEPT ![e].path = k, ![e].preserve = @ \/ k, ![e].pc = "reporting"]
  BY Zenon DEF DecideWorkspace
<1>2. PICK a : a = [run[e] EXCEPT !.path = k]
  OBVIOUS
<1>3. /\ a \in Goroutine /\ a.path = k /\ a.preserve = run[e].preserve /\ a.defers = run[e].defers
      /\ a.ws = run[e].ws
  BY <1>0, <1>2, SetPath
<1>a. PICK v \in BOOLEAN : v = (run[e].preserve \/ k)
  OBVIOUS
<1>4. PICK b : b = [a EXCEPT !.preserve = v]
  OBVIOUS
<1>5. b \in Goroutine /\ b.path = k /\ b.preserve = v /\ b.defers = a.defers /\ b.ws = a.ws
  BY <1>3, <1>4, SetPreserve
<1>6. PICK h : h = [b EXCEPT !.pc = "reporting"]
  OBVIOUS
<1>7. h \in Goroutine /\ h.pc = "reporting" /\ Keeps(b, h)
  BY <1>0, <1>5, <1>6, SetPc
<1>8. run' = [run EXCEPT ![e] = h]
  BY <1>1, <1>2, <1>a, <1>4, <1>6, Zenon
<1>9. run'[e] = h /\ Others(e)
  BY <1>7, <1>8, OneMoves DEF Others
<1>10. h.path = k /\ h.preserve = b.preserve
  BY <1>5, <1>7 DEF Keeps
<1>11. (h.path => h.preserve) /\ (run[e].preserve => h.preserve)
  BY <1>5, <1>a, <1>10, Zenon
<1> QED BY <1>3, <1>5, <1>7, <1>9, <1>11 DEF Keeps

\* After the report, and after a panic, the defers run.
Unwinds(e) ==
  /\ Others(e) /\ run'[e].pc = "teardown" /\ ~run'[e].path
  /\ run'[e].preserve = run[e].preserve /\ run'[e].defers = run[e].defers
  /\ run'[e].ws = run[e].ws

Finishes(e) ==
  /\ Others(e) /\ run'[e].pc = "gone" /\ ~run'[e].path /\ run'[e].defers = {}
  /\ run'[e].ws = run[e].ws

LEMMA ReportFacts ==
  ASSUME TypeOK, NEW e \in Executions, ReportDelivered(e) \/ ReportLost(e)
  PROVE  \/ run[e].pc = "reporting" /\ Unwinds(e) /\ UNCHANGED <<sem, wg>>
         \/ run[e].pc = "recovering" /\ Finishes(e) /\ sem' = sem - 1 /\ wg' = wg - 1
<1>0. run[e] \in Goroutine
  BY DEF TypeOK
<1>1. CASE run[e].pc = "reporting"
  <2>1. run' = [run EXCEPT ![e] = Unwound(run[e], FALSE)] /\ UNCHANGED <<sem, wg>>
    BY <1>1 DEF ReportDelivered, ReportLost, AfterReport
  <2>2. PICK h : h = Unwound(run[e], FALSE)
    OBVIOUS
  <2>3. /\ h \in Goroutine /\ h.pc = "teardown" /\ ~h.path /\ h.preserve = run[e].preserve
        /\ h.defers = run[e].defers /\ h.ws = run[e].ws
    BY <1>0, <2>2, UnwoundFacts
  <2>4. run'[e] = h /\ Others(e)
    BY <2>1, <2>2, <2>3, OneMoves DEF Others
  <2> QED BY <1>1, <2>1, <2>3, <2>4 DEF Unwinds
<1>2. CASE run[e].pc = "recovering"
  <2>1. run' = [run EXCEPT ![e] = Ended(run[e])] /\ sem' = sem - 1 /\ wg' = wg - 1
    BY <1>2 DEF ReportDelivered, ReportLost, AfterReport
  <2>2. PICK h : h = Ended(run[e])
    OBVIOUS
  <2>3. h \in Goroutine /\ h.pc = "gone" /\ ~h.path /\ h.defers = {} /\ h.ws = run[e].ws
    BY <1>0, <2>2, EndedFacts
  <2>4. run'[e] = h /\ Others(e)
    BY <2>1, <2>2, <2>3, OneMoves DEF Others
  <2> QED BY <1>2, <2>1, <2>3, <2>4 DEF Finishes
<1> QED BY <1>1, <1>2 DEF ReportDelivered, ReportLost, At

LEMMA PanicsFacts ==
  ASSUME TypeOK, NEW e \in Executions, Panics(e)
  PROVE  Unwinds(e)
<1>0. run[e] \in Goroutine /\ TRUE \in BOOLEAN
  BY DEF TypeOK
<1>1. PICK h : h = Unwound(run[e], TRUE)
  OBVIOUS
<1>2. /\ h \in Goroutine /\ h.pc = "teardown" /\ ~h.path /\ h.preserve = run[e].preserve
      /\ h.defers = run[e].defers /\ h.ws = run[e].ws
  BY <1>0, <1>1, UnwoundFacts
<1>3. run' = [run EXCEPT ![e] = h]
  BY <1>1 DEF Panics
<1>4. run'[e] = h /\ Others(e)
  BY <1>2, <1>3, OneMoves DEF Others
<1> QED BY <1>2, <1>4 DEF Unwinds

LEMMA LeaveFacts ==
  ASSUME TypeOK, NEW e \in Executions, Leave(e), ~run[e].panicked
  PROVE  Finishes(e) /\ sem' = sem - 1 /\ wg' = wg - 1
<1>0. run[e] \in Goroutine
  BY DEF TypeOK
<1>1. PICK h : h = Ended(run[e])
  OBVIOUS
<1>2. h \in Goroutine /\ h.pc = "gone" /\ ~h.path /\ h.defers = {} /\ h.ws = run[e].ws
  BY <1>0, <1>1, EndedFacts
<1>3. run' = [run EXCEPT ![e] = h] /\ sem' = sem - 1 /\ wg' = wg - 1
  BY <1>1 DEF Leave
<1>4. run'[e] = h /\ Others(e)
  BY <1>2, <1>3, OneMoves DEF Others
<1> QED BY <1>2, <1>3, <1>4 DEF Finishes

\* A defer is done: x is what is left to undo.
LEMMA TeardownFacts ==
  ASSUME TypeOK, NEW e \in Executions, NEW D, run' = [run EXCEPT ![e].defers = D],
         D \subseteq run[e].defers
  PROVE  /\ Others(e) /\ run'[e].pc = run[e].pc /\ run'[e].defers = D
         /\ run'[e].path = run[e].path /\ run'[e].preserve = run[e].preserve
         /\ run'[e].ws = run[e].ws
<1>0. run[e] \in Goroutine /\ D \in Undone
  BY DEF TypeOK, Goroutine, Undone
<1>1. PICK h : h = [run[e] EXCEPT !.defers = D]
  OBVIOUS
<1>2. /\ h \in Goroutine /\ h.pc = run[e].pc /\ h.defers = D /\ h.path = run[e].path
      /\ h.preserve = run[e].preserve /\ h.ws = run[e].ws
  BY <1>0, <1>1, SetDefers
<1>3. run' = [run EXCEPT ![e] = h]
  BY <1>1, Zenon
<1>4. run'[e] = h /\ Others(e)
  BY <1>2, <1>3, OneMoves DEF Others
<1> QED BY <1>2, <1>4

\* Steps that only concern the context, the verdict or the health of e.
LEMMA ContextFacts ==
  ASSUME TypeOK, NEW e \in Executions,
         WatchdogFails(e) \/ TaskTimeout(e) \/ HeartbeatCancels(e)
  PROVE  Moved(e, run[e].pc)
<1>0. run[e] \in Goroutine /\ TRUE \in BOOLEAN
  BY DEF TypeOK
<1>1. CASE WatchdogFails(e)
  <2>1. PICK h : h = [run[e] EXCEPT !.stuck = TRUE]
    OBVIOUS
  <2>2. h \in Goroutine /\ h.pc = run[e].pc /\ Keeps(run[e], h)
    BY <1>0, <2>1, SetStuck
  <2>3. run' = [run EXCEPT ![e] = h]
    BY <1>1, <2>1, Zenon DEF WatchdogFails
  <2> QED BY <2>2, <2>3, OneMoves DEF Moved, Others
<1>2. CASE TaskTimeout(e) \/ HeartbeatCancels(e)
  <2>0. PICK x \in {"live", "cancelled", "deadline"} : run' = [run EXCEPT ![e].ctx = x]
    BY <1>2, Zenon DEF TaskTimeout, HeartbeatCancels
  <2>1. PICK h : h = [run[e] EXCEPT !.ctx = x]
    OBVIOUS
  <2>2. h \in Goroutine /\ h.pc = run[e].pc /\ Keeps(run[e], h)
    BY <1>0, <2>1, SetCtx
  <2>3. run' = [run EXCEPT ![e] = h]
    BY <2>0, <2>1, Zenon
  <2> QED BY <2>2, <2>3, OneMoves DEF Moved, Others
<1> QED BY <1>1, <1>2

\* A claim of e that works in w.
LEMMA ClaimFacts ==
  ASSUME TypeOK, NEW e \in Executions, NEW w \in Executions, run' = [run EXCEPT ![e].ws = w]
  PROVE  /\ Others(e) /\ run'[e].pc = run[e].pc /\ run'[e].defers = run[e].defers
         /\ run'[e].path = run[e].path /\ run'[e].preserve = run[e].preserve
         /\ run'[e].ws = w
<1>0. run[e] \in Goroutine
  BY DEF TypeOK
<1>1. PICK h : h = [run[e] EXCEPT !.ws = w]
  OBVIOUS
<1>2. /\ h \in Goroutine /\ h.pc = run[e].pc /\ h.defers = run[e].defers /\ h.path = run[e].path
      /\ h.preserve = run[e].preserve /\ h.ws = w
  BY <1>0, <1>1, SetWs
<1>3. run' = [run EXCEPT ![e] = h]
  BY <1>1, Zenon
<1>4. run'[e] = h /\ Others(e)
  BY <1>2, <1>3, OneMoves DEF Others
<1> QED BY <1>2, <1>4

\* The drain touches contexts, and at its deadline marks workspaces as preserved.
LEMMA CancelFacts ==
  ASSUME TypeOK, NEW e \in Executions, NEW h, h = Cancelled(tasks)[e]
  PROVE  h \in Goroutine /\ h.pc = run[e].pc /\ Keeps(run[e], h)
<1>0. run[e] \in Goroutine
  BY DEF TypeOK
<1>1. h = run[e] \/ h = [run[e] EXCEPT !.ctx = "cancelled"]
  BY DEF Cancelled
<1>2. CASE h = run[e]
  BY <1>0, <1>2 DEF Keeps
<1>3. CASE h = [run[e] EXCEPT !.ctx = "cancelled"]
  BY <1>0, <1>3, SetCtx
<1> QED BY <1>1, <1>2, <1>3

LEMMA DrainFacts ==
  ASSUME TypeOK, CancelRunContext \/ DrainDeadline
  PROVE  /\ run' \in [Executions -> Goroutine]
         /\ \A e \in Executions :
              /\ run'[e].pc = run[e].pc /\ run'[e].path = run[e].path
              /\ run'[e].defers = run[e].defers /\ run'[e].ws = run[e].ws
              /\ run[e].preserve => run'[e].preserve
<1>1. CASE CancelRunContext
  <2>1. run' = Cancelled(tasks)
    BY <1>1 DEF CancelRunContext
  <2>2. run' = [e \in Executions |-> run'[e]]
    BY <2>1 DEF Cancelled
  <2>3. \A e \in Executions : run'[e] \in Goroutine /\ run'[e].pc = run[e].pc /\ Keeps(run[e], run'[e])
    BY <2>1, CancelFacts
  <2> QED BY <2>2, <2>3 DEF Keeps
<1>2. CASE DrainDeadline
  <2>1. run' = [e \in Executions |-> run'[e]]
    BY <1>2 DEF DrainDeadline
  <2>2. ASSUME NEW e \in Executions
        PROVE  /\ run'[e] \in Goroutine
               /\ run'[e].pc = run[e].pc /\ run'[e].path = run[e].path
               /\ run'[e].defers = run[e].defers /\ run'[e].ws = run[e].ws
               /\ run[e].preserve => run'[e].preserve
    <3>1. PICK g : g = Cancelled(tasks)[e]
      OBVIOUS
    <3>2. g \in Goroutine /\ g.pc = run[e].pc /\ Keeps(run[e], g)
      BY <3>1, CancelFacts
    <3>3. CASE e \in tasks \cap Resumable
      <4>1. PICK b \in BOOLEAN : b = (run[e].pc \in Cancellable)
        <5>1. (run[e].pc \in Cancellable) \in BOOLEAN
          OBVIOUS
        <5> QED BY <5>1, Zenon
      <4>2. run'[e] = [Cancelled(tasks)[e] EXCEPT !.preserve = TRUE, !.pause = run[e].pc \in Cancellable]
        BY <1>2, <3>3 DEF DrainDeadline
      <4>3. PICK q : q = [g EXCEPT !.preserve = TRUE]
        OBVIOUS
      <4>4. PICK h : h = [q EXCEPT !.pause = b]
        OBVIOUS
      <4>5. run'[e] = h
        BY <3>1, <4>1, <4>2, <4>3, <4>4, Zenon
      <4>6. /\ q \in Goroutine /\ q.pc = g.pc /\ q.path = g.path /\ q.preserve = TRUE
            /\ q.defers = g.defers /\ q.ws = g.ws
        BY <3>2, <4>3, SetPreserve
      <4>7. h \in Goroutine /\ h.pc = q.pc /\ Keeps(q, h)
        BY <4>4, <4>6, SetPause
      <4> QED BY <3>2, <4>5, <4>6, <4>7 DEF Keeps
    <3>4. CASE e \notin tasks \cap Resumable
      <4>1. run'[e] = g
        BY <1>2, <3>1, <3>4 DEF DrainDeadline
      <4> QED BY <3>2, <4>1 DEF Keeps
    <3> QED BY <3>3, <3>4
  <2> QED BY <2>1, <2>2
<1> QED BY <1>1, <1>2

\* The process ends, and its goroutines with it.
LEMMA ExitFacts ==
  ASSUME TypeOK, Exit
  PROVE  /\ run' \in [Executions -> Goroutine]
         /\ \A e \in Executions :
              /\ run'[e].pc = IF attempt[e] = "queued" THEN "none" ELSE "gone"
              /\ ~run'[e].path /\ run'[e].defers = {} /\ run'[e].ws = run[e].ws
<1>1. run' = [e \in Executions |-> run'[e]]
  BY DEF Exit
<1>2. ASSUME NEW e \in Executions
      PROVE  /\ run'[e] \in Goroutine
             /\ run'[e].pc = IF attempt[e] = "queued" THEN "none" ELSE "gone"
             /\ ~run'[e].path /\ run'[e].defers = {} /\ run'[e].ws = run[e].ws
  <2>1. PICK p \in Phases : p = IF attempt[e] = "queued" THEN "none" ELSE "gone"
    BY DEF Phases
  <2>2. PICK g : g = Fresh(run[e].ws)
    OBVIOUS
  <2>3. run[e].ws \in Executions
    BY DEF TypeOK, Goroutine
  <2>4. g \in Goroutine /\ ~g.path /\ g.defers = {} /\ g.ws = run[e].ws
    BY <2>2, <2>3, FreshFacts
  <2>5. run'[e] = [g EXCEPT !.pc = p]
    BY <2>1, <2>2 DEF Exit
  <2>6. run'[e] \in Goroutine /\ run'[e].pc = p /\ Keeps(g, run'[e])
    BY <2>4, <2>5, SetPc
  <2> QED BY <2>1, <2>4, <2>6 DEF Keeps
<1> QED BY <1>1, <1>2
-----------------------------------------------------------------------------
(***************************************************************************)
(* The inductive invariant.                                                *)
(***************************************************************************)

\* The goroutines that have joined the task group.
Joined == Holding \ {"spawned"}

In(phases) == {e \in Executions : run[e].pc \in phases}

\* The semaphore and the task group count goroutines.
Counted == SlotsAccounted /\ wg = Cardinality(In(Joined))

\* An execution that was never handed out, or that the claim loop still holds,
\* has no goroutine.
Unstarted ==
  /\ \A e \in Executions : attempt[e] = "queued" => run[e].pc = "none"
  /\ got # NoExecution => run[got].pc = "none" /\ attempt[got] # "queued"

\* The defers of a goroutine and the tasks map agree, and the map holds one
\* execution per task.
Unregistered == {"none", "spawned", "entered", "recovering", "gone"}

Working == {"preparing", "workspace", "agent", "finalizing", "exporting"}

Registered ==
  /\ \A e \in Executions :
       /\ (e \in tasks) <=> ("session" \in run[e].defers)
       /\ run[e].defers # {} => "session" \in run[e].defers
       /\ run[e].pc \in Unregistered => run[e].defers = {}
       /\ run[e].pc \in Working => "session" \in run[e].defers
  /\ \A e, f \in tasks : TaskOf[e] = TaskOf[f] => e = f

\* The control plane runs one attempt of a task, and retains the workspace a
\* running attempt has resumed in.
Attempted ==
  /\ \A e, f \in Executions :
       attempt[e] = "running" /\ attempt[f] = "running" /\ TaskOf[e] = TaskOf[f] => e = f
  /\ \A e \in Executions :
       attempt[e] = "running" =>
         TaskOf[run[e].ws] = TaskOf[e] /\ (run[e].ws = e \/ run[e].ws \in retained)

\* A path is reported only of a preserved workspace.
Preserved ==
  \A e \in Executions :
    run[e].path => run[e].pc = "reporting" /\ run[e].preserve

\* A directory is of an execution that was handed out.
OnDisk == \A w \in disk : attempt[w] # "queued"

\* A retained workspace is there, and nothing is left that would destroy it: its
\* own execution is over, and its defers spare it.
Ending == {"teardown", "recovering", "gone"}

RetainedKept ==
  \A w \in retained : /\ w \in disk /\ attempt[w] = "over" /\ run[w].pc \in Ending
                      /\ "workspace" \in run[w].defers => run[w].preserve

\* The workspace reaper's verdict stays right until it is used.
PruneSpares == prune # NoExecution => attempt[prune] = "over" /\ prune \notin retained

\* The directory of a running attempt is there, until its report as a path.
Sited == {"workspace", "agent", "finalizing", "exporting"}

RunsOnDisk ==
  \A e \in Executions :
    attempt[e] = "running" /\ (run[e].pc \in Sited \/ run[e].path) => run[e].ws \in disk

Kept == OnDisk /\ RetainedKept /\ PruneSpares /\ RunsOnDisk

\* A container belongs to a goroutine that is or was registered, and a verdict of
\* the container reaper to one that has ended.
Begun == Phases \ {"none", "spawned", "entered"}

Contained ==
  /\ \A e \in boxes : attempt[e] # "queued" /\ run[e].pc \in Begun
  /\ sweep # NoExecution =>
       attempt[sweep] = "over" /\ run[sweep].pc \in Begun /\ sweep \notin tasks

\* Whoever waits for the goroutines is draining, so no more of them are spawned;
\* those that were not through when the task group was empty had not joined it.
Unlisted ==
  /\ main \notin {"serving", "stopped"} => draining
  /\ main \in {"reports", "stopping"} /\ ~forced =>
       \A e \in Executions \ late : run[e].pc \in {"none", "gone"}

IInv == TypeOK /\ Unlisted /\ Counted /\ Unstarted /\ Registered /\ Attempted /\ Preserved /\ Kept /\ Contained
-----------------------------------------------------------------------------
(***************************************************************************)
(* Slots and the task group.                                               *)
(***************************************************************************)

LEMMA CountType ==
  ASSUME NEW P
  PROVE  IsFiniteSet(In(P)) /\ Cardinality(In(P)) \in Nat /\ Cardinality(In(P)) <= Cardinality(Executions)
<1>1. In(P) \subseteq Executions /\ IsFiniteSet(Executions)
  BY RunnerAssumption DEF In
<1> QED BY <1>1, FS_Subset, FS_CardinalityType

\* What the move of one goroutine does to the number of goroutines in P.
LEMMA CountMoves ==
  ASSUME TypeOK, NEW e \in Executions, Others(e), NEW P
  PROVE  /\ (run[e].pc \in P <=> run'[e].pc \in P) => Cardinality(In(P)') = Cardinality(In(P))
         /\ run[e].pc \notin P /\ run'[e].pc \in P => Cardinality(In(P)') = Cardinality(In(P)) + 1
         /\ run[e].pc \in P /\ run'[e].pc \notin P => Cardinality(In(P)') = Cardinality(In(P)) - 1
<1>1. IsFiniteSet(In(P))
  BY CountType
<1>2. CASE run[e].pc \in P <=> run'[e].pc \in P
  <2>1. In(P)' = In(P)
    BY <1>2 DEF In, Others
  <2> QED BY <1>2, <2>1
<1>3. CASE run[e].pc \notin P /\ run'[e].pc \in P
  <2>1. In(P)' = In(P) \cup {e} /\ e \notin In(P)
    BY <1>3 DEF In, Others
  <2> QED BY <1>1, <1>3, <2>1, FS_AddElement
<1>4. CASE run[e].pc \in P /\ run'[e].pc \notin P
  <2>1. In(P)' = In(P) \ {e} /\ e \in In(P)
    BY <1>4 DEF In, Others
  <2> QED BY <1>1, <1>4, <2>1, FS_RemoveElement
<1> QED BY <1>2, <1>3, <1>4

LEMMA CountStays ==
  ASSUME \A e \in Executions : run'[e].pc = run[e].pc, NEW P
  PROVE  In(P)' = In(P)
BY DEF In

LoopHolds == loop \in {"polling", "got"}

LEMMA CountedBy ==
  Counted <=> /\ sem = Cardinality(In(Holding)) + (IF LoopHolds THEN 1 ELSE 0)
              /\ wg = Cardinality(In(Joined))
BY DEF Counted, SlotsAccounted, In, LoopHolds

LEMMA CountedByNext ==
  Counted' <=> /\ sem' = Cardinality(In(Holding)') + (IF LoopHolds' THEN 1 ELSE 0)
               /\ wg' = Cardinality(In(Joined)')
BY DEF Counted, SlotsAccounted, In, LoopHolds

\* A goroutine that goes on with its work keeps its slot and its place.
LEMMA CountedWork ==
  ASSUME TypeOK, Counted, NEW e \in Executions, Others(e),
         run[e].pc \in Joined, run'[e].pc \in Joined, UNCHANGED <<sem, wg, loop>>
  PROVE  Counted'
<1>1. run[e].pc \in Holding /\ run'[e].pc \in Holding
  BY DEF Joined
<1> QED BY <1>1, CountMoves, CountedBy, CountedByNext DEF LoopHolds

\* Steps in which no goroutine moves.
LEMMA CountedIdle ==
  ASSUME Counted, \A e \in Executions : run'[e].pc = run[e].pc, wg' = wg,
         \/ sem' = sem /\ LoopHolds' = LoopHolds
         \/ sem' = sem + 1 /\ ~LoopHolds /\ LoopHolds'
         \/ sem' = sem - 1 /\ LoopHolds /\ ~LoopHolds'
  PROVE  Counted'
<1>1. Cardinality(In(Holding)) \in Nat /\ In(Holding)' = In(Holding) /\ In(Joined)' = In(Joined)
  BY CountType, CountStays
<1> QED BY <1>1, CountedBy, CountedByNext

LEMMA CountedEnds ==
  ASSUME TypeOK, Counted, NEW e \in Executions, Finishes(e), run[e].pc \in Joined,
         sem' = sem - 1, wg' = wg - 1, loop' = loop
  PROVE  Counted'
<1>1. run[e].pc \in Holding /\ run'[e].pc \notin Holding /\ run'[e].pc \notin Joined /\ Others(e)
  BY DEF Joined, Holding, Finishes
<1>2. Cardinality(In(Holding)) \in Nat /\ Cardinality(In(Joined)) \in Nat
  BY CountType
<1> QED BY <1>1, <1>2, CountMoves, CountedBy, CountedByNext DEF LoopHolds

LEMMA CountedRunTask ==
  ASSUME TypeOK, Counted, NEW e \in Executions, RunTask(e) \/ Panics(e)
  PROVE  Counted'
<1>0. {"entered", "preparing", "workspace", "agent", "finalizing", "exporting", "reporting",
       "teardown", "recovering"} \subseteq Joined
  BY DEF Joined, Holding, Phases
<1>1. CASE Enter(e)
  <2>1. Others(e) /\ run[e].pc = "spawned" /\ run'[e].pc = "entered"
    BY <1>1, EntryFacts DEF Enter, At, Moved
  <2>2. /\ run[e].pc \in Holding /\ run'[e].pc \in Holding
        /\ run[e].pc \notin Joined /\ run'[e].pc \in Joined
    BY <2>1 DEF Joined, Holding, Phases
  <2>3. wg' = wg + 1 /\ sem' = sem /\ loop' = loop
    BY <1>1 DEF Enter, claiming
  <2> QED BY <2>1, <2>2, <2>3, CountMoves, CountedBy, CountedByNext DEF LoopHolds
<1>2. CASE GateRefuses(e) \/ PrepareFails(e) \/ StartContainerFails(e)
  <2>1. /\ Others(e) /\ run'[e].pc = "reporting" /\ UNCHANGED <<sem, wg, loop>>
        /\ run[e].pc \in {"entered", "preparing", "workspace", "agent"}
    BY <1>2, EntryFacts DEF GateRefuses, PrepareFails, StartContainerFails, At, Moved, Alone, claiming
  <2> QED BY <1>0, <2>1, CountedWork
<1>3. CASE Register(e)
  <2>1. /\ Others(e) /\ run'[e].pc \in {"reporting", "preparing"} /\ UNCHANGED <<sem, wg, loop>>
        /\ run[e].pc = "entered"
    BY <1>3, RegisterFacts DEF Register, At, Moved, claiming
  <2> QED BY <1>0, <2>1, CountedWork
<1>4. CASE OpenWorkspace(e)
  <2>1. /\ Others(e) /\ run'[e].pc \in {"reporting", "workspace"} /\ UNCHANGED <<sem, wg, loop>>
        /\ run[e].pc = "preparing"
    BY <1>4, OpenWorkspaceFacts DEF OpenWorkspace, At, Moved, claiming
  <2> QED BY <1>0, <2>1, CountedWork
<1>5. CASE StartContainer(e)
  <2>1. /\ Others(e) /\ run'[e].pc = "agent" /\ UNCHANGED <<sem, wg, loop>>
        /\ run[e].pc = "workspace"
    BY <1>5, StartContainerFacts DEF StartContainer, At, claiming
  <2> QED BY <1>0, <2>1, CountedWork
<1>6. ASSUME NEW ok \in BOOLEAN, PromptReturns(e, ok) PROVE Counted'
  <2>1. /\ Others(e) /\ run'[e].pc = "finalizing" /\ UNCHANGED <<sem, wg, loop>>
        /\ run[e].pc = "agent"
    BY <1>6, PromptFacts DEF PromptReturns, At, Moved, Alone, claiming
  <2> QED BY <1>0, <2>1, CountedWork
<1>7. CASE DecideStatus(e)
  <2>1. /\ Others(e) /\ run'[e].pc = "exporting" /\ UNCHANGED <<sem, wg, loop>>
        /\ run[e].pc = "finalizing"
    BY <1>7, DecideStatusFacts DEF DecideStatus, At, Moved, Alone, claiming
  <2> QED BY <1>0, <2>1, CountedWork
<1>8. ASSUME NEW rec \in BOOLEAN, DecideWorkspace(e, rec) PROVE Counted'
  <2>1. /\ Others(e) /\ run'[e].pc = "reporting" /\ UNCHANGED <<sem, wg, loop>>
        /\ run[e].pc = "exporting"
    BY <1>8, DecideWorkspaceFacts DEF DecideWorkspace, At, Alone, claiming
  <2> QED BY <1>0, <2>1, CountedWork
<1>9. CASE ReportDelivered(e) \/ ReportLost(e)
  <2>0. loop' = loop
    BY <1>9 DEF ReportDelivered, ReportLost
  <2>1. CASE run[e].pc = "reporting" /\ Unwinds(e) /\ UNCHANGED <<sem, wg>>
    <3>1. Others(e) /\ run'[e].pc = "teardown"
      BY <2>1 DEF Unwinds
    <3> QED BY <1>0, <2>0, <2>1, <3>1, CountedWork
  <2>2. CASE run[e].pc = "recovering" /\ Finishes(e) /\ sem' = sem - 1 /\ wg' = wg - 1
    BY <1>0, <2>0, <2>2, CountedEnds
  <2> QED BY <1>9, <2>1, <2>2, ReportFacts
<1>10. CASE Panics(e)
  <2>1. /\ Others(e) /\ run'[e].pc = "teardown" /\ UNCHANGED <<sem, wg, loop>>
        /\ run[e].pc \in {"preparing", "workspace", "agent", "finalizing", "exporting", "reporting"}
    BY <1>10, PanicsFacts DEF Panics, At, Unwinds, Alone, claiming
  <2> QED BY <1>0, <2>1, CountedWork
<1>11. CASE TeardownContainer(e) \/ TeardownWorkspace(e) \/ TeardownSession(e)
  <2>1. PICK D : run' = [run EXCEPT ![e].defers = D] /\ D \subseteq run[e].defers
    BY <1>11 DEF TeardownContainer, TeardownWorkspace, TeardownSession
  <2>2. Others(e) /\ run'[e].pc = run[e].pc
    BY <2>1, TeardownFacts
  <2>3. run[e].pc = "teardown" /\ UNCHANGED <<sem, wg, loop>>
    BY <1>11 DEF TeardownContainer, TeardownWorkspace, TeardownSession, At, claiming
  <2> QED BY <1>0, <2>2, <2>3, CountedWork
<1>12. CASE Leave(e)
  <2>0. run[e].pc = "teardown" /\ loop' = loop
    BY <1>12 DEF Leave, At
  <2>1. CASE run[e].panicked
    <3>1. Others(e) /\ run'[e].pc = "recovering" /\ UNCHANGED <<sem, wg>>
      BY <1>12, <2>1, EntryFacts DEF Leave, Moved
    <3> QED BY <1>0, <2>0, <3>1, CountedWork
  <2>2. CASE ~run[e].panicked
    BY <1>0, <1>12, <2>0, <2>2, LeaveFacts, CountedEnds
  <2> QED BY <2>1, <2>2
<1> QED BY <1>1, <1>2, <1>3, <1>4, <1>5, <1>6, <1>7, <1>8, <1>9, <1>10, <1>11, <1>12 DEF RunTask
-----------------------------------------------------------------------------
(***************************************************************************)
(* What every step of a goroutine has in common.                           *)
(***************************************************************************)

\* The rest of the runner, and of the control plane, is left alone.
Bystanders ==
  UNCHANGED <<drainReq, process, loop, got, reapers, restarts>>

Steps(e) == RunTask(e) \/ Panics(e) \/ WatchdogFails(e) \/ TaskTimeout(e) \/ HeartbeatCancels(e)

LEMMA StepFrame ==
  ASSUME TypeOK, NEW e \in Executions, Steps(e)
  PROVE  /\ Others(e) /\ run'[e].ws = run[e].ws /\ Bystanders
         /\ run[e].pc \notin {"none", "gone"} /\ run'[e].pc \notin {"none", "spawned"}
         /\ run'[e].pc = "entered" => run[e].pc = "spawned"
         /\ \/ UNCHANGED <<attempt, retained>>
            \/ ReportDelivered(e)
<1> USE DEF Bystanders, claiming, reapers, store, server, process
<1>1. CASE Enter(e) \/ GateRefuses(e) \/ PrepareFails(e) \/ StartContainerFails(e)
  <2>1. Moved(e, "entered") \/ Moved(e, "reporting")
    BY <1>1, EntryFacts
  <2>2. /\ run[e].pc \in {"spawned", "entered", "preparing", "workspace", "agent"}
        /\ Bystanders /\ UNCHANGED <<attempt, retained>>
    BY <1>1 DEF Enter, GateRefuses, PrepareFails, StartContainerFails, At, Alone
  <2>3. CASE Enter(e)
    BY <2>1, <2>2, <2>3 DEF Enter, At, Moved, Keeps
  <2>4. CASE ~Enter(e)
    <3>1. Moved(e, "reporting")
      BY <1>1, <2>4, EntryFacts
    <3> QED BY <2>2, <3>1 DEF Moved, Keeps
  <2> QED BY <2>3, <2>4
<1>2. CASE Register(e)
  <2>1. Others(e) /\ run'[e].ws = run[e].ws /\ run'[e].pc \in {"reporting", "preparing"}
    BY <1>2, RegisterFacts DEF Moved, Keeps
  <2>2. run[e].pc = "entered" /\ Bystanders /\ UNCHANGED <<attempt, retained>>
    BY <1>2 DEF Register, At
  <2> QED BY <2>1, <2>2
<1>3. CASE OpenWorkspace(e)
  <2>1. Others(e) /\ run'[e].ws = run[e].ws /\ run'[e].pc \in {"reporting", "workspace"}
    BY <1>3, OpenWorkspaceFacts DEF Moved, Keeps
  <2>2. run[e].pc = "preparing" /\ Bystanders /\ UNCHANGED <<attempt, retained>>
    BY <1>3 DEF OpenWorkspace, At
  <2> QED BY <2>1, <2>2
<1>4. CASE StartContainer(e)
  <2>1. run[e].pc = "workspace" /\ Bystanders /\ UNCHANGED <<attempt, retained>>
    BY <1>4 DEF StartContainer, At
  <2> QED BY <1>4, <2>1, StartContainerFacts
<1>5. ASSUME NEW ok \in BOOLEAN, PromptReturns(e, ok)
      PROVE  /\ Others(e) /\ run'[e].ws = run[e].ws /\ Bystanders /\ UNCHANGED <<attempt, retained>>
             /\ run[e].pc = "agent" /\ run'[e].pc = "finalizing"
  <2>1. run[e].pc = "agent" /\ Bystanders /\ UNCHANGED <<attempt, retained>>
    BY <1>5 DEF PromptReturns, At, Alone
  <2> QED BY <1>5, <2>1, PromptFacts DEF Moved, Keeps
<1>6. CASE DecideStatus(e)
  <2>1. run[e].pc = "finalizing" /\ Bystanders /\ UNCHANGED <<attempt, retained>>
    BY <1>6 DEF DecideStatus, At, Alone
  <2> QED BY <1>6, <2>1, DecideStatusFacts DEF Moved, Keeps
<1>7. ASSUME NEW rec \in BOOLEAN, DecideWorkspace(e, rec)
      PROVE  /\ Others(e) /\ run'[e].ws = run[e].ws /\ Bystanders /\ UNCHANGED <<attempt, retained>>
             /\ run[e].pc = "exporting" /\ run'[e].pc = "reporting"
  <2>1. run[e].pc = "exporting" /\ Bystanders /\ UNCHANGED <<attempt, retained>>
    BY <1>7 DEF DecideWorkspace, At, Alone
  <2> QED BY <1>7, <2>1, DecideWorkspaceFacts
<1>8. CASE ReportDelivered(e) \/ ReportLost(e)
  <2>1. /\ run[e].pc \in {"reporting", "recovering"} /\ Bystanders
        /\ UNCHANGED <<attempt, retained>> \/ ReportDelivered(e)
    BY <1>8 DEF ReportDelivered, ReportLost, At
  <2>2. Others(e) /\ run'[e].ws = run[e].ws /\ run'[e].pc \in {"teardown", "gone"}
    BY <1>8, ReportFacts DEF Unwinds, Finishes
  <2> QED BY <2>1, <2>2
<1>9. CASE Panics(e)
  <2>1. /\ run[e].pc \in {"preparing", "workspace", "agent", "finalizing", "exporting", "reporting"}
        /\ Bystanders /\ UNCHANGED <<attempt, retained>>
    BY <1>9 DEF Panics, At, Alone
  <2> QED BY <1>9, <2>1, PanicsFacts DEF Unwinds
<1>10. CASE TeardownContainer(e) \/ TeardownWorkspace(e) \/ TeardownSession(e)
  <2>1. PICK D : run' = [run EXCEPT ![e].defers = D] /\ D \subseteq run[e].defers
    BY <1>10 DEF TeardownContainer, TeardownWorkspace, TeardownSession
  <2>2. run[e].pc = "teardown" /\ Bystanders /\ UNCHANGED <<attempt, retained>>
    BY <1>10 DEF TeardownContainer, TeardownWorkspace, TeardownSession, At
  <2> QED BY <2>1, <2>2, TeardownFacts
<1>11. CASE Leave(e)
  <2>1. run[e].pc = "teardown" /\ Bystanders /\ UNCHANGED <<attempt, retained>>
    BY <1>11 DEF Leave, At
  <2>2. Others(e) /\ run'[e].ws = run[e].ws /\ run'[e].pc \in {"recovering", "gone"}
    BY <1>11, EntryFacts, LeaveFacts DEF Moved, Keeps, Finishes
  <2> QED BY <2>1, <2>2
<1>12. CASE WatchdogFails(e) \/ TaskTimeout(e) \/ HeartbeatCancels(e)
  <2>1. run[e].pc \in Cancellable /\ Bystanders /\ UNCHANGED <<attempt, retained>>
    BY <1>12 DEF WatchdogFails, TaskTimeout, HeartbeatCancels, At, Alone, Cancellable
  <2> QED BY <1>12, <2>1, ContextFacts DEF Moved, Keeps, Cancellable
<1> QED BY <1>1, <1>2, <1>3, <1>4, <1>5, <1>6, <1>7, <1>8, <1>9, <1>10, <1>11, <1>12 DEF Steps, RunTask

\* The steps of the process, of the reapers and of the control plane.
Barrier == CleanupDone \/ ReportsDone \/ HardKill

Signals == HeartbeatDrains \/ Sigterm \/ CancelRunContext \/ DrainDone \/ DrainDeadline \/ Barrier \/ Restart

Exits == ProcessExits \/ Crash

Reaps == (\E e \in Executions : PruneVerdict(e) \/ SweepVerdict(e)) \/ PruneDestroy \/ SweepRemove

Decides == (\E e \in Executions : AttemptEnds(e) \/ SessionExpires(e))
             \/ RequestDrain \/ ReapStaleRunnerDrains

LEMMA Cases ==
  ASSUME Next
  PROVE  ClaimLoop \/ (\E e \in Executions : Steps(e)) \/ Signals \/ Exits \/ Reaps \/ Decides
BY DEF Next, Steps, Signals, Barrier, Exits, Reaps, Decides

LEMMA SignalFrame ==
  ASSUME TypeOK, Signals
  PROVE  /\ run' \in [Executions -> Goroutine]
         /\ \A e \in Executions :
              /\ run'[e].pc = run[e].pc /\ run'[e].path = run[e].path
              /\ run'[e].defers = run[e].defers /\ run'[e].ws = run[e].ws
              /\ run[e].preserve => run'[e].preserve
         /\ UNCHANGED <<attempt, retained, loop, got, sem, wg, tasks, disk, boxes, prune, sweep>>
<1> USE DEF server, process, claiming, store, reapers
<1>1. CASE CancelRunContext \/ DrainDeadline
  <2>1. UNCHANGED <<attempt, retained, loop, got, sem, wg, tasks, disk, boxes, prune, sweep>>
    BY <1>1 DEF CancelRunContext, DrainDeadline
  <2> QED BY <1>1, <2>1, DrainFacts
<1>2. CASE HeartbeatDrains \/ Sigterm \/ DrainDone \/ Barrier \/ Restart
  <2>1. run' = run /\ UNCHANGED <<attempt, retained, loop, got, sem, wg, tasks, disk, boxes, prune, sweep>>
    BY <1>2 DEF HeartbeatDrains, Sigterm, DrainDone, Barrier, CleanupDone, ReportsDone, HardKill, OnlyMain, Restart
  <2> QED BY <2>1 DEF TypeOK
<1> QED BY <1>1, <1>2 DEF Signals

LEMMA ReapFrame ==
  ASSUME Reaps
  PROVE  UNCHANGED <<server, process, claiming, wg, tasks, run, restarts>>
BY DEF Reaps, PruneVerdict, SweepVerdict, PruneDestroy, SweepRemove

LEMMA DecideFrame ==
  ASSUME Decides
  PROVE  UNCHANGED <<process, claiming, wg, tasks, run, store, reapers, restarts>>
BY DEF Decides, AttemptEnds, SessionExpires, RequestDrain, ReapStaleRunnerDrains, Environment

\* The claim loop hands out e, to work in w, or nothing.
Hands(e, w) ==
  /\ Claimable(e) /\ w \in WorkspaceFor(e)
  /\ attempt' = [attempt EXCEPT ![e] = "running"]
  /\ run' = [run EXCEPT ![e].ws = w]

LEMMA ClaimFrame ==
  ASSUME ClaimLoop
  PROVE  /\ UNCHANGED <<retained, drainReq, process, wg, tasks, store, reapers, restarts>>
         /\ \/ UNCHANGED <<attempt, run>> \/ ClaimSpawn
            \/ \E e \in Executions : \E w \in WorkspaceFor(e) : Hands(e, w)
BY DEF ClaimLoop, ClaimTop, ClaimSlot, ClaimSlotCancelled, PollClaim, PollNothing, ClaimSpawn, Hands, server

LEMMA HandsFacts ==
  ASSUME TypeOK, NEW e \in Executions, NEW w \in WorkspaceFor(e), Hands(e, w)
  PROVE  /\ Others(e) /\ run'[e].pc = run[e].pc /\ run'[e].defers = run[e].defers
         /\ run'[e].path = run[e].path /\ run'[e].preserve = run[e].preserve
         /\ run'[e].ws = w /\ w \in Executions
         /\ attempt' \in [Executions -> {"queued", "running", "over"}]
         /\ attempt[e] = "queued" /\ attempt'[e] = "running"
         /\ \A f \in Executions : f # e => attempt'[f] = attempt[f]
<1>1. w \in Executions
  BY DEF WorkspaceFor, TypeOK
<1>2. /\ attempt' \in [Executions -> {"queued", "running", "over"}]
      /\ attempt[e] = "queued" /\ attempt'[e] = "running"
      /\ \A f \in Executions : f # e => attempt'[f] = attempt[f]
  BY DEF Hands, Claimable, TypeOK
<1> QED BY <1>1, <1>2, ClaimFacts DEF Hands

LEMMA SpawnFacts ==
  ASSUME TypeOK, ClaimSpawn
  PROVE  /\ loop = "got" /\ got \in Executions /\ got' = NoExecution /\ attempt' = attempt
         /\ \/ draining /\ run' = run /\ sem' = sem - 1 /\ loop' = "returned"
            \/ ~draining /\ Moved(got, "spawned") /\ sem' = sem /\ loop' = "top"
<1>1. loop = "got" /\ got \in Executions
  BY DEF ClaimSpawn, TypeOK
<1>2. "spawned" \in Phases
  BY DEF Phases
<1> QED BY <1>1, <1>2, MovedTo DEF ClaimSpawn, server

LEMMA CountedStep ==
  ASSUME TypeOK, Counted, Unstarted, Next
  PROVE  Counted'
<1>1. CASE ClaimLoop
  <2>1. CASE ClaimSpawn
    <3>1. CASE draining
      <4>1. run' = run /\ sem' = sem - 1 /\ LoopHolds /\ ~LoopHolds' /\ wg' = wg
        BY <2>1, <3>1, SpawnFacts DEF LoopHolds, ClaimSpawn
      <4> QED BY <4>1, CountedIdle
    <3>2. CASE ~draining
      <4>1. /\ Others(got) /\ run'[got].pc = "spawned" /\ sem' = sem /\ wg' = wg
            /\ LoopHolds /\ ~LoopHolds' /\ got \in Executions /\ run[got].pc = "none"
        BY <2>1, <3>2, SpawnFacts, RunnerAssumption DEF LoopHolds, ClaimSpawn, Moved, Unstarted
      <4>2. /\ "none" \notin Holding /\ "spawned" \in Holding
            /\ "none" \notin Joined /\ "spawned" \notin Joined
        BY DEF Holding, Joined, Phases
      <4>3. Cardinality(In(Holding)) \in Nat
        BY CountType
      <4> QED BY <4>1, <4>2, <4>3, CountMoves, CountedBy, CountedByNext
    <3> QED BY <3>1, <3>2
  <2>2. CASE ~ClaimSpawn
    <3>1. wg' = wg
      BY <1>1, ClaimFrame
    <3>2. \A e \in Executions : run'[e].pc = run[e].pc
      <4>1. CASE UNCHANGED run
        BY <4>1
      <4>2. CASE \E e \in Executions : \E w \in WorkspaceFor(e) : Hands(e, w)
        BY <4>2, HandsFacts DEF Others
      <4> QED BY <1>1, <2>2, <4>1, <4>2, ClaimFrame
    <3>3. \/ sem' = sem /\ LoopHolds' = LoopHolds
          \/ sem' = sem + 1 /\ ~LoopHolds /\ LoopHolds'
          \/ sem' = sem - 1 /\ LoopHolds /\ ~LoopHolds'
      BY <1>1, <2>2 DEF ClaimLoop, ClaimTop, ClaimSlot, ClaimSlotCancelled, PollClaim, PollNothing, LoopHolds
    <3> QED BY <3>1, <3>2, <3>3, CountedIdle
  <2> QED BY <2>1, <2>2
<1>2. ASSUME NEW e \in Executions, Steps(e) PROVE Counted'
  <2>1. CASE RunTask(e) \/ Panics(e)
    BY <2>1, CountedRunTask
  <2>2. CASE WatchdogFails(e) \/ TaskTimeout(e) \/ HeartbeatCancels(e)
    <3>1. UNCHANGED <<sem, wg, loop>>
      BY <2>2 DEF WatchdogFails, TaskTimeout, HeartbeatCancels, Alone, claiming
    <3>2. \A f \in Executions : run'[f].pc = run[f].pc
      BY <2>2, ContextFacts DEF Moved, Others
    <3> QED BY <3>1, <3>2, CountedIdle DEF LoopHolds
  <2> QED BY <1>2, <2>1, <2>2 DEF Steps
<1>3. CASE Signals
  BY <1>3, SignalFrame, CountedIdle DEF LoopHolds
<1>4. CASE Reaps
  BY <1>4, ReapFrame, CountedIdle DEF LoopHolds, claiming
<1>5. CASE Decides
  BY <1>5, DecideFrame, CountedIdle DEF LoopHolds, claiming
<1>6. CASE Exits
  <2>1. Exit
    BY <1>6 DEF Exits, ProcessExits, Crash
  <2>2. \A e \in Executions : run'[e].pc \in {"none", "gone"}
    BY <2>1, ExitFacts
  <2>3. In(Holding)' = {} /\ In(Joined)' = {}
    BY <2>2 DEF In, Holding, Joined
  <2>4. sem' = 0 /\ wg' = 0 /\ ~LoopHolds'
    BY <2>1 DEF Exit, LoopHolds
  <2> QED BY <2>3, <2>4, FS_EmptySet, CountedByNext
<1> QED BY <1>1, <1>2, <1>3, <1>4, <1>5, <1>6, Cases

-----------------------------------------------------------------------------
(***************************************************************************)
(* Types.                                                                  *)
(***************************************************************************)

\* The counters stay in range because they count.
LEMMA CountersTyped ==
  ASSUME Counted', sem' <= Slots
  PROVE  sem' \in 0 .. Slots /\ wg' \in 0 .. Cardinality(Executions)
<1>1. /\ Cardinality(In(Holding)') \in Nat /\ Cardinality(In(Joined)') \in Nat
      /\ Cardinality(In(Joined)') <= Cardinality(Executions)
  <2>1. In(Holding)' \subseteq Executions /\ In(Joined)' \subseteq Executions /\ IsFiniteSet(Executions)
    BY RunnerAssumption DEF In
  <2> QED BY <2>1, FS_Subset, FS_CardinalityType
<1>2. Cardinality(Executions) \in Nat /\ Slots \in Nat
  BY RunnerAssumption, FS_CardinalityType DEF Slots
<1> QED BY <1>1, <1>2, CountedByNext

LEMMA SlotsBounded ==
  ASSUME TypeOK, Next
  PROVE  sem' <= Slots
<1>0. Slots \in Nat /\ sem \in 0 .. Slots
  BY RunnerAssumption DEF Slots, TypeOK
<1>1. \/ sem' \in {sem, sem - 1, 0}
      \/ sem < Slots /\ sem' = sem + 1
  <2>1. CASE ClaimLoop
    BY <2>1 DEF ClaimLoop, ClaimTop, ClaimSlot, ClaimSlotCancelled, PollClaim, PollNothing, ClaimSpawn
  <2>2. ASSUME NEW e \in Executions, Steps(e) PROVE sem' \in {sem, sem - 1}
    BY <2>2 DEF Steps, RunTask, Enter, GateRefuses, Register, OpenWorkspace, PrepareFails,
       StartContainer, StartContainerFails, PromptReturns, DecideStatus, DecideWorkspace,
       ReportDelivered, ReportLost, TeardownContainer, TeardownWorkspace, TeardownSession, Leave,
       Panics, WatchdogFails, TaskTimeout, HeartbeatCancels, Alone, claiming
  <2>3. CASE Signals
    BY <2>3, SignalFrame
  <2>4. CASE Reaps \/ Decides
    BY <2>4, ReapFrame, DecideFrame DEF claiming
  <2>5. CASE Exits
    BY <2>5 DEF Exits, ProcessExits, Crash, Exit
  <2> QED BY <2>1, <2>2, <2>3, <2>4, <2>5, Cases
<1> QED BY <1>0, <1>1

LEMMA TypeStep ==
  ASSUME TypeOK, Counted, Unstarted, Next
  PROVE  TypeOK'
<1>0. sem' \in 0 .. Slots /\ wg' \in 0 .. Cardinality(Executions)
  BY CountedStep, SlotsBounded, CountersTyped
<1> USE DEF TypeOK, server, process, claiming, store, reapers
<1>1. CASE ClaimLoop
  <2>1. run' \in [Executions -> Goroutine] /\ attempt' \in [Executions -> {"queued", "running", "over"}]
    <3>1. CASE ClaimSpawn
      BY <3>1, SpawnFacts DEF Moved, Others
    <3>2. CASE \E e \in Executions : \E w \in WorkspaceFor(e) : Hands(e, w)
      BY <3>2, HandsFacts DEF Others
    <3> QED BY <1>1, <3>1, <3>2, ClaimFrame
  <2>2. UNCHANGED <<retained, drainReq, main, draining, forced, late, tasks, disk, boxes, prune, sweep, restarts>>
    BY <1>1, ClaimFrame
  <2>3. /\ loop' \in {"top", "wait", "polling", "got", "returned"}
        /\ got' \in Executions \cup {NoExecution} /\ (loop' = "got") = (got' # NoExecution)
    BY <1>1, RunnerAssumption
       DEF ClaimLoop, ClaimTop, ClaimSlot, ClaimSlotCancelled, PollClaim, PollNothing, ClaimSpawn
  <2> QED BY <1>0, <2>1, <2>2, <2>3
<1>2. ASSUME NEW e \in Executions, Steps(e) PROVE TypeOK'
  <2>1. run' \in [Executions -> Goroutine] /\ Bystanders
    BY <1>2, StepFrame DEF Others
  <2>2. attempt' \in [Executions -> {"queued", "running", "over"}] /\ retained' \subseteq Executions
    <3>1. CASE ReportDelivered(e)
      <4>1. run[e].ws \in Executions
        BY DEF Goroutine
      <4>2. \A R \in Retention(run[e]) : R \subseteq Executions
        BY <4>1 DEF Retention
      <4> QED BY <3>1, <4>2 DEF ReportDelivered
    <3> QED BY <1>2, <3>1, StepFrame
  <2>3. tasks' \subseteq Executions /\ disk' \subseteq Executions /\ boxes' \subseteq Executions
    BY <1>2 DEF Steps, RunTask, Enter, GateRefuses, Register, OpenWorkspace, PrepareFails,
       StartContainer, StartContainerFails, PromptReturns, DecideStatus, DecideWorkspace,
       ReportDelivered, ReportLost, TeardownContainer, TeardownWorkspace, TeardownSession, Leave,
       Panics, WatchdogFails, TaskTimeout, HeartbeatCancels, Alone
  <2> QED BY <1>0, <2>1, <2>2, <2>3 DEF Bystanders
<1>3. CASE Signals
  <2>1. /\ main' \in {"serving", "signalled", "waiting", "cleanup", "reports", "stopping", "stopped"}
        /\ late' \subseteq Executions
    BY <1>3 DEF Spawned, Barrier, CleanupDone, ReportsDone, HardKill, OnlyMain, Signals, HeartbeatDrains, Sigterm, CancelRunContext, DrainDone, DrainDeadline, Restart
  <2>2. restarts' \in 0 .. MaxRestarts
    <3>1. restarts' = restarts \/ (restarts < MaxRestarts /\ restarts' = restarts + 1)
      BY <1>3 DEF Barrier, CleanupDone, ReportsDone, HardKill, OnlyMain, Signals, HeartbeatDrains, Sigterm, CancelRunContext, DrainDone, DrainDeadline, Restart
    <3>2. MaxRestarts \in Nat /\ restarts \in 0 .. MaxRestarts
      BY RunnerAssumption
    <3> HIDE DEF TypeOK
    <3> QED BY <3>1, <3>2
  <2>3. draining' \in BOOLEAN /\ forced' \in BOOLEAN
    BY <1>3 DEF Barrier, CleanupDone, ReportsDone, HardKill, OnlyMain, Signals, HeartbeatDrains, Sigterm, CancelRunContext, DrainDone, DrainDeadline, Restart
  <2>4. drainReq' \in BOOLEAN
    <3>1. CASE Sigterm
      <4>1. drainReq' = drainReq \/ drainReq' = (drainReq /\ draining)
        BY <3>1 DEF Sigterm
      <4>2. drainReq \in BOOLEAN /\ (drainReq /\ draining) \in BOOLEAN
        OBVIOUS
      <4> QED BY <4>1, <4>2, Zenon
    <3>2. CASE ~Sigterm
      BY <1>3, <3>2 DEF Barrier, CleanupDone, ReportsDone, HardKill, OnlyMain, Signals, HeartbeatDrains, CancelRunContext, DrainDone, DrainDeadline, Restart
    <3> QED BY <3>1, <3>2
  <2> QED BY <1>0, <1>3, <2>1, <2>2, <2>3, <2>4, SignalFrame
<1>4. CASE Reaps
  <2>1. /\ disk' \subseteq Executions /\ boxes' \subseteq Executions
        /\ prune' \in Executions \cup {NoExecution} /\ sweep' \in Executions \cup {NoExecution}
    BY <1>4 DEF Reaps, PruneVerdict, SweepVerdict, PruneDestroy, SweepRemove
  <2> QED BY <1>0, <1>4, <2>1, ReapFrame
<1>5. CASE Decides
  <2>1. /\ attempt' \in [Executions -> {"queued", "running", "over"}]
        /\ retained' \subseteq Executions /\ drainReq' \in BOOLEAN
    BY <1>5 DEF Decides, AttemptEnds, SessionExpires, RequestDrain, ReapStaleRunnerDrains
  <2> QED BY <1>0, <1>5, <2>1, DecideFrame
<1>6. CASE Exits
  <2>1. Exit /\ forced' \in BOOLEAN
    BY <1>6 DEF Exits, ProcessExits, Crash
  <2>2. run' \in [Executions -> Goroutine]
    BY <2>1, ExitFacts
  <2> QED BY <1>0, <2>1, <2>2 DEF Exit
<1> QED BY <1>1, <1>2, <1>3, <1>4, <1>5, <1>6, Cases

LEMMA UnstartedStep ==
  ASSUME TypeOK, Unstarted, Next
  PROVE  Unstarted'
<1>0. got # NoExecution => got \in Executions
  BY DEF TypeOK
<1>1. CASE ClaimLoop
  <2>1. CASE ClaimSpawn
    <3>1. /\ got \in Executions /\ got' = NoExecution /\ attempt' = attempt
          /\ \A e \in Executions : e # got => run'[e] = run[e]
          /\ attempt[got] # "queued"
      BY <2>1, SpawnFacts, RunnerAssumption DEF Moved, Others, Unstarted
    <3> QED BY <3>1 DEF Unstarted
  <2>2. ASSUME NEW e \in Executions, NEW w \in WorkspaceFor(e), Hands(e, w) PROVE Unstarted'
    <3>1. /\ \A f \in Executions : run'[f].pc = run[f].pc
          /\ \A f \in Executions : attempt'[f] = "queued" => attempt[f] = "queued"
          /\ attempt[e] = "queued"
      BY <2>2, HandsFacts DEF Others
    <3>2. CASE got' = NoExecution
      BY <3>1, <3>2 DEF Unstarted
    <3>3. CASE got' # NoExecution
      <4>1. got' \in Executions /\ attempt'[got'] # "queued" /\ run[got'].pc = "none"
        <5>1. CASE got' = got
          BY <1>0, <3>1, <3>3, <5>1 DEF Unstarted
        <5>2. CASE got' # got
          <6>1. PICK f \in Executions, v \in Executions : PollClaim(f, v)
            BY <1>1, <3>3, <5>2 DEF ClaimLoop, ClaimTop, ClaimSlot, ClaimSlotCancelled, PollNothing, ClaimSpawn
          <6>2. got' = f /\ attempt[f] = "queued" /\ attempt'[f] = "running"
            BY <6>1 DEF PollClaim, Claimable, TypeOK
          <6> QED BY <6>2 DEF Unstarted
        <5> QED BY <5>1, <5>2
      <4> QED BY <3>1, <4>1 DEF Unstarted
    <3> QED BY <3>2, <3>3
  <2>3. CASE UNCHANGED <<attempt, run>> /\ ~ClaimSpawn
    <3>1. got' = got
      <4>1. ASSUME NEW e \in Executions, NEW w \in Executions, PollClaim(e, w) PROVE FALSE
        BY <2>3, <4>1 DEF PollClaim, Claimable, TypeOK
      <4> QED BY <1>1, <2>3, <4>1 DEF ClaimLoop, ClaimTop, ClaimSlot, ClaimSlotCancelled, PollNothing
    <3> QED BY <2>3, <3>1 DEF Unstarted
  <2> QED BY <1>1, <2>1, <2>2, <2>3, ClaimFrame
<1>2. ASSUME NEW e \in Executions, Steps(e) PROVE Unstarted'
  <2>1. /\ got' = got /\ run[e].pc # "none"
        /\ \A f \in Executions : f # e => run'[f] = run[f]
    BY <1>2, StepFrame DEF Others, Bystanders
  <2>2. \A f \in Executions : attempt'[f] = "queued" => attempt[f] = "queued"
    BY <1>2, StepFrame DEF ReportDelivered, TypeOK
  <2> QED BY <1>0, <2>1, <2>2 DEF Unstarted
<1>3. CASE Signals
  BY <1>0, <1>3, SignalFrame DEF Unstarted
<1>4. CASE Reaps
  BY <1>4, ReapFrame DEF Unstarted, claiming, server
<1>5. CASE Decides
  <2>1. \A f \in Executions : attempt'[f] = "queued" => attempt[f] = "queued"
    BY <1>5 DEF Decides, AttemptEnds, SessionExpires, RequestDrain, ReapStaleRunnerDrains, TypeOK
  <2> QED BY <1>0, <1>5, <2>1, DecideFrame DEF Unstarted, claiming
<1>6. CASE Exits
  <2>1. Exit
    BY <1>6 DEF Exits, ProcessExits, Crash
  <2> QED BY <2>1, ExitFacts DEF Exit, Unstarted, server
<1> QED BY <1>1, <1>2, <1>3, <1>4, <1>5, <1>6, Cases
-----------------------------------------------------------------------------
(***************************************************************************)
(* The kinds of step of a goroutine.                                       *)
(***************************************************************************)

KeepsPaths(e) == run'[e].path = run[e].path /\ run'[e].preserve = run[e].preserve /\ run'[e].ws = run[e].ws

Joins(e) == Moved(e, "entered") /\ run[e].pc = "spawned" /\ UNCHANGED <<tasks, disk, boxes>>

\* A refusal or a failure, after which only the report is left.
Refused(e) ==
  /\ Moved(e, "reporting") /\ run[e].pc \in {"entered", "preparing", "workspace", "agent"}
  /\ UNCHANGED <<tasks, disk>>
  /\ boxes' = boxes \/ (boxes' = boxes \cup {e} /\ run[e].pc = "workspace")

Begins(e) ==
  /\ Others(e) /\ KeepsPaths(e)
  /\ run[e].pc = "entered" /\ run'[e].pc = "preparing" /\ run'[e].defers = {"session"}
  /\ tasks' = tasks \cup {e} /\ LiveExecutions(TaskOf[e]) = {}
  /\ UNCHANGED <<disk, boxes>>

Opens(e) ==
  /\ Others(e) /\ KeepsPaths(e)
  /\ run[e].pc = "preparing" /\ run'[e].pc = "workspace"
  /\ run'[e].defers = run[e].defers \/ run'[e].defers = run[e].defers \cup {"workspace"}
  /\ disk \subseteq disk' /\ disk' \subseteq disk \cup {e} /\ run[e].ws \in disk'
  /\ UNCHANGED <<tasks, boxes>>

Contains(e) ==
  /\ Others(e) /\ KeepsPaths(e)
  /\ run[e].pc = "workspace" /\ run'[e].pc = "agent"
  /\ run'[e].defers = run[e].defers \cup {"box"}
  /\ boxes' = boxes \cup {e}
  /\ UNCHANGED <<tasks, disk>>

\* The agent's work, and a context that ends.
Works(e) ==
  /\ Others(e) /\ Keeps(run[e], run'[e])
  /\ run[e].pc \in Working /\ run'[e].pc \in Working
  /\ run[e].pc = "preparing" => run'[e].pc = "preparing"
  /\ UNCHANGED <<tasks, disk, boxes>>

Concludes(e) ==
  /\ Others(e) /\ run[e].pc = "exporting" /\ run'[e].pc = "reporting"
  /\ run'[e].defers = run[e].defers /\ run'[e].ws = run[e].ws
  /\ run'[e].path => run'[e].preserve
  /\ run[e].preserve => run'[e].preserve
  /\ UNCHANGED <<tasks, disk, boxes>>

Defers(e) ==
  /\ Unwinds(e) /\ run[e].pc \in Working \cup {"reporting"}
  /\ UNCHANGED <<tasks, disk, boxes>>

\* One deferred call.
Undoes(e) ==
  /\ Others(e) /\ KeepsPaths(e) /\ run[e].pc = "teardown" /\ run'[e].pc = "teardown"
  /\ \/ /\ run'[e].defers = run[e].defers \ {"box"}
        /\ boxes' \in {boxes, boxes \ {e}} /\ UNCHANGED <<tasks, disk>>
     \/ /\ "workspace" \in run[e].defers /\ run'[e].defers = run[e].defers \ {"workspace"}
        /\ disk' = disk \/ (disk' = disk \ {e} /\ ~run[e].preserve)
        /\ UNCHANGED <<tasks, boxes>>
     \/ /\ run[e].defers = {"session"} /\ run'[e].defers = {}
        /\ tasks' = tasks \ {e} /\ UNCHANGED <<disk, boxes>>

\* After the defers: the recovered panic's report, and the end.
Ends(e) ==
  /\ Finishes(e) \/ Moved(e, "recovering")
  /\ run[e].pc = "recovering" \/ (run[e].pc = "teardown" /\ run[e].defers = {})
  /\ UNCHANGED <<tasks, disk, boxes>>

LEMMA Kinds ==
  ASSUME TypeOK, NEW e \in Executions, Steps(e)
  PROVE  \/ Joins(e) \/ Refused(e) \/ Begins(e) \/ Opens(e) \/ Contains(e)
         \/ Works(e) \/ Concludes(e) \/ Defers(e) \/ Undoes(e) \/ Ends(e)
<1> USE DEF store, At, Alone
<1>1. CASE Enter(e)
  BY <1>1, EntryFacts DEF Enter, Joins
<1>2. CASE GateRefuses(e) \/ PrepareFails(e) \/ StartContainerFails(e)
  BY <1>2, EntryFacts DEF GateRefuses, PrepareFails, StartContainerFails, Refused
<1>3. CASE Register(e)
  <2>1. run[e].pc = "entered" /\ UNCHANGED <<disk, boxes>>
    BY <1>3 DEF Register
  <2> QED BY <1>3, <2>1, RegisterFacts DEF Refused, Begins, KeepsPaths
<1>4. CASE OpenWorkspace(e)
  <2>1. run[e].pc = "preparing" /\ UNCHANGED <<tasks, boxes>>
    BY <1>4 DEF OpenWorkspace
  <2>2. CASE run[e].ws # e /\ disk' = disk /\ Moved(e, "reporting")
    BY <2>1, <2>2 DEF Refused
  <2>3. CASE run[e].ws # e /\ run[e].ws \in disk /\ disk' = disk /\ Moved(e, "workspace")
    BY <2>1, <2>3 DEF Opens, Moved, Keeps, KeepsPaths
  <2>4. CASE /\ run[e].ws = e /\ disk' = disk \cup {e} /\ Others(e)
             /\ run'[e].pc = "workspace" /\ run'[e].defers = run[e].defers \cup {"workspace"}
             /\ run'[e].path = run[e].path /\ run'[e].preserve = run[e].preserve
             /\ run'[e].ws = run[e].ws
    BY <2>1, <2>4 DEF Opens, KeepsPaths
  <2> QED BY <1>4, <2>2, <2>3, <2>4, OpenWorkspaceFacts
<1>5. CASE StartContainer(e)
  <2>1. run[e].pc = "workspace" /\ boxes' = boxes \cup {e} /\ UNCHANGED <<tasks, disk>>
    BY <1>5 DEF StartContainer
  <2> QED BY <1>5, <2>1, StartContainerFacts DEF Contains, KeepsPaths
<1>6. ASSUME NEW ok \in BOOLEAN, PromptReturns(e, ok) PROVE Works(e)
  <2>1. run[e].pc = "agent" /\ UNCHANGED <<tasks, disk, boxes>>
    BY <1>6 DEF PromptReturns
  <2> QED BY <1>6, <2>1, PromptFacts DEF Works, Moved, Working
<1>7. CASE DecideStatus(e)
  <2>1. run[e].pc = "finalizing" /\ UNCHANGED <<tasks, disk, boxes>>
    BY <1>7 DEF DecideStatus
  <2> QED BY <1>7, <2>1, DecideStatusFacts DEF Works, Moved, Working
<1>8. CASE WatchdogFails(e) \/ TaskTimeout(e) \/ HeartbeatCancels(e)
  <2>1. run[e].pc \in Cancellable /\ UNCHANGED <<tasks, disk, boxes>>
    BY <1>8 DEF WatchdogFails, TaskTimeout, HeartbeatCancels, Cancellable
  <2>2. run[e].pc \in Working
    BY <2>1 DEF Cancellable, Working
  <2> QED BY <1>8, <2>1, <2>2, ContextFacts DEF Works, Moved
<1>9. ASSUME NEW rec \in BOOLEAN, DecideWorkspace(e, rec) PROVE Concludes(e)
  <2>1. run[e].pc = "exporting" /\ UNCHANGED <<tasks, disk, boxes>>
    BY <1>9 DEF DecideWorkspace
  <2> QED BY <1>9, <2>1, DecideWorkspaceFacts DEF Concludes
<1>10. CASE ReportDelivered(e) \/ ReportLost(e)
  <2>1. UNCHANGED <<tasks, disk, boxes>>
    BY <1>10 DEF ReportDelivered, ReportLost
  <2> QED BY <1>10, <2>1, ReportFacts DEF Defers, Ends
<1>11. CASE Panics(e)
  <2>1. run[e].pc \in Working \cup {"reporting"} /\ UNCHANGED <<tasks, disk, boxes>>
    BY <1>11 DEF Panics, Working
  <2> QED BY <1>11, <2>1, PanicsFacts DEF Defers
<1>12. CASE TeardownContainer(e)
  <2>1. PICK D : D = run[e].defers \ {"box"}
    OBVIOUS
  <2>2. /\ run' = [run EXCEPT ![e].defers = D] /\ D \subseteq run[e].defers
        /\ run[e].pc = "teardown" /\ boxes' \in {boxes, boxes \ {e}} /\ UNCHANGED <<tasks, disk>>
    BY <1>12, <2>1 DEF TeardownContainer
  <2>3. Others(e) /\ KeepsPaths(e) /\ run'[e].pc = run[e].pc /\ run'[e].defers = D
    BY <2>2, TeardownFacts DEF KeepsPaths
  <2> QED BY <2>1, <2>2, <2>3 DEF Undoes
<1>13. CASE TeardownWorkspace(e)
  <2>1. PICK D : D = run[e].defers \ {"workspace"}
    OBVIOUS
  <2>2. /\ run' = [run EXCEPT ![e].defers = D] /\ D \subseteq run[e].defers
        /\ run[e].pc = "teardown" /\ "workspace" \in run[e].defers
        /\ disk' = disk \/ (disk' = disk \ {e} /\ ~run[e].preserve)
        /\ UNCHANGED <<tasks, boxes>>
    BY <1>13, <2>1 DEF TeardownWorkspace
  <2>3. Others(e) /\ KeepsPaths(e) /\ run'[e].pc = run[e].pc /\ run'[e].defers = D
    BY <2>2, TeardownFacts DEF KeepsPaths
  <2> QED BY <2>1, <2>2, <2>3 DEF Undoes
<1>14. CASE TeardownSession(e)
  <2>1. PICK D : D = {}
    OBVIOUS
  <2>2. /\ run' = [run EXCEPT ![e].defers = D] /\ D \subseteq run[e].defers
        /\ run[e].pc = "teardown" /\ run[e].defers = {"session"}
        /\ tasks' = tasks \ {e} /\ UNCHANGED <<disk, boxes>>
    BY <1>14, <2>1 DEF TeardownSession
  <2>3. Others(e) /\ KeepsPaths(e) /\ run'[e].pc = run[e].pc /\ run'[e].defers = D
    BY <2>2, TeardownFacts DEF KeepsPaths
  <2> QED BY <2>1, <2>2, <2>3 DEF Undoes
<1>15. CASE Leave(e)
  <2>1. run[e].pc = "teardown" /\ run[e].defers = {} /\ UNCHANGED <<tasks, disk, boxes>>
    BY <1>15 DEF Leave
  <2> QED BY <1>15, <2>1, EntryFacts, LeaveFacts DEF Ends
<1> QED BY <1>1, <1>2, <1>3, <1>4, <1>5, <1>6, <1>7, <1>8, <1>9, <1>10, <1>11, <1>12, <1>13, <1>14, <1>15
    DEF Steps, RunTask
\* What happens to an attempt.
LEMMA AttemptMoves ==
  ASSUME TypeOK, Unstarted, Next, NEW f \in Executions
  PROVE  /\ attempt[f] # "queued" => attempt'[f] # "queued"
         /\ attempt[f] = "over" => attempt'[f] = "over"
         /\ attempt'[f] \in {"queued", "running", "over"}
<1>1. CASE ClaimLoop
  <2>1. CASE \E e \in Executions : \E w \in WorkspaceFor(e) : Hands(e, w)
    BY <2>1, HandsFacts
  <2>2. CASE UNCHANGED attempt
    BY <2>2 DEF TypeOK
  <2> QED BY <1>1, <2>1, <2>2, ClaimFrame, SpawnFacts
<1>2. ASSUME NEW e \in Executions, Steps(e)
      PROVE  attempt' = attempt \/ attempt' = [attempt EXCEPT ![e] = "over"]
  BY <1>2, StepFrame DEF ReportDelivered
<1>3. CASE Signals
  BY <1>3, SignalFrame DEF TypeOK
<1>4. CASE Reaps
  BY <1>4, ReapFrame DEF TypeOK, server
<1>5. CASE Decides
  BY <1>5 DEF Decides, AttemptEnds, SessionExpires, RequestDrain, ReapStaleRunnerDrains, TypeOK
<1>6. CASE Exits
  BY <1>6 DEF Exits, ProcessExits, Crash, Exit, TypeOK, server
<1>7. ASSUME NEW e \in Executions, Steps(e)
      PROVE  /\ attempt[f] # "queued" => attempt'[f] # "queued"
             /\ attempt[f] = "over" => attempt'[f] = "over"
             /\ attempt'[f] \in {"queued", "running", "over"}
  BY <1>2, <1>7 DEF TypeOK
<1> QED BY <1>1, <1>3, <1>4, <1>5, <1>6, <1>7, Cases

-----------------------------------------------------------------------------
(***************************************************************************)
(* The tasks map and the defers.                                           *)
(***************************************************************************)

\* The map does not change, nor whether e has to undo its registration.
LEMMA RegisteredKeeps ==
  ASSUME TypeOK, Registered, NEW e \in Executions, Others(e), tasks' = tasks,
         "session" \in run'[e].defers <=> "session" \in run[e].defers,
         run'[e].defers # {} => "session" \in run'[e].defers,
         run'[e].pc \in Unregistered => run'[e].defers = {},
         run'[e].pc \in Working => "session" \in run'[e].defers
  PROVE  Registered'
<1>1. ASSUME NEW f \in Executions
      PROVE  /\ (f \in tasks') <=> ("session" \in run'[f].defers)
             /\ run'[f].defers # {} => "session" \in run'[f].defers
             /\ run'[f].pc \in Unregistered => run'[f].defers = {}
             /\ run'[f].pc \in Working => "session" \in run'[f].defers
  BY DEF Others, Registered
<1>2. \A f, g \in tasks' : TaskOf[f] = TaskOf[g] => f = g
  BY DEF Registered
<1> QED BY <1>1, <1>2 DEF Registered

LEMMA RegisteredSame ==
  ASSUME Registered, tasks' = tasks,
         \A e \in Executions : run'[e].pc = run[e].pc /\ run'[e].defers = run[e].defers
  PROVE  Registered'
BY DEF Registered

LEMMA RegisteredStep ==
  ASSUME TypeOK, Unstarted, Registered, Next
  PROVE  Registered'
<1>1. CASE ClaimLoop
  <2>0. tasks' = tasks
    BY <1>1, ClaimFrame
  <2>1. CASE ClaimSpawn
    <3>1. CASE run' = run
      BY <2>0, <3>1, RegisteredSame
    <3>2. CASE Moved(got, "spawned")
      <4>1. got \in Executions /\ run[got].pc = "none"
        BY <2>1, SpawnFacts, RunnerAssumption DEF Unstarted
      <4>2. run[got].defers = {} /\ run'[got].defers = {} /\ Others(got)
        BY <3>2, <4>1 DEF Registered, Unregistered, Moved, Keeps
      <4>3. "spawned" \notin Working /\ run'[got].pc = "spawned"
        BY <3>2 DEF Working, Moved
      <4> QED BY <2>0, <4>1, <4>2, <4>3, RegisteredKeeps
    <3> QED BY <2>1, <3>1, <3>2, SpawnFacts
  <2>2. ASSUME NEW e \in Executions, NEW w \in WorkspaceFor(e), Hands(e, w) PROVE Registered'
    BY <2>0, <2>2, HandsFacts, RegisteredSame DEF Others
  <2>3. CASE UNCHANGED run
    BY <2>0, <2>3, RegisteredSame
  <2> QED BY <1>1, <2>1, <2>2, <2>3, ClaimFrame
<1>2. ASSUME NEW e \in Executions, Steps(e) PROVE Registered'
  <2>0. /\ "entered" \in Unregistered /\ "spawned" \in Unregistered /\ "recovering" \in Unregistered
        /\ "reporting" \notin Unregistered \cup Working /\ "teardown" \notin Unregistered \cup Working
        /\ "entered" \notin Working /\ "recovering" \notin Working /\ "gone" \notin Working
        /\ Working \cap Unregistered = {}
        /\ {"preparing", "workspace", "agent", "exporting"} \subseteq Working
    BY DEF Unregistered, Working
  <2>1. CASE Joins(e)
    BY <2>0, <2>1, RegisteredKeeps DEF Joins, Moved, Keeps, Registered
  <2>2. CASE Refused(e)
    BY <2>0, <2>2, RegisteredKeeps DEF Refused, Moved, Keeps, Registered
  <2>3. CASE Begins(e)
    <3>1. e \notin tasks /\ tasks' = tasks \cup {e}
      BY <2>0, <2>3 DEF Begins, Registered
    <3>2. \A f \in tasks : TaskOf[f] # TaskOf[e]
      BY <2>3 DEF Begins, LiveExecutions
    <3>3. \A f, g \in tasks' : TaskOf[f] = TaskOf[g] => f = g
      BY <3>1, <3>2 DEF Registered
    <3>4. /\ "session" \in run'[e].defers /\ run'[e].pc \notin Unregistered
          /\ \A f \in Executions : f # e => run'[f] = run[f]
      BY <2>0, <2>3 DEF Begins, Others
    <3>5. \A f \in Executions :
            /\ (f \in tasks') <=> ("session" \in run'[f].defers)
            /\ run'[f].defers # {} => "session" \in run'[f].defers
            /\ run'[f].pc \in Unregistered => run'[f].defers = {}
            /\ run'[f].pc \in Working => "session" \in run'[f].defers
      BY <3>1, <3>4 DEF Registered
    <3> QED BY <3>3, <3>5 DEF Registered
  <2>4. CASE Opens(e)
    BY <2>0, <2>4, RegisteredKeeps DEF Opens, Registered
  <2>5. CASE Contains(e)
    BY <2>0, <2>5, RegisteredKeeps DEF Contains, Registered
  <2>6. CASE Works(e)
    BY <2>0, <2>6, RegisteredKeeps DEF Works, Keeps, Registered
  <2>7. CASE Concludes(e)
    BY <2>0, <2>7, RegisteredKeeps DEF Concludes, Registered
  <2>8. CASE Defers(e)
    BY <2>0, <2>8, RegisteredKeeps DEF Defers, Unwinds, Registered
  <2>9. CASE Undoes(e)
    <3>0. Others(e) /\ run'[e].pc = "teardown"
      BY <2>9 DEF Undoes
    <3>1. CASE run'[e].defers = run[e].defers \ {"box"} /\ tasks' = tasks
      BY <2>0, <3>0, <3>1, RegisteredKeeps DEF Registered
    <3>2. CASE run'[e].defers = run[e].defers \ {"workspace"} /\ tasks' = tasks
      BY <2>0, <3>0, <3>2, RegisteredKeeps DEF Registered
    <3>3. CASE run'[e].defers = {} /\ tasks' = tasks \ {e}
      <4>1. \A f, g \in tasks' : TaskOf[f] = TaskOf[g] => f = g
        BY <3>3 DEF Registered
      <4>2. \A f \in Executions :
              /\ (f \in tasks') <=> ("session" \in run'[f].defers)
              /\ run'[f].defers # {} => "session" \in run'[f].defers
              /\ run'[f].pc \in Unregistered => run'[f].defers = {}
              /\ run'[f].pc \in Working => "session" \in run'[f].defers
        BY <2>0, <3>0, <3>3 DEF Registered, Others
      <4> QED BY <4>1, <4>2 DEF Registered
    <3> QED BY <2>9, <3>1, <3>2, <3>3 DEF Undoes
  <2>10. CASE Ends(e)
    <3>1. /\ Others(e) /\ tasks' = tasks /\ run[e].defers = {} /\ run'[e].defers = {}
          /\ run'[e].pc \in {"gone", "recovering"}
      BY <2>0, <2>10 DEF Ends, Finishes, Moved, Keeps, Registered
    <3> QED BY <2>0, <3>1, RegisteredKeeps
  <2> QED BY <1>2, <2>1, <2>2, <2>3, <2>4, <2>5, <2>6, <2>7, <2>8, <2>9, <2>10, Kinds
<1>3. CASE Signals
  BY <1>3, SignalFrame, RegisteredSame
<1>4. CASE Reaps
  BY <1>4, ReapFrame, RegisteredSame
<1>5. CASE Decides
  BY <1>5, DecideFrame, RegisteredSame
<1>6. CASE Exits
  <2>1. Exit
    BY <1>6 DEF Exits, ProcessExits, Crash
  <2>2. tasks' = {} /\ \A e \in Executions : run'[e].defers = {} /\ run'[e].pc \in {"none", "gone"}
    BY <2>1, ExitFacts DEF Exit
  <2> QED BY <2>2 DEF Registered, Working
<1> QED BY <1>1, <1>2, <1>3, <1>4, <1>5, <1>6, Cases
-----------------------------------------------------------------------------
(***************************************************************************)
(* The attempts and the workspaces they resume in.                         *)
(***************************************************************************)

\* An attempt that ends may give up the workspace it worked in, which no other
\* running attempt works in.
LEMMA AttemptedEnds ==
  ASSUME TypeOK, Attempted, NEW e \in Executions,
         attempt' = [attempt EXCEPT ![e] = "over"],
         \A f \in Executions : run'[f].ws = run[f].ws,
         attempt[e] = "running",
         \A w \in retained : w # run[e].ws => w \in retained'
  PROVE  Attempted'
<1>0. \A f \in Executions : attempt'[f] = "running" => attempt[f] = "running" /\ f # e
  BY DEF TypeOK
<1>1. ASSUME NEW f \in Executions, attempt'[f] = "running"
      PROVE  TaskOf[run'[f].ws] = TaskOf[f] /\ (run'[f].ws = f \/ run'[f].ws \in retained')
  <2>1. attempt[f] = "running" /\ f # e /\ run'[f].ws = run[f].ws
    BY <1>0, <1>1
  <2>2. TaskOf[run[f].ws] = TaskOf[f] /\ (run[f].ws = f \/ run[f].ws \in retained)
    BY <2>1 DEF Attempted
  <2>3. run[f].ws # run[e].ws
    BY <2>1, <2>2 DEF Attempted
  <2> QED BY <2>1, <2>2, <2>3
<1> QED BY <1>0, <1>1 DEF Attempted

LEMMA AttemptedSame ==
  ASSUME Attempted, attempt' = attempt, retained' = retained,
         \A f \in Executions : run'[f].ws = run[f].ws
  PROVE  Attempted'
BY DEF Attempted

\* What a delivered report does at the control plane.
LEMMA DeliveredFacts ==
  ASSUME TypeOK, NEW e \in Executions, ReportDelivered(e)
  PROVE  /\ attempt' = [attempt EXCEPT ![e] = "over"] /\ run[e].ws \in Executions
         /\ \/ retained' = retained
            \/ attempt[e] = "running" /\ retained' = retained \ {run[e].ws}
            \/ attempt[e] = "running" /\ run[e].path /\ retained' = retained \cup {run[e].ws}
<1>1. attempt' = [attempt EXCEPT ![e] = "over"] /\ run[e].ws \in Executions
  BY DEF ReportDelivered, TypeOK, Goroutine
<1>2. CASE attempt[e] # "running"
  BY <1>1, <1>2 DEF ReportDelivered
<1>3. CASE attempt[e] = "running"
  <2>1. retained' \in Retention(run[e])
    BY <1>3 DEF ReportDelivered
  <2>2. CASE run[e].path
    BY <1>1, <1>3, <2>1, <2>2 DEF Retention
  <2>3. CASE ~run[e].path
    <3>1. Retention(run[e]) = {retained \ {run[e].ws}}
      BY <2>3 DEF Retention
    <3> QED BY <1>1, <1>3, <2>1, <3>1
  <2> QED BY <2>2, <2>3
<1> QED BY <1>2, <1>3

LEMMA AttemptedStep ==
  ASSUME TypeOK, Unstarted, Attempted, Next
  PROVE  Attempted'
<1>1. CASE ClaimLoop
  <2>0. retained' = retained
    BY <1>1, ClaimFrame
  <2>1. CASE ClaimSpawn
    <3>1. attempt' = attempt /\ \A f \in Executions : run'[f].ws = run[f].ws
      BY <2>1, SpawnFacts DEF Moved, Others, Keeps
    <3> QED BY <2>0, <3>1, AttemptedSame
  <2>2. ASSUME NEW e \in Executions, NEW w \in WorkspaceFor(e), Hands(e, w) PROVE Attempted'
    <3>1. /\ \A f \in Executions : f # e => attempt'[f] = attempt[f] /\ run'[f].ws = run[f].ws
          /\ attempt'[e] = "running" /\ run'[e].ws = w
      BY <2>2, HandsFacts DEF Others
    <3>2. \A f \in Executions : TaskOf[f] = TaskOf[e] => attempt[f] # "running"
      BY <2>2 DEF Hands, Claimable
    <3>3. TaskOf[w] = TaskOf[e] /\ (w = e \/ w \in retained)
      BY DEF WorkspaceFor
    <3>4. \A f, g \in Executions :
            attempt'[f] = "running" /\ attempt'[g] = "running" /\ TaskOf[f] = TaskOf[g] => f = g
      BY <3>1, <3>2 DEF Attempted
    <3>5. \A f \in Executions : attempt'[f] = "running" =>
            TaskOf[run'[f].ws] = TaskOf[f] /\ (run'[f].ws = f \/ run'[f].ws \in retained')
      BY <2>0, <3>1, <3>3 DEF Attempted
    <3> QED BY <3>4, <3>5 DEF Attempted
  <2>3. CASE UNCHANGED <<attempt, run>>
    BY <2>0, <2>3, AttemptedSame
  <2> QED BY <1>1, <2>1, <2>2, <2>3, ClaimFrame
<1>2. ASSUME NEW e \in Executions, Steps(e) PROVE Attempted'
  <2>0. \A f \in Executions : run'[f].ws = run[f].ws
    BY <1>2, StepFrame DEF Others
  <2>1. CASE UNCHANGED <<attempt, retained>>
    BY <2>0, <2>1, AttemptedSame
  <2>2. CASE ReportDelivered(e)
    <3>1. CASE attempt[e] = "running"
      BY <2>0, <2>2, <3>1, DeliveredFacts, AttemptedEnds
    <3>2. CASE attempt[e] # "running"
      <4>1. retained' = retained /\ \A f \in Executions : attempt'[f] = "running" => attempt[f] = "running"
        BY <2>2, <3>2, DeliveredFacts DEF TypeOK
      <4> QED BY <2>0, <4>1 DEF Attempted
    <3> QED BY <3>1, <3>2
  <2> QED BY <1>2, <2>1, <2>2, StepFrame
<1>3. CASE Signals
  BY <1>3, SignalFrame, AttemptedSame
<1>4. CASE Reaps
  BY <1>4, ReapFrame, AttemptedSame DEF server
<1>5. CASE Decides
  <2>0. run' = run
    BY <1>5, DecideFrame
  <2>1. ASSUME NEW e \in Executions, AttemptEnds(e) PROVE Attempted'
    BY <2>0, <2>1, AttemptedEnds DEF AttemptEnds
  <2>2. ASSUME NEW w \in Executions, SessionExpires(w) PROVE Attempted'
    BY <2>0, <2>2 DEF SessionExpires, Attempted
  <2>3. CASE RequestDrain \/ ReapStaleRunnerDrains
    BY <2>0, <2>3, AttemptedSame DEF RequestDrain, ReapStaleRunnerDrains
  <2> QED BY <1>5, <2>1, <2>2, <2>3 DEF Decides
<1>6. CASE Exits
  <2>1. Exit
    BY <1>6 DEF Exits, ProcessExits, Crash
  <2>2. UNCHANGED <<attempt, retained>> /\ \A f \in Executions : run'[f].ws = run[f].ws
    BY <2>1, ExitFacts DEF Exit, server
  <2> QED BY <2>2, AttemptedSame
<1> QED BY <1>1, <1>2, <1>3, <1>4, <1>5, <1>6, Cases

LEMMA PreservedStep ==
  ASSUME TypeOK, Unstarted, Preserved, Next
  PROVE  Preserved'
<1>1. CASE ClaimLoop
  <2>1. CASE ClaimSpawn
    <3>1. CASE run' = run
      BY <3>1 DEF Preserved
    <3>2. CASE Moved(got, "spawned")
      <4>1. got \in Executions /\ run[got].pc = "none"
        BY <2>1, SpawnFacts, RunnerAssumption DEF Unstarted
      <4> QED BY <3>2, <4>1 DEF Preserved, Moved, Others, Keeps
    <3> QED BY <2>1, <3>1, <3>2, SpawnFacts
  <2>2. ASSUME NEW e \in Executions, NEW w \in WorkspaceFor(e), Hands(e, w) PROVE Preserved'
    BY <2>2, HandsFacts DEF Others, Preserved
  <2>3. CASE UNCHANGED run
    BY <2>3 DEF Preserved
  <2> QED BY <1>1, <2>1, <2>2, <2>3, ClaimFrame
<1>2. ASSUME NEW e \in Executions, Steps(e) PROVE Preserved'
  <2>0. \A f \in Executions : f # e => run'[f] = run[f]
    BY <1>2, StepFrame DEF Others
  <2>1. run'[e].path => run'[e].pc = "reporting" /\ run'[e].preserve
    <3>0. run[e].pc # "reporting" => ~run[e].path
      BY DEF Preserved
    <3>1. CASE Joins(e) \/ Refused(e)
      BY <3>0, <3>1 DEF Joins, Refused, Moved, Keeps
    <3>2. CASE Begins(e) \/ Opens(e) \/ Contains(e) \/ Undoes(e)
      BY <3>0, <3>2 DEF Begins, Opens, Contains, Undoes, KeepsPaths
    <3>3. CASE Works(e)
      BY <3>0, <3>3 DEF Works, Keeps, Working
    <3>4. CASE Concludes(e)
      BY <3>4 DEF Concludes
    <3>5. CASE Defers(e)
      BY <3>5 DEF Defers, Unwinds
    <3>6. CASE Ends(e)
      BY <3>0, <3>6 DEF Ends, Finishes, Moved, Keeps
    <3> QED BY <1>2, <3>1, <3>2, <3>3, <3>4, <3>5, <3>6, Kinds
  <2> QED BY <2>0, <2>1 DEF Preserved
<1>3. CASE Signals
  BY <1>3, SignalFrame DEF Preserved
<1>4. CASE Reaps
  BY <1>4, ReapFrame DEF Preserved
<1>5. CASE Decides
  BY <1>5, DecideFrame DEF Preserved
<1>6. CASE Exits
  <2>1. Exit
    BY <1>6 DEF Exits, ProcessExits, Crash
  <2> QED BY <2>1, ExitFacts DEF Preserved
<1> QED BY <1>1, <1>2, <1>3, <1>4, <1>5, <1>6, Cases
-----------------------------------------------------------------------------
(***************************************************************************)
(* Workspaces.                                                             *)
(***************************************************************************)

\* What can happen to the directories.
LEMMA DiskMoves ==
  ASSUME TypeOK, Next
  PROVE  \/ disk' = disk
         \/ \E e \in Executions : Steps(e) /\ (Opens(e) \/ Undoes(e))
         \/ PruneDestroy
<1>1. CASE ClaimLoop
  BY <1>1, ClaimFrame DEF store
<1>2. ASSUME NEW e \in Executions, Steps(e) PROVE disk' = disk \/ Opens(e) \/ Undoes(e)
  BY <1>2, Kinds DEF Joins, Refused, Begins, Contains, Works, Concludes, Defers, Ends
<1>3. CASE Signals
  BY <1>3, SignalFrame
<1>4. CASE Reaps
  BY <1>4 DEF Reaps, PruneVerdict, SweepVerdict, SweepRemove, store
<1>5. CASE Decides
  BY <1>5, DecideFrame DEF store
<1>6. CASE Exits
  BY <1>6 DEF Exits, ProcessExits, Crash, Exit, store
<1> QED BY <1>1, <1>2, <1>3, <1>4, <1>5, <1>6, Cases

LEMMA OnDiskStep ==
  ASSUME TypeOK, Unstarted, OnDisk, Next
  PROVE  OnDisk'
<1>1. disk' \subseteq disk \/ \E e \in Executions : Opens(e)
  BY DiskMoves DEF Undoes, PruneDestroy
<1>2. \A w \in disk' : attempt[w] # "queued"
  <2>1. CASE disk' \subseteq disk
    BY <2>1 DEF OnDisk
  <2>2. ASSUME NEW e \in Executions, Opens(e) PROVE \A w \in disk' : attempt[w] # "queued"
    BY <2>2 DEF Opens, OnDisk, Unstarted
  <2> QED BY <1>1, <2>1, <2>2
<1>3. disk' \subseteq Executions
  BY <1>1 DEF TypeOK, Opens
<1> QED BY <1>2, <1>3, AttemptMoves DEF OnDisk

\* Where a new retained workspace comes from: the report of its own execution.
LEMMA RetainedMoves ==
  ASSUME TypeOK, Attempted, Next, NEW w \in retained', w \notin retained
  PROVE  /\ w \in Executions /\ ReportDelivered(w) /\ attempt[w] = "running"
         /\ run[w].path /\ run[w].ws = w
<1>1. PICK e \in Executions : ReportDelivered(e) /\ Steps(e)
  <2>1. CASE ClaimLoop
    BY <2>1, ClaimFrame
  <2>2. ASSUME NEW e \in Executions, Steps(e) PROVE ReportDelivered(e)
    BY <2>2, StepFrame
  <2>3. CASE Signals
    BY <2>3, SignalFrame
  <2>4. CASE Reaps
    BY <2>4, ReapFrame DEF server
  <2>5. CASE Decides
    BY <2>5 DEF Decides, AttemptEnds, SessionExpires, RequestDrain, ReapStaleRunnerDrains
  <2>6. CASE Exits
    BY <2>6 DEF Exits, ProcessExits, Crash, Exit, server
  <2> QED BY <2>1, <2>2, <2>3, <2>4, <2>5, <2>6, Cases
<1>2. attempt[e] = "running" /\ run[e].path /\ w = run[e].ws
  BY <1>1, DeliveredFacts
<1>3. w = e
  BY <1>2 DEF Attempted
<1> QED BY <1>1, <1>2, <1>3

\* A directory that disappears is retained by nobody, and of no working attempt.
LEMMA DestroyedFacts ==
  ASSUME TypeOK, RetainedKept, PruneSpares, Next, NEW w \in disk, w \notin disk'
  PROVE  w \notin retained /\ (attempt[w] = "over" \/ run[w].pc = "teardown")
<1>1. CASE PruneDestroy
  <2>1. w = prune /\ prune # NoExecution
    BY <1>1 DEF PruneDestroy
  <2> QED BY <2>1 DEF PruneSpares
<1>2. ASSUME NEW e \in Executions, Opens(e) \/ Undoes(e)
      PROVE  w \notin retained /\ run[w].pc = "teardown"
  <2>1. w = e /\ "workspace" \in run[e].defers /\ ~run[e].preserve /\ run[e].pc = "teardown"
    BY <1>2 DEF Opens, Undoes
  <2> QED BY <2>1 DEF RetainedKept
<1> QED BY <1>1, <1>2, DiskMoves

LEMMA RetainedStep ==
  ASSUME TypeOK, Unstarted, Attempted, Preserved, Kept, Next
  PROVE  RetainedKept'
<1>0. OnDisk /\ RetainedKept /\ PruneSpares /\ RunsOnDisk
  BY DEF Kept
<1>1. ASSUME NEW w \in retained', w \in retained
      PROVE  /\ w \in disk' /\ attempt'[w] = "over" /\ run'[w].pc \in Ending
             /\ "workspace" \in run'[w].defers => run'[w].preserve
  <2>0. w \in Executions
    BY <1>1 DEF TypeOK
  <2>1. /\ w \in disk /\ attempt[w] = "over" /\ run[w].pc \in Ending
        /\ "workspace" \in run[w].defers => run[w].preserve
    BY <1>0, <1>1 DEF RetainedKept
  <2>2. w \in disk'
    BY <1>0, <1>1, <2>1, DestroyedFacts
  <2>3. attempt'[w] = "over"
    BY <2>0, <2>1, AttemptMoves
  <2>4. /\ run'[w].pc \in Ending
        /\ "workspace" \in run'[w].defers => run'[w].preserve
    <3>1. CASE ClaimLoop
      <4>1. CASE ClaimSpawn
        <5>1. got \in Executions /\ run[got].pc = "none"
          BY <4>1, SpawnFacts, RunnerAssumption DEF Unstarted
        <5>2. w # got
          BY <2>1, <5>1 DEF Ending
        <5> QED BY <2>0, <2>1, <4>1, <5>2, SpawnFacts DEF Moved, Others
      <4>2. ASSUME NEW e \in Executions, NEW v \in WorkspaceFor(e), Hands(e, v)
            PROVE  run'[w] = run[w]
        BY <2>0, <2>1, <4>2, HandsFacts DEF Others
      <4>3. CASE UNCHANGED run
        BY <2>1, <4>3
      <4> QED BY <2>1, <3>1, <4>1, <4>2, <4>3, ClaimFrame
    <3>2. ASSUME NEW e \in Executions, Steps(e)
          PROVE  /\ run'[w].pc \in Ending
                 /\ "workspace" \in run'[w].defers => run'[w].preserve
      <4>1. CASE w # e
        BY <2>0, <2>1, <3>2, <4>1, StepFrame DEF Others
      <4>2. CASE w = e
        <5>1. CASE Undoes(e)
          BY <2>1, <4>2, <5>1 DEF Undoes, KeepsPaths
        <5>2. CASE Ends(e)
          BY <2>1, <4>2, <5>2 DEF Ends, Finishes, Moved, Keeps, Ending
        <5> QED BY <2>1, <3>2, <4>2, <5>1, <5>2, Kinds
                DEF Joins, Refused, Begins, Opens, Contains, Works, Concludes, Defers, Ending, Working
      <4> QED BY <4>1, <4>2
    <3>3. CASE Signals
      BY <2>0, <2>1, <3>3, SignalFrame
    <3>4. CASE Reaps
      BY <2>1, <3>4, ReapFrame
    <3>5. CASE Decides
      BY <2>1, <3>5, DecideFrame
    <3>6. CASE Exits
      <4>1. Exit
        BY <3>6 DEF Exits, ProcessExits, Crash
      <4> QED BY <2>0, <2>1, <4>1, ExitFacts DEF Ending
    <3> QED BY <3>1, <3>2, <3>3, <3>4, <3>5, <3>6, Cases
  <2> QED BY <2>2, <2>3, <2>4
<1>2. ASSUME NEW w \in retained', w \notin retained
      PROVE  /\ w \in disk' /\ attempt'[w] = "over" /\ run'[w].pc \in Ending
             /\ "workspace" \in run'[w].defers => run'[w].preserve
  <2>1. /\ w \in Executions /\ ReportDelivered(w) /\ attempt[w] = "running"
        /\ run[w].path /\ run[w].ws = w
    BY <1>2, RetainedMoves
  <2>2. w \in disk /\ run[w].pc = "reporting" /\ run[w].preserve
    BY <1>0, <2>1 DEF RunsOnDisk, Preserved
  <2>3. run'[w].pc = "teardown" /\ run'[w].preserve
    BY <2>1, <2>2, ReportFacts DEF Unwinds
  <2>4. disk' = disk /\ attempt'[w] = "over"
    BY <2>1, DeliveredFacts DEF ReportDelivered, store, TypeOK
  <2> QED BY <2>2, <2>3, <2>4 DEF Ending
<1> QED BY <1>1, <1>2 DEF RetainedKept

LEMMA PruneStep ==
  ASSUME TypeOK, Unstarted, Attempted, Kept, Next
  PROVE  PruneSpares'
<1>0. OnDisk /\ RetainedKept /\ PruneSpares /\ RunsOnDisk
  BY DEF Kept
<1>1. CASE prune' = NoExecution
  BY <1>1 DEF PruneSpares
<1>2. CASE prune' = prune /\ prune # NoExecution
  <2>1. prune \in Executions /\ attempt[prune] = "over" /\ prune \notin retained
    BY <1>0, <1>2 DEF PruneSpares, TypeOK
  <2>2. attempt'[prune] = "over"
    BY <2>1, AttemptMoves
  <2>3. prune \notin retained'
    BY <2>1, RetainedMoves
  <2> QED BY <1>2, <2>2, <2>3 DEF PruneSpares
<1>3. ASSUME NEW w \in Executions, PruneVerdict(w) PROVE PruneSpares'
  <2>1. /\ w \in disk /\ attempt[w] # "running" /\ w \notin retained
        /\ prune' = w /\ UNCHANGED <<attempt, retained>>
    BY <1>3 DEF PruneVerdict, ProtectedWorkspace, server
  <2>2. attempt[w] = "over"
    BY <1>0, <2>1 DEF OnDisk, TypeOK
  <2> QED BY <2>1, <2>2 DEF PruneSpares
<1>4. \/ prune' = NoExecution \/ prune' = prune
      \/ \E w \in Executions : PruneVerdict(w)
  <2>1. CASE ClaimLoop
    BY <2>1, ClaimFrame DEF reapers
  <2>2. ASSUME NEW e \in Executions, Steps(e) PROVE prune' = prune
    BY <2>2, StepFrame DEF Bystanders, reapers
  <2>3. CASE Signals
    BY <2>3, SignalFrame
  <2>4. CASE Reaps
    BY <2>4 DEF Reaps, SweepVerdict, PruneDestroy, SweepRemove
  <2>5. CASE Decides
    BY <2>5, DecideFrame DEF reapers
  <2>6. CASE Exits
    BY <2>6 DEF Exits, ProcessExits, Crash, Exit
  <2> QED BY <2>1, <2>2, <2>3, <2>4, <2>5, <2>6, Cases
<1> QED BY <1>1, <1>2, <1>3, <1>4
\* The directory a running attempt works in outlives the step.
LEMMA WorkspaceStays ==
  ASSUME TypeOK, Attempted, RetainedKept, PruneSpares, Next, NEW f \in Executions,
         attempt[f] = "running", run[f].pc # "teardown", run[f].ws \in disk
  PROVE  run[f].ws \in disk'
<1>1. run[f].ws = f \/ run[f].ws \in retained
  BY DEF Attempted
<1> QED BY <1>1, DestroyedFacts

LEMMA RunsStep ==
  ASSUME TypeOK, Unstarted, Attempted, Preserved, Kept, Next
  PROVE  RunsOnDisk'
<1>0. OnDisk /\ RetainedKept /\ PruneSpares /\ RunsOnDisk
  BY DEF Kept
<1> SUFFICES ASSUME NEW f \in Executions, attempt'[f] = "running", run'[f].pc \in Sited \/ run'[f].path
             PROVE  run'[f].ws \in disk'
  BY DEF RunsOnDisk
\* It is enough that f worked there before.
<1>1. ASSUME attempt[f] = "running", run'[f].ws = run[f].ws, run[f].pc \in Sited \/ run[f].path
      PROVE  run'[f].ws \in disk'
  <2>1. run[f].ws \in disk /\ run[f].pc # "teardown"
    BY <1>0, <1>1 DEF RunsOnDisk, Preserved, Sited
  <2> QED BY <1>0, <1>1, <2>1, WorkspaceStays
<1>2. CASE ClaimLoop
  <2>1. CASE ClaimSpawn
    <3>1. got \in Executions /\ run[got].pc = "none"
      BY <2>1, SpawnFacts, RunnerAssumption DEF Unstarted
    <3>2. ~run[got].path
      BY <3>1 DEF Preserved
    <3>3. f # got \/ run' = run
      BY <2>1, <3>2, SpawnFacts DEF Moved, Keeps, Sited
    <3>4. attempt[f] = "running" /\ run'[f] = run[f]
      BY <2>1, <3>3, SpawnFacts DEF Moved, Others
    <3> QED BY <1>1, <3>4
  <2>2. ASSUME NEW e \in Executions, NEW w \in WorkspaceFor(e), Hands(e, w)
        PROVE  attempt[f] = "running" /\ run'[f] = run[f]
    <3>1. CASE f = e
      <4>1. attempt[e] = "queued" /\ run'[e].pc = run[e].pc /\ run'[e].path = run[e].path
        BY <2>2, HandsFacts
      <4>2. run[e].pc = "none"
        BY <4>1 DEF Unstarted
      <4>3. ~run[e].path
        BY <4>2 DEF Preserved
      <4> QED BY <3>1, <4>1, <4>2, <4>3 DEF Sited
    <3>2. CASE f # e
      BY <2>2, <3>2, HandsFacts DEF Others
    <3> QED BY <3>1, <3>2
  <2>3. CASE UNCHANGED <<attempt, run>>
    BY <1>1, <2>3
  <2> QED BY <1>1, <1>2, <2>1, <2>2, <2>3, ClaimFrame
<1>3. ASSUME NEW e \in Executions, Steps(e) PROVE run'[f].ws \in disk'
  <2>0. run'[f].ws = run[f].ws /\ attempt[f] = "running"
    <3>1. attempt' = attempt \/ attempt' = [attempt EXCEPT ![e] = "over"]
      BY <1>3, StepFrame, DeliveredFacts
    <3> QED BY <1>3, <3>1, StepFrame DEF Others, TypeOK
  <2>1. CASE f # e
    BY <1>1, <1>3, <2>0, <2>1, StepFrame DEF Others
  <2>2. CASE f = e
    <3>0. run[e].pc # "reporting" => ~run[e].path
      BY DEF Preserved
    <3>1. CASE Opens(e)
      BY <2>0, <2>2, <3>1 DEF Opens
    <3>2. CASE Joins(e) \/ Refused(e) \/ Begins(e) \/ Undoes(e) \/ Defers(e) \/ Ends(e)
      <4>1. run'[e].pc \notin Sited
        BY <3>2 DEF Joins, Refused, Begins, Undoes, Defers, Ends, Moved, Unwinds, Finishes, Sited
      <4>2. ~run'[e].path
        BY <3>0, <3>2
           DEF Joins, Refused, Begins, Undoes, Defers, Ends, Moved, Keeps, KeepsPaths, Unwinds, Finishes
      <4> QED BY <2>2, <4>1, <4>2
    <3>3. CASE Contains(e) \/ Concludes(e)
      BY <1>1, <2>0, <2>2, <3>3 DEF Contains, Concludes, Sited
    <3>4. CASE Works(e)
      <4>1. run[e].pc \in Sited \/ run[e].path
        BY <2>2, <3>4 DEF Works, Keeps, Sited, Working
      <4> QED BY <1>1, <2>0, <2>2, <4>1
    <3> QED BY <1>3, <3>1, <3>2, <3>3, <3>4, Kinds
  <2> QED BY <2>1, <2>2
<1>4. CASE Signals
  BY <1>1, <1>4, SignalFrame
<1>5. CASE Reaps
  BY <1>1, <1>5, ReapFrame DEF server
<1>6. CASE Decides
  <2>1. attempt[f] = "running"
    BY <1>6 DEF Decides, AttemptEnds, SessionExpires, RequestDrain, ReapStaleRunnerDrains, TypeOK
  <2> QED BY <1>1, <1>6, <2>1, DecideFrame
<1>7. CASE Exits
  <2>1. Exit
    BY <1>7 DEF Exits, ProcessExits, Crash
  <2> QED BY <2>1, ExitFacts DEF Sited
<1> QED BY <1>2, <1>3, <1>4, <1>5, <1>6, <1>7, Cases

LEMMA KeptStep ==
  ASSUME TypeOK, Unstarted, Attempted, Preserved, Kept, Next
  PROVE  Kept'
BY OnDiskStep, RetainedStep, PruneStep, RunsStep DEF Kept
-----------------------------------------------------------------------------
(***************************************************************************)
(* Containers.                                                             *)
(***************************************************************************)

\* A goroutine that is past its registration stays past it.
LEMMA BegunStays ==
  ASSUME TypeOK, Unstarted, Next, NEW f \in Executions, run[f].pc \in Begun, attempt[f] # "queued"
  PROVE  run'[f].pc \in Begun
<1>1. CASE ClaimLoop
  <2>1. CASE ClaimSpawn
    <3>1. got \in Executions /\ run[got].pc = "none"
      BY <2>1, SpawnFacts, RunnerAssumption DEF Unstarted
    <3>2. f # got
      BY <3>1 DEF Begun
    <3> QED BY <2>1, <3>2, SpawnFacts DEF Moved, Others
  <2>2. ASSUME NEW e \in Executions, NEW w \in WorkspaceFor(e), Hands(e, w) PROVE run'[f].pc = run[f].pc
    BY <2>2, HandsFacts DEF Others
  <2>3. CASE UNCHANGED run
    BY <2>3
  <2> QED BY <1>1, <2>1, <2>2, <2>3, ClaimFrame
<1>2. ASSUME NEW e \in Executions, Steps(e) PROVE run'[f].pc \in Begun
  <2>1. CASE f # e
    BY <1>2, <2>1, StepFrame DEF Others
  <2>2. CASE f = e
    <3>1. run'[e].pc \in Phases
      BY <1>2, StepFrame DEF Others, Goroutine
    <3> QED BY <1>2, <2>2, <3>1, StepFrame DEF Begun
  <2> QED BY <2>1, <2>2
<1>3. CASE Signals
  BY <1>3, SignalFrame
<1>4. CASE Reaps
  BY <1>4, ReapFrame
<1>5. CASE Decides
  BY <1>5, DecideFrame
<1>6. CASE Exits
  <2>1. Exit
    BY <1>6 DEF Exits, ProcessExits, Crash
  <2> QED BY <2>1, ExitFacts DEF Begun, Phases
<1> QED BY <1>1, <1>2, <1>3, <1>4, <1>5, <1>6, Cases

\* Where a new container comes from.
LEMMA BoxMoves ==
  ASSUME TypeOK, Next, NEW e \in boxes', e \notin boxes
  PROVE  e \in Executions /\ run[e].pc = "workspace"
<1>1. CASE ClaimLoop
  BY <1>1, ClaimFrame DEF store
<1>2. ASSUME NEW f \in Executions, Steps(f) PROVE e = f /\ run[f].pc = "workspace"
  BY <1>2, Kinds DEF Joins, Refused, Begins, Opens, Contains, Works, Concludes, Defers, Undoes, Ends
<1>3. CASE Signals
  BY <1>3, SignalFrame
<1>4. CASE Reaps
  BY <1>4 DEF Reaps, PruneVerdict, SweepVerdict, PruneDestroy, SweepRemove, store
<1>5. CASE Decides
  BY <1>5, DecideFrame DEF store
<1>6. CASE Exits
  BY <1>6 DEF Exits, ProcessExits, Crash, Exit, store
<1> QED BY <1>1, <1>2, <1>3, <1>4, <1>5, <1>6, Cases

\* Where a new registration comes from.
LEMMA TaskMoves ==
  ASSUME TypeOK, Next, NEW e \in tasks', e \notin tasks
  PROVE  e \in Executions /\ run[e].pc = "entered"
<1>1. CASE ClaimLoop
  BY <1>1, ClaimFrame
<1>2. ASSUME NEW f \in Executions, Steps(f) PROVE e = f /\ run[f].pc = "entered"
  BY <1>2, Kinds DEF Joins, Refused, Begins, Opens, Contains, Works, Concludes, Defers, Undoes, Ends
<1>3. CASE Signals
  BY <1>3, SignalFrame
<1>4. CASE Reaps
  BY <1>4, ReapFrame
<1>5. CASE Decides
  BY <1>5, DecideFrame
<1>6. CASE Exits
  BY <1>6 DEF Exits, ProcessExits, Crash, Exit
<1> QED BY <1>1, <1>2, <1>3, <1>4, <1>5, <1>6, Cases

LEMMA ContainedStep ==
  ASSUME TypeOK, Unstarted, Contained, Next
  PROVE  Contained'
<1>1. ASSUME NEW e \in boxes' PROVE attempt'[e] # "queued" /\ run'[e].pc \in Begun
  <2>1. e \in Executions /\ attempt[e] # "queued" /\ run[e].pc \in Begun
    <3>1. CASE e \in boxes
      BY <3>1 DEF Contained, TypeOK
    <3>2. CASE e \notin boxes
      <4>1. e \in Executions /\ run[e].pc = "workspace"
        BY <3>2, BoxMoves
      <4> QED BY <4>1 DEF Unstarted, Begun, Phases
    <3> QED BY <3>1, <3>2
  <2> QED BY <2>1, BegunStays, AttemptMoves
<1>2. CASE sweep' = NoExecution
  BY <1>1, <1>2 DEF Contained
<1>3. CASE sweep' = sweep /\ sweep # NoExecution
  <2>1. /\ sweep \in Executions /\ attempt[sweep] = "over" /\ run[sweep].pc \in Begun
        /\ sweep \notin tasks
    BY <1>3 DEF Contained, TypeOK
  <2>2. attempt'[sweep] = "over" /\ run'[sweep].pc \in Begun
    BY <2>1, BegunStays, AttemptMoves
  <2>3. sweep \notin tasks'
    BY <2>1, TaskMoves DEF Begun
  <2> QED BY <1>1, <1>3, <2>2, <2>3 DEF Contained
<1>4. ASSUME NEW e \in Executions, SweepVerdict(e) PROVE Contained'
  <2>1. /\ e \in boxes /\ e \notin tasks /\ attempt[e] # "running" /\ sweep' = e
        /\ UNCHANGED <<attempt, tasks, run>>
    BY <1>4 DEF SweepVerdict, server
  <2>2. attempt[e] = "over" /\ run[e].pc \in Begun
    BY <2>1 DEF Contained, TypeOK
  <2> QED BY <1>1, <2>1, <2>2 DEF Contained
<1>5. \/ sweep' = NoExecution \/ sweep' = sweep
      \/ \E e \in Executions : SweepVerdict(e)
  <2>1. CASE ClaimLoop
    BY <2>1, ClaimFrame DEF reapers
  <2>2. ASSUME NEW e \in Executions, Steps(e) PROVE sweep' = sweep
    BY <2>2, StepFrame DEF Bystanders, reapers
  <2>3. CASE Signals
    BY <2>3, SignalFrame
  <2>4. CASE Reaps
    BY <2>4 DEF Reaps, PruneVerdict, PruneDestroy, SweepRemove
  <2>5. CASE Decides
    BY <2>5, DecideFrame DEF reapers
  <2>6. CASE Exits
    BY <2>6 DEF Exits, ProcessExits, Crash, Exit
  <2> QED BY <2>1, <2>2, <2>3, <2>4, <2>5, <2>6, Cases
<1> QED BY <1>2, <1>3, <1>4, <1>5
-----------------------------------------------------------------------------
(***************************************************************************)
(* The exit.                                                               *)
(***************************************************************************)

LEMMA DrainingStep ==
  ASSUME TypeOK, Unlisted, Next
  PROVE  main' \notin {"serving", "stopped"} => draining'
<1> USE DEF Unlisted
<1>1. CASE ClaimLoop
  BY <1>1, ClaimFrame DEF process
<1>2. ASSUME NEW e \in Executions, Steps(e) PROVE UNCHANGED <<main, draining>>
  BY <1>2, StepFrame DEF Bystanders, process
<1>3. CASE Signals
  BY <1>3 DEF Signals, HeartbeatDrains, Sigterm, CancelRunContext, DrainDone, DrainDeadline, Restart,
              Barrier, CleanupDone, ReportsDone, HardKill, OnlyMain
<1>4. CASE Reaps
  BY <1>4, ReapFrame DEF process
<1>5. CASE Decides
  BY <1>5, DecideFrame DEF process
<1>6. CASE Exits
  BY <1>6 DEF Exits, ProcessExits, Crash, Exit
<1> QED BY <1>1, <1>2, <1>3, <1>4, <1>5, <1>6, Cases

\* Steps at or behind the barrier that leave main alone: of the goroutines only
\* late ones move.
LEMMA LateStays ==
  ASSUME TypeOK, Unlisted, Next, UNCHANGED <<main, forced, late>>, main \in {"reports", "stopping"}, ~forced,
         NEW f \in Executions \ late
  PROVE  run'[f].pc \in {"none", "gone"}
<1>0. draining /\ run[f].pc \in {"none", "gone"}
  BY DEF Unlisted
<1>1. CASE ClaimLoop
  <2>1. CASE ClaimSpawn
    BY <1>0, <2>1, SpawnFacts
  <2>2. ASSUME NEW e \in Executions, NEW w \in WorkspaceFor(e), Hands(e, w) PROVE run'[f].pc = run[f].pc
    BY <2>2, HandsFacts DEF Others
  <2>3. CASE UNCHANGED run
    BY <1>0, <2>3
  <2> QED BY <1>0, <1>1, <2>1, <2>2, <2>3, ClaimFrame
<1>2. ASSUME NEW e \in Executions, Steps(e) PROVE run'[f].pc = run[f].pc
  BY <1>0, <1>2, StepFrame DEF Others
<1>3. CASE Signals
  BY <1>0, <1>3, SignalFrame
<1>4. CASE Reaps
  BY <1>0, <1>4, ReapFrame
<1>5. CASE Decides
  BY <1>0, <1>5, DecideFrame
<1>6. CASE Exits
  BY <1>6 DEF Exits, ProcessExits, Crash, Exit
<1> QED BY <1>0, <1>1, <1>2, <1>3, <1>4, <1>5, <1>6, Cases

\* Where the process gets behind the barrier unforced.
LEMMA BarrierMoves ==
  ASSUME TypeOK, Next, main' \in {"reports", "stopping"}, ~forced'
  PROVE  CleanupDone \/ ReportsDone \/ UNCHANGED <<main, forced, late>>
<1>1. CASE ClaimLoop
  BY <1>1, ClaimFrame DEF process
<1>2. ASSUME NEW e \in Executions, Steps(e) PROVE UNCHANGED <<main, forced, late>>
  BY <1>2, StepFrame DEF Bystanders, process
<1>3. CASE Signals
  BY <1>3 DEF Signals, HeartbeatDrains, Sigterm, CancelRunContext, DrainDone, DrainDeadline, Restart,
              Barrier, HardKill
<1>4. CASE Reaps
  BY <1>4, ReapFrame DEF process
<1>5. CASE Decides
  BY <1>5, DecideFrame DEF process
<1>6. CASE Exits
  BY <1>6 DEF Exits, ProcessExits, Crash, Exit
<1> QED BY <1>1, <1>2, <1>3, <1>4, <1>5, <1>6, Cases

LEMMA UnlistedStep ==
  ASSUME TypeOK, Counted, Unlisted, Next
  PROVE  Unlisted'
<1>1. ASSUME main' \in {"reports", "stopping"}, ~forced', NEW e \in Executions, e \notin late'
      PROVE  run'[e].pc \in {"none", "gone"}
  <2>1. CASE CleanupDone
    <3>1. wg = 0 /\ run' = run /\ late' = Spawned
      BY <2>1 DEF CleanupDone, OnlyMain
    <3>2. Cardinality(In(Joined)) = 0
      BY <3>1, CountedBy
    <3>3. In(Joined) = {}
      BY <3>2, CountType, FS_EmptySet
    <3>4. run[e].pc \in Phases /\ run[e].pc \notin Joined /\ run[e].pc # "spawned"
      BY <1>1, <3>1, <3>3 DEF In, Spawned, TypeOK, Goroutine
    <3> QED BY <3>1, <3>4 DEF Joined, Holding
  <2>2. CASE ReportsDone
    BY <1>1, <2>2 DEF ReportsDone, OnlyMain, Unlisted
  <2>3. CASE UNCHANGED <<main, forced, late>>
    BY <1>1, <2>3, LateStays
  <2> QED BY <1>1, <2>1, <2>2, <2>3, BarrierMoves
<1> QED BY <1>1, DrainingStep DEF Unlisted
-----------------------------------------------------------------------------
(***************************************************************************)
(* Theorems.                                                               *)
(***************************************************************************)

LEMMA InvInit == Init => IInv
<1> SUFFICES ASSUME Init PROVE IInv
  OBVIOUS
<1>1. /\ run \in [Executions -> Goroutine]
      /\ \A e \in Executions : run[e].pc = "none" /\ ~run[e].path /\ run[e].defers = {} /\ run[e].ws = e
  <2>1. run = [e \in Executions |-> Fresh(e)]
    BY DEF Init
  <2> QED BY <2>1, FreshFacts
<1>2. TypeOK
  <2>1. 0 \in 0 .. Slots /\ 0 \in 0 .. MaxRestarts /\ 0 \in 0 .. Cardinality(Executions)
    BY RunnerAssumption, FS_CardinalityType DEF Slots
  <2> QED BY <1>1, <2>1 DEF Init, TypeOK
<1>3. Counted
  <2>1. In(Holding) = {} /\ In(Joined) = {}
    BY <1>1 DEF In, Holding, Joined
  <2> QED BY <2>1, FS_EmptySet, CountedBy DEF Init, LoopHolds
<1>4. Unstarted /\ Attempted /\ Preserved /\ Unlisted
  BY <1>1 DEF Init, Unstarted, Attempted, Preserved, Unlisted
<1>5. Registered
  BY <1>1 DEF Init, Registered, Working
<1>6. Kept /\ Contained
  BY <1>1 DEF Init, Kept, OnDisk, RetainedKept, PruneSpares, RunsOnDisk, Contained
<1> QED BY <1>2, <1>3, <1>4, <1>5, <1>6 DEF IInv

LEMMA InvStep ==
  ASSUME IInv, [Next]_vars
  PROVE  IInv'
<1> USE DEF IInv
<1>1. CASE Next
  BY <1>1, TypeStep, CountedStep, UnstartedStep, RegisteredStep, AttemptedStep, PreservedStep,
     KeptStep, ContainedStep, UnlistedStep
<1>2. CASE UNCHANGED vars
  <2>1. UNCHANGED <<attempt, retained, drainReq, main, draining, forced, late, loop, got, sem, wg, tasks, run,
                    disk, boxes, prune, sweep, restarts>>
    BY <1>2 DEF vars, server, process, claiming, store, reapers
  <2>2. TypeOK'
    BY <2>1 DEF TypeOK
  <2>3. Counted'
    BY <2>1, CountedIdle DEF LoopHolds
  <2>4. Unstarted' /\ Attempted' /\ Preserved' /\ Registered' /\ Unlisted'
    BY <2>1 DEF Unstarted, Attempted, Preserved, Registered, Unlisted
  <2>5. Kept' /\ Contained'
    BY <2>1 DEF Kept, OnDisk, RetainedKept, PruneSpares, RunsOnDisk, Contained
  <2> QED BY <2>2, <2>3, <2>4, <2>5
<1> QED BY <1>1, <1>2

LEMMA InvHolds == Spec => []IInv
BY InvInit, InvStep, PTL DEF Spec

\* Every field of the runner and of its goroutines keeps its type; in particular
\* the semaphore never holds more than max_concurrent + 1 slots and the task
\* group is never negative (claimLoop, runTask).
THEOREM TypeCorrect == Spec => []TypeOK
<1>1. IInv => TypeOK
  BY DEF IInv
<1> QED BY InvHolds, <1>1, PTL

\* No path through claimLoop and runTask leaks or double-frees a slot: refusals,
\* dropped claims, panics, lost reports and exits included.
THEOREM SlotsAlwaysAccounted == Spec => []SlotsAccounted
<1>1. IInv => SlotsAccounted
  BY DEF IInv, Counted
<1> QED BY InvHolds, <1>1, PTL

\* No teardown, drain, crash, restart or late pruning verdict removes a workspace
\* the control plane keeps for a resume (pruneWorkspaces, runTask's defers).
THEOREM RetainedWorkspacesSurvive == Spec => []RetainedWorkspaceOnDisk
<1>1. IInv => RetainedWorkspaceOnDisk
  BY DEF IInv, Kept, RetainedKept, RetainedWorkspaceOnDisk
<1> QED BY InvHolds, <1>1, PTL

\* An agent the control plane holds running has its directory, also when it
\* resumes in that of another execution (runTask, pruneWorkspaces).
THEOREM RunningAgentsHaveWorkspaces == Spec => []RunningAgentHasWorkspace
<1>1. IInv => RunningAgentHasWorkspace
  BY DEF IInv, Kept, RunsOnDisk, Sited, RunningAgentHasWorkspace
<1> QED BY InvHolds, <1>1, PTL

\* Two goroutines never own sandboxes of one task (runTask's duplicate test and
\* registration under one lock, and the order of its defers).
THEOREM SandboxesExclusive == Spec => []OneSandboxPerTask
<1>1. IInv => OneSandboxPerTask
  <2> SUFFICES ASSUME IInv, NEW e \in Executions, NEW f \in Executions, TaskOf[e] = TaskOf[f],
                      "box" \in run[e].defers, "box" \in run[f].defers
               PROVE  e = f
    BY DEF OneSandboxPerTask
  <2>1. e \in tasks /\ f \in tasks
    BY DEF IInv, Registered
  <2> QED BY <2>1 DEF IInv, Registered
<1> QED BY InvHolds, <1>1, PTL

\* An exit reported as clean cuts no goroutine short but one that was spawned and
\* had not joined the task group when waitForTaskCleanup found it empty: nothing
\* is spawned any more, and nobody else moves until main returns.
THEOREM CleanExitsAfterCleanup == Spec => CleanExitAfterCleanup
<1>1. ASSUME IInv, [Next]_vars, Up, main' = "stopped", ~forced', NEW e \in Executions \ late
      PROVE  run[e].pc \in {"none", "gone"}
  <2>1. main # "stopped" /\ Next
    BY <1>1 DEF Up, vars, process
  <2>2. ProcessExits
    <3>1. CASE ClaimLoop
      BY <2>1, <3>1, <1>1, ClaimFrame DEF process
    <3>2. ASSUME NEW f \in Executions, Steps(f) PROVE FALSE
      BY <1>1, <2>1, <3>2, StepFrame DEF IInv, Bystanders, process
    <3>3. CASE Signals
      BY <1>1, <2>1, <3>3
         DEF Signals, HeartbeatDrains, Sigterm, CancelRunContext, DrainDone, DrainDeadline, Restart,
             Barrier, CleanupDone, ReportsDone, HardKill
    <3>4. CASE Reaps
      BY <1>1, <2>1, <3>4, ReapFrame DEF process
    <3>5. CASE Decides
      BY <1>1, <2>1, <3>5, DecideFrame DEF process
    <3>6. CASE Exits
      BY <1>1, <3>6 DEF Exits, Crash
    <3> QED BY <2>1, <3>1, <3>2, <3>3, <3>4, <3>5, <3>6, Cases
  <2> QED BY <1>1, <2>2 DEF ProcessExits, IInv, Unlisted
<1>2. IInv /\ [Next]_vars =>
        [(Up /\ main' = "stopped" /\ ~forced') =>
            \A e \in Executions \ late : run[e].pc \in {"none", "gone"}]_vars
  BY <1>1
<1> QED BY InvHolds, <1>2, PTL DEF Spec, CleanExitAfterCleanup

\* A container disappears in its own teardown, or when neither the control plane
\* nor this runner holds its execution: the container reaper's verdict is still
\* right when it is used (sweepOrphanedTaskContainers).
THEOREM ReaperSparesLive == Spec => ReaperSparesLiveWork
<1>1. ASSUME IInv, [Next]_vars, NEW e \in boxes, e \notin boxes'
      PROVE  run[e].pc = "teardown" \/ (attempt[e] = "over" /\ e \notin tasks)
  <2>1. Next /\ TypeOK
    BY <1>1 DEF vars, store, IInv
  <2>2. CASE ClaimLoop
    BY <1>1, <2>2, ClaimFrame DEF store
  <2>3. ASSUME NEW f \in Executions, Steps(f) PROVE e = f /\ run[f].pc = "teardown"
    BY <1>1, <2>1, <2>3, Kinds
       DEF Joins, Refused, Begins, Opens, Contains, Works, Concludes, Defers, Undoes, Ends
  <2>4. CASE Signals
    BY <1>1, <2>1, <2>4, SignalFrame
  <2>5. CASE Reaps
    <3>1. e = sweep /\ sweep # NoExecution
      BY <1>1, <2>5 DEF Reaps, PruneVerdict, SweepVerdict, PruneDestroy, SweepRemove, store
    <3> QED BY <1>1, <3>1 DEF IInv, Contained
  <2>6. CASE Decides
    BY <1>1, <2>6, DecideFrame DEF store
  <2>7. CASE Exits
    BY <1>1, <2>7 DEF Exits, ProcessExits, Crash, Exit, store
  <2> QED BY <2>1, <2>2, <2>3, <2>4, <2>5, <2>6, <2>7, Cases
<1>2. IInv /\ [Next]_vars =>
        [\A e \in boxes \ boxes' :
            run[e].pc = "teardown" \/ (attempt[e] = "over" /\ e \notin tasks)]_vars
  BY <1>1
<1> QED BY InvHolds, <1>2, PTL DEF Spec, ReaperSparesLiveWork

=============================================================================
