------------------------- MODULE CronTriggersProofs -------------------------
(***************************************************************************)
(* Theorems about CronTriggers, for any replicas, definitions and bounds.  *)
(***************************************************************************)
EXTENDS CronTriggers, TLAPS

Cells == Ids \X Instants
Holds == {"locked", "submitted"}
RunAt(g) == <<g.id, g.at>>

\* Some replica has submitted the task of instant t and not ended its run.
Submitted(i, t) ==
  \E r \in Replicas : \E g \in run[r] : g.pc = "submitted" /\ g.id = i /\ g.at = t

(***************************************************************************)
(* The inductive invariant.                                                *)
(***************************************************************************)

OneRun == \A r \in Replicas : \A g, h \in run[r] : g = h

\* A run past acquireTriggerLock holds the row lock of its trigger, and the
\* marker it read under the lock is still older than its instant.
LockHeld ==
  \A r \in Replicas : \A g \in run[r] :
    g.pc \in Holds => lock[g.id] = r /\ marker[g.id] < g.at

\* Each task of an instant has its committed marker, a run about to commit it,
\* or a marker that was lost.
Accounted ==
  \A i \in Ids, t \in Instants :
    /\ fired[<<i, t>>] <= lost[<<i, t>>] + 1
    /\ (marker[i] < t /\ ~Submitted(i, t)) => fired[<<i, t>>] <= lost[<<i, t>>]

EnabledNow(i) == \E t \in row : t.id = i /\ t.on

\* A run whose trigger is or was found enabled is live.
LiveKnown ==
  \A r \in Replicas : \A g \in run[r] : (EnabledNow(g.id) \/ g.pc # "started") => g.live

TriggerInv == TypeOK /\ OneRun /\ LockHeld /\ Accounted /\ LiveKnown

LEMMA TriggerInit == Init => TriggerInv
<1> SUFFICES ASSUME Init PROVE TriggerInv
  OBVIOUS
<1>1. def \in SUBSET Definition
  BY TriggerAssumption DEF Init, Heads
<1>2. TypeOK
  BY <1>1, TriggerAssumption DEF Init, TypeOK, Ids, Never, Instants
<1>3. OneRun /\ LockHeld /\ LiveKnown
  BY DEF Init, OneRun, LockHeld, LiveKnown
<1>4. Accounted
  <2>1. \A i \in Ids, t \in Instants : fired[<<i, t>>] = 0 /\ lost[<<i, t>>] = 0
    BY DEF Init
  <2>2. 0 <= 0 + 1 /\ 0 <= 0
    OBVIOUS
  <2> QED BY <2>1, <2>2, Zenon DEF Accounted
<1> QED BY <1>2, <1>3, <1>4 DEF TriggerInv

\* What Counted changes.
LEMMA CountedFacts ==
  ASSUME NEW f \in [Cells -> Nat], NEW g \in Run
  PROVE  /\ Counted(f, g) \in [Cells -> Nat]
         /\ Counted(f, g)[<<g.id, g.at>>] = f[<<g.id, g.at>>] + 1
         /\ \A i \in Ids, t \in Instants :
              (i # g.id \/ t # g.at) => Counted(f, g)[<<i, t>>] = f[<<i, t>>]
<1>1. <<g.id, g.at>> \in Cells
  BY DEF Run, Cells
<1>2. \A i \in Ids, t \in Instants : <<i, t>> \in Cells
  BY DEF Cells
<1>3. \A i \in Ids, t \in Instants : (i # g.id \/ t # g.at) => <<i, t>> # <<g.id, g.at>>
  OBVIOUS
<1> QED BY <1>1, <1>2, <1>3 DEF Counted
-----------------------------------------------------------------------------
(***************************************************************************)
(* Steps of the run of one replica.                                        *)
(***************************************************************************)

\* Replica r goes on, from run[r] to X, touching only its own locks and the
\* markers under them.
RunStep(r, X) ==
  /\ run' = [run EXCEPT ![r] = X] /\ row' = row
  /\ X \in SUBSET Run /\ \A g, h \in X : g = h
  /\ lock' \in [Ids -> Replicas \cup {NoReplica}]
  /\ marker' \in [Ids -> 0 .. MaxTime]
  /\ \A i \in Ids : /\ lock'[i] # lock[i] => lock[i] \in {r, NoReplica}
                    /\ marker'[i] # marker[i] => lock[i] = r
  /\ \A g \in X : g.pc \in Holds => lock'[g.id] = r /\ marker'[g.id] < g.at
  /\ \A g \in X : (EnabledNow(g.id) \/ g.pc # "started") => g.live

LEMMA RunStepKeeps ==
  ASSUME TriggerInv, NEW r \in Replicas, NEW X, RunStep(r, X)
  PROVE  /\ run' \in [Replicas -> SUBSET Run] /\ run'[r] = X
         /\ \A p \in Replicas \ {r} : run'[p] = run[p]
         /\ OneRun' /\ LockHeld' /\ LiveKnown'
<1>1. /\ run' \in [Replicas -> SUBSET Run] /\ run'[r] = X
      /\ \A p \in Replicas \ {r} : run'[p] = run[p]
  BY DEF RunStep, TriggerInv, TypeOK
<1>2. OneRun'
  BY <1>1 DEF OneRun, TriggerInv, RunStep
<1>3. LockHeld'
  <2> SUFFICES ASSUME NEW p \in Replicas, NEW g \in run'[p], g.pc \in Holds
               PROVE  lock'[g.id] = p /\ marker'[g.id] < g.at
    BY DEF LockHeld
  <2>1. CASE p = r
    BY <1>1, <2>1 DEF RunStep
  <2>2. CASE p # r
    <3>1. g \in run[p] /\ g \in Run /\ g.id \in Ids
      BY <1>1, <2>2 DEF Run
    <3>2. lock[g.id] = p /\ marker[g.id] < g.at
      BY <3>1 DEF TriggerInv, LockHeld
    <3> QED BY <2>2, <3>1, <3>2, TriggerAssumption DEF RunStep
  <2> QED BY <2>1, <2>2
<1>4. LiveKnown'
  <2>1. \A i : EnabledNow(i)' <=> EnabledNow(i)
    BY DEF EnabledNow, RunStep
  <2> QED BY <1>1, <2>1 DEF LiveKnown, TriggerInv, RunStep
<1> QED BY <1>1, <1>2, <1>3, <1>4

\* The ledger of a step that neither submits nor ends a submitted run.
LEMMA LedgerSame ==
  ASSUME TriggerInv, UNCHANGED <<marker, fired, lost>>,
         \A i \in Ids, t \in Instants : Submitted(i, t) => Submitted(i, t)'
  PROVE  Accounted'
  BY DEF TriggerInv, Accounted

\* Tick, the checks, and a lock that is refused or taken.
Early(r, X) ==
  /\ RunStep(r, X)
  /\ \A g \in run[r] : g.pc # "submitted"
  /\ UNCHANGED <<marker, fired, lost>>

LEMMA EarlyKeeps ==
  ASSUME TriggerInv, NEW r \in Replicas, NEW X, Early(r, X), TypeOK'
  PROVE  TriggerInv'
<1>1. \A i \in Ids, t \in Instants : Submitted(i, t) => Submitted(i, t)'
  BY RunStepKeeps DEF Submitted, Early
<1> QED BY <1>1, RunStepKeeps, LedgerSame DEF Early, TriggerInv

LEMMA TickKeeps ==
  ASSUME TriggerInv, NEW r \in Replicas, NEW i \in Ids, Tick(r, i)
  PROVE  TriggerInv'
<1> DEFINE b == \E t \in row : t.id = i /\ t.on
           g == [pc |-> "started", id |-> i, at |-> now, live |-> b]
<1>0. b \in BOOLEAN
  OBVIOUS
<1>1. now \in Instants
  BY DEF TriggerInv, TypeOK, Tick, Instants
<1>2. run' = [run EXCEPT ![r] = {g}]
  BY DEF Tick
<1> HIDE DEF b
<1>3. g \in Run /\ g.pc = "started" /\ g.id = i
  BY <1>0, <1>1 DEF Run
<1>4. g.live <=> b
  BY <1>0, Zenon
<1>5. EnabledNow(i) <=> b
  BY DEF EnabledNow, b
<1>6. run[r] = {}
  BY DEF Tick
<1> HIDE DEF g
<1>7. Early(r, {g})
  BY <1>2, <1>3, <1>4, <1>5, <1>6 DEF Early, RunStep, TriggerInv, TypeOK, Tick, rows, locks, Holds
<1>8. TypeOK'
  BY <1>7, RunStepKeeps DEF TriggerInv, TypeOK, Tick, rows, locks, Early
<1> QED BY <1>7, <1>8, EarlyKeeps

\* Moving a run on changes its pc only.
LEMMA MovedFacts ==
  ASSUME NEW g \in Run, NEW pc \in {"started", "checked", "locked", "submitted"}
  PROVE  /\ [g EXCEPT !.pc = pc] \in Run /\ [g EXCEPT !.pc = pc].pc = pc
         /\ [g EXCEPT !.pc = pc].id = g.id /\ [g EXCEPT !.pc = pc].at = g.at
         /\ [g EXCEPT !.pc = pc].live = g.live
  BY DEF Run

\* While r holds the lock of a trigger, no other replica has submitted for it.
LEMMA HolderAlone ==
  ASSUME TriggerInv, NEW r \in Replicas, NEW g \in run[r], g.pc \in Holds, NEW t \in Instants,
         g.pc = "submitted" => g.at # t
  PROVE  ~Submitted(g.id, t)
<1> SUFFICES ASSUME NEW p \in Replicas, NEW h \in run[p], h.pc = "submitted", h.id = g.id, h.at = t
             PROVE  FALSE
  BY DEF Submitted
<1>1. lock[g.id] = r /\ lock[h.id] = p
  BY DEF TriggerInv, LockHeld, Holds
<1>2. p = r
  BY <1>1
<1> QED BY <1>2 DEF TriggerInv, OneRun

\* The lock and the run of r end.
LEMMA UnlockedFacts ==
  ASSUME TypeOK, NEW r \in Replicas
  PROVE  /\ Unlocked(r) \in [Ids -> Replicas \cup {NoReplica}]
         /\ \A i \in Ids : Unlocked(r)[i] # lock[i] => lock[i] = r
  BY DEF Unlocked, TypeOK

LEMMA SubmitKeeps ==
  ASSUME TriggerInv, NEW r \in Replicas, NEW g \in run[r], SubmitTriggerTask(r, g)
  PROVE  TriggerInv'
<1> DEFINE m == [g EXCEPT !.pc = "submitted"]
<1>0. /\ TypeOK /\ g \in Run /\ g.id \in Ids /\ g.at \in Instants /\ g.pc = "locked"
      /\ \A h \in run[r] : h = g
      /\ UNCHANGED <<now, rows, marker, lock, lost, procs, sync>>
      /\ fired' = Counted(fired, g)
  BY DEF TriggerInv, TypeOK, OneRun, Run, SubmitTriggerTask
<1>1. m \in Run /\ m.pc = "submitted" /\ m.id = g.id /\ m.at = g.at /\ m.live = g.live
  BY <1>0, MovedFacts
<1>2. run' = [run EXCEPT ![r] = {m}]
  BY DEF SubmitTriggerTask, Goes
<1>3. g.live /\ lock[g.id] = r /\ marker[g.id] < g.at
  BY <1>0 DEF TriggerInv, LiveKnown, LockHeld, Holds
<1>4. m.live
  BY <1>1, <1>3
<1> HIDE DEF m
<1>5. RunStep(r, {m})
  BY <1>0, <1>1, <1>2, <1>3, <1>4 DEF RunStep, TypeOK, rows
<1>6. fired' \in [Cells -> Nat] /\ lost \in [Cells -> Nat] /\ fired \in [Cells -> Nat]
  BY <1>0, CountedFacts DEF TypeOK, Cells
<1>7. TypeOK'
  BY <1>0, <1>5, <1>6, RunStepKeeps DEF TypeOK, rows, procs, RunStep, Cells
<1>8. Accounted'
  <2> SUFFICES ASSUME NEW i \in Ids, NEW t \in Instants
               PROVE  /\ fired'[<<i, t>>] <= lost[<<i, t>>] + 1
                      /\ (marker[i] < t /\ ~Submitted(i, t)') => fired'[<<i, t>>] <= lost[<<i, t>>]
    BY <1>0 DEF Accounted
  <2>1. CASE i = g.id /\ t = g.at
    <3>1. fired[<<i, t>>] <= lost[<<i, t>>]
      BY <1>0, <1>3, <2>1, HolderAlone DEF TriggerInv, Accounted, Holds
    <3>2. fired'[<<i, t>>] = fired[<<i, t>>] + 1
      BY <1>0, <1>6, <2>1, CountedFacts
    <3>3. Submitted(i, t)'
      BY <1>1, <1>5, <2>1, RunStepKeeps DEF Submitted
    <3>4. fired[<<i, t>>] \in Nat /\ lost[<<i, t>>] \in Nat
      BY <1>6 DEF Cells
    <3> QED BY <3>1, <3>2, <3>3, <3>4
  <2>2. CASE i # g.id \/ t # g.at
    <3>1. fired'[<<i, t>>] = fired[<<i, t>>]
      <4>1. \A j \in Ids, u \in Instants :
              (j # g.id \/ u # g.at) => Counted(fired, g)[<<j, u>>] = fired[<<j, u>>]
        BY <1>0, <1>6, CountedFacts
      <4> QED BY <1>0, <2>2, <4>1, Zenon
    <3>2. Submitted(i, t) => Submitted(i, t)'
      BY <1>0, <1>5, RunStepKeeps DEF Submitted
    <3> QED BY <3>1, <3>2 DEF TriggerInv, Accounted
  <2> QED BY <2>1, <2>2
<1> QED BY <1>5, <1>7, <1>8, RunStepKeeps DEF TriggerInv

LEMMA SubmitFailsKeeps ==
  ASSUME TriggerInv, NEW r \in Replicas, NEW g \in run[r], NEW committed \in BOOLEAN,
         SubmitFails(r, g, committed)
  PROVE  TriggerInv'
<1>0. /\ TypeOK /\ g \in Run /\ g.id \in Ids /\ g.at \in Instants /\ g.pc = "locked"
      /\ \A h \in run[r] : h = g
      /\ UNCHANGED <<now, rows, marker, procs, sync>>
      /\ lock' = Unlocked(r) /\ run' = [run EXCEPT ![r] = {}]
  BY DEF TriggerInv, TypeOK, OneRun, Run, SubmitFails, Ends
<1>1. RunStep(r, {})
  BY <1>0, UnlockedFacts DEF RunStep, TypeOK, rows
<1>2. fired \in [Cells -> Nat] /\ lost \in [Cells -> Nat]
  BY <1>0 DEF TypeOK, Cells
<1>3. /\ fired' \in [Cells -> Nat] /\ lost' \in [Cells -> Nat]
      /\ \A i \in Ids, t \in Instants :
           \/ fired'[<<i, t>>] = fired[<<i, t>>] /\ lost'[<<i, t>>] = lost[<<i, t>>]
           \/ fired'[<<i, t>>] = fired[<<i, t>>] + 1 /\ lost'[<<i, t>>] = lost[<<i, t>>] + 1
  <2>1. CASE committed
    <3>1. fired' = Counted(fired, g) /\ lost' = Counted(lost, g)
      BY <2>1 DEF SubmitFails
    <3>2. ASSUME NEW f \in [Cells -> Nat]
          PROVE  /\ Counted(f, g) \in [Cells -> Nat]
                 /\ \A i \in Ids, t \in Instants :
                      Counted(f, g)[<<i, t>>] = IF i = g.id /\ t = g.at THEN f[<<i, t>>] + 1 ELSE f[<<i, t>>]
      BY <1>0, CountedFacts
    <3>3. ASSUME NEW i \in Ids, NEW t \in Instants
          PROVE  \/ fired'[<<i, t>>] = fired[<<i, t>>] /\ lost'[<<i, t>>] = lost[<<i, t>>]
                 \/ fired'[<<i, t>>] = fired[<<i, t>>] + 1 /\ lost'[<<i, t>>] = lost[<<i, t>>] + 1
      <4>1. CASE i = g.id /\ t = g.at
        BY <1>2, <3>1, <3>2, <4>1
      <4>2. CASE ~(i = g.id /\ t = g.at)
        BY <1>2, <3>1, <3>2, <4>2
      <4> QED BY <4>1, <4>2
    <3> QED BY <1>2, <3>1, <3>2, <3>3
  <2>2. CASE ~committed
    BY <1>2, <2>2 DEF SubmitFails
  <2> QED BY <2>1, <2>2
<1>4. TypeOK'
  BY <1>0, <1>1, <1>3, RunStepKeeps DEF TypeOK, rows, procs, RunStep, Cells
<1>5. \A i \in Ids, t \in Instants : Submitted(i, t) => Submitted(i, t)'
  BY <1>0, <1>1, RunStepKeeps DEF Submitted
<1>6. \A i \in Ids, t \in Instants : fired[<<i, t>>] \in Nat /\ lost[<<i, t>>] \in Nat
  BY <1>2 DEF Cells
<1>7. Accounted'
  <2> SUFFICES ASSUME NEW i \in Ids, NEW t \in Instants
               PROVE  /\ fired'[<<i, t>>] <= lost'[<<i, t>>] + 1
                      /\ (marker[i] < t /\ ~Submitted(i, t)') => fired'[<<i, t>>] <= lost'[<<i, t>>]
    BY <1>0 DEF Accounted
  <2>1. /\ fired[<<i, t>>] <= lost[<<i, t>>] + 1
        /\ (marker[i] < t /\ ~Submitted(i, t)) => fired[<<i, t>>] <= lost[<<i, t>>]
    BY DEF TriggerInv, Accounted
  <2> QED BY <1>3, <1>5, <1>6, <2>1
<1> QED BY <1>1, <1>4, <1>7, RunStepKeeps DEF TriggerInv

\* A submitted run ends with its marker, or with one loss.
LEMMA FinishKeeps ==
  ASSUME TriggerInv, NEW r \in Replicas, NEW g \in run[r], FinishInterval(r, g) \/ FinishFails(r, g)
  PROVE  TriggerInv'
<1>0. /\ TypeOK /\ g \in Run /\ g.id \in Ids /\ g.at \in Instants /\ g.pc = "submitted"
      /\ \A h \in run[r] : h = g
      /\ UNCHANGED <<now, rows, fired, procs, sync>>
      /\ lock' = Unlocked(r) /\ run' = [run EXCEPT ![r] = {}]
  BY DEF TriggerInv, TypeOK, OneRun, Run, FinishInterval, FinishFails, Ends
<1>1. lock[g.id] = r /\ marker[g.id] < g.at
  BY <1>0 DEF TriggerInv, LockHeld, Holds
<1>2. /\ fired \in [Cells -> Nat] /\ lost \in [Cells -> Nat]
      /\ \A i \in Ids, t \in Instants : fired[<<i, t>>] \in Nat /\ lost[<<i, t>>] \in Nat
  BY <1>0 DEF TypeOK, Cells
<1>3. \A i \in Ids, t \in Instants :
        Submitted(i, t) => Submitted(i, t)' \/ (i = g.id /\ t = g.at)
  BY <1>0, TypeOK DEF Submitted, TypeOK
<1>4. marker \in [Ids -> 0 .. MaxTime] /\ g.at \in 0 .. MaxTime
  BY <1>0 DEF TypeOK, Instants
<1>5. CASE FinishInterval(r, g)
  <2>1. marker' = [marker EXCEPT ![g.id] = g.at] /\ lost' = lost
    BY <1>5 DEF FinishInterval
  <2>2. RunStep(r, {})
    BY <1>0, <1>1, <1>4, <2>1, UnlockedFacts DEF RunStep, TypeOK, rows
  <2>3. TypeOK'
    BY <1>0, <1>4, <2>1, <2>2, RunStepKeeps DEF TypeOK, rows, procs, RunStep
  <2>4. Accounted'
    <3> SUFFICES ASSUME NEW i \in Ids, NEW t \in Instants
                 PROVE  /\ fired[<<i, t>>] <= lost[<<i, t>>] + 1
                        /\ (marker'[i] < t /\ ~Submitted(i, t)') => fired[<<i, t>>] <= lost[<<i, t>>]
      BY <1>0, <2>1 DEF Accounted
    <3>1. marker'[i] < t => marker[i] < t /\ (i # g.id \/ t # g.at)
      BY <1>0, <1>1, <1>4, <2>1 DEF Instants
    <3> QED BY <1>3, <3>1 DEF TriggerInv, Accounted
  <2> QED BY <2>2, <2>3, <2>4, RunStepKeeps DEF TriggerInv
<1>6. CASE FinishFails(r, g)
  <2>1. marker' = marker /\ lost' = Counted(lost, g)
    BY <1>6 DEF FinishFails
  <2>2. RunStep(r, {})
    BY <1>0, <1>4, <2>1, UnlockedFacts DEF RunStep, TypeOK, rows
  <2>3. TypeOK'
    BY <1>0, <1>2, <2>1, <2>2, CountedFacts, RunStepKeeps DEF TypeOK, rows, procs, RunStep, Cells
  <2>4. Accounted'
    <3> SUFFICES ASSUME NEW i \in Ids, NEW t \in Instants
                 PROVE  /\ fired[<<i, t>>] <= lost'[<<i, t>>] + 1
                        /\ (marker[i] < t /\ ~Submitted(i, t)') => fired[<<i, t>>] <= lost'[<<i, t>>]
      BY <1>0, <2>1 DEF Accounted
    <3>1. fired[<<i, t>>] <= lost[<<i, t>>] + 1
      BY DEF TriggerInv, Accounted
    <3>2. CASE i = g.id /\ t = g.at
      <4>1. lost'[<<i, t>>] = lost[<<i, t>>] + 1
        BY <1>0, <1>2, <2>1, <3>2, CountedFacts
      <4> QED BY <1>2, <3>1, <4>1
    <3>3. CASE i # g.id \/ t # g.at
      <4>1. lost'[<<i, t>>] = lost[<<i, t>>]
        BY <1>0, <1>2, <2>1, <3>3, CountedFacts
      <4> QED BY <1>3, <3>1, <3>3, <4>1 DEF TriggerInv, Accounted
    <3> QED BY <3>2, <3>3
  <2> QED BY <2>2, <2>3, <2>4, RunStepKeeps DEF TriggerInv
<1> QED BY <1>5, <1>6

LEMMA RunKeeps ==
  ASSUME TriggerInv, NEW r \in Replicas, NEW g \in run[r], RunTrigger(r, g)
  PROVE  TriggerInv'
<1> DEFINE moved(pc) == [g EXCEPT !.pc = pc]
<1>0. /\ TypeOK /\ g \in Run /\ g.id \in Ids /\ g.at \in Instants
      /\ \A h \in run[r] : h = g
  BY DEF TriggerInv, TypeOK, OneRun, Run
<1>1. CASE CheckTrigger(r, g)
  <2>1. CASE run' = [run EXCEPT ![r] = {}]
    <3>1. Early(r, {})
      BY <1>0, <1>1, <2>1 DEF Early, RunStep, TypeOK, CheckTrigger, rows, locks
    <3>2. TypeOK'
      BY <1>0, <1>1, <3>1, RunStepKeeps DEF TypeOK, CheckTrigger, rows, locks, procs, Early
    <3> QED BY <3>1, <3>2, EarlyKeeps
  <2>2. CASE EnabledNow(g.id) /\ run' = [run EXCEPT ![r] = {moved("checked")}]
    <3>1. /\ moved("checked") \in Run /\ moved("checked").pc = "checked" /\ moved("checked").id = g.id
          /\ moved("checked").live = g.live
      BY <1>0, MovedFacts
    <3>2. g.live
      BY <2>2 DEF TriggerInv, LiveKnown
    <3>3. moved("checked").live
      BY <3>1, <3>2
    <3> HIDE DEF moved
    <3>4. Early(r, {moved("checked")})
      BY <1>0, <1>1, <2>2, <3>1, <3>3 DEF Early, RunStep, TypeOK, CheckTrigger, rows, locks, Holds
    <3>5. TypeOK'
      BY <1>0, <1>1, <3>4, RunStepKeeps DEF TypeOK, CheckTrigger, rows, locks, procs, Early
    <3> QED BY <3>4, <3>5, EarlyKeeps
  <2> QED BY <1>1, <2>1, <2>2 DEF CheckTrigger, Goes, Ends, EnabledNow
<1>2. CASE LockNotAcquired(r, g) \/ (AcquireTriggerLock(r, g) /\ Claimed(g))
  <2>1. /\ run' = [run EXCEPT ![r] = {}] /\ g.pc = "checked"
        /\ UNCHANGED <<now, rows, locks, procs, sync>>
    BY <1>2 DEF LockNotAcquired, AcquireTriggerLock, Ends, rows, locks, procs
  <2>2. Early(r, {})
    BY <1>0, <2>1 DEF Early, RunStep, TypeOK, rows, locks
  <2>3. TypeOK'
    BY <1>0, <2>1, <2>2, RunStepKeeps DEF TypeOK, rows, locks, procs, Early
  <2> QED BY <2>2, <2>3, EarlyKeeps
<1>3. CASE AcquireTriggerLock(r, g) /\ ~Claimed(g)
  <2>1. /\ moved("locked") \in Run /\ moved("locked").pc = "locked" /\ moved("locked").id = g.id
        /\ moved("locked").at = g.at /\ moved("locked").live = g.live
    BY <1>0, MovedFacts
  <2>2. g.live /\ g.pc = "checked"
    BY <1>3 DEF TriggerInv, LiveKnown, AcquireTriggerLock
  <2>3. marker[g.id] < g.at
    BY <1>0, <1>3 DEF Claimed, NextInstant, Never, TypeOK, Instants
  <2>4. /\ run' = [run EXCEPT ![r] = {moved("locked")}]
        /\ lock' = [lock EXCEPT ![g.id] = r] /\ lock[g.id] = NoReplica
        /\ UNCHANGED <<now, rows, marker, fired, lost, procs, sync>>
    BY <1>3 DEF AcquireTriggerLock, Goes
  <2>5. moved("locked").live
    BY <2>1, <2>2
  <2> HIDE DEF moved
  <2>6. Early(r, {moved("locked")})
    BY <1>0, <2>1, <2>2, <2>3, <2>4, <2>5 DEF Early, RunStep, TypeOK, rows
  <2>7. TypeOK'
    BY <1>0, <2>4, <2>6, RunStepKeeps DEF TypeOK, rows, procs, Early, RunStep
  <2> QED BY <2>6, <2>7, EarlyKeeps
<1>4. CASE SubmitTriggerTask(r, g)
  BY <1>4, SubmitKeeps
<1>5. ASSUME NEW committed \in BOOLEAN, SubmitFails(r, g, committed) PROVE TriggerInv'
  BY <1>5, SubmitFailsKeeps
<1>6. CASE FinishInterval(r, g) \/ FinishFails(r, g)
  BY <1>6, FinishKeeps
<1> QED BY <1>1, <1>2, <1>3, <1>4, <1>5, <1>6 DEF RunTrigger
\* A crash loses the marker of a submitted run with its lock.
LEMMA CrashKeeps ==
  ASSUME TriggerInv, NEW r \in Replicas, Crash(r)
  PROVE  TriggerInv'
<1> DEFINE hit(i, t) == \E g \in run[r] : g.pc = "submitted" /\ g.id = i /\ g.at = t
<1>0. /\ TypeOK /\ UNCHANGED <<now, rows, marker, fired>> /\ ticked' = ticked
      /\ lock' = Unlocked(r) /\ run' = [run EXCEPT ![r] = {}]
      /\ sync' = [sync EXCEPT ![r] = {}] /\ reg' = [reg EXCEPT ![r] = {}]
      /\ up' = up \ {r} /\ crashes' \in 0 .. MaxCrashes
  BY TriggerAssumption DEF TriggerInv, TypeOK, Crash, Ends, Registered
<1>1. RunStep(r, {})
  BY <1>0, UnlockedFacts DEF RunStep, TypeOK, rows
<1>2. /\ fired \in [Cells -> Nat] /\ lost \in [Cells -> Nat] /\ DOMAIN lost = Cells
      /\ \A i \in Ids, t \in Instants : fired[<<i, t>>] \in Nat /\ lost[<<i, t>>] \in Nat
  BY <1>0 DEF TypeOK, Cells
<1>3. lost' = [c \in Cells |-> IF \E g \in run[r] : g.pc = "submitted" /\ c = <<g.id, g.at>>
                               THEN lost[c] + 1 ELSE lost[c]]
  BY <1>2 DEF Crash
<1>4. lost' \in [Cells -> Nat]
  BY <1>2, <1>3
<1>5. ASSUME NEW i \in Ids, NEW t \in Instants
      PROVE  /\ hit(i, t) => lost'[<<i, t>>] = lost[<<i, t>>] + 1
             /\ ~hit(i, t) => lost'[<<i, t>>] = lost[<<i, t>>]
  <2>1. <<i, t>> \in Cells
    BY DEF Cells
  <2>2. (\E g \in run[r] : g.pc = "submitted" /\ <<i, t>> = <<g.id, g.at>>) <=> hit(i, t)
    OBVIOUS
  <2> QED BY <1>3, <2>1, <2>2
<1>6. \A i \in Ids, t \in Instants : Submitted(i, t) => Submitted(i, t)' \/ hit(i, t)
  BY <1>1, RunStepKeeps DEF Submitted
<1> HIDE DEF hit
<1>7. TypeOK'
  BY <1>0, <1>1, <1>4, RunStepKeeps DEF TypeOK, rows, RunStep, Cells
<1>8. Accounted'
  <2> SUFFICES ASSUME NEW i \in Ids, NEW t \in Instants
               PROVE  /\ fired[<<i, t>>] <= lost'[<<i, t>>] + 1
                      /\ (marker[i] < t /\ ~Submitted(i, t)') => fired[<<i, t>>] <= lost'[<<i, t>>]
    BY <1>0 DEF Accounted
  <2>1. /\ fired[<<i, t>>] <= lost[<<i, t>>] + 1
        /\ (marker[i] < t /\ ~Submitted(i, t)) => fired[<<i, t>>] <= lost[<<i, t>>]
    BY DEF TriggerInv, Accounted
  <2> QED BY <1>2, <1>5, <1>6, <2>1
<1> QED BY <1>1, <1>7, <1>8, RunStepKeeps DEF TriggerInv
-----------------------------------------------------------------------------
(***************************************************************************)
(* Steps of the API, of the sync and of the clock.                         *)
(***************************************************************************)

\* The runs stay, and the row stays or goes.
Quiet == UNCHANGED <<locks, run>> /\ row' \in {row, {}}

LEMMA QuietKeeps == ASSUME TriggerInv, Quiet, TypeOK' PROVE TriggerInv'
<1>1. OneRun' /\ LockHeld'
  BY DEF TriggerInv, Quiet, OneRun, LockHeld, locks
<1>2. \A i \in Ids, t \in Instants : Submitted(i, t) => Submitted(i, t)'
  BY DEF Submitted, Quiet
<1>3. Accounted'
  BY <1>2, LedgerSame DEF Quiet, locks
<1>4. \A i : EnabledNow(i)' => EnabledNow(i)
  BY DEF EnabledNow, Quiet
<1>5. LiveKnown'
  BY <1>4 DEF TriggerInv, LiveKnown, Quiet
<1> QED BY <1>1, <1>3, <1>5 DEF TriggerInv

\* A row is written, and the runs of its trigger are noted live.
Renoted == UNCHANGED locks /\ row' \in SUBSET Trigger /\ run' = Noted(row')

\* Noting changes the live flag only.
LEMMA NotedFacts ==
  ASSUME TypeOK, NEW new, NEW r \in Replicas, NEW h \in Noted(new)[r]
  PROVE  \E g \in run[r] :
           /\ h = [g EXCEPT !.live = @ \/ \E t \in new : t.id = g.id /\ t.on]
           /\ h \in Run /\ h.pc = g.pc /\ h.id = g.id /\ h.at = g.at
           /\ h.live <=> (g.live \/ \E t \in new : t.id = g.id /\ t.on)
<1>1. PICK g \in run[r] : h = [g EXCEPT !.live = @ \/ \E t \in new : t.id = g.id /\ t.on]
  BY DEF Noted
<1> DEFINE b == g.live \/ \E t \in new : t.id = g.id /\ t.on
<1>2. h = [g EXCEPT !.live = b] /\ b \in BOOLEAN /\ g \in Run
  BY <1>1 DEF TypeOK
<1> HIDE DEF b
<1>3. h \in Run /\ h.pc = g.pc /\ h.id = g.id /\ h.at = g.at
  BY <1>2 DEF Run
<1>4. h.live = b
  BY <1>2 DEF Run
<1> QED BY <1>1, <1>3, <1>4, Zenon DEF b

LEMMA RenotedKeeps == ASSUME TriggerInv, Renoted, TypeOK' PROVE TriggerInv'
<1>0. TypeOK
  BY DEF TriggerInv
<1>1. OneRun'
  <2> SUFFICES ASSUME NEW r \in Replicas, NEW g \in run'[r], NEW h \in run'[r] PROVE g = h
    BY DEF OneRun
  <2>1. PICK x \in run[r] : g = [x EXCEPT !.live = @ \/ \E t \in row' : t.id = x.id /\ t.on]
    BY <1>0, NotedFacts DEF Renoted
  <2>2. PICK y \in run[r] : h = [y EXCEPT !.live = @ \/ \E t \in row' : t.id = y.id /\ t.on]
    BY <1>0, NotedFacts DEF Renoted
  <2>3. x = y
    BY DEF TriggerInv, OneRun
  <2> QED BY <2>1, <2>2, <2>3
<1>2. LockHeld'
  <2> SUFFICES ASSUME NEW r \in Replicas, NEW h \in run'[r], h.pc \in Holds
               PROVE  lock'[h.id] = r /\ marker'[h.id] < h.at
    BY DEF LockHeld
  <2>1. PICK g \in run[r] : h.pc = g.pc /\ h.id = g.id /\ h.at = g.at
    BY <1>0, NotedFacts DEF Renoted
  <2> QED BY <2>1 DEF TriggerInv, LockHeld, Renoted, locks
<1>3. LiveKnown'
  <2> SUFFICES ASSUME NEW r \in Replicas, NEW h \in run'[r],
                      (\E t \in row' : t.id = h.id /\ t.on) \/ h.pc # "started"
               PROVE  h.live
    BY DEF LiveKnown, EnabledNow
  <2>1. PICK g \in run[r] : /\ h.pc = g.pc /\ h.id = g.id
                            /\ h.live <=> (g.live \/ \E t \in row' : t.id = g.id /\ t.on)
    BY <1>0, NotedFacts DEF Renoted
  <2>2. g.pc # "started" => g.live
    BY DEF TriggerInv, LiveKnown
  <2> QED BY <2>1, <2>2, Zenon
<1>4. Accounted'
  <2>1. ASSUME NEW i \in Ids, NEW t \in Instants, Submitted(i, t) PROVE Submitted(i, t)'
    <3>0. PICK r \in Replicas : \E g \in run[r] : g.pc = "submitted" /\ g.id = i /\ g.at = t
      BY <2>1 DEF Submitted
    <3>1. PICK g \in run[r] : g.pc = "submitted" /\ g.id = i /\ g.at = t
      BY <3>0
    <3> DEFINE h == [g EXCEPT !.live = @ \/ \E u \in row' : u.id = g.id /\ u.on]
    <3>2. h \in run'[r] /\ g \in Run
      BY <1>0 DEF Renoted, Noted, TypeOK
    <3>3. h.pc = g.pc /\ h.id = g.id /\ h.at = g.at
      BY <3>2 DEF Run
    <3> HIDE DEF h
    <3> QED BY <3>1, <3>2, <3>3 DEF Submitted
  <2> QED BY <2>1, LedgerSame DEF Renoted, locks
<1> QED BY <1>1, <1>2, <1>3, <1>4 DEF TriggerInv
LEMMA NotedType ==
  ASSUME TypeOK, NEW new PROVE Noted(new) \in [Replicas -> SUBSET Run]
<1>1. \A r \in Replicas : Noted(new)[r] \in SUBSET Run
  BY NotedFacts
<1>2. Noted(new) = [r \in Replicas |-> Noted(new)[r]]
  BY DEF Noted
<1> QED BY <1>1, <1>2

LEMMA StoredType ==
  ASSUME TypeOK, NEW s \in Sync PROVE Stored(s) \in SUBSET Trigger
<1>1. CASE s.def = {}
  BY <1>1 DEF Stored, TypeOK
<1>2. CASE s.def # {}
  <2>1. s.def \in SUBSET Definition /\ 0 \in Ids
    BY TriggerAssumption DEF Sync, Ids
  <2>2. ASSUME NEW d \in s.def, NEW t \in IF row = {} THEN {[id |-> 0]} ELSE row
        PROVE  [id |-> IF row = {} THEN 0 ELSE t.id, managed |-> TRUE, on |-> d.on] \in Trigger
    <3>1. d.on \in BOOLEAN
      BY <2>1 DEF Definition
    <3>2. (IF row = {} THEN 0 ELSE t.id) \in Ids
      BY <2>1, <2>2 DEF TypeOK, Trigger
    <3> QED BY <3>1, <3>2 DEF Trigger
  <2> QED BY <1>2, <2>2 DEF Stored
<1> QED BY <1>1, <1>2

LEMMA ApiKeeps ==
  ASSUME TriggerInv, NEW r \in Replicas,
         \/ CreateTrigger(r)
         \/ \E t \in row : DeleteTrigger(r, t) \/ \E on \in BOOLEAN : UpdateTrigger(r, t, on)
  PROVE  TriggerInv'
<1>0. TypeOK
  BY DEF TriggerInv
<1>1. CASE CreateTrigger(r)
  <2>1. drafts + 1 \in Ids /\ drafts + 1 \in 0 .. MaxDrafts
    BY <1>0, <1>1, TriggerAssumption DEF TypeOK, CreateTrigger, Ids
  <2>2. row' \in SUBSET Trigger
    BY <1>1, <2>1 DEF CreateTrigger, Trigger
  <2>3. Renoted
    BY <1>1, <2>2 DEF CreateTrigger, Renoted
  <2>4. run' \in [Replicas -> SUBSET Run]
    BY <1>0, <2>3, NotedType DEF Renoted
  <2>5. TypeOK'
    BY <1>0, <1>1, <2>1, <2>2, <2>4 DEF TypeOK, CreateTrigger, Registered, locks
  <2> QED BY <2>3, <2>5, RenotedKeeps
<1>2. ASSUME NEW t \in row, DeleteTrigger(r, t) PROVE TriggerInv'
  <2>1. Quiet
    BY <1>2 DEF DeleteTrigger, Quiet
  <2>2. TypeOK'
    BY <1>0, <1>2, TriggerAssumption DEF TypeOK, DeleteTrigger, Registered, locks
  <2> QED BY <2>1, <2>2, QuietKeeps
<1>3. ASSUME NEW t \in row, NEW on \in BOOLEAN, UpdateTrigger(r, t, on) PROVE TriggerInv'
  <2>1. t \in Trigger /\ t.id \in Ids
    BY <1>0 DEF TypeOK, Trigger
  <2>2. row' \in SUBSET Trigger
    <3>1. [t EXCEPT !.on = on] \in Trigger
      BY <2>1 DEF Trigger
    <3> QED BY <1>3, <3>1 DEF UpdateTrigger
  <2>3. Renoted
    BY <1>3, <2>2 DEF UpdateTrigger, Renoted
  <2>4. run' \in [Replicas -> SUBSET Run]
    BY <1>0, <2>3, NotedType DEF Renoted
  <2>5. reg' \in [Replicas -> SUBSET Ids]
    <3>1. (IF on THEN reg[r] \cup {t.id} ELSE reg[r] \ {t.id}) \in SUBSET Ids
      BY <1>0, <2>1 DEF TypeOK
    <3> QED BY <1>0, <1>3, <3>1 DEF TypeOK, UpdateTrigger, Registered
  <2>6. edits' \in 0 .. MaxEdits
    BY <1>0, <1>3, TriggerAssumption DEF TypeOK, UpdateTrigger
  <2>7. TypeOK'
    BY <1>0, <1>3, <2>2, <2>4, <2>5, <2>6 DEF TypeOK, UpdateTrigger, locks
  <2> QED BY <2>3, <2>7, RenotedKeeps
<1> QED BY <1>1, <1>2, <1>3

LEMMA SyncKeeps ==
  ASSUME TriggerInv, NEW r \in Replicas, SyncDefinitions(r) \/ SyncFails(r)
  PROVE  TriggerInv'
<1>0. TypeOK
  BY DEF TriggerInv
<1>1. CASE SyncFetch(r)
  <2>1. [pc |-> "fetched", def |-> def, seen |-> {}] \in Sync
    BY <1>0 DEF TypeOK, Sync
  <2>2. Quiet
    BY <1>1 DEF SyncFetch, Quiet, rows
  <2>3. sync' \in [Replicas -> SUBSET Sync]
    BY <1>0, <1>1, <2>1 DEF TypeOK, SyncFetch
  <2>4. TypeOK'
    BY <1>0, <1>1, <2>3 DEF TypeOK, SyncFetch, rows, locks, procs
  <2> QED BY <2>2, <2>4, QuietKeeps
<1>2. CASE SyncFails(r)
  <2>1. Quiet
    BY <1>2 DEF SyncFails, Quiet, rows
  <2>2. TypeOK'
    BY <1>0, <1>2 DEF TypeOK, SyncFails, rows, locks, procs
  <2> QED BY <2>1, <2>2, QuietKeeps
<1>3. ASSUME NEW s \in sync[r], SyncList(r, s) PROVE TriggerInv'
  <2>1. [s EXCEPT !.pc = "listed", !.seen = row] \in Sync
    <3>1. s \in Sync /\ row \in SUBSET Trigger
      BY <1>0 DEF TypeOK
    <3> QED BY <3>1 DEF Sync
  <2>2. Quiet
    BY <1>3 DEF SyncList, Quiet, rows
  <2>3. sync' \in [Replicas -> SUBSET Sync]
    BY <1>0, <1>3, <2>1 DEF TypeOK, SyncList
  <2>4. TypeOK'
    BY <1>0, <1>3, <2>3 DEF TypeOK, SyncList, rows, locks, procs
  <2> QED BY <2>2, <2>4, QuietKeeps
<1>4. ASSUME NEW s \in sync[r], SyncStore(r, s) PROVE TriggerInv'
  <2>1. s \in Sync /\ [s EXCEPT !.pc = "stored"] \in Sync
    BY <1>0 DEF TypeOK, Sync
  <2>2. row' \in SUBSET Trigger
    BY <1>0, <1>4, <2>1, StoredType DEF SyncStore
  <2>3. Renoted
    BY <1>4, <2>2 DEF SyncStore, Renoted
  <2>4. run' \in [Replicas -> SUBSET Run]
    BY <1>0, <2>3, NotedType DEF Renoted
  <2>5. sync' \in [Replicas -> SUBSET Sync]
    BY <1>0, <1>4, <2>1 DEF TypeOK, SyncStore
  <2>6. TypeOK'
    BY <1>0, <1>4, <2>2, <2>4, <2>5 DEF TypeOK, SyncStore, locks, procs
  <2> QED BY <2>3, <2>6, RenotedKeeps
<1>5. ASSUME NEW s \in sync[r], SyncActivate(r, s) PROVE TriggerInv'
  <2>1. Quiet
    BY <1>5 DEF SyncActivate, Quiet, rows
  <2>2. reg' \in [Replicas -> SUBSET Ids]
    BY <1>0, <1>5 DEF TypeOK, SyncActivate, Registered, Trigger
  <2>3. TypeOK'
    BY <1>0, <1>5, <2>2 DEF TypeOK, SyncActivate, rows, locks
  <2> QED BY <2>1, <2>3, QuietKeeps
<1> QED BY <1>1, <1>2, <1>3, <1>4, <1>5 DEF SyncDefinitions

LEMMA TriggerStep == TriggerInv /\ [Next]_vars => TriggerInv'
<1> SUFFICES ASSUME TriggerInv, [Next]_vars PROVE TriggerInv'
  OBVIOUS
<1>0. TypeOK
  BY DEF TriggerInv
<1>1. CASE Advance
  <2>1. Quiet
    BY <1>1 DEF Advance, Quiet, rows
  <2>2. TypeOK'
    BY <1>0, <1>1, TriggerAssumption DEF TypeOK, Advance, rows, locks, procs
  <2> QED BY <2>1, <2>2, QuietKeeps
<1>2. ASSUME NEW d \in Heads, EditDefinition(d) PROVE TriggerInv'
  <2>1. Quiet
    BY <1>2 DEF EditDefinition, Quiet
  <2>2. d \in SUBSET Definition
    BY <1>2, TriggerAssumption DEF Heads
  <2>3. TypeOK'
    BY <1>0, <1>2, <2>2, TriggerAssumption DEF TypeOK, EditDefinition, locks, procs
  <2> QED BY <2>1, <2>3, QuietKeeps
<1>3. ASSUME NEW r \in Replicas, Start(r) PROVE TriggerInv'
  <2>1. Quiet
    BY <1>3 DEF Start, Quiet, rows
  <2>2. reg' \in [Replicas -> SUBSET Ids]
    BY <1>0, <1>3 DEF TypeOK, Start, Registered, Trigger
  <2>3. TypeOK'
    BY <1>0, <1>3, <2>2 DEF TypeOK, Start, rows, locks
  <2> QED BY <2>1, <2>3, QuietKeeps
<1>4. CASE UNCHANGED vars
  <2>1. Quiet
    BY <1>4 DEF vars, Quiet, rows
  <2>2. TypeOK'
    BY <1>0, <1>4 DEF TypeOK, vars, rows, locks, procs
  <2> QED BY <2>1, <2>2, QuietKeeps
<1> QED BY <1>1, <1>2, <1>3, <1>4, TickKeeps, RunKeeps, ApiKeeps, SyncKeeps, CrashKeeps DEF Next

LEMMA TriggerCorrect == Spec => []TriggerInv
  BY TriggerInit, TriggerStep, PTL DEF Spec
-----------------------------------------------------------------------------
\* Cron, lock, API, sync and crashes keep the trigger's row, registries and
\* runs well formed (triggers.go, coordination.go).
THEOREM TypeCorrect == Spec => []TypeOK
<1>1. TriggerInv => TypeOK
  BY DEF TriggerInv
<1> QED BY TriggerCorrect, <1>1, PTL

\* acquireTriggerLock and the marker committed under the lock: whatever the
\* number of replicas, an instant has one task more than markers it lost.
THEOREM InstantRunsOnce == Spec => []RepeatsOnlyAfterLostMarker
<1>1. TriggerInv => RepeatsOnlyAfterLostMarker
  <2> SUFFICES ASSUME TriggerInv, NEW c \in DOMAIN fired PROVE fired[c] <= 1 + lost[c]
    BY DEF RepeatsOnlyAfterLostMarker
  <2>1. c \in Cells /\ fired[c] \in Nat /\ lost[c] \in Nat
    BY DEF TriggerInv, TypeOK, Cells
  <2>2. PICK i \in Ids, t \in Instants : c = <<i, t>>
    BY <2>1 DEF Cells
  <2>3. fired[c] <= lost[c] + 1
    BY <2>2 DEF TriggerInv, Accounted
  <2> QED BY <2>1, <2>3
<1> QED BY TriggerCorrect, <1>1, PTL

\* The marker of a trigger only moves forward, also under runs that waited for
\* the lock past their instant (acquireTriggerLock).
THEOREM MarkerMovesForward == Spec => MarkerNeverReturns
<1>1. ASSUME TriggerInv, [Next]_vars PROVE [\A i \in Ids : marker'[i] >= marker[i]]_vars
  <2>0. marker \in [Ids -> 0 .. MaxTime]
    BY <1>1 DEF TriggerInv, TypeOK
  <2>1. CASE marker' = marker
    BY <2>0, <2>1
  <2>2. ASSUME NEW r \in Replicas, NEW g \in run[r], FinishInterval(r, g)
        PROVE  \A i \in Ids : marker'[i] >= marker[i]
    <3>1. marker[g.id] < g.at /\ g.at \in 0 .. MaxTime /\ g.id \in Ids
      BY <1>1, <2>2 DEF TriggerInv, LockHeld, Holds, TypeOK, Run, Instants, FinishInterval
    <3> QED BY <2>0, <2>2, <3>1 DEF FinishInterval
  <2>3. ASSUME NEW r \in Replicas, NEW g \in run[r], RunTrigger(r, g), ~FinishInterval(r, g)
        PROVE  marker' = marker
    BY <2>3 DEF RunTrigger, CheckTrigger, AcquireTriggerLock, LockNotAcquired, SubmitTriggerTask,
                SubmitFails, FinishFails, locks
  <2>4. ASSUME Next, ~(\E r \in Replicas : \E g \in run[r] : RunTrigger(r, g)) PROVE marker' = marker
    BY <2>4 DEF Next, Advance, EditDefinition, Tick, CreateTrigger, DeleteTrigger, UpdateTrigger,
                SyncDefinitions, SyncFetch, SyncList, SyncStore, SyncActivate, SyncFails, Crash, Start, locks
  <2>5. CASE UNCHANGED vars
    BY <2>5
  <2> QED BY <1>1, <2>1, <2>2, <2>3, <2>4, <2>5
<1> QED BY TriggerCorrect, <1>1, PTL DEF Spec, MarkerNeverReturns

\* runTrigger reads the persisted flag after the tick: no replica submits the
\* task of a trigger that was disabled or gone throughout.
THEOREM DisabledTriggersRest == Spec => DisableReachesAllReplicas
<1> DEFINE A == \A r \in Replicas : \A g \in run[r] :
                  fired'[<<g.id, g.at>>] > fired[<<g.id, g.at>>] =>
                    \E h \in Replicas : \E k \in run[h] : k.id = g.id /\ k.at = g.at /\ k.live
<1>1. ASSUME TriggerInv, [Next]_vars PROVE [A]_vars
  <2>0. fired \in [Cells -> Nat]
    BY <1>1 DEF TriggerInv, TypeOK, Cells
  <2>1. CASE fired' = fired
    <3>1. \A r \in Replicas : \A g \in run[r] : fired[<<g.id, g.at>>] \in Nat
      BY <1>1, <2>0 DEF TriggerInv, TypeOK, Run, Cells
    <3> QED BY <2>1, <3>1
  <2>2. ASSUME NEW p \in Replicas, NEW k \in run[p], k.pc = "locked", fired' = Counted(fired, k)
        PROVE  A
    <3> SUFFICES ASSUME NEW r \in Replicas, NEW g \in run[r],
                        fired'[<<g.id, g.at>>] > fired[<<g.id, g.at>>]
                 PROVE  \E h \in Replicas : \E j \in run[h] : j.id = g.id /\ j.at = g.at /\ j.live
      OBVIOUS
    <3>1. /\ k \in Run /\ g \in Run /\ g.id \in Ids /\ g.at \in Instants
          /\ fired[<<g.id, g.at>>] \in Nat
      BY <1>1, <2>0 DEF TriggerInv, TypeOK, Run, Cells
    <3>2. k.live
      BY <1>1, <2>2 DEF TriggerInv, LiveKnown
    <3>3. \A i \in Ids, t \in Instants :
            (i # k.id \/ t # k.at) => Counted(fired, k)[<<i, t>>] = fired[<<i, t>>]
      BY <2>0, <3>1, CountedFacts
    <3>4. k.id = g.id /\ k.at = g.at
      <4>1. CASE g.id # k.id \/ g.at # k.at
        <5>1. fired'[<<g.id, g.at>>] = fired[<<g.id, g.at>>]
          BY <2>2, <3>1, <3>3, <4>1, Zenon
        <5> QED BY <3>1, <5>1
      <4> QED BY <4>1
    <3> QED BY <3>2, <3>4, Zenon
  <2>3. ASSUME NEW p \in Replicas, NEW k \in run[p], RunTrigger(p, k)
        PROVE  fired' = fired \/ (k.pc = "locked" /\ fired' = Counted(fired, k))
    BY <2>3 DEF RunTrigger, CheckTrigger, AcquireTriggerLock, LockNotAcquired, SubmitTriggerTask,
                SubmitFails, FinishInterval, FinishFails, locks
  <2>4. ASSUME Next, ~(\E r \in Replicas : \E g \in run[r] : RunTrigger(r, g)) PROVE fired' = fired
    BY <2>4 DEF Next, Advance, EditDefinition, Tick, CreateTrigger, DeleteTrigger, UpdateTrigger,
                SyncDefinitions, SyncFetch, SyncList, SyncStore, SyncActivate, SyncFails, Crash, Start, locks
  <2>5. CASE UNCHANGED vars
    BY <2>5
  <2> HIDE DEF A
  <2> QED BY <1>1, <2>1, <2>2, <2>3, <2>4, <2>5
<1> QED BY TriggerCorrect, <1>1, PTL DEF Spec, DisableReachesAllReplicas
=============================================================================
