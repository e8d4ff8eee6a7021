------------------------- MODULE ClaimQueueProofs -------------------------
(***************************************************************************)
(* Theorems about ClaimQueue, for any rows, runners and replicas.          *)
(***************************************************************************)
EXTENDS ClaimQueue, FiniteSetTheorems, TLAPS

\* A row that SKIP LOCKED lets through is held by no transaction.
LEMMA LockedFacts ==
  ASSUME TypeOK
  PROVE  /\ Locked \subseteq Rows
         /\ \A r \in Runners : poll[r].row \subseteq Locked
  BY DEF TypeOK, Locked, PollType, Idle

\* What notify leaves of the calls: everything but the state of the channel.
LEMMA NotifyFacts ==
  ASSUME TypeOK, NEW p \in Replicas, Notify(p)
  PROVE  /\ poll' \in [Runners -> PollType \cup {Idle}]
         /\ \A r \in Runners :
              /\ poll'[r].at = poll[r].at
              /\ poll'[r].rep = poll[r].rep
              /\ poll'[r].row = poll[r].row
              /\ poll'[r].blind = poll[r].blind
              /\ poll'[r].open => poll[r].open /\ poll[r].rep # {p}
<1>1. poll' = [r \in Runners |-> IF poll[r].rep = {p} THEN [poll[r] EXCEPT !.open = FALSE] ELSE poll[r]]
  BY DEF Notify
<1>2. ASSUME NEW r \in Runners
      PROVE  /\ poll'[r] \in PollType \cup {Idle}
             /\ poll'[r].at = poll[r].at
             /\ poll'[r].rep = poll[r].rep
             /\ poll'[r].row = poll[r].row
             /\ poll'[r].blind = poll[r].blind
             /\ poll'[r].open => poll[r].open /\ poll[r].rep # {p}
  <2>1. CASE poll[r].rep = {p}
    <3>1. poll[r] \in PollType
      BY <2>1 DEF TypeOK, Idle
    <3>2. poll'[r] = [poll[r] EXCEPT !.open = FALSE]
      BY <1>1, <2>1
    <3> QED BY <3>1, <3>2 DEF PollType
  <2>2. CASE poll[r].rep # {p}
    <3>1. poll'[r] = poll[r]
      BY <1>1, <2>2
    <3> QED BY <2>2, <3>1 DEF TypeOK
  <2> QED BY <2>1, <2>2
<1>3. poll' \in [Runners -> PollType \cup {Idle}]
  BY <1>1, <1>2, Zenon
<1> QED BY <1>2, <1>3

LEMMA TypeInit == Init => TypeOK
<1> SUFFICES ASSUME Init PROVE TypeOK
  OBVIOUS
<1>1. used \subseteq Rows /\ IsFiniteSet(used)
  BY FS_EmptySet DEF Init
<1>2. poll \in [Runners -> PollType \cup {Idle}]
  BY DEF Init
<1>3. \A r, q \in Runners : r # q => poll[r].row \cap poll[q].row = {}
  BY DEF Init, Idle
<1>4. spent \in 0..MaxFaults
  BY ConstantsAssumption DEF Init
<1> QED BY <1>1, <1>2, <1>3, <1>4 DEF Init, TypeOK

LEMMA TypeStep == TypeOK /\ [Next]_vars => TypeOK'
<1> SUFFICES ASSUME TypeOK, [Next]_vars PROVE TypeOK'
  OBVIOUS
<1> USE ConstantsAssumption
<1>1. ASSUME NEW p \in Replicas, NEW x \in Rows, Commit(p, x) PROVE TypeOK'
  <2>1. IsFiniteSet(used') /\ Cardinality(used) \in Nat
    BY <1>1, FS_AddElement, FS_CardinalityType DEF Commit, TypeOK
  <2> QED BY <1>1, <2>1 DEF Commit, TypeOK, Entry, poller, spending
<1>2. ASSUME NEW p \in Replicas, NotifyTaskClaimable(p) PROVE TypeOK'
  BY <1>2, NotifyFacts DEF NotifyTaskClaimable, TypeOK, poller, database, spending
<1>3. ASSUME NEW p \in Replicas, ReadBaseline(p) PROVE TypeOK'
  <2>1. degraded' \in BOOLEAN
    BY <1>3, Zenon DEF ReadBaseline, TypeOK
  <2>2. last' \in [Replicas -> SUBSET (0..counter)]
    BY <1>3 DEF ReadBaseline, TypeOK
  <2> QED BY <1>3, <2>1, <2>2 DEF ReadBaseline, TypeOK, database, spending
<1>4. ASSUME NEW p \in Replicas, PollCounter(p) PROVE TypeOK'
  BY <1>4 DEF PollCounter, TypeOK, database, spending
<1>5. ASSUME NEW p \in Replicas, NotifyFromCounter(p) PROVE TypeOK'
  BY <1>5, NotifyFacts DEF NotifyFromCounter, TypeOK, database, spending
<1>6. ASSUME NEW p \in Replicas, Restart(p) PROVE TypeOK'
  <2>1. poll' = [r \in Runners |-> IF poll[r].rep = {p} THEN Idle ELSE poll[r]]
    BY <1>6 DEF Restart
  <2>2. poll' \in [Runners -> PollType \cup {Idle}]
    BY <2>1 DEF TypeOK
  <2>3. \A r \in Runners : poll'[r].row \subseteq poll[r].row
    BY <2>1 DEF Idle
  <2>4. \A r, q \in Runners : r # q => poll'[r].row \cap poll'[q].row = {}
    BY <2>3 DEF TypeOK
  <2>5. spent' \in 0..MaxFaults
    BY <1>6 DEF Restart, TypeOK
  <2> QED BY <1>6, <2>2, <2>4, <2>5 DEF Restart, TypeOK, database
<1>7. CASE BumpClaimNotifyCounter
  <2>1. counter' \in Nat /\ bumps' \in Nat /\ counter <= counter'
    BY <1>7 DEF BumpClaimNotifyCounter, TypeOK
  <2>0. degraded' \in BOOLEAN
    BY <1>7, Zenon DEF BumpClaimNotifyCounter, TypeOK
  <2>2. 0..counter \subseteq 0..counter'
    BY <2>1 DEF TypeOK
  <2>3. last' \in [Replicas -> SUBSET (0..counter')]
    BY <1>7, <2>2 DEF BumpClaimNotifyCounter, TypeOK, poller
  <2> QED BY <1>7, <2>0, <2>1, <2>3 DEF BumpClaimNotifyCounter, TypeOK, poller, spending
<1>8. ASSUME NEW r \in Runners, Call(r) PROVE TypeOK'
  <2> USE DEF TypeOK, database, poller, spending
  <2>1. ASSUME NEW p \in Replicas, ClaimTask(r, p) PROVE TypeOK'
    BY <2>1 DEF ClaimTask, Snapshot, PollType, Idle
  <2>2. CASE ClaimOnce(r)
    <3>1. poll[r] \in PollType
      BY <2>2 DEF ClaimOnce, Idle
    <3>2. ASSUME NEW e \in Visible(r),
                 poll' = [poll EXCEPT ![r].at = "claiming", ![r].row = {e.row}]
          PROVE  TypeOK'
      <4>2. e.row \in Rows /\ \A q \in Runners : e.row \notin poll[q].row
        BY LockedFacts DEF Visible, Entry
      <4>3. poll' \in [Runners -> PollType \cup {Idle}]
        BY <3>1, <3>2, <4>2 DEF PollType
      <4>4. poll'[r].row = {e.row} /\ \A q \in Runners \ {r} : poll'[q] = poll[q]
        BY <3>1, <3>2 DEF PollType
      <4>5. \A q, s \in Runners : q # s => poll'[q].row \cap poll'[s].row = {}
        BY <4>2, <4>4
      <4> QED BY <2>2, <4>3, <4>5 DEF ClaimOnce
    <3>3. ASSUME NEW unseen \in SUBSET Rows, FoundNothing(r, unseen) PROVE TypeOK'
      BY <2>2, <3>1, <3>3 DEF ClaimOnce, FoundNothing, PollType
    <3>4. Locked \in SUBSET Rows /\ {e.row : e \in queue} \in SUBSET Rows
      BY LockedFacts DEF Entry
    <3> QED BY <2>2, <3>2, <3>3, <3>4 DEF ClaimOnce
  <2>3. CASE ClaimCommits(r)
    <3>1. queue' \subseteq queue
      BY <2>3 DEF ClaimCommits
    <3> QED BY <2>3, <3>1 DEF ClaimCommits, PollType, Idle
  <2>4. CASE ClaimRollsBack(r)
    BY <2>4 DEF ClaimRollsBack, PollType, Idle
  <2>5. CASE ClaimWaits(r)
    <3>1. poll[r] \in PollType
      BY <2>5 DEF ClaimWaits, Idle
    <3>2. poll' = [poll EXCEPT ![r].at = "waiting", ![r].open = poll[r].open]
      BY <2>5 DEF ClaimWaits, WaitChannel
    <3>3. poll' \in [Runners -> PollType \cup {Idle}]
      BY <3>1, <3>2 DEF PollType
    <3>4. \A q \in Runners : poll'[q].row = poll[q].row
      BY <3>1, <3>2 DEF PollType
    <3> QED BY <2>5, <3>3, <3>4 DEF ClaimWaits
  <2>6. CASE Wake(r)
    BY <2>6 DEF Wake, Snapshot, PollType, Idle
  <2>7. CASE ClaimReturnsEmpty(r)
    BY <2>7 DEF ClaimReturnsEmpty, PollType, Idle
  <2> QED BY <1>8, <2>1, <2>2, <2>3, <2>4, <2>5, <2>6, <2>7 DEF Call
<1>9. ASSUME NEW r \in Runners, Drain(r) PROVE TypeOK'
  BY <1>9 DEF Drain, RequestRunnerDrain, AckRunnerDrain, StartDrain, RunnerStarts, TypeOK, poller, database, spending
<1>10. CASE UNCHANGED vars
  BY <1>10 DEF vars, TypeOK
<1> QED BY <1>1, <1>2, <1>3, <1>4, <1>5, <1>6, <1>7, <1>8, <1>9, <1>10 DEF Next, Replica

\* The long poll, the notifier and the counter keep their state well formed,
\* and no row is locked by two claim transactions.
THEOREM TypeCorrect == Spec => []TypeOK
  BY TypeInit, TypeStep, PTL DEF Spec
-----------------------------------------------------------------------------
(***************************************************************************)
(* No wake-up is lost.  A call that looked at the queue and found nothing  *)
(* counts on the notification already before it waits: the wake-up         *)
(* properties become inductive once they speak of both.                    *)
(***************************************************************************)
Awaits(r, x) ==
  /\ poll[r].at \in {"empty", "waiting"}
  /\ poll[r].open
  /\ MayClaim(r, x)
  /\ x \notin poll[r].blind

LocalInv ==
  \A r \in Runners, e \in queue :
    Awaits(r, e.row) /\ e.by \in poll[r].rep => committed[e.by] > 0

RemoteInv ==
  \A r \in Runners, e \in queue : \A p \in poll[r].rep :
    Awaits(r, e.row) /\ ~degraded =>
      committed[e.by] > 0 \/ bumps > 0 \/ last[p] = {} \/ CounterChanged(p) \/ seen[p]

\* What every replica but a new one relies on: a bump is on its way, or the
\* counter is not the 0 that a failed baseline reads.
CountedInv ==
  \A e \in queue : ~degraded => committed[e.by] > 0 \/ bumps > 0 \/ counter > 0

WakeupInv == TypeOK /\ LocalInv /\ RemoteInv /\ CountedInv

\* A step of a ClaimTask call makes no call wait for a queued row that did not
\* wait for it before: a call that finds nothing has seen every row it may
\* claim except those it is blind to.
LEMMA CallFacts ==
  ASSUME TypeOK, NEW r \in Runners, Call(r)
  PROVE  /\ queue' \subseteq queue
         /\ UNCHANGED <<committed, bumps, counter, last, seen, degraded>>
         /\ \A q \in Runners, e \in queue :
              Awaits(q, e.row)' => Awaits(q, e.row) /\ poll'[q].rep = poll[q].rep
<1> DEFINE Kept == \A q \in Runners, e \in queue :
                     Awaits(q, e.row)' => Awaits(q, e.row) /\ poll'[q].rep = poll[q].rep
           Same == queue' \subseteq queue /\ UNCHANGED <<committed, bumps, counter, last, seen, degraded>>
<1>1. Same
  BY DEF Call, ClaimTask, ClaimOnce, ClaimCommits, ClaimRollsBack, ClaimWaits, Wake, ClaimReturnsEmpty,
         database, poller
<1> SUFFICES Kept
  BY <1>1
<1>2. ASSUME poll'[r].at \notin {"empty", "waiting"}, \A q \in Runners \ {r} : poll'[q] = poll[q]
      PROVE  Kept
  BY <1>2 DEF Awaits, MayClaim
<1>3. ASSUME NEW p \in Replicas, ClaimTask(r, p) PROVE Kept
  BY <1>2, <1>3 DEF ClaimTask, Snapshot, TypeOK
<1>4. CASE ClaimOnce(r)
  <2>1. poll[r] \in PollType
    BY <1>4 DEF ClaimOnce, Idle, TypeOK
  <2>2. ASSUME NEW e \in Visible(r),
               poll' = [poll EXCEPT ![r].at = "claiming", ![r].row = {e.row}]
        PROVE  Kept
    BY <1>2, <2>1, <2>2 DEF PollType, TypeOK
  <2>3. ASSUME NEW unseen, FoundNothing(r, unseen),
               \A e \in queue : MayClaim(r, e.row) => e.row \in unseen
        PROVE  Kept
    <3>1. poll'[r].blind = unseen /\ \A q \in Runners \ {r} : poll'[q] = poll[q]
      BY <2>1, <2>3 DEF FoundNothing, PollType, TypeOK
    <3> QED BY <2>3, <3>1 DEF Awaits, MayClaim
  <2>4. CASE Visible(r) = {} /\ FoundNothing(r, Locked)
    BY <2>3, <2>4 DEF Visible
  <2>5. CASE r \in drain /\ FoundNothing(r, {e.row : e \in queue})
    BY <2>3, <2>5 DEF TypeOK, Entry
  <2> QED BY <1>4, <2>2, <2>4, <2>5 DEF ClaimOnce
<1>5. CASE ClaimCommits(r) \/ ClaimRollsBack(r) \/ ClaimReturnsEmpty(r)
  BY <1>2, <1>5 DEF ClaimCommits, ClaimRollsBack, ClaimReturnsEmpty, Idle, TypeOK
<1>6. CASE ClaimWaits(r)
  <2>1. poll[r] \in PollType
    BY <1>6 DEF ClaimWaits, Idle, TypeOK
  <2>2. poll' = [poll EXCEPT ![r].at = "waiting", ![r].open = poll[r].open]
    BY <1>6 DEF ClaimWaits, WaitChannel
  <2>3. /\ poll[r].at = "empty" /\ poll'[r].open = poll[r].open
        /\ poll'[r].rep = poll[r].rep /\ poll'[r].blind = poll[r].blind
        /\ \A q \in Runners \ {r} : poll'[q] = poll[q]
    BY <1>6, <2>1, <2>2 DEF ClaimWaits, PollType, TypeOK
  <2> QED BY <2>3 DEF Awaits, MayClaim
<1>7. CASE Wake(r)
  <2>1. PICK p \in poll[r].rep : Snapshot(r, p)
    BY <1>7 DEF Wake
  <2> QED BY <1>2, <2>1 DEF Snapshot, TypeOK
<1> QED BY <1>3, <1>4, <1>5, <1>6, <1>7 DEF Call

LEMMA WakeupInit == Init => WakeupInv
  BY TypeInit DEF Init, WakeupInv, LocalInv, RemoteInv, CountedInv

LEMMA LocalStep == WakeupInv /\ [Next]_vars => LocalInv'
<1> SUFFICES ASSUME TypeOK, LocalInv, TypeOK', [Next]_vars,
                    NEW r \in Runners, NEW e \in queue', Awaits(r, e.row)', e.by \in poll'[r].rep
             PROVE  committed'[e.by] > 0
  BY TypeStep DEF WakeupInv, LocalInv
<1>0. e.row \in Rows /\ e.by \in Replicas
  BY DEF TypeOK, Entry
<1>1. ASSUME NEW p \in Replicas, NEW x \in Rows, Commit(p, x) PROVE committed'[e.by] > 0
  BY <1>0, <1>1 DEF Commit, LocalInv, Awaits, MayClaim, TypeOK
<1>2. ASSUME NEW p \in Replicas, NotifyTaskClaimable(p) PROVE committed'[e.by] > 0
  <2>1. Notify(p) /\ e \in queue /\ committed' = [committed EXCEPT ![p] = @ - 1]
    BY <1>2 DEF NotifyTaskClaimable, database
  <2>2. Awaits(r, e.row) /\ poll[r].rep # {p} /\ e.by \in poll[r].rep
    BY <2>1, NotifyFacts DEF Awaits, MayClaim
  <2>3. e.by # p
    BY <2>2 DEF TypeOK, PollType, Idle
  <2> QED BY <1>0, <2>1, <2>2, <2>3 DEF LocalInv, TypeOK
<1>3. ASSUME NEW p \in Replicas, NotifyFromCounter(p) PROVE committed'[e.by] > 0
  <2>1. Notify(p) /\ e \in queue /\ committed' = committed
    BY <1>3 DEF NotifyFromCounter, database
  <2>2. Awaits(r, e.row) /\ e.by \in poll[r].rep
    BY <2>1, NotifyFacts DEF Awaits, MayClaim
  <2> QED BY <2>1, <2>2 DEF LocalInv
<1>4. ASSUME NEW p \in Replicas, Restart(p) PROVE committed'[e.by] > 0
  <2>1. /\ poll' = [q \in Runners |-> IF poll[q].rep = {p} THEN Idle ELSE poll[q]]
        /\ e \in queue /\ committed' = [committed EXCEPT ![p] = 0]
    BY <1>4 DEF Restart, database
  <2>2. poll[r].rep # {p} /\ poll'[r] = poll[r]
    BY <2>1 DEF Idle
  <2>3. Awaits(r, e.row) /\ e.by \in poll[r].rep /\ e.by # p
    BY <2>2 DEF Awaits, MayClaim, TypeOK, PollType, Idle
  <2> QED BY <1>0, <2>1, <2>3 DEF LocalInv, TypeOK
<1>5. ASSUME UNCHANGED <<queue, poll, committed>> PROVE committed'[e.by] > 0
  BY <1>5 DEF LocalInv, Awaits, MayClaim
<1>6. ASSUME NEW q \in Runners, Call(q) PROVE committed'[e.by] > 0
  BY <1>6, CallFacts DEF LocalInv
<1> QED
  BY <1>1, <1>2, <1>3, <1>4, <1>5, <1>6
  DEF Next, Replica, ReadBaseline, PollCounter, BumpClaimNotifyCounter, Drain, RequestRunnerDrain, AckRunnerDrain,
      StartDrain, RunnerStarts, vars, database

LEMMA RemoteStep == WakeupInv /\ [Next]_vars => RemoteInv'
<1> DEFINE Coming(b, m) == committed[b] > 0 \/ bumps > 0 \/ last[m] = {} \/ CounterChanged(m) \/ seen[m]
<1> SUFFICES ASSUME TypeOK, RemoteInv, CountedInv, TypeOK', [Next]_vars,
                    NEW r \in Runners, NEW e \in queue', NEW m \in poll'[r].rep,
                    Awaits(r, e.row)', ~degraded'
             PROVE  Coming(e.by, m)'
  BY TypeStep DEF WakeupInv, RemoteInv
<1>0. e.row \in Rows /\ e.by \in Replicas /\ m \in Replicas /\ poll'[r].rep = {m}
  BY DEF TypeOK, Entry, PollType, Idle
<1>1. ASSUME NEW p \in Replicas, NEW x \in Rows, Commit(p, x) PROVE Coming(e.by, m)'
  BY <1>0, <1>1 DEF Commit, RemoteInv, Awaits, MayClaim, TypeOK, poller, CounterChanged
<1>2. ASSUME NEW p \in Replicas, NotifyTaskClaimable(p) PROVE Coming(e.by, m)'
  BY <1>2 DEF NotifyTaskClaimable, TypeOK
<1>3. CASE BumpClaimNotifyCounter
  <2>1. Awaits(r, e.row) /\ poll'[r] = poll[r] /\ e \in queue
    BY <1>3 DEF BumpClaimNotifyCounter, Awaits, MayClaim
  <2>2. counter' = counter + 1 /\ last' = last
    BY <1>3, Zenon DEF BumpClaimNotifyCounter, poller
  <2>3. CASE last[m] = {}
    BY <2>2, <2>3
  <2>4. CASE last[m] # {}
    BY <1>0, <2>2, <2>4 DEF CounterChanged, TypeOK
  <2> QED BY <2>3, <2>4
<1>4. ASSUME NEW p \in Replicas, ReadBaseline(p) PROVE Coming(e.by, m)'
  <2>1. Awaits(r, e.row) /\ poll' = poll /\ e \in queue
    BY <1>4 DEF ReadBaseline, Awaits, MayClaim, database
  <2>2. ~degraded
    BY <1>4, Zenon DEF ReadBaseline
  <2>3. Coming(e.by, m)
    BY <2>1, <2>2 DEF RemoteInv
  <2>4. CASE m # p
    <3>1. last'[m] = last[m]
      BY <1>0, <1>4, <2>4 DEF ReadBaseline, TypeOK
    <3> QED BY <1>4, <2>3, <3>1 DEF ReadBaseline, database, CounterChanged
  <2>5. CASE m = p
    <3>1. last'[m] = {0}
      <4>1. last' = [last EXCEPT ![p] = {0}]
        BY <1>0, <1>4, <2>1, <2>5, Zenon DEF ReadBaseline, Awaits
      <4> QED BY <1>0, <2>5, <4>1 DEF TypeOK
    <3> QED BY <1>4, <2>1, <2>2, <3>1 DEF ReadBaseline, database, CounterChanged, CountedInv, TypeOK
  <2> QED BY <2>4, <2>5
<1>5. ASSUME NEW p \in Replicas, PollCounter(p) PROVE Coming(e.by, m)'
  <2>1. Awaits(r, e.row) /\ poll' = poll /\ e \in queue /\ ~degraded
    BY <1>5 DEF PollCounter, Awaits, MayClaim, database
  <2>2. Coming(e.by, m)
    BY <2>1 DEF RemoteInv
  <2> QED BY <1>0, <1>5, <2>2 DEF PollCounter, TypeOK, database, CounterChanged
<1>6. ASSUME NEW p \in Replicas, NotifyFromCounter(p) PROVE Coming(e.by, m)'
  <2>1. Notify(p) /\ e \in queue /\ ~degraded
    BY <1>6 DEF NotifyFromCounter, database
  <2>2. Awaits(r, e.row) /\ m \in poll[r].rep /\ m # p
    BY <1>0, <2>1, NotifyFacts DEF Awaits, MayClaim
  <2>3. Coming(e.by, m)
    BY <2>1, <2>2 DEF RemoteInv
  <2> QED BY <1>0, <1>6, <2>2, <2>3 DEF NotifyFromCounter, TypeOK, database, CounterChanged
<1>7. ASSUME NEW p \in Replicas, Restart(p) PROVE Coming(e.by, m)'
  <2>1. /\ poll' = [q \in Runners |-> IF poll[q].rep = {p} THEN Idle ELSE poll[q]]
        /\ e \in queue /\ committed' = [committed EXCEPT ![p] = 0]
        /\ last' = [last EXCEPT ![p] = {}] /\ seen' = [seen EXCEPT ![p] = FALSE]
        /\ counter' = counter
    BY <1>7 DEF Restart, database
  <2>2. ~degraded /\ ~(committed[p] > 0) /\ bumps' = bumps
    <3>1. PICK n \in 0..bumps : bumps' = n /\ degraded' = (degraded \/ committed[p] > 0 \/ n < bumps)
      BY <1>7 DEF Restart
    <3>2. ~degraded /\ ~(committed[p] > 0) /\ ~(n < bumps)
      BY <3>1, Zenon
    <3> QED BY <3>1, <3>2 DEF TypeOK
  <2>3. poll'[r] = poll[r] /\ m # p
    BY <1>0, <2>1 DEF Idle
  <2>4. Coming(e.by, m)
    BY <2>1, <2>2, <2>3 DEF RemoteInv, Awaits, MayClaim
  <2>5. CASE committed[e.by] > 0
    BY <1>0, <2>1, <2>2, <2>5 DEF TypeOK
  <2>6. CASE bumps > 0 \/ last[m] = {} \/ CounterChanged(m) \/ seen[m]
    BY <1>0, <2>1, <2>2, <2>3, <2>6 DEF TypeOK, CounterChanged
  <2> QED BY <2>4, <2>5, <2>6
<1>8. ASSUME UNCHANGED <<queue, poll, committed, bumps, counter, last, seen, degraded>>
      PROVE  Coming(e.by, m)'
  BY <1>8 DEF RemoteInv, Awaits, MayClaim, CounterChanged
<1>9. ASSUME NEW q \in Runners, Call(q) PROVE Coming(e.by, m)'
  BY <1>9, CallFacts DEF RemoteInv, CounterChanged
<1> QED
  BY <1>1, <1>2, <1>3, <1>4, <1>5, <1>6, <1>7, <1>8, <1>9
  DEF Next, Replica, Drain, RequestRunnerDrain, AckRunnerDrain, StartDrain, RunnerStarts, vars, poller, database

LEMMA CountedStep == WakeupInv /\ [Next]_vars => CountedInv'
<1> SUFFICES ASSUME TypeOK, CountedInv, TypeOK', [Next]_vars, NEW e \in queue', ~degraded'
             PROVE  committed'[e.by] > 0 \/ bumps' > 0 \/ counter' > 0
  BY TypeStep DEF WakeupInv, CountedInv
<1> DEFINE Counted == committed'[e.by] > 0 \/ bumps' > 0 \/ counter' > 0
<1>0. e.by \in Replicas
  BY DEF TypeOK, Entry
<1>1. ASSUME NEW p \in Replicas, NEW x \in Rows, Commit(p, x) PROVE Counted
  BY <1>0, <1>1 DEF Commit, CountedInv, TypeOK
<1>2. ASSUME NEW p \in Replicas, NotifyTaskClaimable(p) PROVE Counted
  BY <1>2 DEF NotifyTaskClaimable, TypeOK
<1>3. CASE BumpClaimNotifyCounter
  <2>1. counter' = counter + 1
    BY <1>3, Zenon DEF BumpClaimNotifyCounter
  <2> QED BY <2>1 DEF TypeOK
<1>4. ASSUME queue' \subseteq queue, ~degraded, UNCHANGED <<committed, bumps, counter>> PROVE Counted
  BY <1>4 DEF CountedInv
<1>5. ASSUME NEW p \in Replicas, ReadBaseline(p) PROVE Counted
  <2>1. ~degraded
    BY <1>5, Zenon DEF ReadBaseline
  <2> QED BY <1>4, <1>5, <2>1 DEF ReadBaseline, database
<1>6. ASSUME NEW p \in Replicas, PollCounter(p) \/ NotifyFromCounter(p) PROVE Counted
  BY <1>4, <1>6 DEF PollCounter, NotifyFromCounter, database
<1>7. ASSUME NEW p \in Replicas, Restart(p) PROVE Counted
  <2>1. PICK n \in 0..bumps : bumps' = n /\ degraded' = (degraded \/ committed[p] > 0 \/ n < bumps)
    BY <1>7 DEF Restart
  <2>2. ~degraded /\ ~(committed[p] > 0) /\ ~(n < bumps)
    BY <2>1, Zenon
  <2> QED BY <1>0, <1>7, <2>1, <2>2 DEF Restart, database, CountedInv, TypeOK
<1>8. ASSUME NEW r \in Runners, Call(r) PROVE Counted
  BY <1>4, <1>8, CallFacts
<1>9. ASSUME NEW r \in Runners, Drain(r) PROVE Counted
  BY <1>4, <1>9 DEF Drain, RequestRunnerDrain, AckRunnerDrain, StartDrain, RunnerStarts, database
<1>10. CASE UNCHANGED vars
  BY <1>4, <1>10 DEF vars
<1> QED BY <1>1, <1>2, <1>3, <1>5, <1>6, <1>7, <1>8, <1>9, <1>10 DEF Next, Replica

LEMMA WakeupCorrect == Spec => []WakeupInv
<1>1. WakeupInv /\ [Next]_vars => WakeupInv'
  BY TypeStep, LocalStep, RemoteStep, CountedStep DEF WakeupInv
<1> QED BY WakeupInit, <1>1, PTL DEF Spec

\* With any number of replicas, runners and rows, a ClaimTask call never sleeps
\* through the notification of its own process (claim_notifier.go): the
\* channel is taken before the look at the queue.
THEOREM NoLocalWakeupLost == Spec => []LocalWakeup
<1>1. WakeupInv => LocalWakeup
  BY DEF WakeupInv, LocalInv, LocalWakeup, Awaits, Asleep
<1> QED BY WakeupCorrect, <1>1, PTL

\* A notification of another process is on its way through the counter
\* (coordination.go), unless a bump failed, a replica died or a baseline
\* swallowed it.
THEOREM NoRemoteWakeupLost == Spec => []RemoteWakeup
<1>1. WakeupInv => RemoteWakeup
  BY DEF WakeupInv, RemoteInv, RemoteWakeup, Awaits, Asleep
<1> QED BY WakeupCorrect, <1>1, PTL
===========================================================================
