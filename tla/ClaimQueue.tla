---------------------------- MODULE ClaimQueue ----------------------------
(***************************************************************************)
(* How queued work reaches idle runners: the ClaimTask long poll           *)
(* (internal/service/runner_rpc.go), the notifier that wakes the polls of  *)
(* a server process (claim_notifier.go), and the claim_notify_counter row  *)
(* that carries a wake-up to the other processes (coordination.go).        *)
(*                                                                         *)
(* What a claim writes is the subject of TaskLifecycle; here a row is      *)
(* queued once and claimed once, in the order of created_at.               *)
(***************************************************************************)
EXTENDS Naturals, FiniteSets

CONSTANTS
  Rows,         \* claimable execution attempts
  Runners,      \* each keeps one ClaimTask call open
  Replicas,     \* the server processes
  Pinned,       \* the rows with a required_runner_id (or isolation only one runner has)
  PinnedTo,     \* PinnedTo[x]: the runner that may claim the pinned row x
  MaxFaults     \* bound: restarts of a server process, drains of a runner

ASSUME ConstantsAssumption ==
  /\ Pinned \subseteq Rows
  /\ PinnedTo \in [Pinned -> Runners]
  /\ MaxFaults \in Nat

VARIABLES
  queue,      \* the pending rows, with their created_at and the replica that committed them
  used,       \* the rows that were queued so far
  poll,       \* poll[r]: the ClaimTask call of runner r
  committed,  \* committed[p]: rows p committed and has not notified about yet
  bumps,      \* bumpClaimNotifyCounter goroutines under way
  counter,    \* claim_notify_counter
  last,       \* last[p]: {the counter as the poller of p saw it}, {} before it looked
  seen,       \* seen[p]: the poller of p saw a change and has not notified yet
  drain,      \* runner_drain_requests
  draining,   \* the runners whose claimLoop has ended, or ends with its open call
  spent,      \* how many of them there were
  degraded    \* history: a wake-up between replicas was lost

vars == <<queue, used, poll, committed, bumps, counter, last, seen, drain, draining, spent, degraded>>

poller == <<last, seen>>
spending == <<draining, spent>>
database == <<queue, used, counter, drain>>

Idle == [at |-> "idle", rep |-> {}, open |-> FALSE, row |-> {}, blind |-> {}]

\* A call, at replica rep.  open: the channel of its snapshot is not closed.
\* row: what its transaction has locked.  blind: the rows that its look at the
\* queue could not see.
PollType == [at : {"polling", "claiming", "empty", "waiting"}, rep : {{p} : p \in Replicas},
             open : BOOLEAN, row : SUBSET Rows, blind : SUBSET Rows]

Entry == [row : Rows, by : Replicas, created : Nat]

\* Every part of the state has its type, and no row is locked by two claims.
TypeOK ==
  /\ queue \subseteq Entry
  /\ \A r, q \in Runners : r # q => poll[r].row \cap poll[q].row = {}
  /\ used \subseteq Rows /\ IsFiniteSet(used)
  /\ poll \in [Runners -> PollType \cup {Idle}]
  /\ committed \in [Replicas -> Nat]
  /\ bumps \in Nat /\ counter \in Nat
  /\ last \in [Replicas -> SUBSET (0..counter)]
  /\ seen \in [Replicas -> BOOLEAN]
  /\ drain \subseteq Runners /\ draining \subseteq Runners
  /\ spent \in 0..MaxFaults
  /\ degraded \in BOOLEAN

Init ==
  /\ queue = {} /\ used = {}
  /\ poll = [r \in Runners |-> Idle]
  /\ committed = [p \in Replicas |-> 0]
  /\ bumps = 0 /\ counter = 0
  /\ last = [p \in Replicas |-> {}]
  /\ seen = [p \in Replicas |-> FALSE]
  /\ drain = {} /\ draining = {}
  /\ spent = 0
  /\ degraded = FALSE
-----------------------------------------------------------------------------
(***************************************************************************)
(* Work becomes claimable on replica p: submit, rerun, recover, resume,    *)
(* requeue.  The notification follows the commit.                          *)
(***************************************************************************)
Commit(p, x) ==
  /\ x \notin used
  /\ used' = used \cup {x}
  /\ queue' = queue \cup {[row |-> x, by |-> p, created |-> Cardinality(used)]}
  /\ committed' = [committed EXCEPT ![p] = @ + 1]
  /\ UNCHANGED <<poll, bumps, counter, poller, drain, spending, degraded>>

\* notify: the channel of every snapshot taken so far at p is closed.
Notify(p) ==
  poll' = [r \in Runners |-> IF poll[r].rep = {p} THEN [poll[r] EXCEPT !.open = FALSE] ELSE poll[r]]

NotifyTaskClaimable(p) ==
  /\ committed[p] > 0
  /\ committed' = [committed EXCEPT ![p] = @ - 1]
  /\ Notify(p)
  /\ bumps' = bumps + 1
  /\ UNCHANGED <<database, poller, spending, degraded>>

\* A bump of its own goroutine, with 5 s to do it.
BumpClaimNotifyCounter ==
  /\ bumps > 0
  /\ bumps' = bumps - 1
  /\ \/ counter' = counter + 1 /\ UNCHANGED degraded
     \/ UNCHANGED counter /\ degraded' = TRUE
  /\ UNCHANGED <<queue, used, poll, committed, poller, drain, spending>>
-----------------------------------------------------------------------------
(***************************************************************************)
(* pollClaimNotifications of replica p.                                    *)
(***************************************************************************)

\* The first read is the baseline: what was bumped before is absorbed, also
\* when a call has been waiting at p since before the bump.  If it fails, the
\* baseline is 0.
ReadBaseline(p) ==
  /\ last[p] = {}
  /\ \/ /\ last' = [last EXCEPT ![p] = {counter}]
        /\ degraded' = (degraded \/ \E r \in Runners : poll[r].rep = {p} /\ poll[r].at \in {"empty", "waiting"})
     \/ /\ last' = [last EXCEPT ![p] = {0}]
        /\ UNCHANGED degraded
  /\ UNCHANGED <<database, poll, committed, bumps, seen, spending>>

\* Mutant of CounterChanged: a baseline of 0 is taken for none.
CounterChangedNonzero(p) == \E n \in last[p] : n # 0 /\ counter # n

CounterChanged(p) == \E n \in last[p] : counter # n

PollCounter(p) ==
  /\ CounterChanged(p) /\ ~seen[p]
  /\ last' = [last EXCEPT ![p] = {counter}]
  /\ seen' = [seen EXCEPT ![p] = TRUE]
  /\ UNCHANGED <<database, poll, committed, bumps, spending, degraded>>

NotifyFromCounter(p) ==
  /\ seen[p]
  /\ seen' = [seen EXCEPT ![p] = FALSE]
  /\ Notify(p)
  /\ UNCHANGED <<database, committed, bumps, last, spending, degraded>>
-----------------------------------------------------------------------------
(***************************************************************************)
(* ClaimTask of runner r: snapshot the channel, look at the queue, wait.   *)
(***************************************************************************)
\* Rows that a claim transaction under way holds.
Locked == UNION {poll[r].row : r \in Runners}

MayClaim(r, x) == x \in Pinned => PinnedTo[x] = r

Visible(r) == {e \in queue : MayClaim(r, e.row) /\ e.row \notin Locked}

\* A call arrives at replica p, or a waiting one goes round its loop.
Snapshot(r, p) ==
  poll' = [poll EXCEPT ![r] = [at |-> "polling", rep |-> {p}, open |-> TRUE, row |-> {}, blind |-> {}]]

\* claimLoop calls unless the runner drains.
ClaimTask(r, p) ==
  /\ poll[r].at = "idle" /\ r \notin draining
  /\ Snapshot(r, p)
  /\ UNCHANGED <<database, committed, bumps, poller, spending, degraded>>

FoundNothing(r, unseen) ==
  poll' = [poll EXCEPT ![r].at = "empty", ![r].blind = unseen]

\* claimOnce, up to its lock: the oldest row that it may claim, SKIP LOCKED.
\* The drain gate before it answers a runner without looking at the queue; it
\* is read before the lock and lets the claim pass when the read fails, so it
\* may let a drained runner through.
ClaimOnce(r) ==
  /\ poll[r].at = "polling"
  /\ \/ \E e \in Visible(r) :
          /\ \A f \in Visible(r) : e.created <= f.created
          /\ poll' = [poll EXCEPT ![r].at = "claiming", ![r].row = {e.row}]
     \/ Visible(r) = {} /\ FoundNothing(r, Locked)
     \/ r \in drain /\ FoundNothing(r, {e.row : e \in queue})
  /\ UNCHANGED <<database, committed, bumps, poller, spending, degraded>>

ClaimCommits(r) ==
  /\ poll[r].at = "claiming"
  /\ queue' = {e \in queue : e.row \notin poll[r].row}
  /\ poll' = [poll EXCEPT ![r] = Idle]
  /\ UNCHANGED <<used, counter, drain, committed, bumps, poller, spending, degraded>>

\* The transaction fails: the call returns an error, the row is free again.
ClaimRollsBack(r) ==
  /\ poll[r].at = "claiming"
  /\ poll' = [poll EXCEPT ![r] = Idle]
  /\ UNCHANGED <<database, committed, bumps, poller, spending, degraded>>

\* Mutant of WaitChannel: the channel is fetched after the look at the queue.
WaitChannelLate(r) == TRUE

\* The channel an empty-handed call waits on: the one of its snapshot.
WaitChannel(r) == poll[r].open

ClaimWaits(r) ==
  /\ poll[r].at = "empty"
  /\ poll' = [poll EXCEPT ![r].at = "waiting", ![r].open = WaitChannel(r)]
  /\ UNCHANGED <<database, committed, bumps, poller, spending, degraded>>

\* Mutant of Wake: no safety net, a call waits until it is notified.
WakeNotified(r) ==
  /\ poll[r].at = "waiting" /\ ~poll[r].open
  /\ \E p \in poll[r].rep : Snapshot(r, p)
  /\ UNCHANGED <<database, committed, bumps, poller, spending, degraded>>

\* The channel the call waits on was closed, or claimPollInterval is over.
Wake(r) ==
  /\ poll[r].at = "waiting"
  /\ \E p \in poll[r].rep : Snapshot(r, p)
  /\ UNCHANGED <<database, committed, bumps, poller, spending, degraded>>

\* A query fails, the deadline of the call is over, or the runner is gone.
ClaimReturnsEmpty(r) ==
  /\ poll[r].at \in {"polling", "empty", "waiting"}
  /\ poll' = [poll EXCEPT ![r] = Idle]
  /\ UNCHANGED <<database, committed, bumps, poller, spending, degraded>>
-----------------------------------------------------------------------------
(***************************************************************************)
(* Drains and restarts.                                                    *)
(***************************************************************************)
RequestRunnerDrain(r) ==
  /\ spent < MaxFaults /\ r \notin drain
  /\ drain' = drain \cup {r}
  /\ spent' = spent + 1
  /\ UNCHANGED <<queue, used, counter, poll, committed, bumps, poller, draining, degraded>>

\* ackRunnerDrainDB by a draining heartbeat, or reapStaleRunnerDrains.
AckRunnerDrain(r) ==
  /\ r \in drain
  /\ drain' = drain \ {r}
  /\ UNCHANGED <<queue, used, counter, poll, committed, bumps, poller, spending, degraded>>

\* startDrain, by the answer to a heartbeat or by a signal: nothing but the end
\* of the process takes it back.  A call that is open goes on.
StartDrain(r) ==
  /\ r \notin draining
  /\ draining' = draining \cup {r}
  /\ \/ r \in drain /\ UNCHANGED spent
     \/ spent < MaxFaults /\ spent' = spent + 1
  /\ UNCHANGED <<database, poll, committed, bumps, poller, degraded>>

\* The drained process is gone and its successor starts to claim.
RunnerStarts(r) ==
  /\ r \in draining /\ poll[r].at = "idle"
  /\ draining' = draining \ {r}
  /\ UNCHANGED <<database, poll, committed, bumps, poller, spent, degraded>>

\* Calls at p break, and so do notifications p still owed the others.  (The
\* goroutines that bump the counter are counted for all replicas together: of
\* those of p any number may be lost.)
Restart(p) ==
  /\ spent < MaxFaults
  /\ spent' = spent + 1
  /\ poll' = [r \in Runners |->
       IF poll[r].rep = {p} THEN Idle ELSE poll[r]]
  /\ \E n \in 0..bumps : bumps' = n /\ degraded' = (degraded \/ committed[p] > 0 \/ n < bumps)
  /\ committed' = [committed EXCEPT ![p] = 0]
  /\ last' = [last EXCEPT ![p] = {}]
  /\ seen' = [seen EXCEPT ![p] = FALSE]
  /\ UNCHANGED <<database, draining>>
-----------------------------------------------------------------------------
Replica(p) ==
  \/ \E x \in Rows : Commit(p, x)
  \/ NotifyTaskClaimable(p)
  \/ ReadBaseline(p)
  \/ PollCounter(p)
  \/ NotifyFromCounter(p)
  \/ Restart(p)

Call(r) ==
  \/ \E p \in Replicas : ClaimTask(r, p)
  \/ ClaimOnce(r)
  \/ ClaimCommits(r)
  \/ ClaimRollsBack(r)
  \/ ClaimWaits(r)
  \/ Wake(r)
  \/ ClaimReturnsEmpty(r)

Drain(r) ==
  \/ RequestRunnerDrain(r)
  \/ AckRunnerDrain(r)
  \/ StartDrain(r)
  \/ RunnerStarts(r)

Next ==
  \/ \E p \in Replicas : Replica(p)
  \/ BumpClaimNotifyCounter
  \/ \E r \in Runners : Call(r) \/ Drain(r)

Spec == Init /\ [][Next]_vars

(***************************************************************************)
(* A runner that is not draining calls again when a call returns (it gets  *)
(* a slot, and its host is not under pressure for ever); a waiting call    *)
(* goes round by claimPollInterval; drain requests are acknowledged or     *)
(* reaped; queries and claims that are tried again and again succeed some  *)
(* time.  Nothing makes a drained runner start again.                      *)
(***************************************************************************)
Fairness ==
  \A r \in Runners :
    /\ WF_vars((\E p \in Replicas : ClaimTask(r, p)) \/ ClaimWaits(r) \/ Wake(r))
    /\ SF_vars(ClaimOnce(r))
    /\ SF_vars(ClaimCommits(r))
    /\ WF_vars(AckRunnerDrain(r))

FairSpec == Spec /\ Fairness
-----------------------------------------------------------------------------
\* Runner r waits on a channel nobody has closed, and could claim row x.
Asleep(r, x) ==
  /\ poll[r].at = "waiting"
  /\ poll[r].open
  /\ MayClaim(r, x)
  /\ x \notin poll[r].blind

\* No wake-up is lost inside a process: when a call sleeps although work it
\* may claim was committed by its own replica, the notification is still to
\* come.  It rests on the order of snapshot, look and wait in ClaimTask, for
\* calls that loop, restarts and any number of notifications.
LocalWakeup ==
  \A r \in Runners, e \in queue :
    Asleep(r, e.row) /\ e.by \in poll[r].rep => committed[e.by] > 0

\* Between processes, as long as no bump failed or was absorbed by a baseline:
\* the notification is on its way in one of its five stages.
RemoteWakeup ==
  \A r \in Runners, e \in queue : \A p \in poll[r].rep :
    Asleep(r, e.row) /\ ~degraded =>
      committed[e.by] > 0 \/ bumps > 0 \/ last[p] = {} \/ CounterChanged(p) \/ seen[p]

\* Whatever is lost, and whoever else claims first, every queued row is claimed
\* in the end, unless all the runners that may claim it are draining (their
\* claimLoop does not call again).
EveryRowClaimed ==
  \A x \in Rows : (\E e \in queue : e.row = x) ~>
    \/ \A e \in queue : e.row # x
    \/ \A r \in Runners : MayClaim(r, x) => r \in draining
===========================================================================
