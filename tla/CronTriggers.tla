---------------------------- MODULE CronTriggers ----------------------------
(***************************************************************************)
(* One cron trigger, by name: its row, which the API and the sync of the   *)
(* definitions repository both write, the in-memory cron registry of every *)
(* replica, and the run of a due instant under the row lock of             *)
(* trigger_locks.  The task of an instant is committed in a transaction of *)
(* its own, before the marker that claims the instant.                     *)
(***************************************************************************)
EXTENDS Naturals

CONSTANTS
  Replicas,   \* the server processes
  NoReplica,
  Definitions, \* the definitions the repository may hold
  MaxTime,    \* bound: instants of the schedule
  MaxDrafts,  \* bound: triggers created through the API
  MaxEdits,   \* bound: changes of the definition and of the row's enabled flag
  MaxCrashes  \* bound: crashes

\* enabled, and adopt, which lets the definition take over a draft.
Definition == [on : BOOLEAN, adopt : BOOLEAN]

ASSUME TriggerAssumption ==
  /\ Definitions \subseteq Definition
  /\ NoReplica \notin Replicas
  /\ MaxTime \in Nat /\ MaxDrafts \in Nat /\ MaxEdits \in Nat /\ MaxCrashes \in Nat

VARIABLES
  now,      \* the last due instant of the schedule
  def,      \* the definition at the head of the repository, if any
  row,      \* the row of the triggers table, if any
  marker,   \* last_triggered_at in trigger_locks, by trigger id
  lock,     \* the holder of the row lock, by trigger id
  up,       \* the replicas that run
  reg,      \* reg[r]: the trigger ids in the cron registry of r
  ticked,   \* ticked[r]: the last instant the cron of r has seen
  run,      \* run[r]: the trigger run of r, if any
  sync,     \* sync[r]: the definitions sync of r, if any
  fired,    \* history: tasks submitted, by trigger id and instant
  lost,     \* history: those whose marker was not committed
  drafts, edits, crashes  \* counters of the bounds

rows == <<def, row, drafts, edits>>
locks == <<marker, lock, fired, lost>>
procs == <<up, reg, ticked, crashes>>
vars == <<now, rows, locks, procs, run, sync>>

\* The id derived from source and name is 0, ids of drafts are random.
Ids == 0 .. MaxDrafts
Never == 0
Instants == 1 .. MaxTime

\* What the repository may hold.
Heads == {{}} \cup {{d} : d \in Definitions}
Trigger == [id : Ids, managed : BOOLEAN, on : BOOLEAN]

\* live: the trigger was enabled at some moment since the tick (history).
Run == [pc : {"started", "checked", "locked", "submitted"}, id : Ids, at : Instants,
        live : BOOLEAN]
Sync == [pc : {"fetched", "listed", "stored"}, def : SUBSET Definition, seen : SUBSET Trigger]

TypeOK ==
  /\ now \in 0 .. MaxTime
  /\ def \in SUBSET Definition /\ row \in SUBSET Trigger
  /\ marker \in [Ids -> 0 .. MaxTime]
  /\ lock \in [Ids -> Replicas \cup {NoReplica}]
  /\ up \subseteq Replicas /\ reg \in [Replicas -> SUBSET Ids]
  /\ ticked \in [Replicas -> 0 .. MaxTime]
  /\ run \in [Replicas -> SUBSET Run] /\ sync \in [Replicas -> SUBSET Sync]
  /\ fired \in [Ids \X Instants -> Nat] /\ lost \in [Ids \X Instants -> Nat]
  /\ drafts \in 0 .. MaxDrafts /\ edits \in 0 .. MaxEdits /\ crashes \in 0 .. MaxCrashes

Init ==
  /\ now = 0 /\ def \in Heads /\ row = {}
  /\ marker = [i \in Ids |-> Never] /\ lock = [i \in Ids |-> NoReplica]
  /\ up = Replicas /\ reg = [r \in Replicas |-> {}] /\ ticked = [r \in Replicas |-> 0]
  /\ run = [r \in Replicas |-> {}] /\ sync = [r \in Replicas |-> {}]
  /\ fired = [c \in Ids \X Instants |-> 0] /\ lost = [c \in Ids \X Instants |-> 0]
  /\ drafts = 0 /\ edits = 0 /\ crashes = 0

\* A row that is written enabled makes the runs of its id live.
Noted(new) ==
  [r \in Replicas |-> {[g EXCEPT !.live = @ \/ \E t \in new : t.id = g.id /\ t.on] : g \in run[r]}]
-----------------------------------------------------------------------------
(***************************************************************************)
(* The run of a due instant.                                               *)
(***************************************************************************)

\* robfig/cron runs the entry of i at the instant; runs of a trigger are
\* shorter than its interval (triggerRunTimeout).
Tick(r, i) ==
  /\ r \in up /\ i \in reg[r] /\ ticked[r] < now /\ run[r] = {}
  /\ ticked' = [ticked EXCEPT ![r] = now]
  /\ run' = [run EXCEPT ![r] = {[pc |-> "started", id |-> i, at |-> now,
                                 live |-> \E t \in row : t.id = i /\ t.on]}]
  /\ UNCHANGED <<now, rows, locks, up, reg, crashes, sync>>

Goes(r, g, pc) == run' = [run EXCEPT ![r] = {[g EXCEPT !.pc = pc]}]
Ends(r) == run' = [run EXCEPT ![r] = {}]

\* Mutant of CheckTrigger: the flag persisted by another replica is not read.
CheckTriggerExists(r, g) ==
  /\ g.pc = "started"
  /\ \/ (\E t \in row : t.id = g.id) /\ Goes(r, g, "checked")
     \/ Ends(r)
  /\ UNCHANGED <<now, rows, locks, procs, sync>>

\* GetTriggerByID and the enabled flag; a missing row or an error ends the run.
CheckTrigger(r, g) ==
  /\ g.pc = "started"
  /\ \/ (\E t \in row : t.id = g.id /\ t.on) /\ Goes(r, g, "checked")
     \/ Ends(r)
  /\ UNCHANGED <<now, rows, locks, procs, sync>>

NextInstant(t) == t + 1

\* Mutant of Claimed: only the instant itself counts as claimed.
ClaimedSame(g) == marker[g.id] = g.at

\* Some replica has claimed the instant, or a later one.
Claimed(g) == marker[g.id] # Never /\ g.at < NextInstant(marker[g.id])

\* acquireTriggerLock waits for the row lock, then compares the marker.
AcquireTriggerLock(r, g) ==
  /\ g.pc = "checked" /\ lock[g.id] = NoReplica
  /\ IF Claimed(g)
     THEN Ends(r) /\ lock' = lock
     ELSE Goes(r, g, "locked") /\ lock' = [lock EXCEPT ![g.id] = r]
  /\ UNCHANGED <<now, rows, marker, fired, lost, procs, sync>>

\* The lock wait times out, or the statement fails.
LockNotAcquired(r, g) ==
  /\ g.pc = "checked"
  /\ Ends(r)
  /\ UNCHANGED <<now, rows, locks, procs, sync>>

Counted(f, g) == [f EXCEPT ![<<g.id, g.at>>] = @ + 1]
Unlocked(r) == [i \in Ids |-> IF lock[i] = r THEN NoReplica ELSE lock[i]]

SubmitTriggerTask(r, g) ==
  /\ g.pc = "locked"
  /\ fired' = Counted(fired, g)
  /\ Goes(r, g, "submitted")
  /\ UNCHANGED <<now, rows, marker, lock, lost, procs, sync>>

\* An error rolls the marker back, also one after the task was committed
\* (a lost answer, SetTriggerNextRun).
SubmitFails(r, g, committed) ==
  /\ g.pc = "locked"
  /\ fired' = IF committed THEN Counted(fired, g) ELSE fired
  /\ lost' = IF committed THEN Counted(lost, g) ELSE lost
  /\ lock' = Unlocked(r) /\ Ends(r)
  /\ UNCHANGED <<now, rows, marker, procs, sync>>

\* Mutant of FinishInterval: the deferred rollback comes before the commit.
FinishIntervalRolledBack(r, g) ==
  /\ g.pc = "submitted"
  /\ lock' = Unlocked(r) /\ Ends(r)
  /\ UNCHANGED <<now, rows, marker, fired, lost, procs, sync>>

FinishInterval(r, g) ==
  /\ g.pc = "submitted"
  /\ marker' = [marker EXCEPT ![g.id] = g.at]
  /\ lock' = Unlocked(r) /\ Ends(r)
  /\ UNCHANGED <<now, rows, fired, lost, procs, sync>>

\* The commit fails; the rollback of the run's context has the same effect.
FinishFails(r, g) ==
  /\ g.pc = "submitted"
  /\ lost' = Counted(lost, g)
  /\ lock' = Unlocked(r) /\ Ends(r)
  /\ UNCHANGED <<now, rows, marker, fired, procs, sync>>

RunTrigger(r, g) ==
  \/ CheckTrigger(r, g) \/ AcquireTriggerLock(r, g) \/ LockNotAcquired(r, g)
  \/ SubmitTriggerTask(r, g) \/ FinishInterval(r, g) \/ FinishFails(r, g)
  \/ \E committed \in BOOLEAN : SubmitFails(r, g, committed)
-----------------------------------------------------------------------------
(***************************************************************************)
(* The API.  It changes the registry of the replica that serves the call.  *)
(***************************************************************************)

Registered(r, S) == reg' = [reg EXCEPT ![r] = S]

CreateTrigger(r) ==
  /\ r \in up /\ row = {} /\ drafts < MaxDrafts
  /\ drafts' = drafts + 1
  /\ row' = {[id |-> drafts + 1, managed |-> FALSE, on |-> TRUE]}
  /\ Registered(r, reg[r] \cup {drafts + 1})
  /\ run' = Noted(row')
  /\ UNCHANGED <<now, def, edits, locks, up, ticked, crashes, sync>>

UpdateTrigger(r, t, on) ==
  /\ r \in up /\ edits < MaxEdits
  /\ edits' = edits + 1
  /\ row' = {[t EXCEPT !.on = on]}
  /\ Registered(r, IF on THEN reg[r] \cup {t.id} ELSE reg[r] \ {t.id})
  /\ run' = Noted(row')
  /\ UNCHANGED <<now, def, drafts, locks, up, ticked, crashes, sync>>

DeleteTrigger(r, t) ==
  /\ r \in up /\ edits < MaxEdits
  /\ edits' = edits + 1
  /\ row' = {}
  /\ Registered(r, reg[r] \ {t.id})
  /\ UNCHANGED <<now, def, drafts, locks, up, ticked, crashes, run, sync>>
-----------------------------------------------------------------------------
(***************************************************************************)
(* The sync of the definitions repository, on every replica.               *)
(***************************************************************************)

EditDefinition(d) ==
  /\ edits < MaxEdits /\ d # def
  /\ edits' = edits + 1 /\ def' = d
  /\ UNCHANGED <<now, row, drafts, locks, procs, run, sync>>

SyncFetch(r) ==
  /\ r \in up /\ sync[r] = {}
  /\ sync' = [sync EXCEPT ![r] = {[pc |-> "fetched", def |-> def, seen |-> {}]}]
  /\ UNCHANGED <<now, rows, locks, procs, run>>

Refused(s) == \E d \in s.def, t \in row : ~t.managed /\ ~d.adopt

\* ListTriggers and checkTriggerAdoption.
SyncList(r, s) ==
  /\ s.pc = "fetched"
  /\ sync' = [sync EXCEPT ![r] = IF Refused(s) THEN {}
                                 ELSE {[s EXCEPT !.pc = "listed", !.seen = row]}]
  /\ UNCHANGED <<now, rows, locks, procs, run>>

\* The transaction: delete by name if the list showed a managed row, else the
\* upsert by name, which keeps the id of the row that is there.
Stored(s) ==
  IF s.def = {}
  THEN IF \E t \in s.seen : t.managed THEN {} ELSE row
  ELSE {[id |-> IF row = {} THEN 0 ELSE t.id, managed |-> TRUE, on |-> d.on] :
          d \in s.def, t \in IF row = {} THEN {[id |-> 0]} ELSE row}

SyncStore(r, s) ==
  /\ s.pc = "listed"
  /\ row' = Stored(s)
  /\ run' = Noted(row')
  /\ sync' = [sync EXCEPT ![r] = {[s EXCEPT !.pc = "stored"]}]
  /\ UNCHANGED <<now, def, drafts, edits, locks, procs>>

\* Mutant of SyncActivate: only a trigger the sync created is registered.
SyncActivateCreated(r, s) ==
  /\ s.pc = "stored"
  /\ Registered(r, IF s.seen = {} THEN {t.id : t \in {t \in row : \E d \in s.def : d.on}} ELSE reg[r])
  /\ sync' = [sync EXCEPT ![r] = {}]
  /\ UNCHANGED <<now, rows, locks, up, ticked, crashes, run>>

\* reconcileSyncedCronEntries drops what the list showed as managed and is no
\* longer wanted; activateTriggerEntries registers the row of an enabled one.
SyncActivate(r, s) ==
  LET dropped == {t.id : t \in {t \in s.seen : t.managed /\ \A d \in s.def : ~d.on}}
      added == {t.id : t \in {t \in row : \E d \in s.def : d.on}}
  IN  /\ s.pc = "stored"
      /\ Registered(r, (reg[r] \ dropped) \cup added)
      /\ sync' = [sync EXCEPT ![r] = {}]
      /\ UNCHANGED <<now, rows, locks, up, ticked, crashes, run>>

\* The repository or the database fails.
SyncFails(r) ==
  /\ sync[r] # {}
  /\ sync' = [sync EXCEPT ![r] = {}]
  /\ UNCHANGED <<now, rows, locks, procs, run>>
-----------------------------------------------------------------------------
(***************************************************************************)
(* Time, crashes and restarts.                                             *)
(***************************************************************************)

Advance ==
  /\ now < MaxTime
  /\ now' = now + 1
  /\ UNCHANGED <<rows, locks, procs, run, sync>>

\* A crash rolls back the open transaction of the lock.
Crash(r) ==
  /\ r \in up /\ crashes < MaxCrashes
  /\ crashes' = crashes + 1
  /\ up' = up \ {r} /\ Registered(r, {}) /\ ticked' = ticked
  /\ lock' = Unlocked(r)
  /\ lost' = [c \in DOMAIN lost |->
                IF \E g \in run[r] : g.pc = "submitted" /\ c = <<g.id, g.at>>
                THEN lost[c] + 1 ELSE lost[c]]
  /\ Ends(r) /\ sync' = [sync EXCEPT ![r] = {}]
  /\ UNCHANGED <<now, rows, marker, fired>>

\* loadTriggers; instants passed while the process was down are not made up.
Start(r) ==
  /\ r \notin up
  /\ up' = up \cup {r}
  /\ Registered(r, {t.id : t \in {t \in row : t.on}})
  /\ ticked' = [ticked EXCEPT ![r] = now]
  /\ UNCHANGED <<now, rows, locks, crashes, run, sync>>
-----------------------------------------------------------------------------
SyncDefinitions(r) ==
  SyncFetch(r) \/ \E s \in sync[r] : SyncList(r, s) \/ SyncStore(r, s) \/ SyncActivate(r, s)

Next ==
  \/ Advance
  \/ \E d \in Heads : EditDefinition(d)
  \/ \E r \in Replicas :
       \/ \E i \in Ids : Tick(r, i)
       \/ \E g \in run[r] : RunTrigger(r, g)
       \/ CreateTrigger(r)
       \/ \E t \in row : DeleteTrigger(r, t) \/ \E on \in BOOLEAN : UpdateTrigger(r, t, on)
       \/ SyncDefinitions(r) \/ SyncFails(r) \/ Crash(r) \/ Start(r)

Spec == Init /\ [][Next]_vars

\* Every replica syncs at its interval and a crashed one is restarted; a sync
\* does not fail for ever.
FairSpec ==
  /\ Spec
  /\ \A r \in Replicas :
       /\ WF_vars(SyncFetch(r)) /\ WF_vars(Start(r))
       /\ SF_vars(\E s \in sync[r] : SyncList(r, s))
       /\ SF_vars(\E s \in sync[r] : SyncStore(r, s))
       /\ SF_vars(\E s \in sync[r] : SyncActivate(r, s))
-----------------------------------------------------------------------------
(***************************************************************************)
(* Properties.                                                             *)
(***************************************************************************)

\* However many replicas see an instant, late or waiting for the lock, a
\* second task of it follows only on a marker that was not committed.
RepeatsOnlyAfterLostMarker ==
  \A c \in DOMAIN fired : fired[c] <= 1 + lost[c]

\* A run that waited for the lock past its instant, while another replica ran
\* a later one, does not turn the marker back (acquireTriggerLock).
MarkerNeverReturns == [][\A i \in Ids : marker'[i] >= marker[i]]_vars

\* Disabling or deleting a trigger on one replica stops the others at their
\* next tick: a task is submitted only if the trigger was enabled at some
\* moment since the tick (runTrigger re-reads the flag).
DisableReachesAllReplicas ==
  [][\A r \in Replicas : \A g \in run[r] :
        fired'[<<g.id, g.at>>] > fired[<<g.id, g.at>>] =>
          \E h \in Replicas : \E k \in run[h] : k.id = g.id /\ k.at = g.at /\ k.live]_vars

Applied ==
  /\ def = {} => \A t \in row : ~t.managed
  /\ \A d \in def : \/ row # {} /\ \A t \in row : t.managed /\ t.on = d.on
                    \/ ~d.adopt /\ \E t \in row : ~t.managed

Scheduled == \A r \in Replicas, t \in row : (t.managed /\ t.on) => t.id \in reg[r]

\* Once nobody edits any more, the table shows the definition, whichever
\* replica with whichever older checkout stored last, and every replica
\* schedules the managed trigger if it is enabled.
DefinitionsConverge == <>[](Applied /\ Scheduled)
=============================================================================
