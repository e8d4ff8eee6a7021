----------------------------- MODULE DurableWork -----------------------------
(***************************************************************************)
(* What a durable work table of the control plane promises: an accepted    *)
(* item is never forgotten, its effect is not repeated where the effect is *)
(* keyed by the item, and it is reopened only as the table allows.  The    *)
(* callback outbox and the inbound inbox both implement it; how rows are   *)
(* leased, retried and recorded by competing replicas is their affair.     *)
(***************************************************************************)
EXTENDS Naturals

CONSTANTS
  Items,
  Once,      \* items whose effect is created under a key derived from the item
  Ignorable, \* items that may be done without an effect
  Fenced     \* a worker that lost its lease can no longer record an outcome

VARIABLES
  phase,   \* absent, open, done, failed or gone
  effects  \* how often the effect of an item took place

vars == <<phase, effects>>

Init ==
  /\ phase = [i \in Items |-> "absent"]
  /\ effects = [i \in Items |-> 0]

To(i, p) == phase' = [phase EXCEPT ![i] = p] /\ effects' = effects

\* The item is accepted, or refused for good on the spot.
Enqueue(i) == phase[i] = "absent" /\ (To(i, "open") \/ To(i, "failed"))

TakeEffect(i) ==
  /\ phase[i] # "absent"
  /\ i \in Once => effects[i] = 0
  /\ effects' = [effects EXCEPT ![i] = @ + 1]
  /\ phase' = phase

Finish(i) ==
  /\ phase[i] = "open"
  /\ i \in Ignorable \/ effects[i] > 0
  /\ To(i, "done")

Fail(i) == phase[i] = "open" /\ To(i, "failed")

\* An operator retries a failed item.
Reopen(i) == phase[i] = "failed" /\ To(i, "open")

\* Retention.
Purge(i) == phase[i] \in {"done", "failed"} /\ To(i, "gone")

\* Without a fence a late record replaces the outcome of another worker.
LateRecord(i) ==
  /\ ~Fenced
  /\ phase[i] \in {"done", "failed"}
  /\ \E p \in {"open", "done", "failed"} : To(i, p)

Next ==
  \E i \in Items :
    \/ Enqueue(i) \/ TakeEffect(i) \/ Finish(i) \/ Fail(i)
    \/ Reopen(i) \/ Purge(i) \/ LateRecord(i)

Spec == Init /\ [][Next]_vars
=============================================================================
