---------------------------- MODULE OrderedQueue ----------------------------
(***************************************************************************)
(* The abstract specification of the event bus: each operation of          *)
(* runtime/events.go as one step on a set of pending events.  A consumer   *)
(* sees the last delivered event in `delivered`.                           *)
(***************************************************************************)
EXTENDS EventQueue

CONSTANTS
  Payloads,     \* [kind, owner, control, service] records callers enqueue
  Times,        \* virtual timestamps
  MaxSequence,  \* bound on the number of events ever enqueued
  None          \* nothing delivered yet

VARIABLES pending, nextSequence, delivered, saved

queueVars == <<pending, nextSequence, delivered, saved>>

Stamp(payload, at, sequence) ==
  [sequence |-> sequence, at |-> at, kind |-> payload.kind, owner |-> payload.owner,
   control |-> payload.control, service |-> payload.service]

QueueInit ==
  /\ pending = {} /\ nextSequence = 1
  /\ delivered = None
  /\ saved = [pending |-> {}, nextSequence |-> 1]

QueueEnqueue(payload, at) ==
  /\ HasRoom(pending) /\ nextSequence <= MaxSequence
  /\ pending' = pending \cup {Stamp(payload, at, nextSequence)}
  /\ nextSequence' = nextSequence + 1
  /\ UNCHANGED <<delivered, saved>>

QueuePop(now) ==
  \E e \in Ready(pending, now) :
    /\ pending' = pending \ {e}
    /\ delivered' = e
    /\ UNCHANGED <<nextSequence, saved>>

QueueDrop(kept) ==
  /\ pending' = kept
  /\ UNCHANGED <<nextSequence, delivered, saved>>

\* SnapshotInto and Restore around a transaction that failed.
QueueSave ==
  /\ saved' = [pending |-> pending, nextSequence |-> nextSequence]
  /\ UNCHANGED <<pending, nextSequence, delivered>>

QueueRollback ==
  /\ pending' = saved.pending /\ nextSequence' = saved.nextSequence
  /\ UNCHANGED <<delivered, saved>>

QueueNext ==
  \/ QueueRollback
  \/ QueueSave
  \/ \E payload \in Payloads, at \in Times : QueueEnqueue(payload, at)
  \/ \E now \in Times : QueuePop(now)
  \/ \E payload \in Payloads :
       \/ QueueDrop(DropPendingLifecycle(pending, payload.owner))
       \/ QueueDrop(DropOwner(pending, payload.owner))
       \/ QueueDrop(RemoveService(pending, payload.service))

QueueSpec == QueueInit /\ [][QueueNext]_queueVars
=============================================================================
