------------------------------ MODULE EventBus ------------------------------
(***************************************************************************)
(* The shared event bus as the code keeps it (runtime/events.go): a slice  *)
(* sorted by timestamp and enqueue sequence, with a binary search on       *)
(* insertion and a compacting copy on removal.  It implements              *)
(* OrderedQueue.                                                           *)
(***************************************************************************)
EXTENDS Selections

CONSTANTS Payloads, Times, MaxEvents, MaxSequence, None

ASSUME EventBusAssumption ==
  /\ MaxEvents \in Nat \ {0}
  /\ MaxSequence \in Nat \ {0}
  /\ Times \subseteq Nat

VARIABLES
  events,        \* the sorted slice
  nextSequence,  \* the sequence the next event gets
  delivered,     \* the last event PopReady returned
  saved          \* the transaction's rollback buffer (Services.rbEvents)

busVars == <<events, nextSequence, delivered, saved>>

Elements(s) == {s[i] : i \in DOMAIN s}

Queue == INSTANCE OrderedQueue WITH
  pending <- Elements(events),
  saved <- [pending |-> Elements(saved.events), nextSequence |-> saved.nextSequence]

-----------------------------------------------------------------------------
BusInit ==
  /\ events = <<>> /\ nextSequence = 1
  /\ delivered = None
  /\ saved = [events |-> <<>>, nextSequence |-> 1]

\* Mutant: an event goes in front of those with the same timestamp.
ComesAfterNewestFirst(current, event) == current.at >= event.at

\* The predicate of Enqueue's sort.Search.
ComesAfter(current, event) ==
  \/ current.at > event.at
  \/ current.at = event.at /\ current.sequence > event.sequence

\* Mutant: events are appended in the order they come.
InsertAtEnd(s, event) == Append(s, event)

\* Insert at the first index whose event comes after the new one.
Insert(s, event) ==
  LET i == CHOOSE i \in 1 .. Len(s) + 1 :
             /\ \A j \in 1 .. i - 1 : ~ComesAfter(s[j], event)
             /\ i <= Len(s) => ComesAfter(s[i], event)
  IN  InsertedAt(s, i, event)

Enqueue(payload, at) ==
  /\ Len(events) < MaxEvents /\ nextSequence <= MaxSequence
  /\ events' = Insert(events, Queue!Stamp(payload, at, nextSequence))
  /\ nextSequence' = nextSequence + 1
  /\ UNCHANGED <<delivered, saved>>

PopReady(now) ==
  /\ events # <<>> /\ Head(events).at <= now
  /\ delivered' = Head(events)
  /\ events' = Tail(events)
  /\ UNCHANGED <<nextSequence, saved>>

\* DropPendingLifecycle, DropOwner and RemoveService keep the other events in
\* order.
Compact(dropped) ==
  /\ events' = Pick(events, {i \in DOMAIN events : events[i] \notin dropped})
  /\ UNCHANGED <<nextSequence, delivered, saved>>

DropPendingLifecycle(owner) ==
  Compact({e \in Elements(events) : e.kind = "lifecycle" /\ e.owner = owner})

DropOwner(owner) == Compact({e \in Elements(events) : e.owner = owner})

RemoveService(service) == Compact({e \in Elements(events) : e.service = service})

SnapshotInto ==
  /\ saved' = [events |-> events, nextSequence |-> nextSequence]
  /\ UNCHANGED <<events, nextSequence, delivered>>

\* The checks of Restore: bounded, sequences already handed out and distinct,
\* strictly increasing by timestamp and sequence.
BusAccepts(state) ==
  /\ Len(state.events) <= MaxEvents
  /\ \A i \in 1 .. Len(state.events) :
       /\ state.events[i].sequence \in 1 .. state.nextSequence - 1
       /\ \A j \in 1 .. i - 1 : state.events[j].sequence # state.events[i].sequence
       /\ i # 1 => ComesAfter(state.events[i], state.events[i - 1])

\* Rollback: callers discard Restore's error, so a snapshot it refuses leaves
\* the bus as the failed transaction left it.
BusRestore ==
  /\ \/ /\ BusAccepts(saved)
        /\ events' = saved.events /\ nextSequence' = saved.nextSequence
     \/ /\ ~BusAccepts(saved)
        /\ UNCHANGED <<events, nextSequence>>
  /\ UNCHANGED <<delivered, saved>>

BusNext ==
  \/ \E payload \in Payloads, at \in Times : Enqueue(payload, at)
  \/ \E now \in Times : PopReady(now)
  \/ \E payload \in Payloads :
       \/ DropPendingLifecycle(payload.owner)
       \/ DropOwner(payload.owner)
       \/ RemoveService(payload.service)
  \/ SnapshotInto
  \/ BusRestore

BusSpec == BusInit /\ [][BusNext]_busVars

-----------------------------------------------------------------------------
(* Properties. *)

\* The sorted slice behaves like the set of pending events with the least one
\* delivered first: insertion, compaction, delivery and rollback together never
\* reorder, lose or repeat an event.
ImplementsQueue == Queue!QueueSpec

\* The bus can always be rebuilt from its own snapshot: Restore never refuses a
\* state Enqueue, PopReady, the drops and rollback can reach, so the rollback
\* that discards Restore's error really happens.
SnapshotAccepted ==
  /\ BusAccepts([events |-> events, nextSequence |-> nextSequence])
  /\ BusAccepts(saved)
=============================================================================
