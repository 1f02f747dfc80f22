----------------------------- MODULE EventQueue -----------------------------
(***************************************************************************)
(* What the shared event bus promises (runtime/events.go): undelivered     *)
(* events are a set, ordered by timestamp and then by enqueue sequence,    *)
(* and the least one is delivered first, once its time has come.           *)
(*                                                                         *)
(* An event is a record with the fields sequence, at, kind and owner and,  *)
(* where a module needs them, control and service.  The modules that use   *)
(* the bus work with the operators below on the set of pending events;     *)
(* EventBus shows that the sorted slice of the code behaves like this set. *)
(***************************************************************************)
EXTENDS Naturals, FiniteSets

CONSTANT MaxEvents

ASSUME MaxEventsAssumption == MaxEvents \in Nat \ {0}

Before(e, f) == e.at < f.at \/ (e.at = f.at /\ e.sequence < f.sequence)

\* The bound Enqueue checks.
HasRoom(pending) == Cardinality(pending) < MaxEvents

IsFirst(pending, e) == e \in pending /\ \A f \in pending \ {e} : Before(e, f)

\* The event PopReady(now) delivers: none, or the first one if it is due.
Ready(pending, now) == {e \in pending : IsFirst(pending, e) /\ e.at <= now}

HasPendingRepeat(pending, owner, control) ==
  \E e \in pending : e.kind = "repeat" /\ e.owner = owner /\ e.control = control

DropPendingLifecycle(pending, owner) ==
  {e \in pending : ~(e.kind = "lifecycle" /\ e.owner = owner)}

DropOwner(pending, owner) == {e \in pending : e.owner # owner}

RemoveService(pending, service) == {e \in pending : e.service # service}
=============================================================================
