---------------------------- MODULE Coordinator ----------------------------
(***************************************************************************)
(* The runtime coordinator (runtime/coordinator.go): adapters (one guest   *)
(* program each) are registered under owner IDs that are never reused;     *)
(* each has a lifecycle, an instruction and a callback budget per quantum, *)
(* and announces its lifecycle on the shared event bus.  The bus is the    *)
(* set of EventQueue; other services fill it too, and the guest drains it. *)
(***************************************************************************)
EXTENDS EventQueue

CONSTANTS
  MaxOwner,          \* math.MaxUint32, the owner ID Register never hands out
  MaxAdapters, DefaultRunBudget, MaxRunBudget, MaxCallbacks,  \* the limits
  Minimums,          \* budgets RaiseRunBudget is called with
  MaxSequence        \* bound on the events ever enqueued

ASSUME CoordinatorAssumption ==
  /\ MaxOwner \in Nat \ {0} /\ MaxAdapters \in Nat \ {0}
  /\ DefaultRunBudget \in Nat \ {0} /\ MaxRunBudget \in Nat
  /\ DefaultRunBudget <= MaxRunBudget
  /\ MaxCallbacks \in Nat \ {0}
  /\ Minimums \subseteq Nat
  /\ MaxSequence \in Nat

VARIABLES
  adapters,           \* by owner; NoAdapter where no adapter is registered
  nextOwner,
  foregroundOwner, presentationOwner, schedulerCursor,   \* 0: none
  pending,            \* the event bus
  nextSequence,
  taken,              \* ghost: sequence of the last lifecycle record delivered
                      \* to, or dropped with, an owner
  overtook            \* ghost: the owners scheduled while this one was runnable

coordinatorVars ==
  <<adapters, nextOwner, foregroundOwner, presentationOwner, schedulerCursor>>
busVars == <<pending, nextSequence, taken>>
vars == <<coordinatorVars, busVars, overtook>>

Owners == 1 .. MaxOwner - 1
States == {"loaded", "ready", "running", "paused", "background", "stopped",
           "faulted", "destroyed"}

NoAdapter ==
  [lifecycle |-> "none", runBudget |-> 0, budgetUsed |-> 0, callbackCount |-> 0,
   lastSequence |-> 0, fault |-> FALSE]

Registered(owner) == adapters[owner] # NoAdapter
RegisteredOwners == {owner \in Owners : Registered(owner)}
Lifecycle(owner) == adapters[owner].lifecycle

Runnable(owner) ==
  /\ Lifecycle(owner) = "running"
  /\ adapters[owner].budgetUsed < adapters[owner].runBudget

Event(kind, owner, value, sequence) ==
  [sequence |-> sequence, at |-> 0, kind |-> kind, owner |-> owner, value |-> value]

-----------------------------------------------------------------------------
Init ==
  /\ adapters = [owner \in Owners |-> NoAdapter]
  /\ nextOwner = 1
  /\ foregroundOwner = 0 /\ presentationOwner = 0 /\ schedulerCursor = 0
  /\ pending = {} /\ nextSequence = 1
  /\ taken = [owner \in Owners |-> 0]
  /\ overtook = [owner \in Owners |-> {}]

\* What every step other than scheduling and leaving does to the ghost: an
\* owner that stops being runnable waits for nothing.
KeepTurns ==
  overtook' = [owner \in Owners |-> IF Runnable(owner)' THEN overtook[owner] ELSE {}]

Register(budget) ==
  /\ Cardinality(RegisteredOwners) < MaxAdapters /\ nextOwner < MaxOwner
  /\ budget <= MaxRunBudget
  /\ adapters' = [adapters EXCEPT ![nextOwner] =
       [NoAdapter EXCEPT !.lifecycle = "loaded",
                         !.runBudget = IF budget = 0 THEN DefaultRunBudget ELSE budget]]
  /\ nextOwner' = nextOwner + 1
  /\ foregroundOwner' = IF foregroundOwner = 0 THEN nextOwner ELSE foregroundOwner
  /\ presentationOwner' = IF presentationOwner = 0 THEN nextOwner ELSE presentationOwner
  /\ UNCHANGED <<schedulerCursor, busVars>>
  /\ KeepTurns

RaiseRunBudget(owner, minimum) ==
  /\ Registered(owner) /\ minimum \in 1 .. MaxRunBudget
  /\ adapters[owner].runBudget < minimum
  /\ adapters' = [adapters EXCEPT ![owner].runBudget = minimum]
  /\ UNCHANGED <<nextOwner, foregroundOwner, presentationOwner, schedulerCursor, busVars>>
  /\ KeepTurns

\* firstOwner once the given owner is gone.
FirstOwner(others) ==
  IF others = {} THEN 0 ELSE CHOOSE owner \in others : \A other \in others : owner <= other

\* Mutant: the scheduler's cursor keeps pointing at the adapter that left.
UnregisterKeepsCursor(owner) ==
  LET foreground == IF foregroundOwner = owner
                    THEN FirstOwner(RegisteredOwners \ {owner}) ELSE foregroundOwner
  IN  /\ Registered(owner) /\ Lifecycle(owner) = "destroyed"
      /\ adapters' = [adapters EXCEPT ![owner] = NoAdapter]
      /\ foregroundOwner' = foreground
      /\ presentationOwner' = IF presentationOwner = owner THEN foreground ELSE presentationOwner
      /\ overtook' = [other \in Owners |-> {}]
      /\ UNCHANGED <<nextOwner, schedulerCursor, busVars>>

Unregister(owner) ==
  LET foreground == IF foregroundOwner = owner
                    THEN FirstOwner(RegisteredOwners \ {owner}) ELSE foregroundOwner
  IN  /\ Registered(owner) /\ Lifecycle(owner) = "destroyed"
      /\ adapters' = [adapters EXCEPT ![owner] = NoAdapter]
      /\ foregroundOwner' = foreground
      /\ presentationOwner' = IF presentationOwner = owner THEN foreground ELSE presentationOwner
      /\ schedulerCursor' = IF schedulerCursor = owner THEN 0 ELSE schedulerCursor
      /\ overtook' = [other \in Owners |-> {}]
      /\ UNCHANGED <<nextOwner, busVars>>

Successors ==
  [loaded |-> {"ready", "destroyed", "faulted"},
   ready |-> {"running", "stopped", "destroyed", "faulted"},
   running |-> {"paused", "background", "stopped", "faulted"},
   paused |-> {"running", "background", "stopped", "destroyed", "faulted"},
   background |-> {"running", "paused", "stopped", "destroyed", "faulted"},
   stopped |-> {"ready", "destroyed", "faulted"},
   faulted |-> {"ready", "destroyed"},
   destroyed |-> {}]

ValidLifecycleTransition(current, next) == next = current \/ next \in Successors[current]

\* Mutant: the record is enqueued first, then the owner's undelivered ones are
\* dropped.
AnnounceThenDrop(owner, state) ==
  /\ HasRoom(pending) /\ nextSequence <= MaxSequence
  /\ pending' = DropPendingLifecycle(
       pending \cup {Event("lifecycle", owner, state, nextSequence)}, owner)
  /\ nextSequence' = nextSequence + 1

\* The owner's undelivered records are dropped, then the new one is enqueued if
\* there is room.
Announce(owner, state) ==
  LET others == DropPendingLifecycle(pending, owner)
  IN  /\ HasRoom(others) /\ nextSequence <= MaxSequence
      /\ pending' = others \cup {Event("lifecycle", owner, state, nextSequence)}
      /\ nextSequence' = nextSequence + 1

\* The lifecycle is put back when the bus refuses the record; the records that
\* were dropped are not.
AnnounceRefused(owner) ==
  LET others == DropPendingLifecycle(pending, owner)
  IN  /\ ~HasRoom(others)
      /\ pending' = others
      /\ UNCHANGED <<nextSequence, adapters>>

SetLifecycle(owner, state, fault) ==
  \/ /\ Announce(owner, state)
     /\ adapters' = [adapters EXCEPT ![owner].lifecycle = state,
                                     ![owner].fault = fault,
                                     ![owner].lastSequence = nextSequence]
  \/ AnnounceRefused(owner)

\* Mutant: an adapter that recovers keeps the text of its fault.
Transition(owner, next) ==
  /\ Registered(owner) /\ ValidLifecycleTransition(Lifecycle(owner), next)
  /\ SetLifecycle(owner, next, FALSE)
  /\ UNCHANGED <<nextOwner, foregroundOwner, presentationOwner, schedulerCursor, taken>>
  /\ KeepTurns

\* A machine that closes passes no bus: nothing is announced.
TransitionUnannounced(owner, next) ==
  /\ Registered(owner) /\ ValidLifecycleTransition(Lifecycle(owner), next)
  /\ adapters' = [adapters EXCEPT ![owner].lifecycle = next, ![owner].fault = FALSE]
  /\ UNCHANGED <<nextOwner, foregroundOwner, presentationOwner, schedulerCursor, busVars>>
  /\ KeepTurns

\* Mutant: an adapter that is already destroyed can fault.
FaultAnyone(owner) ==
  /\ Registered(owner)
  /\ SetLifecycle(owner, "faulted", TRUE)
  /\ UNCHANGED <<nextOwner, foregroundOwner, presentationOwner, schedulerCursor, taken>>
  /\ KeepTurns

Fault(owner) ==
  /\ Registered(owner) /\ Lifecycle(owner) # "destroyed"
  /\ SetLifecycle(owner, "faulted", TRUE)
  /\ UNCHANGED <<nextOwner, foregroundOwner, presentationOwner, schedulerCursor, taken>>
  /\ KeepTurns

\* Selecting a foreground adapter demotes the one that was running in front.
SetForeground(owner) ==
  /\ Registered(owner) /\ Lifecycle(owner) \notin {"destroyed", "faulted"}
  /\ adapters' = [o \in Owners |->
       IF o = foregroundOwner /\ o # owner /\ Lifecycle(o) = "running"
         THEN [adapters[o] EXCEPT !.lifecycle = "background"]
       ELSE IF o = owner /\ Lifecycle(o) = "background"
         THEN [adapters[o] EXCEPT !.lifecycle = "paused"]
       ELSE adapters[o]]
  /\ foregroundOwner' = owner
  /\ UNCHANGED <<nextOwner, presentationOwner, schedulerCursor, busVars>>
  /\ KeepTurns

LeaveForeground(owner) ==
  /\ Registered(owner) /\ Lifecycle(owner) \notin {"destroyed", "faulted"}
  /\ foregroundOwner = owner
  /\ foregroundOwner' = 0
  /\ adapters' = IF Lifecycle(owner) \in {"running", "paused"}
                 THEN [adapters EXCEPT ![owner].lifecycle = "background"] ELSE adapters
  /\ UNCHANGED <<nextOwner, presentationOwner, schedulerCursor, busVars>>
  /\ KeepTurns

SetPresentationOwner(owner) ==
  /\ owner \in {0} \cup {o \in RegisteredOwners : Lifecycle(o) \notin {"destroyed", "faulted"}}
  /\ presentationOwner' = owner
  /\ UNCHANGED <<adapters, nextOwner, foregroundOwner, schedulerCursor, busVars>>
  /\ KeepTurns

\* Mutant: every quantum starts again with the first owner.
BeginQuantumRestarts ==
  /\ adapters' = [owner \in Owners |->
       [adapters[owner] EXCEPT !.budgetUsed = 0, !.callbackCount = 0]]
  /\ schedulerCursor' = 0
  /\ UNCHANGED <<nextOwner, foregroundOwner, presentationOwner, busVars>>
  /\ KeepTurns

BeginQuantum ==
  /\ adapters' = [owner \in Owners |->
       [adapters[owner] EXCEPT !.budgetUsed = 0, !.callbackCount = 0]]
  /\ UNCHANGED <<nextOwner, foregroundOwner, presentationOwner, schedulerCursor, busVars>>
  /\ KeepTurns

\* Mutant: the request is compared with the whole budget, not what is left.
Consume(owner, instructions) ==
  /\ Registered(owner) /\ Lifecycle(owner) = "running"
  /\ instructions <= adapters[owner].runBudget - adapters[owner].budgetUsed
  /\ adapters' = [adapters EXCEPT ![owner].budgetUsed = @ + instructions]
  /\ UNCHANGED <<nextOwner, foregroundOwner, presentationOwner, schedulerCursor, busVars>>
  /\ KeepTurns

EnterCallback(owner) ==
  /\ Registered(owner) /\ adapters[owner].callbackCount < MaxCallbacks
  /\ adapters' = [adapters EXCEPT ![owner].callbackCount = @ + 1]
  /\ UNCHANGED <<nextOwner, foregroundOwner, presentationOwner, schedulerCursor, busVars>>
  /\ KeepTurns

\* The first runnable owner after the cursor, wrapping around.
NextAfterCursor(owner) ==
  /\ Runnable(owner)
  /\ \A other \in Owners : Runnable(other) =>
       IF owner > schedulerCursor THEN other > schedulerCursor => owner <= other
                                  ELSE other <= schedulerCursor /\ owner <= other

NextRunnable(owner) ==
  /\ NextAfterCursor(owner)
  /\ schedulerCursor' = owner
  /\ overtook' = [other \in Owners |->
       IF other # owner /\ Runnable(other) THEN overtook[other] \cup {owner} ELSE {}]
  /\ UNCHANGED <<adapters, nextOwner, foregroundOwner, presentationOwner, busVars>>

-----------------------------------------------------------------------------
(* The event bus: the other services' events, the guest, a title's end. *)

Produce(owner) ==
  /\ Registered(owner) /\ HasRoom(pending) /\ nextSequence <= MaxSequence
  /\ pending' = pending \cup {Event("input", owner, "none", nextSequence)}
  /\ nextSequence' = nextSequence + 1
  /\ UNCHANGED <<coordinatorVars, taken, overtook>>

PopReady ==
  \E e \in Ready(pending, 0) :
    /\ pending' = pending \ {e}
    /\ taken' = IF e.kind = "lifecycle" THEN [taken EXCEPT ![e.owner] = e.sequence] ELSE taken
    /\ UNCHANGED <<coordinatorVars, nextSequence, overtook>>

EndTitle(owner) ==
  /\ Registered(owner)
  /\ pending' = DropOwner(pending, owner)
  /\ taken' = [taken EXCEPT ![owner] = adapters[owner].lastSequence]
  /\ UNCHANGED <<coordinatorVars, nextSequence, overtook>>

\* Lifecycle and its announcements.
AnnouncementNext ==
  \/ Register(0)
  \/ \E owner \in Owners :
       \/ Unregister(owner)
       \/ \E state \in States : Transition(owner, state)
       \/ TransitionUnannounced(owner, "destroyed")
       \/ Fault(owner)
       \/ SetForeground(owner)
       \/ LeaveForeground(owner)
       \/ Produce(owner)
       \/ EndTitle(owner)
  \/ PopReady

\* Budgets, ownership and the scheduler's turns.
BudgetNext ==
  \/ \E budget \in 0 .. MaxRunBudget : Register(budget)
  \/ \E owner \in Owners :
       \/ Unregister(owner)
       \/ \E state \in States : TransitionUnannounced(owner, state)
       \/ SetForeground(owner)
       \/ LeaveForeground(owner)
       \/ \E minimum \in Minimums : RaiseRunBudget(owner, minimum)
       \/ \E instructions \in 1 .. MaxRunBudget : Consume(owner, instructions)
       \/ EnterCallback(owner)
       \/ NextRunnable(owner)
  \/ \E owner \in 0 .. MaxOwner - 1 : SetPresentationOwner(owner)
  \/ BeginQuantum

Next == AnnouncementNext \/ BudgetNext

Spec == Init /\ [][Next]_vars

\* The checks of Coordinator.Restore on the coordinator's own snapshot, and that
\* no adapter refers to a record the bus is yet to number.
Restorable ==
  /\ Cardinality(RegisteredOwners) <= MaxAdapters
  /\ \A owner \in RegisteredOwners :
       LET adapter == adapters[owner]
       IN  /\ owner < nextOwner
           /\ adapter.lifecycle \in States
           /\ adapter.runBudget \in 1 .. MaxRunBudget
           /\ adapter.budgetUsed <= adapter.runBudget
           /\ adapter.callbackCount <= MaxCallbacks
           /\ adapter.fault => adapter.lifecycle = "faulted"
           /\ adapter.lastSequence < nextSequence
  /\ {foregroundOwner, presentationOwner, schedulerCursor} \subseteq RegisteredOwners \cup {0}

-----------------------------------------------------------------------------
(* Properties. *)

AdapterStates ==
  [lifecycle : States, runBudget : 1 .. MaxRunBudget, budgetUsed : Nat,
   callbackCount : Nat, lastSequence : Nat, fault : BOOLEAN]

Records(owner) == {e \in pending : e.kind = "lifecycle" /\ e.owner = owner}

\* The shape of the coordinator's state and of the bus it announces on.
TypeOK ==
  /\ adapters \in [Owners -> AdapterStates \cup {NoAdapter}]
  /\ nextOwner \in 1 .. MaxOwner
  /\ foregroundOwner \in 0 .. MaxOwner - 1
  /\ presentationOwner \in 0 .. MaxOwner - 1
  /\ schedulerCursor \in 0 .. MaxOwner - 1
  /\ pending \subseteq [sequence : Nat, at : {0}, kind : {"lifecycle", "input"},
                        owner : Owners, value : States \cup {"none"}]
  /\ nextSequence \in Nat \ {0}
  /\ taken \in [Owners -> Nat]
  /\ overtook \in [Owners -> SUBSET Owners]

\* A machine saved at any point can be loaded: Coordinator.Restore accepts every
\* state the operations reach, whatever left, faulted or overran in between.
SnapshotAccepted == Restorable

\* The owner's newest lifecycle record waits on the bus, alone, until it is
\* delivered or the title ends: neither a full bus, nor superseding the record
\* before it, nor a refused transition loses it (Transition and Fault drop first
\* and enqueue second).
NewestRecordSurvives ==
  \A owner \in RegisteredOwners :
    LET last == adapters[owner].lastSequence
    IN  /\ \A e \in Records(owner) : e.sequence = last
        /\ last # 0 /\ taken[owner] # last => Records(owner) # {}

\* A destroyed adapter stays destroyed until it is unregistered, and its owner
\* ID never comes back: no fault, foreground change or later registration
\* revives an owner other services may still name.
DestroyedIsFinal ==
  [][\A owner \in Owners :
       /\ Lifecycle(owner) = "destroyed" => Lifecycle(owner)' \in {"destroyed", "none"}
       /\ owner < nextOwner /\ ~Registered(owner) => ~Registered(owner)']_vars

\* Round-robin: while an adapter stays runnable no other is scheduled twice
\* before it, unless an adapter was unregistered in between (which moves the
\* cursor back to the start).
NobodyOvertakesTwice ==
  [][\A owner, other \in Owners :
       NextRunnable(owner) /\ other # owner /\ Runnable(other)
         => owner \notin overtook[other]]_vars
=============================================================================
